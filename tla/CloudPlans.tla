----------------------------- MODULE CloudPlans -----------------------------
(***************************************************************************)
(* One account's plans in the cloud: the rows `POST /api/cli/sync` writes  *)
(* (ee/convex/cli.ts), their version history and its retention             *)
(* (planVersioning.ts), and the web app's edits, restores, publications    *)
(* and remembered reads (plans.ts, planVersions.ts, planReads.ts).         *)
(*                                                                         *)
(* The sync endpoint is an action, not a transaction: up to three queries  *)
(* look for the plan's row, the handler decides on the copy it got, and    *)
(* one mutation applies the decision.  Each query and each mutation is one *)
(* transaction, so other requests run in between.                          *)
(*                                                                         *)
(* A text stands for a title, a body and a format together; all texts of a *)
(* plan keep its agent and title, which the duplicate tests compare too.   *)
(* Plannotator continuity keys, the third way to look a plan up, work as   *)
(* identity keys do and are left out; so are the byte budget that may stop *)
(* a retention pass early and the repair of histories from older releases. *)
(***************************************************************************)
EXTENDS Integers, FiniteSets

CONSTANTS
    RowIds,       \* identities of plan rows, in creation order
    Requests,     \* sync requests in flight at once
    Locals,       \* localPlanId: a plan file on one device
    Keys,         \* syncIdentityKey
    NoKey,        \* a plan whose identity is its content only
    KeyOf,        \* the identity key computed for each local plan
    Texts,        \* what a plan may say
    LowValue,     \* the texts the plan-value classifier rejects
    HashOf,       \* contentHash: texts that differ in layout only share it
    NoHash,       \* contentHash of a row the sync never wrote
    Unborn,       \* a row not inserted yet
    Gone,         \* a deleted row
    Retention,    \* PLAN_VERSION_RETENTION
    PruneBatch,   \* PLAN_VERSION_PRUNE_BATCH
    MaxVersion,   \* bound: no new write begins once a row has it
    MaxTime       \* bound on the clock

ASSUME RowsAssumption == RowIds \subseteq Nat
ASSUME KeyAssumption == KeyOf \in [Locals -> Keys \cup {NoKey}] /\ LowValue \subseteq Texts
ASSUME HashAssumption == DOMAIN HashOf = Texts /\ NoHash \notin Texts
ASSUME MarkersAssumption == NoKey \notin Keys
ASSUME RetentionAssumption == Retention \in Nat \ {0} /\ PruneBatch \in Nat \ {0, 1}

VARIABLES
    rows,      \* RowIds -> a row, Unborn or Gone
    history,   \* RowIds -> set of [version, text]: planVersions
    lastRead,  \* RowIds -> the version the owner read last and what it showed
    reqs,      \* Requests -> where each request is
    now        \* Date.now()

vars == <<rows, history, lastRead, reqs, now>>

Unread == [version |-> 0]
Idle == [pc |-> "idle"]

Live == {r \in RowIds : rows[r] \notin {Unborn, Gone}}

Hashes == {HashOf[text] : text \in Texts} \cup {NoHash}

Row == [local : Locals, key : Keys \cup {NoKey}, text : Texts,
        hash : Hashes, at : Nat, version : Nat \ {0}]

ASSUME LifeAssumption == Unborn \notin Row /\ Gone \notin Row /\ Unborn # Gone

(* .first() on an index: rows with equal keys are ordered by creation. *)
IsFirst(r, S) == r \in S /\ \A s \in S : r <= s

Init ==
    /\ rows = [r \in RowIds |-> Unborn]
    /\ history = [r \in RowIds |-> {}]
    /\ lastRead = [r \in RowIds |-> Unread]
    /\ reqs = [q \in Requests |-> Idle]
    /\ now = 1

-----------------------------------------------------------------------------
(* Version history *)

(* The n entries of S with the lowest versions. *)
Oldest(S, n) == {e \in S : Cardinality({f \in S : f.version < e.version}) < n}

(* Mutant: the baseline of the last read is pruned with the rest. *)
PrunedAll(h, latest, protected) == {e \in h : e.version > latest - Retention}

(* Mutant: only the oldest entry is looked at, which may be the baseline. *)
PrunedOldestOnly(h, latest, protected) ==
    h \ {e \in Oldest({e \in h : e.version <= latest - Retention}, 1) : e.version # protected}

(* prunePlanVersions: the oldest entries out of the window, one batch at a *)
(* time, never the version the owner read last.                            *)
Pruned(h, latest, protected) ==
    LET candidates == Oldest({e \in h : e.version <= latest - Retention}, PruneBatch + 1)
    IN  h \ Oldest({e \in candidates : e.version # protected}, PruneBatch)

(* recordPlanVersion *)
Recorded(h, version, text, protected) ==
    Pruned(h \cup {[version |-> version, text |-> text]}, version, protected)

(* ensureBaselinePlanVersion: a plan never snapshotted keeps its old text. *)
Baselined(h, row, protected) ==
    IF h = {} THEN Recorded(h, row.version, row.text, protected) ELSE h

(* Mutant: the version is not bumped. *)
RewriteInPlace(r, row, text) ==
    /\ rows' = [rows EXCEPT ![r] = [row EXCEPT !.text = text]]
    /\ history' = [history EXCEPT ![r] =
         Recorded(@, rows[r].version, text, lastRead[r].version)]
    /\ UNCHANGED lastRead

(* A text goes into row r as a new version, with the other fields of `row`. *)
Rewrite(r, row, text) ==
    /\ rows' = [rows EXCEPT ![r] = [row EXCEPT !.text = text, !.version = rows[r].version + 1]]
    /\ history' = [history EXCEPT ![r] =
         Recorded(Baselined(@, rows[r], lastRead[r].version),
                  rows[r].version + 1, text, lastRead[r].version)]
    /\ UNCHANGED lastRead

Insert(row) ==
    /\ \E r \in RowIds :
          /\ IsFirst(r, {s \in RowIds : rows[s] = Unborn})
          /\ rows' = [rows EXCEPT ![r] = row]
          /\ history' = [history EXCEPT ![r] = Recorded({}, 1, row.text, 0)]
    /\ UNCHANGED lastRead

KeepPlans == UNCHANGED <<rows, history, lastRead>>

-----------------------------------------------------------------------------
(* POST /api/cli/sync *)

RoomToWrite == \A r \in Live : rows[r].version < MaxVersion

Bodies == [local : Locals, text : Texts, at : 1 .. now]

Receive(q, body) ==
    /\ reqs[q] = Idle
    /\ RoomToWrite
    /\ reqs' = [reqs EXCEPT ![q] = [pc |-> "byLocal", body |-> body]]
    /\ KeepPlans /\ UNCHANGED now

(* One query of the handler: the first match, as it is now, or the next.   *)
Query(q, stage, matches, onMiss) ==
    /\ reqs[q].pc = stage
    /\ \/ /\ matches = {}
          /\ reqs' = [reqs EXCEPT ![q] = [pc |-> onMiss, body |-> reqs[q].body]]
       \/ \E r \in matches :
             /\ IsFirst(r, matches)
             /\ reqs' = [reqs EXCEPT ![q] =
                  [pc |-> "found", body |-> reqs[q].body, id |-> r, seen |-> rows[r]]]
    /\ KeepPlans /\ UNCHANGED now

WithLocal(local) == {r \in Live : rows[r].local = local}

FindByLocal(q) ==
    Query(q, "byLocal", WithLocal(reqs[q].body.local),
          IF KeyOf[reqs[q].body.local] = NoKey THEN "byHash" ELSE "byKey")

FindByKey(q) ==
    Query(q, "byKey", {r \in Live : rows[r].key = KeyOf[reqs[q].body.local]}, "byHash")

FindByHash(q) ==
    Query(q, "byHash", {r \in Live : rows[r].hash = HashOf[reqs[q].body.text]}, "missing")

(* The handler's copy of the row says the same already. *)
ExactDuplicate(q) ==
    /\ reqs[q].pc = "found"
    /\ \/ reqs[q].seen.hash = HashOf[reqs[q].body.text]
       \/ reqs[q].seen.text = reqs[q].body.text

Stale(q) ==
    /\ reqs[q].pc = "found"
    /\ reqs[q].body.at < reqs[q].seen.at

(* patchPlanSyncIdentity *)
Identified(row, body) ==
    [row EXCEPT !.key = KeyOf[body.local], !.hash = HashOf[body.text]]

PatchIdentity(q, row) ==
    /\ IF rows[reqs[q].id] = Gone
       THEN UNCHANGED rows
       ELSE rows' = [rows EXCEPT ![reqs[q].id] = row]
    /\ UNCHANGED <<history, lastRead>>

(* Mutant: the mutation trusts the queries and never looks again. *)
TargetUnchecked(q) == IF reqs[q].pc = "found" THEN {reqs[q].id} ELSE {}

(* upsertPlan: the row the handler found, or the one another request of    *)
(* this local plan inserted since.                                         *)
Target(q) == IF reqs[q].pc = "found" THEN {reqs[q].id} ELSE WithLocal(reqs[q].body.local)

InsertNew(q) ==
    LET body == reqs[q].body
    IN  Insert([local |-> body.local, key |-> KeyOf[body.local], text |-> body.text,
                hash |-> HashOf[body.text], at |-> body.at, version |-> 1])

(* Mutant: the last request of a race wins. *)
NeverLosesRace(q, r) == FALSE

(* The raced row is newer: keep it. *)
LosesRace(q, r) == reqs[q].pc = "missing" /\ reqs[q].body.at < rows[r].at

(* planContentChanged decides between a new version and a plain patch. *)
Update(q, r) ==
    LET body == reqs[q].body
        row == [Identified(rows[r], body) EXCEPT !.at = body.at]
    IN  IF body.text = rows[r].text
        THEN rows' = [rows EXCEPT ![r] = row] /\ UNCHANGED <<history, lastRead>>
        ELSE Rewrite(r, row, body.text)

Upsert(q) ==
    \/ Target(q) = {} /\ InsertNew(q)
    \/ \E r \in Target(q) : rows[r] # Gone /\ ~LosesRace(q, r) /\ Update(q, r)
    \/ \E r \in Target(q) : (rows[r] = Gone \/ LosesRace(q, r)) /\ KeepPlans

(* A plan's deletion with all that hangs on it.  Most of its history is    *)
(* deleted by a later job; no row is there to show it meanwhile.           *)
DeleteRow(r) ==
    /\ rows' = [rows EXCEPT ![r] = Gone]
    /\ history' = [history EXCEPT ![r] = {}]
    /\ lastRead' = [lastRead EXCEPT ![r] = Unread]

(* deleteSyncedPlan, when the copy of the row said what the low-value plan *)
(* says.                                                                   *)
Prune(q) ==
    IF ExactDuplicate(q) /\ rows[reqs[q].id] # Gone
    THEN DeleteRow(reqs[q].id)
    ELSE KeepPlans

(* The decision on what the queries returned, and the mutation it calls. *)
Apply(q) ==
    LET body == reqs[q].body
    IN  IF body.text \in LowValue THEN Prune(q)
        ELSE IF ExactDuplicate(q)
        THEN PatchIdentity(q, [Identified(rows[reqs[q].id], body) EXCEPT !.at = body.at])
        ELSE IF Stale(q)
        THEN PatchIdentity(q, Identified(rows[reqs[q].id], body))
        ELSE Upsert(q)

Mutate(q) ==
    /\ reqs[q].pc \in {"found", "missing"}
    /\ Apply(q)
    /\ reqs' = [reqs EXCEPT ![q] = Idle]
    /\ UNCHANGED now

-----------------------------------------------------------------------------
(* The web app *)

(* updatePlanContent *)
Edit(r, text) ==
    /\ r \in Live /\ RoomToWrite
    /\ text # rows[r].text
    /\ Rewrite(r, [rows[r] EXCEPT !.at = now], text)
    /\ UNCHANGED <<reqs, now>>

(* planVersions.restore, also when the plan says that already *)
Restore(r, e) ==
    /\ r \in Live /\ RoomToWrite
    /\ e \in history[r] /\ e.text \notin LowValue
    /\ Rewrite(r, [rows[r] EXCEPT !.at = now], e.text)
    /\ UNCHANGED <<reqs, now>>

(* publishPlanDocument: a row it inserts has no key and no hash. *)
Publish(local, text) ==
    /\ RoomToWrite
    /\ \/ /\ WithLocal(local) = {}
          /\ Insert([local |-> local, key |-> NoKey, text |-> text,
                     hash |-> NoHash, at |-> now, version |-> 1])
       \/ \E r \in WithLocal(local) :
             text # rows[r].text /\ Rewrite(r, [rows[r] EXCEPT !.at = now], text)
    /\ UNCHANGED <<reqs, now>>

(* deletePlan *)
Delete(r) ==
    /\ r \in Live
    /\ DeleteRow(r)
    /\ UNCHANGED <<reqs, now>>

(* planReads.open: the mutation refuses any other revision than the row's. *)
Open(r) ==
    /\ r \in Live
    /\ lastRead' = [lastRead EXCEPT ![r] = [version |-> rows[r].version, text |-> rows[r].text]]
    /\ UNCHANGED <<rows, history, reqs, now>>

(* planReads.clear *)
Forget(r) ==
    /\ r \in Live
    /\ lastRead' = [lastRead EXCEPT ![r] = Unread]
    /\ UNCHANGED <<rows, history, reqs, now>>

Tick ==
    /\ now < MaxTime
    /\ now' = now + 1
    /\ UNCHANGED <<rows, history, lastRead, reqs>>

Sync(q) ==
    \/ \E body \in Bodies : Receive(q, body)
    \/ FindByLocal(q)
    \/ FindByKey(q)
    \/ FindByHash(q)
    \/ Mutate(q)

Web ==
    \/ \E r \in RowIds, text \in Texts : Edit(r, text)
    \/ \E r \in RowIds : \E e \in history[r] : Restore(r, e)
    \/ \E local \in Locals, text \in Texts : Publish(local, text)
    \/ \E r \in RowIds : Delete(r) \/ Open(r) \/ Forget(r)

Next ==
    \/ \E q \in Requests : Sync(q)
    \/ Web
    \/ Tick

Spec == Init /\ [][Next]_vars

-----------------------------------------------------------------------------
(* Properties *)

Body == [local : Locals, text : Texts, at : Nat]

Request ==
    {Idle}
    \cup [pc : {"byLocal", "byKey", "byHash", "missing"}, body : Body]
    \cup [pc : {"found"}, body : Body, id : RowIds, seen : Row]

WellTyped ==
    /\ rows \in [RowIds -> Row \cup {Unborn, Gone}]
    /\ history \in [RowIds -> SUBSET [version : Nat \ {0}, text : Texts]]
    /\ lastRead \in [RowIds -> [version : Nat \ {0}, text : Texts] \cup {Unread}]
    /\ reqs \in [Requests -> Request]
    /\ now \in Nat

(* The state is well formed: every row, version and request has its        *)
(* fields, and a history stays within the retention window plus the        *)
(* baseline, however often the plan is written.                            *)
TypeOK ==
    /\ WellTyped
    /\ \A r \in RowIds : Cardinality(history[r]) <= Retention + 1

(* Concurrent first syncs and publications of one local plan converge on a *)
(* single row, though each looked it up before the others inserted it      *)
(* (upsertPlan's second look).                                             *)
OneRowPerLocal ==
    \A r, s \in Live : rows[r].local = rows[s].local => r = s

(* The history always holds the live text under the live version, and      *)
(* nothing newer: a diff against the latest version is empty, and the next *)
(* write cannot collide with a version that exists (recordPlanVersion).    *)
HistoryIsCurrent ==
    \A r \in Live :
        /\ [version |-> rows[r].version, text |-> rows[r].text] \in history[r]
        /\ \A e \in history[r] :
              /\ e.version <= rows[r].version
              /\ e.version = rows[r].version => e.text = rows[r].text

(* The baseline of "changes since last read" is exactly what the owner saw, *)
(* however many syncs and edits pruned the history since                    *)
(* (prunePlanVersions' protected version).                                  *)
BaselineIsKept ==
    \A r \in Live : lastRead[r] # Unread => lastRead[r] \in history[r]

(* A version, once recorded, never changes what it says. *)
HistoryIsImmutable ==
    [][\A r \in RowIds : \A e \in history[r], f \in history'[r] :
         e.version = f.version => e = f]_vars

(* A first sync that lost the race to a newer request of its local plan    *)
(* leaves the newer content alone (cliSync.vitest.ts, "an older first sync *)
(* that loses the race does not overwrite newer content").                 *)
LateFirstSyncKeepsNewer ==
    [][\A q \in Requests, r \in RowIds :
         reqs[q].pc = "missing" /\ reqs'[q] = Idle /\ r \in Live
             => \/ rows'[r] = rows[r]
                \/ reqs[q].body.at >= rows[r].at]_vars
=============================================================================
