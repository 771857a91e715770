-------------------------- MODULE ApprovalSessions --------------------------
(***************************************************************************)
(* The in-memory store behind the plan-approval gate of the local API      *)
(* (packages/app/src/server/approval-sessions.ts).  A waiting agent hook   *)
(* registers one immutable snapshot of a plan; a reviewer decides on it;   *)
(* the hook acknowledges the decision before it answers the agent.         *)
(*                                                                         *)
(* Every method of the class is one action: JavaScript runs it to its end, *)
(* so a request is handled atomically.  A method starts with sweep(), even *)
(* when it then refuses the request, so every action starts from Swept.    *)
(* Requests come from anybody: any id, owner key and revision.             *)
(***************************************************************************)
EXTENDS Integers, FiniteSets

CONSTANTS
    Ids,            \* session ids (random UUIDs)
    Owners,         \* owner keys; the store keeps their hash
    Revisions,      \* content hashes of plan snapshots
    Requests,       \* the (agent, agent session) a snapshot was submitted for
    Feedbacks,      \* non-empty review texts
    NoFeedback,     \* an absent feedback
    Lease,          \* LEASE_MS
    Retention,      \* RETENTION_MS
    MaxTimeout,     \* the longest timeoutMs a request may ask for
    Capacity,       \* 200 in the code
    MaxTime,        \* bound of the model: the last instant of the clock
    MaxCreated      \* bound of the model: how many sessions are ever inserted

ASSUME FeedbackAssumption == NoFeedback \notin Feedbacks
ASSUME TimeAssumption ==
    /\ Lease \in Nat /\ Retention \in Nat /\ MaxTimeout \in Nat
    /\ MaxTime \in Nat /\ MaxCreated \in Nat
ASSUME CapacityAssumption == IsFiniteSet(Ids) /\ Capacity \in Nat \ {0}

VARIABLES
    rows,       \* the Map: a function from the ids present to their sessions
    now,        \* Date.now(), assumed never to run backwards
    created     \* how many sessions were inserted; orders the Map's entries

vars == <<rows, now, created>>

Decisions == {"approved", "changes_requested", "rejected"}
Statuses  == Decisions \cup
    {"pending", "cancelled", "expired", "disconnected", "superseded"}
Never     == -1            \* acknowledgedAt === undefined
Present   == DOMAIN rows

Row == [owner : Owners, request : Requests, revision : Revisions,
        status : Statuses, feedback : Feedbacks \cup {NoFeedback},
        expiresAt : Nat, heartbeatAt : Nat,
        acknowledgedAt : Nat \cup {Never}, rank : Nat]

Live(row)   == row.status \in Decisions \cup {"pending"}
Acked(row)  == row.acknowledgedAt # Never
\* A row counts against the capacity while its review or its decision is live.
Active(row) == Live(row) /\ ~Acked(row)

-----------------------------------------------------------------------------
(* sweep(): expire, disconnect, forget.                                    *)
\* Mutant: the sweep only looks at undecided reviews.
SweptStatusPendingOnly(row) ==
    IF row.status # "pending" THEN row.status
    ELSE IF now >= row.expiresAt THEN "expired"
    ELSE IF now - row.heartbeatAt >= Lease THEN "disconnected"
    ELSE row.status

SweptStatus(row) ==
    IF ~Active(row) THEN row.status
    ELSE IF now >= row.expiresAt THEN "expired"
    ELSE IF now - row.heartbeatAt >= Lease THEN "disconnected"
    ELSE row.status

\* Mutant: the retention counts from the last heartbeat.
ForgottenEarly(row) == now >= row.heartbeatAt + Retention

Forgotten(row) == now > row.expiresAt + Retention

Swept == [i \in {j \in Present : ~Forgotten(rows[j])} |->
             [rows[i] EXCEPT !.status = SweptStatus(rows[i])]]

Without(rs, victims) == [i \in DOMAIN rs \ victims |-> rs[i]]
With(rs, id, row)    == [i \in DOMAIN rs \cup {id} |-> IF i = id THEN row ELSE rs[i]]

\* The 404 and 403 answers: sweep() happened, nothing else did.
Found(id)          == id \in DOMAIN Swept
Permitted(id, own) == Found(id) /\ Swept[id].owner = own

\* Store the row a permitted handler leaves behind, or the swept map alone.
Update(id, ok, row) ==
    /\ rows' = IF ok THEN With(Swept, id, row) ELSE Swept
    /\ UNCHANGED <<now, created>>

-----------------------------------------------------------------------------
(* create(): idempotent for one request, refused when the queue is full of *)
(* live reviews, otherwise evicting the oldest inactive entry of the Map.  *)
\* Mutant: admit one session too many.
OverFull == Cardinality(DOMAIN Swept) > Capacity

FirstInactive(rs, v) ==
    /\ v \in DOMAIN rs /\ ~Active(rs[v])
    /\ \A w \in DOMAIN rs : ~Active(rs[w]) => rs[v].rank <= rs[w].rank

Full == Cardinality(DOMAIN Swept) >= Capacity
Evicted == IF Full THEN {v \in DOMAIN Swept : FirstInactive(Swept, v)} ELSE {}
CanCreate(id) == ~Found(id) /\ (Full => \E v \in DOMAIN Swept : ~Active(Swept[v]))

SameRequest(id, own, req, rev) ==
    Permitted(id, own) /\ Swept[id].request = req /\ Swept[id].revision = rev

\* Mutant: a session is stamped with its successor's place in the Map.
NewRowUnstamped(own, req, rev, timeout) ==
    [owner |-> own, request |-> req, revision |-> rev, status |-> "pending",
     feedback |-> NoFeedback, expiresAt |-> now + timeout, heartbeatAt |-> now,
     acknowledgedAt |-> Never, rank |-> created + 1]

NewRow(own, req, rev, timeout) ==
    [owner |-> own, request |-> req, revision |-> rev, status |-> "pending",
     feedback |-> NoFeedback, expiresAt |-> now + timeout, heartbeatAt |-> now,
     acknowledgedAt |-> Never, rank |-> created]

Create(id, own, req, rev, timeout) ==
    IF CanCreate(id)
    THEN /\ created < MaxCreated
         /\ rows' = With(Without(Swept, Evicted), id, NewRow(own, req, rev, timeout))
         /\ created' = created + 1
         /\ UNCHANGED now
    ELSE rows' = Swept /\ UNCHANGED <<now, created>>

(* list(): what the reviewer's page polls; it sweeps too.                  *)
List == rows' = Swept /\ UNCHANGED <<now, created>>

(* heartbeat(): renews the lease, and gives the review up as superseded    *)
(* when the plan file no longer has the revision under review.             *)
AfterHeartbeat(row, rev) ==
    [row EXCEPT
        !.heartbeatAt = now,
        !.status = IF /\ rev # row.revision /\ ~Acked(row)
                      /\ row.status \notin {"expired", "disconnected", "cancelled"}
                   THEN "superseded" ELSE row.status]

Heartbeat(id, own, rev) ==
    Update(id, Permitted(id, own), AfterHeartbeat(Swept[id], rev))

(* decide(): the reviewer's verdict on the revision the page displayed.    *)
\* Mutant: a decided review may be decided again.
CanDecideAgain(id, rev, d, f) ==
    /\ Found(id) /\ rev = Swept[id].revision
    /\ d = "approved" \/ f # NoFeedback
    /\ Live(Swept[id])

\* Mutant: the revision the page displayed is not compared.
CanDecideBlindly(id, rev, d, f) ==
    /\ Found(id) /\ (d = "approved" \/ f # NoFeedback)
    /\ Swept[id].status = "pending"
CanDecide(id, rev, d, f) ==
    /\ Found(id) /\ rev = Swept[id].revision
    /\ d = "approved" \/ f # NoFeedback
    /\ Swept[id].status = "pending"

AfterDecision(row, d, f) == [row EXCEPT !.status = d, !.feedback = f]

Decide(id, rev, d, f) ==
    Update(id, CanDecide(id, rev, d, f), AfterDecision(Swept[id], d, f))

(* cancel(): by the owner, or from the reviewer's page without a key.      *)
\* Mutant: only an undecided review is cancelled.
AfterCancelUndecided(row) ==
    [row EXCEPT !.status = IF row.status = "pending" THEN "cancelled" ELSE row.status]
AfterCancel(row) ==
    [row EXCEPT !.status = IF row.status \in {"expired", "disconnected", "superseded"}
                           THEN row.status ELSE "cancelled"]

\* Mutant: a cancel is not refused once the decision was delivered.
CanCancelDelivered(id) == Found(id)

CanCancel(id) == Found(id) /\ ~Acked(Swept[id])

Cancel(id)         == Update(id, CanCancel(id), AfterCancel(Swept[id]))
OwnerCancel(id, own) ==
    Update(id, Permitted(id, own) /\ CanCancel(id), AfterCancel(Swept[id]))

(* acknowledge(): the hook takes delivery of a live decision.  A revision  *)
(* that moved on is refused, and the refusal marks the row superseded.     *)
\* Mutant: the status is not looked at, so a cancelled review can be delivered.
CanAcknowledgeAnyStatus(id, own, rev) ==
    Permitted(id, own) /\ rev = Swept[id].revision

CanAcknowledge(id, own, rev) ==
    /\ Permitted(id, own) /\ rev = Swept[id].revision
    /\ Swept[id].status \in Decisions

AfterAcknowledge(id, own, rev) ==
    LET row == Swept[id] IN
    IF rev # row.revision THEN [row EXCEPT !.status = "superseded"]
    ELSE IF CanAcknowledge(id, own, rev) /\ ~Acked(row)
         THEN [row EXCEPT !.acknowledgedAt = now] ELSE row

Acknowledge(id, own, rev) ==
    Update(id, Permitted(id, own), AfterAcknowledge(id, own, rev))

(* The server process restarts: the Map is process-local.                  *)
Restart == rows' = [i \in {} |-> {}] /\ UNCHANGED <<now, created>>

Tick == now < MaxTime /\ now' = now + 1 /\ UNCHANGED <<rows, created>>

-----------------------------------------------------------------------------
Init == rows = [i \in {} |-> {}] /\ now = 0 /\ created = 0

Next ==
    \/ \E id \in Ids, own \in Owners, req \in Requests, rev \in Revisions, t \in 1..MaxTimeout :
           Create(id, own, req, rev, t)
    \/ List
    \/ \E id \in Ids, own \in Owners, rev \in Revisions : Heartbeat(id, own, rev)
    \/ \E id \in Ids, rev \in Revisions, d \in Decisions, f \in Feedbacks \cup {NoFeedback} :
           Decide(id, rev, d, f)
    \/ \E id \in Ids : Cancel(id)
    \/ \E id \in Ids, own \in Owners : OwnerCancel(id, own)
    \/ \E id \in Ids, own \in Owners, rev \in Revisions : Acknowledge(id, own, rev)
    \/ Restart
    \/ Tick

Spec == Init /\ [][Next]_vars

-----------------------------------------------------------------------------
(* The types of the store's state: every session in the Map is well formed *)
(* and was inserted before now.                                            *)
TypeOK ==
    /\ Present \subseteq Ids /\ now \in Nat /\ created \in Nat
    /\ \A i \in Present : rows[i] \in Row /\ rows[i].rank < created

(* The queue never outgrows its capacity, whatever the order in which      *)
(* sessions are created, decided, abandoned and swept (create(), l.73-83). *)
CapacityBound == Cardinality(Present) <= Capacity

\* The session stored under i before a step and after it is the same one.
SameSession(i) == i \in Present \cap DOMAIN rows' /\ rows'[i].rank = rows[i].rank

(* A review is decided once: a verdict never changes into another verdict, *)
(* its feedback is never rewritten, and nothing that left "pending" ever   *)
(* becomes pending or decided again, so a reviewer who was told that a     *)
(* review is over can rely on it (decide(), heartbeat(), cancel(), sweep). *)
DecisionsAreFinal ==
    [][\A i \in Present \cap DOMAIN rows' :
          SameSession(i) =>
            /\ rows'[i].status = "pending" => rows[i].status = "pending"
            /\ rows'[i].status \in Decisions =>
                 \/ rows[i].status = "pending"
                 \/ /\ rows'[i].status = rows[i].status
                    /\ rows'[i].feedback = rows[i].feedback]_vars

(* A decision is delivered only while the review is live: taken before the *)
(* deadline, within the lease of the last heartbeat, and only if a reviewer*)
(* had decided in an earlier request (acknowledge() after sweep()).        *)
DeliveryIsLive ==
    [][\A i \in Present \cap DOMAIN rows' :
          SameSession(i) /\ ~Acked(rows[i]) /\ Acked(rows'[i]) =>
            /\ rows[i].status \in Decisions /\ rows'[i].status = rows[i].status
            /\ now < rows[i].expiresAt
            /\ now - rows[i].heartbeatAt < Lease]_vars

(* A delivered decision cannot be retracted: no cancel, expiry, missed     *)
(* lease or heartbeat reaches an acknowledged session and its              *)
(* acknowledgement is never moved.  (The one write left is acknowledge()   *)
(* with another revision, which relabels the record as superseded.)        *)
DeliveryIsKept ==
    [][\A i \in Present \cap DOMAIN rows' :
          SameSession(i) /\ Acked(rows[i]) =>
            /\ rows'[i].acknowledgedAt = rows[i].acknowledgedAt
            /\ rows'[i].status \in {rows[i].status, "superseded"}]_vars

(* Retained history never pushes a live review out: a session whose review *)
(* or decision is still live leaves the Map only when the server restarts. *)
LiveReviewsKept ==
    [][\A i \in Present :
          /\ Active(rows[i]) /\ now < rows[i].expiresAt
          /\ now - rows[i].heartbeatAt < Lease
          => i \in DOMAIN rows' \/ DOMAIN rows' = {}]_vars

=============================================================================
