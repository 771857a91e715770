----------------------------- MODULE SyncWorker -----------------------------
(***************************************************************************)
(* The daemon's upload worker (cli/src/daemon.ts, runWorker): the queue of *)
(* changed plans, the pass that uploads a batch, the retries, the hash     *)
(* cache per cloud account, and the account itself, which `agendex login`, *)
(* `agendex logout` and the desktop app change while the worker runs.      *)
(*                                                                         *)
(* The worker is one JavaScript thread.  A pass (processSyncQueue) gives   *)
(* the thread up only while it awaits an answer: the watcher, the rescan   *)
(* and the retry timer run when no pass is on or the pass waits.  Another  *)
(* process may write the account between any two reads of it.              *)
(*                                                                         *)
(* A revision of a plan stands for its payload: equal revisions have equal *)
(* hashes.  The cloud is the sync endpoint with its requests one at a time *)
(* (CloudPlans has their races).                                           *)
(***************************************************************************)
EXTENDS Integers, Sequences, FiniteSets, SequencesExt, FiniteSetsExt

CONSTANTS
    Plans,        \* local plans: numbers, in the order a scan lists them
    Accounts,     \* cloud accounts
    LoggedOut,    \* no credentials
    Absent,       \* nothing cached, nothing synced, nothing stored
    TooLarge,     \* the revisions the cloud answers 413 to
    MaxRetries,   \* SYNC_MAX_RETRIES
    MaxEdits,     \* bound on the saves of a plan
    SwitchAt,     \* where the pass may be when the account changes
    MaxPending,   \* bound on the retries waiting when a scan adds uploads
    MaxFaults     \* bound on account changes, restarts and late uploads

ASSUME PlansAssumption == Plans \subseteq Nat /\ IsFiniteSet(Plans)
ASSUME AccountsAssumption == LoggedOut \notin Accounts /\ Accounts # {}
ASSUME BoundsAssumption == {MaxRetries, MaxEdits, MaxPending, MaxFaults} \subseteq Nat

(* An upload, and what is remembered of the newest one that was answered.  *)
Revs == 1 .. MaxEdits + 1
Payload == [plan : Plans, at : Nat, rev : Revs, seq : Nat]
Order == [at : Nat, seq : Nat]
ASSUME AbsentAssumption == Absent \notin Revs \cup Payload \cup Order

VARIABLES
    source,     \* plan -> [at, rev] on disk: updatedAt, and the revision
    account,    \* the credentials of the config file
    scope,      \* syncCacheScope
    cache,      \* syncCache: plan -> revision, in memory
    disk,       \* the cache files: account -> plan -> revision
    queue,      \* syncQueue
    retries,    \* retryQueue, in order, with each entry's attempt
    attempts,   \* retryAttemptByPlanId, 0 when absent
    lastSynced, \* lastSyncedOrder
    pass,       \* processSyncQueue: where it is, and its locals
    request,    \* the upload the pass awaits
    late,       \* uploads the worker gave up that may still arrive
    cloud,      \* account -> plan -> the payload its row shows
    accepted,   \* account -> plan -> the revisions answered ok or 413
    faults

worker == <<scope, cache, queue, retries, attempts, lastSynced, pass, request>>
network == <<late, cloud, accepted>>
workerVars == <<source, account, disk, faults, worker, network>>

Scopes == Accounts \cup {LoggedOut}
Uncached == [p \in Plans |-> Absent]
NoRequest == [stage |-> "none"]
Resting == [pc |-> "idle", batch |-> <<>>, i |-> 1, counted |-> 0, failed |-> <<>>]

(* Timers and file events run only when the thread is free. *)
ThreadFree == pass.pc \in {"idle", "await"}

Fault == faults < MaxFaults /\ faults' = faults + 1

WorkerInit ==
    /\ source = [p \in Plans |-> [at |-> 1, rev |-> 1]]
    /\ account \in Accounts
    /\ scope = account
    /\ cache = Uncached
    /\ disk = [s \in Scopes |-> Uncached]
    /\ queue = <<>> /\ retries = <<>>
    /\ attempts = [p \in Plans |-> 0]
    /\ lastSynced = [p \in Plans |-> Absent]
    /\ pass = Resting /\ request = NoRequest
    /\ late = {}
    /\ cloud = [s \in Accounts |-> Uncached]
    /\ accepted = [s \in Accounts |-> [p \in Plans |-> {}]]
    /\ faults = 0

-----------------------------------------------------------------------------
(* Payloads and their order *)

(* Mutant: equal times are never superseded. *)
SupersededByTime(x, ref) == ref # Absent /\ ref.at > x.at

(* A payload not newer than `ref` (isSuperseded): build order breaks ties. *)
Superseded(x, ref) ==
    /\ ref # Absent
    /\ \/ ref.at > x.at
       \/ ref.at = x.at /\ ref.seq >= x.seq

Payloads(p) ==
    {x \in ToSet(queue) \cup ToSet(pass.batch) \cup {e.payload : e \in ToSet(retries)} : x.plan = p}

(* planToSyncPayload with its build order.  Of the builds of one revision  *)
(* only the first and the later ones are told apart.                       *)
Built(p) ==
    [plan |-> p, at |-> source[p].at, rev |-> source[p].rev,
     seq |-> 2 * source[p].rev
               + IF \E x \in Payloads(p) : x.rev = source[p].rev THEN 1 ELSE 0]

PushOne(q, x) ==
    IF \A i \in DOMAIN q : q[i].plan # x.plan THEN Append(q, x)
    ELSE [i \in DOMAIN q |->
            IF q[i].plan = x.plan /\ ~Superseded(x, q[i]) THEN x ELSE q[i]]

(* pushToSyncQueue *)
Push(q, xs) ==
    LET pushed[n \in 0 .. Len(xs)] ==
          IF n = 0 THEN q ELSE PushOne(pushed[n - 1], xs[n])
    IN  pushed[Len(xs)]

(* The numbers of S in increasing order. *)
Listed(S) == CHOOSE s \in SetToSeqs(S) : \A i, j \in DOMAIN s : i < j => s[i] < s[j]

(* refreshSyncCacheScope *)
Refreshed == account # scope
RefreshScope ==
    /\ scope' = account
    /\ cache' = IF Refreshed THEN disk[account] ELSE cache
    /\ lastSynced' = IF Refreshed THEN [p \in Plans |-> Absent] ELSE lastSynced

(* Every handler ends with processSyncQueue(): a pass begins unless one is *)
(* on or nothing is queued.                                                *)
Process(q) ==
    pass' = IF pass.pc = "idle" /\ q # <<>> THEN [Resting EXCEPT !.pc = "start"] ELSE pass

-----------------------------------------------------------------------------
(* The worker's events *)

(* The plans of S whose hash the cache of this account does not have. *)
NeedSync(S) ==
    LET known == IF Refreshed THEN disk[account] ELSE cache
    IN  {p \in S : known[p] # source[p].rev}

(* enqueueChangedPlans: by the watcher for the plans that changed, by the  *)
(* rescan for all.                                                         *)
Enqueue(S) ==
    /\ ThreadFree
    /\ NeedSync(S) # {} /\ Len(retries) < MaxPending
    /\ RefreshScope
    /\ LET need == Listed(NeedSync(S))
       IN  queue' = Push(queue, [k \in DOMAIN need |-> Built(need[k])]) /\ Process(queue')
    /\ UNCHANGED <<source, account, disk, faults, retries, attempts, request, network>>

(* flushReadyRetries, when the entries at `ready` are due: last one first. *)
FlushRetries(ready) ==
    LET fresh == {k \in ready : LET x == retries[k].payload
                                IN  ~Superseded(x, lastSynced[x.plan])}
        due   == Reverse(Listed(fresh))
        of(p) == {k \in fresh : retries[k].payload.plan = p}
        kept  == Listed(DOMAIN retries \ ready)
    IN  /\ ThreadFree
        /\ ready # {} /\ ready \subseteq DOMAIN retries
        /\ retries' = [k \in DOMAIN kept |-> retries[kept[k]]]
        /\ queue' = Push(queue, [k \in DOMAIN due |-> retries[due[k]].payload])
        /\ attempts' = [p \in Plans |-> IF of(p) = {} THEN attempts[p]
                                        ELSE retries[Min(of(p))].attempt]
        /\ IF fresh = {} THEN UNCHANGED pass ELSE Process(queue')
        /\ UNCHANGED <<source, account, disk, faults, scope, cache, lastSynced, request, network>>

-----------------------------------------------------------------------------
(* The pass: processSyncQueue *)

UnchangedByPass == UNCHANGED <<source, account, faults>>

Start ==
    /\ pass.pc = "start"
    /\ RefreshScope
    /\ pass' = [Resting EXCEPT !.pc = "pick", !.batch = queue]
    /\ queue' = <<>>
    /\ UnchangedByPass /\ UNCHANGED <<disk, retries, attempts, request, network>>

Current == pass.batch[pass.i]
More == pass.i <= Len(pass.batch)

SkipSuperseded ==
    /\ pass.pc = "pick" /\ More
    /\ Superseded(Current, lastSynced[Current.plan])
    /\ attempts' = [attempts EXCEPT ![Current.plan] = 0]
    /\ pass' = [pass EXCEPT !.i = @ + 1]
    /\ UnchangedByPass
    /\ UNCHANGED <<disk, scope, cache, queue, retries, lastSynced, request, network>>

Send ==
    /\ pass.pc = "pick" /\ More
    /\ ~Superseded(Current, lastSynced[Current.plan])
    /\ account # LoggedOut
    /\ request' = [stage |-> "sent", scope |-> account, payload |-> Current]
    /\ pass' = [pass EXCEPT !.pc = "await"]
    /\ UnchangedByPass
    /\ UNCHANGED <<disk, scope, cache, queue, retries, attempts, lastSynced, network>>

(* syncPlan threw: the payloads not counted yet go back to the queue. *)
Rejected ==
    /\ queue' = Push(queue, SubSeq(pass.batch, pass.counted + 1, Len(pass.batch)))
    /\ pass' = [pass EXCEPT !.pc = "finish"]
    /\ request' = NoRequest
    /\ UNCHANGED <<source, account, disk, scope, cache, retries, attempts, lastSynced, cloud, accepted>>

(* syncPlan throws without having sent anything. *)
SendLoggedOut ==
    /\ pass.pc = "pick" /\ More
    /\ ~Superseded(Current, lastSynced[Current.plan])
    /\ account = LoggedOut
    /\ Rejected
    /\ UNCHANGED <<late, faults>>

(* A connection error or the 10 s timeout; the upload may still arrive. *)
ConnectionFails ==
    /\ pass.pc = "await"
    /\ Rejected
    /\ \/ UNCHANGED <<late, faults>>
       \/ /\ request.stage = "sent" /\ Fault
          /\ late' = late \cup {[scope |-> request.scope, payload |-> request.payload]}

(* An answer: the pass goes on to the next payload with `counted` more. *)
GoOn(n) ==
    /\ pass' = [pass EXCEPT !.pc = "pick", !.i = @ + 1, !.counted = @ + n]
    /\ request' = NoRequest

Answered ==
    /\ pass.pc = "await"
    /\ UnchangedByPass
    /\ UNCHANGED <<disk, network>>

(* Mutant: the account is not compared after the answer. *)
AnyScope == TRUE

SameScope == account = request.scope

AnswerAfterSwitch ==
    /\ Answered
    /\ ~SameScope
    /\ RefreshScope
    /\ queue' = Push(queue, <<Current>>)
    /\ GoOn(0)
    /\ UNCHANGED <<retries, attempts>>

CacheCurrent ==
    /\ cache' = [cache EXCEPT ![Current.plan] = Current.rev]
    /\ attempts' = [attempts EXCEPT ![Current.plan] = 0]

AnswerOk ==
    /\ Answered
    /\ SameScope
    /\ request.stage = "applied"
    /\ CacheCurrent
    /\ lastSynced' = [lastSynced EXCEPT ![Current.plan] = [at |-> Current.at, seq |-> Current.seq]]
    /\ GoOn(1)
    /\ UNCHANGED <<scope, queue, retries>>

AnswerTooLarge ==
    /\ Answered
    /\ SameScope
    /\ request.stage = "refused"
    /\ CacheCurrent
    /\ GoOn(1)
    /\ UNCHANGED <<scope, queue, retries, lastSynced>>

(* Mutant: a failed upload is remembered as cached. *)
FailedCached ==
    /\ Answered /\ SameScope /\ request.stage # "refused"
    /\ request' = NoRequest
    /\ pass' = [pass EXCEPT !.pc = "pick", !.i = @ + 1, !.counted = @ + 1,
                            !.failed = Append(@, Current)]
    /\ CacheCurrent
    /\ UNCHANGED <<scope, queue, retries, lastSynced>>

(* An error status, before or after the endpoint stored the payload. *)
AnswerFailed ==
    /\ Answered
    /\ SameScope
    /\ request.stage # "refused"
    /\ request' = NoRequest
    /\ pass' = [pass EXCEPT !.pc = "pick", !.i = @ + 1, !.counted = @ + 1,
                            !.failed = Append(@, Current)]
    /\ UNCHANGED <<scope, cache, queue, retries, attempts, lastSynced>>

(* 401 after the token refresh failed too: everything waiting is dropped. *)
AnswerExpired ==
    /\ Answered
    /\ SameScope
    /\ request.stage = "sent"
    /\ queue' = <<>> /\ retries' = <<>>
    /\ pass' = [pass EXCEPT !.pc = "finish"]
    /\ request' = NoRequest
    /\ UNCHANGED <<scope, cache, attempts, lastSynced>>

(* scheduleSyncRetry: nothing after MaxRetries attempts *)
Scheduled(payload) == attempts[payload.plan] < MaxRetries
Retry(payload) == [payload |-> payload, attempt |-> attempts[payload.plan] + 1]

(* saveSyncCache: what is in memory wins over the same account's file. *)
Merged(file) == [p \in Plans |-> IF cache[p] = Absent THEN file[p] ELSE cache[p]]

Finish ==
    /\ \/ pass.pc = "finish"
       \/ pass.pc = "pick" /\ ~More
    /\ LET again == Listed({k \in DOMAIN pass.failed : Scheduled(pass.failed[k])})
       IN  retries' = retries \o [k \in DOMAIN again |-> Retry(pass.failed[again[k]])]
    /\ attempts' = [p \in Plans |->
         IF \E k \in DOMAIN pass.failed : pass.failed[k].plan = p THEN 0 ELSE attempts[p]]
    /\ disk' = IF pass.counted > 0 THEN [disk EXCEPT ![scope] = Merged(@)] ELSE disk
    /\ pass' = IF queue = <<>> THEN Resting ELSE [Resting EXCEPT !.pc = "start"]
    /\ UnchangedByPass
    /\ UNCHANGED <<scope, cache, queue, lastSynced, request, network>>

Pass ==
    \/ Start \/ SkipSuperseded \/ Send \/ SendLoggedOut \/ Finish

-----------------------------------------------------------------------------
(* The cloud, and what else happens *)

(* The sync endpoint: a payload older than the row leaves it alone. *)
Stored(row, x) == IF row # Absent /\ x.at < row.at THEN row ELSE x

Store(s, x) ==
    /\ cloud' = [cloud EXCEPT ![s][x.plan] = Stored(@, x)]
    /\ accepted' = [accepted EXCEPT ![s][x.plan] = @ \cup {x.rev}]

UnchangedByCloud == <<source, account, disk, faults,
                      scope, cache, queue, retries, attempts, lastSynced, pass>>

Arrive ==
    /\ request.stage = "sent"
    /\ IF request.payload.rev \in TooLarge
       THEN /\ request' = [request EXCEPT !.stage = "refused"]
            /\ accepted' = [accepted EXCEPT ![request.scope][request.payload.plan] =
                              @ \cup {request.payload.rev}]
            /\ UNCHANGED cloud
       ELSE /\ request' = [request EXCEPT !.stage = "applied"]
            /\ Store(request.scope, request.payload)
    /\ UNCHANGED <<late, UnchangedByCloud>>

ArriveLate ==
    /\ \E r \in late :
         /\ late' = late \ {r}
         /\ IF r.payload.rev \in TooLarge THEN UNCHANGED <<cloud, accepted>>
            ELSE Store(r.scope, r.payload)
    /\ UNCHANGED <<request, UnchangedByCloud>>

(* A save of the plan; a metadata change keeps its updatedAt. *)
SavePlan(p) ==
    /\ source[p].rev <= MaxEdits
    /\ \E at \in {source[p].at, source[p].at + 1} :
         source' = [source EXCEPT ![p] = [at |-> at, rev |-> @.rev + 1]]
    /\ UNCHANGED <<account, disk, faults, worker, network>>

(* agendex login, agendex logout *)
SwitchAccount(s) ==
    /\ s # account /\ pass.pc \in SwitchAt
    /\ Fault
    /\ account' = s
    /\ UNCHANGED <<source, disk, worker, network>>

(* The worker is killed and started again: the initial scan queues what    *)
(* the cache file of the account does not have.  Without credentials it    *)
(* stays as killed here.                                                   *)
Restart ==
    /\ account # LoggedOut
    /\ Fault
    /\ scope' = account /\ cache' = disk[account]
    /\ retries' = <<>>
    /\ attempts' = [p \in Plans |-> 0]
    /\ lastSynced' = [p \in Plans |-> Absent]
    /\ LET need == Listed({p \in Plans : disk[account][p] # source[p].rev})
       IN  queue' = [k \in DOMAIN need |->
                       [plan |-> need[k], at |-> source[need[k]].at,
                        rev |-> source[need[k]].rev, seq |-> 2 * source[need[k]].rev]]
    /\ pass' = IF queue' = <<>> THEN Resting ELSE [Resting EXCEPT !.pc = "start"]
    /\ request' = NoRequest
    /\ \/ UNCHANGED late
       \/ /\ request.stage = "sent"
          /\ late' = late \cup {[scope |-> request.scope, payload |-> request.payload]}
    /\ UNCHANGED <<source, account, disk, cloud, accepted>>

Answer == AnswerAfterSwitch \/ AnswerOk \/ AnswerTooLarge \/ AnswerFailed \/ AnswerExpired

WorkerNext ==
    \/ \E S \in SUBSET Plans : Enqueue(S)
    \/ \E ready \in SUBSET (DOMAIN retries) : FlushRetries(ready)
    \/ Pass \/ Answer \/ ConnectionFails
    \/ Arrive \/ ArriveLate
    \/ \E p \in Plans : SavePlan(p)
    \/ \E s \in Scopes : SwitchAccount(s)
    \/ Restart

WorkerSpec == WorkerInit /\ [][WorkerNext]_workerVars

(* Timers keep firing and the thread serves them when it is free; a step   *)
(* of a pass is never left undone; an upload is answered or times out, and *)
(* a cloud that answers now and then answers some upload ok.               *)
Fairness ==
    /\ WF_workerVars(Pass)
    /\ WF_workerVars(Answer \/ ConnectionFails)
    /\ SF_workerVars(Arrive) /\ SF_workerVars(AnswerOk \/ AnswerTooLarge)
    /\ SF_workerVars(Enqueue(Plans))
    /\ SF_workerVars(FlushRetries(DOMAIN retries))

WorkerFairSpec == WorkerSpec /\ Fairness

-----------------------------------------------------------------------------
(* Properties *)

WorkerTypeOK ==
    /\ source \in [Plans -> [at : Nat, rev : Revs]]
    /\ account \in Scopes /\ scope \in Scopes
    /\ cache \in [Plans -> Revs \cup {Absent}]
    /\ disk \in [Scopes -> [Plans -> Revs \cup {Absent}]]
    /\ queue \in Seq(Payload)
    /\ retries \in Seq([payload : Payload, attempt : 1 .. MaxRetries])
    /\ attempts \in [Plans -> 0 .. MaxRetries]
    /\ lastSynced \in [Plans -> Order \cup {Absent}]
    /\ pass \in [pc : {"idle", "start", "pick", "await", "finish"}, batch : Seq(Payload),
                  i : Nat, counted : Nat, failed : Seq(Payload)]
    /\ request \in {NoRequest} \cup
         [stage : {"sent", "applied", "refused"}, scope : Accounts, payload : Payload]
    /\ late \subseteq [scope : Accounts, payload : Payload]
    /\ cloud \in [Accounts -> [Plans -> Payload \cup {Absent}]]
    /\ accepted \in [Accounts -> [Plans -> SUBSET Revs]]
    /\ faults \in 0 .. MaxFaults

(* One upload of a plan at a time: the queue and the batch hold it once,   *)
(* whatever the watcher, the retries and a scope change push               *)
(* (packages/cli/README.md, "The queue deduplicates by plan id").          *)
OncePerPlan(q) == \A i, j \in DOMAIN q : q[i].plan = q[j].plan => i = j
QueuedOnce == OncePerPlan(queue) /\ OncePerPlan(pass.batch)

(* A revision is in an account's cache file only if that account's cloud   *)
(* answered for it; otherwise the account never gets that revision.        *)
CacheIsHonest ==
    \A s \in Accounts, p \in Plans :
        disk[s][p] # Absent => disk[s][p] \in accepted[s][p]

(* At any time: nothing is queued twice, and no account is credited with   *)
(* what another one took (daemon.ts 208-373).                              *)
WorkerIsSound == WorkerTypeOK /\ QueuedOnce /\ CacheIsHonest

NewerThan(x, ref) == x.at > ref.at \/ (x.at = ref.at /\ x.seq > ref.seq)

(* The order memory tells the truth about the account: an upload dropped   *)
(* as superseded is one the account's cloud shows no older than it, and,   *)
(* except for an upload that outlived its timeout, nothing is stored over  *)
(* an upload that was answered ok and is not newer.                        *)
SyncedStays ==
    [][/\ SkipSuperseded
            => LET row == cloud[scope][Current.plan] IN row # Absent /\ row.at >= Current.at
       /\ \A p \in Plans : lastSynced[p] # Absent /\ late' = late =>
            LET row == cloud'[scope][p]
            IN  row = cloud[scope][p] \/ NewerThan(row, lastSynced[p])]_workerVars

(* Once the edits stop and while the account stays, its cloud shows the    *)
(* latest content of every plan it takes.                                  *)
EventuallySynced ==
    \A p \in Plans :
        <>[](\/ account = LoggedOut
             \/ source[p].rev \in TooLarge
             \/ cloud[account][p] # Absent /\ cloud[account][p].at = source[p].at)
=============================================================================
