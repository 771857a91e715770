----------------------------- MODULE Writeback -----------------------------
(***************************************************************************)
(* Feedback on its way from the dashboard to a live Plannotator session.   *)
(*                                                                         *)
(*   cloud    ee/convex/plannotator.ts: the owner enqueues a job with the  *)
(*            annotations it carries; jobs lapse after a day; the daemons  *)
(*            poll them and report how they ended.  ee/convex/annotations  *)
(*            .ts: what the owner does to annotations meanwhile.           *)
(*   daemon   cli/src/daemon.ts: pollPlannotatorWritebacks delivers a job  *)
(*            to the session over loopback HTTP, remembers how it went in  *)
(*            memory and in a file, and reports it until the cloud says    *)
(*            yes.                                                         *)
(*                                                                         *)
(* A cloud mutation is one transaction; a daemon is one thread and gives   *)
(* it up at every await.  The sessions of Plans share a continuity key:    *)
(* a live upload of one supersedes the others.  A plan's number is its     *)
(* createdAt.  Left out: the approve action, the wording of feedback and   *)
(* the limits on rows per poll.                                            *)
(***************************************************************************)
EXTENDS Integers, Sequences, FiniteSets, FiniteSetsExt

CONSTANTS
    Jobs,         \* write-backs, numbered as they are enqueued
    Annotations,
    Plans,        \* sessions under review, as numbers: a later one is newer
    Devices,      \* daemons
    Home,         \* plan -> the device whose session it is
    Targets,      \* job -> the deviceIds the dashboard may name in it
    NoDevice,     \* an untargeted job
    None,
    MaxEvents     \* bound on restarts, sign-outs, failed calls, sessions that
                  \* end and the owner's own changes of annotations

ASSUME JobsAssumption == Jobs \subseteq Nat /\ IsFiniteSet(Jobs) /\ Plans \subseteq Nat
ASSUME NoneAssumption ==
    None \notin Jobs /\ None \notin Plans /\ None \notin {"sent", "failed", "expired"}
ASSUME DevicesAssumption ==
    /\ NoDevice \notin Devices
    /\ Home \in [Plans -> Devices]
    /\ Targets \in [Jobs -> SUBSET (Devices \cup {NoDevice})]

VARIABLES
    job,       \* plannotatorWritebacks: [status, plan, device, annos]
    overdue,   \* the jobs whose expiresAt has passed
    anno,      \* planAnnotations: [status, plan, wb]
    live,      \* the plan rows that say a session is live
    alive,     \* the sessions that run: their loopback servers answer
    got,       \* device -> job -> times a session received it from there
    known,     \* device -> the sessions its plan index lists
    signedIn,  \* device -> its credentials are the owner's
    pending,   \* device -> job -> pendingWritebackReports, in memory
    saved,     \* device -> job -> the delivery cache file
    poll,      \* device -> where its poll is: [pc, batch]
    forgotten, \* device -> jobs it delivered and has no memory of
    events

cloud == <<job, anno>>
daemon == <<pending, saved, forgotten>>
vars == <<cloud, overdue, live, alive, got, known, signedIn, daemon, poll, events>>

NoJob == [status |-> "none", plan |-> None, device |-> NoDevice, annos |-> {}]
NoAnno == [status |-> "absent", plan |-> None, wb |-> None]
Resting == [pc |-> "idle", batch |-> <<>>]
Unknown == [j \in Jobs |-> None]

Event == events < MaxEvents /\ events' = events + 1

Init ==
    /\ job = [j \in Jobs |-> NoJob] /\ overdue = {}
    /\ anno = [a \in Annotations |-> NoAnno]
    /\ live = {} /\ alive = {}
    /\ got = [d \in Devices |-> [j \in Jobs |-> 0]]
    /\ known = [d \in Devices |-> {}]
    /\ signedIn = [d \in Devices |-> TRUE]
    /\ pending = [d \in Devices |-> Unknown] /\ saved = pending
    /\ poll = [d \in Devices |-> Resting]
    /\ forgotten = [d \in Devices |-> {}]
    /\ events = 0

PendingOn(S) == {j \in Jobs : job[j].status = "pending" /\ job[j].plan \in S}

-----------------------------------------------------------------------------
(* The owner *)

(* findCurrentLivePlannotatorPlan: the newest live row, else the plan. *)
Current(p) == IF live = {} THEN p ELSE Max(live)

(* Mutant: an annotation of an ended job stays submitted. *)
KeepSubmitted(S) == anno

(* reopenWritebackAnnotations of the jobs in S *)
Reopened(S) ==
    [a \in Annotations |->
        IF anno[a].status = "submitted" /\ anno[a].wb \in S /\ a \in job[anno[a].wb].annos
        THEN [anno[a] EXCEPT !.status = "open", !.wb = None] ELSE anno[a]]

(* enqueueWriteback on plan p for device t with annotations as.  A refusal *)
(* rolls back what the mutation had done, so it is no step.                *)
Enqueue(j, p, t, as) ==
    LET q == Current(p)
        earlier == PendingOn({p, q})   \* p's are moved to q first
        free == Reopened(earlier)
    IN  /\ t \in Targets[j]
        /\ job[j].status = "none" /\ \A i \in Jobs : i < j => job[i].status # "none"
        /\ q \in live
        /\ earlier \subseteq overdue
        /\ \A a \in as : free[a].status = "open" /\ free[a].plan \in {p, q}
        /\ job' = [i \in Jobs |->
                     IF i = j THEN [status |-> "pending", plan |-> q, device |-> t, annos |-> as]
                     ELSE IF i \in earlier THEN [job[i] EXCEPT !.status = "expired", !.plan = q]
                     ELSE job[i]]
        /\ anno' = [a \in Annotations |->
                     IF a \in as THEN [free[a] EXCEPT !.status = "submitted", !.wb = j]
                     ELSE free[a]]
        /\ live' = live \ ({p} \ {q})
        /\ UNCHANGED <<overdue, alive, got, known, signedIn, daemon, poll, events>>

OwnerEdits(a, x) ==
    /\ anno' = [anno EXCEPT ![a] = x]
    /\ UNCHANGED <<job, overdue, live, alive, got, known, signedIn, daemon, poll>>

CreateAnnotation(a, p) ==
    /\ anno[a].status = "absent"
    /\ OwnerEdits(a, [status |-> "open", plan |-> p, wb |-> None])
    /\ UNCHANGED events

(* updateAnnotation: any status but "submitted", from any. *)
UpdateAnnotation(a, s) ==
    /\ anno[a].status \notin {"absent", s} /\ Event
    /\ OwnerEdits(a, [anno[a] EXCEPT !.status = s])

DeleteAnnotation(a) ==
    /\ anno[a].status # "absent" /\ Event
    /\ OwnerEdits(a, NoAnno)

(* markSubmitted: one more annotation for a job that waits. *)
MarkSubmitted(a, j) ==
    /\ job[j].status = "pending" /\ j \notin overdue
    /\ anno[a].status = "open" /\ anno[a].plan = job[j].plan
    /\ Event
    /\ job' = [job EXCEPT ![j].annos = @ \cup {a}]
    /\ anno' = [anno EXCEPT ![a].status = "submitted", ![a].wb = j]
    /\ UNCHANGED <<overdue, live, alive, got, known, signedIn, daemon, poll>>

-----------------------------------------------------------------------------
(* Time, sessions, and what the daemons upload about sessions *)

(* A day goes by (WRITEBACK_TTL_MS): what was enqueued first lapses first. *)
Lapse(j) ==
    /\ job[j].status # "none" /\ j \notin overdue
    /\ \A i \in Jobs : i < j => i \in overdue
    /\ overdue' = overdue \cup {j}
    /\ UNCHANGED <<cloud, live, alive, got, known, signedIn, daemon, poll, events>>

SessionStarts(p) ==
    /\ p \notin alive /\ p \notin live
    /\ \A d \in Devices : p \notin known[d]
    /\ alive' = alive \cup {p}
    /\ UNCHANGED <<cloud, overdue, live, got, known, signedIn, daemon, poll, events>>

SessionEnds(p) ==
    /\ p \in alive /\ Event
    /\ alive' = alive \ {p}
    /\ UNCHANGED <<cloud, overdue, live, got, known, signedIn, daemon, poll>>

(* The watcher or a rescan brings the index up to date. *)
Sessions(d) == {p \in alive : Home[p] = d}
Rescan(d) ==
    /\ known[d] # Sessions(d)
    /\ known' = [known EXCEPT ![d] = Sessions(d)]
    /\ UNCHANGED <<cloud, overdue, live, alive, got, signedIn, daemon, poll, events>>

(* markSupersededPlannotatorSessions of a live upload of p: the other live *)
(* rows end and their pending jobs move to p.                              *)
JobsMovedTo(p) ==
    [j \in Jobs |-> IF j \in PendingOn(live \ {p}) THEN [job[j] EXCEPT !.plan = p] ELSE job[j]]

UploadLive(d, p) ==
    /\ p \in known[d] /\ signedIn[d] /\ live # {p}
    /\ live' = {p}
    /\ job' = JobsMovedTo(p)
    /\ UNCHANGED <<anno, overdue, alive, got, known, signedIn, daemon, poll, events>>

(* reconcileLivePlannotatorSessions found the session gone. *)
UploadEnded(d, p) ==
    /\ p \in live /\ Home[p] = d /\ p \notin known[d] /\ signedIn[d]
    /\ live' = live \ {p}
    /\ UNCHANGED <<cloud, overdue, alive, got, known, signedIn, daemon, poll, events>>

-----------------------------------------------------------------------------
(* A poll: pollPlannotatorWritebacks and handlePlannotatorWriteback *)

At(d, pc) == poll[d].pc = pc
Copy(d) == Head(poll[d].batch)     \* the job in hand, as it was fetched
Job(d) == Copy(d).id
GoTo(d, pc) == poll' = [poll EXCEPT ![d].pc = pc]
Ended(d) == poll' = [poll EXCEPT ![d] = Resting]
NextJob(d) == poll' = [poll EXCEPT ![d] = [pc |-> "next", batch |-> Tail(@.batch)]]

(* Where the daemon itself moves, the cloud and the sessions do not. *)
Outside == <<cloud, overdue, live, alive, got, known, signedIn>>

(* pendingWritebackReports.set, then persistPendingWritebackReports, which *)
(* logs a failure to write and goes on.                                    *)
Remember(d, j, s) ==
    /\ pending' = [pending EXCEPT ![d][j] = s]
    /\ \/ saved' = [saved EXCEPT ![d] = pending'[d]] /\ UNCHANGED events
       \/ Event /\ UNCHANGED saved

PollStarts(d) ==
    /\ At(d, "idle") /\ signedIn[d]
    /\ GoTo(d, "expire")
    /\ UNCHANGED <<Outside, daemon, events>>

(* Mutant: the endpoint only reads. *)
NoSweep == UNCHANGED cloud

(* markExpiredWritebacks, for the jobs of every device. *)
MarkExpired ==
    LET S == {j \in overdue : job[j].status = "pending"}
    IN  /\ job' = [j \in Jobs |-> IF j \in S THEN [job[j] EXCEPT !.status = "expired"] ELSE job[j]]
        /\ anno' = Reopened(S)

FetchExpires(d) ==
    /\ At(d, "expire") /\ MarkExpired
    /\ GoTo(d, "query")
    /\ UNCHANGED <<overdue, live, alive, got, known, signedIn, daemon, events>>

(* pollPendingWritebacks: the device's own jobs, then the untargeted, each *)
(* in the order of the rows.  A worker whose account changed meanwhile     *)
(* drops the answer.                                                       *)
Visible(t) == {j \in Jobs : job[j].status = "pending" /\ j \notin overdue /\ job[j].device = t}
InOrder(S) == {s \in [1 .. Cardinality(S) -> S] : \A i, k \in DOMAIN s : i < k => s[i] < s[k]}
Rows(ids) == [i \in DOMAIN ids |-> [id |-> ids[i], plan |-> job[ids[i]].plan]]

FetchQueries(d) ==
    /\ At(d, "query")
    /\ \E own \in InOrder(Visible(d)), untargeted \in InOrder(Visible(NoDevice)) :
         LET ids == own \o untargeted
         IN  poll' = [poll EXCEPT ![d] =
                        IF signedIn[d] /\ ids # <<>> THEN [pc |-> "next", batch |-> Rows(ids)]
                        ELSE Resting]
    /\ UNCHANGED <<Outside, daemon, events>>

FetchFails(d) ==
    /\ poll[d].pc \in {"expire", "query"} /\ Event
    /\ Ended(d)
    /\ UNCHANGED <<Outside, daemon>>

(* The loop is over, or the account is not the one it began under. *)
PollEnds(d) ==
    /\ At(d, "next") /\ (poll[d].batch = <<>> \/ ~signedIn[d])
    /\ Ended(d)
    /\ UNCHANGED <<Outside, daemon, events>>

InHand(d) == At(d, "next") /\ poll[d].batch # <<>> /\ signedIn[d]

(* Mutant: a job is delivered again whatever is remembered of it. *)
NothingRemembered(d) == FALSE
Remembered(d) == pending[d][Job(d)] # None

HandleRemembered(d) ==
    /\ InHand(d) /\ Remembered(d)
    /\ GoTo(d, "report")
    /\ UNCHANGED <<Outside, daemon, events>>

HandleOverdue(d) ==
    /\ InHand(d) /\ ~Remembered(d) /\ Job(d) \in overdue
    /\ Remember(d, Job(d), "expired")
    /\ GoTo(d, "report")
    /\ UNCHANGED <<Outside, forgotten>>

(* getById of the plan the fetched copy names: the row may say another by  *)
(* now.                                                                    *)
HandleFresh(d) ==
    /\ InHand(d) /\ ~Remembered(d) /\ Job(d) \notin overdue
    /\ GoTo(d, IF Copy(d).plan \in known[d] THEN "send" ELSE "scan")
    /\ UNCHANGED <<Outside, daemon, events>>

(* scan() found the session, or it is not on this machine: that fails a    *)
(* job meant for this one, and leaves an untargeted job to another daemon. *)
ScanEnds(d) ==
    /\ At(d, "scan")
    /\ known' = [known EXCEPT ![d] = Sessions(d)]
    /\ IF ~signedIn[d] THEN Ended(d) /\ UNCHANGED <<pending, saved, events>>
       ELSE IF Copy(d).plan \in Sessions(d)
       THEN GoTo(d, "send") /\ UNCHANGED <<pending, saved, events>>
       ELSE IF job[Job(d)].device = NoDevice
       THEN NextJob(d) /\ UNCHANGED <<pending, saved, events>>
       ELSE GoTo(d, "report") /\ Remember(d, Job(d), "failed")
    /\ UNCHANGED <<cloud, overdue, live, alive, got, signedIn, forgotten>>

(* postJson reaches the session ... *)
Delivered(d) ==
    /\ At(d, "send") /\ Copy(d).plan \in alive
    /\ got' = [got EXCEPT ![d][Job(d)] = @ + 1]
    /\ GoTo(d, "sent")
    /\ UNCHANGED <<cloud, overdue, live, alive, known, signedIn, daemon, events>>

Forgets(d) == forgotten' = [forgotten EXCEPT ![d] = @ \cup {Job(d)}]

(* ... and is answered; the plan's address is looked up before the result  *)
(* is recorded, and the account checked before and after.                  *)
Answered(d) ==
    /\ At(d, "sent")
    /\ IF signedIn[d] THEN GoTo(d, "record") /\ UNCHANGED forgotten
       ELSE Ended(d) /\ Forgets(d)
    /\ UNCHANGED <<Outside, pending, saved, events>>

Records(d) ==
    /\ At(d, "record")
    /\ IF signedIn[d] THEN Remember(d, Job(d), "sent") /\ GoTo(d, "report") /\ UNCHANGED forgotten
       ELSE Ended(d) /\ Forgets(d) /\ UNCHANGED <<pending, saved, events>>
    /\ UNCHANGED Outside

(* No answer in time, a refusal, or no session at the address. *)
SendFails(d) ==
    /\ \/ At(d, "send") /\ UNCHANGED forgotten
       \/ At(d, "sent") /\ IF signedIn[d] THEN UNCHANGED forgotten ELSE Forgets(d)
    /\ IF signedIn[d] THEN Remember(d, Job(d), "failed") /\ GoTo(d, "report")
       ELSE Ended(d) /\ UNCHANGED <<pending, saved, events>>
    /\ UNCHANGED Outside

(* Mutant: a late report overwrites the end a job has. *)
AlwaysEnds(j, s) ==
    /\ job' = [job EXCEPT ![j].status = s]
    /\ anno' = IF s = "sent" THEN anno ELSE Reopened({j})

(* reportWritebackStatus: a job that has ended keeps its end. *)
ReportStatus(j, s) ==
    IF job[j].status # "pending" THEN UNCHANGED cloud
    ELSE /\ job' = [job EXCEPT ![j].status = s]
         /\ anno' = IF s = "sent" THEN anno ELSE Reopened({j})

ReportArrives(d) ==
    /\ At(d, "report")
    /\ ReportStatus(Job(d), pending[d][Job(d)])
    /\ GoTo(d, "reported")
    /\ UNCHANGED <<overdue, live, alive, got, known, signedIn, daemon, events>>

(* A status that is no success: the daemon keeps the report and goes on. *)
ReportRefused(d) ==
    /\ At(d, "report") /\ Event
    /\ NextJob(d)
    /\ UNCHANGED <<Outside, daemon>>

(* The call throws, before or after the cloud acted: the poll is over. *)
ReportLost(d) ==
    /\ poll[d].pc \in {"report", "reported"} /\ Event
    /\ Ended(d)
    /\ UNCHANGED <<Outside, daemon>>

Reported(d) ==
    /\ At(d, "reported")
    /\ IF signedIn[d] THEN NextJob(d) /\ Remember(d, Job(d), None)
       ELSE Ended(d) /\ UNCHANGED <<pending, saved, events>>
    /\ UNCHANGED <<Outside, forgotten>>

-----------------------------------------------------------------------------
(* `agendex login` and `logout`, and the daemon's own end and restart *)

SignOut(d) ==
    /\ signedIn[d] /\ Event
    /\ signedIn' = [signedIn EXCEPT ![d] = FALSE]
    /\ UNCHANGED <<cloud, overdue, live, alive, got, known, daemon, poll>>

SignIn(d) ==
    /\ ~signedIn[d]
    /\ signedIn' = [signedIn EXCEPT ![d] = TRUE]
    /\ UNCHANGED <<cloud, overdue, live, alive, got, known, daemon, poll, events>>

(* loadPendingWritebackReports is all a new worker knows. *)
Restart(d) ==
    /\ Event
    /\ pending' = [pending EXCEPT ![d] = saved[d]]
    /\ forgotten' = [forgotten EXCEPT ![d] = @ \cup
          {j \in Jobs : pending[d][j] # None /\ saved[d][j] = None}
            \cup IF poll[d].pc \in {"sent", "record"} THEN {Job(d)} ELSE {}]
    /\ known' = [known EXCEPT ![d] = {}]
    /\ Ended(d)
    /\ UNCHANGED <<cloud, overdue, live, alive, got, signedIn, saved>>

-----------------------------------------------------------------------------
Owner ==
    \/ \E j \in Jobs, p \in Plans, t \in Devices \cup {NoDevice}, as \in SUBSET Annotations : Enqueue(j, p, t, as)
    \/ \E a \in Annotations, p \in Plans : CreateAnnotation(a, p)
    \/ \E a \in Annotations, s \in {"open", "resolved"} : UpdateAnnotation(a, s)
    \/ \E a \in Annotations : DeleteAnnotation(a)
    \/ \E a \in Annotations, j \in Jobs : MarkSubmitted(a, j)

Environment ==
    \/ \E j \in Jobs : Lapse(j)
    \/ \E p \in Plans : SessionStarts(p) \/ SessionEnds(p)
    \/ \E d \in Devices : Rescan(d) \/ SignOut(d) \/ SignIn(d) \/ Restart(d)
    \/ \E d \in Devices, p \in Plans : UploadLive(d, p) \/ UploadEnded(d, p)

Poll(d) ==
    \/ FetchExpires(d) \/ FetchQueries(d) \/ FetchFails(d) \/ PollEnds(d)
    \/ HandleRemembered(d) \/ HandleOverdue(d) \/ HandleFresh(d) \/ ScanEnds(d)
    \/ Delivered(d) \/ Answered(d) \/ Records(d) \/ SendFails(d)
    \/ ReportArrives(d) \/ ReportRefused(d) \/ ReportLost(d) \/ Reported(d)

Next == Owner \/ Environment \/ \E d \in Devices : PollStarts(d) \/ Poll(d)

Spec == Init /\ [][Next]_vars

(* The poll timer keeps firing and its calls return; days go by. *)
FairSpec ==
    /\ Spec
    /\ \A d \in Devices : WF_vars(PollStarts(d)) /\ WF_vars(Poll(d))
    /\ \A j \in Jobs : WF_vars(Lapse(j))

-----------------------------------------------------------------------------
(* Properties *)

Statuses == {"none", "pending", "sent", "failed", "expired"}
Steps == {"idle", "expire", "query", "next", "scan", "send", "sent", "record", "report", "reported"}
Reports == [Jobs -> {"sent", "failed", "expired", None}]
TypeOK ==
    /\ job \in [Jobs -> [status : Statuses, plan : Plans \cup {None},
                        device : Devices \cup {NoDevice}, annos : SUBSET Annotations]]
    /\ anno \in [Annotations -> [status : {"absent", "open", "submitted", "resolved"},
                                plan : Plans \cup {None}, wb : Jobs \cup {None}]]
    /\ live \subseteq Plans /\ alive \subseteq Plans /\ overdue \subseteq Jobs
    /\ known \in [Devices -> SUBSET Plans] /\ signedIn \in [Devices -> BOOLEAN]
    /\ got \in [Devices -> [Jobs -> Nat]] /\ forgotten \in [Devices -> SUBSET Jobs]
    /\ pending \in [Devices -> Reports] /\ saved \in [Devices -> Reports]
    /\ poll \in [Devices -> [pc : Steps, batch : Seq([id : Jobs, plan : Plans \cup {None}])]]

(* An annotation that says "submitted" is on its way or was sent: the job  *)
(* it names lists it, and has not failed or expired without giving it      *)
(* back to the owner (plannotator.ts, reopenWritebackAnnotations).  The    *)
(* owner may resolve, reopen, delete and submit it again meanwhile.        *)
SubmittedIsCarried ==
    /\ TypeOK
    /\ \A a \in Annotations :
         anno[a].status = "submitted" =>
             /\ anno[a].wb \in Jobs
             /\ job[anno[a].wb].status \in {"pending", "sent"}
             /\ a \in job[anno[a].wb].annos

(* A daemon delivers a job once, unless a restart, a sign-out or a failed  *)
(* save took the memory of the delivery (daemon.ts 504): polls, reports    *)
(* that fail and jobs that lapse or move between sessions do not repeat    *)
(* feedback.                                                               *)
DeliveredOnce ==
    \A d \in Devices, j \in Jobs : got[d][j] > 1 => j \in forgotten[d]

(* Jobs end once, and "sent" is only said of feedback a session received:  *)
(* the cloud and its daemons implement the outbox.                         *)
Received == {j \in Jobs : \E d \in Devices : got[d][j] > 0}
Promise == INSTANCE Outbox
           WITH box <- [j \in Jobs |-> job[j].status], arrived <- Received
RefinesOutbox == Promise!Spec

(* Once the daemons stay signed in, no job is pending forever: it is       *)
(* reported, or lapses and is swept (cli.ts, plannotatorWritebacks).       *)
EventuallySettled ==
    <>[](\E d \in Devices : signedIn[d])
        => \A j \in Jobs : job[j].status = "pending" ~> job[j].status # "pending"
=============================================================================
