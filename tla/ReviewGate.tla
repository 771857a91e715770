----------------------------- MODULE ReviewGate -----------------------------
(***************************************************************************)
(* The plan-approval gate end to end: agent hooks                          *)
(* (packages/cli/src/review-plan.ts, runReviewPlan) waiting on the store   *)
(* of ApprovalSessions over HTTP, a reviewer at the local page, and a plan *)
(* file that anybody may edit meanwhile.                                   *)
(*                                                                         *)
(* A hook awaits one request at a time, but a request it gave up (a signal *)
(* or the 5 s timeout aborts the fetch) may still be in flight: it can be  *)
(* lost, or reach the server after later requests.  Replies can be lost    *)
(* too; the hook then only sees its timeout.  The server may restart and a *)
(* hook may be killed at any moment.                                       *)
(***************************************************************************)
EXTENDS ApprovalSessions

CONSTANTS
    NoFile,     \* the plan file is gone or unreadable
    Timeout     \* timeoutMs: how long a hook waits for its review

\* Each run of the hook draws its own session id and owner key: one name for all.
ASSUME HookAssumption == Owners = Ids
ASSUME FileAssumption == NoFile \notin Revisions
ASSUME TimeoutAssumption == Timeout \in 1..MaxTimeout

VARIABLES
    pc,         \* where the hook is: the request it awaits, or the review loop
    view,       \* session.status as last returned to the hook
    deadline,   \* Date.now() + timeoutMs, taken when create returns
    signalled,  \* cancelled: SIGINT or SIGTERM arrived
    verdict,    \* what the hook printed for the agent
    file,       \* the content of the plan file, by revision
    snapshot,   \* the revision submitted for review
    requests,   \* requests on their way to the server
    replies,    \* the answer to the awaited request, if it arrived
    approved,   \* history: <<hook, revision>> the reviewer approved
    withdrawn,  \* history: hooks whose review was cancelled, by either side
    delivered,  \* history: the decision a hook acknowledged
    current     \* history: the file had the snapshot's revision since the decision

hookVars    == <<pc, view, deadline, signalled, verdict, snapshot>>
networkVars == <<requests, replies>>
historyVars == <<approved, withdrawn, delivered, current>>
gateVars    == <<vars, hookVars, networkVars, historyVars, file>>

Awaiting    == {"create", "heartbeat", "ack", "cancel"}
Abortable   == Awaiting \ {"cancel"}
Request     == [op : Awaiting, hook : Ids, revision : Revisions]
Reply       == Statuses \cup {"none", "error"}

-----------------------------------------------------------------------------
(* What a hook does next: await a request, give up, or answer the agent.   *)
Send(h, op, rev) ==
    /\ requests' = requests \cup {[op |-> op, hook |-> h, revision |-> rev]}
    /\ replies' = [replies EXCEPT ![h] = "none"]
    /\ pc' = [pc EXCEPT ![h] = op]
    /\ UNCHANGED verdict

Answer(h, status) ==
    /\ verdict' = [verdict EXCEPT ![h] = IF status = "approved" THEN "allow" ELSE "deny"]
    /\ pc' = [pc EXCEPT ![h] = "done"]
    /\ replies' = [replies EXCEPT ![h] = "none"]
    /\ UNCHANGED requests

\* The catch block: cancel the session if there is one, then deny.
Fail(h) == IF pc[h] = "create" THEN Answer(h, "cancelled")
                               ELSE Send(h, "cancel", snapshot[h])

(* The hook starts: it reads the plan and submits it.                      *)
Start(h) ==
    /\ pc[h] = "idle"
    /\ IF file[h] = NoFile THEN Answer(h, "cancelled") /\ UNCHANGED snapshot
       ELSE /\ snapshot' = [snapshot EXCEPT ![h] = file[h]]
            /\ Send(h, "create", file[h])
    /\ UNCHANGED <<vars, historyVars, view, deadline, signalled, file>>

\* Mutant: the snapshot's own revision is sent, the file is not read again.
SnapshotToSend(h) == snapshot[h]

\* The revision sent with a heartbeat or an ack is that of the file just read.
RevisionToSend(h) == file[h]

(* One turn of the wait loop, or the final acknowledgement after it.       *)
Continue(h) ==
    /\ pc[h] = "review"
    /\ IF \/ signalled[h]
          \/ view[h] \in Decisions \cup {"pending"} /\ file[h] = NoFile
       THEN Fail(h)
       ELSE CASE view[h] = "pending"    -> Send(h, "heartbeat", RevisionToSend(h))
              [] view[h] \in Decisions  -> Send(h, "ack", RevisionToSend(h))
              [] OTHER                  -> Answer(h, view[h])
    /\ UNCHANGED <<vars, historyVars, view, deadline, signalled, file, snapshot>>

\* Mutant: the deadline is counted backwards.
DeadlineUnset == now - Timeout

\* Date.now() + timeoutMs; MaxTime, where the bounded clock stops, stands for
\* every later instant.
Deadline == IF now + Timeout <= MaxTime THEN now + Timeout ELSE MaxTime

\* Mutant: the loop relies on the server to expire the review.
NeverOutOfTime(h) == FALSE
OutOfTime(h) == replies[h] = "pending" /\ now >= deadline[h]

(* The awaited request returned.                                           *)
TakeReply(h) ==
    /\ pc[h] \in Awaiting /\ replies[h] # "none"
    /\ view' = [view EXCEPT ![h] = IF replies[h] = "error" THEN @ ELSE replies[h]]
    /\ deadline' = [deadline EXCEPT ![h] = IF pc[h] = "create" THEN Deadline ELSE @]
    /\ IF pc[h] = "cancel" THEN Answer(h, "cancelled")
       ELSE IF \/ replies[h] = "error"
               \/ pc[h] = "heartbeat" /\ OutOfTime(h)
       THEN Fail(h)
       ELSE IF pc[h] = "ack" THEN Answer(h, replies[h])
       ELSE /\ pc' = [pc EXCEPT ![h] = "review"]
            /\ replies' = [replies EXCEPT ![h] = "none"]
            /\ UNCHANGED <<requests, verdict>>
    /\ UNCHANGED <<vars, historyVars, signalled, file, snapshot>>

(* The awaited request hit its timeout (5 s; 1 s for the cancel).          *)
RequestTimeout(h) ==
    /\ pc[h] \in Awaiting
    /\ IF pc[h] = "cancel" THEN Answer(h, "cancelled") ELSE Fail(h)
    /\ UNCHANGED <<vars, historyVars, view, deadline, signalled, file, snapshot>>

(* SIGINT or SIGTERM: aborts the request in flight, all but the cancel.    *)
Signal(h) ==
    /\ pc[h] \notin {"idle", "done", "killed"} /\ ~signalled[h]
    /\ signalled' = [signalled EXCEPT ![h] = TRUE]
    /\ IF pc[h] \in Abortable THEN Fail(h)
       ELSE UNCHANGED <<requests, replies, pc, verdict>>
    /\ UNCHANGED <<vars, historyVars, view, deadline, file, snapshot>>

(* The agent that started the hook is gone; noticed while waiting.         *)
ParentExits(h) ==
    /\ pc[h] = "review" /\ view[h] = "pending"
    /\ Fail(h)
    /\ UNCHANGED <<vars, historyVars, view, deadline, signalled, file, snapshot>>

(* The hook is killed and says nothing more; its requests stay in flight.  *)
Kill(h) ==
    /\ pc[h] \notin {"idle", "done", "killed"}
    /\ pc' = [pc EXCEPT ![h] = "killed"]
    /\ UNCHANGED <<vars, networkVars, historyVars, view, deadline, signalled, verdict,
                   file, snapshot>>

-----------------------------------------------------------------------------
(* The server handles a request; its reply counts while it is awaited.     *)
Accepted(m) ==
    CASE m.op = "create"    -> CanCreate(m.hook)
      [] m.op = "heartbeat" -> Permitted(m.hook, m.hook)
      [] m.op = "ack"       -> CanAcknowledge(m.hook, m.hook, m.revision)
      [] m.op = "cancel"    -> Permitted(m.hook, m.hook) /\ CanCancel(m.hook)

Perform(m) ==
    CASE m.op = "create"    -> \E q \in Requests :
                                   Create(m.hook, m.hook, q, m.revision, Timeout)
      [] m.op = "heartbeat" -> Heartbeat(m.hook, m.hook, m.revision)
      [] m.op = "ack"       -> Acknowledge(m.hook, m.hook, m.revision)
      [] m.op = "cancel"    -> OwnerCancel(m.hook, m.hook)

Handle(m) ==
    /\ Perform(m)
    /\ requests' = requests \ {m}
    /\ replies' = IF pc[m.hook] # m.op THEN replies
                  ELSE [replies EXCEPT ![m.hook] =
                           IF Accepted(m) THEN rows'[m.hook].status ELSE "error"]
    /\ withdrawn' = IF m.op = "cancel" /\ Accepted(m) THEN withdrawn \cup {m.hook}
                                                      ELSE withdrawn
    /\ delivered' = IF m.op = "ack" /\ Accepted(m)
                    THEN [delivered EXCEPT ![m.hook] = rows'[m.hook].status] ELSE delivered
    /\ UNCHANGED <<hookVars, approved, current, file>>

Lose(m) == requests' = requests \ {m}
           /\ UNCHANGED <<vars, hookVars, historyVars, replies, file>>

LoseReply(h) ==
    /\ replies[h] # "none"
    /\ replies' = [replies EXCEPT ![h] = "none"]
    /\ UNCHANGED <<vars, hookVars, historyVars, requests, file>>

(* The reviewer's page decides or cancels, however old its list is.        *)
ReviewerDecides(h, rev, d, f) ==
    /\ Decide(h, rev, d, f)
    /\ approved' = IF CanDecide(h, rev, d, f) /\ d = "approved"
                   THEN approved \cup {<<h, rev>>} ELSE approved
    /\ current' = IF ~CanDecide(h, rev, d, f) THEN current
                  ELSE IF file[h] = rev THEN current \cup {h} ELSE current \ {h}
    /\ UNCHANGED <<hookVars, networkVars, withdrawn, delivered, file>>

ReviewerCancels(h) ==
    /\ Cancel(h)
    /\ withdrawn' = IF CanCancel(h) THEN withdrawn \cup {h} ELSE withdrawn
    /\ UNCHANGED <<hookVars, networkVars, approved, delivered, current, file>>

\* Somebody edits or deletes the plan file.
Edit(h, rev) ==
    /\ file' = [file EXCEPT ![h] = rev]
    /\ current' = IF rev = snapshot[h] THEN current \cup {h} ELSE current
    /\ UNCHANGED <<vars, hookVars, networkVars, approved, withdrawn, delivered>>

Environment == UNCHANGED <<hookVars, networkVars, historyVars, file>>
ServerRestarts == Restart /\ Environment
PageRefreshes  == List /\ Environment
ClockTicks     == Tick /\ Environment

-----------------------------------------------------------------------------
GateInit ==
    /\ Init
    /\ file \in [Ids -> Revisions] /\ snapshot = file
    /\ pc = [h \in Ids |-> "idle"] /\ view = [h \in Ids |-> "pending"]
    /\ deadline = [h \in Ids |-> 0] /\ signalled = [h \in Ids |-> FALSE]
    /\ verdict = [h \in Ids |-> "none"]
    /\ requests = {} /\ replies = [h \in Ids |-> "none"]
    /\ approved = {} /\ withdrawn = {} /\ current = {}
    /\ delivered = [h \in Ids |-> "none"]

HookStep(h) == Start(h) \/ Continue(h) \/ TakeReply(h) \/ RequestTimeout(h)

GateNext ==
    \/ \E h \in Ids :
          \/ Start(h) \/ Continue(h) \/ TakeReply(h) \/ RequestTimeout(h)
          \/ Signal(h) \/ ParentExits(h) \/ Kill(h) \/ LoseReply(h)
          \/ ReviewerCancels(h)
          \/ \E rev \in Revisions \cup {NoFile} : Edit(h, rev)
          \/ \E rev \in Revisions, d \in Decisions, f \in Feedbacks \cup {NoFeedback} :
                 ReviewerDecides(h, rev, d, f)
    \/ \E m \in requests : Handle(m) \/ Lose(m)
    \/ ServerRestarts \/ PageRefreshes \/ ClockTicks

GateSpec == GateInit /\ [][GateNext]_gateVars
\* Each hook keeps taking its next step (timers end every wait) and time passes.
Fairness == (\A h \in Ids : WF_gateVars(HookStep(h))) /\ WF_gateVars(ClockTicks)

FairGateSpec == GateSpec /\ Fairness

-----------------------------------------------------------------------------
(* Types of the hooks, the network and the history.                        *)
GateTypeOK ==
    /\ pc \in [Ids -> Awaiting \cup {"idle", "review", "done", "killed"}]
    /\ view \in [Ids -> Statuses] /\ deadline \in [Ids -> Nat]
    /\ signalled \in [Ids -> BOOLEAN] /\ verdict \in [Ids -> {"none", "allow", "deny"}]
    /\ file \in [Ids -> Revisions \cup {NoFile}] /\ snapshot \in [Ids -> Revisions]
    /\ requests \subseteq Request /\ replies \in [Ids -> Reply]
    /\ approved \subseteq Ids \X Revisions /\ withdrawn \subseteq Ids
    /\ current \subseteq Ids /\ delivered \in [Ids -> Decisions \cup {"none"}]

(* The agent is let through only for the very snapshot it submitted: the   *)
(* reviewer approved that revision of that review, whatever was lost,      *)
(* delayed, reordered, restarted or edited on the way (runReviewPlan,      *)
(* create(), decide(), acknowledge()).                                     *)
GrantWasApproved ==
    \A h \in Ids : verdict[h] = "allow" => <<h, snapshot[h]>> \in approved

(* A review whose cancellation the store answered is never granted, even   *)
(* if the approval came first and its acknowledgement is still in flight.  *)
CancelledIsNeverGranted ==
    \A h \in Ids : verdict[h] = "allow" => h \notin withdrawn

(* An edit invalidates the approval: an agent is let through only if the   *)
(* plan file still held the approved revision at some instant after the    *)
(* reviewer decided (the file is read again before the acknowledgement).   *)
GrantSawTheFile ==
    \A h \in Ids : verdict[h] = "allow" => h \in current

(* The hook always answers its agent: a lost request, a dead server, a     *)
(* deleted file or a reviewer who never comes end in a denial, never in a  *)
(* hook that hangs.  Only a killed hook says nothing.                      *)
HookAnswers ==
    \A h \in Ids : pc[h] # "idle" ~> (verdict[h] # "none" \/ pc[h] = "killed")
-----------------------------------------------------------------------------
(* The gate implements its promise: hide store, network and clock.         *)
Undelivered(h) == delivered[h] = "none"
StatusOf(h)    == IF h \in Present THEN rows[h].status ELSE "superseded"

AbstractStage == [h \in Ids |->
    IF ~Undelivered(h) THEN "delivered"
    ELSE IF StatusOf(h) = "pending" THEN "open"
    ELSE IF StatusOf(h) \in Decisions THEN "decided" ELSE "out"]

AbstractDecision == [h \in Ids |->
    IF ~Undelivered(h) THEN delivered[h]
    ELSE IF StatusOf(h) \in Decisions THEN StatusOf(h) ELSE "none"]

Gate == INSTANCE PlanGate WITH Hooks <- Ids, stage <- AbstractStage,
                               decision <- AbstractDecision

(* Every step of hooks, network, server, reviewer and clock is a step of   *)
(* the promise in PlanGate or invisible to it.                             *)
RefinesPlanGate == Gate!Spec
=============================================================================
