--------------------------- MODULE AccountDeletion ---------------------------
(***************************************************************************)
(* How an account of the cloud service is deleted while the rest of the    *)
(* service goes on: one user, the row of the subscriptions table, the      *)
(* subscriptions Stripe keeps (external) and the webhooks that report      *)
(* them, the internal trial and its expiry, the user's plans and the rows  *)
(* that depend on them, the user's data export, and the account deletion   *)
(* job with the chain of scheduled actions that carries it from phase to   *)
(* phase.  A Convex mutation is one action of the model: mutations are     *)
(* serializable.  A Convex action (a call of Stripe, then a mutation) is   *)
(* several, and other steps come between them.                             *)
(***************************************************************************)
EXTENDS Naturals, Sequences, FiniteSets, SequencesExt

CONSTANTS
    Subs,           \* the Stripe subscriptions the user may buy
    Plans,          \* the plans the user may have in the cloud
    MaxRows,        \* bound: how many subscriptions rows may be inserted
    MaxChains,      \* bound: how many resume chains may overlap
    MaxRelated,     \* bound: dependent rows of one plan in one table
    InlineBatch,    \* rows per table removed inside the user's own mutation
    AccountBatch,   \* rows removed by one step of the account's deletion
    CleanupBatch,   \* rows removed by one step of a continuation
    MaxEvents,      \* bound: what users and Stripe do on their own
    MaxFaults       \* bound: failed Stripe calls and lost actions

ASSUME BatchAssumption ==
    /\ InlineBatch \in Nat \ {0}
    /\ AccountBatch \in Nat \ {0}
    /\ CleanupBatch \in Nat \ {0}

CONSTANTS NoSub, NoPlan, NoJob

\* The bounds are numbers; there is something to buy, and NoPlan is no plan.
ASSUME BoundsAssumption ==
    /\ MaxRows \in Nat \ {0} /\ MaxRelated \in Nat \ {0}
    /\ MaxChains \in Nat /\ MaxEvents \in Nat /\ MaxFaults \in Nat
ASSUME NamesAssumption == Subs # {} /\ NoPlan \notin Plans

VARIABLES
    user,       \* the auth user: [exists, session]
    stripe,     \* [Subs -> [status, priced]], what Stripe says (external)
    checkouts,  \* checkout pages opened and not yet paid
    due,        \* subscriptions with a webhook still to be handled
    fetched,    \* snapshots a webhook handler holds and has not yet written
    rows,       \* the subscriptions table: set of [id, sub, status]
    lastRow,    \* the last row id given out
    trials,     \* rows whose expireInternalTrial job is still scheduled
    plans,      \* the plans that exist
    removedBy,  \* history: who removed a plan
    related,    \* [Plans -> [PlanTables -> number of dependent rows]]
    cleanups,   \* scheduled continuations: set of [plan, phase]
    export,     \* the user's data export: [row, builder, blob]
    job,        \* the accountDeletionJobs row, or NoJob
    chains,     \* [1..MaxChains -> state of a resumeAccountDeletion chain]
    requests,   \* history: how often the user asked for the deletion
    lost,       \* history: some action was lost on the way
    events, faults

jobVars == <<job, chains>>
planVars == <<plans, removedBy, related, cleanups>>
billVars == <<rows, lastRow, trials>>
hookVars == <<due, fetched>>
faultVars == <<requests, faults, lost>>
vars == <<user, stripe, checkouts, due, fetched, rows, lastRow, trials, plans,
          removedBy, related, cleanups, export, job, chains, requests, lost,
          events, faults>>

-----------------------------------------------------------------------------
(* The phases.  The thirteen tables of a plan are told apart only by being *)
(* before, at or after planVersions, which an inline cleanup never touches; *)
(* the owner-wide tables that no property looks at are left out.           *)

PLAN_DELETION_PHASES == <<"comments", "planVersions", "planReviewRequests">>
ACCOUNT_DELETION_PHASES ==
    <<"cancelStripe", "plans", "dataExports", "subscriptions", "authSessions", "authUser">>

PlanTables == Range(PLAN_DELETION_PHASES)
Phases == Range(ACCOUNT_DELETION_PHASES)

Position(seq, phase) == CHOOSE i \in DOMAIN seq : seq[i] = phase
nextAccountDeletionPhase(phase) ==
    ACCOUNT_DELETION_PHASES[Position(ACCOUNT_DELETION_PHASES, phase) + 1]
planDeletionPhaseAfterBatch(phase, deleted) ==
    LET i == Position(PLAN_DELETION_PHASES, phase) IN
    IF deleted > 0 THEN phase
    ELSE IF i < Len(PLAN_DELETION_PHASES) THEN PLAN_DELETION_PHASES[i + 1] ELSE "none"

\* the account phases that come after the plans
After(phase) == {ACCOUNT_DELETION_PHASES[i] :
                    i \in (Position(ACCOUNT_DELETION_PHASES, phase) + 1)
                              .. Len(ACCOUNT_DELETION_PHASES)}

Chains == 1..MaxChains
ChainSteps == {"idle", "scheduled", "cancelling", "completing", "batch", "failing"}
idle == [step |-> "idle", sub |-> NoSub]

-----------------------------------------------------------------------------
SignedIn == user.exists /\ user.session
Running(s) == stripe[s].status = "active"
Snapshot(s) == [sub |-> s, status |-> stripe[s].status, priced |-> stripe[s].priced]

First(rs) == CHOOSE r \in rs : \A q \in rs : r.id <= q.id
subscriptionStateGrantsPro == rows # {} /\ First(rows).status \in {"active", "trialing"}

Event == events < MaxEvents /\ events' = events + 1
Fault == faults < MaxFaults /\ faults' = faults + 1

-----------------------------------------------------------------------------
(* Stripe and the user, from outside.                                      *)

\* the user opens a checkout page; it may be paid long afterwards
CreateCheckoutSession(s) ==
    /\ Event /\ SignedIn
    /\ stripe[s].status = "none" /\ s \notin checkouts
    /\ checkouts' = checkouts \cup {s}
    /\ UNCHANGED <<user, stripe, billVars, hookVars, planVars, export, jobVars, faultVars>>

Pay(s) ==
    /\ s \in checkouts
    /\ checkouts' = checkouts \ {s}
    /\ stripe' = [stripe EXCEPT ![s].status = "active"]
    /\ due' = due \cup {s}
    /\ UNCHANGED <<user, billVars, fetched, planVars, export, jobVars, events, faultVars>>

\* cancelled in the customer portal, or for want of payment
StripeEnds(s) ==
    /\ Event /\ Running(s)
    /\ stripe' = [stripe EXCEPT ![s].status = "canceled"]
    /\ due' = due \cup {s}
    /\ UNCHANGED <<user, checkouts, billVars, fetched, planVars, export, jobVars, faultVars>>

\* the subscription moves to a price this deployment does not know
PriceChanges(s) ==
    /\ Event /\ Running(s) /\ stripe[s].priced
    /\ stripe' = [stripe EXCEPT ![s].priced = FALSE]
    /\ due' = due \cup {s}
    /\ UNCHANGED <<user, checkouts, billVars, fetched, planVars, export, jobVars, faultVars>>

SignIn ==
    /\ Event /\ user.exists /\ ~user.session
    /\ user' = [user EXCEPT !.session = TRUE]
    /\ UNCHANGED <<stripe, checkouts, billVars, hookVars, planVars, export, jobVars, faultVars>>

-----------------------------------------------------------------------------
(* The subscriptions row.                                                  *)

InsertRow(sub, status) ==
    /\ lastRow < MaxRows
    /\ lastRow' = lastRow + 1
    /\ rows' = rows \cup {[id |-> lastRow + 1, sub |-> sub, status |-> status]}

PatchRow(r, sub, status) ==
    /\ rows' = (rows \ {r}) \cup {[id |-> r.id, sub |-> sub, status |-> status]}
    /\ UNCHANGED lastRow

startTrial ==
    /\ Event /\ SignedIn /\ rows = {}
    /\ InsertRow(NoSub, "trialing")
    /\ trials' = trials \cup {lastRow + 1}
    /\ UNCHANGED <<user, stripe, checkouts, hookVars, planVars, export, jobVars, faultVars>>

skipTrial ==
    /\ Event /\ SignedIn /\ rows = {}
    /\ InsertRow(NoSub, "canceled")
    /\ UNCHANGED <<user, stripe, checkouts, trials, hookVars, planVars, export, jobVars, faultVars>>

\* internalTrialExpiryPatch: nothing but an internal trial is touched
IsOverdueTrial(r) == r.status = "trialing" /\ r.sub = NoSub

\* mutant of expireInternalTrial: the job does not look at what the row has become
ExpireWhatever(id) ==
    /\ id \in trials
    /\ trials' = trials \ {id}
    /\ rows' = {IF r.id = id THEN [r EXCEPT !.status = "canceled"] ELSE r : r \in rows}
    /\ UNCHANGED <<user, stripe, checkouts, lastRow, hookVars, planVars, export, jobVars,
                   events, faultVars>>

expireInternalTrial(id) ==
    /\ id \in trials
    /\ trials' = trials \ {id}
    /\ rows' = {IF r.id = id /\ IsOverdueTrial(r) THEN [r EXCEPT !.status = "canceled"] ELSE r :
                   r \in rows}
    /\ UNCHANGED <<user, stripe, checkouts, lastRow, hookVars, planVars, export, jobVars,
                   events, faultVars>>

\* The cron; the week of a trial may be over before its own job has run.
expireOverdueInternalTrials ==
    /\ \E r \in rows : IsOverdueTrial(r)
    /\ rows' = {IF IsOverdueTrial(r) THEN [r EXCEPT !.status = "canceled"] ELSE r : r \in rows}
    /\ UNCHANGED <<user, stripe, checkouts, lastRow, trials, hookVars, planVars, export, jobVars,
                   events, faultVars>>

\* The row a snapshot is about: its subscription's, else its customer's (a
\* user has one Stripe customer, and a row that names a subscription names
\* that customer), else the user's internal placeholder.
RowFor(f) ==
    LET same == {r \in rows : r.sub = f.sub}
        customers == {r \in rows : r.sub # NoSub}
    IN  IF same # {} THEN {First(same)}
        ELSE IF customers # {} THEN {First(customers)}
        ELSE IF rows # {} THEN {First(rows)} ELSE {}

\* A webhook is answered with what Stripe says now, not with its payload ...
WebhookRetrieves(s) ==
    /\ s \in due
    /\ due' = due \ {s}
    /\ fetched' = fetched \cup {Snapshot(s)}
    /\ UNCHANGED <<user, stripe, checkouts, billVars, planVars, export, jobVars, events, faultVars>>

\* ... and so is a reactivation, which Stripe refuses for an ended one.
reactivateSubscription ==
    /\ Event /\ SignedIn /\ rows # {}
    /\ LET s == First(rows).sub IN
          /\ s # NoSub /\ Running(s)
          /\ fetched' = fetched \cup {Snapshot(s)}
          /\ due' = due \cup {s}
    /\ UNCHANGED <<user, stripe, checkouts, billVars, planVars, export, jobVars, faultVars>>

syncCanonicalSubscription(f) ==
    /\ f \in fetched
    /\ fetched' = fetched \ {f}
    /\ IF f.priced
       THEN IF RowFor(f) # {} THEN \E r \in RowFor(f) : PatchRow(r, f.sub, f.status)
                              ELSE InsertRow(f.sub, f.status)
       ELSE \/ \E r \in RowFor(f) : r.sub = f.sub /\ PatchRow(r, f.sub, "canceled")
            \/ /\ \A r \in rows : r.sub # f.sub
               /\ UNCHANGED <<rows, lastRow>>
    /\ UNCHANGED <<user, stripe, checkouts, due, trials, planVars, export, jobVars, events,
                   faultVars>>

\* the handler fails before it writes, and Stripe delivers the event again
WebhookFails(f) ==
    /\ Fault /\ f \in fetched
    /\ fetched' = fetched \ {f}
    /\ due' = due \cup {f.sub}
    /\ UNCHANGED <<user, stripe, checkouts, billVars, planVars, export, jobVars, events, requests, lost>>

-----------------------------------------------------------------------------
(* Plans, and the rows that depend on them.                                *)

upsertPlan(p) ==
    /\ Event /\ SignedIn /\ subscriptionStateGrantsPro
    /\ p \in plans \/ removedBy[p] = "none"
    /\ plans' = plans \cup {p}
    /\ related[p]["planVersions"] < MaxRelated
    /\ related' = [related EXCEPT ![p]["planVersions"] = @ + 1]
    /\ UNCHANGED <<user, stripe, checkouts, billVars, hookVars, removedBy, cleanups, export,
                   jobVars, faultVars>>

\* a comment, a review request: of the owner or of anyone the plan is shared with
AddRelated(p, t) ==
    /\ Event /\ p \in plans /\ t # "planVersions"
    /\ related[p][t] < MaxRelated
    /\ related' = [related EXCEPT ![p][t] = @ + 1]
    /\ UNCHANGED <<user, stripe, checkouts, billVars, hookVars, plans, removedBy, cleanups, export,
                   jobVars, faultVars>>

Least(a, b) == IF a < b THEN a ELSE b
Removed(p, t, batch) == Least(related[p][t], batch)
Batched(p, t, batch) == [related EXCEPT ![p][t] = @ - Removed(p, t, batch)]

\* mutant of ContinueFrom: a full batch is taken for the last one
ContinuePastFull(p) ==
    LET left == {i \in DOMAIN PLAN_DELETION_PHASES :
                    \/ PLAN_DELETION_PHASES[i] = "planVersions"
                    \/ Removed(p, PLAN_DELETION_PHASES[i], InlineBatch) > InlineBatch}
    IN  PLAN_DELETION_PHASES[CHOOSE i \in left : \A k \in left : i <= k]

\* where the continuation of an inline cleanup starts: at the first table that
\* may have more rows, and at the versions at the latest
ContinueFrom(p) ==
    LET left == {i \in DOMAIN PLAN_DELETION_PHASES :
                    \/ PLAN_DELETION_PHASES[i] = "planVersions"
                    \/ Removed(p, PLAN_DELETION_PHASES[i], InlineBatch) >= InlineBatch}
    IN  PLAN_DELETION_PHASES[CHOOSE i \in left : \A k \in left : i <= k]

\* deletePlan, deleteSyncedPlan and each plan of deleteMyPlansBySource
deletePlan(p) ==
    /\ Event /\ SignedIn /\ subscriptionStateGrantsPro
    /\ p \in plans
    /\ related' = [related EXCEPT ![p] = [t \in PlanTables |->
                      IF t = "planVersions" THEN @[t] ELSE @[t] - Removed(p, t, InlineBatch)]]
    /\ cleanups' = cleanups \cup {[plan |-> p, phase |-> ContinueFrom(p)]}
    /\ plans' = plans \ {p}
    /\ removedBy' = [removedBy EXCEPT ![p] = "owner"]
    /\ UNCHANGED <<user, stripe, checkouts, billVars, hookVars, export, jobVars, faultVars>>

continuePlanRelatedDataCleanup(c) ==
    /\ c \in cleanups
    /\ LET deleted == Removed(c.plan, c.phase, CleanupBatch)
           next == planDeletionPhaseAfterBatch(c.phase, deleted)
       IN  IF c.plan \in plans
           THEN cleanups' = cleanups \ {c} /\ UNCHANGED related
           ELSE /\ related' = Batched(c.plan, c.phase, CleanupBatch)
                /\ cleanups' = (cleanups \ {c})
                       \cup (IF next = "none" THEN {} ELSE {[plan |-> c.plan, phase |-> next]})
    /\ UNCHANGED <<user, stripe, checkouts, billVars, hookVars, plans, removedBy, export, jobVars,
                   events, faultVars>>

-----------------------------------------------------------------------------
(* The data export: its dataExports row, the action that builds the archive *)
(* and the archive in the file storage.  One export at a time; a request    *)
(* that finds one pending or building changes nothing.                      *)

outside == <<user, stripe, checkouts, billVars, hookVars, planVars, jobVars>>

requestDataExport ==
    /\ Event /\ SignedIn /\ job = NoJob
    /\ export.row = "none" /\ export.builder = "none"
    /\ export' = [export EXCEPT !.row = "pending", !.builder = "scheduled"]
    /\ UNCHANGED <<outside, faultVars>>

\* the action ends at once when its row is gone
claimExportBuild ==
    /\ export.builder = "scheduled"
    /\ export' = IF export.row = "pending"
                 THEN [export EXCEPT !.row = "building", !.builder = "building"]
                 ELSE [export EXCEPT !.builder = "none"]
    /\ UNCHANGED <<outside, events, faultVars>>

StoreArchive ==
    /\ export.builder = "building"
    /\ export' = [export EXCEPT !.builder = "stored", !.blob = TRUE]
    /\ UNCHANGED <<outside, events, faultVars>>

\* mutant of markExportReady: the archive stays when its row is gone
KeepsTheArchive ==
    /\ export.builder = "stored"
    /\ export' = [export EXCEPT !.row = IF @ = "building" THEN "ready" ELSE @,
                                !.builder = "none"]
    /\ UNCHANGED <<outside, events, faultVars>>

markExportReady ==
    /\ export.builder = "stored"
    /\ export' = IF export.row = "building"
                 THEN [export EXCEPT !.row = "ready", !.builder = "none"]
                 ELSE [export EXCEPT !.builder = "none", !.blob = FALSE]
    /\ UNCHANGED <<outside, events, faultVars>>

markExportFailed ==
    /\ Fault /\ export.builder \in {"building", "stored"}
    /\ export' = [row |-> IF export.row = "building" THEN "failed" ELSE export.row,
                  builder |-> "none", blob |-> FALSE]
    /\ UNCHANGED <<outside, events, requests, lost>>

\* the scheduler runs an action at most once: it may die half-way
BuilderIsLost ==
    /\ Fault /\ export.builder # "none"
    /\ export' = [export EXCEPT !.builder = "none"]
    /\ lost' = TRUE
    /\ UNCHANGED <<outside, events, requests>>

\* the row goes, and its archive when it names one
ExportRowRemoved == [export EXCEPT !.row = "none",
                                   !.blob = IF export.row = "ready" THEN FALSE ELSE @]

deleteExpiredDataExports ==
    /\ Event /\ export.row # "none"
    /\ export' = ExportRowRemoved
    /\ UNCHANGED <<outside, faultVars>>

-----------------------------------------------------------------------------
(* The deletion job.                                                       *)

\* what the job keeps of the subscription it is to cancel
Target(r) == [row |-> r.id, sub |-> r.sub, required |-> r.status # "canceled"]
NoTarget == [row |-> 0, sub |-> NoSub, required |-> TRUE]
JobAt(phase, target) ==
    [phase |-> phase, row |-> target.row, sub |-> target.sub, required |-> target.required,
     plan |-> NoPlan, planPhase |-> "none"]

Scheduled(c) == chains' = [chains EXCEPT ![c] = [step |-> "scheduled", sub |-> NoSub]]
Ends(c) == chains' = [chains EXCEPT ![c] = idle]
Goes(c, step) == chains' = [chains EXCEPT ![c].step = step]

\* deleteAccount: a second request starts a second chain for the same job
startAccountDeletion ==
    /\ Event /\ SignedIn
    /\ \E c \in Chains : chains[c] = idle /\ Scheduled(c)
    /\ job' = IF job # NoJob THEN job
              ELSE JobAt("cancelStripe", IF rows = {} THEN NoTarget ELSE Target(First(rows)))
    /\ requests' = requests + 1
    /\ UNCHANGED <<user, stripe, checkouts, billVars, hookVars, planVars, export, faults, lost>>

around == <<user, stripe, checkouts, billVars, hookVars, planVars, export, events>>

\* the action reads the job, and acts on what it has read
resumeAccountDeletion(c) ==
    /\ chains[c].step = "scheduled"
    /\ IF job = NoJob THEN Ends(c)
       ELSE IF job.phase # "cancelStripe" THEN Goes(c, "batch")
       ELSE IF job.sub # NoSub /\ job.required
            THEN chains' = [chains EXCEPT ![c] = [step |-> "cancelling", sub |-> job.sub]]
            ELSE Goes(c, "completing")
    /\ UNCHANGED <<around, job, faultVars>>

\* a subscription that had ended already is as good as cancelled
CancelAtStripe(c) ==
    /\ chains[c].step = "cancelling"
    /\ LET s == chains[c].sub IN
          IF Running(s)
          THEN /\ stripe' = [stripe EXCEPT ![s].status = "canceled"]
               /\ due' = due \cup {s}
          ELSE UNCHANGED <<stripe, due>>
    /\ Goes(c, "completing")
    /\ UNCHANGED <<user, checkouts, billVars, fetched, planVars, export, events, job, faultVars>>

StepFails(c) ==
    /\ Fault /\ chains[c].step \in {"cancelling", "completing", "batch"}
    /\ Goes(c, "failing")
    /\ UNCHANGED <<around, job, requests, lost>>

\* mutant of recordAccountDeletionFailure: the failure is noted, nothing is retried
NotesFailure(c) ==
    /\ chains[c].step = "failing"
    /\ Ends(c)
    /\ UNCHANGED <<around, job, faultVars>>

recordAccountDeletionFailure(c) ==
    /\ chains[c].step = "failing"
    /\ IF job = NoJob THEN Ends(c) ELSE Scheduled(c)
    /\ UNCHANGED <<around, job, faultVars>>

ActionIsLost(c) ==
    /\ Fault /\ chains[c] # idle
    /\ Ends(c)
    /\ lost' = TRUE
    /\ UNCHANGED <<around, job, requests>>

\* mutant of CanceledRows: the row is removed whatever it names by now
RowOfTheJob == {r \in rows : r.id = job.row}

\* The row goes only if it still names the subscription that was cancelled.
CanceledRows == {r \in rows : r.id = job.row /\ r.sub = job.sub}

completeStripeCancellation(c) ==
    /\ chains[c].step = "completing"
    /\ IF job = NoJob \/ (job # NoJob /\ job.phase # "cancelStripe")
       THEN Ends(c) /\ UNCHANGED <<job, rows>>
       ELSE /\ rows' = rows \ CanceledRows
            /\ job' = IF rows' # {} THEN JobAt("cancelStripe", Target(First(rows')))
                      ELSE JobAt(nextAccountDeletionPhase("cancelStripe"), NoTarget)
            /\ Scheduled(c)
    /\ UNCHANGED <<user, stripe, checkouts, lastRow, trials, hookVars, planVars, export, events,
                   faultVars>>

-----------------------------------------------------------------------------
(* One batch of the phase the job is in; each mutation reads the job again. *)

BatchIn(c, phase) == chains[c].step = "batch" /\ job # NoJob /\ job.phase = phase
NextPhase == job' = JobAt(nextAccountDeletionPhase(job.phase), NoTarget)

BatchIsStale(c) ==
    /\ chains[c].step = "batch"
    /\ job = NoJob \/ (job # NoJob /\ job.phase = "cancelStripe")
    /\ Ends(c)
    /\ UNCHANGED <<around, job, faultVars>>

PickPlan(c) ==
    /\ BatchIn(c, "plans") /\ job.plan = NoPlan
    /\ \/ /\ plans = {} /\ NextPhase
       \/ \E p \in plans : job' = [job EXCEPT !.plan = p, !.planPhase = PLAN_DELETION_PHASES[1]]
    /\ Scheduled(c)
    /\ UNCHANGED <<around, faultVars>>

PlanIsGone(c) ==
    /\ BatchIn(c, "plans") /\ job.plan \notin plans \cup {NoPlan}
    /\ job' = [job EXCEPT !.plan = NoPlan, !.planPhase = "none"]
    /\ Scheduled(c)
    /\ UNCHANGED <<around, faultVars>>

\* A drained table hands over to the next; after the last one the plan goes.
PlanBatch(c) ==
    /\ BatchIn(c, "plans") /\ job.plan \in plans
    /\ LET deleted == Removed(job.plan, job.planPhase, AccountBatch)
           next == planDeletionPhaseAfterBatch(job.planPhase, deleted)
       IN  /\ related' = Batched(job.plan, job.planPhase, AccountBatch)
           /\ IF next # "none"
              THEN job' = [job EXCEPT !.planPhase = next] /\ UNCHANGED <<plans, removedBy>>
              ELSE /\ plans' = plans \ {job.plan}
                   /\ removedBy' = [removedBy EXCEPT ![job.plan] = "account"]
                   /\ job' = [job EXCEPT !.plan = NoPlan, !.planPhase = "none"]
    /\ Scheduled(c)
    /\ UNCHANGED <<user, stripe, checkouts, billVars, hookVars, cleanups, export, events, faultVars>>

DataExportsBatch(c) ==
    /\ BatchIn(c, "dataExports")
    /\ IF export.row # "none" THEN export' = ExportRowRemoved /\ UNCHANGED job
                              ELSE NextPhase /\ UNCHANGED export
    /\ Scheduled(c)
    /\ UNCHANGED <<user, stripe, checkouts, billVars, hookVars, planVars, events, faultVars>>

\* a subscription that came meanwhile takes the job back to the first phase
SubscriptionsBatch(c) ==
    /\ BatchIn(c, "subscriptions")
    /\ IF rows # {} THEN job' = JobAt("cancelStripe", Target(First(rows))) ELSE NextPhase
    /\ Scheduled(c)
    /\ UNCHANGED <<around, faultVars>>

AuthSessionsBatch(c) ==
    /\ BatchIn(c, "authSessions")
    /\ IF user.session THEN user' = [user EXCEPT !.session = FALSE] /\ UNCHANGED job
                       ELSE NextPhase /\ UNCHANGED user
    /\ Scheduled(c)
    /\ UNCHANGED <<stripe, checkouts, billVars, hookVars, planVars, export, events, faultVars>>

AuthUserBatch(c) ==
    /\ BatchIn(c, "authUser")
    /\ user' = [user EXCEPT !.exists = FALSE]
    /\ job' = NoJob
    /\ Ends(c)
    /\ UNCHANGED <<stripe, checkouts, billVars, hookVars, planVars, export, events, faultVars>>

runAccountDeletionBatch(c) ==
    \/ BatchIsStale(c) \/ PickPlan(c) \/ PlanIsGone(c) \/ PlanBatch(c) \/ DataExportsBatch(c)
    \/ SubscriptionsBatch(c) \/ AuthSessionsBatch(c) \/ AuthUserBatch(c)

-----------------------------------------------------------------------------
(* A user as the service may find them: new, in a trial, past one or with a *)
(* paid subscription, and in the last two with or without a plan.           *)
InitialRelated(ps) == [p \in Plans |-> [t \in PlanTables |-> IF p \in ps THEN 1 ELSE 0]]

Init ==
    /\ user = [exists |-> TRUE, session |-> TRUE]
    /\ rows \in {{}} \cup {{r} : r \in [id : {1}, sub : {NoSub}, status : {"trialing", "canceled"}]
                               \cup [id : {1}, sub : {CHOOSE s \in Subs : TRUE}, status : {"active"}]}
    /\ stripe = [s \in Subs |-> [status |-> IF \E r \in rows : r.sub = s THEN "active" ELSE "none",
                                 priced |-> TRUE]]
    /\ lastRow = Cardinality(rows)
    /\ trials = {r.id : r \in {q \in rows : q.status = "trialing"}}
    /\ plans \in {{}} \cup (IF rows = {} THEN {} ELSE {{p} : p \in Plans})
    /\ related = InitialRelated(plans)
    /\ removedBy = [p \in Plans |-> "none"]
    /\ cleanups = {} /\ checkouts = {} /\ due = {} /\ fetched = {}
    /\ export = [row |-> "none", builder |-> "none", blob |-> FALSE]
    /\ job = NoJob /\ chains = [c \in Chains |-> idle]
    /\ requests = 0 /\ lost = FALSE /\ events = 0 /\ faults = 0

Users ==
    \/ \E s \in Subs : CreateCheckoutSession(s) \/ Pay(s) \/ StripeEnds(s) \/ PriceChanges(s)
    \/ SignIn \/ startTrial \/ skipTrial \/ reactivateSubscription
    \/ \E p \in Plans : upsertPlan(p) \/ deletePlan(p) \/ \E t \in PlanTables : AddRelated(p, t)
    \/ requestDataExport \/ startAccountDeletion

Billing ==
    \/ \E s \in Subs : WebhookRetrieves(s)
    \/ \E f \in fetched : syncCanonicalSubscription(f) \/ WebhookFails(f)
    \/ \E id \in trials : expireInternalTrial(id)
    \/ expireOverdueInternalTrials

Background ==
    \/ \E c \in cleanups : continuePlanRelatedDataCleanup(c)
    \/ claimExportBuild \/ StoreArchive \/ markExportReady \/ markExportFailed \/ BuilderIsLost
    \/ deleteExpiredDataExports

Chain(c) ==
    \/ resumeAccountDeletion(c) \/ CancelAtStripe(c) \/ completeStripeCancellation(c)
    \/ runAccountDeletionBatch(c) \/ recordAccountDeletionFailure(c)

Next ==
    \/ Users \/ Billing \/ Background
    \/ \E c \in Chains : Chain(c) \/ StepFails(c) \/ ActionIsLost(c)

Spec == Init /\ [][Next]_vars

\* The scheduler runs every scheduled function it does not lose.
Fairness ==
    /\ \A c \in Chains : WF_vars(Chain(c))
    /\ \A p \in Plans, t \in PlanTables :
          WF_vars(\E c \in cleanups : c = [plan |-> p, phase |-> t]
                                      /\ continuePlanRelatedDataCleanup(c))

FairSpec == Spec /\ Fairness

-----------------------------------------------------------------------------
BillTypeOK ==
    /\ stripe \in [Subs -> [status : {"none", "active", "canceled"}, priced : BOOLEAN]]
    /\ checkouts \subseteq Subs /\ due \subseteq Subs
    /\ fetched \subseteq [sub : Subs, status : {"active", "canceled"}, priced : BOOLEAN]
    /\ rows \subseteq [id : 1..MaxRows, sub : Subs \cup {NoSub},
                       status : {"active", "trialing", "canceled"}]
    /\ lastRow \in 0..MaxRows /\ trials \subseteq 1..MaxRows

PlanTypeOK ==
    /\ plans \subseteq Plans
    /\ removedBy \in [Plans -> {"none", "owner", "account"}]
    /\ related \in [Plans -> [PlanTables -> 0..MaxRelated]]
    /\ cleanups \subseteq [plan : Plans, phase : PlanTables]

JobTypeOK ==
    /\ job = NoJob \/ job \in [phase : Phases, row : 0..MaxRows, sub : Subs \cup {NoSub},
                               required : BOOLEAN, plan : Plans \cup {NoPlan},
                               planPhase : PlanTables \cup {"none"}]
    /\ chains \in [Chains -> [step : ChainSteps, sub : Subs \cup {NoSub}]]

RestTypeOK ==
    /\ user \in [exists : BOOLEAN, session : BOOLEAN]
    /\ export \in [row : {"none", "pending", "building", "ready", "failed"},
                   builder : {"none", "scheduled", "building", "stored"}, blob : BOOLEAN]
    /\ requests \in 0..MaxEvents /\ lost \in BOOLEAN
    /\ events \in 0..MaxEvents /\ faults \in 0..MaxFaults

TypeOK == BillTypeOK /\ PlanTypeOK /\ JobTypeOK /\ RestTypeOK

\* A user never has two rows of the subscriptions table, though a trial, a
\* skipped trial and the webhooks of any of the user's Stripe subscriptions
\* may each be the first to insert one, and entitlements read only one.
OneRowPerUser == Cardinality(rows) <= 1

\* Once the deletion is past the plans, no plan is left unless the user has a
\* subscriptions row again: without one no device may upload, and with one the
\* job goes back to its first phase or the row came after its last look.
EndedMeansGone ==
    (~user.exists \/ (job # NoJob /\ job.phase \in After("plans"))) /\ rows = {} => plans = {}

\* A deletion that has begun is driven by at least one scheduled action, and
\* no two chains get in each other's way so far that both stop.
JobIsDriven == job # NoJob /\ ~lost => \E c \in Chains : chains[c] # idle

\* An archive in the file storage belongs to a row that is ready, or to a
\* builder that is about to hand it over; it never outlives both, however the
\* build, its expiry and the account's deletion come to overlap.
ArchivesAreOwned == export.blob /\ ~lost => export.row = "ready" \/ export.builder = "stored"

\* The four above: one row per user, nothing left that the user owned, a job
\* that somebody drives, and no archive without an owner (account.ts 361-846).
DeletionIsSound == TypeOK /\ OneRowPerUser /\ EndedMeansGone /\ JobIsDriven /\ ArchivesAreOwned

\* The row follows Stripe.  The deletion of an account asked for once removes
\* a subscription's row only after Stripe has ended that subscription, though
\* a webhook may point the row at another while the first is being cancelled.
\* (A subscription of an unknown price reads "canceled" and is left alone.)
RemovedMeansCancelled ==
    requests <= 1 =>
        \A r \in rows : (\A q \in rows' : q.id # r.id) /\ r.sub # NoSub
                           => ~Running(r.sub) \/ ~stripe[r.sub].priced

\* And a row that names a Stripe subscription changes only to what a handler
\* has fetched from Stripe: the expiry of the internal trial the row began as
\* never takes away what was paid for since.
ChangedMeansFetched ==
    \A r \in rows, q \in rows' :
        q.id = r.id /\ r.sub # NoSub /\ q # r
           => \E f \in fetched : f.sub = q.sub
                                 /\ q.status = (IF f.priced THEN f.status ELSE "canceled")

\* Both of the row of subscriptions, as properties of every step.
RowsFollowStripe == [][RemovedMeansCancelled /\ ChangedMeansFetched]_vars

\* When a user has deleted a plan, its dependent rows all go in the end,
\* whatever the deletion of the account does meanwhile.
CleanupDrains ==
    \A p \in Plans : removedBy[p] = "owner" ~> \A t \in PlanTables : related[p][t] = 0

\* A deletion that has begun ends, through failures of Stripe and of its own
\* steps, unless the scheduler loses its action.
DeletionEnds == job # NoJob ~> job = NoJob \/ lost
=============================================================================
