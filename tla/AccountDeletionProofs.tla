----------------------- MODULE AccountDeletionProofs -----------------------
(***************************************************************************)
(* Theorems about the deletion of an account, for any number of Stripe     *)
(* subscriptions, plans, dependent rows and overlapping chains, any batch  *)
(* sizes, and whatever fails or is lost.                                   *)
(***************************************************************************)
EXTENDS AccountDeletion, FiniteSetTheorems, TLAPS

-----------------------------------------------------------------------------
(* The inductive invariant *)

(* There is at most one row; nothing that waits at Stripe, in a webhook or *)
(* in the row is of a subscription that has not begun.                     *)
Begun(s) == stripe[s].status # "none"
Ended(s) == stripe[s].status = "canceled" \/ ~stripe[s].priced

BillInv ==
    /\ \A r, q \in rows : r = q
    /\ \A s \in checkouts : ~Begun(s)
    /\ \A s \in due : Begun(s)
    /\ \A f \in fetched :
          /\ Begun(f.sub)
          /\ (f.status = "canceled" \/ ~f.priced) => Ended(f.sub)
    /\ \A r \in rows : r.sub # NoSub =>
          /\ Begun(r.sub) /\ r.status # "trialing"
          /\ r.status = "canceled" => Ended(r.sub)

(* A plan is only there with a row, or while the job is not past the plans.*)
PlanInv ==
    /\ ~user.exists => job = NoJob
    /\ EndedMeansGone
    /\ job # NoJob /\ job.plan # NoPlan => job.planPhase \in PlanTables

(* Some chain does what the job's phase asks for: it will read the job     *)
(* again, or what it has read is still so.                                 *)
Drives(c) ==
    \/ chains[c].step \in {"scheduled", "failing"}
    \/ chains[c].step \in {"cancelling", "completing"} /\ job.phase = "cancelStripe"
    \/ chains[c].step = "batch" /\ job.phase # "cancelStripe"

Driven == job # NoJob /\ ~lost => \E c \in Chains : Drives(c)

(* The user asks for the deletion in steps of their own. *)
Asked ==
    /\ requests <= events
    /\ requests = 0 => job = NoJob /\ \A c \in Chains : chains[c].step = "idle"

(* With one request there is one chain, and what it cancels is what the    *)
(* job names.                                                              *)
OneChain ==
    requests <= 1 =>
        /\ \A c, d \in Chains : chains[c].step # "idle" /\ chains[d].step # "idle" => c = d
        /\ \A c \in Chains :
              /\ chains[c].step = "cancelling" /\ job # NoJob => chains[c].sub = job.sub
              /\ chains[c].step = "completing" /\ job # NoJob /\ job.sub # NoSub => Ended(job.sub)

(* What the job names has begun, and ended where it need not be cancelled; *)
(* a chain that cancels has a subscription to cancel.                      *)
NamedBegun ==
    /\ job # NoJob /\ job.sub # NoSub =>
          /\ Begun(job.sub)
          /\ ~job.required => Ended(job.sub)
    /\ \A c \in Chains : chains[c].step = "cancelling" => chains[c].sub # NoSub

ChainInv == Driven /\ Asked /\ OneChain /\ NamedBegun

IInv == TypeOK /\ BillInv /\ PlanInv /\ ChainInv /\ ArchivesAreOwned

-----------------------------------------------------------------------------
(* Helpers *)

USE DEF Event, Fault, billVars, hookVars, planVars, jobVars, faultVars, around, outside

(* The phases of the job and of a plan, by name. *)
LEMMA PhaseOrder ==
    /\ nextAccountDeletionPhase("cancelStripe") = "plans"
    /\ nextAccountDeletionPhase("plans") = "dataExports"
    /\ nextAccountDeletionPhase("dataExports") = "subscriptions"
    /\ nextAccountDeletionPhase("subscriptions") = "authSessions"
    /\ nextAccountDeletionPhase("authSessions") = "authUser"
    /\ After("plans") = {"dataExports", "subscriptions", "authSessions", "authUser"}
    /\ Phases = {"cancelStripe", "plans", "dataExports", "subscriptions", "authSessions",
                 "authUser"}
<1> DEFINE S == ACCOUNT_DELETION_PHASES
<1>1. /\ DOMAIN S = 1 .. 6 /\ Len(S) = 6
      /\ S[1] = "cancelStripe" /\ S[2] = "plans" /\ S[3] = "dataExports"
      /\ S[4] = "subscriptions" /\ S[5] = "authSessions" /\ S[6] = "authUser"
  BY DEF ACCOUNT_DELETION_PHASES
<1> HIDE DEF S
<1>2. /\ Position(S, "cancelStripe") = 1 /\ Position(S, "plans") = 2
      /\ Position(S, "dataExports") = 3 /\ Position(S, "subscriptions") = 4
      /\ Position(S, "authSessions") = 5
  BY <1>1 DEF Position
<1>3. After("plans") = {S[i] : i \in 3 .. 6}
  BY <1>1, <1>2 DEF After, S
<1>4. Phases = {S[i] : i \in 1 .. 6}
  BY <1>1 DEF Phases, Range, S
<1>5. {S[i] : i \in 3 .. 6} = {S[3], S[4], S[5], S[6]}
  OBVIOUS
<1>6. {S[i] : i \in 1 .. 6} = {S[1], S[2], S[3], S[4], S[5], S[6]}
  OBVIOUS
<1> QED BY <1>1, <1>2, <1>3, <1>4, <1>5, <1>6 DEF nextAccountDeletionPhase, S

(* See PhaseOrder. *)
LEMMA PlanPhaseOrder ==
    /\ PlanTables = {"comments", "planVersions", "planReviewRequests"}
    /\ PLAN_DELETION_PHASES[1] = "comments"
    /\ \A phase \in PlanTables, deleted \in Nat :
          planDeletionPhaseAfterBatch(phase, deleted) \in PlanTables \cup {"none"}
    /\ \A p \in Plans : ContinueFrom(p) \in PlanTables
<1> DEFINE S == PLAN_DELETION_PHASES
<1>1. /\ DOMAIN S = 1 .. 3 /\ Len(S) = 3
      /\ S[1] = "comments" /\ S[2] = "planVersions" /\ S[3] = "planReviewRequests"
  BY DEF PLAN_DELETION_PHASES
<1> HIDE DEF S
<1>2. PlanTables = {S[i] : i \in 1 .. 3}
  BY <1>1 DEF PlanTables, Range, S
<1>3. PlanTables = {"comments", "planVersions", "planReviewRequests"}
  BY <1>1, <1>2
<1>4. \A phase \in PlanTables : Position(S, phase) \in 1 .. 3
  BY <1>1, <1>3 DEF Position
<1>5. ASSUME NEW phase \in PlanTables, NEW deleted \in Nat
      PROVE  planDeletionPhaseAfterBatch(phase, deleted) \in PlanTables \cup {"none"}
  BY <1>1, <1>2, <1>4 DEF planDeletionPhaseAfterBatch, S
<1>6. ASSUME NEW p \in Plans PROVE ContinueFrom(p) \in PlanTables
  <2> DEFINE left == {i \in DOMAIN S : \/ S[i] = "planVersions"
                                       \/ Removed(p, S[i], InlineBatch) >= InlineBatch}
             first == CHOOSE i \in left : \A k \in left : i <= k
  <2>1. left \subseteq {1, 2, 3} /\ 2 \in left
    BY <1>1
  <2> HIDE DEF left
  <2>2. \E i \in left : \A k \in left : i <= k
    <3>1. CASE 1 \in left
      BY <2>1, <3>1
    <3>2. CASE 1 \notin left
      BY <2>1, <3>2
    <3> QED BY <3>1, <3>2
  <2>3. first \in left
    BY <2>2 DEF first
  <2>4. ContinueFrom(p) = S[first]
    BY DEF ContinueFrom, left, S
  <2> HIDE DEF first
  <2>5. first \in 1 .. 3
    BY <2>1, <2>3
  <2> QED BY <1>2, <2>4, <2>5
<1> QED BY <1>1, <1>3, <1>5, <1>6 DEF S

(* The row that is read where there is one. *)
LEMMA FirstOfOne ==
    ASSUME TypeOK, BillInv, NEW rs \in SUBSET rows, rs # {}
    PROVE  First(rs) \in rs
<1>1. PICK r \in rs : TRUE
  OBVIOUS
<1>2. \A q \in rs : q = r /\ r.id \in Nat
  BY DEF TypeOK, BillTypeOK, BillInv
<1> QED BY <1>1, <1>2 DEF First

(* What does not touch a part of the state keeps its types. *)
LEMMA TypesKept ==
    /\ UNCHANGED <<stripe, checkouts, due, fetched, rows, lastRow, trials>>
          => (BillTypeOK => BillTypeOK')
    /\ UNCHANGED <<plans, removedBy, related, cleanups>> => (PlanTypeOK => PlanTypeOK')
    /\ UNCHANGED <<job, chains>> => (JobTypeOK => JobTypeOK')
    /\ UNCHANGED <<user, export, requests, lost, events, faults>> => (RestTypeOK => RestTypeOK')
  BY DEF BillTypeOK, PlanTypeOK, JobTypeOK, RestTypeOK

(* What does not touch a part of the state keeps what is known of it. *)
LEMMA BillKept ==
    ASSUME BillInv, UNCHANGED <<stripe, checkouts, due, fetched, rows>>
    PROVE  BillInv'
  BY DEF BillInv, Begun, Ended

(* See BillKept. *)
LEMMA PlanKept ==
    ASSUME PlanInv, UNCHANGED <<user, rows, plans, job>>
    PROVE  PlanInv'
  BY DEF PlanInv, EndedMeansGone

(* See BillKept. *)
LEMMA ChainKept ==
    ASSUME TypeOK, TypeOK', ChainInv, UNCHANGED <<stripe, job, chains, requests, lost>>,
           events <= events'
    PROVE  ChainInv'
  BY DEF TypeOK, RestTypeOK, ChainInv, Driven, Asked, OneChain, NamedBegun, Drives, Begun, Ended

(* See BillKept. *)
LEMMA ExportKept ==
    ASSUME ArchivesAreOwned, UNCHANGED <<export, lost>>
    PROVE  ArchivesAreOwned'
  BY DEF ArchivesAreOwned

-----------------------------------------------------------------------------
(* Stripe, the user and the row *)

(* A checkout page is opened. *)
LEMMA CreateCheckoutSessionSafe ==
    ASSUME IInv, NEW s \in Subs, CreateCheckoutSession(s)
    PROVE  IInv'
<1> USE DEF CreateCheckoutSession, SignedIn
<1>1. TypeOK'
  <2>1. UNCHANGED <<plans, removedBy, related, cleanups, job, chains>>
    OBVIOUS
  <2>2. PlanTypeOK' /\ JobTypeOK'
    BY <2>1, TypesKept DEF IInv, TypeOK
  <2>3. BillTypeOK'
    BY BoundsAssumption DEF IInv, TypeOK, BillTypeOK
  <2>4. RestTypeOK'
    BY BoundsAssumption DEF IInv, TypeOK, RestTypeOK
  <2> QED BY <2>1, <2>2, <2>3, <2>4 DEF TypeOK
<1>2. PlanInv' /\ ChainInv' /\ ArchivesAreOwned'
  <2>1. UNCHANGED <<user, rows, plans, job, stripe, chains, requests, lost, export>> /\ events <=
                    events'
    BY DEF IInv, TypeOK, RestTypeOK
  <2> QED BY <1>1, <2>1, PlanKept, ChainKept, ExportKept DEF IInv
<1>3. BillInv'
  BY DEF IInv, BillInv, Begun, Ended
<1> QED BY <1>1, <1>2, <1>3 DEF IInv

(* It is paid. *)
LEMMA PaySafe ==
    ASSUME IInv, NEW s \in Subs, Pay(s)
    PROVE  IInv'
<1> USE DEF Pay
<1>0. /\ \A q \in Subs : stripe'[q].priced = stripe[q].priced
      /\ \A q \in Subs : stripe'[q].status = IF q = s THEN "active" ELSE stripe[q].status
  BY DEF IInv, TypeOK, BillTypeOK
<1>1. TypeOK'
  <2>1. UNCHANGED <<plans, removedBy, related, cleanups, job, chains, user, export, requests, lost,
                    events, faults>>
    OBVIOUS
  <2>2. PlanTypeOK' /\ JobTypeOK' /\ RestTypeOK'
    BY <2>1, TypesKept DEF IInv, TypeOK
  <2>3. BillTypeOK'
    BY BoundsAssumption DEF IInv, TypeOK, BillTypeOK
  <2> QED BY <2>1, <2>2, <2>3 DEF TypeOK
<1>2. PlanInv' /\ ArchivesAreOwned'
  <2>1. UNCHANGED <<user, rows, plans, job, export, lost>>
    OBVIOUS
  <2> QED BY <2>1, PlanKept, ExportKept DEF IInv
<1>3. BillInv'
  <2>1. ~Begun(s) /\ Begun(s)'
    BY <1>0 DEF IInv, BillInv, Begun
  <2>2. \A q \in Subs : q # s => (Begun(q)' <=> Begun(q)) /\ (Ended(q)' <=> Ended(q))
    BY <1>0 DEF Begun, Ended
  <2>3. \A r \in rows : r.sub # NoSub => r.sub \in Subs
    BY DEF IInv, TypeOK, BillTypeOK
  <2>4. \A f \in fetched : f.sub \in Subs
    BY DEF IInv, TypeOK, BillTypeOK
  <2>5. \A q \in checkouts' : ~Begun(q)'
    BY <2>2 DEF IInv, TypeOK, BillTypeOK, BillInv
  <2>6. \A q \in due' : Begun(q)'
    BY <2>1, <2>2 DEF IInv, TypeOK, BillTypeOK, BillInv
  <2>7. \A f \in fetched :
           /\ Begun(f.sub)'
           /\ (f.status = "canceled" \/ ~f.priced) => Ended(f.sub)'
    <3>1. \A f \in fetched : f.sub # s
      BY <2>1 DEF IInv, BillInv
    <3> QED BY <2>4, <3>1, <1>0 DEF IInv, BillInv, Begun, Ended
  <2>8. \A r \in rows : r.sub # NoSub =>
           /\ Begun(r.sub)' /\ r.status # "trialing"
           /\ r.status = "canceled" => Ended(r.sub)'
    <3>1. \A r \in rows : r.sub # NoSub => r.sub # s
      BY <2>1, <2>3 DEF IInv, BillInv
    <3> QED BY <2>3, <3>1, <1>0 DEF IInv, BillInv, Begun, Ended
  <2> QED BY <2>5, <2>6, <2>7, <2>8 DEF IInv, BillInv
<1>4. ChainInv'
  BY <1>0 DEF IInv, TypeOK, BillTypeOK, RestTypeOK, BillInv, ChainInv, Driven, Asked, OneChain,
              NamedBegun, Drives, Begun, Ended
<1> QED BY <1>1, <1>2, <1>3, <1>4 DEF IInv

(* Stripe ends a subscription. *)
LEMMA StripeEndsSafe ==
    ASSUME IInv, NEW s \in Subs, StripeEnds(s)
    PROVE  IInv'
<1> USE DEF StripeEnds, Running
<1>1. TypeOK'
  <2>1. UNCHANGED <<plans, removedBy, related, cleanups, job, chains>>
    OBVIOUS
  <2>2. PlanTypeOK' /\ JobTypeOK'
    BY <2>1, TypesKept DEF IInv, TypeOK
  <2>3. BillTypeOK'
    BY BoundsAssumption DEF IInv, TypeOK, BillTypeOK
  <2>4. RestTypeOK'
    BY BoundsAssumption DEF IInv, TypeOK, RestTypeOK
  <2> QED BY <2>1, <2>2, <2>3, <2>4 DEF TypeOK
<1>2. PlanInv' /\ ArchivesAreOwned'
  <2>1. UNCHANGED <<user, rows, plans, job, export, lost>>
    OBVIOUS
  <2> QED BY <2>1, PlanKept, ExportKept DEF IInv
<1>3. BillInv'
  BY DEF IInv, TypeOK, BillTypeOK, BillInv, Begun, Ended
<1>4. ChainInv'
  BY DEF IInv, TypeOK, BillTypeOK, RestTypeOK, ChainInv, Driven, Asked, OneChain, NamedBegun,
         Drives, Begun, Ended
<1> QED BY <1>1, <1>2, <1>3, <1>4 DEF IInv

(* A price is not known any more. *)
LEMMA PriceChangesSafe ==
    ASSUME IInv, NEW s \in Subs, PriceChanges(s)
    PROVE  IInv'
<1> USE DEF PriceChanges, Running
<1>1. TypeOK'
  <2>1. UNCHANGED <<plans, removedBy, related, cleanups, job, chains>>
    OBVIOUS
  <2>2. PlanTypeOK' /\ JobTypeOK'
    BY <2>1, TypesKept DEF IInv, TypeOK
  <2>3. BillTypeOK'
    BY BoundsAssumption DEF IInv, TypeOK, BillTypeOK
  <2>4. RestTypeOK'
    BY BoundsAssumption DEF IInv, TypeOK, RestTypeOK
  <2> QED BY <2>1, <2>2, <2>3, <2>4 DEF TypeOK
<1>2. PlanInv' /\ ArchivesAreOwned'
  <2>1. UNCHANGED <<user, rows, plans, job, export, lost>>
    OBVIOUS
  <2> QED BY <2>1, PlanKept, ExportKept DEF IInv
<1>3. BillInv'
  BY DEF IInv, TypeOK, BillTypeOK, BillInv, Begun, Ended
<1>4. ChainInv'
  BY DEF IInv, TypeOK, BillTypeOK, RestTypeOK, ChainInv, Driven, Asked, OneChain, NamedBegun,
         Drives, Begun, Ended
<1> QED BY <1>1, <1>2, <1>3, <1>4 DEF IInv

(* The user signs in again. *)
LEMMA SignInSafe ==
    ASSUME IInv, SignIn
    PROVE  IInv'
<1> USE DEF SignIn
<1>1. TypeOK'
  <2>1. UNCHANGED <<stripe, checkouts, due, fetched, rows, lastRow, trials, plans, removedBy,
                    related, cleanups, job, chains>>
    OBVIOUS
  <2>2. BillTypeOK' /\ PlanTypeOK' /\ JobTypeOK'
    BY <2>1, TypesKept DEF IInv, TypeOK
  <2>3. RestTypeOK'
    <3>1. user' \in [exists : BOOLEAN, session : BOOLEAN]
      BY DEF IInv, TypeOK, RestTypeOK
    <3> QED BY <3>1, BoundsAssumption DEF IInv, TypeOK, RestTypeOK
  <2> QED BY <2>1, <2>2, <2>3 DEF TypeOK
<1>2. BillInv' /\ ChainInv' /\ ArchivesAreOwned'
  <2>1. UNCHANGED <<stripe, checkouts, due, fetched, rows, job, chains, requests, lost, export>> /\
                    events <= events'
    BY DEF IInv, TypeOK, RestTypeOK
  <2> QED BY <1>1, <2>1, BillKept, ChainKept, ExportKept DEF IInv
<1>3. PlanInv'
  BY DEF IInv, TypeOK, RestTypeOK, PlanInv, EndedMeansGone
<1> QED BY <1>1, <1>2, <1>3 DEF IInv

(* A trial begins. *)
LEMMA startTrialSafe ==
    ASSUME IInv, startTrial
    PROVE  IInv'
<1> USE DEF startTrial, InsertRow
<1>1. TypeOK'
  <2>1. UNCHANGED <<plans, removedBy, related, cleanups, job, chains>>
    OBVIOUS
  <2>2. PlanTypeOK' /\ JobTypeOK'
    BY <2>1, TypesKept DEF IInv, TypeOK
  <2>3. BillTypeOK'
    BY BoundsAssumption DEF IInv, TypeOK, BillTypeOK
  <2>4. RestTypeOK'
    BY BoundsAssumption DEF IInv, TypeOK, RestTypeOK
  <2> QED BY <2>1, <2>2, <2>3, <2>4 DEF TypeOK
<1>2. ChainInv' /\ ArchivesAreOwned'
  <2>1. UNCHANGED <<stripe, job, chains, requests, lost, export>> /\ events <= events'
    BY DEF IInv, TypeOK, RestTypeOK
  <2> QED BY <1>1, <2>1, ChainKept, ExportKept DEF IInv
<1>3. BillInv'
  BY DEF IInv, BillInv, Begun, Ended
<1>4. PlanInv'
  BY DEF IInv, PlanInv, EndedMeansGone
<1> QED BY <1>1, <1>2, <1>3, <1>4 DEF IInv

(* A trial is skipped. *)
LEMMA skipTrialSafe ==
    ASSUME IInv, skipTrial
    PROVE  IInv'
<1> USE DEF skipTrial, InsertRow
<1>1. TypeOK'
  <2>1. UNCHANGED <<plans, removedBy, related, cleanups, job, chains>>
    OBVIOUS
  <2>2. PlanTypeOK' /\ JobTypeOK'
    BY <2>1, TypesKept DEF IInv, TypeOK
  <2>3. BillTypeOK'
    BY BoundsAssumption DEF IInv, TypeOK, BillTypeOK
  <2>4. RestTypeOK'
    BY BoundsAssumption DEF IInv, TypeOK, RestTypeOK
  <2> QED BY <2>1, <2>2, <2>3, <2>4 DEF TypeOK
<1>2. ChainInv' /\ ArchivesAreOwned'
  <2>1. UNCHANGED <<stripe, job, chains, requests, lost, export>> /\ events <= events'
    BY DEF IInv, TypeOK, RestTypeOK
  <2> QED BY <1>1, <2>1, ChainKept, ExportKept DEF IInv
<1>3. BillInv'
  BY DEF IInv, BillInv, Begun, Ended
<1>4. PlanInv'
  BY DEF IInv, PlanInv, EndedMeansGone
<1> QED BY <1>1, <1>2, <1>3, <1>4 DEF IInv

(* A trial is over. *)
LEMMA expireInternalTrialSafe ==
    ASSUME IInv, NEW id \in trials, expireInternalTrial(id)
    PROVE  IInv'
<1> USE DEF expireInternalTrial, IsOverdueTrial
<1>0. \A q \in rows' : \E r \in rows :
        q.id = r.id /\ q.sub = r.sub /\ (q = r \/ (r.sub = NoSub /\ q.status = "canceled"))
  BY DEF IInv, TypeOK, BillTypeOK
<1>1. TypeOK'
  <2>1. UNCHANGED <<plans, removedBy, related, cleanups, job, chains, user, export, requests, lost,
                    events, faults>>
    OBVIOUS
  <2>2. PlanTypeOK' /\ JobTypeOK' /\ RestTypeOK'
    BY <2>1, TypesKept DEF IInv, TypeOK
  <2>3. BillTypeOK'
    BY BoundsAssumption DEF IInv, TypeOK, BillTypeOK
  <2> QED BY <2>1, <2>2, <2>3 DEF TypeOK
<1>2. ChainInv' /\ ArchivesAreOwned'
  <2>1. UNCHANGED <<stripe, job, chains, requests, lost, export>> /\ events <= events'
    BY DEF IInv, TypeOK, RestTypeOK
  <2> QED BY <1>1, <2>1, ChainKept, ExportKept DEF IInv
<1>3. BillInv'
  <2>1. \A q, r \in rows' : q = r
    BY DEF IInv, BillInv
  <2> QED BY <1>0, <2>1 DEF IInv, BillInv, Begun, Ended
<1>4. PlanInv'
  BY DEF IInv, PlanInv, EndedMeansGone
<1> QED BY <1>1, <1>2, <1>3, <1>4 DEF IInv

(* The cron finds trials that are over. *)
LEMMA expireOverdueInternalTrialsSafe ==
    ASSUME IInv, expireOverdueInternalTrials
    PROVE  IInv'
<1> USE DEF expireOverdueInternalTrials, IsOverdueTrial
<1>0. \A q \in rows' : \E r \in rows :
        q.id = r.id /\ q.sub = r.sub /\ (q = r \/ (r.sub = NoSub /\ q.status = "canceled"))
  BY DEF IInv, TypeOK, BillTypeOK
<1>1. TypeOK'
  <2>1. UNCHANGED <<plans, removedBy, related, cleanups, job, chains, user, export, requests, lost,
                    events, faults>>
    OBVIOUS
  <2>2. PlanTypeOK' /\ JobTypeOK' /\ RestTypeOK'
    BY <2>1, TypesKept DEF IInv, TypeOK
  <2>3. BillTypeOK'
    BY BoundsAssumption DEF IInv, TypeOK, BillTypeOK
  <2> QED BY <2>1, <2>2, <2>3 DEF TypeOK
<1>2. ChainInv' /\ ArchivesAreOwned'
  <2>1. UNCHANGED <<stripe, job, chains, requests, lost, export>> /\ events <= events'
    BY DEF IInv, TypeOK, RestTypeOK
  <2> QED BY <1>1, <2>1, ChainKept, ExportKept DEF IInv
<1>3. BillInv'
  <2>1. \A q, r \in rows' : q = r
    BY DEF IInv, BillInv
  <2> QED BY <1>0, <2>1 DEF IInv, BillInv, Begun, Ended
<1>4. PlanInv'
  BY DEF IInv, PlanInv, EndedMeansGone
<1> QED BY <1>1, <1>2, <1>3, <1>4 DEF IInv

(* A webhook handler reads Stripe. *)
LEMMA WebhookRetrievesSafe ==
    ASSUME IInv, NEW s \in Subs, WebhookRetrieves(s)
    PROVE  IInv'
<1> USE DEF WebhookRetrieves, Snapshot
<1>1. TypeOK'
  <2>1. UNCHANGED <<plans, removedBy, related, cleanups, job, chains, user, export, requests, lost,
                    events, faults>>
    OBVIOUS
  <2>2. PlanTypeOK' /\ JobTypeOK' /\ RestTypeOK'
    BY <2>1, TypesKept DEF IInv, TypeOK
  <2>3. BillTypeOK'
    <3>1. Snapshot(s) \in [sub : Subs, status : {"active", "canceled"}, priced : BOOLEAN]
      BY DEF IInv, TypeOK, BillTypeOK, BillInv, Begun
    <3> QED BY <3>1 DEF IInv, TypeOK, BillTypeOK
  <2> QED BY <2>1, <2>2, <2>3 DEF TypeOK
<1>2. PlanInv' /\ ChainInv' /\ ArchivesAreOwned'
  <2>1. UNCHANGED <<user, rows, plans, job, stripe, chains, requests, lost, export>> /\ events <=
                    events'
    BY DEF IInv, TypeOK, RestTypeOK
  <2> QED BY <1>1, <2>1, PlanKept, ChainKept, ExportKept DEF IInv
<1>3. BillInv'
  BY DEF IInv, TypeOK, BillTypeOK, BillInv, Begun, Ended
<1> QED BY <1>1, <1>2, <1>3 DEF IInv

(* So does a reactivation. *)
LEMMA reactivateSubscriptionSafe ==
    ASSUME IInv, reactivateSubscription
    PROVE  IInv'
<1> USE DEF reactivateSubscription, Snapshot, Running, SignedIn
<1>0. First(rows).sub \in Subs
  <2>1. First(rows) \in rows
    BY FirstOfOne DEF IInv
  <2> QED BY <2>1 DEF IInv, TypeOK, BillTypeOK
<1>1. TypeOK'
  <2>1. UNCHANGED <<plans, removedBy, related, cleanups, job, chains>>
    OBVIOUS
  <2>2. PlanTypeOK' /\ JobTypeOK'
    BY <2>1, TypesKept DEF IInv, TypeOK
  <2>3. BillTypeOK'
    <3>1. Snapshot(First(rows).sub)
              \in [sub : Subs, status : {"active", "canceled"}, priced : BOOLEAN]
      BY <1>0 DEF IInv, TypeOK, BillTypeOK
    <3> QED BY <1>0, <3>1 DEF IInv, TypeOK, BillTypeOK
  <2>4. RestTypeOK'
    BY BoundsAssumption DEF IInv, TypeOK, RestTypeOK
  <2> QED BY <2>1, <2>2, <2>3, <2>4 DEF TypeOK
<1>2. PlanInv' /\ ChainInv' /\ ArchivesAreOwned'
  <2>1. UNCHANGED <<user, rows, plans, job, stripe, chains, requests, lost, export>> /\ events <=
                    events'
    BY DEF IInv, TypeOK, RestTypeOK
  <2> QED BY <1>1, <2>1, PlanKept, ChainKept, ExportKept DEF IInv
<1>3. BillInv'
  BY <1>0 DEF IInv, TypeOK, BillTypeOK, BillInv, Begun, Ended
<1> QED BY <1>1, <1>2, <1>3 DEF IInv

(* A webhook handler writes what it has fetched. *)
LEMMA syncCanonicalSubscriptionSafe ==
    ASSUME IInv, NEW f \in fetched, syncCanonicalSubscription(f)
    PROVE  IInv'
<1> USE DEF syncCanonicalSubscription
<1>0. \/ UNCHANGED <<rows, lastRow>>
      \/ \E id \in 1 .. MaxRows, st \in {"active", "canceled"} :
            /\ rows' = {[id |-> id, sub |-> f.sub, status |-> st]}
            /\ st = "canceled" => f.status = "canceled" \/ ~f.priced
            /\ lastRow' \in 0 .. MaxRows
  <2>1. /\ RowFor(f) \subseteq rows
        /\ RowFor(f) = {} => rows = {}
    <3> DEFINE same == {r \in rows : r.sub = f.sub}
               customers == {r \in rows : r.sub # NoSub}
    <3>1. same # {} => First(same) \in rows
      BY FirstOfOne DEF IInv
    <3>2. customers # {} => First(customers) \in rows
      BY FirstOfOne DEF IInv
    <3>3. rows # {} => First(rows) \in rows
      BY FirstOfOne DEF IInv
    <3> HIDE DEF same, customers
    <3>4. RowFor(f) = IF same # {} THEN {First(same)}
                      ELSE IF customers # {} THEN {First(customers)}
                      ELSE IF rows # {} THEN {First(rows)} ELSE {}
      BY DEF RowFor, same, customers
    <3> QED BY <3>1, <3>2, <3>3, <3>4
  <2>2. f.status \in {"active", "canceled"} /\ lastRow \in 0 .. MaxRows /\ MaxRows \in Nat
    BY BoundsAssumption DEF IInv, TypeOK, BillTypeOK
  <2>3. ASSUME NEW r \in RowFor(f), NEW st \in {"active", "canceled"}, PatchRow(r, f.sub, st)
        PROVE  /\ r.id \in 1 .. MaxRows /\ lastRow' = lastRow
               /\ rows' = {[id |-> r.id, sub |-> f.sub, status |-> st]}
    <3>1. r \in rows /\ rows \ {r} = {}
      BY <2>1, <2>3 DEF IInv, BillInv
    <3>2. r.id \in 1 .. MaxRows
      BY <3>1 DEF IInv, TypeOK, BillTypeOK
    <3> QED BY <2>3, <3>1, <3>2 DEF PatchRow
  <2>4. CASE f.priced /\ RowFor(f) # {}
    <3>1. PICK r \in RowFor(f) : PatchRow(r, f.sub, f.status)
      BY <2>4
    <3> QED BY <2>2, <2>3, <3>1
  <2>5. CASE f.priced /\ RowFor(f) = {}
    <3>1. rows = {} /\ InsertRow(f.sub, f.status)
      BY <2>1, <2>5
    <3>2. /\ rows' = {[id |-> lastRow + 1, sub |-> f.sub, status |-> f.status]}
          /\ lastRow + 1 \in 1 .. MaxRows /\ lastRow' \in 0 .. MaxRows
      BY <2>2, <3>1 DEF InsertRow
    <3> QED BY <2>2, <2>5, <3>2
  <2>6. CASE ~f.priced
    <3>1. CASE \E r \in RowFor(f) : r.sub = f.sub /\ PatchRow(r, f.sub, "canceled")
      BY <2>2, <2>3, <2>6, <3>1
    <3>2. CASE UNCHANGED <<rows, lastRow>>
      BY <3>2
    <3> QED BY <2>6, <3>1, <3>2
  <2> QED BY <2>4, <2>5, <2>6
<1>00. f.sub \in Subs /\ f \in fetched /\ fetched' \subseteq fetched
  BY DEF IInv, TypeOK, BillTypeOK
<1>000. UNCHANGED <<user, stripe, checkouts, due, trials, plans, removedBy, related, cleanups,
                    export, job, chains, requests, lost, events, faults>>
  BY DEF syncCanonicalSubscription
<1>1. TypeOK'
  <2>1. UNCHANGED <<plans, removedBy, related, cleanups, job, chains, user, export, requests, lost,
                    events, faults>>
    OBVIOUS
  <2>2. PlanTypeOK' /\ JobTypeOK' /\ RestTypeOK'
    BY <2>1, TypesKept DEF IInv, TypeOK
  <2>3. BillTypeOK'
    BY <1>0, <1>00, <1>000, BoundsAssumption DEF IInv, TypeOK, BillTypeOK
  <2> QED BY <2>1, <2>2, <2>3 DEF TypeOK
<1>2. ChainInv' /\ ArchivesAreOwned'
  <2>1. UNCHANGED <<stripe, job, chains, requests, lost, export>> /\ events <= events'
    BY DEF IInv, TypeOK, RestTypeOK
  <2> QED BY <1>1, <2>1, ChainKept, ExportKept DEF IInv
<1>3. BillInv'
  <2>1. CASE UNCHANGED rows
    BY <2>1, <1>00, <1>000 DEF IInv, BillInv, Begun, Ended
  <2>2. CASE ~UNCHANGED rows
    <3>1. PICK id, st :
             /\ rows' = {[id |-> id, sub |-> f.sub, status |-> st]}
             /\ st \in {"active", "canceled"}
             /\ st = "canceled" => f.status = "canceled" \/ ~f.priced
      BY <1>0, <2>2
    <3>2. /\ Begun(f.sub)
          /\ st = "canceled" => Ended(f.sub)
      BY <1>00, <3>1 DEF IInv, BillInv
    <3> QED BY <1>00, <1>000, <3>1, <3>2 DEF IInv, BillInv, Begun, Ended
  <2> QED BY <2>1, <2>2
<1>4. PlanInv'
  <2>1. rows' = {} => rows = {}
    BY <1>0
  <2> QED BY <2>1, <1>000 DEF IInv, PlanInv, EndedMeansGone
<1> QED BY <1>1, <1>2, <1>3, <1>4 DEF IInv

(* A webhook handler fails. *)
LEMMA WebhookFailsSafe ==
    ASSUME IInv, NEW f \in fetched, WebhookFails(f)
    PROVE  IInv'
<1> USE DEF WebhookFails
<1>1. TypeOK'
  <2>1. UNCHANGED <<plans, removedBy, related, cleanups, job, chains>>
    OBVIOUS
  <2>2. PlanTypeOK' /\ JobTypeOK'
    BY <2>1, TypesKept DEF IInv, TypeOK
  <2>3. BillTypeOK'
    BY BoundsAssumption DEF IInv, TypeOK, BillTypeOK
  <2>4. RestTypeOK'
    BY BoundsAssumption DEF IInv, TypeOK, RestTypeOK
  <2> QED BY <2>1, <2>2, <2>3, <2>4 DEF TypeOK
<1>2. PlanInv' /\ ChainInv' /\ ArchivesAreOwned'
  <2>1. UNCHANGED <<user, rows, plans, job, stripe, chains, requests, lost, export>> /\ events <=
                    events'
    BY DEF IInv, TypeOK, RestTypeOK
  <2> QED BY <1>1, <2>1, PlanKept, ChainKept, ExportKept DEF IInv
<1>3. BillInv'
  BY DEF IInv, TypeOK, BillTypeOK, BillInv, Begun, Ended
<1> QED BY <1>1, <1>2, <1>3 DEF IInv

-----------------------------------------------------------------------------
(* Plans and exports *)

(* A device uploads a plan. *)
LEMMA upsertPlanSafe ==
    ASSUME IInv, NEW p \in Plans, upsertPlan(p)
    PROVE  IInv'
<1> USE DEF upsertPlan, SignedIn, subscriptionStateGrantsPro
<1>0. rows # {} /\ "planVersions" \in PlanTables
  BY PlanPhaseOrder
<1>1. TypeOK'
  <2>1. UNCHANGED <<stripe, checkouts, due, fetched, rows, lastRow, trials, job, chains>>
    OBVIOUS
  <2>2. BillTypeOK' /\ JobTypeOK'
    BY <2>1, TypesKept DEF IInv, TypeOK
  <2>3. PlanTypeOK'
    <3>1. /\ related[p] \in [PlanTables -> 0 .. MaxRelated]
          /\ related[p]["planVersions"] + 1 \in 0 .. MaxRelated
      BY <1>0, BoundsAssumption DEF IInv, TypeOK, PlanTypeOK
    <3> QED BY <3>1 DEF IInv, TypeOK, PlanTypeOK
  <2>4. RestTypeOK'
    BY BoundsAssumption DEF IInv, TypeOK, RestTypeOK
  <2> QED BY <2>1, <2>2, <2>3, <2>4 DEF TypeOK
<1>2. BillInv' /\ ChainInv' /\ ArchivesAreOwned'
  <2>1. UNCHANGED <<stripe, checkouts, due, fetched, rows, job, chains, requests, lost, export>> /\
                    events <= events'
    BY DEF IInv, TypeOK, RestTypeOK
  <2> QED BY <1>1, <2>1, BillKept, ChainKept, ExportKept DEF IInv
<1>3. PlanInv'
  BY <1>0 DEF IInv, PlanInv, EndedMeansGone
<1> QED BY <1>1, <1>2, <1>3 DEF IInv

(* Somebody adds to a plan. *)
LEMMA AddRelatedSafe ==
    ASSUME IInv, NEW p \in Plans, NEW t \in PlanTables, AddRelated(p, t)
    PROVE  IInv'
<1> USE DEF AddRelated
<1>1. TypeOK'
  <2>1. UNCHANGED <<stripe, checkouts, due, fetched, rows, lastRow, trials, job, chains>>
    OBVIOUS
  <2>2. BillTypeOK' /\ JobTypeOK'
    BY <2>1, TypesKept DEF IInv, TypeOK
  <2>3. PlanTypeOK'
    <3>1. related[p] \in [PlanTables -> 0 .. MaxRelated] /\ related[p][t] + 1 \in 0 .. MaxRelated
      BY BoundsAssumption DEF IInv, TypeOK, PlanTypeOK
    <3> QED BY <3>1 DEF IInv, TypeOK, PlanTypeOK
  <2>4. RestTypeOK'
    BY BoundsAssumption DEF IInv, TypeOK, RestTypeOK
  <2> QED BY <2>1, <2>2, <2>3, <2>4 DEF TypeOK
<1>2. BillInv' /\ PlanInv' /\ ChainInv' /\ ArchivesAreOwned'
  <2>1. UNCHANGED <<stripe, checkouts, due, fetched, rows, user, plans, job, chains, requests,
                    lost, export>> /\ events <= events'
    BY DEF IInv, TypeOK, RestTypeOK
  <2> QED BY <1>1, <2>1, BillKept, PlanKept, ChainKept, ExportKept DEF IInv
<1> QED BY <1>1, <1>2 DEF IInv

(* A batch leaves no more rows than there were. *)
LEMMA BatchShrinks ==
    ASSUME PlanTypeOK, NEW p \in Plans, NEW t \in PlanTables, NEW batch \in Nat
    PROVE  /\ Removed(p, t, batch) \in Nat
           /\ related[p][t] - Removed(p, t, batch) \in 0 .. MaxRelated
           /\ Batched(p, t, batch) \in [Plans -> [PlanTables -> 0 .. MaxRelated]]
<1>1. related[p] \in [PlanTables -> 0 .. MaxRelated] /\ related[p][t] \in 0 .. MaxRelated
  BY DEF PlanTypeOK
<1>2. /\ Removed(p, t, batch) \in Nat
      /\ related[p][t] - Removed(p, t, batch) \in 0 .. MaxRelated
  BY <1>1, BoundsAssumption DEF Removed, Least
<1> DEFINE n == related[p][t] - Removed(p, t, batch)
<1>3. Batched(p, t, batch) = [related EXCEPT ![p][t] = n]
  BY <1>1 DEF Batched, PlanTypeOK
<1> HIDE DEF n
<1>4. n \in 0 .. MaxRelated
  BY <1>2 DEF n
<1>5. [related EXCEPT ![p][t] = n] \in [Plans -> [PlanTables -> 0 .. MaxRelated]]
  BY <1>1, <1>4 DEF PlanTypeOK
<1> QED BY <1>2, <1>3, <1>5

(* The user deletes a plan. *)
LEMMA deletePlanSafe ==
    ASSUME IInv, NEW p \in Plans, deletePlan(p)
    PROVE  IInv'
<1> USE DEF deletePlan
<1>0. ContinueFrom(p) \in PlanTables
  BY PlanPhaseOrder
<1>1. TypeOK'
  <2>1. UNCHANGED <<stripe, checkouts, due, fetched, rows, lastRow, trials, job, chains>>
    OBVIOUS
  <2>2. BillTypeOK' /\ JobTypeOK'
    BY <2>1, TypesKept DEF IInv, TypeOK
  <2>3. PlanTypeOK'
    <3> DEFINE left == [t \in PlanTables |-> IF t = "planVersions" THEN related[p][t]
                                             ELSE related[p][t] - Removed(p, t, InlineBatch)]
    <3>1. PlanTypeOK
      BY DEF IInv, TypeOK
    <3>2. left \in [PlanTables -> 0 .. MaxRelated]
      BY <3>1, BatchShrinks, BatchAssumption DEF PlanTypeOK
    <3>3. related' = [related EXCEPT ![p] = left]
      BY <3>1 DEF PlanTypeOK
    <3> HIDE DEF left
    <3>4. related' \in [Plans -> [PlanTables -> 0 .. MaxRelated]]
      BY <3>1, <3>2, <3>3 DEF PlanTypeOK
    <3> QED BY <1>0, <3>1, <3>4 DEF PlanTypeOK
  <2>4. RestTypeOK'
    BY BoundsAssumption DEF IInv, TypeOK, RestTypeOK
  <2> QED BY <2>1, <2>2, <2>3, <2>4 DEF TypeOK
<1>2. BillInv' /\ ChainInv' /\ ArchivesAreOwned'
  <2>1. UNCHANGED <<stripe, checkouts, due, fetched, rows, job, chains, requests, lost, export>> /\
                    events <= events'
    BY DEF IInv, TypeOK, RestTypeOK
  <2> QED BY <1>1, <2>1, BillKept, ChainKept, ExportKept DEF IInv
<1>3. PlanInv'
  BY DEF IInv, PlanInv, EndedMeansGone
<1> QED BY <1>1, <1>2, <1>3 DEF IInv

(* A continuation goes on. *)
LEMMA continuePlanRelatedDataCleanupSafe ==
    ASSUME IInv, NEW c \in cleanups, continuePlanRelatedDataCleanup(c)
    PROVE  IInv'
<1> USE DEF continuePlanRelatedDataCleanup
<1>1. TypeOK'
  <2>1. UNCHANGED <<stripe, checkouts, due, fetched, rows, lastRow, trials, job, chains, user,
                    export, requests, lost, events, faults>>
    OBVIOUS
  <2>2. BillTypeOK' /\ JobTypeOK' /\ RestTypeOK'
    BY <2>1, TypesKept DEF IInv, TypeOK
  <2>3. PlanTypeOK'
    <3>1. PlanTypeOK /\ c.plan \in Plans /\ c.phase \in PlanTables /\ CleanupBatch \in Nat
      BY BatchAssumption DEF IInv, TypeOK, PlanTypeOK
    <3> DEFINE next == planDeletionPhaseAfterBatch(c.phase, Removed(c.plan, c.phase, CleanupBatch))
    <3>2. next \in PlanTables \cup {"none"} /\ Batched(c.plan, c.phase, CleanupBatch)
                                                  \in [Plans -> [PlanTables -> 0 .. MaxRelated]]
      BY <3>1, BatchShrinks, PlanPhaseOrder
    <3> HIDE DEF next
    <3>3. /\ related' \in {related, Batched(c.plan, c.phase, CleanupBatch)}
          /\ cleanups' \subseteq cleanups
                \cup (IF next = "none" THEN {} ELSE {[plan |-> c.plan, phase |-> next]})
      BY DEF next
    <3>4. UNCHANGED <<plans, removedBy>>
      OBVIOUS
    <3> QED BY <3>1, <3>2, <3>3, <3>4 DEF PlanTypeOK
  <2> QED BY <2>1, <2>2, <2>3 DEF TypeOK
<1>2. BillInv' /\ PlanInv' /\ ChainInv' /\ ArchivesAreOwned'
  <2>1. UNCHANGED <<stripe, checkouts, due, fetched, rows, user, plans, job, chains, requests,
                    lost, export>> /\ events <= events'
    BY DEF IInv, TypeOK, RestTypeOK
  <2> QED BY <1>1, <2>1, BillKept, PlanKept, ChainKept, ExportKept DEF IInv
<1> QED BY <1>1, <1>2 DEF IInv

(* An export is asked for. *)
LEMMA requestDataExportSafe ==
    ASSUME IInv, requestDataExport
    PROVE  IInv'
<1> USE DEF requestDataExport, SignedIn
<1>1. TypeOK'
  <2>1. UNCHANGED <<stripe, checkouts, due, fetched, rows, lastRow, trials, plans, removedBy,
                    related, cleanups, job, chains>>
    OBVIOUS
  <2>2. BillTypeOK' /\ PlanTypeOK' /\ JobTypeOK'
    BY <2>1, TypesKept DEF IInv, TypeOK
  <2>3. RestTypeOK'
    <3>1. export' \in [row : {"none", "pending", "building", "ready", "failed"},
                       builder : {"none", "scheduled", "building", "stored"}, blob : BOOLEAN]
      BY DEF IInv, TypeOK, RestTypeOK
    <3>2. UNCHANGED <<user, requests>> /\ lost' \in BOOLEAN
          /\ events' \in 0 .. MaxEvents /\ faults' \in 0 .. MaxFaults
      BY BoundsAssumption DEF IInv, TypeOK, RestTypeOK
    <3> QED BY <3>1, <3>2 DEF IInv, TypeOK, RestTypeOK
  <2> QED BY <2>1, <2>2, <2>3 DEF TypeOK
<1>2. BillInv' /\ PlanInv' /\ ChainInv'
  <2>1. UNCHANGED <<stripe, checkouts, due, fetched, rows, user, plans, job, chains, requests,
                    lost>> /\ events <= events'
    BY DEF IInv, TypeOK, RestTypeOK
  <2> QED BY <1>1, <2>1, BillKept, PlanKept, ChainKept DEF IInv
<1>3. ArchivesAreOwned'
  BY DEF IInv, TypeOK, RestTypeOK, ArchivesAreOwned
<1> QED BY <1>1, <1>2, <1>3 DEF IInv

(* Its builder begins. *)
LEMMA claimExportBuildSafe ==
    ASSUME IInv, claimExportBuild
    PROVE  IInv'
<1> USE DEF claimExportBuild
<1>1. TypeOK'
  <2>1. UNCHANGED <<stripe, checkouts, due, fetched, rows, lastRow, trials, plans, removedBy,
                    related, cleanups, job, chains>>
    OBVIOUS
  <2>2. BillTypeOK' /\ PlanTypeOK' /\ JobTypeOK'
    BY <2>1, TypesKept DEF IInv, TypeOK
  <2>3. RestTypeOK'
    <3>1. export' \in [row : {"none", "pending", "building", "ready", "failed"},
                       builder : {"none", "scheduled", "building", "stored"}, blob : BOOLEAN]
      BY DEF IInv, TypeOK, RestTypeOK
    <3>2. UNCHANGED <<user, requests>> /\ lost' \in BOOLEAN
          /\ events' \in 0 .. MaxEvents /\ faults' \in 0 .. MaxFaults
      BY BoundsAssumption DEF IInv, TypeOK, RestTypeOK
    <3> QED BY <3>1, <3>2 DEF IInv, TypeOK, RestTypeOK
  <2> QED BY <2>1, <2>2, <2>3 DEF TypeOK
<1>2. BillInv' /\ PlanInv' /\ ChainInv'
  <2>1. UNCHANGED <<stripe, checkouts, due, fetched, rows, user, plans, job, chains, requests,
                    lost>> /\ events <= events'
    BY DEF IInv, TypeOK, RestTypeOK
  <2> QED BY <1>1, <2>1, BillKept, PlanKept, ChainKept DEF IInv
<1>3. ArchivesAreOwned'
  BY DEF IInv, TypeOK, RestTypeOK, ArchivesAreOwned
<1> QED BY <1>1, <1>2, <1>3 DEF IInv

(* The archive is stored. *)
LEMMA StoreArchiveSafe ==
    ASSUME IInv, StoreArchive
    PROVE  IInv'
<1> USE DEF StoreArchive
<1>1. TypeOK'
  <2>1. UNCHANGED <<stripe, checkouts, due, fetched, rows, lastRow, trials, plans, removedBy,
                    related, cleanups, job, chains>>
    OBVIOUS
  <2>2. BillTypeOK' /\ PlanTypeOK' /\ JobTypeOK'
    BY <2>1, TypesKept DEF IInv, TypeOK
  <2>3. RestTypeOK'
    <3>1. export' \in [row : {"none", "pending", "building", "ready", "failed"},
                       builder : {"none", "scheduled", "building", "stored"}, blob : BOOLEAN]
      BY DEF IInv, TypeOK, RestTypeOK
    <3>2. UNCHANGED <<user, requests>> /\ lost' \in BOOLEAN
          /\ events' \in 0 .. MaxEvents /\ faults' \in 0 .. MaxFaults
      BY BoundsAssumption DEF IInv, TypeOK, RestTypeOK
    <3> QED BY <3>1, <3>2 DEF IInv, TypeOK, RestTypeOK
  <2> QED BY <2>1, <2>2, <2>3 DEF TypeOK
<1>2. BillInv' /\ PlanInv' /\ ChainInv'
  <2>1. UNCHANGED <<stripe, checkouts, due, fetched, rows, user, plans, job, chains, requests,
                    lost>> /\ events <= events'
    BY DEF IInv, TypeOK, RestTypeOK
  <2> QED BY <1>1, <2>1, BillKept, PlanKept, ChainKept DEF IInv
<1>3. ArchivesAreOwned'
  BY DEF IInv, TypeOK, RestTypeOK, ArchivesAreOwned
<1> QED BY <1>1, <1>2, <1>3 DEF IInv

(* The archive is handed over. *)
LEMMA markExportReadySafe ==
    ASSUME IInv, markExportReady
    PROVE  IInv'
<1> USE DEF markExportReady
<1>1. TypeOK'
  <2>1. UNCHANGED <<stripe, checkouts, due, fetched, rows, lastRow, trials, plans, removedBy,
                    related, cleanups, job, chains>>
    OBVIOUS
  <2>2. BillTypeOK' /\ PlanTypeOK' /\ JobTypeOK'
    BY <2>1, TypesKept DEF IInv, TypeOK
  <2>3. RestTypeOK'
    <3>1. export' \in [row : {"none", "pending", "building", "ready", "failed"},
                       builder : {"none", "scheduled", "building", "stored"}, blob : BOOLEAN]
      BY DEF IInv, TypeOK, RestTypeOK
    <3>2. UNCHANGED <<user, requests>> /\ lost' \in BOOLEAN
          /\ events' \in 0 .. MaxEvents /\ faults' \in 0 .. MaxFaults
      BY BoundsAssumption DEF IInv, TypeOK, RestTypeOK
    <3> QED BY <3>1, <3>2 DEF IInv, TypeOK, RestTypeOK
  <2> QED BY <2>1, <2>2, <2>3 DEF TypeOK
<1>2. BillInv' /\ PlanInv' /\ ChainInv'
  <2>1. UNCHANGED <<stripe, checkouts, due, fetched, rows, user, plans, job, chains, requests,
                    lost>> /\ events <= events'
    BY DEF IInv, TypeOK, RestTypeOK
  <2> QED BY <1>1, <2>1, BillKept, PlanKept, ChainKept DEF IInv
<1>3. ArchivesAreOwned'
  BY DEF IInv, TypeOK, RestTypeOK, ArchivesAreOwned
<1> QED BY <1>1, <1>2, <1>3 DEF IInv

(* The builder fails. *)
LEMMA markExportFailedSafe ==
    ASSUME IInv, markExportFailed
    PROVE  IInv'
<1> USE DEF markExportFailed
<1>1. TypeOK'
  <2>1. UNCHANGED <<stripe, checkouts, due, fetched, rows, lastRow, trials, plans, removedBy,
                    related, cleanups, job, chains>>
    OBVIOUS
  <2>2. BillTypeOK' /\ PlanTypeOK' /\ JobTypeOK'
    BY <2>1, TypesKept DEF IInv, TypeOK
  <2>3. RestTypeOK'
    <3>1. export' \in [row : {"none", "pending", "building", "ready", "failed"},
                       builder : {"none", "scheduled", "building", "stored"}, blob : BOOLEAN]
      BY DEF IInv, TypeOK, RestTypeOK
    <3>2. UNCHANGED <<user, requests>> /\ lost' \in BOOLEAN
          /\ events' \in 0 .. MaxEvents /\ faults' \in 0 .. MaxFaults
      BY BoundsAssumption DEF IInv, TypeOK, RestTypeOK
    <3> QED BY <3>1, <3>2 DEF IInv, TypeOK, RestTypeOK
  <2> QED BY <2>1, <2>2, <2>3 DEF TypeOK
<1>2. BillInv' /\ PlanInv' /\ ChainInv'
  <2>1. UNCHANGED <<stripe, checkouts, due, fetched, rows, user, plans, job, chains, requests,
                    lost>> /\ events <= events'
    BY DEF IInv, TypeOK, RestTypeOK
  <2> QED BY <1>1, <2>1, BillKept, PlanKept, ChainKept DEF IInv
<1>3. ArchivesAreOwned'
  BY DEF IInv, TypeOK, RestTypeOK, ArchivesAreOwned
<1> QED BY <1>1, <1>2, <1>3 DEF IInv

(* An export expires. *)
LEMMA deleteExpiredDataExportsSafe ==
    ASSUME IInv, deleteExpiredDataExports
    PROVE  IInv'
<1> USE DEF deleteExpiredDataExports, ExportRowRemoved
<1>1. TypeOK'
  <2>1. UNCHANGED <<stripe, checkouts, due, fetched, rows, lastRow, trials, plans, removedBy,
                    related, cleanups, job, chains>>
    OBVIOUS
  <2>2. BillTypeOK' /\ PlanTypeOK' /\ JobTypeOK'
    BY <2>1, TypesKept DEF IInv, TypeOK
  <2>3. RestTypeOK'
    <3>1. export' \in [row : {"none", "pending", "building", "ready", "failed"},
                       builder : {"none", "scheduled", "building", "stored"}, blob : BOOLEAN]
      BY DEF IInv, TypeOK, RestTypeOK
    <3>2. UNCHANGED <<user, requests>> /\ lost' \in BOOLEAN
          /\ events' \in 0 .. MaxEvents /\ faults' \in 0 .. MaxFaults
      BY BoundsAssumption DEF IInv, TypeOK, RestTypeOK
    <3> QED BY <3>1, <3>2 DEF IInv, TypeOK, RestTypeOK
  <2> QED BY <2>1, <2>2, <2>3 DEF TypeOK
<1>2. BillInv' /\ PlanInv' /\ ChainInv'
  <2>1. UNCHANGED <<stripe, checkouts, due, fetched, rows, user, plans, job, chains, requests,
                    lost>> /\ events <= events'
    BY DEF IInv, TypeOK, RestTypeOK
  <2> QED BY <1>1, <2>1, BillKept, PlanKept, ChainKept DEF IInv
<1>3. ArchivesAreOwned'
  BY DEF IInv, TypeOK, RestTypeOK, ArchivesAreOwned
<1> QED BY <1>1, <1>2, <1>3 DEF IInv

(* The builder is lost. *)
LEMMA BuilderIsLostSafe ==
    ASSUME IInv, BuilderIsLost
    PROVE  IInv'
<1> USE DEF BuilderIsLost
<1>1. TypeOK'
  <2>1. UNCHANGED <<stripe, checkouts, due, fetched, rows, lastRow, trials, plans, removedBy,
                    related, cleanups, job, chains>>
    OBVIOUS
  <2>2. BillTypeOK' /\ PlanTypeOK' /\ JobTypeOK'
    BY <2>1, TypesKept DEF IInv, TypeOK
  <2>3. RestTypeOK'
    <3>1. export' \in [row : {"none", "pending", "building", "ready", "failed"},
                       builder : {"none", "scheduled", "building", "stored"}, blob : BOOLEAN]
      BY DEF IInv, TypeOK, RestTypeOK
    <3>2. UNCHANGED <<user, requests>> /\ lost' \in BOOLEAN
          /\ events' \in 0 .. MaxEvents /\ faults' \in 0 .. MaxFaults
      BY BoundsAssumption DEF IInv, TypeOK, RestTypeOK
    <3> QED BY <3>1, <3>2 DEF IInv, TypeOK, RestTypeOK
  <2> QED BY <2>1, <2>2, <2>3 DEF TypeOK
<1>2. BillInv' /\ PlanInv'
  <2>1. UNCHANGED <<stripe, checkouts, due, fetched, rows, user, plans, job>>
    OBVIOUS
  <2> QED BY <2>1, BillKept, PlanKept DEF IInv
<1>3. ChainInv'
  BY DEF IInv, TypeOK, RestTypeOK, ChainInv, Driven, Asked, OneChain, NamedBegun, Drives, Begun,
         Ended
<1>4. ArchivesAreOwned'
  BY DEF IInv, TypeOK, RestTypeOK, ArchivesAreOwned
<1> QED BY <1>1, <1>2, <1>3, <1>4 DEF IInv

-----------------------------------------------------------------------------
(* The job and its chains *)

(* What a job row may be, and what it may be told to cancel. *)
Jobs == [phase : Phases, row : 0..MaxRows, sub : Subs \cup {NoSub}, required : BOOLEAN,
         plan : Plans \cup {NoPlan}, planPhase : PlanTables \cup {"none"}]
Targets == [row : 0..MaxRows, sub : Subs \cup {NoSub}, required : BOOLEAN]

(* A job sent to a phase is a job row, and names what it was told to. *)
LEMMA JobAtType ==
    ASSUME NEW phase \in Phases, NEW target \in Targets
    PROVE  /\ JobAt(phase, target) \in Jobs
           /\ JobAt(phase, target).phase = phase
           /\ JobAt(phase, target).sub = target.sub
           /\ JobAt(phase, target).required = target.required
           /\ JobAt(phase, target).plan = NoPlan
  BY DEF JobAt, Jobs, Targets

(* What is read of a row that is there, or of none. *)
LEMMA TargetTypes ==
    ASSUME IInv
    PROVE  /\ NoTarget \in Targets /\ NoTarget.sub = NoSub
           /\ \A r \in rows :
                 /\ Target(r) \in Targets
                 /\ Target(r).sub # NoSub =>
                       /\ Begun(Target(r).sub)
                       /\ ~Target(r).required => Ended(Target(r).sub)
<1>1. NoTarget \in Targets /\ NoTarget.sub = NoSub
  BY BoundsAssumption DEF NoTarget, Targets
<1>2. ASSUME NEW r \in rows
      PROVE  /\ Target(r) \in Targets
             /\ Target(r).sub = r.sub /\ (Target(r).required <=> r.status # "canceled")
  <2>1. r.id \in 0..MaxRows /\ r.sub \in Subs \cup {NoSub} /\ (r.status # "canceled") \in BOOLEAN
    BY BoundsAssumption DEF IInv, TypeOK, BillTypeOK
  <2> QED BY <2>1 DEF Target, Targets
<1> QED BY <1>1, <1>2 DEF IInv, BillInv

(* An action fails. *)
LEMMA StepFailsSafe ==
    ASSUME IInv, NEW c \in Chains, StepFails(c)
    PROVE  IInv'
<1> USE DEF StepFails, Scheduled, Ends, Goes, idle
<1>0. \A d \in Chains :
        /\ chains'[d].step = IF d = c THEN "failing" ELSE chains[d].step
        /\ chains'[d].sub = chains[d].sub
  BY DEF IInv, TypeOK, JobTypeOK
<1>1. TypeOK'
  <2>1. UNCHANGED <<stripe, checkouts, due, fetched, rows, lastRow, trials, plans, removedBy,
                    related, cleanups>>
    OBVIOUS
  <2>2. BillTypeOK' /\ PlanTypeOK'
    BY <2>1, TypesKept DEF IInv, TypeOK
  <2>3. JobTypeOK'
    <3>1. chains' \in [Chains -> [step : ChainSteps, sub : Subs \cup {NoSub}]]
      BY DEF IInv, TypeOK, JobTypeOK, ChainSteps
    <3> QED BY <3>1 DEF IInv, TypeOK, JobTypeOK
  <2>4. RestTypeOK'
    BY BoundsAssumption DEF IInv, TypeOK, RestTypeOK
  <2> QED BY <2>1, <2>2, <2>3, <2>4 DEF TypeOK
<1>2. BillInv' /\ PlanInv' /\ ArchivesAreOwned'
  <2>1. UNCHANGED <<stripe, checkouts, due, fetched, rows, user, plans, job, export, lost>>
    OBVIOUS
  <2> QED BY <2>1, BillKept, PlanKept, ExportKept DEF IInv
<1>3. ChainInv'
  BY <1>0 DEF IInv, TypeOK, RestTypeOK, ChainInv, Driven, Asked, OneChain, NamedBegun, Drives,
              Begun, Ended
<1> QED BY <1>1, <1>2, <1>3 DEF IInv

(* Its failure is recorded. *)
LEMMA recordAccountDeletionFailureSafe ==
    ASSUME IInv, NEW c \in Chains, recordAccountDeletionFailure(c)
    PROVE  IInv'
<1> USE DEF recordAccountDeletionFailure, Scheduled, Ends, Goes, idle
<1>0. \A d \in Chains :
        /\ chains'[d].step = IF d = c THEN (IF job = NoJob THEN "idle" ELSE "scheduled")
                             ELSE chains[d].step
        /\ chains'[d].sub = IF d = c THEN NoSub ELSE chains[d].sub
  BY DEF IInv, TypeOK, JobTypeOK
<1>1. TypeOK'
  <2>1. UNCHANGED <<stripe, checkouts, due, fetched, rows, lastRow, trials, plans, removedBy,
                    related, cleanups, user, export, requests, lost, events, faults>>
    OBVIOUS
  <2>2. BillTypeOK' /\ PlanTypeOK' /\ RestTypeOK'
    BY <2>1, TypesKept DEF IInv, TypeOK
  <2>3. JobTypeOK'
    <3>1. chains' \in [Chains -> [step : ChainSteps, sub : Subs \cup {NoSub}]]
      BY DEF IInv, TypeOK, JobTypeOK, ChainSteps
    <3> QED BY <3>1 DEF IInv, TypeOK, JobTypeOK
  <2> QED BY <2>1, <2>2, <2>3 DEF TypeOK
<1>2. BillInv' /\ PlanInv' /\ ArchivesAreOwned'
  <2>1. UNCHANGED <<stripe, checkouts, due, fetched, rows, user, plans, job, export, lost>>
    OBVIOUS
  <2> QED BY <2>1, BillKept, PlanKept, ExportKept DEF IInv
<1>3. ChainInv'
  BY <1>0 DEF IInv, TypeOK, RestTypeOK, ChainInv, Driven, Asked, OneChain, NamedBegun, Drives,
              Begun, Ended
<1> QED BY <1>1, <1>2, <1>3 DEF IInv

(* An action is lost. *)
LEMMA ActionIsLostSafe ==
    ASSUME IInv, NEW c \in Chains, ActionIsLost(c)
    PROVE  IInv'
<1> USE DEF ActionIsLost, Scheduled, Ends, Goes, idle
<1>0. \A d \in Chains :
        /\ chains'[d].step = IF d = c THEN "idle" ELSE chains[d].step
        /\ chains'[d].sub = IF d = c THEN NoSub ELSE chains[d].sub
  BY DEF IInv, TypeOK, JobTypeOK
<1>1. TypeOK'
  <2>1. UNCHANGED <<stripe, checkouts, due, fetched, rows, lastRow, trials, plans, removedBy,
                    related, cleanups>>
    OBVIOUS
  <2>2. BillTypeOK' /\ PlanTypeOK'
    BY <2>1, TypesKept DEF IInv, TypeOK
  <2>3. JobTypeOK'
    <3>1. chains' \in [Chains -> [step : ChainSteps, sub : Subs \cup {NoSub}]]
      BY DEF IInv, TypeOK, JobTypeOK, ChainSteps
    <3> QED BY <3>1 DEF IInv, TypeOK, JobTypeOK
  <2>4. RestTypeOK'
    BY BoundsAssumption DEF IInv, TypeOK, RestTypeOK
  <2> QED BY <2>1, <2>2, <2>3, <2>4 DEF TypeOK
<1>2. BillInv' /\ PlanInv'
  <2>1. UNCHANGED <<stripe, checkouts, due, fetched, rows, user, plans, job>>
    OBVIOUS
  <2> QED BY <2>1, BillKept, PlanKept DEF IInv
<1>3. ChainInv'
  BY <1>0 DEF IInv, TypeOK, RestTypeOK, ChainInv, Driven, Asked, OneChain, NamedBegun, Drives,
              Begun, Ended
<1>4. ArchivesAreOwned'
  BY DEF ArchivesAreOwned
<1> QED BY <1>1, <1>2, <1>3, <1>4 DEF IInv

(* A batch finds no work. *)
LEMMA BatchIsStaleSafe ==
    ASSUME IInv, NEW c \in Chains, BatchIsStale(c)
    PROVE  IInv'
<1> USE DEF BatchIsStale, Scheduled, Ends, Goes, idle
<1>0. \A d \in Chains :
        /\ chains'[d].step = IF d = c THEN "idle" ELSE chains[d].step
        /\ chains'[d].sub = IF d = c THEN NoSub ELSE chains[d].sub
  BY DEF IInv, TypeOK, JobTypeOK
<1>1. TypeOK'
  <2>1. UNCHANGED <<stripe, checkouts, due, fetched, rows, lastRow, trials, plans, removedBy,
                    related, cleanups, user, export, requests, lost, events, faults>>
    OBVIOUS
  <2>2. BillTypeOK' /\ PlanTypeOK' /\ RestTypeOK'
    BY <2>1, TypesKept DEF IInv, TypeOK
  <2>3. JobTypeOK'
    <3>1. chains' \in [Chains -> [step : ChainSteps, sub : Subs \cup {NoSub}]]
      BY DEF IInv, TypeOK, JobTypeOK, ChainSteps
    <3> QED BY <3>1 DEF IInv, TypeOK, JobTypeOK
  <2> QED BY <2>1, <2>2, <2>3 DEF TypeOK
<1>2. BillInv' /\ PlanInv' /\ ArchivesAreOwned'
  <2>1. UNCHANGED <<stripe, checkouts, due, fetched, rows, user, plans, job, export, lost>>
    OBVIOUS
  <2> QED BY <2>1, BillKept, PlanKept, ExportKept DEF IInv
<1>3. ChainInv'
  BY <1>0 DEF IInv, TypeOK, RestTypeOK, ChainInv, Driven, Asked, OneChain, NamedBegun, Drives,
              Begun, Ended
<1> QED BY <1>1, <1>2, <1>3 DEF IInv

(* A chain reads the job. *)
LEMMA resumeAccountDeletionSafe ==
    ASSUME IInv, NEW c \in Chains, resumeAccountDeletion(c)
    PROVE  IInv'
<1> USE DEF resumeAccountDeletion, Scheduled, Ends, Goes, idle
<1>0. \A d \in Chains :
        /\ chains'[d].step = IF d = c THEN (IF job = NoJob THEN "idle"
                                   ELSE IF job.phase # "cancelStripe" THEN "batch"
                                   ELSE IF job.sub # NoSub /\ job.required THEN "cancelling"
                                   ELSE "completing") ELSE chains[d].step
        /\ chains'[d].sub = IF d = c /\ job = NoJob THEN NoSub
                            ELSE IF d = c /\ job.phase = "cancelStripe" /\ job.sub # NoSub
                                    /\ job.required
                                 THEN job.sub ELSE chains[d].sub
  BY DEF IInv, TypeOK, JobTypeOK
<1>1. TypeOK'
  <2>1. UNCHANGED <<stripe, checkouts, due, fetched, rows, lastRow, trials, plans, removedBy,
                    related, cleanups, user, export, requests, lost, events, faults>>
    OBVIOUS
  <2>2. BillTypeOK' /\ PlanTypeOK' /\ RestTypeOK'
    BY <2>1, TypesKept DEF IInv, TypeOK
  <2>3. JobTypeOK'
    <3>1. chains' \in [Chains -> [step : ChainSteps, sub : Subs \cup {NoSub}]]
      BY DEF IInv, TypeOK, JobTypeOK, ChainSteps
    <3> QED BY <3>1 DEF IInv, TypeOK, JobTypeOK
  <2> QED BY <2>1, <2>2, <2>3 DEF TypeOK
<1>2. BillInv' /\ PlanInv' /\ ArchivesAreOwned'
  <2>1. UNCHANGED <<stripe, checkouts, due, fetched, rows, user, plans, job, export, lost>>
    OBVIOUS
  <2> QED BY <2>1, BillKept, PlanKept, ExportKept DEF IInv
<1>3. ChainInv'
  BY <1>0 DEF IInv, TypeOK, RestTypeOK, ChainInv, Driven, Asked, OneChain, NamedBegun, Drives,
              Begun, Ended
<1> QED BY <1>1, <1>2, <1>3 DEF IInv

(* Stripe is told to cancel. *)
LEMMA CancelAtStripeSafe ==
    ASSUME IInv, NEW c \in Chains, CancelAtStripe(c)
    PROVE  IInv'
<1> USE DEF CancelAtStripe, Scheduled, Ends, Goes, idle
<1>00. /\ chains[c].sub \in Subs
       /\ \A q \in Subs : /\ stripe'[q].priced = stripe[q].priced
                          /\ stripe'[q].status = IF q = chains[c].sub /\ Running(q) THEN "canceled"
                                                 ELSE stripe[q].status
       /\ due' \subseteq due \cup {q \in Subs : Running(q)}
  BY DEF Running, IInv, TypeOK, BillTypeOK, JobTypeOK, ChainInv, NamedBegun
<1>0. \A d \in Chains :
        /\ chains'[d].step = IF d = c THEN "completing" ELSE chains[d].step
        /\ chains'[d].sub = chains[d].sub
  BY DEF IInv, TypeOK, JobTypeOK
<1>1. TypeOK'
  <2>1. UNCHANGED <<plans, removedBy, related, cleanups, user, export, requests, lost, events,
                    faults>>
    OBVIOUS
  <2>2. PlanTypeOK' /\ RestTypeOK'
    BY <2>1, TypesKept DEF IInv, TypeOK
  <2>3. BillTypeOK'
    <3>1. UNCHANGED <<checkouts, fetched, rows, lastRow, trials>>
      OBVIOUS
    <3>2. /\ stripe' \in [Subs -> [status : {"none", "active", "canceled"}, priced : BOOLEAN]]
          /\ due' \subseteq Subs
      BY <1>00 DEF IInv, TypeOK, BillTypeOK
    <3> QED BY <3>1, <3>2 DEF IInv, TypeOK, BillTypeOK
  <2>4. JobTypeOK'
    <3>1. chains' \in [Chains -> [step : ChainSteps, sub : Subs \cup {NoSub}]]
      BY DEF IInv, TypeOK, JobTypeOK, ChainSteps
    <3> QED BY <3>1 DEF IInv, TypeOK, JobTypeOK
  <2> QED BY <2>1, <2>2, <2>3, <2>4 DEF TypeOK
<1>2. PlanInv' /\ ArchivesAreOwned'
  <2>1. UNCHANGED <<user, rows, plans, job, export, lost>>
    OBVIOUS
  <2> QED BY <2>1, PlanKept, ExportKept DEF IInv
<1>3. BillInv'
  <2>1. /\ \A q \in Subs : Begun(q)' <=> Begun(q)
        /\ \A q \in Subs : Ended(q) => Ended(q)'
    BY <1>00 DEF Begun, Ended, Running
  <2>2. \A q \in Subs : Running(q) => Begun(q)
    BY DEF Begun, Running
  <2>3. UNCHANGED <<checkouts, fetched, rows>>
    OBVIOUS
  <2> QED BY <1>00, <2>1, <2>2, <2>3 DEF IInv, TypeOK, BillTypeOK, BillInv, Begun, Ended, Running
<1>4. ChainInv'
  <2>1. /\ \A q \in Subs : stripe[q].status # "none" <=> stripe'[q].status # "none"
        /\ \A q \in Subs : Ended(q) => stripe'[q].status = "canceled" \/ ~stripe'[q].priced
        /\ stripe[chains[c].sub].status = "active" => stripe'[chains[c].sub].status = "canceled"
    BY <1>00 DEF Ended, Running
  <2>2. UNCHANGED <<job, requests, lost>> /\ events <= events'
    BY DEF IInv, TypeOK, RestTypeOK
  <2>3. job # NoJob /\ job.sub # NoSub => job.sub \in Subs
    BY DEF IInv, TypeOK, JobTypeOK
  <2>4. Driven'
    BY <1>0, <2>2 DEF IInv, ChainInv, Driven, Drives
  <2>5. Asked'
    BY <1>0, <2>2 DEF IInv, ChainInv, Asked
  <2>6. NamedBegun'
    BY <1>0, <2>1, <2>2, <2>3 DEF IInv, ChainInv, NamedBegun, Begun, Ended
  <2>7. OneChain'
    <3> SUFFICES ASSUME requests <= 1
                 PROVE  OneChain'
      BY <2>2 DEF OneChain
    <3>1. \A d \in Chains : d # c => chains[d].step = "idle"
      BY DEF IInv, ChainInv, OneChain
    <3>2. job # NoJob => chains[c].sub = job.sub
      BY DEF IInv, ChainInv, OneChain
    <3>3. stripe[chains[c].sub].status \in {"none", "active", "canceled"}
      BY <1>00 DEF IInv, TypeOK, BillTypeOK
    <3>4. job # NoJob /\ job.sub # NoSub => stripe'[job.sub].status = "canceled"
      BY <1>00, <2>1, <3>2, <3>3 DEF IInv, ChainInv, NamedBegun, Begun
    <3> QED BY <1>0, <2>2, <3>1, <3>4 DEF OneChain, Ended
  <2> QED BY <2>4, <2>5, <2>6, <2>7 DEF ChainInv
<1> QED BY <1>1, <1>2, <1>3, <1>4 DEF IInv

(* The user asks for the deletion. *)
LEMMA startAccountDeletionSafe ==
    ASSUME IInv, startAccountDeletion
    PROVE  IInv'
<1> USE DEF startAccountDeletion, Scheduled, Ends, Goes, idle, SignedIn
<1>000. PICK c \in Chains : chains[c].step = "idle"
                          /\ chains' = [chains EXCEPT ![c] = [step |-> "scheduled", sub |-> NoSub]]
  <2>1. \E c \in Chains : chains[c] = idle /\ Scheduled(c)
    OBVIOUS
  <2>2. PICK c \in Chains : chains[c] = idle /\ Scheduled(c)
    BY <2>1
  <2>3. chains[c].step = "idle"
    BY <2>2
  <2>4. chains' = [chains EXCEPT ![c] = [step |-> "scheduled", sub |-> NoSub]]
    BY <2>2
  <2> QED BY <2>3, <2>4
<1>00. \/ job' = job /\ job # NoJob
       \/ /\ job = NoJob /\ job' \in Jobs
          /\ job'.phase = "cancelStripe" /\ job'.plan = NoPlan
          /\ job'.sub # NoSub => Begun(job'.sub) /\ (~job'.required => Ended(job'.sub))
  <2> DEFINE target == IF rows = {} THEN NoTarget ELSE Target(First(rows))
  <2>1. rows # {} => First(rows) \in rows
    BY FirstOfOne DEF IInv
  <2>2. target \in Targets
    BY <2>1, TargetTypes
  <2>3. target.sub # NoSub => Begun(target.sub) /\ (~target.required => Ended(target.sub))
    BY <2>1, TargetTypes
  <2>4. job = NoJob => job' = JobAt("cancelStripe", target)
    OBVIOUS
  <2> HIDE DEF target
  <2>5. "cancelStripe" \in Phases
    BY PhaseOrder
  <2>6. JobAt("cancelStripe", target) \in Jobs
      /\ JobAt("cancelStripe", target).phase = "cancelStripe"
      /\ JobAt("cancelStripe", target).sub = target.sub
      /\ JobAt("cancelStripe", target).required = target.required
      /\ JobAt("cancelStripe", target).plan = NoPlan
    BY <2>2, <2>5, JobAtType
  <2>7. job # NoJob => job' = job
    OBVIOUS
  <2> QED BY <2>3, <2>4, <2>6, <2>7
<1>0. \A d \in Chains :
        /\ chains'[d].step = IF d = c THEN "scheduled" ELSE chains[d].step
        /\ chains'[d].sub = IF d = c THEN NoSub ELSE chains[d].sub
  BY <1>000 DEF IInv, TypeOK, JobTypeOK
<1>1. TypeOK'
  <2>1. UNCHANGED <<stripe, checkouts, due, fetched, rows, lastRow, trials, plans, removedBy,
                    related, cleanups>>
    OBVIOUS
  <2>2. BillTypeOK' /\ PlanTypeOK'
    BY <2>1, TypesKept DEF IInv, TypeOK
  <2>3. JobTypeOK'
    <3>1. job' = NoJob \/ job' \in Jobs
      BY <1>00 DEF IInv, TypeOK, JobTypeOK, Jobs
    <3>2. chains' \in [Chains -> [step : ChainSteps, sub : Subs \cup {NoSub}]]
      BY <1>000 DEF IInv, TypeOK, JobTypeOK, ChainSteps
    <3> QED BY <3>1, <3>2 DEF JobTypeOK, Jobs
  <2>4. RestTypeOK'
    BY BoundsAssumption DEF IInv, TypeOK, RestTypeOK, ChainInv, Asked
  <2> QED BY <2>1, <2>2, <2>3, <2>4 DEF TypeOK
<1>2. BillInv' /\ ArchivesAreOwned'
  <2>1. UNCHANGED <<stripe, checkouts, due, fetched, rows, export, lost>>
    OBVIOUS
  <2> QED BY <2>1, BillKept, ExportKept DEF IInv
<1>3. PlanInv'
  <2>1. user.exists /\ UNCHANGED <<user, rows, plans>>
    OBVIOUS
  <2>2. job'.phase \notin After("plans") \/ job' = job
    BY <1>00, PhaseOrder
  <2>3. job' # NoJob /\ job'.plan # NoPlan => job'.planPhase \in PlanTables
    BY <1>00 DEF IInv, PlanInv
  <2> QED BY <1>00, <2>1, <2>2, <2>3 DEF IInv, PlanInv, EndedMeansGone
<1>4. ChainInv'
  <2>1. UNCHANGED <<stripe, lost>> /\ requests' = requests + 1 /\ events' = events + 1
    OBVIOUS
  <2>2. requests \in Nat /\ events \in Nat
    BY DEF IInv, TypeOK, RestTypeOK
  <2>3. requests = 0 => \A d \in Chains : chains[d].step = "idle"
    BY DEF IInv, ChainInv, Asked
  <2>4. Driven' /\ Asked'
    BY <1>0, <1>000, <2>1, <2>2 DEF IInv, ChainInv, Driven, Asked, Drives
  <2>5. OneChain'
    BY <1>0, <1>000, <2>1, <2>2, <2>3 DEF OneChain
  <2>6. NamedBegun'
    BY <1>0, <1>00, <1>000, <2>1 DEF IInv, ChainInv, NamedBegun, Begun, Ended
  <2> QED BY <2>4, <2>5, <2>6 DEF ChainInv
<1> QED BY <1>1, <1>2, <1>3, <1>4 DEF IInv

(* A chain that has moved the job on, and reads it again, drives it. *)
LEMMA ChainGoesOn ==
    ASSUME IInv, NEW c \in Chains, chains[c].step # "idle", Scheduled(c),
           UNCHANGED <<stripe, requests, lost, events>>, job # NoJob, job' \in Jobs,
           job'.sub # NoSub => Begun(job'.sub) /\ (~job'.required => Ended(job'.sub))
    PROVE  JobTypeOK' /\ ChainInv'
<1>0. \A d \in Chains :
        /\ chains'[d].step = IF d = c THEN "scheduled" ELSE chains[d].step
        /\ chains'[d].sub = IF d = c THEN NoSub ELSE chains[d].sub
  BY DEF IInv, TypeOK, JobTypeOK, Scheduled
<1>1. JobTypeOK'
  <2>1. chains' \in [Chains -> [step : ChainSteps, sub : Subs \cup {NoSub}]]
    BY DEF IInv, TypeOK, JobTypeOK, ChainSteps, Scheduled
  <2> QED BY <2>1 DEF JobTypeOK, Jobs
<1>2. Driven' /\ Asked'
  BY <1>0 DEF IInv, ChainInv, Driven, Asked, Drives
<1>3. OneChain'
  BY <1>0 DEF IInv, ChainInv, OneChain
<1>4. NamedBegun'
  BY <1>0 DEF IInv, ChainInv, NamedBegun, Begun, Ended
<1> QED BY <1>1, <1>2, <1>3, <1>4 DEF ChainInv

(* A job sent to its next phase is a job that names nothing. *)
LEMMA NextPhaseType ==
    ASSUME IInv, job # NoJob, NextPhase,
           job.phase \in {"plans", "dataExports", "subscriptions", "authSessions"}
    PROVE  /\ job' \in Jobs /\ job'.plan = NoPlan /\ job'.sub = NoSub
           /\ job'.phase = nextAccountDeletionPhase(job.phase)
<1>1. nextAccountDeletionPhase(job.phase) \in Phases
  BY PhaseOrder
<1>2. NoTarget \in Targets /\ NoTarget.sub = NoSub
  BY TargetTypes
<1> QED BY <1>1, <1>2, JobAtType DEF NextPhase

(* A job sent back to the first phase names what the row names. *)
LEMMA FirstPhaseType ==
    ASSUME IInv, NEW rs \in SUBSET rows, rs # {}, job' = JobAt("cancelStripe", Target(First(rs)))
    PROVE  /\ job' \in Jobs /\ job'.plan = NoPlan /\ job'.phase = "cancelStripe"
           /\ job'.sub # NoSub => Begun(job'.sub) /\ (~job'.required => Ended(job'.sub))
<1>1. First(rs) \in rows
  BY FirstOfOne DEF IInv
<1> DEFINE target == Target(First(rs))
<1>2. target \in Targets
      /\ (target.sub # NoSub => Begun(target.sub) /\ (~target.required => Ended(target.sub)))
  BY <1>1, TargetTypes
<1> HIDE DEF target
<1>3. /\ JobAt("cancelStripe", target) \in Jobs
      /\ JobAt("cancelStripe", target).phase = "cancelStripe"
      /\ JobAt("cancelStripe", target).sub = target.sub
      /\ JobAt("cancelStripe", target).required = target.required
      /\ JobAt("cancelStripe", target).plan = NoPlan
  BY <1>2, PhaseOrder, JobAtType
<1>4. job' = JobAt("cancelStripe", target)
  BY DEF target
<1> QED BY <1>2, <1>3, <1>4

(* The job takes up the next plan. *)
LEMMA PickPlanSafe ==
    ASSUME IInv, NEW c \in Chains, PickPlan(c)
    PROVE  IInv'
<1> USE DEF PickPlan, BatchIn
<1>0. /\ chains[c].step # "idle" /\ job # NoJob /\ Scheduled(c)
      /\ job.phase = "plans" /\ job' \in Jobs
      /\ job'.sub # NoSub => Begun(job'.sub) /\ (~job'.required => Ended(job'.sub))
      /\ job'.plan # NoPlan => job'.planPhase \in PlanTables
      /\ job'.phase \in After("plans") => plans = {}
  <2>1. CASE plans = {} /\ NextPhase
    BY <2>1, NextPhaseType
  <2>2. CASE \E p \in plans :
               job' = [job EXCEPT !.plan = p, !.planPhase = PLAN_DELETION_PHASES[1]]
    <3>1. PICK p \in plans :
               job' = [job EXCEPT !.plan = p, !.planPhase = PLAN_DELETION_PHASES[1]]
      BY <2>2
    <3>2. job \in Jobs /\ p \in Plans /\ PLAN_DELETION_PHASES[1] \in PlanTables
      BY PlanPhaseOrder DEF IInv, TypeOK, JobTypeOK, PlanTypeOK, Jobs
    <3>3. /\ job' \in Jobs /\ job'.phase = job.phase /\ job'.sub = job.sub
          /\ job'.required = job.required /\ job'.planPhase \in PlanTables
      BY <3>1, <3>2 DEF Jobs
    <3>4. job.phase \notin After("plans")
      BY PhaseOrder
    <3> QED BY <3>3, <3>4 DEF IInv, ChainInv, NamedBegun
  <2> QED BY <2>1, <2>2
<1>1. TypeOK'
  <2>1. UNCHANGED <<stripe, checkouts, due, fetched, rows, lastRow, trials, plans, removedBy,
                    related, cleanups, user, export, requests, lost, events, faults>>
    OBVIOUS
  <2>2. BillTypeOK' /\ PlanTypeOK' /\ RestTypeOK'
    BY <2>1, TypesKept DEF IInv, TypeOK
  <2>3. JobTypeOK'
    BY <1>0, ChainGoesOn DEF IInv
  <2> QED BY <2>1, <2>2, <2>3 DEF TypeOK
<1>2. BillInv' /\ ArchivesAreOwned'
  <2>1. UNCHANGED <<stripe, checkouts, due, fetched, rows, export, lost>>
    OBVIOUS
  <2> QED BY <2>1, BillKept, ExportKept DEF IInv
<1>3. PlanInv'
  <2>1. UNCHANGED <<user, rows>> /\ plans' \subseteq plans
    BY <1>0 DEF IInv, TypeOK, RestTypeOK
  <2> QED BY <1>0, <2>1, PhaseOrder DEF IInv, PlanInv, EndedMeansGone
<1>4. ChainInv'
  BY <1>0, ChainGoesOn
<1> QED BY <1>1, <1>2, <1>3, <1>4 DEF IInv

(* Its plan is gone. *)
LEMMA PlanIsGoneSafe ==
    ASSUME IInv, NEW c \in Chains, PlanIsGone(c)
    PROVE  IInv'
<1> USE DEF PlanIsGone, BatchIn
<1>0. /\ chains[c].step # "idle" /\ job # NoJob /\ Scheduled(c)
      /\ job.phase = "plans" /\ job'.phase = "plans" /\ job' \in Jobs
      /\ job'.sub # NoSub => Begun(job'.sub) /\ (~job'.required => Ended(job'.sub))
      /\ job'.plan # NoPlan => job'.planPhase \in PlanTables
  <2>1. job \in Jobs
    BY DEF IInv, TypeOK, JobTypeOK, Jobs
  <2>2. /\ job' \in Jobs /\ job'.phase = job.phase /\ job'.sub = job.sub
        /\ job'.required = job.required /\ job'.plan = NoPlan
    BY <2>1 DEF Jobs
  <2> QED BY <2>2 DEF IInv, ChainInv, NamedBegun
<1>1. TypeOK'
  <2>1. UNCHANGED <<stripe, checkouts, due, fetched, rows, lastRow, trials, plans, removedBy,
                    related, cleanups, user, export, requests, lost, events, faults>>
    OBVIOUS
  <2>2. BillTypeOK' /\ PlanTypeOK' /\ RestTypeOK'
    BY <2>1, TypesKept DEF IInv, TypeOK
  <2>3. JobTypeOK'
    BY <1>0, ChainGoesOn DEF IInv
  <2> QED BY <2>1, <2>2, <2>3 DEF TypeOK
<1>2. BillInv' /\ ArchivesAreOwned'
  <2>1. UNCHANGED <<stripe, checkouts, due, fetched, rows, export, lost>>
    OBVIOUS
  <2> QED BY <2>1, BillKept, ExportKept DEF IInv
<1>3. PlanInv'
  <2>1. UNCHANGED <<user, rows>> /\ plans' \subseteq plans
    BY <1>0 DEF IInv, TypeOK, RestTypeOK
  <2> QED BY <1>0, <2>1, PhaseOrder DEF IInv, PlanInv, EndedMeansGone
<1>4. ChainInv'
  BY <1>0, ChainGoesOn
<1> QED BY <1>1, <1>2, <1>3, <1>4 DEF IInv

(* A batch of a plan's rows is removed, or the plan. *)
LEMMA PlanBatchSafe ==
    ASSUME IInv, NEW c \in Chains, PlanBatch(c)
    PROVE  IInv'
<1> USE DEF PlanBatch, BatchIn
<1> DEFINE next == planDeletionPhaseAfterBatch(job.planPhase,
                                                Removed(job.plan, job.planPhase, AccountBatch))
<1>00. /\ PlanTypeOK /\ job.plan \in Plans /\ job.planPhase \in PlanTables
       /\ AccountBatch \in Nat /\ job \in Jobs
  BY NamesAssumption, BatchAssumption
     DEF IInv, TypeOK, PlanTypeOK, JobTypeOK, Jobs, PlanInv
<1>000. next \in PlanTables \cup {"none"}
        /\ Batched(job.plan, job.planPhase, AccountBatch)
              \in [Plans -> [PlanTables -> 0 .. MaxRelated]]
  BY <1>00, BatchShrinks, PlanPhaseOrder
<1>0. /\ chains[c].step # "idle" /\ job # NoJob /\ Scheduled(c)
      /\ job.phase = "plans" /\ job'.phase = "plans" /\ job' \in Jobs
      /\ job'.sub # NoSub => Begun(job'.sub) /\ (~job'.required => Ended(job'.sub))
      /\ job'.plan # NoPlan => job'.planPhase \in PlanTables
  <2>1. \/ next # "none" /\ job' = [job EXCEPT !.planPhase = next]
        \/ job' = [job EXCEPT !.plan = NoPlan, !.planPhase = "none"]
    OBVIOUS
  <2> HIDE DEF next
  <2>2. /\ job' \in Jobs /\ job'.phase = job.phase /\ job'.sub = job.sub
        /\ job'.required = job.required
        /\ job'.plan = NoPlan \/ job'.planPhase \in PlanTables
    BY <1>00, <1>000, <2>1 DEF Jobs
  <2> QED BY <2>2 DEF IInv, ChainInv, NamedBegun
<1>1. TypeOK'
  <2>1. UNCHANGED <<stripe, checkouts, due, fetched, rows, lastRow, trials, user, export, requests,
                    lost, events, faults>>
    OBVIOUS
  <2>2. BillTypeOK' /\ RestTypeOK'
    BY <2>1, TypesKept DEF IInv, TypeOK
  <2>3. PlanTypeOK'
    <3>1. /\ related' = Batched(job.plan, job.planPhase, AccountBatch) /\ cleanups' = cleanups
          /\ plans' \subseteq plans
          /\ removedBy' \in {removedBy, [removedBy EXCEPT ![job.plan] = "account"]}
      OBVIOUS
    <3> QED BY <1>00, <1>000, <3>1 DEF PlanTypeOK
  <2>4. JobTypeOK'
    BY <1>0, ChainGoesOn DEF IInv
  <2> QED BY <2>1, <2>2, <2>3, <2>4 DEF TypeOK
<1>2. BillInv' /\ ArchivesAreOwned'
  <2>1. UNCHANGED <<stripe, checkouts, due, fetched, rows, export, lost>>
    OBVIOUS
  <2> QED BY <2>1, BillKept, ExportKept DEF IInv
<1>3. PlanInv'
  <2>1. UNCHANGED <<user, rows>> /\ plans' \subseteq plans
    BY <1>0 DEF IInv, TypeOK, RestTypeOK
  <2> QED BY <1>0, <2>1, PhaseOrder DEF IInv, PlanInv, EndedMeansGone
<1>4. ChainInv'
  BY <1>0, ChainGoesOn
<1> QED BY <1>1, <1>2, <1>3, <1>4 DEF IInv

(* The exports are removed. *)
LEMMA DataExportsBatchSafe ==
    ASSUME IInv, NEW c \in Chains, DataExportsBatch(c)
    PROVE  IInv'
<1> USE DEF DataExportsBatch, BatchIn, ExportRowRemoved
<1>0. /\ chains[c].step # "idle" /\ job # NoJob /\ Scheduled(c)
      /\ job' \in Jobs
      /\ job'.sub # NoSub => Begun(job'.sub) /\ (~job'.required => Ended(job'.sub))
      /\ job'.plan # NoPlan => job'.planPhase \in PlanTables
      /\ job.phase = "dataExports" /\ job'.phase \in {"dataExports", "subscriptions"}
  <2>1. CASE NextPhase
    BY <2>1, NextPhaseType, PhaseOrder
  <2>2. CASE job' = job
    BY <2>2 DEF IInv, TypeOK, JobTypeOK, Jobs, ChainInv, NamedBegun, PlanInv
  <2> QED BY <2>1, <2>2
<1>1. TypeOK'
  <2>1. UNCHANGED <<stripe, checkouts, due, fetched, rows, lastRow, trials, plans, removedBy,
                    related, cleanups>>
    OBVIOUS
  <2>2. BillTypeOK' /\ PlanTypeOK'
    BY <2>1, TypesKept DEF IInv, TypeOK
  <2>3. JobTypeOK'
    BY <1>0, ChainGoesOn DEF IInv
  <2>4. RestTypeOK'
    <3>1. export' \in [row : {"none", "pending", "building", "ready", "failed"},
                       builder : {"none", "scheduled", "building", "stored"}, blob : BOOLEAN]
      BY DEF IInv, TypeOK, RestTypeOK
    <3>2. UNCHANGED <<user, requests>> /\ lost' \in BOOLEAN
          /\ events' \in 0 .. MaxEvents /\ faults' \in 0 .. MaxFaults
      BY BoundsAssumption DEF IInv, TypeOK, RestTypeOK
    <3> QED BY <3>1, <3>2 DEF IInv, TypeOK, RestTypeOK
  <2> QED BY <2>1, <2>2, <2>3, <2>4 DEF TypeOK
<1>2. BillInv'
  <2>1. UNCHANGED <<stripe, checkouts, due, fetched, rows>>
    OBVIOUS
  <2> QED BY <2>1, BillKept DEF IInv
<1>3. PlanInv'
  <2>1. UNCHANGED <<user, rows>> /\ plans' \subseteq plans
    BY <1>0 DEF IInv, TypeOK, RestTypeOK
  <2> QED BY <1>0, <2>1, PhaseOrder DEF IInv, PlanInv, EndedMeansGone
<1>4. ChainInv'
  BY <1>0, ChainGoesOn
<1>5. ArchivesAreOwned'
  BY DEF IInv, TypeOK, RestTypeOK, ArchivesAreOwned
<1> QED BY <1>1, <1>2, <1>3, <1>4, <1>5 DEF IInv

(* The job looks at the subscriptions again. *)
LEMMA SubscriptionsBatchSafe ==
    ASSUME IInv, NEW c \in Chains, SubscriptionsBatch(c)
    PROVE  IInv'
<1> USE DEF SubscriptionsBatch, BatchIn
<1>0. /\ chains[c].step # "idle" /\ job # NoJob /\ Scheduled(c)
      /\ job' \in Jobs
      /\ job'.sub # NoSub => Begun(job'.sub) /\ (~job'.required => Ended(job'.sub))
      /\ job'.plan # NoPlan => job'.planPhase \in PlanTables
      /\ job.phase = "subscriptions"
      /\ job'.phase = IF rows = {} THEN "authSessions" ELSE "cancelStripe"
  <2>1. CASE rows = {}
    BY <2>1, NextPhaseType, PhaseOrder
  <2>2. CASE rows # {}
    BY <2>2, FirstPhaseType
  <2> QED BY <2>1, <2>2
<1>1. TypeOK'
  <2>1. UNCHANGED <<stripe, checkouts, due, fetched, rows, lastRow, trials, plans, removedBy,
                    related, cleanups, user, export, requests, lost, events, faults>>
    OBVIOUS
  <2>2. BillTypeOK' /\ PlanTypeOK' /\ RestTypeOK'
    BY <2>1, TypesKept DEF IInv, TypeOK
  <2>3. JobTypeOK'
    BY <1>0, ChainGoesOn DEF IInv
  <2> QED BY <2>1, <2>2, <2>3 DEF TypeOK
<1>2. BillInv' /\ ArchivesAreOwned'
  <2>1. UNCHANGED <<stripe, checkouts, due, fetched, rows, export, lost>>
    OBVIOUS
  <2> QED BY <2>1, BillKept, ExportKept DEF IInv
<1>3. PlanInv'
  <2>1. UNCHANGED <<user, rows>> /\ plans' \subseteq plans
    BY <1>0 DEF IInv, TypeOK, RestTypeOK
  <2> QED BY <1>0, <2>1, PhaseOrder DEF IInv, PlanInv, EndedMeansGone
<1>4. ChainInv'
  BY <1>0, ChainGoesOn
<1> QED BY <1>1, <1>2, <1>3, <1>4 DEF IInv

(* The sessions end. *)
LEMMA AuthSessionsBatchSafe ==
    ASSUME IInv, NEW c \in Chains, AuthSessionsBatch(c)
    PROVE  IInv'
<1> USE DEF AuthSessionsBatch, BatchIn
<1>0. /\ chains[c].step # "idle" /\ job # NoJob /\ Scheduled(c)
      /\ job' \in Jobs
      /\ job'.sub # NoSub => Begun(job'.sub) /\ (~job'.required => Ended(job'.sub))
      /\ job'.plan # NoPlan => job'.planPhase \in PlanTables
      /\ job.phase = "authSessions" /\ job'.phase \in {"authSessions", "authUser"}
      /\ user'.exists = user.exists
  <2>1. CASE NextPhase
    BY <2>1, NextPhaseType, PhaseOrder DEF IInv, TypeOK, RestTypeOK
  <2>2. CASE job' = job
    BY <2>2 DEF IInv, TypeOK, JobTypeOK, Jobs, RestTypeOK, ChainInv, NamedBegun, PlanInv
  <2> QED BY <2>1, <2>2
<1>1. TypeOK'
  <2>1. UNCHANGED <<stripe, checkouts, due, fetched, rows, lastRow, trials, plans, removedBy,
                    related, cleanups>>
    OBVIOUS
  <2>2. BillTypeOK' /\ PlanTypeOK'
    BY <2>1, TypesKept DEF IInv, TypeOK
  <2>3. JobTypeOK'
    BY <1>0, ChainGoesOn DEF IInv
  <2>4. RestTypeOK'
    <3>1. user' \in [exists : BOOLEAN, session : BOOLEAN]
      BY DEF IInv, TypeOK, RestTypeOK
    <3> QED BY <3>1 DEF IInv, TypeOK, RestTypeOK
  <2> QED BY <2>1, <2>2, <2>3, <2>4 DEF TypeOK
<1>2. BillInv' /\ ArchivesAreOwned'
  <2>1. UNCHANGED <<stripe, checkouts, due, fetched, rows, export, lost>>
    OBVIOUS
  <2> QED BY <2>1, BillKept, ExportKept DEF IInv
<1>3. PlanInv'
  <2>1. UNCHANGED <<rows, plans>>
    OBVIOUS
  <2> QED BY <1>0, <2>1, PhaseOrder DEF IInv, PlanInv, EndedMeansGone
<1>4. ChainInv'
  BY <1>0, ChainGoesOn
<1> QED BY <1>1, <1>2, <1>3, <1>4 DEF IInv

(* The user goes, and the job with them. *)
LEMMA AuthUserBatchSafe ==
    ASSUME IInv, NEW c \in Chains, AuthUserBatch(c)
    PROVE  IInv'
<1> USE DEF AuthUserBatch, Scheduled, Ends, Goes, idle, BatchIn
<1>0. \A d \in Chains :
        /\ chains'[d].step = IF d = c THEN "idle" ELSE chains[d].step
        /\ chains'[d].sub = IF d = c THEN NoSub ELSE chains[d].sub
  BY DEF IInv, TypeOK, JobTypeOK
<1>1. TypeOK'
  <2>1. UNCHANGED <<stripe, checkouts, due, fetched, rows, lastRow, trials, plans, removedBy,
                    related, cleanups>>
    OBVIOUS
  <2>2. BillTypeOK' /\ PlanTypeOK'
    BY <2>1, TypesKept DEF IInv, TypeOK
  <2>3. JobTypeOK'
    <3>1. chains' \in [Chains -> [step : ChainSteps, sub : Subs \cup {NoSub}]]
      BY DEF IInv, TypeOK, JobTypeOK, ChainSteps
    <3> QED BY <3>1 DEF IInv, TypeOK, JobTypeOK
  <2>4. RestTypeOK'
    <3>1. user' \in [exists : BOOLEAN, session : BOOLEAN]
      BY DEF IInv, TypeOK, RestTypeOK
    <3> QED BY <3>1 DEF IInv, TypeOK, RestTypeOK
  <2> QED BY <2>1, <2>2, <2>3, <2>4 DEF TypeOK
<1>2. BillInv' /\ ArchivesAreOwned'
  <2>1. UNCHANGED <<stripe, checkouts, due, fetched, rows, export, lost>>
    OBVIOUS
  <2> QED BY <2>1, BillKept, ExportKept DEF IInv
<1>3. PlanInv'
  <2>1. user'.exists = FALSE /\ UNCHANGED <<rows, plans>> /\ job' = NoJob
    BY DEF IInv, TypeOK, RestTypeOK
  <2>2. job # NoJob /\ job.phase \in After("plans")
    BY PhaseOrder
  <2> QED BY <2>1, <2>2 DEF IInv, PlanInv, EndedMeansGone
<1>4. ChainInv'
  BY <1>0 DEF IInv, TypeOK, RestTypeOK, ChainInv, Driven, Asked, OneChain, NamedBegun, Drives,
              Begun, Ended
<1> QED BY <1>1, <1>2, <1>3, <1>4 DEF IInv

(* Stripe has cancelled: the row goes, and the job moves on. *)
LEMMA completeStripeCancellationSafe ==
    ASSUME IInv, NEW c \in Chains, completeStripeCancellation(c)
    PROVE  IInv'
<1> USE DEF completeStripeCancellation, Scheduled, Ends, idle
<1>00. \/ /\ UNCHANGED <<rows, job>>
          /\ chains' = [chains EXCEPT ![c] = idle]
          /\ job = NoJob \/ job.phase # "cancelStripe"
       \/ /\ rows' \subseteq rows
          /\ chains[c].step # "idle" /\ job # NoJob /\ Scheduled(c)
          /\ job.phase = "cancelStripe"
          /\ job' \in Jobs /\ job'.phase \notin After("plans") /\ job'.plan = NoPlan
          /\ job'.sub # NoSub => Begun(job'.sub) /\ (~job'.required => Ended(job'.sub))
  <2>1. CASE job = NoJob \/ (job # NoJob /\ job.phase # "cancelStripe")
    BY <2>1
  <2>2. CASE ~(job = NoJob \/ (job # NoJob /\ job.phase # "cancelStripe"))
    <3>1. /\ rows' = rows \ CanceledRows /\ job # NoJob /\ job.phase = "cancelStripe"
          /\ job' = IF rows' # {} THEN JobAt("cancelStripe", Target(First(rows')))
                    ELSE JobAt(nextAccountDeletionPhase("cancelStripe"), NoTarget)
      BY <2>2
    <3>2. /\ job' \in Jobs /\ job'.phase \in {"cancelStripe", "plans"} /\ job'.plan = NoPlan
          /\ job'.sub # NoSub => Begun(job'.sub) /\ (~job'.required => Ended(job'.sub))
      <4>1. CASE rows' = {}
        <5>1. job' = JobAt("plans", NoTarget)
          BY <3>1, <4>1, PhaseOrder
        <5>2. NoTarget \in Targets /\ NoTarget.sub = NoSub /\ "plans" \in Phases
          BY TargetTypes, PhaseOrder
        <5> QED BY <5>1, <5>2, JobAtType
      <4>2. CASE rows' # {}
        <5> DEFINE rs == rows \ CanceledRows
        <5>1. job' = JobAt("cancelStripe", Target(First(rs))) /\ rs # {}
          BY <3>1, <4>2
        <5>2. rs \in SUBSET rows
          OBVIOUS
        <5> HIDE DEF rs
        <5> QED BY <5>1, <5>2, FirstPhaseType
      <4> QED BY <4>1, <4>2
    <3> QED BY <3>1, <3>2, PhaseOrder
  <2> QED BY <2>1, <2>2
<1>0. chains[c].step = "completing" /\ rows' \subseteq rows
  BY <1>00
<1>1. TypeOK'
  <2>1. UNCHANGED <<plans, removedBy, related, cleanups, user, export, requests, lost, events,
                    faults>>
    OBVIOUS
  <2>2. PlanTypeOK' /\ RestTypeOK'
    BY <2>1, TypesKept DEF IInv, TypeOK
  <2>3. BillTypeOK'
    BY <1>0 DEF IInv, TypeOK, BillTypeOK
  <2>4. JobTypeOK'
    <3>1. CASE UNCHANGED <<rows, job>> /\ chains' = [chains EXCEPT ![c] = idle]
      <4>1. chains' \in [Chains -> [step : ChainSteps, sub : Subs \cup {NoSub}]]
        BY <3>1 DEF IInv, TypeOK, JobTypeOK, ChainSteps
      <4> QED BY <3>1, <4>1 DEF IInv, TypeOK, JobTypeOK
    <3>2. CASE ~(UNCHANGED <<rows, job>> /\ chains' = [chains EXCEPT ![c] = idle])
      BY <1>00, <3>2, ChainGoesOn
    <3> QED BY <3>1, <3>2
  <2> QED BY <2>1, <2>2, <2>3, <2>4 DEF TypeOK
<1>2. ArchivesAreOwned'
  <2>1. UNCHANGED <<export, lost>>
    OBVIOUS
  <2> QED BY <2>1, ExportKept DEF IInv
<1>3. BillInv'
  BY <1>0 DEF IInv, BillInv, Begun, Ended
<1>4. PlanInv'
  <2>1. UNCHANGED <<user, plans>> /\ ((job' = job /\ rows' = rows) \/ job # NoJob)
    BY <1>00
  <2>2. CASE job' = job /\ rows' = rows
    BY <2>1, <2>2 DEF IInv, PlanInv, EndedMeansGone
  <2>3. CASE ~(job' = job /\ rows' = rows)
    BY <1>00, <2>1, <2>3 DEF IInv, PlanInv, EndedMeansGone
  <2> QED BY <2>2, <2>3
<1>5. ChainInv'
  <2>1. CASE /\ UNCHANGED <<rows, job>> /\ chains' = [chains EXCEPT ![c] = idle]
             /\ job = NoJob \/ job.phase # "cancelStripe"
    <3>1. \A d \in Chains :
             /\ chains'[d].step = IF d = c THEN "idle" ELSE chains[d].step
             /\ chains'[d].sub = IF d = c THEN NoSub ELSE chains[d].sub
      BY <2>1 DEF IInv, TypeOK, JobTypeOK
    <3> QED BY <1>0, <2>1, <3>1
            DEF IInv, TypeOK, RestTypeOK, ChainInv, Driven, Asked, OneChain, NamedBegun, Drives,
                Begun, Ended
  <2>2. CASE ~(/\ UNCHANGED <<rows, job>> /\ chains' = [chains EXCEPT ![c] = idle]
               /\ job = NoJob \/ job.phase # "cancelStripe")
    BY <1>00, <2>2, ChainGoesOn
  <2> QED BY <2>1, <2>2
<1> QED BY <1>1, <1>2, <1>3, <1>4, <1>5 DEF IInv

-----------------------------------------------------------------------------
(* The invariant *)

(* A user as the service may find them satisfies the invariant. *)
LEMMA InitInv ==
    ASSUME Init
    PROVE  IInv
<1> USE DEF Init
<1>1. \A r, q \in rows : r = q
  OBVIOUS
<1>2. rows \subseteq [id : 1..MaxRows, sub : Subs \cup {NoSub},
                      status : {"active", "trialing", "canceled"}]
  BY BoundsAssumption, NamesAssumption
<1>3. lastRow \in 0..MaxRows
  <2>1. rows = {} \/ \E r : rows = {r}
    OBVIOUS
  <2>2. Cardinality(rows) \in {0, 1}
    BY <2>1, FS_EmptySet, FS_Singleton
  <2> QED BY <2>2, BoundsAssumption
<1>4. BillTypeOK
  <2>1. trials \subseteq 1..MaxRows
    BY <1>2
  <2>2. stripe \in [Subs -> [status : {"none", "active", "canceled"}, priced : BOOLEAN]]
    OBVIOUS
  <2> QED BY <1>2, <1>3, <2>1, <2>2 DEF BillTypeOK
<1>5. PlanTypeOK
  <2>1. plans \subseteq Plans
    OBVIOUS
  <2>2. related \in [Plans -> [PlanTables -> 0..MaxRelated]]
    BY BoundsAssumption DEF InitialRelated
  <2> QED BY <2>1, <2>2 DEF PlanTypeOK
<1>6. JobTypeOK /\ RestTypeOK
  <2>1. idle \in [step : ChainSteps, sub : Subs \cup {NoSub}]
    BY DEF idle, ChainSteps
  <2>2. JobTypeOK
    BY <2>1 DEF JobTypeOK
  <2>3. 0 \in 0..MaxEvents /\ 0 \in 0..MaxFaults
    BY BoundsAssumption
  <2>4. /\ user \in [exists : BOOLEAN, session : BOOLEAN]
        /\ export \in [row : {"none", "pending", "building", "ready", "failed"},
                       builder : {"none", "scheduled", "building", "stored"}, blob : BOOLEAN]
    OBVIOUS
  <2>5. requests = 0 /\ events = 0 /\ faults = 0 /\ lost \in BOOLEAN
    OBVIOUS
  <2>6. RestTypeOK
    BY <2>3, <2>4, <2>5 DEF RestTypeOK
  <2> QED BY <2>2, <2>6
<1>7. BillInv
  <2>1. ASSUME NEW r \in rows, r.sub # NoSub
        PROVE  Begun(r.sub) /\ r.status = "active"
    <3>1. r.status = "active" /\ r.sub \in Subs
      BY <1>2, <2>1
    <3>2. stripe[r.sub].status = "active"
      BY <3>1
    <3> QED BY <3>1, <3>2 DEF Begun
  <2> QED BY <1>1, <2>1 DEF BillInv
<1>8. PlanInv /\ ChainInv /\ ArchivesAreOwned
  BY DEF PlanInv, EndedMeansGone, ChainInv, Driven, Asked, OneChain, NamedBegun,
         ArchivesAreOwned, idle
<1> QED BY <1>1, <1>4, <1>5, <1>6, <1>7, <1>8 DEF IInv, TypeOK

(* A stuttering step changes nothing the invariant speaks of. *)
LEMMA StutterInv ==
    ASSUME IInv, UNCHANGED vars
    PROVE  IInv'
<1>1. UNCHANGED <<user, stripe, checkouts, due, fetched, rows, lastRow, trials, plans, removedBy,
                  related, cleanups, export, job, chains, requests, lost, events, faults>>
  BY DEF vars
<1>2. TypeOK'
  BY <1>1, TypesKept DEF IInv, TypeOK
<1>3. events <= events'
  BY <1>1 DEF IInv, TypeOK, RestTypeOK
<1> QED BY <1>1, <1>2, <1>3, BillKept, PlanKept, ChainKept, ExportKept DEF IInv

(* Every step preserves the invariant. *)
LEMMA NextInv ==
    ASSUME IInv, [Next]_vars
    PROVE  IInv'
<1>1. CASE UNCHANGED vars
  BY <1>1, StutterInv
<1>2. CASE Users
  BY <1>2, CreateCheckoutSessionSafe, PaySafe, StripeEndsSafe, PriceChangesSafe, SignInSafe,
     startTrialSafe, skipTrialSafe, reactivateSubscriptionSafe, upsertPlanSafe, deletePlanSafe,
     AddRelatedSafe, requestDataExportSafe, startAccountDeletionSafe
     DEF Users
<1>3. CASE Billing
  BY <1>3, WebhookRetrievesSafe, syncCanonicalSubscriptionSafe, WebhookFailsSafe,
     expireInternalTrialSafe, expireOverdueInternalTrialsSafe
     DEF Billing
<1>4. CASE Background
  BY <1>4, continuePlanRelatedDataCleanupSafe, claimExportBuildSafe, StoreArchiveSafe,
     markExportReadySafe, markExportFailedSafe, BuilderIsLostSafe, deleteExpiredDataExportsSafe
     DEF Background
<1>5. ASSUME NEW c \in Chains, Chain(c) \/ StepFails(c) \/ ActionIsLost(c)
      PROVE  IInv'
  <2>1. CASE runAccountDeletionBatch(c)
    BY <2>1, BatchIsStaleSafe, PickPlanSafe, PlanIsGoneSafe, PlanBatchSafe, DataExportsBatchSafe,
       SubscriptionsBatchSafe, AuthSessionsBatchSafe, AuthUserBatchSafe
       DEF runAccountDeletionBatch
  <2> QED BY <1>5, <2>1, resumeAccountDeletionSafe, CancelAtStripeSafe,
             completeStripeCancellationSafe, recordAccountDeletionFailureSafe, StepFailsSafe,
             ActionIsLostSafe
             DEF Chain
<1> QED BY <1>1, <1>2, <1>3, <1>4, <1>5 DEF Next

(* The inductive invariant holds of every execution: one row per user, a   *)
(* plan only with a row or a job that will look at it, a driver for every  *)
(* job, an owner for every archive (account.ts 361-846).                   *)
THEOREM DeletionInvariant == Spec => []IInv
<1>1. Init => IInv
  BY InitInv
<1>2. IInv /\ [Next]_vars => IInv'
  BY NextInv
<1> QED BY <1>1, <1>2, PTL DEF Spec

(* What the runs check of the deletion holds for every choice of the       *)
(* constants: one subscriptions row, nothing left behind, a job that some  *)
(* action drives, no archive without an owner.                             *)
THEOREM DeletionAlwaysSound == Spec => []DeletionIsSound
<1>1. IInv => DeletionIsSound
  <2> SUFFICES ASSUME IInv
               PROVE  DeletionIsSound
    OBVIOUS
  <2>1. OneRowPerUser
    <3>1. rows = {} \/ \E r : rows = {r}
      BY DEF IInv, BillInv
    <3>2. Cardinality(rows) \in {0, 1}
      BY <3>1, FS_EmptySet, FS_Singleton
    <3> QED BY <3>2 DEF OneRowPerUser
  <2>2. JobIsDriven
    <3> SUFFICES ASSUME job # NoJob, ~lost
                 PROVE  \E c \in Chains : chains[c] # idle
      BY DEF JobIsDriven
    <3>1. PICK c \in Chains : Drives(c)
      BY DEF IInv, ChainInv, Driven
    <3>2. chains[c].step # "idle"
      BY <3>1 DEF Drives
    <3> QED BY <3>2 DEF idle
  <2> QED BY <2>1, <2>2 DEF IInv, PlanInv, DeletionIsSound
<1> QED BY <1>1, DeletionInvariant, PTL

-----------------------------------------------------------------------------
(* The row follows Stripe *)

(* The steps that write the subscriptions table. *)
LEMMA RowWriters ==
    ASSUME [Next]_vars
    PROVE  \/ UNCHANGED rows
           \/ rows = {}
           \/ \E id \in trials : expireInternalTrial(id)
           \/ expireOverdueInternalTrials
           \/ \E f \in fetched : syncCanonicalSubscription(f)
           \/ \E c \in Chains : completeStripeCancellation(c)
<1>1. CASE UNCHANGED vars
  BY <1>1 DEF vars
<1>2. CASE Users
  BY <1>2 DEF Users, CreateCheckoutSession, Pay, StripeEnds, PriceChanges, SignIn, startTrial,
     skipTrial, reactivateSubscription, upsertPlan, deletePlan, AddRelated, requestDataExport,
     startAccountDeletion
<1>3. CASE Billing
  BY <1>3 DEF Billing, WebhookRetrieves, WebhookFails
<1>4. CASE Background
  BY <1>4 DEF Background, continuePlanRelatedDataCleanup, claimExportBuild, StoreArchive,
     markExportReady, markExportFailed, BuilderIsLost, deleteExpiredDataExports
<1>5. ASSUME NEW c \in Chains, Chain(c) \/ StepFails(c) \/ ActionIsLost(c)
      PROVE  UNCHANGED rows \/ completeStripeCancellation(c)
  <2>1. CASE runAccountDeletionBatch(c)
    BY <2>1 DEF runAccountDeletionBatch, BatchIsStale, PickPlan, PlanIsGone, PlanBatch,
       DataExportsBatch, SubscriptionsBatch, AuthSessionsBatch, AuthUserBatch
  <2> QED BY <1>5, <2>1 DEF Chain, resumeAccountDeletion, CancelAtStripe,
             recordAccountDeletionFailure, StepFails, ActionIsLost
<1> QED BY <1>1, <1>2, <1>3, <1>4, <1>5 DEF Next

(* A trial that ends keeps its row, and a paid row stays as it is. *)
LEMMA ExpiryKeeps ==
    ASSUME IInv, NEW r \in rows, r.sub # NoSub,
           (\E id \in trials : expireInternalTrial(id)) \/ expireOverdueInternalTrials
    PROVE  r \in rows' /\ \A q \in rows' : q = r
<1>1. rows = {r}
  BY DEF IInv, BillInv
<1>2. ASSUME NEW id \in trials, expireInternalTrial(id)
      PROVE  rows' = {r}
  BY <1>1, <1>2 DEF expireInternalTrial, IsOverdueTrial
<1>3. ASSUME expireOverdueInternalTrials
      PROVE  rows' = {r}
  BY <1>1, <1>3 DEF expireOverdueInternalTrials, IsOverdueTrial
<1> QED BY <1>2, <1>3

(* A handler writes what it has fetched into the row there is. *)
LEMMA SyncWrites ==
    ASSUME IInv, NEW r \in rows, NEW f \in fetched, syncCanonicalSubscription(f)
    PROVE  \/ rows' = {r}
           \/ rows' = {[id |-> r.id, sub |-> f.sub,
                        status |-> IF f.priced THEN f.status ELSE "canceled"]}
<1>1. rows = {r}
  BY DEF IInv, BillInv
<1>2. RowFor(f) = {r}
  <2>1. \A rs \in SUBSET rows : rs # {} => First(rs) = r
    BY <1>1, FirstOfOne DEF IInv
  <2> DEFINE same == {q \in rows : q.sub = f.sub}
             customers == {q \in rows : q.sub # NoSub}
  <2>2. /\ same # {} => First(same) = r
        /\ customers # {} => First(customers) = r
        /\ rows # {} => First(rows) = r
    BY <2>1
  <2>3. RowFor(f) = IF same # {} THEN {First(same)}
                    ELSE IF customers # {} THEN {First(customers)}
                    ELSE IF rows # {} THEN {First(rows)} ELSE {}
    BY DEF RowFor
  <2> HIDE DEF same, customers
  <2> QED BY <1>1, <2>2, <2>3
<1>3. ASSUME NEW st, PatchRow(r, f.sub, st)
      PROVE  rows' = {[id |-> r.id, sub |-> f.sub, status |-> st]}
  BY <1>1, <1>3 DEF PatchRow
<1>4. CASE f.priced
  <2>1. PatchRow(r, f.sub, f.status)
    BY <1>2, <1>4 DEF syncCanonicalSubscription
  <2> QED BY <1>3, <1>4, <2>1
<1>5. CASE ~f.priced
  <2>1. PatchRow(r, f.sub, "canceled") \/ UNCHANGED rows
    BY <1>2, <1>5 DEF syncCanonicalSubscription
  <2> QED BY <1>1, <1>3, <1>5, <2>1
<1> QED BY <1>4, <1>5

(* The job removes a row only once it has had its subscription cancelled. *)
LEMMA CompletionRemoves ==
    ASSUME IInv, requests <= 1, NEW c \in Chains, completeStripeCancellation(c),
           NEW r \in rows, r \notin rows', r.sub # NoSub
    PROVE  Ended(r.sub)
<1>1. /\ job # NoJob /\ chains[c].step = "completing"
      /\ rows' = rows \ CanceledRows
  BY DEF completeStripeCancellation
<1>2. r.sub = job.sub
  BY <1>1 DEF CanceledRows
<1> QED BY <1>1, <1>2 DEF IInv, ChainInv, OneChain

(* Each step that writes the table follows Stripe. *)
LEMMA RowsStep ==
    ASSUME IInv, [Next]_vars
    PROVE  RemovedMeansCancelled /\ ChangedMeansFetched
<1>0. ASSUME NEW r \in rows, r.sub # NoSub
      PROVE  /\ requests <= 1 /\ (\A q \in rows' : q.id # r.id) => Ended(r.sub)
             /\ \A q \in rows' : q.id = r.id /\ q # r =>
                   \E f \in fetched : /\ f.sub = q.sub
                                      /\ q.status = (IF f.priced THEN f.status ELSE "canceled")
  <2>1. rows = {r}
    BY <1>0 DEF IInv, BillInv
  <2>2. CASE UNCHANGED rows
    BY <2>1, <2>2
  <2>3. CASE (\E id \in trials : expireInternalTrial(id)) \/ expireOverdueInternalTrials
    BY <1>0, <2>3, ExpiryKeeps
  <2>4. ASSUME NEW f \in fetched, syncCanonicalSubscription(f)
        PROVE  \/ rows' = {r}
               \/ rows' = {[id |-> r.id, sub |-> f.sub,
                            status |-> IF f.priced THEN f.status ELSE "canceled"]}
    BY <2>4, SyncWrites
  <2>5. ASSUME NEW c \in Chains, completeStripeCancellation(c)
        PROVE  rows' \subseteq rows /\ (requests <= 1 /\ r \notin rows' => Ended(r.sub))
    <3>1. rows' \subseteq rows
      BY <2>5 DEF completeStripeCancellation
    <3> QED BY <1>0, <2>5, <3>1, CompletionRemoves
  <2>6. CASE \E f \in fetched : syncCanonicalSubscription(f)
    <3>1. PICK f \in fetched :
             \/ rows' = {r}
             \/ rows' = {[id |-> r.id, sub |-> f.sub,
                          status |-> IF f.priced THEN f.status ELSE "canceled"]}
      BY <2>4, <2>6
    <3>2. CASE rows' = {r}
      BY <3>2
    <3>3. CASE rows' = {[id |-> r.id, sub |-> f.sub,
                         status |-> IF f.priced THEN f.status ELSE "canceled"]}
      <4>1. \A q \in rows' : /\ q.id = r.id /\ q.sub = f.sub
                            /\ q.status = (IF f.priced THEN f.status ELSE "canceled")
        BY <3>3
      <4>2. \E q \in rows' : q.id = r.id
        BY <3>3
      <4> QED BY <4>1, <4>2
    <3> QED BY <3>1, <3>2, <3>3
  <2>7. CASE \E c \in Chains : completeStripeCancellation(c)
    BY <2>1, <2>5, <2>7
  <2> QED BY <2>2, <2>3, <2>6, <2>7, RowWriters
<1>1. \A r \in rows : r.sub # NoSub => r.sub \in Subs
  BY DEF IInv, TypeOK, BillTypeOK
<1>2. \A s \in Subs : Ended(s) => ~Running(s) \/ ~stripe[s].priced
  BY DEF Ended, Running
<1>3. RemovedMeansCancelled
  BY <1>0, <1>1, <1>2 DEF RemovedMeansCancelled
<1>4. ChangedMeansFetched
  BY <1>0 DEF ChangedMeansFetched
<1> QED BY <1>3, <1>4

(* The row follows Stripe in every execution: a row that names a           *)
(* subscription goes only when Stripe has ended it (of one request), and   *)
(* changes only to what a handler has fetched.                             *)
THEOREM RowsAlwaysFollowStripe == Spec => RowsFollowStripe
<1>1. IInv /\ [Next]_vars => [RemovedMeansCancelled /\ ChangedMeansFetched]_vars
  BY RowsStep
<1> QED BY <1>1, DeletionInvariant, PTL DEF Spec, RowsFollowStripe
=============================================================================
