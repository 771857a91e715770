-------------------------- MODULE WritebackProofs --------------------------
(***************************************************************************)
(* Theorems about write-backs, for any number of jobs, annotations,        *)
(* sessions and daemons.                                                   *)
(*                                                                         *)
(* What the cloud holds needs no more than it says (Carried).  What a      *)
(* daemon knows is the invariant of one daemon (DaemonInv), and all that   *)
(* the rest of the system may do to it is to move its jobs forward: a job  *)
(* that is there stays, and one that has ended keeps its end.              *)
(***************************************************************************)
EXTENDS Writeback, FiniteSetTheorems, SequenceTheorems, TLAPS

JobRow == [status : Statuses, plan : Plans \cup {None},
           device : Devices \cup {NoDevice}, annos : SUBSET Annotations]
AnnoRow == [status : {"absent", "open", "submitted", "resolved"},
            plan : Plans \cup {None}, wb : Jobs \cup {None}]
Fetched == [id : Jobs, plan : Plans \cup {None}]

Carried ==
    \A a \in Annotations :
         anno[a].status = "submitted" =>
             /\ anno[a].wb \in Jobs
             /\ job[anno[a].wb].status \in {"pending", "sent"}
             /\ a \in job[anno[a].wb].annos

HasEnded(j) == job[j].status \in {"sent", "failed", "expired"}
Listed(d, j) == \E i \in DOMAIN poll[d].batch : poll[d].batch[i].id = j
Sending(d, j) == poll[d].pc \in {"sent", "record"} /\ Job(d) = j

(* A batch is there while jobs are handled; it names a job at most once,   *)
(* and only jobs that were taken.                                          *)
BatchInv(d) ==
    /\ poll[d].pc \in {"idle", "expire", "query"} => poll[d].batch = <<>>
    /\ poll[d].pc \notin {"idle", "expire", "query", "next"} => poll[d].batch # <<>>
    /\ \A i \in DOMAIN poll[d].batch : job[poll[d].batch[i].id].status # "none"
    /\ \A i, k \in DOMAIN poll[d].batch : poll[d].batch[i].id = poll[d].batch[k].id => i = k

(* What the step of a poll says of the job in hand. *)
HandInv(d) ==
    /\ poll[d].pc \in {"scan", "send"} => pending[d][Job(d)] = None
    /\ poll[d].pc \in {"sent", "record"} => got[d][Job(d)] > 0
    /\ poll[d].pc = "report" => pending[d][Job(d)] # None
    /\ poll[d].pc = "reported" => HasEnded(Job(d))

(* A delivery that was not forgotten was the only one, and a daemon will   *)
(* not deliver the job again: it remembers, is about to, or the job has    *)
(* ended and is not in its batch.                                          *)
MemoryInv(d) ==
    /\ \A j \in Jobs :
         got[d][j] > 0 /\ j \notin forgotten[d] =>
             /\ got[d][j] = 1
             /\ \/ pending[d][j] # None
                \/ Sending(d, j)
                \/ HasEnded(j) /\ ~Listed(d, j)
    /\ \A j \in Jobs : "sent" \in {pending[d][j], saved[d][j]} => got[d][j] > 0

DaemonInv(d) == BatchInv(d) /\ HandInv(d) /\ MemoryInv(d)

IInv == TypeOK /\ Carried /\ \A d \in Devices : DaemonInv(d)

-----------------------------------------------------------------------------
(* The batch *)

(* A batch with its first job handled. *)
LEMMA BatchTail ==
    ASSUME NEW d \in Devices, TypeOK, poll[d].batch # <<>>
    PROVE  /\ Len(poll[d].batch) \in Nat \ {0} /\ DOMAIN poll[d].batch = 1 .. Len(poll[d].batch)
           /\ Copy(d) = poll[d].batch[1] /\ Copy(d) \in Fetched /\ Job(d) \in Jobs
           /\ Tail(poll[d].batch) \in Seq(Fetched)
           /\ DOMAIN Tail(poll[d].batch) = 1 .. Len(poll[d].batch) - 1
           /\ \A i \in DOMAIN Tail(poll[d].batch) :
                i + 1 \in DOMAIN poll[d].batch /\ Tail(poll[d].batch)[i] = poll[d].batch[i + 1]
<1> DEFINE b == poll[d].batch
<1>1. b \in Seq(Fetched) /\ b # <<>>
  BY DEF TypeOK, Fetched
<1>2. b[1] \in Fetched /\ Head(b) = b[1] /\ Len(b) \in Nat \ {0} /\ DOMAIN b = 1 .. Len(b)
  BY <1>1
<1>3. Tail(b) \in Seq(Fetched) /\ Len(Tail(b)) = Len(b) - 1
      /\ \A i \in 1 .. Len(b) - 1 : Tail(b)[i] = b[i + 1]
  BY <1>1
<1> QED BY <1>1, <1>2, <1>3 DEF Copy, Job, Fetched

(* A batch in order names each of its jobs once. *)
LEMMA Ordered ==
    ASSUME NEW S, S \subseteq Jobs, NEW s \in InOrder(S)
    PROVE  /\ s \in Seq(S)
           /\ \A i, k \in DOMAIN s : s[i] = s[k] => i = k
<1>1. Cardinality(S) \in Nat
  BY JobsAssumption, FS_Subset, FS_CardinalityType
<1>2. s \in [1 .. Cardinality(S) -> S] /\ \A i, k \in DOMAIN s : i < k => s[i] < s[k]
  BY DEF InOrder
<1>3. s \in Seq(S)
  BY <1>1, <1>2
<1>4. ASSUME NEW i \in DOMAIN s, NEW k \in DOMAIN s, s[i] = s[k] PROVE i = k
  <2>1. i \in Nat /\ k \in Nat /\ s[i] \in Nat /\ s[k] \in Nat
    <3>1. i \in 1 .. Cardinality(S) /\ k \in 1 .. Cardinality(S)
      BY <1>2, <1>4
    <3>2. s[i] \in Nat /\ s[k] \in Nat
      BY <1>2, <3>1, JobsAssumption
    <3> QED BY <1>1, <3>1, <3>2
  <2>2. ~(i < k) /\ ~(k < i)
    BY <1>2, <1>4, <2>1
  <2> QED BY <2>1, <2>2
<1> QED BY <1>3, <1>4

(* A new batch holds jobs that are pending, each once. *)
LEMMA NewBatch ==
    ASSUME TypeOK, NEW d \in Devices, NEW own \in InOrder(Visible(d)),
           NEW untargeted \in InOrder(Visible(NoDevice))
    PROVE  \A ids : ids = own \o untargeted =>
             /\ Rows(ids) \in Seq(Fetched)
             /\ \A i \in DOMAIN Rows(ids) : job[Rows(ids)[i].id].status = "pending"
             /\ \A i, k \in DOMAIN Rows(ids) : Rows(ids)[i].id = Rows(ids)[k].id => i = k
<1> SUFFICES ASSUME NEW ids, ids = own \o untargeted
             PROVE  /\ Rows(ids) \in Seq(Fetched)
                    /\ \A i \in DOMAIN Rows(ids) : job[Rows(ids)[i].id].status = "pending"
                    /\ \A i, k \in DOMAIN Rows(ids) : Rows(ids)[i].id = Rows(ids)[k].id => i = k
  OBVIOUS
<1> DEFINE both == Visible(d) \cup Visible(NoDevice)
<1>1. Visible(d) \subseteq Jobs /\ Visible(NoDevice) \subseteq Jobs
  BY DEF Visible
<1>2. /\ own \in Seq(Visible(d)) /\ untargeted \in Seq(Visible(NoDevice))
      /\ \A i, k \in DOMAIN own : own[i] = own[k] => i = k
      /\ \A i, k \in DOMAIN untargeted : untargeted[i] = untargeted[k] => i = k
  BY <1>1, Ordered
<1>3. Visible(d) \cap Visible(NoDevice) = {}
  BY DevicesAssumption DEF Visible
<1>4. /\ ids \in Seq(both) /\ Len(ids) \in Nat /\ DOMAIN ids = 1 .. Len(ids)
      /\ Len(ids) = Len(own) + Len(untargeted)
      /\ \A i \in 1 .. Len(ids) :
           ids[i] = IF i <= Len(own) THEN own[i] ELSE untargeted[i - Len(own)]
  <2>1. own \in Seq(both) /\ untargeted \in Seq(both)
    BY <1>2
  <2> QED BY <2>1
<1>5. ASSUME NEW i \in DOMAIN ids, NEW k \in DOMAIN ids, ids[i] = ids[k] PROVE i = k
  <2>1. CASE i <= Len(own) /\ k <= Len(own)
    BY <1>2, <1>4, <1>5, <2>1
  <2>2. CASE ~(i <= Len(own)) /\ ~(k <= Len(own))
    BY <1>2, <1>4, <1>5, <2>2
  <2>3. CASE i <= Len(own) /\ ~(k <= Len(own))
    <3>1. ids[i] \in Visible(d) /\ ids[k] \in Visible(NoDevice)
      BY <1>2, <1>4, <2>3
    <3> QED BY <1>3, <1>5, <3>1
  <2>4. CASE ~(i <= Len(own)) /\ k <= Len(own)
    <3>1. ids[k] \in Visible(d) /\ ids[i] \in Visible(NoDevice)
      BY <1>2, <1>4, <2>4
    <3> QED BY <1>3, <1>5, <3>1
  <2> QED BY <2>1, <2>2, <2>3, <2>4
<1>6. \A i \in DOMAIN ids : ids[i] \in Jobs /\ job[ids[i]].status = "pending"
  <2>1. \A j \in both : j \in Jobs /\ job[j].status = "pending"
    BY DEF Visible
  <2> QED BY <1>4, <2>1
<1>7. /\ DOMAIN Rows(ids) = 1 .. Len(ids)
      /\ \A i \in 1 .. Len(ids) : Rows(ids)[i] = [id |-> ids[i], plan |-> job[ids[i]].plan]
  BY <1>4 DEF Rows
<1>8. ASSUME NEW i \in 1 .. Len(ids) PROVE Rows(ids)[i] \in Fetched
  <2>1. ids[i] \in Jobs
    BY <1>4, <1>6
  <2>2. job[ids[i]].plan \in Plans \cup {None}
    BY <2>1 DEF TypeOK
  <2> QED BY <1>7, <2>1, <2>2 DEF Fetched
<1>9. Rows(ids) \in Seq(Fetched)
  <2> DEFINE n == Len(ids)
             f == Rows(ids)
  <2>1. n \in Nat /\ f = [i \in 1 .. n |-> f[i]] /\ \A i \in 1 .. n : f[i] \in Fetched
    BY <1>4, <1>8 DEF Rows
  <2> HIDE DEF n, f
  <2>2. f \in [1 .. n -> Fetched]
    BY <2>1
  <2>3. f \in Seq(Fetched)
    BY <2>1, <2>2, SeqDef
  <2> QED BY <2>3 DEF f
<1>10. /\ DOMAIN Rows(ids) = DOMAIN ids
       /\ \A i \in DOMAIN ids : Rows(ids)[i].id = ids[i]
  BY <1>4, <1>7
<1>11. \A i \in DOMAIN Rows(ids) : job[Rows(ids)[i].id].status = "pending"
  BY <1>6, <1>10
<1>12. \A i, k \in DOMAIN Rows(ids) : Rows(ids)[i].id = Rows(ids)[k].id => i = k
  BY <1>5, <1>10
<1> QED BY <1>9, <1>11, <1>12

-----------------------------------------------------------------------------
(* The cloud *)

Forward ==
    \A j \in Jobs : /\ job[j].status # "none" => job'[j].status # "none"
                    /\ HasEnded(j) => HasEnded(j)'

CloudOk == job \in [Jobs -> JobRow] /\ anno \in [Annotations -> AnnoRow] /\ Carried

(* Whatever jobs are given up, what Reopened leaves submitted was so before *)
(* and is not theirs.                                                       *)
LEMMA ReopenedOk ==
    ASSUME TypeOK, Carried, NEW S
    PROVE  /\ Reopened(S) \in [Annotations -> AnnoRow]
           /\ \A a \in Annotations :
                Reopened(S)[a].status = "submitted" =>
                    Reopened(S)[a] = anno[a] /\ anno[a].wb \notin S
<1>1. anno \in [Annotations -> AnnoRow]
  BY DEF TypeOK, AnnoRow
<1>2. ASSUME NEW a \in Annotations PROVE
        /\ Reopened(S)[a] \in AnnoRow
        /\ Reopened(S)[a].status = "submitted" => Reopened(S)[a] = anno[a] /\ anno[a].wb \notin S
  <2>1. CASE anno[a].status = "submitted" /\ anno[a].wb \in S /\ a \in job[anno[a].wb].annos
    <3>1. Reopened(S)[a] = [anno[a] EXCEPT !.status = "open", !.wb = None]
      BY <2>1 DEF Reopened
    <3> QED BY <1>1, <3>1 DEF AnnoRow
  <2>2. CASE ~(anno[a].status = "submitted" /\ anno[a].wb \in S /\ a \in job[anno[a].wb].annos)
    <3>1. Reopened(S)[a] = anno[a]
      BY <2>2 DEF Reopened
    <3> QED BY <1>1, <2>2, <3>1 DEF Carried
  <2> QED BY <2>1, <2>2
<1> QED BY <1>2 DEF Reopened

(* A new job moves the cloud forward. *)
LEMMA EnqueueStep ==
    ASSUME TypeOK, Carried, NEW j \in Jobs, NEW p \in Plans, NEW t \in Devices \cup {NoDevice},
           NEW as \in SUBSET Annotations, Enqueue(j, p, t, as)
    PROVE  CloudOk' /\ Forward
<1> DEFINE q == Current(p)
           earlier == PendingOn({p, q})
           free == Reopened(earlier)
           new == [status |-> "pending", plan |-> q, device |-> t, annos |-> as]
<1>1. /\ q \in Plans /\ job[j].status = "none"
      /\ \A i \in earlier : i \in Jobs /\ job[i].status = "pending"
  BY DEF Enqueue, TypeOK, PendingOn
<1>2. /\ job' = [i \in Jobs |-> IF i = j THEN new
                               ELSE IF i \in earlier THEN [job[i] EXCEPT !.status = "expired", !.plan = q]
                               ELSE job[i]]
      /\ anno' = [a \in Annotations |->
                    IF a \in as THEN [free[a] EXCEPT !.status = "submitted", !.wb = j] ELSE free[a]]
  BY DEF Enqueue
<1>3. free \in [Annotations -> AnnoRow]
  BY ReopenedOk
<1>4. \A a \in Annotations : free[a].status = "submitted" => free[a] = anno[a] /\ anno[a].wb \notin earlier
  BY ReopenedOk
<1>5. job \in [Jobs -> JobRow]
  BY DEF TypeOK, JobRow
<1> HIDE DEF q, earlier, free
<1>6. new \in JobRow /\ new.status = "pending" /\ new.annos = as
  BY <1>1 DEF JobRow, Statuses
<1> HIDE DEF new
<1>7. \A i \in Jobs : [job[i] EXCEPT !.status = "expired", !.plan = q] \in JobRow
  BY <1>1, <1>5 DEF JobRow, Statuses
<1>8. job' \in [Jobs -> JobRow]
  BY <1>2, <1>5, <1>6, <1>7
<1>9. \A a \in Annotations : [free[a] EXCEPT !.status = "submitted", !.wb = j] \in AnnoRow
  BY <1>3 DEF AnnoRow
<1>10. anno' \in [Annotations -> AnnoRow]
  BY <1>2, <1>3, <1>9
<1>11. ASSUME NEW a \in Annotations, anno'[a].status = "submitted"
       PROVE  /\ anno'[a].wb \in Jobs
              /\ job'[anno'[a].wb].status \in {"pending", "sent"}
              /\ a \in job'[anno'[a].wb].annos
  <2>1. CASE a \in as
    <3>1. anno'[a].wb = j
      BY <1>2, <1>3, <2>1 DEF AnnoRow
    <3>2. job'[j] = new
      BY <1>2
    <3> QED BY <1>6, <2>1, <3>1, <3>2
  <2>2. CASE a \notin as
    <3>1. anno'[a] = anno[a] /\ anno[a].wb \notin earlier
      BY <1>2, <1>4, <1>11, <2>2
    <3>2. /\ anno[a].wb \in Jobs /\ a \in job[anno[a].wb].annos
          /\ job[anno[a].wb].status \in {"pending", "sent"}
      BY <1>11, <3>1 DEF Carried
    <3>3. job'[anno[a].wb] = job[anno[a].wb]
      BY <1>1, <1>2, <3>1, <3>2
    <3> QED BY <3>1, <3>2, <3>3
  <2> QED BY <2>1, <2>2
<1>12. Forward
  <2>1. ASSUME NEW i \in Jobs, job[i].status # "none" PROVE job'[i].status \in {"expired", job[i].status}
    <3>1. CASE i \in earlier
      BY <1>1, <1>2, <1>5, <2>1, <3>1 DEF JobRow
    <3>2. CASE i \notin earlier
      BY <1>1, <1>2, <2>1, <3>2
    <3> QED BY <3>1, <3>2
  <2> QED BY <2>1 DEF Forward, HasEnded
<1> QED BY <1>8, <1>10, <1>11, <1>12 DEF CloudOk, Carried

(* The other things an owner does to an annotation. *)
LEMMA OwnerStep ==
    ASSUME TypeOK, Carried,
           \/ \E a \in Annotations, p \in Plans : CreateAnnotation(a, p)
           \/ \E a \in Annotations, s \in {"open", "resolved"} : UpdateAnnotation(a, s)
           \/ \E a \in Annotations : DeleteAnnotation(a)
    PROVE  CloudOk' /\ Forward
<1>1. PICK a \in Annotations, x \in AnnoRow : OwnerEdits(a, x) /\ x.status # "submitted"
  <2>1. CASE \E a \in Annotations, p \in Plans : CreateAnnotation(a, p)
    <3>1. PICK a \in Annotations, p \in Plans : CreateAnnotation(a, p)
      BY <2>1
    <3>2. [status |-> "open", plan |-> p, wb |-> None] \in AnnoRow
      BY DEF AnnoRow
    <3> QED BY <3>1, <3>2 DEF CreateAnnotation
  <2>2. CASE \E a \in Annotations, s \in {"open", "resolved"} : UpdateAnnotation(a, s)
    <3>1. PICK a \in Annotations, s \in {"open", "resolved"} : UpdateAnnotation(a, s)
      BY <2>2
    <3>2. anno[a] \in AnnoRow
      BY DEF AnnoRow, TypeOK
    <3>3. [anno[a] EXCEPT !.status = s] \in AnnoRow /\ [anno[a] EXCEPT !.status = s].status = s
      BY <3>2 DEF AnnoRow
    <3> QED BY <3>1, <3>3 DEF UpdateAnnotation
  <2>3. CASE \E a \in Annotations : DeleteAnnotation(a)
    BY <2>3 DEF DeleteAnnotation, NoAnno, AnnoRow
  <2> QED BY <2>1, <2>2, <2>3
<1>2. job' = job /\ anno' = [anno EXCEPT ![a] = x]
  BY <1>1 DEF OwnerEdits
<1>3. job' \in [Jobs -> JobRow] /\ anno' \in [Annotations -> AnnoRow]
  BY <1>1, <1>2 DEF TypeOK, JobRow, AnnoRow
<1>4. Carried'
  BY <1>1, <1>2, TypeOK DEF Carried, TypeOK
<1> QED BY <1>2, <1>3, <1>4 DEF CloudOk, Forward, HasEnded

(* So does an annotation that is marked, *)
LEMMA MarkSubmittedStep ==
    ASSUME TypeOK, Carried, NEW a \in Annotations, NEW j \in Jobs, MarkSubmitted(a, j)
    PROVE  CloudOk' /\ Forward
<1>1. /\ job' = [job EXCEPT ![j].annos = @ \cup {a}]
      /\ anno' = [anno EXCEPT ![a].status = "submitted", ![a].wb = j]
      /\ job[j].status = "pending"
  BY DEF MarkSubmitted
<1>2. job \in [Jobs -> JobRow] /\ anno \in [Annotations -> AnnoRow]
  BY DEF TypeOK, JobRow, AnnoRow
<1>3. \A i \in Jobs : job'[i].status = job[i].status /\ job[i].annos \subseteq job'[i].annos
  BY <1>1, <1>2 DEF JobRow
<1>4. job' \in [Jobs -> JobRow]
  BY <1>1, <1>2 DEF JobRow
<1>5. anno' \in [Annotations -> AnnoRow]
  BY <1>1, <1>2 DEF AnnoRow
<1>6. ASSUME NEW b \in Annotations, anno'[b].status = "submitted"
      PROVE  /\ anno'[b].wb \in Jobs
             /\ job'[anno'[b].wb].status \in {"pending", "sent"}
             /\ b \in job'[anno'[b].wb].annos
  <2>1. CASE b = a
    <3>1. anno'[b].wb = j /\ a \in job'[j].annos
      BY <1>1, <1>2, <2>1 DEF AnnoRow, JobRow
    <3> QED BY <1>1, <1>3, <2>1, <3>1
  <2>2. CASE b # a
    <3>1. anno'[b] = anno[b]
      BY <1>1, <1>2, <2>2
    <3> QED BY <1>3, <1>6, <3>1 DEF Carried
  <2> QED BY <2>1, <2>2
<1>7. Forward
  BY <1>3 DEF Forward, HasEnded
<1> QED BY <1>4, <1>5, <1>6, <1>7 DEF CloudOk, Carried

(* an upload that says which session is live, *)
LEMMA UploadStep ==
    ASSUME TypeOK, Carried, NEW d \in Devices, NEW p \in Plans, UploadLive(d, p)
    PROVE  CloudOk' /\ Forward
<1>1. job' = JobsMovedTo(p) /\ anno' = anno
  BY DEF UploadLive
<1>2. job \in [Jobs -> JobRow] /\ anno \in [Annotations -> AnnoRow]
  BY DEF TypeOK, JobRow, AnnoRow
<1>3. \A i \in Jobs : /\ job'[i] \in JobRow
                      /\ job'[i].status = job[i].status /\ job[i].annos = job'[i].annos
  <2>1. ASSUME NEW i \in Jobs PROVE job'[i] \in {job[i], [job[i] EXCEPT !.plan = p]}
    BY <1>1 DEF JobsMovedTo
  <2> QED BY <1>2, <2>1 DEF JobRow
<1>4. job' \in [Jobs -> JobRow]
  BY <1>1, <1>3 DEF JobsMovedTo
<1> QED BY <1>1, <1>2, <1>3, <1>4 DEF CloudOk, Carried, Forward, HasEnded

(* Jobs that end, and give back what they carry unless it was sent. *)
LEMMA EndStep ==
    ASSUME TypeOK, Carried, NEW S \in SUBSET Jobs, NEW s \in {"sent", "failed", "expired"},
           \A j \in S : job[j].status = "pending",
           job' = [j \in Jobs |-> IF j \in S THEN [job[j] EXCEPT !.status = s] ELSE job[j]],
           anno' = IF s = "sent" THEN anno ELSE Reopened(S)
    PROVE  CloudOk' /\ Forward
<1>1. job \in [Jobs -> JobRow] /\ anno \in [Annotations -> AnnoRow]
  BY DEF TypeOK, JobRow, AnnoRow
<1>2. \A i \in Jobs : /\ job'[i] \in JobRow /\ job'[i].annos = job[i].annos
                      /\ job'[i].status = IF i \in S THEN s ELSE job[i].status
  <2>1. \A i \in Jobs : [job[i] EXCEPT !.status = s] \in JobRow
    BY <1>1 DEF JobRow, Statuses
  <2> QED BY <1>1, <2>1 DEF JobRow
<1>3. job' \in [Jobs -> JobRow]
  BY <1>2
<1>4. anno' \in [Annotations -> AnnoRow]
  BY <1>1, ReopenedOk
<1>5. ASSUME NEW a \in Annotations, anno'[a].status = "submitted"
      PROVE  anno'[a] = anno[a] /\ (s # "sent" => anno[a].wb \notin S)
  BY <1>5, ReopenedOk
<1>6. Carried'
  BY <1>2, <1>5 DEF Carried
<1> QED BY <1>2, <1>3, <1>4, <1>6 DEF CloudOk, Forward, HasEnded

(* the sweep before a fetch, *)
LEMMA FetchExpiresStep ==
    ASSUME TypeOK, Carried, NEW d \in Devices, FetchExpires(d)
    PROVE  CloudOk' /\ Forward
<1> DEFINE S == {j \in overdue : job[j].status = "pending"}
<1>1. S \in SUBSET Jobs /\ \A j \in S : job[j].status = "pending"
  BY DEF TypeOK
<1>2. /\ job' = [j \in Jobs |-> IF j \in S THEN [job[j] EXCEPT !.status = "expired"] ELSE job[j]]
      /\ anno' = Reopened(S)
  BY DEF FetchExpires, MarkExpired
<1> QED BY <1>1, <1>2, EndStep

(* and a report, after which its job has ended. *)
LEMMA ReportArrivesStep ==
    ASSUME TypeOK, Carried, NEW d \in Devices, BatchInv(d), HandInv(d), ReportArrives(d)
    PROVE  /\ CloudOk' /\ Forward
           /\ HasEnded(Job(d))'
<1> DEFINE j == Job(d)
           s == pending[d][Job(d)]
<1>1. j \in Jobs /\ s \in {"sent", "failed", "expired"} /\ job[j].status # "none"
  <2>1. poll[d].batch # <<>> /\ j \in Jobs
    BY BatchTail DEF ReportArrives, At, BatchInv
  <2>2. s # None
    BY DEF ReportArrives, At, HandInv
  <2>3. s \in {"sent", "failed", "expired", None}
    BY <2>1 DEF TypeOK, Reports
  <2>4. job[j].status # "none"
    BY <2>1, BatchTail DEF BatchInv, Job
  <2> QED BY <2>1, <2>2, <2>3, <2>4
<1>2. ReportStatus(j, s) /\ poll' = [poll EXCEPT ![d].pc = "reported"]
  BY DEF ReportArrives, GoTo
<1>3. Job(d)' = j
  BY <1>2 DEF Job, Copy, TypeOK
<1>4. job \in [Jobs -> JobRow] /\ anno \in [Annotations -> AnnoRow]
  BY DEF TypeOK, JobRow, AnnoRow
<1> HIDE DEF j, s
<1>5. CASE job[j].status # "pending"
  <2>1. job' = job /\ anno' = anno
    BY <1>2, <1>5 DEF ReportStatus, cloud
  <2>2. HasEnded(j)
    BY <1>1, <1>4, <1>5 DEF HasEnded, JobRow, Statuses
  <2> QED BY <1>3, <1>4, <2>1, <2>2 DEF CloudOk, Carried, Forward, HasEnded
<1>6. CASE job[j].status = "pending"
  <2>1. /\ job' = [job EXCEPT ![j].status = s]
        /\ anno' = IF s = "sent" THEN anno ELSE Reopened({j})
    BY <1>2, <1>6 DEF ReportStatus
  <2>2. job' = [i \in Jobs |-> IF i \in {j} THEN [job[i] EXCEPT !.status = s] ELSE job[i]]
    BY <1>1, <1>4, <2>1
  <2>3. {j} \in SUBSET Jobs /\ \A i \in {j} : job[i].status = "pending"
    BY <1>1, <1>6
  <2>4. CloudOk' /\ Forward
    BY <1>1, <2>1, <2>2, <2>3, EndStep
  <2>5. job'[j].status = s
    BY <1>1, <1>4, <2>1 DEF JobRow
  <2> QED BY <1>1, <1>3, <2>4, <2>5 DEF HasEnded
<1> QED BY <1>5, <1>6

-----------------------------------------------------------------------------
(* A daemon *)

Same(e) == /\ poll'[e] = poll[e] /\ got'[e] = got[e] /\ forgotten'[e] = forgotten[e]
           /\ pending'[e] = pending[e] /\ saved'[e] = saved[e]

(* A batch names jobs. *)
LEMMA BatchOfJobs ==
    ASSUME TypeOK, NEW d \in Devices
    PROVE  \A i \in DOMAIN poll[d].batch : poll[d].batch[i].id \in Jobs
<1>1. poll[d].batch \in Seq(Fetched)
  BY DEF TypeOK, Fetched
<1>2. \A i \in DOMAIN poll[d].batch : poll[d].batch[i] \in Fetched
  BY <1>1
<1> QED BY <1>2 DEF Fetched

(* A daemon that did not move keeps its invariant while jobs move forward. *)
LEMMA Kept ==
    ASSUME TypeOK, NEW e \in Devices, DaemonInv(e), Forward, Same(e)
    PROVE  DaemonInv(e)'
<1>1. \A i \in DOMAIN poll[e].batch : poll[e].batch[i].id \in Jobs
  BY BatchOfJobs
<1>2. BatchInv(e)'
  BY <1>1 DEF DaemonInv, BatchInv, Same, Forward
<1>3. poll[e].batch # <<>> => Job(e) \in Jobs /\ Job(e)' = Job(e)
  BY BatchTail DEF Same, Job, Copy
<1>4. HandInv(e)'
  <2>1. poll[e].pc \notin {"scan", "send", "sent", "record", "report", "reported"} => HandInv(e)'
    BY DEF HandInv, Same
  <2>2. poll[e].pc \in {"scan", "send", "sent", "record", "report", "reported"} => Job(e) \in Jobs /\ Job(e)' = Job(e)
    BY <1>3 DEF DaemonInv, BatchInv
  <2>3. Job(e) \in Jobs /\ HasEnded(Job(e)) => HasEnded(Job(e))'
    BY <2>2 DEF Forward, HasEnded, Same, Job, Copy
  <2> QED BY <2>1, <2>2, <2>3 DEF DaemonInv, HandInv, Same
<1>5. MemoryInv(e)'
  <2>1. \A j \in Jobs : Sending(e, j) => Sending(e, j)'
    BY DEF Sending, Same, Job, Copy
  <2>2. \A j \in Jobs : HasEnded(j) /\ ~Listed(e, j) => HasEnded(j)' /\ ~Listed(e, j)'
    BY DEF Forward, Listed, Same
  <2> QED BY <2>1, <2>2 DEF DaemonInv, MemoryInv, Same
<1> QED BY <1>2, <1>4, <1>5 DEF DaemonInv

Polls == [Devices -> [pc : Steps, batch : Seq(Fetched)]]

(* A poll that goes to its next step. *)
LEMMA Moves ==
    ASSUME TypeOK, NEW d \in Devices, NEW pc \in Steps, GoTo(d, pc)
    PROVE  /\ poll' \in Polls /\ poll'[d].pc = pc /\ poll'[d].batch = poll[d].batch
           /\ Job(d)' = Job(d) /\ \A e \in Devices \ {d} : poll'[e] = poll[e]
<1>1. poll \in Polls
  BY DEF TypeOK, Polls, Fetched
<1>2. poll' = [poll EXCEPT ![d].pc = pc]
  BY DEF GoTo
<1>3. poll' \in Polls /\ poll'[d].pc = pc /\ poll'[d].batch = poll[d].batch
      /\ \A e \in Devices \ {d} : poll'[e] = poll[e]
  BY <1>1, <1>2 DEF Polls
<1> QED BY <1>3 DEF Job, Copy

(* A poll that ends. *)
LEMMA Stopped ==
    ASSUME TypeOK, NEW d \in Devices, Ended(d)
    PROVE  /\ poll' \in Polls /\ poll'[d].pc = "idle" /\ poll'[d].batch = <<>>
           /\ \A e \in Devices \ {d} : poll'[e] = poll[e]
<1>1. poll \in Polls
  BY DEF TypeOK, Polls, Fetched
<1>2. poll' = [poll EXCEPT ![d] = Resting] /\ Resting \in [pc : Steps, batch : Seq(Fetched)]
  BY DEF Ended, Resting, Steps
<1> QED BY <1>1, <1>2 DEF Polls, Resting

(* A poll that goes to its next job. *)
LEMMA Advanced ==
    ASSUME TypeOK, NEW d \in Devices, poll[d].batch # <<>>, NextJob(d)
    PROVE  /\ poll' \in Polls /\ poll'[d].pc = "next" /\ poll'[d].batch = Tail(poll[d].batch)
           /\ \A e \in Devices \ {d} : poll'[e] = poll[e]
<1>1. poll \in Polls
  BY DEF TypeOK, Polls, Fetched
<1>2. poll' = [poll EXCEPT ![d] = [pc |-> "next", batch |-> Tail(poll[d].batch)]]
  BY DEF NextJob
<1>3. [pc |-> "next", batch |-> Tail(poll[d].batch)] \in [pc : Steps, batch : Seq(Fetched)]
  BY BatchTail DEF Steps
<1> QED BY <1>1, <1>2, <1>3 DEF Polls

(* A daemon that remembers a delivery, or forgets one. *)
LEMMA Remembers ==
    ASSUME TypeOK, NEW d \in Devices, NEW j \in Jobs,
           NEW s \in {"sent", "failed", "expired", None}, Remember(d, j, s)
    PROVE  /\ pending' \in [Devices -> Reports] /\ saved' \in [Devices -> Reports]
           /\ pending'[d][j] = s /\ \A i \in Jobs \ {j} : pending'[d][i] = pending[d][i]
           /\ \A i \in Jobs : saved'[d][i] \in {saved[d][i], pending'[d][i]}
           /\ \A e \in Devices \ {d} : pending'[e] = pending[e] /\ saved'[e] = saved[e]
<1>1. pending \in [Devices -> Reports] /\ saved \in [Devices -> Reports]
  BY DEF TypeOK
<1>2. pending' = [pending EXCEPT ![d][j] = s]
  BY DEF Remember
<1>3. saved' \in {saved, [saved EXCEPT ![d] = pending'[d]]}
  BY DEF Remember
<1>4. /\ pending' \in [Devices -> Reports] /\ pending'[d][j] = s
      /\ \A i \in Jobs \ {j} : pending'[d][i] = pending[d][i]
      /\ \A e \in Devices \ {d} : pending'[e] = pending[e]
  BY <1>1, <1>2 DEF Reports
<1>5. /\ saved' \in [Devices -> Reports]
      /\ \A i \in Jobs : saved'[d][i] \in {saved[d][i], pending'[d][i]}
      /\ \A e \in Devices \ {d} : saved'[e] = saved[e]
  BY <1>1, <1>3, <1>4
<1> QED BY <1>4, <1>5

(* A step that goes on with the same batch and remembers nothing new. *)
LEMMA Walks ==
    ASSUME TypeOK, NEW d \in Devices, DaemonInv(d), Forward, NEW pc \in Steps, GoTo(d, pc),
           UNCHANGED <<got, forgotten, pending, saved>>,
           pc \in {"idle", "expire", "query"} => poll[d].batch = <<>>,
           pc \notin {"idle", "expire", "query", "next"} => poll[d].batch # <<>>,
           pc \in {"scan", "send"} => pending[d][Job(d)] = None,
           pc \in {"sent", "record"} => got[d][Job(d)] > 0,
           pc = "report" => pending[d][Job(d)] # None,
           pc = "reported" => HasEnded(Job(d))',
           poll[d].pc \in {"sent", "record"} => pc \in {"sent", "record"}
    PROVE  poll' \in Polls /\ (\A e \in Devices \ {d} : Same(e)) /\ DaemonInv(d)'
<1>1. /\ poll' \in Polls /\ poll'[d].pc = pc /\ poll'[d].batch = poll[d].batch
      /\ Job(d)' = Job(d) /\ \A e \in Devices \ {d} : poll'[e] = poll[e]
  BY Moves
<1>2. \A i \in DOMAIN poll[d].batch : poll[d].batch[i].id \in Jobs
  BY BatchOfJobs
<1>3. BatchInv(d)'
  BY <1>1, <1>2 DEF DaemonInv, BatchInv, Forward
<1>4. HandInv(d)'
  BY <1>1 DEF HandInv
<1>5. MemoryInv(d)'
  <2>1. \A j \in Jobs : Sending(d, j) => Sending(d, j)'
    BY <1>1 DEF Sending
  <2>2. \A j \in Jobs : HasEnded(j) /\ ~Listed(d, j) => HasEnded(j)' /\ ~Listed(d, j)'
    BY <1>1 DEF Forward, Listed
  <2> QED BY <2>1, <2>2 DEF DaemonInv, MemoryInv
<1> QED BY <1>1, <1>3, <1>4, <1>5 DEF DaemonInv, Same

(* A poll that ends, or a restart: what was being sent is forgotten. *)
LEMMA Stops ==
    ASSUME TypeOK, NEW d \in Devices, DaemonInv(d), job' = job, got' = got, Ended(d),
           pending'[d] \in {pending[d], saved[d]}, saved' = saved,
           poll[d].pc \in {"sent", "record"} => Job(d) \in forgotten'[d],
           forgotten[d] \subseteq forgotten'[d],
           \A j \in Jobs : pending[d][j] # None /\ pending'[d][j] = None => j \in forgotten'[d]
    PROVE  DaemonInv(d)'
<1>1. poll'[d].pc = "idle" /\ poll'[d].batch = <<>>
  BY Stopped
<1>2. BatchInv(d)' /\ HandInv(d)'
  BY <1>1 DEF BatchInv, HandInv
<1>3. \A j \in Jobs : ~Listed(d, j)'
  BY <1>1 DEF Listed
<1>4. \A j \in Jobs : Sending(d, j) => j \in forgotten'[d]
  BY DEF Sending
<1>5. \A j \in Jobs : HasEnded(j) => HasEnded(j)'
  BY DEF HasEnded
<1>6. MemoryInv(d)'
  <2>1. ASSUME NEW j \in Jobs, got[d][j] > 0, j \notin forgotten'[d]
        PROVE  got[d][j] = 1 /\ (pending'[d][j] # None \/ (HasEnded(j)' /\ ~Listed(d, j)'))
    BY <1>3, <1>4, <1>5, <2>1 DEF DaemonInv, MemoryInv
  <2>2. \A j \in Jobs : "sent" \in {pending'[d][j], saved'[d][j]} => got'[d][j] > 0
    BY DEF DaemonInv, MemoryInv
  <2> QED BY <2>1, <2>2 DEF MemoryInv
<1> QED BY <1>2, <1>6 DEF DaemonInv

(* The job in hand is done with; it is forgotten as a report only when it  *)
(* has ended.                                                              *)
LEMMA GoesOn ==
    ASSUME TypeOK, NEW d \in Devices, DaemonInv(d), NextJob(d),
           poll[d].pc \notin {"idle", "expire", "query", "next", "sent", "record"},
           UNCHANGED <<job, got, forgotten>>,
           \A i \in Jobs \ {Job(d)} : pending'[d][i] = pending[d][i],
           pending'[d][Job(d)] \in {pending[d][Job(d)], None},
           pending'[d][Job(d)] # pending[d][Job(d)] => HasEnded(Job(d)),
           \A i \in Jobs : saved'[d][i] \in {saved[d][i], pending'[d][i]}
    PROVE  DaemonInv(d)'
<1>1. poll[d].batch # <<>>
  BY DEF DaemonInv, BatchInv
<1>2. poll'[d].pc = "next" /\ poll'[d].batch = Tail(poll[d].batch)
  BY <1>1, Advanced
<1>3. /\ DOMAIN poll[d].batch = 1 .. Len(poll[d].batch) /\ Len(poll[d].batch) \in Nat \ {0}
      /\ Job(d) = poll[d].batch[1].id /\ Job(d) \in Jobs
      /\ DOMAIN poll'[d].batch = 1 .. Len(poll[d].batch) - 1
      /\ \A i \in DOMAIN poll'[d].batch :
           i + 1 \in DOMAIN poll[d].batch /\ poll'[d].batch[i] = poll[d].batch[i + 1]
  BY <1>1, <1>2, BatchTail DEF Job
<1>4. \A i, k \in DOMAIN poll[d].batch : poll[d].batch[i].id = poll[d].batch[k].id => i = k
  BY DEF DaemonInv, BatchInv
<1>5. BatchInv(d)'
  <2>1. \A i \in DOMAIN poll'[d].batch : job'[poll'[d].batch[i].id].status # "none"
    BY <1>3 DEF DaemonInv, BatchInv
  <2>2. ASSUME NEW i \in DOMAIN poll'[d].batch, NEW k \in DOMAIN poll'[d].batch,
               poll'[d].batch[i].id = poll'[d].batch[k].id
        PROVE  i = k
    <3>1. /\ i + 1 \in DOMAIN poll[d].batch /\ k + 1 \in DOMAIN poll[d].batch
          /\ poll[d].batch[i + 1].id = poll[d].batch[k + 1].id
      BY <1>3, <2>2
    <3>2. i + 1 = k + 1
      BY <1>4, <3>1
    <3> QED BY <1>3, <3>2
  <2> QED BY <1>2, <2>1, <2>2 DEF BatchInv
<1>6. HandInv(d)'
  BY <1>2 DEF HandInv
<1>7. \A i \in DOMAIN poll'[d].batch : poll'[d].batch[i].id # Job(d)
  <2> SUFFICES ASSUME NEW i \in DOMAIN poll'[d].batch, poll'[d].batch[i].id = Job(d)
               PROVE  FALSE
    OBVIOUS
  <2>1. /\ i + 1 \in DOMAIN poll[d].batch /\ 1 \in DOMAIN poll[d].batch
        /\ poll[d].batch[i + 1].id = poll[d].batch[1].id
    BY <1>3
  <2>2. i + 1 = 1
    BY <1>4, <2>1
  <2> QED BY <1>3, <2>2
<1>8. \A j : Listed(d, j)' => Listed(d, j) /\ j # Job(d)
  BY <1>3, <1>7 DEF Listed
<1>9. MemoryInv(d)'
  <2>1. ASSUME NEW j \in Jobs, got[d][j] > 0, j \notin forgotten[d]
        PROVE  got[d][j] = 1 /\ (pending'[d][j] # None \/ (HasEnded(j)' /\ ~Listed(d, j)'))
    <3>1. got[d][j] = 1 /\ (pending[d][j] # None \/ (HasEnded(j) /\ ~Listed(d, j)))
      BY <2>1 DEF DaemonInv, MemoryInv, Sending
    <3>2. HasEnded(j) => HasEnded(j)'
      BY DEF HasEnded
    <3>3. CASE j = Job(d)
      <4>1. Listed(d, j)
        BY <1>3, <3>3 DEF Listed
      <4> QED BY <1>8, <3>1, <3>2, <3>3, <4>1
    <3>4. CASE j # Job(d)
      BY <1>8, <3>1, <3>2, <3>4
    <3> QED BY <3>3, <3>4
  <2>2. \A j \in Jobs : "sent" \in {pending'[d][j], saved'[d][j]} => got'[d][j] > 0
    <3>1. \A j \in Jobs : pending'[d][j] \in {pending[d][j], None}
      BY <1>3
    <3> QED BY <3>1, NoneAssumption DEF DaemonInv, MemoryInv
  <2> QED BY <2>1, <2>2 DEF MemoryInv
<1> QED BY <1>5, <1>6, <1>9 DEF DaemonInv

(* A job in hand whose end is noted down, to be reported. *)
LEMMA Notes ==
    ASSUME TypeOK, NEW d \in Devices, DaemonInv(d), poll[d].batch # <<>>,
           NEW s \in {"sent", "failed", "expired"}, Remember(d, Job(d), s), GoTo(d, "report"),
           s = "sent" => got[d][Job(d)] > 0,
           UNCHANGED <<job, got, forgotten>>
    PROVE  DaemonInv(d)'
<1>1. Job(d) \in Jobs
  BY BatchTail
<1>2. /\ poll'[d].pc = "report" /\ poll'[d].batch = poll[d].batch /\ Job(d)' = Job(d)
  BY Moves DEF Steps
<1>3. /\ pending'[d][Job(d)] = s /\ \A i \in Jobs \ {Job(d)} : pending'[d][i] = pending[d][i]
      /\ \A i \in Jobs : saved'[d][i] \in {saved[d][i], pending'[d][i]}
  BY <1>1, Remembers
<1>4. BatchInv(d)'
  BY <1>2 DEF DaemonInv, BatchInv
<1>5. HandInv(d)'
  BY <1>2, <1>3, NoneAssumption DEF HandInv
<1>6. MemoryInv(d)'
  <2>1. ASSUME NEW j \in Jobs, got[d][j] > 0, j \notin forgotten[d]
        PROVE  got[d][j] = 1 /\ (pending'[d][j] # None \/ (HasEnded(j)' /\ ~Listed(d, j)'))
    <3>1. CASE j = Job(d)
      BY <1>3, <2>1, <3>1, NoneAssumption DEF DaemonInv, MemoryInv
    <3>2. CASE j # Job(d)
      BY <1>2, <1>3, <2>1, <3>2 DEF DaemonInv, MemoryInv, Sending, HasEnded, Listed
    <3> QED BY <3>1, <3>2
  <2>2. ASSUME NEW j \in Jobs, "sent" \in {pending'[d][j], saved'[d][j]} PROVE got'[d][j] > 0
    <3>1. CASE j = Job(d)
      BY <1>3, <2>2, <3>1 DEF DaemonInv, MemoryInv
    <3>2. CASE j # Job(d)
      BY <1>3, <2>2, <3>2 DEF DaemonInv, MemoryInv
    <3> QED BY <3>1, <3>2
  <2> QED BY <2>1, <2>2 DEF MemoryInv
<1> QED BY <1>4, <1>5, <1>6 DEF DaemonInv

-----------------------------------------------------------------------------
(* Steps *)

RestOk ==
    /\ live \subseteq Plans /\ alive \subseteq Plans /\ overdue \subseteq Jobs
    /\ known \in [Devices -> SUBSET Plans] /\ signedIn \in [Devices -> BOOLEAN]
    /\ got \in [Devices -> [Jobs -> Nat]] /\ forgotten \in [Devices -> SUBSET Jobs]
    /\ pending \in [Devices -> Reports] /\ saved \in [Devices -> Reports]
    /\ poll \in Polls

(* The types, apart for the cloud and for the rest. *)
LEMMA Typed == TypeOK /\ Carried <=> CloudOk /\ RestOk
BY DEF TypeOK, CloudOk, RestOk, JobRow, AnnoRow, Polls, Fetched

(* A cloud that is not touched moves forward. *)
LEMMA CloudStays == ASSUME CloudOk, job' = job, anno' = anno PROVE CloudOk' /\ Forward
BY DEF CloudOk, Carried, Forward, HasEnded

(* What touches one daemon at most, and the cloud only forward, keeps the  *)
(* invariant.                                                              *)
LEMMA Together ==
    ASSUME IInv, CloudOk', RestOk', Forward, NEW d,
           \A e \in Devices \ {d} : Same(e), d \in Devices => DaemonInv(d)'
    PROVE  IInv'
<1>1. ASSUME NEW e \in Devices PROVE DaemonInv(e)'
  <2>1. CASE e = d
    BY <2>1
  <2>2. CASE e # d
    BY <2>2, Kept DEF IInv
  <2> QED BY <2>1, <2>2
<1>2. TypeOK' /\ Carried'
  BY Typed, PTL
<1> QED BY <1>1, <1>2 DEF IInv

(* The invariant holds at first. *)
LEMMA InitInv == Init => IInv
<1> SUFFICES ASSUME Init PROVE IInv
  OBVIOUS
<1>1. CloudOk
  BY DEF Init, CloudOk, Carried, JobRow, AnnoRow, Statuses, NoJob, NoAnno
<1>2. RestOk
  <2>1. Unknown \in Reports
    BY DEF Unknown, Reports
  <2>2. Resting \in [pc : Steps, batch : Seq(Fetched)]
    BY DEF Resting, Steps
  <2> QED BY <2>1, <2>2 DEF Init, RestOk, Polls
<1>3. ASSUME NEW d \in Devices PROVE DaemonInv(d)
  <2>1. poll[d].pc = "idle" /\ poll[d].batch = <<>>
    BY DEF Init, Resting
  <2>2. \A j \in Jobs : got[d][j] = 0 /\ pending[d][j] = None /\ saved[d][j] = None
    BY DEF Init, Unknown
  <2> QED BY <2>1, <2>2, NoneAssumption DEF DaemonInv, BatchInv, HandInv, MemoryInv
<1> QED BY <1>1, <1>2, <1>3, Typed DEF IInv

(* What the owner does keeps the invariant. *)
LEMMA OwnerInv == ASSUME IInv, Owner PROVE IInv'
<1>1. CloudOk' /\ Forward
  BY EnqueueStep, OwnerStep, MarkSubmittedStep DEF Owner, IInv
<1>2. /\ UNCHANGED <<overdue, alive, got, known, signedIn, daemon, poll>> /\ live' \subseteq live
  BY DEF Owner, Enqueue, CreateAnnotation, UpdateAnnotation, DeleteAnnotation, OwnerEdits, MarkSubmitted
<1>3. RestOk'
  BY <1>2, Typed DEF IInv, RestOk, daemon
<1>4. \A e \in Devices : Same(e)
  BY <1>2 DEF Same, daemon
<1>5. PICK x : x \notin Devices
  BY DevicesAssumption
<1> QED BY <1>1, <1>3, <1>4, <1>5, Together

(* What goes on outside, restarts aside, leaves the memory of daemons be.  *)
LEMMA OutsideInv ==
    ASSUME IInv,
           \/ \E j \in Jobs : Lapse(j)
           \/ \E p \in Plans : SessionStarts(p) \/ SessionEnds(p)
           \/ \E d \in Devices : Rescan(d) \/ SignOut(d) \/ SignIn(d)
           \/ \E d \in Devices, p \in Plans : UploadLive(d, p) \/ UploadEnded(d, p)
    PROVE  IInv'
<1>1. TypeOK /\ Carried /\ CloudOk /\ RestOk
  BY Typed DEF IInv
<1>2. CloudOk' /\ Forward
  <2>1. CASE \E d \in Devices, p \in Plans : UploadLive(d, p)
    BY <1>1, <2>1, UploadStep
  <2>2. CASE ~(\E d \in Devices, p \in Plans : UploadLive(d, p))
    <3>1. job' = job /\ anno' = anno
      BY <2>2 DEF Lapse, SessionStarts, SessionEnds, Rescan, SignOut, SignIn, UploadEnded, cloud
    <3> QED BY <1>1, <3>1, CloudStays
  <2> QED BY <2>1, <2>2
<1>3. UNCHANGED <<got, daemon, poll>>
  BY DEF Lapse, SessionStarts, SessionEnds, Rescan, SignOut, SignIn, UploadLive, UploadEnded
<1>4. /\ live' \subseteq Plans /\ alive' \subseteq Plans /\ overdue' \subseteq Jobs
      /\ known' \in [Devices -> SUBSET Plans] /\ signedIn' \in [Devices -> BOOLEAN]
  <2>1. CASE \E j \in Jobs : Lapse(j)
    BY <1>1, <2>1 DEF RestOk, Lapse
  <2>2. CASE \E p \in Plans : SessionStarts(p) \/ SessionEnds(p)
    BY <1>1, <2>2 DEF RestOk, SessionStarts, SessionEnds
  <2>3. CASE \E d \in Devices : Rescan(d)
    BY <1>1, <2>3 DEF RestOk, Rescan, Sessions
  <2>4. CASE \E d \in Devices : SignOut(d) \/ SignIn(d)
    BY <1>1, <2>4 DEF RestOk, SignOut, SignIn
  <2>5. CASE \E d \in Devices, p \in Plans : UploadLive(d, p) \/ UploadEnded(d, p)
    BY <1>1, <2>5 DEF RestOk, UploadLive, UploadEnded
  <2> QED BY <2>1, <2>2, <2>3, <2>4, <2>5
<1>5. RestOk'
  BY <1>1, <1>3, <1>4 DEF RestOk, daemon
<1>6. \A e \in Devices : Same(e)
  BY <1>3 DEF Same, daemon
<1>7. PICK x : x \notin Devices
  BY DevicesAssumption
<1> QED BY <1>2, <1>5, <1>6, <1>7, Together

(* A daemon that restarts keeps the invariant. *)
LEMMA RestartInv == ASSUME IInv, NEW d \in Devices, Restart(d) PROVE IInv'
<1>1. TypeOK /\ CloudOk /\ RestOk /\ DaemonInv(d)
  BY Typed DEF IInv
<1> DEFINE lost == {j \in Jobs : pending[d][j] # None /\ saved[d][j] = None}
                     \cup IF poll[d].pc \in {"sent", "record"} THEN {Job(d)} ELSE {}
<1>2. /\ Ended(d) /\ pending' = [pending EXCEPT ![d] = saved[d]]
      /\ forgotten' = [forgotten EXCEPT ![d] = @ \cup lost]
      /\ known' = [known EXCEPT ![d] = {}]
      /\ job' = job /\ anno' = anno
      /\ UNCHANGED <<overdue, live, alive, got, signedIn, saved>>
  BY DEF Restart, cloud
<1>3. lost \subseteq Jobs
  <2>1. poll[d].pc \in {"sent", "record"} => Job(d) \in Jobs
    BY <1>1, BatchTail DEF DaemonInv, BatchInv
  <2> QED BY <2>1
<1>4. /\ poll' \in Polls /\ \A e \in Devices \ {d} : poll'[e] = poll[e]
  BY <1>1, <1>2, Stopped
<1>5. /\ pending' \in [Devices -> Reports] /\ pending'[d] = saved[d]
      /\ \A e \in Devices \ {d} : pending'[e] = pending[e]
  BY <1>1, <1>2 DEF RestOk
<1>6. /\ forgotten' \in [Devices -> SUBSET Jobs] /\ forgotten'[d] = forgotten[d] \cup lost
      /\ \A e \in Devices \ {d} : forgotten'[e] = forgotten[e]
  <2> HIDE DEF lost
  <2> QED BY <1>1, <1>2, <1>3 DEF RestOk
<1>7. RestOk'
  BY <1>1, <1>2, <1>4, <1>5, <1>6 DEF RestOk
<1>8. \A e \in Devices \ {d} : Same(e)
  BY <1>2, <1>4, <1>5, <1>6 DEF Same
<1>9. DaemonInv(d)'
  BY <1>1, <1>2, <1>5, <1>6, Stops
<1> QED BY <1>1, <1>2, <1>7, <1>8, <1>9, CloudStays, Together

(* The fetching half of a poll. *)
LEMMA FetchInv ==
    ASSUME IInv, NEW d \in Devices,
           \/ PollStarts(d) \/ FetchExpires(d) \/ FetchQueries(d) \/ FetchFails(d) \/ PollEnds(d)
    PROVE  IInv'
<1>1. TypeOK /\ Carried /\ CloudOk /\ RestOk /\ DaemonInv(d)
  BY Typed DEF IInv
<1>2. /\ UNCHANGED <<got, forgotten, pending, saved>>
      /\ UNCHANGED <<overdue, live, alive, known, signedIn>>
  BY DEF PollStarts, FetchExpires, FetchQueries, FetchFails, PollEnds, Outside, daemon
<1>3. CloudOk' /\ Forward
  <2>1. CASE FetchExpires(d)
    BY <1>1, <2>1, FetchExpiresStep
  <2>2. CASE ~FetchExpires(d)
    <3>1. job' = job /\ anno' = anno
      BY <2>2 DEF PollStarts, FetchQueries, FetchFails, PollEnds, Outside, cloud
    <3> QED BY <1>1, <3>1, CloudStays
  <2> QED BY <2>1, <2>2
<1>4. poll' \in Polls /\ (\A e \in Devices \ {d} : Same(e)) /\ DaemonInv(d)'
  <2>1. CASE PollStarts(d)
    BY <1>1, <1>2, <1>3, <2>1, Walks DEF PollStarts, At, Steps, DaemonInv, BatchInv
  <2>2. CASE FetchExpires(d)
    BY <1>1, <1>2, <1>3, <2>2, Walks DEF FetchExpires, At, Steps, DaemonInv, BatchInv
  <2>3. CASE FetchFails(d) \/ PollEnds(d)
    <3>1. Ended(d) /\ poll[d].pc \notin {"sent", "record"} /\ job' = job
      BY <2>3 DEF FetchFails, PollEnds, At, Outside, cloud
    <3>2. poll' \in Polls /\ \A e \in Devices \ {d} : poll'[e] = poll[e]
      BY <1>1, <3>1, Stopped
    <3>3. DaemonInv(d)'
      BY <1>1, <1>2, <3>1, Stops
    <3> QED BY <1>2, <3>2, <3>3 DEF Same
  <2>4. CASE FetchQueries(d)
    <3>1. job' = job /\ poll[d].pc = "query"
      BY <2>4 DEF FetchQueries, Outside, cloud, At
    <3>2. PICK own \in InOrder(Visible(d)), untargeted \in InOrder(Visible(NoDevice)) :
            poll' = [poll EXCEPT ![d] =
                       IF signedIn[d] /\ own \o untargeted # <<>>
                       THEN [pc |-> "next", batch |-> Rows(own \o untargeted)] ELSE Resting]
      BY <2>4 DEF FetchQueries
    <3> DEFINE rows == Rows(own \o untargeted)
    <3>3. /\ rows \in Seq(Fetched)
          /\ \A i \in DOMAIN rows : job[rows[i].id].status = "pending"
          /\ \A i, k \in DOMAIN rows : rows[i].id = rows[k].id => i = k
      BY <1>1, NewBatch
    <3> HIDE DEF rows
    <3>4. CASE Ended(d)
      <4>1. poll' \in Polls /\ \A e \in Devices \ {d} : poll'[e] = poll[e]
        BY <1>1, <3>4, Stopped
      <4>2. DaemonInv(d)'
        BY <1>1, <1>2, <3>1, <3>4, Stops
      <4> QED BY <1>2, <4>1, <4>2 DEF Same
    <3>5. CASE poll' = [poll EXCEPT ![d] = [pc |-> "next", batch |-> rows]]
      <4>1. [pc |-> "next", batch |-> rows] \in [pc : Steps, batch : Seq(Fetched)]
        BY <3>3 DEF Steps
      <4>2. /\ poll' \in Polls /\ poll'[d].pc = "next" /\ poll'[d].batch = rows
            /\ \A e \in Devices \ {d} : poll'[e] = poll[e]
        BY <1>1, <3>5, <4>1 DEF RestOk, Polls
      <4>3. BatchInv(d)' /\ HandInv(d)'
        BY <3>1, <3>3, <4>2 DEF BatchInv, HandInv
      <4>4. \A j : Listed(d, j)' => job[j].status = "pending"
        BY <3>3, <4>2 DEF Listed
      <4>5. \A j : ~Sending(d, j)
        BY <3>1 DEF Sending
      <4>6. MemoryInv(d)'
        <5>1. \A j \in Jobs : HasEnded(j) => HasEnded(j)' /\ ~Listed(d, j)'
          BY <3>1, <4>4 DEF HasEnded
        <5> QED BY <1>1, <1>2, <4>5, <5>1 DEF DaemonInv, MemoryInv
      <4> QED BY <1>2, <4>2, <4>3, <4>6 DEF DaemonInv, Same
    <3> QED BY <3>2, <3>4, <3>5 DEF rows, Ended
  <2> QED BY <2>1, <2>2, <2>3, <2>4
<1>5. RestOk'
  BY <1>1, <1>2, <1>4 DEF RestOk
<1> QED BY <1>3, <1>4, <1>5, Together

(* The steps that change nothing but the poll itself, and what is          *)
(* forgotten of it when it ends.                                           *)
LEMMA QuietInv ==
    ASSUME IInv, NEW d \in Devices,
           \/ HandleRemembered(d) \/ HandleFresh(d) \/ Answered(d)
           \/ ReportRefused(d) \/ ReportLost(d)
           \/ ReportArrives(d)
    PROVE  IInv'
<1>1. TypeOK /\ Carried /\ CloudOk /\ RestOk /\ DaemonInv(d)
  BY Typed DEF IInv
<1>2. /\ UNCHANGED <<got, pending, saved>>
      /\ UNCHANGED <<overdue, live, alive, known, signedIn>>
  BY DEF HandleRemembered, HandleFresh, Answered, ReportRefused, ReportLost, ReportArrives, Outside, daemon
<1>3. CloudOk' /\ Forward
  <2>1. CASE ReportArrives(d)
    BY <1>1, <2>1, ReportArrivesStep DEF DaemonInv
  <2>2. CASE ~ReportArrives(d)
    <3>1. job' = job /\ anno' = anno
      BY <2>2 DEF HandleRemembered, HandleFresh, Answered, ReportRefused, ReportLost, Outside, cloud
    <3> QED BY <1>1, <3>1, CloudStays
  <2> QED BY <2>1, <2>2
<1>4. /\ poll' \in Polls /\ forgotten' \in [Devices -> SUBSET Jobs]
      /\ (\A e \in Devices \ {d} : Same(e)) /\ DaemonInv(d)'
  <2>1. CASE HandleRemembered(d)
    <3>1. forgotten' = forgotten /\ GoTo(d, "report") /\ poll[d].pc = "next"
          /\ poll[d].batch # <<>> /\ pending[d][Job(d)] # None
      BY <2>1 DEF HandleRemembered, InHand, At, Remembered, daemon
    <3> QED BY <1>1, <1>2, <1>3, <3>1, Walks DEF Steps, RestOk
  <2>2. CASE HandleFresh(d)
    <3>1. PICK pc \in {"send", "scan"} : GoTo(d, pc)
      BY <2>2 DEF HandleFresh
    <3>2. forgotten' = forgotten /\ poll[d].pc = "next"
          /\ poll[d].batch # <<>> /\ pending[d][Job(d)] = None
      BY <2>2 DEF HandleFresh, InHand, At, Remembered, daemon
    <3> QED BY <1>1, <1>2, <1>3, <3>1, <3>2, Walks DEF Steps, RestOk
  <2>3. CASE Answered(d) /\ signedIn[d]
    <3>1. forgotten' = forgotten /\ GoTo(d, "record") /\ poll[d].pc = "sent"
      BY <2>3 DEF Answered, At
    <3>2. poll[d].batch # <<>> /\ got[d][Job(d)] > 0
      BY <1>1, <3>1 DEF DaemonInv, BatchInv, HandInv
    <3> QED BY <1>1, <1>2, <1>3, <3>1, <3>2, Walks DEF Steps, RestOk
  <2>4. CASE Answered(d) /\ ~signedIn[d]
    <3>1. /\ forgotten' = [forgotten EXCEPT ![d] = @ \cup {Job(d)}] /\ Ended(d)
          /\ poll[d].pc = "sent" /\ job' = job
      BY <2>4 DEF Answered, At, Forgets, Outside, cloud
    <3>2. Job(d) \in Jobs
      BY <1>1, <3>1, BatchTail DEF DaemonInv, BatchInv
    <3>3. /\ forgotten' \in [Devices -> SUBSET Jobs] /\ forgotten'[d] = forgotten[d] \cup {Job(d)}
          /\ \A e \in Devices \ {d} : forgotten'[e] = forgotten[e]
      BY <1>1, <3>1, <3>2 DEF RestOk
    <3>4. poll' \in Polls /\ \A e \in Devices \ {d} : poll'[e] = poll[e]
      BY <1>1, <3>1, Stopped
    <3>5. DaemonInv(d)'
      BY <1>1, <1>2, <3>1, <3>3, Stops
    <3> QED BY <1>2, <3>3, <3>4, <3>5 DEF Same
  <2>5. CASE ReportRefused(d)
    <3>1. NextJob(d) /\ forgotten' = forgotten /\ job' = job /\ poll[d].pc = "report"
      BY <2>5 DEF ReportRefused, At, Outside, cloud, daemon
    <3>2. poll' \in Polls /\ \A e \in Devices \ {d} : poll'[e] = poll[e]
      BY <1>1, <3>1, Advanced DEF DaemonInv, BatchInv
    <3>3. DaemonInv(d)'
      BY <1>1, <1>2, <3>1, GoesOn
    <3> QED BY <1>1, <1>2, <3>1, <3>2, <3>3 DEF Same, RestOk
  <2>6. CASE ReportLost(d)
    <3>1. Ended(d) /\ forgotten' = forgotten /\ job' = job /\ poll[d].pc \in {"report", "reported"}
      BY <2>6 DEF ReportLost, Outside, cloud, daemon
    <3>2. poll' \in Polls /\ \A e \in Devices \ {d} : poll'[e] = poll[e]
      BY <1>1, <3>1, Stopped
    <3>3. DaemonInv(d)'
      BY <1>1, <1>2, <3>1, Stops
    <3> QED BY <1>1, <1>2, <3>1, <3>2, <3>3 DEF Same, RestOk
  <2>7. CASE ReportArrives(d)
    <3>1. /\ GoTo(d, "reported") /\ forgotten' = forgotten /\ poll[d].pc = "report"
          /\ HasEnded(Job(d))'
      BY <1>1, <2>7, ReportArrivesStep DEF ReportArrives, At, daemon, DaemonInv
    <3>2. poll[d].batch # <<>>
      BY <1>1, <3>1 DEF DaemonInv, BatchInv
    <3> QED BY <1>1, <1>2, <1>3, <3>1, <3>2, Walks DEF Steps, RestOk
  <2> QED BY <2>1, <2>2, <2>3, <2>4, <2>5, <2>6, <2>7
<1>5. RestOk'
  BY <1>1, <1>2, <1>4 DEF RestOk
<1> QED BY <1>3, <1>4, <1>5, Together

(* The session receives the feedback: for the first time, unless this      *)
(* daemon forgot that it had.                                              *)
LEMMA DeliveredInv == ASSUME IInv, NEW d \in Devices, Delivered(d) PROVE IInv'
<1>1. TypeOK /\ CloudOk /\ RestOk /\ DaemonInv(d)
  BY Typed DEF IInv
<1>2. /\ poll[d].pc = "send" /\ GoTo(d, "sent") /\ got' = [got EXCEPT ![d][Job(d)] = @ + 1]
      /\ UNCHANGED <<forgotten, pending, saved>> /\ job' = job /\ anno' = anno
      /\ UNCHANGED <<overdue, live, alive, known, signedIn>>
  BY DEF Delivered, At, cloud, daemon
<1>3. /\ poll[d].batch # <<>> /\ Job(d) \in Jobs /\ pending[d][Job(d)] = None
  BY <1>1, <1>2, BatchTail DEF DaemonInv, BatchInv, HandInv
<1>4. Listed(d, Job(d))
  BY <1>1, <1>3, BatchTail DEF Listed, Job
<1>5. /\ poll' \in Polls /\ poll'[d].pc = "sent" /\ poll'[d].batch = poll[d].batch
      /\ Job(d)' = Job(d) /\ \A e \in Devices \ {d} : poll'[e] = poll[e]
  BY <1>1, <1>2, Moves DEF Steps
<1>6. /\ got' \in [Devices -> [Jobs -> Nat]] /\ got'[d][Job(d)] = got[d][Job(d)] + 1
      /\ \A j \in Jobs \ {Job(d)} : got'[d][j] = got[d][j]
      /\ \A e \in Devices \ {d} : got'[e] = got[e]
      /\ \A j \in Jobs : got[d][j] \in Nat
  <2>1. got \in [Devices -> [Jobs -> Nat]]
    BY <1>1 DEF RestOk
  <2> QED BY <1>2, <1>3, <2>1
<1>7. BatchInv(d)'
  BY <1>1, <1>2, <1>5 DEF DaemonInv, BatchInv
<1>8. HandInv(d)'
  BY <1>3, <1>5, <1>6 DEF HandInv
<1>9. MemoryInv(d)'
  <2>1. ASSUME NEW j \in Jobs, got'[d][j] > 0, j \notin forgotten[d]
        PROVE  got'[d][j] = 1 /\ (pending[d][j] # None \/ Sending(d, j)' \/ (HasEnded(j)' /\ ~Listed(d, j)'))
    <3>1. CASE j = Job(d)
      <4>1. Sending(d, j)'
        BY <1>5, <3>1 DEF Sending
      <4>2. ~(got[d][j] > 0)
        BY <1>1, <1>2, <1>3, <1>4, <2>1, <3>1 DEF DaemonInv, MemoryInv, Sending
      <4> QED BY <1>3, <1>6, <3>1, <4>1, <4>2
    <3>2. CASE j # Job(d)
      <4>1. got[d][j] = 1 /\ (pending[d][j] # None \/ (HasEnded(j) /\ ~Listed(d, j)))
        BY <1>1, <1>2, <1>6, <2>1, <3>2 DEF DaemonInv, MemoryInv, Sending
      <4>2. (HasEnded(j) => HasEnded(j)') /\ (~Listed(d, j) => ~Listed(d, j)')
        BY <1>2, <1>5 DEF HasEnded, Listed
      <4> QED BY <1>6, <3>2, <4>1, <4>2
    <3> QED BY <3>1, <3>2
  <2>2. ASSUME NEW j \in Jobs, "sent" \in {pending[d][j], saved[d][j]} PROVE got'[d][j] > 0
    <3>1. got[d][j] > 0
      BY <1>1, <2>2 DEF DaemonInv, MemoryInv
    <3>2. got'[d][j] \in {got[d][j], got[d][j] + 1} /\ got[d][j] \in Nat
      BY <1>6
    <3> QED BY <3>1, <3>2
  <2> QED BY <1>2, <2>1, <2>2 DEF MemoryInv
<1>10. RestOk'
  BY <1>1, <1>2, <1>5, <1>6 DEF RestOk
<1>11. \A e \in Devices \ {d} : Same(e)
  BY <1>2, <1>5, <1>6 DEF Same
<1> QED BY <1>1, <1>2, <1>7, <1>8, <1>9, <1>10, <1>11, CloudStays, Together DEF DaemonInv

(* An end that is noted down, for a job in hand. *)
LEMMA NotesInv ==
    ASSUME IInv, NEW d \in Devices, poll[d].batch # <<>>,
           NEW s \in {"sent", "failed", "expired"}, Remember(d, Job(d), s), GoTo(d, "report"),
           s = "sent" => got[d][Job(d)] > 0,
           UNCHANGED <<job, anno, overdue, live, alive, got, signedIn, forgotten>>,
           known' \in [Devices -> SUBSET Plans]
    PROVE  IInv'
<1>1. TypeOK /\ CloudOk /\ RestOk /\ DaemonInv(d) /\ Job(d) \in Jobs
  BY Typed, BatchTail DEF IInv
<1>2. poll' \in Polls /\ \A e \in Devices \ {d} : poll'[e] = poll[e]
  BY <1>1, Moves DEF Steps
<1>3. /\ pending' \in [Devices -> Reports] /\ saved' \in [Devices -> Reports]
      /\ \A e \in Devices \ {d} : pending'[e] = pending[e] /\ saved'[e] = saved[e]
  BY <1>1, Remembers
<1>4. RestOk'
  BY <1>1, <1>2, <1>3 DEF RestOk
<1>5. \A e \in Devices \ {d} : Same(e)
  BY <1>2, <1>3 DEF Same
<1>6. DaemonInv(d)'
  BY <1>1, Notes
<1> QED BY <1>1, <1>4, <1>5, <1>6, CloudStays, Together

(* A poll that ends, whether or not it forgets the job it was sending. *)
LEMMA EndedInv ==
    ASSUME IInv, NEW d \in Devices, Ended(d),
           UNCHANGED <<job, anno, overdue, live, alive, got, signedIn, pending, saved>>,
           known' \in [Devices -> SUBSET Plans],
           IF poll[d].pc \in {"sent", "record"} THEN Forgets(d) ELSE forgotten' = forgotten
    PROVE  IInv'
<1>1. TypeOK /\ CloudOk /\ RestOk /\ DaemonInv(d)
  BY Typed DEF IInv
<1>2. poll' \in Polls /\ \A e \in Devices \ {d} : poll'[e] = poll[e]
  BY <1>1, Stopped
<1>3. /\ forgotten' \in [Devices -> SUBSET Jobs] /\ forgotten[d] \subseteq forgotten'[d]
      /\ poll[d].pc \in {"sent", "record"} => Job(d) \in forgotten'[d]
      /\ \A e \in Devices \ {d} : forgotten'[e] = forgotten[e]
  <2>1. CASE poll[d].pc \in {"sent", "record"}
    <3>1. Job(d) \in Jobs
      BY <1>1, <2>1, BatchTail DEF DaemonInv, BatchInv
    <3> QED BY <1>1, <2>1, <3>1 DEF RestOk, Forgets
  <2>2. CASE poll[d].pc \notin {"sent", "record"}
    BY <1>1, <2>2 DEF RestOk
  <2> QED BY <2>1, <2>2
<1>4. RestOk'
  BY <1>1, <1>2, <1>3 DEF RestOk
<1>5. \A e \in Devices \ {d} : Same(e)
  BY <1>2, <1>3 DEF Same
<1>6. DaemonInv(d)'
  BY <1>1, <1>3, Stops
<1> QED BY <1>1, <1>4, <1>5, <1>6, CloudStays, Together

(* What a scan for the session comes to. *)
LEMMA ScanEndsInv == ASSUME IInv, NEW d \in Devices, ScanEnds(d) PROVE IInv'
<1>1. TypeOK /\ CloudOk /\ RestOk /\ DaemonInv(d)
  BY Typed DEF IInv
<1>2. /\ poll[d].pc = "scan" /\ job' = job /\ anno' = anno
      /\ UNCHANGED <<overdue, live, alive, got, signedIn, forgotten>>
      /\ known' \in [Devices -> SUBSET Plans]
  BY <1>1 DEF ScanEnds, At, cloud, RestOk, Sessions
<1>3. poll[d].batch # <<>> /\ Job(d) \in Jobs /\ pending[d][Job(d)] = None
  BY <1>1, <1>2, BatchTail DEF DaemonInv, BatchInv, HandInv
<1>4. CASE Ended(d) /\ UNCHANGED <<pending, saved>>
  BY <1>2, <1>4, EndedInv
<1>5. CASE GoTo(d, "send") /\ UNCHANGED <<pending, saved>>
  <2>1. CloudOk' /\ Forward
    BY <1>1, <1>2, CloudStays
  <2>2. poll' \in Polls /\ (\A e \in Devices \ {d} : Same(e)) /\ DaemonInv(d)'
    BY <1>1, <1>2, <1>3, <1>5, <2>1, Walks DEF Steps
  <2>3. RestOk'
    BY <1>1, <1>2, <1>5, <2>2 DEF RestOk
  <2> QED BY <2>1, <2>2, <2>3, Together
<1>6. CASE NextJob(d) /\ UNCHANGED <<pending, saved>>
  <2>1. CloudOk' /\ Forward
    BY <1>1, <1>2, CloudStays
  <2>2. poll' \in Polls /\ \A e \in Devices \ {d} : poll'[e] = poll[e]
    BY <1>1, <1>3, <1>6, Advanced
  <2>3. DaemonInv(d)'
    BY <1>1, <1>2, <1>6, GoesOn
  <2>4. RestOk' /\ \A e \in Devices \ {d} : Same(e)
    BY <1>1, <1>2, <1>6, <2>2 DEF RestOk, Same
  <2> QED BY <2>1, <2>3, <2>4, Together
<1>7. CASE GoTo(d, "report") /\ Remember(d, Job(d), "failed")
  BY <1>2, <1>3, <1>7, NotesInv
<1> QED BY <1>4, <1>5, <1>6, <1>7 DEF ScanEnds

(* A report the cloud has: the job ended, and may be forgotten. *)
LEMMA ReportedInv == ASSUME IInv, NEW d \in Devices, Reported(d) PROVE IInv'
<1>1. TypeOK /\ CloudOk /\ RestOk /\ DaemonInv(d)
  BY Typed DEF IInv
<1>2. /\ poll[d].pc = "reported" /\ job' = job /\ anno' = anno
      /\ UNCHANGED <<overdue, live, alive, got, known, signedIn, forgotten>>
  BY DEF Reported, At, cloud, Outside
<1>3. poll[d].batch # <<>> /\ Job(d) \in Jobs /\ HasEnded(Job(d))
  BY <1>1, <1>2, BatchTail DEF DaemonInv, BatchInv, HandInv
<1>4. CASE signedIn[d]
  <2>1. NextJob(d) /\ Remember(d, Job(d), None)
    BY <1>4 DEF Reported
  <2>2. /\ pending' \in [Devices -> Reports] /\ saved' \in [Devices -> Reports]
        /\ pending'[d][Job(d)] = None
        /\ \A i \in Jobs \ {Job(d)} : pending'[d][i] = pending[d][i]
        /\ \A i \in Jobs : saved'[d][i] \in {saved[d][i], pending'[d][i]}
        /\ \A e \in Devices \ {d} : pending'[e] = pending[e] /\ saved'[e] = saved[e]
    BY <1>1, <1>3, <2>1, Remembers
  <2>3. poll' \in Polls /\ \A e \in Devices \ {d} : poll'[e] = poll[e]
    BY <1>1, <1>3, <2>1, Advanced
  <2>4. DaemonInv(d)'
    BY <1>1, <1>2, <1>3, <2>1, <2>2, GoesOn
  <2>5. RestOk' /\ \A e \in Devices \ {d} : Same(e)
    BY <1>1, <1>2, <2>2, <2>3 DEF RestOk, Same
  <2> QED BY <1>1, <1>2, <2>4, <2>5, CloudStays, Together
<1>5. CASE ~signedIn[d]
  <2>1. Ended(d) /\ UNCHANGED <<pending, saved>>
    BY <1>5 DEF Reported
  <2> QED BY <1>1, <1>2, <2>1, EndedInv DEF RestOk
<1> QED BY <1>4, <1>5

(* A job found to have lapsed keeps the invariant. *)
LEMMA HandleOverdueInv == ASSUME IInv, NEW d \in Devices, HandleOverdue(d) PROVE IInv'
<1>1. /\ poll[d].batch # <<>> /\ Remember(d, Job(d), "expired") /\ GoTo(d, "report")
      /\ UNCHANGED <<job, anno, overdue, live, alive, got, known, signedIn, forgotten>>
  BY DEF HandleOverdue, InHand, Outside, cloud
<1>2. known' \in [Devices -> SUBSET Plans]
  BY <1>1 DEF IInv, TypeOK
<1> QED BY <1>1, <1>2, NotesInv

(* A delivery that is recorded keeps the invariant. *)
LEMMA RecordsInv == ASSUME IInv, NEW d \in Devices, Records(d) PROVE IInv'
<1>1. /\ poll[d].pc = "record"
      /\ UNCHANGED <<job, anno, overdue, live, alive, got, known, signedIn>>
  BY DEF Records, At, Outside, cloud
<1>2. /\ known' \in [Devices -> SUBSET Plans]
      /\ poll[d].batch # <<>> /\ got[d][Job(d)] > 0
  BY <1>1 DEF IInv, TypeOK, DaemonInv, BatchInv, HandInv
<1>3. CASE signedIn[d]
  BY <1>1, <1>2, <1>3, NotesInv DEF Records
<1>4. CASE ~signedIn[d]
  BY <1>1, <1>2, <1>4, EndedInv DEF Records
<1> QED BY <1>3, <1>4

(* A delivery that fails keeps the invariant. *)
LEMMA SendFailsInv == ASSUME IInv, NEW d \in Devices, SendFails(d) PROVE IInv'
<1>1. /\ poll[d].pc \in {"send", "sent"}
      /\ UNCHANGED <<job, anno, overdue, live, alive, got, known, signedIn>>
  BY DEF SendFails, At, Outside, cloud
<1>2. known' \in [Devices -> SUBSET Plans] /\ poll[d].batch # <<>>
  BY <1>1 DEF IInv, TypeOK, DaemonInv, BatchInv
<1>3. CASE signedIn[d]
  <2>1. forgotten' = forgotten /\ Remember(d, Job(d), "failed") /\ GoTo(d, "report")
    BY <1>3 DEF SendFails
  <2> QED BY <1>1, <1>2, <2>1, NotesInv
<1>4. CASE ~signedIn[d]
  <2>1. /\ Ended(d) /\ UNCHANGED <<pending, saved>>
        /\ IF poll[d].pc \in {"sent", "record"} THEN Forgets(d) ELSE forgotten' = forgotten
    BY <1>1, <1>4 DEF SendFails, At
  <2> QED BY <1>1, <1>2, <2>1, EndedInv
<1> QED BY <1>3, <1>4

(* Every step keeps the invariant. *)
LEMMA StepInv == IInv /\ [Next]_vars => IInv'
<1> SUFFICES ASSUME IInv, [Next]_vars PROVE IInv'
  OBVIOUS
<1>1. CASE Owner
  BY <1>1, OwnerInv
<1>2. CASE Environment
  BY <1>2, OutsideInv, RestartInv DEF Environment
<1>3. ASSUME NEW d \in Devices, PollStarts(d) \/ Poll(d) PROVE IInv'
  BY <1>3, FetchInv, QuietInv, DeliveredInv, ScanEndsInv, ReportedInv, HandleOverdueInv,
     RecordsInv, SendFailsInv DEF Poll
<1>4. CASE UNCHANGED vars
  <2>1. TypeOK /\ Carried /\ CloudOk /\ RestOk
    BY Typed DEF IInv
  <2>2. CloudOk' /\ Forward
    BY <1>4, <2>1, CloudStays DEF vars, cloud
  <2>3. RestOk' /\ \A e \in Devices : Same(e)
    BY <1>4, <2>1 DEF vars, daemon, RestOk, Same
  <2>4. PICK x : x \notin Devices
    BY DevicesAssumption
  <2> QED BY <2>2, <2>3, <2>4, Together
<1> QED BY <1>1, <1>2, <1>3, <1>4 DEF Next

(* Every run of the cloud and its daemons keeps the inductive invariant    *)
(* (plannotator.ts, annotations.ts and the write-back half of daemon.ts).  *)
THEOREM WritebackInvariant == Spec => []IInv
BY InitInv, StepInv, PTL DEF Spec

(* An annotation that says "submitted" is on its way or was sent, for any  *)
(* number of jobs, sessions and daemons (reopenWritebackAnnotations gives  *)
(* back what a job that failed, lapsed or was replaced had taken).         *)
THEOREM CarriedAlways == Spec => []SubmittedIsCarried
<1>1. IInv => SubmittedIsCarried
  BY DEF IInv, Carried, SubmittedIsCarried
<1> QED BY <1>1, WritebackInvariant, PTL

(* A daemon delivers a job a second time only if it lost the memory of the *)
(* first (pendingWritebackReports, daemon.ts): no order of polls, lapses,  *)
(* refused reports and jobs moved between sessions repeats feedback.       *)
THEOREM OnceAlways == Spec => []DeliveredOnce
<1>1. IInv => DeliveredOnce
  <2> SUFFICES ASSUME IInv, NEW d \in Devices, NEW j \in Jobs, got[d][j] > 1
               PROVE  j \in forgotten[d]
    BY DEF DeliveredOnce
  <2>1. got[d][j] \in Nat
    BY DEF IInv, TypeOK
  <2>2. got[d][j] > 0 /\ got[d][j] # 1
    BY <2>1
  <2> QED BY <2>2 DEF IInv, DaemonInv, MemoryInv
<1> QED BY <1>1, WritebackInvariant, PTL

-----------------------------------------------------------------------------
(* The outbox that the owner is promised *)

Box == [j \in Jobs |-> job[j].status]

(* A step that delivers and ends nothing is none of the outbox. *)
LEMMA StutterPromised ==
    ASSUME got' = got, \A j \in Jobs : job'[j].status = job[j].status
    PROVE  [Promise!Next]_(Promise!vars)
<1>1. Box' = Box /\ Received' = Received
  BY DEF Box, Received
<1> QED BY <1>1 DEF Promise!vars, Box

(* A new job is taken by the outbox. *)
LEMMA EnqueuePromised ==
    ASSUME TypeOK, NEW j \in Jobs, NEW p \in Plans, NEW t \in Devices \cup {NoDevice},
           NEW as \in SUBSET Annotations, Enqueue(j, p, t, as)
    PROVE  Promise!Next
<1> DEFINE earlier == PendingOn({p, Current(p)})
           new == [status |-> "pending", plan |-> Current(p), device |-> t, annos |-> as]
           moved(i) == [job[i] EXCEPT !.status = "expired", !.plan = Current(p)]
<1>1. /\ job[j].status = "none" /\ got' = got
      /\ earlier \in SUBSET Jobs /\ \A i \in earlier : job[i].status = "pending"
      /\ job' = [i \in Jobs |-> IF i = j THEN new ELSE IF i \in earlier THEN moved(i) ELSE job[i]]
  BY DEF Enqueue, PendingOn
<1>2. new.status = "pending" /\ \A i \in Jobs : moved(i).status = "expired"
  BY DEF TypeOK
<1> HIDE DEF earlier, new, moved
<1>3. Box' = [i \in Jobs |-> IF i = j THEN "pending" ELSE IF i \in earlier THEN "expired" ELSE Box[i]]
  BY <1>1, <1>2 DEF Box
<1>4. Received' = Received
  BY <1>1 DEF Received
<1>5. \E lapsed \in SUBSET Jobs : Promise!Take(j, lapsed)
  BY <1>1, <1>3, <1>4 DEF Promise!Take, Box
<1> QED BY <1>5 DEF Promise!Next

(* The sweep is its lapse of several jobs. *)
LEMMA SweepPromised ==
    ASSUME TypeOK, NEW d \in Devices, FetchExpires(d)
    PROVE  Promise!Next
<1> DEFINE S == {j \in overdue : job[j].status = "pending"}
<1>1. /\ S \in SUBSET Jobs /\ got' = got
      /\ job' = [j \in Jobs |-> IF j \in S THEN [job[j] EXCEPT !.status = "expired"] ELSE job[j]]
  BY DEF TypeOK, FetchExpires, MarkExpired
<1>2. \A j \in Jobs : [job[j] EXCEPT !.status = "expired"].status = "expired"
  BY DEF TypeOK
<1>3. \A i \in S : job[i].status = "pending"
  OBVIOUS
<1> HIDE DEF S
<1>4. Box' = [i \in Jobs |-> IF i \in S THEN "expired" ELSE Box[i]]
  BY <1>1, <1>2 DEF Box
<1>5. Received' = Received
  BY <1>1 DEF Received
<1>6. \E lapsed \in SUBSET Jobs : Promise!Sweep(lapsed)
  BY <1>1, <1>3, <1>4, <1>5 DEF Promise!Sweep, Box
<1> QED BY <1>6 DEF Promise!Next

(* A delivery is one of the outbox. *)
LEMMA ArrivePromised ==
    ASSUME IInv, NEW d \in Devices, Delivered(d)
    PROVE  Promise!Next
<1>1. /\ poll[d].pc = "send" /\ job' = job /\ got' = [got EXCEPT ![d][Job(d)] = @ + 1]
      /\ got \in [Devices -> [Jobs -> Nat]] /\ TypeOK /\ DaemonInv(d)
  BY DEF Delivered, At, cloud, IInv, TypeOK
<1>2. poll[d].batch # <<>> /\ Job(d) \in Jobs
  BY <1>1, BatchTail DEF DaemonInv, BatchInv
<1>3. job[Job(d)].status # "none"
  BY <1>1, <1>2, BatchTail DEF DaemonInv, BatchInv, Job
<1>4. Received' = Received \cup {Job(d)}
  <2>1. \A e \in Devices, j \in Jobs :
          got'[e][j] = IF e = d /\ j = Job(d) THEN got[e][j] + 1 ELSE got[e][j]
    BY <1>1, <1>2
  <2>2. ASSUME NEW j \in Jobs PROVE (\E e \in Devices : got'[e][j] > 0)
                                     <=> (j = Job(d) \/ \E e \in Devices : got[e][j] > 0)
    BY <1>1, <2>1
  <2> QED BY <1>2, <2>2 DEF Received
<1>5. Box' = Box
  BY <1>1 DEF Box
<1>6. Promise!Arrive(Job(d))
  BY <1>2, <1>3, <1>4, <1>5 DEF Promise!Arrive, Box
<1> QED BY <1>2, <1>6 DEF Promise!Next

(* A report ends a job of the outbox. *)
LEMMA EndPromised ==
    ASSUME IInv, NEW d \in Devices, ReportArrives(d)
    PROVE  [Promise!Next]_(Promise!vars)
<1> DEFINE j == Job(d)
           s == pending[d][Job(d)]
<1>1. /\ poll[d].pc = "report" /\ ReportStatus(j, s) /\ got' = got
      /\ TypeOK /\ DaemonInv(d)
  BY DEF ReportArrives, At, IInv
<1>2. poll[d].batch # <<>> /\ j \in Jobs /\ s # None
  BY <1>1, BatchTail DEF DaemonInv, BatchInv, HandInv
<1>3. s \in {"sent", "failed", "expired"}
  <2>1. pending[d] \in Reports
    BY <1>1 DEF TypeOK
  <2> QED BY <1>2, <2>1 DEF Reports
<1>4. s = "sent" => j \in Received
  BY <1>1, <1>2 DEF DaemonInv, MemoryInv, Received
<1> HIDE DEF j, s
<1>5. CASE job[j].status # "pending"
  <2>1. job' = job
    BY <1>1, <1>5 DEF ReportStatus, cloud
  <2> QED BY <1>1, <2>1, StutterPromised
<1>6. CASE job[j].status = "pending"
  <2>1. job' = [job EXCEPT ![j].status = s] /\ job \in [Jobs -> JobRow]
    BY <1>1, <1>6 DEF ReportStatus, TypeOK, JobRow
  <2>2. \A i \in Jobs : job'[i].status = IF i = j THEN s ELSE job[i].status
    BY <2>1 DEF JobRow
  <2>3. Box' = [Box EXCEPT ![j] = s]
    BY <2>2 DEF Box
  <2>4. Received' = Received
    BY <1>1 DEF Received
  <2>5. \E i \in Jobs, end \in Promise!Ends : Promise!End(i, end)
    BY <1>2, <1>3, <1>4, <1>6, <2>3, <2>4 DEF Promise!End, Promise!Ends, Box
  <2> QED BY <2>5 DEF Promise!Next
<1> QED BY <1>5, <1>6

(* What the owner does is a step of the outbox or none. *)
LEMMA OwnerPromised == ASSUME IInv, Owner PROVE [Promise!Next]_(Promise!vars)
<1>1. CASE \E j \in Jobs, p \in Plans, t \in Devices \cup {NoDevice}, as \in SUBSET Annotations : Enqueue(j, p, t, as)
  BY <1>1, EnqueuePromised DEF IInv
<1>2. CASE \E a \in Annotations, j \in Jobs : MarkSubmitted(a, j)
  <2>1. PICK a \in Annotations, j \in Jobs :
          got' = got /\ job' = [job EXCEPT ![j].annos = @ \cup {a}]
    BY <1>2 DEF MarkSubmitted
  <2>2. job \in [Jobs -> JobRow]
    BY DEF IInv, TypeOK, JobRow
  <2>3. \A i \in Jobs : job'[i].status = job[i].status
    BY <2>1, <2>2 DEF JobRow
  <2> QED BY <2>1, <2>3, StutterPromised
<1>3. CASE \/ \E a \in Annotations, p \in Plans : CreateAnnotation(a, p)
           \/ \E a \in Annotations, s \in {"open", "resolved"} : UpdateAnnotation(a, s)
           \/ \E a \in Annotations : DeleteAnnotation(a)
  <2>1. got' = got /\ job' = job
    BY <1>3 DEF CreateAnnotation, UpdateAnnotation, DeleteAnnotation, OwnerEdits
  <2> QED BY <2>1, StutterPromised
<1> QED BY <1>1, <1>2, <1>3 DEF Owner

(* So is what sessions and time do, *)
LEMMA EnvironmentPromised == ASSUME IInv, Environment PROVE [Promise!Next]_(Promise!vars)
<1>1. CASE \E d \in Devices, p \in Plans : UploadLive(d, p)
  <2>1. PICK d \in Devices, p \in Plans : got' = got /\ job' = JobsMovedTo(p)
    BY <1>1 DEF UploadLive
  <2>2. \A i \in Jobs : job'[i].status = job[i].status
    <3>1. \A i \in Jobs : job'[i] \in {job[i], [job[i] EXCEPT !.plan = p]}
      BY <2>1 DEF JobsMovedTo
    <3>2. \A i \in Jobs : job[i] \in JobRow
      BY DEF IInv, TypeOK, JobRow
    <3> QED BY <3>1, <3>2 DEF JobRow
  <2> QED BY <2>1, <2>2, StutterPromised
<1>2. CASE ~(\E d \in Devices, p \in Plans : UploadLive(d, p))
  <2>1. got' = got /\ job' = job
    BY <1>2 DEF Environment, Lapse, SessionStarts, SessionEnds, Rescan, SignOut, SignIn,
                Restart, UploadEnded, cloud
  <2> QED BY <2>1, StutterPromised
<1> QED BY <1>1, <1>2

(* and every step of a poll. *)
LEMMA PollPromised ==
    ASSUME IInv, NEW d \in Devices, PollStarts(d) \/ Poll(d)
    PROVE  [Promise!Next]_(Promise!vars)
<1>1. CASE FetchExpires(d)
  BY <1>1, SweepPromised DEF IInv
<1>2. CASE Delivered(d)
  BY <1>2, ArrivePromised
<1>3. CASE ReportArrives(d)
  BY <1>3, EndPromised
<1>4. CASE ~FetchExpires(d) /\ ~Delivered(d) /\ ~ReportArrives(d)
  <2>1. got' = got /\ job' = job
    BY <1>4 DEF Poll, PollStarts, FetchQueries, FetchFails, PollEnds, HandleRemembered,
                HandleOverdue, HandleFresh, ScanEnds, Answered, Records, SendFails,
                ReportRefused, ReportLost, Reported, Outside, cloud
  <2> QED BY <2>1, StutterPromised
<1> QED BY <1>1, <1>2, <1>3, <1>4

(* The cloud and its daemons are an outbox: feedback is taken once, ends   *)
(* once, and is said to be sent only when a session has it                 *)
(* (reportWritebackStatus, markExpiredWritebacks, enqueueWriteback).       *)
THEOREM OutboxRefined == Spec => RefinesOutbox
<1>1. Init => Promise!Init
  <2> SUFFICES ASSUME Init PROVE Promise!Init
    OBVIOUS
  <2>1. Box = [j \in Jobs |-> "none"]
    BY DEF Init, Box, NoJob
  <2>2. Received = {}
    BY DEF Init, Received
  <2> QED BY <2>1, <2>2 DEF Promise!Init, Box
<1>2. IInv /\ [Next]_vars => [Promise!Next]_(Promise!vars)
  <2> SUFFICES ASSUME IInv, [Next]_vars PROVE [Promise!Next]_(Promise!vars)
    OBVIOUS
  <2>1. CASE UNCHANGED vars
    BY <2>1, StutterPromised DEF vars, cloud
  <2> QED BY <2>1, OwnerPromised, EnvironmentPromised, PollPromised DEF Next
<1> QED BY <1>1, <1>2, WritebackInvariant, PTL DEF Spec, RefinesOutbox, Promise!Spec
=============================================================================
