-------------------------- MODULE PlanSyncProofs ---------------------------
(***************************************************************************)
(* Theorems about both ends of a plan upload: the cloud's plans, for any   *)
(* number of requests, devices, plans and versions, and the daemon's       *)
(* worker, for any number of plans, accounts, saves and retries.           *)
(*                                                                         *)
(* The cloud.  Whatever a request or a handler of the web app does to      *)
(* rows, history and reads is one of six steps (PlanStep).  The invariant  *)
(* of those three (PlansInv) is shown for the six steps, and that every    *)
(* action takes one of them from what its requests know (RequestsInv).     *)
(*                                                                         *)
(* The worker.  What is listed and pushed is first shown by induction over *)
(* sets of numbers.  The invariant (WorkerInv) then follows an upload from *)
(* the queue to the order memory; its last part needs that the account     *)
(* changes only where the code looks again (ScopeHolds).                   *)
(***************************************************************************)
EXTENDS CloudPlans, SyncWorker, FiniteSetTheorems, FunctionTheorems, SequenceTheorems, TLAPS

-----------------------------------------------------------------------------
(* The cloud's plans *)

Version == [version : Nat \ {0}, text : Texts]

(* The history h is that of a row which says `text` in `version`: one      *)
(* entry out of the retention window at most, which only a read can keep.  *)
Describes(h, version, text) ==
    /\ [version |-> version, text |-> text] \in h
    /\ \A e \in h : e.version <= version
    /\ \A e, f \in h : e.version = f.version => e = f
    /\ \A e, f \in h :
          e.version <= version - Retention /\ f.version <= version - Retention => e = f

PlansInv ==
    /\ rows \in [RowIds -> Row \cup {Unborn, Gone}]
    /\ history \in [RowIds -> SUBSET Version]
    /\ lastRead \in [RowIds -> Version \cup {Unread}]
    /\ OneRowPerLocal
    /\ \A r \in Live : Describes(history[r], rows[r].version, rows[r].text)
    /\ BaselineIsKept
    /\ \A r \in RowIds \ Live : history[r] = {} /\ lastRead[r] = Unread

RequestsInv ==
    /\ reqs \in [Requests -> Request]
    /\ now \in Nat
    /\ \A q \in Requests : reqs[q].pc = "found" => rows[reqs[q].id] # Unborn

IInv == PlansInv /\ RequestsInv

-----------------------------------------------------------------------------
(* What a step may do to rows, history and reads *)

(* Row r gets other fields; what it says stays. *)
Patch(r, row) ==
    /\ rows' = [rows EXCEPT ![r] = row]
    /\ row.local = rows[r].local /\ row.version = rows[r].version /\ row.text = rows[r].text
    /\ UNCHANGED <<history, lastRead>>

First1(row) == row.version = 1 /\ WithLocal(row.local) = {} /\ Insert(row)

NewText(r, row, text) == row.local = rows[r].local /\ Rewrite(r, row, text)

ReadNow(r) ==
    /\ lastRead' \in {[lastRead EXCEPT ![r] = Unread],
                      [lastRead EXCEPT ![r] = [version |-> rows[r].version, text |-> rows[r].text]]}
    /\ UNCHANGED <<rows, history>>

PlanStep ==
    \/ KeepPlans
    \/ \E row \in Row : First1(row)
    \/ \E r \in Live, row \in Row : Patch(r, row)
    \/ \E r \in Live, row \in Row, text \in Texts : NewText(r, row, text)
    \/ \E r \in Live : DeleteRow(r)
    \/ \E r \in Live : ReadNow(r)

(* What a step leaves for the requests that wait: no row is unborn again,  *)
(* and no recorded version says something else.                            *)
Lasting ==
    /\ \A r \in RowIds : rows[r] # Unborn => rows'[r] # Unborn
    /\ \A r \in RowIds : \A e \in history[r], f \in history'[r] : e.version = f.version => e = f

-----------------------------------------------------------------------------
(* Retention *)

(* The oldest of a set are part of it. *)
LEMMA OldestIsPart ==
    ASSUME NEW S, NEW n
    PROVE  Oldest(S, n) \subseteq S
BY DEF Oldest

(* A retention pass only removes entries out of the window and never the   *)
(* protected one.                                                          *)
LEMMA PrunedKeeps ==
    ASSUME NEW h \in SUBSET Version, NEW latest \in Nat, NEW protected
    PROVE  /\ Pruned(h, latest, protected) \subseteq h
           /\ \A e \in h : e.version = protected \/ e.version = latest
                             => e \in Pruned(h, latest, protected)
<1> DEFINE out == {e \in h : e.version <= latest - Retention}
           candidates == Oldest(out, PruneBatch + 1)
           removed == Oldest({e \in candidates : e.version # protected}, PruneBatch)
<1>1. Pruned(h, latest, protected) = h \ removed
  BY DEF Pruned
<1>2. removed \subseteq {e \in candidates : e.version # protected} /\ candidates \subseteq out
  BY OldestIsPart
<1>3. \A e \in out : e.version # latest
  BY RetentionAssumption DEF Version
<1> QED
  BY <1>1, <1>2, <1>3

(* What is out of the window is small enough to be looked at as a whole.   *)
LEMMA FewAreOldest ==
    ASSUME NEW S, NEW n \in Nat, n >= 2,
           \A e, f, g \in S : f.version < e.version /\ g.version < e.version => f = g
    PROVE  Oldest(S, n) = S
<1> SUFFICES ASSUME NEW e \in S
             PROVE  Cardinality({f \in S : f.version < e.version}) < n
  BY DEF Oldest
<1> DEFINE below == {f \in S : f.version < e.version}
<1>1. below = {} \/ \E f : below = {f}
  <2>1. \A f, g \in below : f = g
    OBVIOUS
  <2> HIDE DEF below
  <2> QED
    BY <2>1
<1>2. Cardinality(below) \in {0, 1}
  BY <1>1, FS_EmptySet, FS_Singleton
<1> QED
  BY <1>2

(* So a pass over a history that gained one version leaves nothing out of  *)
(* the window but the protected version.                                   *)
LEMMA PrunedToWindow ==
    ASSUME NEW h \in SUBSET Version, NEW latest \in Nat, NEW protected,
           \A e, f, g \in h :
              /\ e.version <= latest - Retention
              /\ f.version < e.version /\ g.version < e.version
              => f = g
    PROVE  \A e \in Pruned(h, latest, protected) :
              e.version <= latest - Retention => e.version = protected
<1> DEFINE out == {e \in h : e.version <= latest - Retention}
           candidates == Oldest(out, PruneBatch + 1)
           offered == {e \in candidates : e.version # protected}
<1>1. candidates = out
  <2>1. PruneBatch + 1 \in Nat /\ PruneBatch + 1 >= 2
    BY RetentionAssumption
  <2> QED
    BY <2>1, FewAreOldest
<1>2. Oldest(offered, PruneBatch) = offered
  <2>1. PruneBatch \in Nat /\ PruneBatch >= 2
    BY RetentionAssumption
  <2>2. offered \subseteq out
    BY <1>1
  <2> QED
    BY <2>1, <2>2, FewAreOldest
<1>3. Pruned(h, latest, protected) = h \ Oldest(offered, PruneBatch)
  BY DEF Pruned
<1> QED
  BY <1>1, <1>2, <1>3

(* Recording a version keeps it and the protected one, and adds nothing    *)
(* else.                                                                   *)
LEMMA RecordedKeeps ==
    ASSUME NEW h \in SUBSET Version, NEW version \in Nat \ {0}, NEW text \in Texts, NEW protected
    PROVE  /\ Recorded(h, version, text, protected) \in SUBSET Version
           /\ Recorded(h, version, text, protected)
                \subseteq h \cup {[version |-> version, text |-> text]}
           /\ [version |-> version, text |-> text] \in Recorded(h, version, text, protected)
           /\ \A e \in h : e.version = protected => e \in Recorded(h, version, text, protected)
<1> DEFINE new == [version |-> version, text |-> text]
           all == h \cup {new}
<1>1. new \in Version /\ all \in SUBSET Version /\ new.version = version
  BY DEF Version
<1>2. Recorded(h, version, text, protected) = Pruned(all, version, protected)
  BY DEF Recorded
<1>3. /\ Pruned(all, version, protected) \subseteq all
      /\ \A e \in all : e.version = protected \/ e.version = version
                          => e \in Pruned(all, version, protected)
  BY <1>1, PrunedKeeps
<1> QED
  BY <1>1, <1>2, <1>3

-----------------------------------------------------------------------------
(* The six steps *)

(* A new version over a history that describes the older one.              *)
LEMMA NextVersion ==
    ASSUME NEW h \in SUBSET Version, NEW version \in Nat \ {0}, NEW old, NEW text \in Texts,
           NEW protected, Describes(h, version, old)
    PROVE  /\ Recorded(h, version + 1, text, protected) \in SUBSET Version
           /\ Describes(Recorded(h, version + 1, text, protected), version + 1, text)
           /\ \A e \in h : e.version = protected => e \in Recorded(h, version + 1, text, protected)
           /\ \A e \in h, f \in Recorded(h, version + 1, text, protected) :
                 e.version = f.version => e = f
<1> DEFINE new == [version |-> version + 1, text |-> text]
           H == Recorded(h, version + 1, text, protected)
<1>1. version + 1 \in Nat \ {0}
  OBVIOUS
<1>2. /\ H \in SUBSET Version
      /\ H \subseteq h \cup {new}
      /\ new \in H
      /\ \A e \in h : e.version = protected => e \in H
  BY <1>1, RecordedKeeps
<1>3. \A e \in h : e.version \in Nat /\ e.version < version + 1
  BY DEF Describes, Version
<1>4. new.version = version + 1
  OBVIOUS
<1>5. \A e \in h, f \in H : e.version = f.version => e = f
  BY <1>2, <1>3, <1>4 DEF Describes
<1>6. \A e, f \in H : e.version = f.version => e = f
  BY <1>2, <1>3, <1>4, <1>5
<1>7. \A e \in H : e.version <= version + 1
  BY <1>2, <1>3, <1>4
<1>8. \A e \in H : e.version <= version + 1 - Retention => e.version = protected
  <2> DEFINE all == h \cup {new}
             v == version + 1
  <2>1. all \in SUBSET Version /\ H = Pruned(all, version + 1, protected)
    BY <1>1 DEF Version, Recorded
  <2>2. \A e \in all : e.version < version + 1 => e \in h
    OBVIOUS
  <2>3. \A e, f \in all : e.version <= version + 1 - Retention /\ f.version < e.version
                             => f \in h /\ f.version <= version - Retention
    BY <1>3, <1>4, <2>2, RetentionAssumption DEF Version
  <2>4. \A e, f, g \in all :
           /\ e.version <= version + 1 - Retention
           /\ f.version < e.version /\ g.version < e.version
           => f = g
    BY <2>3 DEF Describes
  <2>5. v \in Nat
    OBVIOUS
  <2> HIDE DEF all, H, v
  <2>6. ASSUME all \in SUBSET Version, H = Pruned(all, v, protected),
               \A e, f, g \in all : /\ e.version <= v - Retention
                                    /\ f.version < e.version /\ g.version < e.version
                                    => f = g
        PROVE  \A e \in H : e.version <= v - Retention => e.version = protected
    BY <2>5, <2>6, PrunedToWindow
  <2> QED
    BY <1>2, <2>1, <2>4, <2>6, RetentionAssumption DEF v, Version
<1>9. \A e, f \in H : /\ e.version <= version + 1 - Retention
                     /\ f.version <= version + 1 - Retention
                     => e = f
  BY <1>6, <1>8
<1> HIDE DEF H
<1>10. Describes(H, version + 1, text)
  <2> DEFINE v == version + 1
  <2>1. /\ [version |-> v, text |-> text] \in H
        /\ \A e \in H : e.version <= v
        /\ \A e, f \in H : e.version <= v - Retention /\ f.version <= v - Retention => e = f
    BY <1>2, <1>7, <1>9, RetentionAssumption DEF Version
  <2> HIDE DEF v
  <2>2. Describes(H, v, text)
    BY <1>6, <2>1 DEF Describes
  <2> QED
    BY <2>2 DEF v
<1> QED
  BY <1>2, <1>5, <1>10 DEF H

(* The first version of a plan describes it. *)
LEMMA FirstVersion ==
    ASSUME NEW text \in Texts
    PROVE  /\ Recorded({}, 1, text, 0) \in SUBSET Version
           /\ Describes(Recorded({}, 1, text, 0), 1, text)
<1> DEFINE H == Recorded({}, 1, text, 0)
<1>1. H \in SUBSET Version /\ H \subseteq {[version |-> 1, text |-> text]}
      /\ [version |-> 1, text |-> text] \in H
  BY RecordedKeeps
<1> HIDE DEF H
<1>2. Describes(H, 1, text)
  BY <1>1 DEF Describes
<1> QED
  BY <1>1, <1>2 DEF H

(* A row is live exactly when it holds a plan. *)
LEMMA LiveRows ==
    ASSUME PlansInv, NEW r \in RowIds
    PROVE  r \in Live <=> rows[r] \in Row
BY LifeAssumption DEF PlansInv, Live

(* An insertion keeps the invariant of the tables. *)
LEMMA InsertStep ==
    ASSUME PlansInv, NEW row \in Row, First1(row)
    PROVE  PlansInv' /\ Lasting
<1>1. PICK n \in RowIds :
         /\ rows[n] = Unborn
         /\ rows' = [rows EXCEPT ![n] = row]
         /\ history' = [history EXCEPT ![n] = Recorded({}, 1, row.text, 0)]
         /\ lastRead' = lastRead
         /\ row.version = 1
         /\ \A r \in Live : rows[r].local # row.local
  BY DEF First1, Insert, IsFirst, WithLocal
<1>2. row.text \in Texts
  BY DEF Row
<1> DEFINE H == Recorded({}, 1, row.text, 0)
<1>3. H \in SUBSET Version /\ Describes(H, 1, row.text)
  BY <1>2, FirstVersion
<1> HIDE DEF H
<1>4. /\ n \notin Live /\ Live' = Live \cup {n} /\ rows'[n] = row
      /\ \A r \in RowIds \ {n} : rows'[r] = rows[r] /\ history'[r] = history[r]
      /\ history'[n] = H /\ history[n] = {} /\ lastRead[n] = Unread
  BY <1>1, LifeAssumption DEF PlansInv, Live, H
<1>5. /\ rows' \in [RowIds -> Row \cup {Unborn, Gone}]
      /\ history' \in [RowIds -> SUBSET Version]
      /\ lastRead' \in [RowIds -> Version \cup {Unread}]
  BY <1>1, <1>3 DEF PlansInv, H
<1>6. OneRowPerLocal'
  BY <1>1, <1>4 DEF PlansInv, OneRowPerLocal, Live
<1>7. \A r \in Live' : Describes(history'[r], rows'[r].version, rows'[r].text)
  BY <1>1, <1>3, <1>4 DEF PlansInv, Live
<1>8. BaselineIsKept'
  BY <1>1, <1>4 DEF PlansInv, BaselineIsKept, Live
<1>9. \A r \in RowIds \ Live' : history'[r] = {} /\ lastRead'[r] = Unread
  BY <1>1, <1>4 DEF PlansInv
<1>10. Lasting
  BY <1>1, <1>4, LifeAssumption DEF Lasting, PlansInv, Live, Describes
<1> QED
  BY <1>5, <1>6, <1>7, <1>8, <1>9, <1>10 DEF PlansInv

(* A patch that leaves the text keeps it. *)
LEMMA PatchStep ==
    ASSUME PlansInv, NEW n \in Live, NEW row \in Row, Patch(n, row)
    PROVE  PlansInv' /\ Lasting
<1>1. /\ n \in RowIds /\ rows[n] \in Row
      /\ rows' = [rows EXCEPT ![n] = row] /\ history' = history /\ lastRead' = lastRead
      /\ row.local = rows[n].local /\ row.version = rows[n].version /\ row.text = rows[n].text
  BY LiveRows DEF Patch, Live
<1>2. /\ Live' = Live /\ rows'[n] = row
      /\ \A r \in RowIds \ {n} : rows'[r] = rows[r]
  BY <1>1, LifeAssumption DEF PlansInv, Live
<1>3. rows' \in [RowIds -> Row \cup {Unborn, Gone}]
  BY <1>1 DEF PlansInv
<1>4. OneRowPerLocal'
  BY <1>1, <1>2 DEF PlansInv, OneRowPerLocal, Live
<1>5. \A r \in Live' : Describes(history'[r], rows'[r].version, rows'[r].text)
  BY <1>1, <1>2 DEF PlansInv, Live
<1>6. BaselineIsKept'
  BY <1>1, <1>2 DEF PlansInv, BaselineIsKept
<1>7. Lasting
  BY <1>1, <1>2, LifeAssumption DEF Lasting, PlansInv, Live, Describes
<1> QED
  BY <1>1, <1>2, <1>3, <1>4, <1>5, <1>6, <1>7 DEF PlansInv

(* A new text, with its version recorded, keeps it. *)
LEMMA NewTextStep ==
    ASSUME PlansInv, NEW n \in Live, NEW row \in Row, NEW text \in Texts, NewText(n, row, text)
    PROVE  PlansInv' /\ Lasting
<1> DEFINE h == history[n]
           version == rows[n].version
           protected == lastRead[n].version
           H == Recorded(h, version + 1, text, protected)
           next == [row EXCEPT !.text = text, !.version = version + 1]
<1>1. n \in RowIds /\ rows[n] \in Row /\ row.local = rows[n].local
  BY LiveRows DEF Live, NewText
<1>2. /\ h \in SUBSET Version /\ version \in Nat \ {0}
      /\ Describes(h, version, rows[n].text)
  BY <1>1 DEF PlansInv, Row
<1>3. h # {}
  BY <1>2 DEF Describes
<1>4. /\ rows' = [rows EXCEPT ![n] = next]
      /\ history' = [history EXCEPT ![n] = H]
      /\ lastRead' = lastRead
  BY <1>3 DEF NewText, Rewrite, Baselined, PlansInv
<1>5. next \in Row /\ next.local = rows[n].local /\ next.version = version + 1 /\ next.text = text
  <2> DEFINE v == version + 1
  <2>1. v \in Nat \ {0}
    BY <1>2
  <2>2. next = [row EXCEPT !.text = text, !.version = v]
    OBVIOUS
  <2> HIDE DEF next, v
  <2>3. next \in Row /\ next.local = row.local /\ next.version = v /\ next.text = text
    BY <2>1, <2>2 DEF Row
  <2> QED
    BY <2>3, <1>1 DEF v
<1>6. /\ H \in SUBSET Version
      /\ Describes(H, version + 1, text)
      /\ \A e \in h : e.version = protected => e \in H
      /\ \A e \in h, f \in H : e.version = f.version => e = f
  BY <1>2, NextVersion
<1> HIDE DEF H, next
<1>7. /\ Live' = Live /\ rows'[n] = next /\ history'[n] = H
      /\ \A r \in RowIds \ {n} : rows'[r] = rows[r] /\ history'[r] = history[r]
  BY <1>1, <1>4, <1>5, LifeAssumption DEF PlansInv, Live
<1>8. /\ rows' \in [RowIds -> Row \cup {Unborn, Gone}]
      /\ history' \in [RowIds -> SUBSET Version]
      /\ lastRead' \in [RowIds -> Version \cup {Unread}]
  BY <1>4, <1>5, <1>6 DEF PlansInv
<1>9. OneRowPerLocal'
  BY <1>1, <1>5, <1>7 DEF PlansInv, OneRowPerLocal, Live
<1>10. \A r \in Live' : Describes(history'[r], rows'[r].version, rows'[r].text)
  BY <1>5, <1>6, <1>7 DEF PlansInv, Live
<1>11. BaselineIsKept'
  BY <1>4, <1>6, <1>7 DEF PlansInv, BaselineIsKept, Live
<1>12. \A r \in RowIds \ Live' : history'[r] = {} /\ lastRead'[r] = Unread
  BY <1>1, <1>4, <1>7 DEF PlansInv
<1>13. Lasting
  <2>1. \A r \in RowIds : rows[r] # Unborn => rows'[r] # Unborn
    BY <1>5, <1>7, LifeAssumption
  <2>2. \A r \in RowIds : \A e \in history[r], f \in history'[r] : e.version = f.version => e = f
    BY <1>6, <1>7 DEF PlansInv, Live, Describes
  <2> QED
    BY <2>1, <2>2 DEF Lasting
<1> QED
  BY <1>8, <1>9, <1>10, <1>11, <1>12, <1>13 DEF PlansInv

(* A deletion keeps it. *)
LEMMA DeleteStep ==
    ASSUME PlansInv, NEW n \in Live, DeleteRow(n)
    PROVE  PlansInv' /\ Lasting
<1>1. /\ n \in RowIds
      /\ rows' = [rows EXCEPT ![n] = Gone]
      /\ history' = [history EXCEPT ![n] = {}]
      /\ lastRead' = [lastRead EXCEPT ![n] = Unread]
  BY DEF DeleteRow, Live
<1>2. /\ Live' = Live \ {n} /\ history'[n] = {} /\ lastRead'[n] = Unread /\ rows'[n] = Gone
      /\ \A r \in RowIds \ {n} :
            rows'[r] = rows[r] /\ history'[r] = history[r] /\ lastRead'[r] = lastRead[r]
  BY <1>1 DEF PlansInv, Live
<1>3. /\ rows' \in [RowIds -> Row \cup {Unborn, Gone}]
      /\ history' \in [RowIds -> SUBSET Version]
      /\ lastRead' \in [RowIds -> Version \cup {Unread}]
  BY <1>1 DEF PlansInv
<1>4. OneRowPerLocal'
  BY <1>2 DEF PlansInv, OneRowPerLocal, Live
<1>5. \A r \in Live' : Describes(history'[r], rows'[r].version, rows'[r].text)
  BY <1>2 DEF PlansInv, Live
<1>6. BaselineIsKept'
  BY <1>2 DEF PlansInv, BaselineIsKept, Live
<1>7. \A r \in RowIds \ Live' : history'[r] = {} /\ lastRead'[r] = Unread
  BY <1>2 DEF PlansInv
<1>8. Lasting
  BY <1>2, LifeAssumption DEF Lasting, PlansInv, Live, Describes
<1> QED
  BY <1>3, <1>4, <1>5, <1>6, <1>7, <1>8 DEF PlansInv

(* A read keeps it. *)
LEMMA ReadStep ==
    ASSUME PlansInv, NEW n \in Live, ReadNow(n)
    PROVE  PlansInv' /\ Lasting
<1> DEFINE now_ == [version |-> rows[n].version, text |-> rows[n].text]
<1>1. n \in RowIds /\ rows[n] \in Row /\ rows' = rows /\ history' = history
  BY LiveRows DEF ReadNow, Live
<1>2. now_ \in Version /\ now_ \in history[n]
  BY <1>1 DEF PlansInv, Describes, Row, Version
<1>3. \E x \in {Unread, now_} : lastRead' = [lastRead EXCEPT ![n] = x]
  BY DEF ReadNow
<1> HIDE DEF now_
<1>4. /\ lastRead'[n] \in {Unread, now_}
      /\ \A r \in RowIds \ {n} : lastRead'[r] = lastRead[r]
      /\ lastRead' \in [RowIds -> Version \cup {Unread}]
  BY <1>1, <1>2, <1>3 DEF PlansInv
<1>5. Live' = Live
  BY <1>1 DEF Live
<1>6. OneRowPerLocal' /\ BaselineIsKept'
  BY <1>1, <1>2, <1>4, <1>5 DEF PlansInv, OneRowPerLocal, BaselineIsKept, Live
<1>7. Lasting
  BY <1>1 DEF Lasting, PlansInv, Live, Describes
<1> QED
  BY <1>1, <1>4, <1>5, <1>6, <1>7 DEF PlansInv

(* So does a step that touches no table. *)
LEMMA KeepStep ==
    ASSUME PlansInv, KeepPlans
    PROVE  PlansInv' /\ Lasting
<1>1. rows' = rows /\ history' = history /\ lastRead' = lastRead /\ Live' = Live
  BY DEF KeepPlans, Live
<1>2. PlansInv'
  BY <1>1 DEF PlansInv, OneRowPerLocal, BaselineIsKept
<1>3. Lasting
  BY <1>1 DEF Lasting, PlansInv, Live, Describes
<1> QED
  BY <1>2, <1>3

(* Each of the six keeps the invariant.                                    *)
LEMMA PlanStepKeeps ==
    ASSUME PlansInv, PlanStep
    PROVE  PlansInv' /\ Lasting
BY InsertStep, PatchStep, NewTextStep, DeleteStep, ReadStep, KeepStep DEF PlanStep

-----------------------------------------------------------------------------
(* Every action takes one of the steps *)

(* What a request holds, by the stage it is at. *)
LEMMA RequestFields ==
    ASSUME RequestsInv, NEW q \in Requests
    PROVE  /\ reqs[q].pc \in {"idle", "byLocal", "byKey", "byHash", "missing", "found"}
           /\ reqs[q].pc # "idle" => reqs[q].body \in Body
           /\ reqs[q].pc = "found" => /\ reqs[q].id \in RowIds /\ reqs[q].seen \in Row
                                      /\ rows[reqs[q].id] # Unborn
           /\ reqs[q].pc = "idle" <=> reqs[q] = Idle
<1>1. reqs[q] \in Request
  BY DEF RequestsInv
<1> QED
  BY <1>1 DEF RequestsInv, Request, Idle

(* A body has a key, or none, and a hash. *)
LEMMA KeyAndHash ==
    ASSUME NEW body \in Body
    PROVE  KeyOf[body.local] \in Keys \cup {NoKey} /\ HashOf[body.text] \in Hashes
BY KeyAssumption, HashAssumption DEF Body, Hashes

(* A row that takes over an identity keeps its text and version. *)
LEMMA IdentifiedRow ==
    ASSUME NEW row \in Row, NEW body \in Body
    PROVE  /\ Identified(row, body) \in Row
           /\ [Identified(row, body) EXCEPT !.at = body.at] \in Row
           /\ Identified(row, body).local = row.local
           /\ Identified(row, body).text = row.text
           /\ Identified(row, body).version = row.version
           /\ [Identified(row, body) EXCEPT !.at = body.at].local = row.local
           /\ [Identified(row, body) EXCEPT !.at = body.at].text = row.text
           /\ [Identified(row, body) EXCEPT !.at = body.at].version = row.version
BY KeyAndHash DEF Identified, Row, Body

(* Taking over an identity is one of the six steps, also of a row gone by  *)
(* now.                                                                    *)
LEMMA PatchIdentityStep ==
    ASSUME IInv, NEW q \in Requests, reqs[q].pc = "found", NEW row,
           rows[reqs[q].id] \in Row => row \in Row,
           row.local = rows[reqs[q].id].local, row.text = rows[reqs[q].id].text,
           row.version = rows[reqs[q].id].version,
           PatchIdentity(q, row)
    PROVE  PlanStep
<1> DEFINE r == reqs[q].id
<1>1. r \in RowIds /\ rows[r] # Unborn
  BY RequestFields DEF IInv
<1>2. CASE rows[r] = Gone
  <2>1. KeepPlans
    BY <1>2 DEF PatchIdentity, KeepPlans
  <2> QED
    BY <2>1 DEF PlanStep
<1>3. CASE rows[r] # Gone
  <2>1. r \in Live /\ rows[r] \in Row
    BY <1>1, <1>3, LiveRows DEF IInv, Live
  <2>2. Patch(r, row)
    BY <1>3 DEF PatchIdentity, Patch
  <2> QED
    BY <2>1, <2>2 DEF PlanStep
<1> QED
  BY <1>2, <1>3

(* So is what the endpoint does at its end ... *)
LEMMA UpsertStep ==
    ASSUME IInv, NEW q \in Requests, reqs[q].pc \in {"found", "missing"}, Upsert(q)
    PROVE  PlanStep
<1> DEFINE body == reqs[q].body
<1>1. body \in Body
  BY RequestFields DEF IInv
<1>2. CASE Target(q) = {} /\ InsertNew(q)
  <2> DEFINE row == [local |-> body.local, key |-> KeyOf[body.local], text |-> body.text,
                     hash |-> HashOf[body.text], at |-> body.at, version |-> 1]
  <2>1. row \in Row
    BY <1>1, KeyAndHash DEF Row, Body
  <2>2. WithLocal(row.local) = {}
    BY <1>2 DEF Target
  <2>3. Insert(row)
    BY <1>2 DEF InsertNew
  <2>4. First1(row)
    BY <2>2, <2>3 DEF First1
  <2> QED
    BY <2>1, <2>4 DEF PlanStep
<1>3. ASSUME NEW r \in Target(q), rows[r] # Gone, Update(q, r)
      PROVE  PlanStep
  <2>1. r \in Live /\ rows[r] \in Row
    <3>1. CASE reqs[q].pc = "found"
      BY <1>3, <3>1, RequestFields, LiveRows DEF IInv, Target, Live
    <3>2. CASE reqs[q].pc = "missing"
      BY <1>3, <3>2, LiveRows DEF IInv, Target, WithLocal, Live
    <3> QED
      BY <3>1, <3>2
  <2> DEFINE row == [Identified(rows[r], body) EXCEPT !.at = body.at]
  <2>2. /\ row \in Row /\ row.local = rows[r].local
        /\ row.text = rows[r].text /\ row.version = rows[r].version
    BY <1>1, <2>1, IdentifiedRow
  <2>3. body.text \in Texts
    BY <1>1 DEF Body
  <2>4. CASE body.text = rows[r].text
    <3>1. rows' = [rows EXCEPT ![r] = row] /\ UNCHANGED <<history, lastRead>>
      BY <1>3, <2>4 DEF Update
    <3> HIDE DEF row
    <3>2. Patch(r, row)
      BY <2>2, <3>1 DEF Patch
    <3> QED
      BY <2>1, <2>2, <3>2 DEF PlanStep
  <2>5. CASE body.text # rows[r].text
    <3>1. Rewrite(r, row, body.text)
      BY <1>3, <2>5 DEF Update
    <3> HIDE DEF row
    <3>2. NewText(r, row, body.text)
      BY <2>2, <3>1 DEF NewText
    <3> QED
      BY <2>1, <2>2, <2>3, <3>2 DEF PlanStep
  <2> QED
    BY <2>4, <2>5
<1>4. CASE KeepPlans
  BY <1>4 DEF PlanStep
<1> QED
  BY <1>2, <1>3, <1>4 DEF Upsert

(* ... and the mutation of any request, *)
LEMMA MutateStep ==
    ASSUME IInv, NEW q \in Requests, Mutate(q)
    PROVE  PlanStep
<1> DEFINE body == reqs[q].body
           old == rows[reqs[q].id]
<1>1. /\ reqs[q].pc \in {"found", "missing"} /\ Apply(q)
      /\ body \in Body
  BY RequestFields DEF IInv, Mutate
<1>2. CASE body.text \in LowValue
  <2>1. Prune(q)
    BY <1>1, <1>2 DEF Apply
  <2>2. CASE ExactDuplicate(q) /\ old # Gone
    <3>1. reqs[q].id \in Live
      BY <2>2, RequestFields DEF IInv, ExactDuplicate, Live
    <3> QED
      BY <2>1, <2>2, <3>1 DEF Prune, PlanStep
  <2> QED
    BY <2>1, <2>2 DEF Prune, PlanStep
<1>3. CASE body.text \notin LowValue /\ ExactDuplicate(q)
  <2>1. PatchIdentity(q, [Identified(old, body) EXCEPT !.at = body.at])
    BY <1>1, <1>3 DEF Apply
  <2>2. reqs[q].pc = "found"
    BY <1>3 DEF ExactDuplicate
  <2>3. CASE old = Gone
    BY <2>1, <2>3 DEF PatchIdentity, KeepPlans, PlanStep
  <2>4. CASE old # Gone
    <3>1. old \in Row
      BY <2>2, <2>4, RequestFields, LiveRows DEF IInv, Live
    <3> DEFINE row == [Identified(old, body) EXCEPT !.at = body.at]
    <3>2. /\ row \in Row /\ row.local = old.local
          /\ row.text = old.text /\ row.version = old.version
      BY <1>1, <3>1, IdentifiedRow
    <3>3. PatchIdentity(q, row)
      BY <2>1
    <3> HIDE DEF row
    <3> QED
      BY <2>2, <3>2, <3>3, PatchIdentityStep
  <2> QED
    BY <2>3, <2>4
<1>4. CASE body.text \notin LowValue /\ ~ExactDuplicate(q) /\ Stale(q)
  <2>1. PatchIdentity(q, Identified(old, body))
    BY <1>1, <1>4 DEF Apply
  <2>2. reqs[q].pc = "found"
    BY <1>4 DEF Stale
  <2>3. CASE old = Gone
    BY <2>1, <2>3 DEF PatchIdentity, KeepPlans, PlanStep
  <2>4. CASE old # Gone
    <3>1. old \in Row
      BY <2>2, <2>4, RequestFields, LiveRows DEF IInv, Live
    <3>2. /\ Identified(old, body) \in Row /\ Identified(old, body).local = old.local
          /\ Identified(old, body).text = old.text
          /\ Identified(old, body).version = old.version
      BY <1>1, <3>1, IdentifiedRow
    <3> QED
      BY <2>1, <2>2, <3>2, PatchIdentityStep
  <2> QED
    BY <2>3, <2>4
<1>5. CASE body.text \notin LowValue /\ ~ExactDuplicate(q) /\ ~Stale(q)
  <2>1. Upsert(q)
    BY <1>1, <1>5 DEF Apply
  <2> QED
    BY <1>1, <2>1, UpsertStep
<1> QED
  BY <1>2, <1>3, <1>4, <1>5

(* and whatever the web app does: *)
LEMMA WebStep ==
    ASSUME IInv, Web
    PROVE  PlanStep
<1>1. ASSUME NEW r \in Live
      PROVE  /\ r \in RowIds /\ rows[r] \in Row
             /\ [rows[r] EXCEPT !.at = now] \in Row
             /\ [rows[r] EXCEPT !.at = now].local = rows[r].local
  BY LiveRows DEF IInv, RequestsInv, Row, Live
<1>2. ASSUME NEW r \in Live, NEW text \in Texts, Rewrite(r, [rows[r] EXCEPT !.at = now], text)
      PROVE  PlanStep
  <2> DEFINE row == [rows[r] EXCEPT !.at = now]
  <2>1. row \in Row /\ row.local = rows[r].local /\ Rewrite(r, row, text)
    BY <1>1, <1>2
  <2> HIDE DEF row
  <2>2. NewText(r, row, text)
    BY <2>1 DEF NewText
  <2> QED
    BY <2>1, <2>2 DEF PlanStep
<1>3. ASSUME NEW r \in RowIds, NEW text \in Texts, Edit(r, text)
      PROVE  PlanStep
  BY <1>2, <1>3 DEF Edit
<1>4. ASSUME NEW r \in RowIds, NEW e \in history[r], Restore(r, e)
      PROVE  PlanStep
  <2>1. e.text \in Texts
    BY DEF IInv, PlansInv, Version
  <2> QED
    BY <1>2, <1>4, <2>1 DEF Restore
<1>5. ASSUME NEW local \in Locals, NEW text \in Texts, Publish(local, text)
      PROVE  PlanStep
  <2> DEFINE row == [local |-> local, key |-> NoKey, text |-> text,
                     hash |-> NoHash, at |-> now, version |-> 1]
  <2>1. CASE WithLocal(local) = {} /\ Insert(row)
    <3>1. row \in Row
      BY DEF Row, Hashes, IInv, RequestsInv
    <3>2. row.version = 1 /\ row.local = local
      OBVIOUS
    <3> HIDE DEF row
    <3>3. First1(row)
      BY <2>1, <3>2 DEF First1
    <3> QED
      BY <3>1, <3>3 DEF PlanStep
  <2>2. ASSUME NEW r \in WithLocal(local), Rewrite(r, [rows[r] EXCEPT !.at = now], text)
        PROVE  PlanStep
    BY <1>2, <2>2 DEF WithLocal
  <2> QED
    BY <1>5, <2>1, <2>2 DEF Publish
<1>6. ASSUME NEW r \in RowIds, Delete(r) \/ Open(r) \/ Forget(r)
      PROVE  PlanStep
  BY <1>6 DEF Delete, Open, Forget, ReadNow, PlanStep
<1> QED
  BY <1>3, <1>4, <1>5, <1>6 DEF Web

(* every step is one of the six. *)
LEMMA NextIsPlanStep ==
    ASSUME IInv, [Next]_vars
    PROVE  PlanStep
<1>1. ASSUME NEW q \in Requests, Sync(q)
      PROVE  PlanStep
  <2>1. CASE Mutate(q)
    BY <2>1, MutateStep
  <2>2. ASSUME NEW body \in Bodies, Receive(q, body)
        PROVE  PlanStep
    BY <2>2 DEF Receive, PlanStep
  <2>3. CASE FindByLocal(q) \/ FindByKey(q) \/ FindByHash(q)
    BY <2>3 DEF FindByLocal, FindByKey, FindByHash, Query, PlanStep
  <2> QED
    BY <1>1, <2>1, <2>2, <2>3 DEF Sync
<1>2. CASE Web
  BY <1>2, WebStep
<1>3. CASE Tick \/ UNCHANGED vars
  BY <1>3 DEF Tick, vars, KeepPlans, PlanStep
<1> QED
  BY <1>1, <1>2, <1>3 DEF Next

-----------------------------------------------------------------------------
(* The requests *)

(* A look-up leaves requests that know what they know rightly. *)
LEMMA QueryKeeps ==
    ASSUME IInv, NEW q \in Requests, NEW stage \in {"byLocal", "byKey", "byHash"},
           NEW matches \in SUBSET Live, NEW onMiss \in {"byKey", "byHash", "missing"},
           Query(q, stage, matches, onMiss)
    PROVE  RequestsInv'
<1>1. /\ reqs \in [Requests -> Request] /\ reqs[q].body \in Body
      /\ rows' = rows /\ now' = now
  BY RequestFields DEF IInv, RequestsInv, Query, KeepPlans
<1>2. CASE reqs' = [reqs EXCEPT ![q] = [pc |-> onMiss, body |-> reqs[q].body]]
  <2>1. [pc |-> onMiss, body |-> reqs[q].body] \in Request
    BY <1>1 DEF Request
  <2> QED
    BY <1>1, <1>2, <2>1 DEF IInv, RequestsInv
<1>3. ASSUME NEW r \in matches,
             reqs' = [reqs EXCEPT ![q] = [pc |-> "found", body |-> reqs[q].body,
                                          id |-> r, seen |-> rows[r]]]
      PROVE  RequestsInv'
  <2>1. r \in RowIds /\ rows[r] \in Row /\ rows[r] # Unborn
    BY LiveRows DEF IInv, Live
  <2> DEFINE found == [pc |-> "found", body |-> reqs[q].body, id |-> r, seen |-> rows[r]]
  <2>2. found \in Request /\ found.id = r
    BY <1>1, <2>1 DEF Request
  <2> HIDE DEF found
  <2>3. reqs' = [reqs EXCEPT ![q] = found]
    BY <1>3 DEF found
  <2> QED
    BY <1>1, <2>1, <2>2, <2>3 DEF IInv, RequestsInv
<1> QED
  BY <1>2, <1>3 DEF Query

(* So does every step, for what it leaves of the rows. *)
LEMMA RequestsKeep ==
    ASSUME IInv, [Next]_vars, Lasting
    PROVE  RequestsInv'
<1>1. ASSUME reqs' = reqs, now' \in Nat
      PROVE  RequestsInv'
  BY <1>1, RequestFields DEF IInv, RequestsInv, Lasting
<1>2. ASSUME NEW q \in Requests, Sync(q)
      PROVE  RequestsInv'
  <2>1. ASSUME NEW body \in Bodies, Receive(q, body)
        PROVE  RequestsInv'
    <3>1. body \in Body
      BY DEF Bodies, Body, IInv, RequestsInv
    <3>2. [pc |-> "byLocal", body |-> body] \in Request
      BY <3>1 DEF Request
    <3> QED
      BY <2>1, <3>2 DEF Receive, KeepPlans, IInv, RequestsInv
  <2>2. CASE FindByLocal(q)
    BY <2>2, QueryKeeps DEF FindByLocal, WithLocal
  <2>3. CASE FindByKey(q)
    BY <2>3, QueryKeeps DEF FindByKey
  <2>4. CASE FindByHash(q)
    BY <2>4, QueryKeeps DEF FindByHash
  <2>5. CASE Mutate(q)
    <3>1. reqs' = [reqs EXCEPT ![q] = Idle] /\ now' = now /\ Idle \in Request
      BY <2>5 DEF Mutate, Request
    <3>2. \A p \in Requests : reqs'[p].pc = "found" => reqs'[p] = reqs[p]
      BY <3>1 DEF IInv, RequestsInv, Idle
    <3> QED
      BY <3>1, <3>2, RequestFields DEF IInv, RequestsInv, Lasting
  <2> QED
    BY <1>2, <2>1, <2>2, <2>3, <2>4, <2>5 DEF Sync
<1>3. CASE Web
  BY <1>1, <1>3 DEF Web, Edit, Restore, Publish, Delete, Open, Forget, IInv, RequestsInv
<1>4. CASE Tick \/ UNCHANGED vars
  BY <1>1, <1>4 DEF Tick, vars, IInv, RequestsInv
<1> QED
  BY <1>2, <1>3, <1>4 DEF Next

-----------------------------------------------------------------------------
(* The theorems *)

(* The invariant holds at first. *)
LEMMA Initial == ASSUME Init PROVE IInv
<1>1. Live = {}
  BY DEF Init, Live
<1>2. PlansInv
  BY <1>1 DEF Init, PlansInv, OneRowPerLocal, BaselineIsKept
<1>3. RequestsInv
  BY DEF Init, RequestsInv, Request, Idle
<1> QED
  BY <1>2, <1>3 DEF IInv

(* Every step keeps the invariant. *)
LEMMA Inductive == ASSUME IInv, [Next]_vars PROVE IInv' /\ Lasting
BY NextIsPlanStep, PlanStepKeeps, RequestsKeep DEF IInv

(* So the invariant always holds. *)
LEMMA Always == Spec => []IInv
<1>1. Init => IInv
  BY Initial
<1>2. IInv /\ [Next]_vars => IInv'
  BY Inductive
<1> QED
  BY <1>1, <1>2, PTL DEF Spec

(* A history has an entry per version of the window and one below it.      *)
LEMMA HistorySize ==
    ASSUME NEW h \in SUBSET Version, NEW version \in Nat \ {0}, NEW text,
           Describes(h, version, text)
    PROVE  Cardinality(h) <= Retention + 1
<1> DEFINE window == (version - Retention) .. version
           place == [e \in h |-> IF e.version <= version - Retention
                                 THEN version - Retention ELSE e.version]
<1>1. Retention \in Nat /\ \A e \in h : e.version \in Nat /\ e.version <= version
  BY RetentionAssumption DEF Version, Describes
<1>2. place \in [h -> window]
  BY <1>1
<1>3. \A e, f \in h : place[e] = place[f] => e = f
  BY <1>1 DEF Describes
<1> HIDE DEF place
<1>4. place \in Injection(h, window)
  BY <1>2, <1>3, Fun_IsInj
<1>5. IsFiniteSet(window) /\ Cardinality(window) = Retention + 1
  BY <1>1, FS_Interval
<1> HIDE DEF window
<1> QED
  BY <1>4, <1>5, FS_Injection

(* Every row, version, read and request has its fields, and no history     *)
(* outgrows the retention window by more than the baseline, however often  *)
(* its plan is written.                                                    *)
THEOREM Typing == Spec => []TypeOK
<1>1. ASSUME IInv
      PROVE  TypeOK
  <2>1. WellTyped
    BY <1>1 DEF IInv, PlansInv, RequestsInv, WellTyped, Version
  <2>2. ASSUME NEW r \in RowIds
        PROVE  Cardinality(history[r]) <= Retention + 1
    <3>1. CASE r \in Live
      <4>1. rows[r].version \in Nat \ {0} /\ history[r] \in SUBSET Version
        BY <1>1, <3>1, LiveRows DEF IInv, PlansInv, Row
      <4> QED
        BY <1>1, <3>1, <4>1, HistorySize DEF IInv, PlansInv
    <3>2. CASE r \notin Live
      BY <1>1, <3>2, FS_EmptySet, RetentionAssumption DEF IInv, PlansInv
    <3> QED
      BY <3>1, <3>2
  <2> QED
    BY <2>1, <2>2 DEF TypeOK
<1> QED
  BY <1>1, Always, PTL

(* Uploads and publications of one local plan converge on one row.         *)
THEOREM Convergence == Spec => []OneRowPerLocal
<1>1. IInv => OneRowPerLocal
  BY DEF IInv, PlansInv
<1> QED
  BY <1>1, Always, PTL

(* The history holds the live text under the live version, and nothing     *)
(* newer.                                                                  *)
THEOREM Currency == Spec => []HistoryIsCurrent
<1>1. ASSUME IInv
      PROVE  HistoryIsCurrent
  <2>1. \A r \in Live : Describes(history[r], rows[r].version, rows[r].text)
    BY <1>1 DEF IInv, PlansInv
  <2>2. ASSUME NEW r \in Live, NEW e \in history[r], e.version = rows[r].version
        PROVE  e.text = rows[r].text
    <3>1. e = [version |-> rows[r].version, text |-> rows[r].text]
      BY <2>1, <2>2 DEF Describes
    <3> QED
      BY <3>1
  <2> QED
    BY <2>1, <2>2 DEF Describes, HistoryIsCurrent
<1> QED
  BY <1>1, Always, PTL

(* What the owner read last stays to be compared with.                     *)
THEOREM Baseline == Spec => []BaselineIsKept
<1>1. IInv => BaselineIsKept
  BY DEF IInv, PlansInv
<1> QED
  BY <1>1, Always, PTL

(* A recorded version never says something else.                           *)
THEOREM Immutability == Spec => HistoryIsImmutable
<1>1. IInv /\ [Next]_vars =>
        [\A r \in RowIds : \A e \in history[r], f \in history'[r] :
            e.version = f.version => e = f]_vars
  BY Inductive DEF Lasting
<1> QED
  BY <1>1, Always, PTL DEF Spec, HistoryIsImmutable

(* Only its own mutation ends a request that found no row, and that one    *)
(* keeps a live row, unless the request is at least as new.                *)
LEMMA LateMutation ==
    ASSUME IInv, NEW q \in Requests, Mutate(q), reqs[q].pc = "missing", NEW r \in Live
    PROVE  rows'[r] = rows[r] \/ reqs[q].body.at >= rows[r].at
<1> DEFINE body == reqs[q].body
<1>1. ~ExactDuplicate(q) /\ ~Stale(q) /\ Apply(q)
  BY DEF ExactDuplicate, Stale, Mutate
<1>2. CASE body.text \in LowValue
  BY <1>1, <1>2 DEF Apply, Prune, KeepPlans
<1>3. CASE body.text \notin LowValue
  <2>1. Upsert(q)
    BY <1>1, <1>3 DEF Apply
  <2>2. CASE InsertNew(q)
    <3>1. PICK n \in RowIds : rows[n] = Unborn /\ \E row : rows' = [rows EXCEPT ![n] = row]
      BY <2>2 DEF InsertNew, Insert, IsFirst
    <3> QED
      BY <3>1 DEF Live, IInv, PlansInv
  <2>3. ASSUME NEW s \in Target(q), ~LosesRace(q, s), Update(q, s)
        PROVE  rows'[r] = rows[r] \/ body.at >= rows[r].at
    <3>1. PICK row : rows' = [rows EXCEPT ![s] = row]
      BY <2>3 DEF Update, Rewrite
    <3>2. r # s => rows'[r] = rows[r]
      BY <3>1 DEF IInv, PlansInv, Live
    <3>3. ~(body.at < rows[s].at)
      BY <2>3 DEF LosesRace
    <3>4. body.at \in Nat /\ rows[r].at \in Nat
      BY RequestFields, LiveRows DEF IInv, Live, Row, Body
    <3> QED
      BY <3>2, <3>3, <3>4
  <2>4. CASE KeepPlans
    BY <2>4 DEF KeepPlans
  <2> QED
    BY <2>1, <2>2, <2>3, <2>4 DEF Upsert
<1> QED
  BY <1>2, <1>3

(* A first sync that lost its race to newer content leaves that alone.     *)
THEOREM LateSync == Spec => LateFirstSyncKeepsNewer
<1>1. ASSUME IInv, [Next]_vars, NEW q \in Requests, NEW r \in Live,
             reqs[q].pc = "missing", reqs'[q] = Idle
      PROVE  rows'[r] = rows[r] \/ reqs[q].body.at >= rows[r].at
  <2>1. reqs[q] # Idle /\ reqs \in [Requests -> Request]
    BY <1>1 DEF Idle, IInv, RequestsInv
  <2>2. CASE Web \/ Tick \/ UNCHANGED vars
    BY <1>1, <2>1, <2>2 DEF Web, Edit, Restore, Publish, Delete, Open, Forget, Tick, vars
  <2>3. ASSUME NEW p \in Requests, Sync(p), p # q
        PROVE  FALSE
    <3>1. PICK x : reqs' = [reqs EXCEPT ![p] = x]
      BY <2>3 DEF Sync, Receive, FindByLocal, FindByKey, FindByHash, Query, Mutate
    <3> QED
      BY <1>1, <2>1, <2>3, <3>1
  <2>4. CASE Sync(q)
    <3>1. Mutate(q)
      BY <1>1, <2>1, <2>4 DEF Sync, Receive, FindByLocal, FindByKey, FindByHash, Query
    <3> QED
      BY <1>1, <3>1, LateMutation
  <2> QED
    BY <1>1, <2>2, <2>3, <2>4 DEF Next
<1>2. IInv /\ [Next]_vars =>
        [\A q \in Requests, r \in RowIds :
           reqs[q].pc = "missing" /\ reqs'[q] = Idle /\ r \in Live
             => \/ rows'[r] = rows[r]
                \/ reqs[q].body.at >= rows[r].at]_vars
  BY <1>1
<1> QED
  BY <1>2, Always, PTL DEF Spec, LateFirstSyncKeepsNewer

-----------------------------------------------------------------------------
(* The upload worker *)

(* Where a pass is. *)
PassInv ==
    /\ request # NoRequest <=> pass.pc = "await"
    /\ pass.pc = "await" => More /\ request.payload = Current
    /\ pass.counted < pass.i /\ pass.i <= Len(pass.batch) + 1

(* What the upload the pass awaits has done, and that it is newer than     *)
(* what was answered before.                                               *)
RequestInv == request # NoRequest =>
    LET x == request.payload
        row == cloud[request.scope][x.plan]
    IN  /\ request.stage # "sent" => x.rev \in accepted[request.scope][x.plan]
        /\ request.stage = "applied" => row # Absent /\ row.at >= x.at
        /\ request.stage = "sent" /\ request.scope = scope /\ lastSynced[x.plan] # Absent
             => NewerThan(x, lastSynced[x.plan])

(* The account does not change and change back while an upload waits, nor  *)
(* between the choice of an upload and its request.                        *)
ScopeHolds == "pick" \notin SwitchAt /\ ("await" \notin SwitchAt \/ MaxFaults <= 1)

(* The worker works for the account it has: an answer counts for the       *)
(* account that was asked.                                                 *)
ScopeInv ==
    /\ pass.pc = "pick" => scope = account
    /\ pass.pc = "await" /\ account = request.scope => scope = account
    /\ pass.pc = "await" /\ account # request.scope => "await" \in SwitchAt /\ faults >= 1

(* What the worker remembers of an account is true of it. *)
MemoryInv ==
    /\ CacheIsHonest
    /\ scope \in Accounts => \A p \in Plans : cache[p] # Absent => cache[p] \in accepted[scope][p]
    /\ \A p \in Plans : lastSynced[p] # Absent =>
         /\ scope \in Accounts /\ cloud[scope][p] # Absent
         /\ cloud[scope][p].at >= lastSynced[p].at

WorkerInv ==
    /\ WorkerTypeOK /\ QueuedOnce /\ PassInv /\ RequestInv
    /\ ScopeHolds => ScopeInv /\ MemoryInv

-----------------------------------------------------------------------------
(* Induction over the natural numbers, said of sets *)

(* A nonempty set of numbers has a smallest one. *)
LEMMA SmallestNumber ==
    ASSUME NEW T \in SUBSET Nat, T # {}
    PROVE  \E m \in T : \A n \in T : m <= n
<1> DEFINE Upto(n) == 0 .. n
           Intervals == {Upto(n) : n \in T}
<1>1. Intervals \subseteq FiniteSubsetsOf(Nat) /\ Intervals # {}
  <2>1. \A n \in T : Upto(n) \in SUBSET Nat /\ IsFiniteSet(Upto(n))
    BY FS_Interval
  <2> HIDE DEF Upto
  <2>. QED
    BY <2>1 DEF FiniteSubsetsOf
<1>2. PICK x \in Intervals : \A y \in Intervals : ~(<<y, x>> \in StrictSubsetOrdering(Nat))
  <2> HIDE DEF Intervals
  <2>1. IsWellFoundedOn(StrictSubsetOrdering(Nat), FiniteSubsetsOf(Nat))
    BY FS_StrictSubsetOrderingWellFounded
  <2>. QED
    BY <1>1, <2>1, WFMin, Zenon
<1>3. PICK m \in T : x = Upto(m)
  BY <1>2
<1>4. ASSUME NEW n \in T, ~(m <= n) PROVE FALSE
  <2>1. Upto(n) \subseteq Upto(m) /\ Upto(n) # Upto(m) /\ Upto(m) \subseteq Nat
    BY <1>4
  <2>. QED
    BY <1>2, <1>3, <2>1 DEF StrictSubsetOrdering
<1>. QED
  BY <1>4

(* A set with 0 that has the successor of what it has below n holds all    *)
(* numbers up to n.                                                        *)
LEMMA StepByStep ==
    ASSUME NEW n \in Nat, NEW S, 0 \in S, \A k \in 0 .. n : k \in S /\ k < n => k + 1 \in S
    PROVE  \A k \in 0 .. n : k \in S
<1> DEFINE T == {k \in 0 .. n : k \notin S}
<1>. SUFFICES ASSUME T # {} PROVE FALSE
  OBVIOUS
<1>1. T \in SUBSET Nat
  OBVIOUS
<1>2. PICK m \in T : \A k \in T : m <= k
  <2> HIDE DEF T
  <2>. QED
    BY <1>1, SmallestNumber
<1>3. m \in 0 .. n /\ m \notin S /\ m # 0
  BY <1>2
<1>4. m - 1 \in 0 .. n /\ m - 1 < n /\ m - 1 \in S
  BY <1>2, <1>3
<1>. QED
  BY <1>3, <1>4

-----------------------------------------------------------------------------
(* Sets of numbers in increasing order *)

Increasing(s) == \A i, j \in DOMAIN s : i < j => s[i] < s[j]

(* A smaller number goes first. *)
LEMMA SmallestFirst ==
    ASSUME NEW K \in SUBSET Nat, IsFiniteSet(K), NEW m \in K, \A k \in K : m <= k,
           NEW s \in SetToSeqs(K \ {m}), Increasing(s)
    PROVE  \E t \in SetToSeqs(K) : Increasing(t)
<1> DEFINE n == Cardinality(K \ {m})
           t == [i \in 1 .. n + 1 |-> IF i = 1 THEN m ELSE s[i - 1]]
<1>1. n \in Nat /\ Cardinality(K) = n + 1
  <2>1. IsFiniteSet(K \ {m}) /\ n = Cardinality(K) - 1 /\ Cardinality(K) \in Nat
    BY FS_RemoveElement, FS_CardinalityType
  <2>2. n \in Nat
    BY <2>1, FS_CardinalityType
  <2>. QED
    BY <2>1, <2>2
<1>2. s \in [1 .. n -> K \ {m}] /\ \A i, j \in 1 .. n : i # j => s[i] # s[j]
  BY DEF SetToSeqs
<1> HIDE DEF n
<1>3. ASSUME NEW i \in 2 .. n + 1
      PROVE  i - 1 \in 1 .. n /\ t[i] = s[i - 1] /\ t[i] \in K /\ m < t[i]
  <2>1. i - 1 \in 1 .. n /\ i \in 1 .. n + 1 /\ i # 1
    BY <1>1
  <2>2. t[i] = s[i - 1]
    BY <2>1
  <2>3. s[i - 1] \in K \ {m}
    BY <1>2, <2>1
  <2>4. s[i - 1] \in Nat /\ m \in Nat /\ m <= s[i - 1] /\ m # s[i - 1]
    BY <2>3
  <2>. QED
    BY <2>1, <2>2, <2>3, <2>4
<1>4. t[1] = m /\ t \in [1 .. n + 1 -> K]
  BY <1>1, <1>2, <1>3
<1>5. \A i, j \in 1 .. n + 1 : i # j => t[i] # t[j]
  <2>. SUFFICES ASSUME NEW i \in 1 .. n + 1, NEW j \in 1 .. n + 1, i # j PROVE t[i] # t[j]
    OBVIOUS
  <2>1. CASE i = 1
    <3>1. j \in 2 .. n + 1 /\ m \in Nat
      BY <1>1, <2>1
    <3>2. t[i] = m /\ m < t[j] /\ t[j] \in K
      BY <1>3, <1>4, <2>1, <3>1
    <3>. QED
      BY <3>1, <3>2
  <2>3. CASE j = 1
    <3>1. i \in 2 .. n + 1 /\ m \in Nat
      BY <1>1, <2>3
    <3>2. t[j] = m /\ m < t[i] /\ t[i] \in K
      BY <1>3, <1>4, <2>3, <3>1
    <3>. QED
      BY <3>1, <3>2
  <2>2. CASE i # 1 /\ j # 1
    BY <1>1, <1>2, <1>3, <2>2
  <2>. QED
    BY <2>1, <2>2, <2>3
<1>6. \A i, j \in 1 .. n + 1 : i < j => t[i] < t[j]
  <2>. SUFFICES ASSUME NEW i \in 1 .. n + 1, NEW j \in 1 .. n + 1, i < j PROVE t[i] < t[j]
    OBVIOUS
  <2>1. j \in 2 .. n + 1
    BY <1>1
  <2>2. CASE i = 1
    BY <1>3, <1>4, <2>1, <2>2
  <2>3. CASE i # 1
    <3>1. i - 1 \in DOMAIN s /\ j - 1 \in DOMAIN s /\ i - 1 < j - 1
      BY <1>1, <1>2, <2>1, <2>3
    <3>. QED
      BY <1>1, <1>3, <2>1, <2>3, <3>1 DEF Increasing
  <2>. QED
    BY <2>2, <2>3
<1> HIDE DEF t
<1>7. t \in SetToSeqs(K) /\ DOMAIN t = 1 .. n + 1
  BY <1>1, <1>4, <1>5 DEF SetToSeqs
<1>. QED
  BY <1>6, <1>7 DEF Increasing

(* Every finite set of numbers can be listed in increasing order. *)
LEMMA CanBeListed ==
    ASSUME NEW K \in SUBSET Nat, IsFiniteSet(K)
    PROVE  \E s \in SetToSeqs(K) : Increasing(s)
<1> DEFINE N == Cardinality(K)
           Small(n) == {L \in SUBSET Nat : IsFiniteSet(L) /\ Cardinality(L) = n}
           S == {n \in Nat : \A L \in Small(n) : \E s \in SetToSeqs(L) : Increasing(s)}
<1>1. N \in Nat
  BY FS_CardinalityType
<1>2. 0 \in S
  <2>. SUFFICES ASSUME NEW L \in Small(0) PROVE \E s \in SetToSeqs(L) : Increasing(s)
    OBVIOUS
  <2>1. L = {} /\ Cardinality(L) = 0
    BY FS_EmptySet
  <2> DEFINE s == [i \in 1 .. 0 |-> i]
  <2>2. s \in [1 .. 0 -> L] /\ DOMAIN s = 1 .. 0 /\ 1 .. 0 = {}
    OBVIOUS
  <2> HIDE DEF s
  <2>3. s \in SetToSeqs(L)
    BY <2>1, <2>2 DEF SetToSeqs
  <2>. QED
    BY <2>2, <2>3 DEF Increasing
<1>3. ASSUME NEW k \in 0 .. N, k \in S, k < N PROVE k + 1 \in S
  <2>. SUFFICES ASSUME NEW L \in Small(k + 1) PROVE \E s \in SetToSeqs(L) : Increasing(s)
    BY <1>1
  <2>1. L \in SUBSET Nat /\ IsFiniteSet(L) /\ Cardinality(L) = k + 1 /\ L # {}
    BY FS_EmptySet
  <2>2. PICK m \in L : \A j \in L : m <= j
    BY <2>1, SmallestNumber
  <2>3. L \ {m} \in Small(k)
    <3>1. IsFiniteSet(L \ {m}) /\ Cardinality(L \ {m}) = Cardinality(L) - 1
      BY <2>1, FS_RemoveElement
    <3>2. k \in Nat
      BY <1>1
    <3>. QED
      BY <2>1, <3>1, <3>2
  <2>4. PICK s \in SetToSeqs(L \ {m}) : Increasing(s)
    BY <1>3, <2>3
  <2>. QED
    BY <2>1, <2>2, <2>4, SmallestFirst
<1> HIDE DEF S
<1>4. N \in S
  BY <1>1, <1>2, <1>3, StepByStep
<1>. QED
  BY <1>4 DEF S

(* What Listed returns: every number of the set once. *)
LEMMA ListedOnce ==
    ASSUME NEW K \in SUBSET Nat, IsFiniteSet(K)
    PROVE  /\ Cardinality(K) \in Nat /\ Listed(K) \in [1 .. Cardinality(K) -> K]
           /\ \A i, j \in DOMAIN Listed(K) : Listed(K)[i] = Listed(K)[j] => i = j
<1>1. \E s \in SetToSeqs(K) : \A i, j \in DOMAIN s : i < j => s[i] < s[j]
  BY CanBeListed DEF Increasing
<1>2. Listed(K) \in SetToSeqs(K)
  BY <1>1 DEF Listed
<1>. QED
  BY <1>2, FS_CardinalityType DEF SetToSeqs

-----------------------------------------------------------------------------
(* The queue *)

(* The recursion of Push: what is there after n pushes. *)
Pushing(f, q, xs, n) ==
    f = [k \in 0 .. n |-> IF k = 0 THEN q ELSE PushOne(f[k - 1], xs[k])]

(* The pushes of a list can be made one after the other. *)
LEMMA CanBePushed ==
    ASSUME NEW q, NEW xs, NEW n \in Nat
    PROVE  \E f : Pushing(f, q, xs, n)
<1> DEFINE S == {k \in Nat : \E f : Pushing(f, q, xs, k)}
<1>1. 0 \in S
  <2> DEFINE f == [k \in 0 .. 0 |-> q]
  <2>1. f = [k \in 0 .. 0 |-> IF k = 0 THEN q ELSE PushOne(f[k - 1], xs[k])]
    OBVIOUS
  <2> HIDE DEF f
  <2>2. Pushing(f, q, xs, 0)
    BY <2>1 DEF Pushing
  <2>. QED
    BY <2>2
<1>2. ASSUME NEW k \in 0 .. n, k \in S, k < n PROVE k + 1 \in S
  <2>1. PICK f : Pushing(f, q, xs, k)
    BY <1>2
  <2> DEFINE g == [j \in 0 .. k + 1 |-> IF j = k + 1 THEN PushOne(f[k], xs[k + 1]) ELSE f[j]]
  <2>2. ASSUME NEW j \in 0 .. k + 1
        PROVE  g[j] = IF j = 0 THEN q ELSE PushOne(g[j - 1], xs[j])
    <3>1. CASE j = k + 1
      <4>1. j # 0 /\ j - 1 = k /\ k \in 0 .. k + 1 /\ k # k + 1
        BY <3>1
      <4>2. g[j] = PushOne(f[k], xs[k + 1]) /\ g[j - 1] = f[k]
        BY <3>1, <4>1
      <4> HIDE DEF g
      <4>. QED
        BY <3>1, <4>1, <4>2
    <3>2. CASE j # k + 1
      <4>1. j \in 0 .. k /\ g[j] = f[j]
        BY <3>2
      <4>2. f[j] = IF j = 0 THEN q ELSE PushOne(f[j - 1], xs[j])
        BY <2>1, <4>1 DEF Pushing
      <4>3. j # 0 => j - 1 \in 0 .. k + 1 /\ j - 1 # k + 1
        BY <4>1
      <4>4. j # 0 => g[j - 1] = f[j - 1]
        BY <4>3
      <4> HIDE DEF g
      <4>. QED
        BY <4>1, <4>2, <4>4
    <3>. QED
      BY <3>1, <3>2
  <2>3. g = [j \in 0 .. k + 1 |-> g[j]]
    OBVIOUS
  <2> HIDE DEF g
  <2>4. Pushing(g, q, xs, k + 1)
    BY <2>2, <2>3 DEF Pushing
  <2>. QED
    BY <2>4
<1> HIDE DEF S
<1>3. n \in S
  BY <1>1, <1>2, StepByStep
<1>. QED
  BY <1>3 DEF S

(* Push makes them. *)
LEMMA PushPushes ==
    ASSUME NEW q, NEW xs, Len(xs) \in Nat
    PROVE  \E f : Pushing(f, q, xs, Len(xs)) /\ Push(q, xs) = f[Len(xs)]
<1> DEFINE f == CHOOSE f : Pushing(f, q, xs, Len(xs))
<1>1. Pushing(f, q, xs, Len(xs))
  BY CanBePushed
<1>2. Push(q, xs) = f[Len(xs)]
  BY DEF Push, Pushing
<1>. QED
  BY <1>1, <1>2

AQueue(q) == q \in Seq(Payload) /\ OncePerPlan(q)

(* A push of one payload keeps the queue. *)
LEMMA PushOneKeeps ==
    ASSUME NEW q, AQueue(q), NEW x \in Payload
    PROVE  AQueue(PushOne(q, x))
<1>1. q \in Seq(Payload) /\ Len(q) \in Nat /\ DOMAIN q = 1 .. Len(q)
      /\ \A i \in DOMAIN q : q[i] \in Payload
  BY DEF AQueue
<1>2. CASE \A i \in DOMAIN q : q[i].plan # x.plan
  <2>1. PushOne(q, x) = Append(q, x)
    BY <1>2 DEF PushOne
  <2>2. /\ Append(q, x) \in Seq(Payload) /\ Len(Append(q, x)) = Len(q) + 1
        /\ \A i \in 1 .. Len(q) : Append(q, x)[i] = q[i]
        /\ Append(q, x)[Len(q) + 1] = x
    BY <1>1, AppendProperties
  <2> DEFINE r == Append(q, x)
  <2> HIDE DEF r
  <2>3. DOMAIN r = 1 .. Len(q) + 1
    BY <2>2, LenProperties DEF r
  <2>4. ASSUME NEW i \in DOMAIN r, NEW j \in DOMAIN r, r[i].plan = r[j].plan PROVE i = j
    <3>1. CASE i = Len(q) + 1 \/ j = Len(q) + 1
      BY <1>1, <1>2, <2>2, <2>3, <2>4, <3>1 DEF r
    <3>2. CASE i # Len(q) + 1 /\ j # Len(q) + 1
      <4>1. i \in DOMAIN q /\ j \in DOMAIN q
        BY <1>1, <2>3, <3>2
      <4>2. q[i].plan = q[j].plan
        BY <1>1, <2>2, <2>4, <4>1 DEF r
      <4>. QED
        BY <4>1, <4>2 DEF AQueue, OncePerPlan
    <3>. QED
      BY <3>1, <3>2
  <2>. QED
    BY <2>1, <2>2, <2>4 DEF AQueue, OncePerPlan, r
<1>3. CASE ~\A i \in DOMAIN q : q[i].plan # x.plan
  <2> DEFINE r == [i \in DOMAIN q |->
                     IF q[i].plan = x.plan /\ ~Superseded(x, q[i]) THEN x ELSE q[i]]
  <2>1. PushOne(q, x) = r
    BY <1>3 DEF PushOne
  <2>2. DOMAIN r = DOMAIN q /\ \A i \in DOMAIN q : r[i] \in Payload /\ r[i].plan = q[i].plan
    BY <1>1
  <2>3. r \in [1 .. Len(q) -> Payload]
    BY <1>1
  <2> HIDE DEF r
  <2>4. r \in Seq(Payload)
    BY <1>1, <2>3, SeqDef
  <2>5. OncePerPlan(r)
    BY <2>2 DEF AQueue, OncePerPlan
  <2>. QED
    BY <2>1, <2>4, <2>5 DEF AQueue
<1>. QED
  BY <1>2, <1>3

(* Whatever is pushed, the queue holds every plan once. *)
LEMMA PushKeeps ==
    ASSUME NEW q, AQueue(q), NEW xs \in Seq(Payload)
    PROVE  AQueue(Push(q, xs))
<1> DEFINE n == Len(xs)
<1>1. n \in Nat /\ \A k \in 1 .. n : xs[k] \in Payload
  OBVIOUS
<1>2. PICK f : Pushing(f, q, xs, n) /\ Push(q, xs) = f[n]
  BY PushPushes
<1> DEFINE S == {k \in 0 .. n : AQueue(f[k])}
<1> HIDE DEF n
<1>3. 0 \in S
  <2>1. f[0] = q
    BY <1>1, <1>2 DEF Pushing
  <2>. QED
    BY <1>1, <2>1
<1>4. ASSUME NEW k \in 0 .. n, k \in S, k < n PROVE k + 1 \in S
  <2>1. k + 1 \in 0 .. n /\ k + 1 \in 1 .. n /\ k + 1 # 0 /\ (k + 1) - 1 = k
    BY <1>1, <1>4
  <2>2. f[k + 1] = PushOne(f[(k + 1) - 1], xs[k + 1])
    BY <1>2, <2>1 DEF Pushing
  <2>3. AQueue(PushOne(f[k], xs[k + 1]))
    BY <1>1, <1>4, <2>1, PushOneKeeps
  <2>. QED
    BY <2>1, <2>2, <2>3
<1> HIDE DEF S
<1>5. \A k \in 0 .. n : k \in S
  BY <1>1, <1>3, <1>4, StepByStep
<1>6. n \in S
  BY <1>1, <1>5
<1>. QED
  BY <1>2, <1>6 DEF S

-----------------------------------------------------------------------------
(* The parts of the state *)

PassRec ==
    [pc : {"idle", "start", "pick", "await", "finish"}, batch : Seq(Payload),
     i : Nat, counted : Nat, failed : Seq(Payload)]
Entries == [payload : Payload, attempt : 1 .. MaxRetries]
Uploads == [stage : {"sent", "applied", "refused"}, scope : Accounts, payload : Payload]
Known == [Plans -> Revs \cup {Absent}]

(* A function on the numbers up to n is a sequence. *)
LEMMA AList ==
    ASSUME NEW V, NEW n \in Nat, NEW s \in [1 .. n -> V]
    PROVE  s \in Seq(V) /\ DOMAIN s = 1 .. n /\ Len(s) = n
BY SeqDef

(* The bounds are numbers. *)
LEMMA Bounds == MaxRetries \in Nat /\ MaxEdits \in Nat /\ MaxPending \in Nat /\ MaxFaults \in Nat
BY BoundsAssumption

(* A pass that has not begun to upload. *)
LEMMA Beginning ==
    ASSUME NEW c \in {"idle", "start", "pick"}, NEW b \in Seq(Payload)
    PROVE  LET w == [Resting EXCEPT !.pc = c, !.batch = b]
           IN  w \in PassRec /\ w.pc = c /\ w.batch = b /\ w.i = 1 /\ w.counted = 0
<1>1. <<>> \in Seq(Payload)
  BY EmptySeq
<1>. QED
  BY <1>1 DEF Resting, PassRec

(* A pass between two batches. *)
LEMMA BetweenBatches ==
    /\ Resting \in PassRec /\ Resting.pc = "idle" /\ Resting.batch = <<>>
    /\ Resting.i = 1 /\ Resting.counted = 0
    /\ LET w == [Resting EXCEPT !.pc = "start"]
       IN  w \in PassRec /\ w.pc = "start" /\ w.batch = <<>> /\ w.i = 1 /\ w.counted = 0
    /\ OncePerPlan(<<>>) /\ Len(<<>>) = 0
<1>1. <<>> \in Seq(Payload) /\ Len(<<>>) = 0 /\ DOMAIN <<>> = {}
  BY EmptySeq
<1>. QED
  BY <1>1 DEF Resting, PassRec, OncePerPlan

(* What a pass is. *)
LEMMA APass ==
    ASSUME WorkerTypeOK
    PROVE  /\ pass \in PassRec
           /\ pass.pc \in {"idle", "start", "pick", "await", "finish"}
           /\ pass.batch \in Seq(Payload) /\ pass.failed \in Seq(Payload)
           /\ pass.i \in Nat /\ pass.counted \in Nat
           /\ Len(pass.batch) \in Nat /\ DOMAIN pass.batch = 1 .. Len(pass.batch)
           /\ DOMAIN pass.failed = 1 .. Len(pass.failed) /\ Len(pass.failed) \in Nat
<1>1. pass \in PassRec
  BY DEF WorkerTypeOK, PassRec
<1>2. /\ pass.pc \in {"idle", "start", "pick", "await", "finish"}
      /\ pass.batch \in Seq(Payload) /\ pass.failed \in Seq(Payload)
      /\ pass.i \in Nat /\ pass.counted \in Nat
  BY <1>1 DEF PassRec
<1>. QED
  BY <1>1, <1>2, LenProperties

(* What the pass uploads next. *)
LEMMA ACurrent ==
    ASSUME WorkerTypeOK, PassInv, More
    PROVE  /\ Current \in Payload /\ Current.plan \in Plans /\ Current.rev \in Revs
           /\ Current.at \in Nat /\ Current.seq \in Nat
           /\ pass.i \in 1 .. Len(pass.batch)
<1>1. pass.i \in 1 .. Len(pass.batch)
  BY APass DEF PassInv, More
<1>2. Current \in Payload
  BY <1>1, APass DEF Current
<1>. QED
  BY <1>1, <1>2 DEF Payload

(* What a request is. *)
LEMMA AnUpload ==
    ASSUME WorkerTypeOK, request # NoRequest
    PROVE  /\ request \in Uploads /\ request.stage \in {"sent", "applied", "refused"}
           /\ request.scope \in Accounts /\ request.payload \in Payload
           /\ request.payload.plan \in Plans /\ request.payload.rev \in Revs
           /\ request.payload.at \in Nat /\ request.payload.seq \in Nat
<1>1. request \in Uploads
  BY DEF WorkerTypeOK, Uploads
<1>. QED
  BY <1>1 DEF Uploads, Payload

(* A payload is built from the plan on disk. *)
LEMMA BuiltIsPayload ==
    ASSUME WorkerTypeOK, NEW p \in Plans
    PROVE  Built(p) \in Payload /\ Built(p).plan = p
<1>1. source[p] \in [at : Nat, rev : Revs]
  BY DEF WorkerTypeOK
<1>2. source[p].at \in Nat /\ source[p].rev \in Revs /\ source[p].rev \in Nat
  BY <1>1, Bounds DEF Revs
<1> DEFINE m == 2 * source[p].rev
             + IF \E x \in Payloads(p) : x.rev = source[p].rev THEN 1 ELSE 0
<1>3. m \in Nat
  BY <1>2
<1>4. Built(p) = [plan |-> p, at |-> source[p].at, rev |-> source[p].rev, seq |-> m]
  BY DEF Built
<1> HIDE DEF m
<1>. QED
  BY <1>2, <1>3, <1>4 DEF Payload

(* Payloads made of the listed plans. *)
LEMMA ListedPlans ==
    ASSUME NEW K \in SUBSET Plans
    PROVE  /\ K \in SUBSET Nat /\ IsFiniteSet(K)
           /\ Cardinality(K) \in Nat /\ Listed(K) \in [1 .. Cardinality(K) -> K]
           /\ \A i, j \in DOMAIN Listed(K) : Listed(K)[i] = Listed(K)[j] => i = j
<1>1. K \in SUBSET Nat /\ IsFiniteSet(K)
  BY PlansAssumption, FS_Subset
<1>. QED
  BY <1>1, ListedOnce

(* Numbers of a sequence, listed. *)
LEMMA ListedPlaces ==
    ASSUME NEW V, NEW s \in Seq(V), NEW K \in SUBSET (DOMAIN s)
    PROVE  /\ K \in SUBSET Nat /\ IsFiniteSet(K)
           /\ Cardinality(K) \in Nat /\ Listed(K) \in [1 .. Cardinality(K) -> K]
           /\ DOMAIN s = 1 .. Len(s) /\ \A k \in DOMAIN s : k \in Nat /\ s[k] \in V
<1>1. DOMAIN s = 1 .. Len(s) /\ Len(s) \in Nat
  BY LenProperties
<1>2. K \in SUBSET Nat /\ IsFiniteSet(K)
  <2>1. IsFiniteSet(1 .. Len(s)) /\ K \subseteq 1 .. Len(s)
    BY <1>1, FS_Interval
  <2>. QED
    BY <2>1, FS_Subset
<1>3. Cardinality(K) \in Nat /\ Listed(K) \in [1 .. Cardinality(K) -> K]
  BY <1>2, ListedOnce
<1>. QED
  BY <1>1, <1>2, <1>3

-----------------------------------------------------------------------------
(* The helpers of the actions *)

(* A refreshed scope, cache and order memory. *)
LEMMA Refreshing ==
    ASSUME WorkerTypeOK, RefreshScope
    PROVE  /\ scope' = account /\ scope' \in Scopes
           /\ cache' \in Known /\ lastSynced' \in [Plans -> Order \cup {Absent}]
           /\ \A p \in Plans : lastSynced'[p] # Absent
                => scope' = scope /\ lastSynced'[p] = lastSynced[p]
<1>1. disk[account] \in Known /\ cache \in Known /\ account \in Scopes
  BY DEF WorkerTypeOK, Known
<1>2. cache' \in Known
  BY <1>1 DEF RefreshScope
<1>3. CASE Refreshed
  <2>1. lastSynced' = [p \in Plans |-> Absent]
    BY <1>3 DEF RefreshScope
  <2>. QED
    BY <1>1, <1>2, <2>1 DEF RefreshScope
<1>4. CASE ~Refreshed
  BY <1>1, <1>2, <1>4 DEF RefreshScope, Refreshed, WorkerTypeOK
<1>. QED
  BY <1>3, <1>4

(* A refresh takes what is known of the account from its file. *)
LEMMA RefreshingRemembers ==
    ASSUME WorkerTypeOK, MemoryInv, RefreshScope, UNCHANGED <<disk, cloud, accepted>>
    PROVE  MemoryInv'
<1>1. CacheIsHonest'
  BY DEF MemoryInv, CacheIsHonest
<1>2. scope' = account /\ account \in Scopes /\ LoggedOut \notin Accounts
  BY AccountsAssumption DEF RefreshScope, WorkerTypeOK
<1>3. ASSUME NEW p \in Plans, scope' \in Accounts, cache'[p] # Absent
      PROVE  cache'[p] \in accepted'[scope'][p]
  BY <1>2, <1>3 DEF MemoryInv, CacheIsHonest, RefreshScope, Refreshed
<1>4. ASSUME NEW p \in Plans, lastSynced'[p] # Absent
      PROVE  /\ scope' \in Accounts /\ cloud'[scope'][p] # Absent
             /\ cloud'[scope'][p].at >= lastSynced'[p].at
  <2>1. scope' = scope /\ lastSynced'[p] = lastSynced[p]
    BY <1>4, Refreshing
  <2>. QED
    BY <1>4, <2>1 DEF MemoryInv
<1>. QED
  BY <1>1, <1>3, <1>4 DEF MemoryInv

(* A pass begins or goes on. *)
LEMMA Processing ==
    ASSUME WorkerTypeOK, PassInv, QueuedOnce, NEW q, Process(q)
    PROVE  /\ pass' \in PassRec /\ OncePerPlan(pass'.batch)
           /\ pass'.counted < pass'.i /\ pass'.i <= Len(pass'.batch) + 1
           /\ pass'.pc = "await" <=> pass.pc = "await"
           /\ pass'.pc = "pick" <=> pass.pc = "pick"
           /\ pass.pc = "await" => pass' = pass
<1>1. CASE pass.pc = "idle" /\ q # <<>>
  <2>1. pass' = [Resting EXCEPT !.pc = "start"]
    BY <1>1 DEF Process
  <2>. QED
    BY <1>1, <2>1, BetweenBatches
<1>2. CASE ~(pass.pc = "idle" /\ q # <<>>)
  <2>1. pass' = pass
    BY <1>2 DEF Process
  <2>. QED
    BY <2>1, APass DEF QueuedOnce, PassInv
<1>. QED
  BY <1>1, <1>2

-----------------------------------------------------------------------------
(* The steps keep the invariant *)

(* The worker starts with nothing queued and nothing remembered. *)
LEMMA WorkerStarts == WorkerInit => WorkerInv
<1>. SUFFICES ASSUME WorkerInit PROVE WorkerInv
  OBVIOUS
<1>1. Resting \in PassRec /\ Resting.pc = "idle" /\ Resting.i = 1 /\ Resting.counted = 0
      /\ Resting.batch = <<>> /\ Len(<<>>) = 0
  BY BetweenBatches
<1>2. 1 \in Revs /\ 0 \in 0 .. MaxRetries /\ 0 \in 0 .. MaxFaults
  BY Bounds DEF Revs
<1>3. WorkerTypeOK
  <2>1. queue \in Seq(Payload) /\ retries \in Seq(Entries)
    BY EmptySeq DEF WorkerInit
  <2>2. Uncached \in Known
    BY DEF Uncached, Known
  <2>3. source \in [Plans -> [at : Nat, rev : Revs]]
    BY <1>2 DEF WorkerInit
  <2>4. cloud \in [Accounts -> [Plans -> Payload \cup {Absent}]]
        /\ accepted \in [Accounts -> [Plans -> SUBSET Revs]]
    BY DEF WorkerInit, Uncached
  <2>. QED
    BY <1>1, <1>2, <2>1, <2>2, <2>3, <2>4
    DEF WorkerInit, WorkerTypeOK, Scopes, PassRec, Known, Entries
<1>4. QueuedOnce
  BY <1>1, BetweenBatches DEF WorkerInit, QueuedOnce
<1>5. PassInv
  BY <1>1 DEF WorkerInit, PassInv
<1>6. RequestInv
  BY DEF WorkerInit, RequestInv
<1>7. ScopeInv
  BY <1>1 DEF WorkerInit, ScopeInv
<1>8. MemoryInv
  BY DEF WorkerInit, MemoryInv, CacheIsHonest, Uncached, Scopes
<1>. QED
  BY <1>3, <1>4, <1>5, <1>6, <1>7, <1>8 DEF WorkerInv

(* A scan, of the changed plans or of all. *)
LEMMA EnqueueKeeps ==
    ASSUME WorkerInv, NEW T \in SUBSET Plans, Enqueue(T)
    PROVE  WorkerInv'
<1>. USE DEF WorkerInv
<1> DEFINE need == Listed(NeedSync(T))
           built == [k \in DOMAIN need |-> Built(need[k])]
<1>1. queue' = Push(queue, built) /\ Process(queue') /\ RefreshScope
      /\ UNCHANGED <<source, account, disk, faults, retries, attempts, request, network>>
  BY DEF Enqueue
<1>2. built \in Seq(Payload)
  <2>1. NeedSync(T) \in SUBSET Plans
    BY DEF NeedSync
  <2>2. Cardinality(NeedSync(T)) \in Nat /\ need \in [1 .. Cardinality(NeedSync(T)) -> Plans]
    BY <2>1, ListedPlans
  <2>3. built \in [1 .. Cardinality(NeedSync(T)) -> Payload]
    BY <2>2, BuiltIsPayload
  <2>. QED
    BY <2>2, <2>3, AList
<1> HIDE DEF built
<1>3. AQueue(queue')
  BY <1>1, <1>2, PushKeeps DEF AQueue, WorkerTypeOK, QueuedOnce
<1>4. /\ pass' \in PassRec /\ OncePerPlan(pass'.batch)
      /\ pass'.counted < pass'.i /\ pass'.i <= Len(pass'.batch) + 1
      /\ pass'.pc = "await" <=> pass.pc = "await"
      /\ pass'.pc = "pick" <=> pass.pc = "pick"
      /\ pass.pc = "await" => pass' = pass
  BY <1>1, Processing
<1>5. /\ scope' = account /\ scope' \in Scopes
      /\ cache' \in Known /\ lastSynced' \in [Plans -> Order \cup {Absent}]
      /\ \A p \in Plans : lastSynced'[p] # Absent
           => scope' = scope /\ lastSynced'[p] = lastSynced[p]
  BY <1>1, Refreshing
<1>6. WorkerTypeOK'
  BY <1>1, <1>3, <1>4, <1>5 DEF WorkerTypeOK, AQueue, PassRec, Known, network
<1>7. QueuedOnce'
  BY <1>3, <1>4 DEF QueuedOnce, AQueue
<1>8. PassInv'
  BY <1>1, <1>4 DEF PassInv, More, Current
<1>9. RequestInv'
  <2>. SUFFICES ASSUME request # NoRequest PROVE RequestInv'
    BY <1>1 DEF RequestInv
  <2>1. request.payload.plan \in Plans
    BY AnUpload
  <2>. QED
    BY <1>1, <1>5, <2>1 DEF RequestInv, NewerThan, network
<1>10. ASSUME ScopeHolds PROVE ScopeInv' /\ MemoryInv'
  <2>1. ScopeInv'
    BY <1>1, <1>4, <1>5, <1>10 DEF ScopeInv
  <2>2. MemoryInv'
    BY <1>1, <1>10, RefreshingRemembers DEF network
  <2>. QED
    BY <2>1, <2>2
<1>. QED
  BY <1>6, <1>7, <1>8, <1>9, <1>10

(* The retry timer. *)
LEMMA FlushKeeps ==
    ASSUME WorkerInv, NEW ready \in SUBSET (DOMAIN retries), FlushRetries(ready)
    PROVE  WorkerInv'
<1>. USE DEF WorkerInv
<1> DEFINE fresh == {k \in ready : ~Superseded(retries[k].payload,
                                              lastSynced[retries[k].payload.plan])}
           up == Listed(fresh)
           due == Reverse(up)
           of(p) == {k \in fresh : retries[k].payload.plan = p}
           kept == Listed(DOMAIN retries \ ready)
           pushed == [k \in DOMAIN due |-> retries[due[k]].payload]
<1>1. /\ retries' = [k \in DOMAIN kept |-> retries[kept[k]]]
      /\ queue' = Push(queue, pushed)
      /\ attempts' = [p \in Plans |-> IF of(p) = {} THEN attempts[p]
                                      ELSE retries[Min(of(p))].attempt]
      /\ UNCHANGED pass \/ Process(queue')
      /\ UNCHANGED <<source, account, disk, faults, scope, cache, lastSynced, request, network>>
  BY DEF FlushRetries
<1>2. /\ retries \in Seq(Entries)
      /\ \A k \in DOMAIN retries : retries[k].payload \in Payload
                                   /\ retries[k].attempt \in 0 .. MaxRetries
  <2>1. retries \in Seq(Entries)
    BY DEF WorkerTypeOK, Entries
  <2>2. \A k \in DOMAIN retries : retries[k] \in Entries
    BY <2>1
  <2>. QED
    BY <2>1, <2>2, Bounds DEF Entries
<1>3. retries' \in Seq(Entries)
  <2> DEFINE K == DOMAIN retries \ ready
  <2>1. Cardinality(K) \in Nat /\ kept \in [1 .. Cardinality(K) -> K]
    BY <1>2, ListedPlaces
  <2>2. \A k \in DOMAIN retries : retries[k] \in Entries
    BY <1>2
  <2> HIDE DEF kept
  <2>3. retries' \in [1 .. Cardinality(K) -> Entries]
    BY <1>1, <2>1, <2>2
  <2>. QED
    BY <2>1, <2>3, AList
<1>4. pushed \in Seq(Payload)
  <2>1. Cardinality(fresh) \in Nat /\ up \in [1 .. Cardinality(fresh) -> fresh]
    BY <1>2, ListedPlaces
  <2>2. fresh \subseteq DOMAIN retries
    OBVIOUS
  <2> HIDE DEF fresh, up
  <2>3. Len(up) = Cardinality(fresh)
    BY <2>1, AList
  <2>4. due = [k \in 1 .. Cardinality(fresh) |-> up[(Cardinality(fresh) - k) + 1]]
    BY <2>3 DEF Reverse
  <2>5. due \in [1 .. Cardinality(fresh) -> fresh]
    BY <2>1, <2>4
  <2> HIDE DEF due
  <2>6. pushed \in [1 .. Cardinality(fresh) -> Payload]
    BY <1>2, <2>2, <2>5
  <2>. QED
    BY <2>1, <2>6, AList
<1>5. AQueue(queue')
  <2> HIDE DEF pushed
  <2>. QED
    BY <1>1, <1>4, PushKeeps DEF AQueue, WorkerTypeOK, QueuedOnce
<1>6. attempts' \in [Plans -> 0 .. MaxRetries]
  <2>1. ASSUME NEW p \in Plans, of(p) # {} PROVE Min(of(p)) \in DOMAIN retries
    <3>1. of(p) \subseteq DOMAIN retries /\ of(p) \subseteq Nat
      BY <1>2, ListedPlaces
    <3> HIDE DEF of
    <3>2. \E m \in of(p) : \A n \in of(p) : m <= n
      BY <2>1, <3>1, SmallestNumber
    <3>. QED
      BY <3>1, <3>2 DEF Min
  <2> HIDE DEF of
  <2>2. \A p \in Plans : attempts[p] \in 0 .. MaxRetries
    BY DEF WorkerTypeOK
  <2>. QED
    BY <1>1, <1>2, <2>1, <2>2
<1> HIDE DEF fresh, up, due, of, kept, pushed
<1>7. /\ pass' \in PassRec /\ OncePerPlan(pass'.batch)
      /\ pass'.counted < pass'.i /\ pass'.i <= Len(pass'.batch) + 1
      /\ pass'.pc = "await" <=> pass.pc = "await"
      /\ pass'.pc = "pick" <=> pass.pc = "pick"
      /\ pass.pc = "await" => pass' = pass
  <2>1. CASE Process(queue')
    BY <2>1, Processing
  <2>2. CASE UNCHANGED pass
    BY <2>2, APass DEF PassInv, QueuedOnce
  <2>. QED
    BY <1>1, <2>1, <2>2
<1>8. WorkerTypeOK'
  BY <1>1, <1>3, <1>5, <1>6, <1>7 DEF WorkerTypeOK, AQueue, PassRec, Entries, network
<1>9. QueuedOnce'
  BY <1>5, <1>7 DEF QueuedOnce, AQueue
<1>10. PassInv'
  BY <1>1, <1>7 DEF PassInv, More, Current
<1>11. RequestInv'
  BY <1>1 DEF RequestInv, NewerThan, network
<1>12. ASSUME ScopeHolds PROVE ScopeInv' /\ MemoryInv'
  BY <1>1, <1>7, <1>12 DEF ScopeInv, MemoryInv, CacheIsHonest, network
<1>. QED
  BY <1>8, <1>9, <1>10, <1>11, <1>12

(* A pass takes the queue. *)
LEMMA StartKeeps ==
    ASSUME WorkerInv, Start
    PROVE  WorkerInv'
<1>. USE DEF WorkerInv
<1>1. /\ pass.pc = "start" /\ RefreshScope /\ queue' = <<>>
      /\ pass' = [Resting EXCEPT !.pc = "pick", !.batch = queue]
      /\ UNCHANGED <<source, account, disk, faults, retries, attempts, request, network>>
  BY DEF Start, UnchangedByPass
<1>2. queue \in Seq(Payload) /\ OncePerPlan(queue) /\ Len(queue) \in Nat
  BY LenProperties DEF WorkerTypeOK, QueuedOnce
<1>3. pass' \in PassRec /\ pass'.pc = "pick" /\ pass'.batch = queue
      /\ pass'.i = 1 /\ pass'.counted = 0
  BY <1>1, <1>2, Beginning
<1>4. /\ scope' = account /\ scope' \in Scopes
      /\ cache' \in Known /\ lastSynced' \in [Plans -> Order \cup {Absent}]
  BY <1>1, Refreshing
<1>5. request = NoRequest
  BY <1>1 DEF PassInv
<1>6. WorkerTypeOK'
  BY <1>1, <1>3, <1>4, EmptySeq DEF WorkerTypeOK, PassRec, Known, network
<1>7. QueuedOnce'
  BY <1>1, <1>2, <1>3, BetweenBatches DEF QueuedOnce
<1>8. PassInv' /\ RequestInv'
  BY <1>1, <1>2, <1>3, <1>5 DEF PassInv, RequestInv
<1>9. ASSUME ScopeHolds PROVE ScopeInv' /\ MemoryInv'
  <2>1. ScopeInv'
    BY <1>1, <1>3, <1>4 DEF ScopeInv
  <2>2. MemoryInv'
    BY <1>1, <1>9, RefreshingRemembers DEF network
  <2>. QED
    BY <2>1, <2>2
<1>. QED
  BY <1>6, <1>7, <1>8, <1>9

(* The pass goes on to its next payload. *)
LEMMA NextPayload ==
    ASSUME WorkerTypeOK, PassInv, More, NEW n \in {0, 1}, NEW f \in Seq(Payload),
           pass' = [pass EXCEPT !.pc = "pick", !.i = @ + 1, !.counted = @ + n, !.failed = f]
    PROVE  /\ pass' \in PassRec /\ pass'.pc = "pick" /\ pass'.batch = pass.batch
           /\ pass'.counted < pass'.i /\ pass'.i <= Len(pass'.batch) + 1
<1>1. pass \in PassRec /\ Len(pass.batch) \in Nat /\ pass.i \in Nat /\ pass.counted \in Nat
  BY APass
<1>2. pass.i + 1 \in Nat /\ pass.counted + n \in Nat
  BY <1>1
<1>3. pass' \in PassRec
  BY <1>1, <1>2 DEF PassRec
<1>4. /\ pass'.pc = "pick" /\ pass'.batch = pass.batch
      /\ pass'.i = pass.i + 1 /\ pass'.counted = pass.counted + n
  BY <1>1 DEF PassRec
<1>5. pass.counted < pass.i /\ pass.i <= Len(pass.batch)
  BY DEF PassInv, More
<1>. QED
  BY <1>1, <1>3, <1>4, <1>5

(* The same, when nothing is added to the failed ones. *)
LEMMA GoingOn ==
    ASSUME WorkerTypeOK, PassInv, More, NEW n \in {0, 1},
           pass' = [pass EXCEPT !.pc = "pick", !.i = @ + 1, !.counted = @ + n]
    PROVE  /\ pass' \in PassRec /\ pass'.pc = "pick" /\ pass'.batch = pass.batch
           /\ pass'.counted < pass'.i /\ pass'.i <= Len(pass'.batch) + 1
<1>1. pass.failed \in Seq(Payload) /\ pass \in PassRec
  BY APass
<1>2. pass' = [pass EXCEPT !.pc = "pick", !.i = @ + 1, !.counted = @ + n, !.failed = pass.failed]
  BY <1>1 DEF PassRec
<1>. QED
  BY <1>1, <1>2, NextPayload

(* A payload that is superseded is dropped. *)
LEMMA SkipKeeps ==
    ASSUME WorkerInv, SkipSuperseded
    PROVE  WorkerInv'
<1>. USE DEF WorkerInv
<1>1. /\ pass.pc = "pick" /\ More
      /\ attempts' = [attempts EXCEPT ![Current.plan] = 0]
      /\ pass' = [pass EXCEPT !.i = @ + 1]
      /\ UNCHANGED <<source, account, faults, disk, scope, cache, queue, retries, lastSynced,
                     request, network>>
  BY DEF SkipSuperseded, UnchangedByPass
<1>2. pass \in PassRec /\ pass.i \in Nat /\ pass.counted \in Nat /\ pass.pc = "pick"
  BY <1>1, APass
<1>3. /\ pass' \in PassRec /\ pass'.pc = "pick" /\ pass'.batch = pass.batch
      /\ pass'.i = pass.i + 1 /\ pass'.counted = pass.counted
  BY <1>1, <1>2 DEF PassRec
<1>4. pass'.counted < pass'.i /\ pass'.i <= Len(pass'.batch) + 1
  <2>1. pass.counted < pass.i /\ pass.i <= Len(pass.batch) /\ Len(pass.batch) \in Nat
    BY <1>1, APass DEF PassInv, More
  <2>. QED
    BY <1>2, <1>3, <2>1
<1>5. attempts' \in [Plans -> 0 .. MaxRetries]
  <2>1. attempts \in [Plans -> 0 .. MaxRetries] /\ 0 \in 0 .. MaxRetries
    BY Bounds DEF WorkerTypeOK
  <2>. QED
    BY <1>1, <2>1
<1>6. request = NoRequest
  BY <1>1 DEF PassInv
<1>7. WorkerTypeOK'
  BY <1>1, <1>3, <1>5 DEF WorkerTypeOK, PassRec, network
<1>8. QueuedOnce' /\ PassInv' /\ RequestInv'
  BY <1>1, <1>3, <1>4, <1>6 DEF QueuedOnce, PassInv, RequestInv
<1>9. ASSUME ScopeHolds PROVE ScopeInv' /\ MemoryInv'
  BY <1>1, <1>3, <1>9 DEF ScopeInv, MemoryInv, CacheIsHonest, network
<1>. QED
  BY <1>7, <1>8, <1>9

(* A payload that nothing supersedes is newer. *)
LEMMA NotSuperseded ==
    ASSUME NEW x \in Payload, NEW ref \in Order \cup {Absent}, ~Superseded(x, ref), ref # Absent
    PROVE  NewerThan(x, ref)
<1>1. ref.at \in Nat /\ ref.seq \in Nat /\ x.at \in Nat /\ x.seq \in Nat
  BY DEF Order, Payload
<1>. QED
  BY <1>1 DEF Superseded, NewerThan

(* An upload is sent to the account of the config file. *)
LEMMA SendKeeps ==
    ASSUME WorkerInv, Send
    PROVE  WorkerInv'
<1>. USE DEF WorkerInv
<1>1. /\ pass.pc = "pick" /\ More /\ account # LoggedOut
      /\ ~Superseded(Current, lastSynced[Current.plan])
      /\ request' = [stage |-> "sent", scope |-> account, payload |-> Current]
      /\ pass' = [pass EXCEPT !.pc = "await"]
      /\ UNCHANGED <<source, account, faults, disk, scope, cache, queue, retries, attempts,
                     lastSynced, network>>
  BY DEF Send, UnchangedByPass
<1>2. pass \in PassRec /\ pass.i \in Nat /\ pass.counted \in Nat
  BY APass
<1>3. /\ pass' \in PassRec /\ pass'.pc = "await" /\ pass'.batch = pass.batch
      /\ pass'.i = pass.i /\ pass'.counted = pass.counted
  BY <1>1, <1>2 DEF PassRec
<1>4. Current \in Payload /\ Current.plan \in Plans
  BY <1>1, ACurrent
<1>5. account \in Accounts
  BY <1>1 DEF WorkerTypeOK, Scopes
<1>6. request' \in Uploads /\ request'.stage = "sent" /\ request'.scope = account
      /\ request'.payload = Current
  BY <1>1, <1>4, <1>5 DEF Uploads
<1>7. request' # NoRequest
  BY <1>1 DEF NoRequest
<1>8. Current' = Current /\ (More <=> More')
  BY <1>3 DEF Current, More
<1>9. WorkerTypeOK'
  BY <1>1, <1>3, <1>6 DEF WorkerTypeOK, PassRec, Uploads, network
<1>10. QueuedOnce'
  BY <1>1, <1>3 DEF QueuedOnce
<1>11. PassInv'
  BY <1>1, <1>3, <1>6, <1>7, <1>8 DEF PassInv
<1>12. RequestInv'
  <2>1. lastSynced[Current.plan] \in Order \cup {Absent}
    BY <1>4 DEF WorkerTypeOK
  <2>2. lastSynced[Current.plan] # Absent => NewerThan(Current, lastSynced[Current.plan])
    BY <1>1, <1>4, <2>1, NotSuperseded
  <2>. QED
    BY <1>1, <1>6, <2>2 DEF RequestInv, NewerThan
<1>13. ASSUME ScopeHolds PROVE ScopeInv' /\ MemoryInv'
  <2>1. ScopeInv'
    BY <1>1, <1>3, <1>6, <1>13 DEF ScopeInv
  <2>2. MemoryInv'
    BY <1>1, <1>13 DEF MemoryInv, CacheIsHonest, network
  <2>. QED
    BY <2>1, <2>2
<1>. QED
  BY <1>9, <1>10, <1>11, <1>12, <1>13

(* Nothing was uploaded: what the pass had left is queued again. *)
LEMMA RejectedKeeps ==
    ASSUME WorkerInv, Rejected, faults' \in 0 .. MaxFaults, faults' >= faults,
           late' \subseteq [scope : Accounts, payload : Payload]
    PROVE  WorkerInv'
<1>. USE DEF WorkerInv
<1>1. /\ queue' = Push(queue, SubSeq(pass.batch, pass.counted + 1, Len(pass.batch)))
      /\ pass' = [pass EXCEPT !.pc = "finish"]
      /\ request' = NoRequest
      /\ UNCHANGED <<source, account, disk, scope, cache, retries, attempts, lastSynced,
                     cloud, accepted>>
  BY DEF Rejected
<1>2. pass \in PassRec /\ pass.i \in Nat /\ pass.counted \in Nat /\ Len(pass.batch) \in Nat
      /\ pass.batch \in Seq(Payload)
  BY APass
<1>3. /\ pass' \in PassRec /\ pass'.pc = "finish" /\ pass'.batch = pass.batch
      /\ pass'.i = pass.i /\ pass'.counted = pass.counted
  BY <1>1, <1>2 DEF PassRec
<1>4. AQueue(queue')
  <2>1. \A j \in pass.counted + 1 .. Len(pass.batch) : pass.batch[j] \in Payload
    BY <1>2
  <2>2. SubSeq(pass.batch, pass.counted + 1, Len(pass.batch)) \in Seq(Payload)
    BY <1>2, <2>1, SubSeqProperties
  <2>. QED
    BY <1>1, <2>2, PushKeeps DEF AQueue, WorkerTypeOK, QueuedOnce
<1>5. WorkerTypeOK'
  BY <1>1, <1>3, <1>4 DEF WorkerTypeOK, PassRec, AQueue
<1>6. QueuedOnce'
  BY <1>3, <1>4 DEF QueuedOnce, AQueue
<1>7. PassInv' /\ RequestInv'
  BY <1>1, <1>3 DEF PassInv, RequestInv
<1>8. ASSUME ScopeHolds PROVE ScopeInv' /\ MemoryInv'
  BY <1>1, <1>3, <1>8 DEF ScopeInv, MemoryInv, CacheIsHonest
<1>. QED
  BY <1>5, <1>6, <1>7, <1>8

(* Without credentials nothing is sent. *)
LEMMA SendLoggedOutKeeps ==
    ASSUME WorkerInv, SendLoggedOut
    PROVE  WorkerInv'
<1>1. Rejected /\ UNCHANGED <<late, faults>>
  BY DEF SendLoggedOut
<1>2. faults \in 0 .. MaxFaults /\ late \subseteq [scope : Accounts, payload : Payload]
  BY DEF WorkerInv, WorkerTypeOK
<1>. QED
  BY <1>1, <1>2, RejectedKeeps

(* The connection fails, and the upload may arrive later. *)
LEMMA ConnectionFailsKeeps ==
    ASSUME WorkerInv, ConnectionFails
    PROVE  WorkerInv'
<1>1. Rejected /\ pass.pc = "await"
  BY DEF ConnectionFails
<1>2. faults \in 0 .. MaxFaults /\ late \subseteq [scope : Accounts, payload : Payload]
  BY DEF WorkerInv, WorkerTypeOK
<1>3. CASE UNCHANGED <<late, faults>>
  BY <1>1, <1>2, <1>3, RejectedKeeps
<1>4. CASE Fault /\ late' = late \cup {[scope |-> request.scope, payload |-> request.payload]}
  <2>1. request # NoRequest
    BY <1>1 DEF WorkerInv, PassInv
  <2>2. request.scope \in Accounts /\ request.payload \in Payload
    BY <2>1, AnUpload DEF WorkerInv
  <2>3. late' \subseteq [scope : Accounts, payload : Payload]
    BY <1>2, <1>4, <2>2
  <2>4. faults' \in 0 .. MaxFaults /\ faults' >= faults
    BY <1>2, <1>4, Bounds DEF Fault
  <2>. QED
    BY <1>1, <2>3, <2>4, RejectedKeeps
<1>. QED
  BY <1>3, <1>4 DEF ConnectionFails

(* The answer is for an account the worker has left. *)
LEMMA AnswerAfterSwitchKeeps ==
    ASSUME WorkerInv, AnswerAfterSwitch
    PROVE  WorkerInv'
<1>. USE DEF WorkerInv
<1>1. /\ pass.pc = "await" /\ More /\ RefreshScope
      /\ queue' = Push(queue, <<Current>>)
      /\ pass' = [pass EXCEPT !.pc = "pick", !.i = @ + 1, !.counted = @ + 0]
      /\ request' = NoRequest
      /\ UNCHANGED <<source, account, faults, disk, network, retries, attempts>>
  BY DEF AnswerAfterSwitch, Answered, UnchangedByPass, GoOn, PassInv
<1>2. /\ pass' \in PassRec /\ pass'.pc = "pick" /\ pass'.batch = pass.batch
      /\ pass'.counted < pass'.i /\ pass'.i <= Len(pass'.batch) + 1
  BY <1>1, GoingOn
<1>3. AQueue(queue')
  <2>1. <<Current>> \in Seq(Payload)
    BY <1>1, ACurrent
  <2>. QED
    BY <1>1, <2>1, PushKeeps DEF AQueue, WorkerTypeOK, QueuedOnce
<1>4. /\ scope' = account /\ scope' \in Scopes
      /\ cache' \in Known /\ lastSynced' \in [Plans -> Order \cup {Absent}]
  BY <1>1, Refreshing
<1>5. WorkerTypeOK'
  BY <1>1, <1>2, <1>3, <1>4 DEF WorkerTypeOK, PassRec, Known, AQueue, network
<1>6. QueuedOnce' /\ PassInv' /\ RequestInv'
  BY <1>1, <1>2, <1>3 DEF QueuedOnce, AQueue, PassInv, RequestInv
<1>7. ASSUME ScopeHolds PROVE ScopeInv' /\ MemoryInv'
  <2>1. ScopeInv'
    BY <1>1, <1>2, <1>4 DEF ScopeInv
  <2>2. MemoryInv'
    BY <1>1, <1>7, RefreshingRemembers DEF network
  <2>. QED
    BY <2>1, <2>2
<1>. QED
  BY <1>5, <1>6, <1>7

(* The upload that is cached was accepted. *)
LEMMA Caching ==
    ASSUME WorkerTypeOK, PassInv, RequestInv, pass.pc = "await", request.stage # "sent",
           CacheCurrent
    PROVE  /\ Current \in Payload /\ Current.plan \in Plans /\ Current = request.payload
           /\ cache' \in Known /\ attempts' \in [Plans -> 0 .. MaxRetries]
           /\ \A p \in Plans : cache'[p] # Absent
                => \/ cache'[p] = cache[p]
                   \/ p = Current.plan /\ cache'[p] \in accepted[request.scope][p]
<1>1. More /\ request # NoRequest /\ Current = request.payload
  BY DEF PassInv
<1>2. Current \in Payload /\ Current.plan \in Plans /\ Current.rev \in Revs
  BY <1>1, ACurrent
<1>3. cache' = [cache EXCEPT ![Current.plan] = Current.rev]
      /\ attempts' = [attempts EXCEPT ![Current.plan] = 0]
  BY DEF CacheCurrent
<1>4. cache \in Known /\ attempts \in [Plans -> 0 .. MaxRetries] /\ 0 \in 0 .. MaxRetries
  BY Bounds DEF WorkerTypeOK, Known
<1>5. Current.rev \in accepted[request.scope][Current.plan]
  BY <1>1 DEF RequestInv
<1>6. \A p \in Plans : cache'[p] = IF p = Current.plan THEN Current.rev ELSE cache[p]
  BY <1>3, <1>4 DEF Known
<1>7. cache' \in Known
  BY <1>2, <1>3, <1>4 DEF Known
<1>8. attempts' \in [Plans -> 0 .. MaxRetries]
  BY <1>3, <1>4
<1>. QED
  BY <1>1, <1>2, <1>5, <1>6, <1>7, <1>8

(* The answer is for the account the worker has. *)
LEMMA AnsweredInScope ==
    ASSUME WorkerInv, ScopeHolds, Answered, SameScope
    PROVE  scope = account /\ request.scope = scope /\ scope \in Accounts
<1>1. pass.pc = "await" /\ request # NoRequest
  BY DEF Answered, WorkerInv, PassInv
<1>2. request.scope \in Accounts
  BY <1>1, AnUpload DEF WorkerInv
<1>. QED
  BY <1>1, <1>2 DEF WorkerInv, ScopeInv, SameScope

(* The upload was stored. *)
LEMMA AnswerOkKeeps ==
    ASSUME WorkerInv, AnswerOk
    PROVE  WorkerInv'
<1>. USE DEF WorkerInv
<1>1. /\ pass.pc = "await" /\ More /\ Answered /\ SameScope /\ request.stage = "applied"
      /\ CacheCurrent
      /\ lastSynced' = [lastSynced EXCEPT ![Current.plan] =
                          [at |-> Current.at, seq |-> Current.seq]]
      /\ pass' = [pass EXCEPT !.pc = "pick", !.i = @ + 1, !.counted = @ + 1]
      /\ request' = NoRequest
      /\ UNCHANGED <<source, account, faults, disk, network, scope, queue, retries>>
  BY DEF AnswerOk, Answered, UnchangedByPass, GoOn, PassInv
<1>2. /\ pass' \in PassRec /\ pass'.pc = "pick" /\ pass'.batch = pass.batch
      /\ pass'.counted < pass'.i /\ pass'.i <= Len(pass'.batch) + 1
  BY <1>1, GoingOn
<1>3. /\ Current \in Payload /\ Current.plan \in Plans /\ Current = request.payload
      /\ cache' \in Known /\ attempts' \in [Plans -> 0 .. MaxRetries]
      /\ \A p \in Plans : cache'[p] # Absent
           => \/ cache'[p] = cache[p]
              \/ p = Current.plan /\ cache'[p] \in accepted[request.scope][p]
  BY <1>1, Caching
<1> DEFINE o == [at |-> Current.at, seq |-> Current.seq]
<1>4. o \in Order /\ o.at = Current.at
  BY <1>3 DEF Payload, Order
<1>5. /\ lastSynced' \in [Plans -> Order \cup {Absent}]
      /\ \A p \in Plans : lastSynced'[p] = IF p = Current.plan THEN o ELSE lastSynced[p]
  <2>1. lastSynced \in [Plans -> Order \cup {Absent}]
    BY DEF WorkerTypeOK
  <2> HIDE DEF o
  <2>2. lastSynced' = [lastSynced EXCEPT ![Current.plan] = o]
    BY <1>1 DEF o
  <2>. QED
    BY <1>3, <1>4, <2>1, <2>2
<1> HIDE DEF o
<1>6. WorkerTypeOK'
  BY <1>1, <1>2, <1>3, <1>5 DEF WorkerTypeOK, PassRec, Known, network
<1>7. QueuedOnce' /\ PassInv' /\ RequestInv'
  BY <1>1, <1>2 DEF QueuedOnce, PassInv, RequestInv
<1>8. ASSUME ScopeHolds PROVE ScopeInv' /\ MemoryInv'
  <2>1. scope = account /\ request.scope = scope /\ scope \in Accounts
    BY <1>1, <1>8, AnsweredInScope
  <2>2. ScopeInv'
    BY <1>1, <1>2, <2>1 DEF ScopeInv
  <2>3. CacheIsHonest'
    BY <1>1, <1>8 DEF MemoryInv, CacheIsHonest, network
  <2>4. ASSUME NEW p \in Plans, cache'[p] # Absent PROVE cache'[p] \in accepted'[scope'][p]
    BY <1>1, <1>3, <1>8, <2>1, <2>4 DEF MemoryInv, network
  <2>5. ASSUME NEW p \in Plans, lastSynced'[p] # Absent
        PROVE  cloud'[scope'][p] # Absent /\ cloud'[scope'][p].at >= lastSynced'[p].at
    <3>1. CASE p = Current.plan
      <4>1. cloud[scope][p] # Absent /\ cloud[scope][p].at >= Current.at
        BY <1>1, <1>3, <2>1, <3>1 DEF RequestInv, PassInv
      <4>. QED
        BY <1>1, <1>4, <1>5, <3>1, <4>1 DEF network
    <3>2. CASE p # Current.plan
      BY <1>1, <1>5, <1>8, <2>5, <3>2 DEF MemoryInv, network
    <3>. QED
      BY <3>1, <3>2
  <2>6. MemoryInv'
    BY <1>1, <2>1, <2>3, <2>4, <2>5 DEF MemoryInv
  <2>. QED
    BY <2>2, <2>6
<1>. QED
  BY <1>6, <1>7, <1>8

(* The upload was too large for the cloud. *)
LEMMA AnswerTooLargeKeeps ==
    ASSUME WorkerInv, AnswerTooLarge
    PROVE  WorkerInv'
<1>. USE DEF WorkerInv
<1>1. /\ pass.pc = "await" /\ More /\ Answered /\ SameScope /\ request.stage = "refused"
      /\ CacheCurrent
      /\ pass' = [pass EXCEPT !.pc = "pick", !.i = @ + 1, !.counted = @ + 1]
      /\ request' = NoRequest
      /\ UNCHANGED <<source, account, faults, disk, network, scope, queue, retries, lastSynced>>
  BY DEF AnswerTooLarge, Answered, UnchangedByPass, GoOn, PassInv
<1>2. /\ pass' \in PassRec /\ pass'.pc = "pick" /\ pass'.batch = pass.batch
      /\ pass'.counted < pass'.i /\ pass'.i <= Len(pass'.batch) + 1
  BY <1>1, GoingOn
<1>3. /\ cache' \in Known /\ attempts' \in [Plans -> 0 .. MaxRetries]
      /\ \A p \in Plans : cache'[p] # Absent
           => \/ cache'[p] = cache[p]
              \/ p = Current.plan /\ cache'[p] \in accepted[request.scope][p]
  BY <1>1, Caching
<1>4. WorkerTypeOK'
  BY <1>1, <1>2, <1>3 DEF WorkerTypeOK, PassRec, Known, network
<1>5. QueuedOnce' /\ PassInv' /\ RequestInv'
  BY <1>1, <1>2 DEF QueuedOnce, PassInv, RequestInv
<1>6. ASSUME ScopeHolds PROVE ScopeInv' /\ MemoryInv'
  <2>1. scope = account /\ request.scope = scope /\ scope \in Accounts
    BY <1>1, <1>6, AnsweredInScope
  <2>2. ScopeInv'
    BY <1>1, <1>2, <2>1 DEF ScopeInv
  <2>3. CacheIsHonest'
    BY <1>1, <1>6 DEF MemoryInv, CacheIsHonest, network
  <2>4. ASSUME NEW p \in Plans, cache'[p] # Absent PROVE cache'[p] \in accepted'[scope'][p]
    BY <1>1, <1>3, <1>6, <2>1, <2>4 DEF MemoryInv, network
  <2>5. MemoryInv'
    BY <1>1, <1>6, <2>3, <2>4 DEF MemoryInv, network
  <2>. QED
    BY <2>2, <2>5
<1>. QED
  BY <1>4, <1>5, <1>6

(* The upload failed and is tried again later. *)
LEMMA AnswerFailedKeeps ==
    ASSUME WorkerInv, AnswerFailed
    PROVE  WorkerInv'
<1>. USE DEF WorkerInv
<1> DEFINE f == Append(pass.failed, Current)
<1>1. /\ pass.pc = "await" /\ More /\ Answered /\ SameScope
      /\ pass' = [pass EXCEPT !.pc = "pick", !.i = @ + 1, !.counted = @ + 1, !.failed = f]
      /\ request' = NoRequest
      /\ UNCHANGED <<source, account, faults, disk, network, scope, cache, queue, retries,
                     attempts, lastSynced>>
  BY DEF AnswerFailed, Answered, UnchangedByPass, PassInv
<1>2. f \in Seq(Payload)
  BY <1>1, ACurrent, APass
<1> HIDE DEF f
<1>3. /\ pass' \in PassRec /\ pass'.pc = "pick" /\ pass'.batch = pass.batch
      /\ pass'.counted < pass'.i /\ pass'.i <= Len(pass'.batch) + 1
  BY <1>1, <1>2, NextPayload
<1>4. WorkerTypeOK'
  BY <1>1, <1>3 DEF WorkerTypeOK, PassRec, network
<1>5. QueuedOnce' /\ PassInv' /\ RequestInv'
  BY <1>1, <1>3 DEF QueuedOnce, PassInv, RequestInv
<1>6. ASSUME ScopeHolds PROVE ScopeInv' /\ MemoryInv'
  <2>1. scope = account
    BY <1>1, <1>6, AnsweredInScope
  <2>2. ScopeInv'
    BY <1>1, <1>3, <2>1 DEF ScopeInv
  <2>3. MemoryInv'
    BY <1>1, <1>6 DEF MemoryInv, CacheIsHonest, network
  <2>. QED
    BY <2>2, <2>3
<1>. QED
  BY <1>4, <1>5, <1>6

(* The token has expired: nothing waits any more. *)
LEMMA AnswerExpiredKeeps ==
    ASSUME WorkerInv, AnswerExpired
    PROVE  WorkerInv'
<1>. USE DEF WorkerInv
<1>1. /\ queue' = <<>> /\ retries' = <<>> /\ request' = NoRequest
      /\ pass' = [pass EXCEPT !.pc = "finish"]
      /\ UNCHANGED <<source, account, faults, disk, network, scope, cache, attempts, lastSynced>>
  BY DEF AnswerExpired, Answered, UnchangedByPass
<1>2. pass \in PassRec
  BY APass
<1>3. /\ pass' \in PassRec /\ pass'.pc = "finish" /\ pass'.batch = pass.batch
      /\ pass'.i = pass.i /\ pass'.counted = pass.counted
  BY <1>1, <1>2 DEF PassRec
<1>4. WorkerTypeOK'
  BY <1>1, <1>3, EmptySeq DEF WorkerTypeOK, PassRec, network
<1>5. QueuedOnce'
  BY <1>1, <1>3, BetweenBatches DEF QueuedOnce
<1>6. PassInv' /\ RequestInv'
  BY <1>1, <1>3 DEF PassInv, RequestInv
<1>7. ASSUME ScopeHolds PROVE ScopeInv' /\ MemoryInv'
  BY <1>1, <1>3, <1>7 DEF ScopeInv, MemoryInv, CacheIsHonest, network
<1>. QED
  BY <1>4, <1>5, <1>6, <1>7

(* The pass ends: failed uploads are scheduled, the cache is saved. *)
LEMMA FinishKeeps ==
    ASSUME WorkerInv, Finish
    PROVE  WorkerInv'
<1>. USE DEF WorkerInv
<1> DEFINE K == {k \in DOMAIN pass.failed : Scheduled(pass.failed[k])}
           again == Listed(K)
           due == [k \in DOMAIN again |-> Retry(pass.failed[again[k]])]
<1>1. /\ pass.pc # "await"
      /\ retries' = retries \o due
      /\ attempts' = [p \in Plans |->
           IF \E k \in DOMAIN pass.failed : pass.failed[k].plan = p THEN 0 ELSE attempts[p]]
      /\ disk' = IF pass.counted > 0 THEN [disk EXCEPT ![scope] = Merged(disk[scope])] ELSE disk
      /\ pass' = IF queue = <<>> THEN Resting ELSE [Resting EXCEPT !.pc = "start"]
      /\ UNCHANGED <<source, account, faults, scope, cache, queue, lastSynced, request, network>>
  BY DEF Finish, UnchangedByPass
<1>2. retries' \in Seq(Entries)
  <2>1. pass.failed \in Seq(Payload)
    BY APass
  <2>2. /\ Cardinality(K) \in Nat /\ again \in [1 .. Cardinality(K) -> K]
        /\ \A k \in DOMAIN pass.failed : pass.failed[k] \in Payload
    <3> DEFINE s == pass.failed
    <3>1. K \in SUBSET (DOMAIN s)
      OBVIOUS
    <3> HIDE DEF s, K
    <3>2. s \in Seq(Payload)
      BY <2>1 DEF s
    <3>. QED
      BY <3>1, <3>2, ListedPlaces DEF s
  <2>3. ASSUME NEW k \in K PROVE Retry(pass.failed[k]) \in Entries
    <3>1. pass.failed[k].plan \in Plans /\ pass.failed[k] \in Payload
      BY <2>2 DEF Payload
    <3>2. attempts[pass.failed[k].plan] \in 0 .. MaxRetries
          /\ attempts[pass.failed[k].plan] < MaxRetries
      BY <3>1 DEF WorkerTypeOK, Scheduled
    <3>3. attempts[pass.failed[k].plan] + 1 \in 1 .. MaxRetries
      BY <3>2, Bounds
    <3>. QED
      BY <3>1, <3>3 DEF Retry, Entries
  <2> HIDE DEF K, again
  <2>4. due \in [1 .. Cardinality(K) -> Entries]
    BY <2>2, <2>3
  <2> HIDE DEF due
  <2>5. due \in Seq(Entries) /\ retries \in Seq(Entries)
    BY <2>2, <2>4, AList DEF WorkerTypeOK, Entries
  <2>. QED
    BY <1>1, <2>5, ConcatProperties
<1> HIDE DEF K, again, due
<1>3. attempts' \in [Plans -> 0 .. MaxRetries]
  <2>1. \A p \in Plans : attempts[p] \in 0 .. MaxRetries
    BY DEF WorkerTypeOK
  <2>. QED
    BY <1>1, <2>1, Bounds
<1>4. /\ disk' \in [Scopes -> Known]
      /\ \A s \in Scopes, p \in Plans :
           disk'[s][p] = disk[s][p] \/ (s = scope /\ disk'[s][p] = cache[p])
  <2>1. disk \in [Scopes -> Known] /\ cache \in Known /\ scope \in Scopes
    BY DEF WorkerTypeOK, Known
  <2> DEFINE m == Merged(disk[scope])
  <2>2. disk[scope] \in Known
    BY <2>1
  <2>3. m \in Known /\ \A p \in Plans : m[p] = cache[p] \/ m[p] = disk[scope][p]
    BY <2>1, <2>2 DEF Merged, Known
  <2> HIDE DEF m
  <2>4. disk' = IF pass.counted > 0 THEN [disk EXCEPT ![scope] = m] ELSE disk
    BY <1>1 DEF m
  <2>5. disk' \in [Scopes -> Known]
        /\ \A s \in Scopes : disk'[s] = disk[s] \/ (s = scope /\ disk'[s] = m)
    BY <2>1, <2>3, <2>4
  <2>. QED
    BY <2>3, <2>5
<1>5. /\ pass' \in PassRec /\ pass'.pc \in {"idle", "start"} /\ OncePerPlan(pass'.batch)
      /\ pass'.i = 1 /\ pass'.counted = 0 /\ Len(pass'.batch) = 0
  <2>1. CASE queue = <<>>
    BY <1>1, <2>1, BetweenBatches
  <2>2. CASE queue # <<>>
    BY <1>1, <2>2, BetweenBatches
  <2>. QED
    BY <2>1, <2>2
<1>6. request = NoRequest
  BY <1>1 DEF PassInv
<1>7. WorkerTypeOK'
  BY <1>1, <1>2, <1>3, <1>4, <1>5 DEF WorkerTypeOK, PassRec, Known, Entries, network
<1>8. QueuedOnce' /\ PassInv' /\ RequestInv'
  BY <1>1, <1>5, <1>6 DEF QueuedOnce, PassInv, RequestInv
<1>9. ASSUME ScopeHolds PROVE ScopeInv' /\ MemoryInv'
  <2>1. ScopeInv'
    BY <1>5 DEF ScopeInv
  <2>2. CacheIsHonest'
    <3>. SUFFICES ASSUME NEW s \in Accounts, NEW p \in Plans, disk'[s][p] # Absent
                  PROVE  disk'[s][p] \in accepted[s][p]
      BY <1>1 DEF CacheIsHonest, network
    <3>1. disk'[s][p] = disk[s][p] \/ (s = scope /\ disk'[s][p] = cache[p])
      BY <1>4 DEF Scopes
    <3>. QED
      BY <1>9, <3>1 DEF MemoryInv, CacheIsHonest
  <2>3. MemoryInv'
    BY <1>1, <1>9, <2>2 DEF MemoryInv, network
  <2>. QED
    BY <2>1, <2>3
<1>. QED
  BY <1>7, <1>8, <1>9

(* What the cloud shows only gets newer, what it answered for stays so. *)
CloudGoesOn ==
    /\ cloud' \in [Accounts -> [Plans -> Payload \cup {Absent}]]
    /\ accepted' \in [Accounts -> [Plans -> SUBSET Revs]]
    /\ \A s \in Accounts, p \in Plans :
         /\ cloud[s][p] # Absent => cloud'[s][p] # Absent /\ cloud'[s][p].at >= cloud[s][p].at
         /\ accepted[s][p] \subseteq accepted'[s][p]

(* A payload is stored unless it is older than the row. *)
LEMMA Storing ==
    ASSUME WorkerTypeOK, NEW s \in Accounts, NEW x \in Payload, Store(s, x)
    PROVE  /\ CloudGoesOn
           /\ cloud'[s][x.plan] # Absent /\ cloud'[s][x.plan].at >= x.at
           /\ x.rev \in accepted'[s][x.plan]
           /\ \A t \in Accounts, p \in Plans :
                cloud'[t][p] # cloud[t][p] => t = s /\ p = x.plan /\ cloud'[t][p] = x
<1>1. x.plan \in Plans /\ x.at \in Nat /\ x.rev \in Revs
  BY DEF Payload
<1>2. /\ cloud \in [Accounts -> [Plans -> Payload \cup {Absent}]]
      /\ accepted \in [Accounts -> [Plans -> SUBSET Revs]]
  BY DEF WorkerTypeOK
<1> DEFINE row == cloud[s][x.plan]
           new == Stored(row, x)
           took == accepted[s][x.plan] \cup {x.rev}
<1>3. /\ row \in Payload \cup {Absent} /\ Absent \notin Payload
      /\ row # Absent => row.at \in Nat
  <2>1. row \in Payload \cup {Absent}
    BY <1>1, <1>2
  <2> HIDE DEF row
  <2>2. Absent \notin Payload
    BY AbsentAssumption
  <2>. QED
    BY <2>1, <2>2 DEF Payload
<1>4. /\ new \in Payload /\ new # Absent /\ new.at >= x.at
      /\ row # Absent => new.at >= row.at
      /\ new = row \/ new = x
  <2> HIDE DEF row
  <2>1. CASE row # Absent /\ x.at < row.at
    <3>1. new = row /\ row \in Payload
      BY <1>3, <2>1 DEF Stored
    <3>. QED
      BY <1>1, <1>3, <2>1, <3>1
  <2>2. CASE ~(row # Absent /\ x.at < row.at)
    <3>1. new = x
      BY <2>2 DEF Stored
    <3>. QED
      BY <1>1, <1>3, <2>2, <3>1
  <2>. QED
    BY <2>1, <2>2
<1>5. took \in SUBSET Revs /\ accepted[s][x.plan] \subseteq took /\ x.rev \in took
  BY <1>1, <1>2
<1>6. /\ cloud' = [cloud EXCEPT ![s][x.plan] = new]
      /\ accepted' = [accepted EXCEPT ![s][x.plan] = took]
  BY DEF Store
<1> HIDE DEF new, took
<1>7. /\ cloud' \in [Accounts -> [Plans -> Payload \cup {Absent}]]
      /\ accepted' \in [Accounts -> [Plans -> SUBSET Revs]]
  BY <1>1, <1>2, <1>4, <1>5, <1>6
<1>8. \A t \in Accounts, p \in Plans :
        /\ cloud'[t][p] = IF t = s /\ p = x.plan THEN new ELSE cloud[t][p]
        /\ accepted'[t][p] = IF t = s /\ p = x.plan THEN took ELSE accepted[t][p]
  BY <1>1, <1>2, <1>6
<1>9. ASSUME NEW t \in Accounts, NEW p \in Plans, cloud[t][p] # Absent
      PROVE  cloud'[t][p] # Absent /\ cloud'[t][p].at >= cloud[t][p].at
  <2>1. CASE t = s /\ p = x.plan
    BY <1>4, <1>8, <1>9, <2>1
  <2>2. CASE ~(t = s /\ p = x.plan)
    <3>1. cloud[t][p] \in Payload
      BY <1>2, <1>9
    <3>2. cloud[t][p].at \in Nat
      BY <3>1 DEF Payload
    <3>. QED
      BY <1>8, <1>9, <2>2, <3>2
  <2>. QED
    BY <2>1, <2>2
<1>10. \A t \in Accounts, p \in Plans : accepted[t][p] \subseteq accepted'[t][p]
  BY <1>5, <1>8
<1>11. \A t \in Accounts, p \in Plans :
         cloud'[t][p] # cloud[t][p] => t = s /\ p = x.plan /\ cloud'[t][p] = x
  BY <1>4, <1>8
<1>. QED
  BY <1>1, <1>4, <1>5, <1>7, <1>8, <1>9, <1>10, <1>11 DEF CloudGoesOn

(* What is remembered stays true when the cloud goes on. *)
LEMMA MemoryStays ==
    ASSUME WorkerTypeOK, MemoryInv, CloudGoesOn, UNCHANGED <<disk, scope, cache, lastSynced>>
    PROVE  MemoryInv'
<1>1. CacheIsHonest'
  BY DEF MemoryInv, CacheIsHonest, CloudGoesOn
<1>2. ASSUME NEW p \in Plans, scope \in Accounts, cache[p] # Absent
      PROVE  cache[p] \in accepted'[scope][p]
  BY <1>2 DEF MemoryInv, CloudGoesOn
<1>3. ASSUME NEW p \in Plans, lastSynced[p] # Absent
      PROVE  /\ scope \in Accounts /\ cloud'[scope][p] # Absent
             /\ cloud'[scope][p].at >= lastSynced[p].at
  <2>1. scope \in Accounts /\ cloud[scope][p] # Absent /\ cloud[scope][p].at >= lastSynced[p].at
    BY <1>3 DEF MemoryInv
  <2>2. cloud'[scope][p] # Absent /\ cloud'[scope][p].at >= cloud[scope][p].at
    BY <2>1 DEF CloudGoesOn
  <2>3. cloud[scope][p].at \in Nat /\ cloud'[scope][p].at \in Nat /\ lastSynced[p].at \in Nat
    <3>1. cloud[scope][p] \in Payload /\ cloud'[scope][p] \in Payload /\ lastSynced[p] \in Order
      BY <1>3, <2>1, <2>2 DEF WorkerTypeOK, CloudGoesOn
    <3>. QED
      BY <3>1 DEF Payload, Order
  <2>. QED
    BY <2>1, <2>2, <2>3
<1>. QED
  BY <1>1, <1>2, <1>3 DEF MemoryInv

(* The request of the pass and the same request, answered. *)
LEMMA AnsweredUpload ==
    ASSUME WorkerTypeOK, request # NoRequest, NEW c \in {"applied", "refused"},
           request' = [request EXCEPT !.stage = c]
    PROVE  /\ request' \in Uploads /\ request' # NoRequest /\ request'.stage = c
           /\ request'.scope = request.scope /\ request'.payload = request.payload
<1>1. request \in Uploads
  BY AnUpload
<1>2. /\ request' \in Uploads /\ request'.stage = c
      /\ request'.scope = request.scope /\ request'.payload = request.payload
  BY <1>1 DEF Uploads
<1>3. NoRequest.stage = "none"
  BY DEF NoRequest
<1>. QED
  BY <1>2, <1>3

(* The cloud answers the upload the pass awaits. *)
LEMMA ArriveKeeps ==
    ASSUME WorkerInv, Arrive
    PROVE  WorkerInv'
<1>. USE DEF WorkerInv
<1> DEFINE x == request.payload
           s == request.scope
<1>1. /\ request.stage = "sent"
      /\ UNCHANGED <<source, account, disk, faults, scope, cache, queue, retries, attempts,
                     lastSynced, pass, late>>
  BY DEF Arrive, UnchangedByCloud
<1>2. request # NoRequest
  BY <1>1 DEF NoRequest
<1>3. s \in Accounts /\ x \in Payload /\ x.plan \in Plans /\ x.rev \in Revs /\ x.at \in Nat
  BY <1>2, AnUpload
<1>4. /\ CloudGoesOn /\ x.rev \in accepted'[s][x.plan]
      /\ request' \in Uploads /\ request' # NoRequest
      /\ request'.stage \in {"applied", "refused"}
      /\ request'.scope = s /\ request'.payload = x
      /\ request'.stage = "applied" => cloud'[s][x.plan] # Absent /\ cloud'[s][x.plan].at >= x.at
  <2>1. CASE x.rev \in TooLarge
    <3>1. /\ request' = [request EXCEPT !.stage = "refused"] /\ UNCHANGED cloud
          /\ accepted' = [accepted EXCEPT ![s][x.plan] = accepted[s][x.plan] \cup {x.rev}]
      BY <2>1 DEF Arrive
    <3>2. accepted \in [Accounts -> [Plans -> SUBSET Revs]]
      BY DEF WorkerTypeOK
    <3>3. accepted[s][x.plan] \cup {x.rev} \in SUBSET Revs
      BY <1>3, <3>2
    <3>4. accepted' \in [Accounts -> [Plans -> SUBSET Revs]]
      BY <1>3, <3>1, <3>2, <3>3
    <3>5. \A t \in Accounts, p \in Plans :
            accepted'[t][p] = IF t = s /\ p = x.plan THEN accepted[s][x.plan] \cup {x.rev}
                              ELSE accepted[t][p]
      BY <1>3, <3>1, <3>2
    <3>6. \A t \in Accounts, p \in Plans : cloud[t][p] # Absent => cloud[t][p].at \in Nat
      <4>1. \A t \in Accounts, p \in Plans : cloud[t][p] # Absent => cloud[t][p] \in Payload
        BY DEF WorkerTypeOK
      <4>. QED
        BY <4>1 DEF Payload
    <3>7. cloud' \in [Accounts -> [Plans -> Payload \cup {Absent}]]
      BY <3>1 DEF WorkerTypeOK
    <3>8. CloudGoesOn
      BY <3>1, <3>4, <3>5, <3>6, <3>7 DEF CloudGoesOn
    <3>. QED
      BY <1>2, <1>3, <3>1, <3>5, <3>8, AnsweredUpload
  <2>2. CASE x.rev \notin TooLarge
    <3>1. request' = [request EXCEPT !.stage = "applied"] /\ Store(s, x)
      BY <2>2 DEF Arrive
    <3>. QED
      BY <1>2, <1>3, <3>1, AnsweredUpload, Storing
  <2>. QED
    BY <2>1, <2>2
<1> HIDE DEF x, s
<1>5. WorkerTypeOK'
  BY <1>1, <1>4 DEF WorkerTypeOK, CloudGoesOn, Uploads
<1>6. QueuedOnce'
  BY <1>1 DEF QueuedOnce
<1>7. PassInv'
  BY <1>1, <1>2, <1>4 DEF PassInv, More, Current, x
<1>8. RequestInv'
  BY <1>4 DEF RequestInv
<1>9. ASSUME ScopeHolds PROVE ScopeInv' /\ MemoryInv'
  <2>1. ScopeInv'
    BY <1>1, <1>4, <1>9 DEF ScopeInv, s
  <2>2. MemoryInv'
    BY <1>1, <1>4, <1>9, MemoryStays
  <2>. QED
    BY <2>1, <2>2
<1>. QED
  BY <1>5, <1>6, <1>7, <1>8, <1>9

(* An upload arrives that the worker has given up. *)
LEMMA ArriveLateKeeps ==
    ASSUME WorkerInv, ArriveLate
    PROVE  WorkerInv'
<1>. USE DEF WorkerInv
<1>1. PICK r \in late : /\ late' = late \ {r}
                        /\ \/ UNCHANGED <<cloud, accepted>>
                           \/ Store(r.scope, r.payload)
  BY DEF ArriveLate
<1>2. UNCHANGED <<source, account, disk, faults, scope, cache, queue, retries, attempts,
                  lastSynced, pass, request>>
  BY DEF ArriveLate, UnchangedByCloud
<1>3. r.scope \in Accounts /\ r.payload \in Payload
  BY DEF WorkerTypeOK
<1>4. \A t \in Accounts, p \in Plans : cloud[t][p] # Absent => cloud[t][p].at \in Nat
  <2>1. \A t \in Accounts, p \in Plans : cloud[t][p] # Absent => cloud[t][p] \in Payload
    BY DEF WorkerTypeOK
  <2>. QED
    BY <2>1 DEF Payload
<1>5. CloudGoesOn
  <2>1. CASE UNCHANGED <<cloud, accepted>>
    BY <1>4, <2>1 DEF CloudGoesOn, WorkerTypeOK
  <2>2. CASE Store(r.scope, r.payload)
    BY <1>3, <2>2, Storing
  <2>. QED
    BY <1>1, <2>1, <2>2
<1>6. WorkerTypeOK'
  BY <1>1, <1>2, <1>5 DEF WorkerTypeOK, CloudGoesOn
<1>7. QueuedOnce' /\ PassInv'
  BY <1>2 DEF QueuedOnce, PassInv, More, Current
<1>8. RequestInv'
  <2>. SUFFICES ASSUME request # NoRequest PROVE RequestInv'
    BY <1>2 DEF RequestInv
  <2> DEFINE x == request.payload
             s == request.scope
  <2>1. s \in Accounts /\ x.plan \in Plans /\ x.at \in Nat
    BY AnUpload
  <2>2. request.stage # "sent" => x.rev \in accepted'[s][x.plan]
    BY <1>5, <2>1 DEF RequestInv, CloudGoesOn
  <2>3. request.stage = "applied" => cloud'[s][x.plan] # Absent /\ cloud'[s][x.plan].at >= x.at
    <3>. SUFFICES ASSUME request.stage = "applied"
                  PROVE  cloud'[s][x.plan] # Absent /\ cloud'[s][x.plan].at >= x.at
      OBVIOUS
    <3>1. cloud[s][x.plan] # Absent /\ cloud[s][x.plan].at >= x.at
      BY DEF RequestInv
    <3>2. cloud'[s][x.plan] # Absent /\ cloud'[s][x.plan].at >= cloud[s][x.plan].at
      BY <1>5, <2>1, <3>1 DEF CloudGoesOn
    <3>3. cloud'[s][x.plan] \in Payload
      BY <1>5, <2>1, <3>2 DEF CloudGoesOn
    <3>4. cloud'[s][x.plan].at \in Nat
      BY <3>3 DEF Payload
    <3>5. cloud[s][x.plan].at \in Nat
      BY <1>4, <2>1, <3>1
    <3>. QED
      BY <2>1, <3>1, <3>2, <3>4, <3>5
  <2>. QED
    BY <1>2, <2>2, <2>3 DEF RequestInv, NewerThan
<1>9. ASSUME ScopeHolds PROVE ScopeInv' /\ MemoryInv'
  BY <1>2, <1>5, <1>9, MemoryStays DEF ScopeInv
<1>. QED
  BY <1>6, <1>7, <1>8, <1>9

(* A plan is saved. *)
LEMMA SavePlanKeeps ==
    ASSUME WorkerInv, NEW p \in Plans, SavePlan(p)
    PROVE  WorkerInv'
<1>. USE DEF WorkerInv
<1>1. PICK at \in {source[p].at, source[p].at + 1} :
        source' = [source EXCEPT ![p] = [at |-> at, rev |-> source[p].rev + 1]]
  BY DEF SavePlan
<1>2. source[p].rev <= MaxEdits
      /\ UNCHANGED <<account, disk, faults, scope, cache, queue, retries, attempts, lastSynced,
                     pass, request, late, cloud, accepted>>
  BY DEF SavePlan, worker, network
<1>3. source' \in [Plans -> [at : Nat, rev : Revs]]
  <2>1. source \in [Plans -> [at : Nat, rev : Revs]]
    BY DEF WorkerTypeOK
  <2>2. source[p].at \in Nat /\ source[p].rev \in Revs
    BY <2>1
  <2>3. at \in Nat /\ source[p].rev + 1 \in Revs
    BY <1>1, <1>2, <2>2, Bounds DEF Revs
  <2>. QED
    BY <1>1, <2>1, <2>3
<1>4. WorkerTypeOK'
  BY <1>2, <1>3 DEF WorkerTypeOK
<1>5. QueuedOnce' /\ PassInv' /\ RequestInv'
  BY <1>2 DEF QueuedOnce, PassInv, More, Current, RequestInv, NewerThan
<1>6. ASSUME ScopeHolds PROVE ScopeInv' /\ MemoryInv'
  BY <1>2, <1>6 DEF ScopeInv, MemoryInv, CacheIsHonest
<1>. QED
  BY <1>4, <1>5, <1>6

(* The account changes: not while an upload is chosen, and once while it   *)
(* waits.                                                                  *)
LEMMA SwitchAccountKeeps ==
    ASSUME WorkerInv, NEW s \in Scopes, SwitchAccount(s)
    PROVE  WorkerInv'
<1>. USE DEF WorkerInv
<1>1. /\ s # account /\ pass.pc \in SwitchAt /\ account' = s
      /\ faults < MaxFaults /\ faults' = faults + 1
      /\ UNCHANGED <<source, disk, scope, cache, queue, retries, attempts, lastSynced,
                     pass, request, late, cloud, accepted>>
  BY DEF SwitchAccount, Fault, worker, network
<1>2. faults \in 0 .. MaxFaults /\ faults' \in 0 .. MaxFaults /\ faults' >= 1
  <2>1. faults \in 0 .. MaxFaults
    BY DEF WorkerTypeOK
  <2>. QED
    BY <1>1, <2>1, Bounds
<1>3. WorkerTypeOK'
  BY <1>1, <1>2 DEF WorkerTypeOK
<1>4. QueuedOnce' /\ PassInv' /\ RequestInv'
  BY <1>1 DEF QueuedOnce, PassInv, More, Current, RequestInv, NewerThan
<1>5. ASSUME ScopeHolds PROVE ScopeInv' /\ MemoryInv'
  <2>1. pass.pc # "pick"
    BY <1>1, <1>5 DEF ScopeHolds
  <2>2. ASSUME pass.pc = "await" PROVE s # request.scope /\ "await" \in SwitchAt
    <3>1. "await" \in SwitchAt /\ MaxFaults <= 1
      BY <1>1, <1>5, <2>2 DEF ScopeHolds
    <3>2. ~(faults >= 1)
      BY <1>1, <1>2, <3>1, Bounds
    <3>3. account = request.scope
      BY <1>5, <2>2, <3>2 DEF ScopeInv
    <3>. QED
      BY <1>1, <3>1, <3>3
  <2>3. ScopeInv'
    BY <1>1, <1>2, <2>1, <2>2 DEF ScopeInv
  <2>4. MemoryInv'
    BY <1>1, <1>5 DEF MemoryInv, CacheIsHonest
  <2>. QED
    BY <2>3, <2>4
<1>. QED
  BY <1>3, <1>4, <1>5

(* The worker is killed and scans what its account's file does not have. *)
LEMMA RestartKeeps ==
    ASSUME WorkerInv, Restart
    PROVE  WorkerInv'
<1>. USE DEF WorkerInv
<1> DEFINE K == {p \in Plans : disk[account][p] # source[p].rev}
           need == Listed(K)
           scanned == [k \in DOMAIN need |->
                         [plan |-> need[k], at |-> source[need[k]].at,
                          rev |-> source[need[k]].rev, seq |-> 2 * source[need[k]].rev]]
<1>1. /\ account # LoggedOut
      /\ faults < MaxFaults /\ faults' = faults + 1
      /\ scope' = account /\ cache' = disk[account]
      /\ retries' = <<>> /\ attempts' = [p \in Plans |-> 0]
      /\ lastSynced' = [p \in Plans |-> Absent]
      /\ queue' = scanned
      /\ pass' = IF queue' = <<>> THEN Resting ELSE [Resting EXCEPT !.pc = "start"]
      /\ request' = NoRequest
      /\ UNCHANGED <<source, account, disk, cloud, accepted>>
  BY DEF Restart, Fault
<1>2. late' \subseteq [scope : Accounts, payload : Payload]
  <2>1. late \subseteq [scope : Accounts, payload : Payload]
    BY DEF WorkerTypeOK
  <2>2. CASE UNCHANGED late
    BY <2>1, <2>2
  <2>3. CASE /\ request.stage = "sent"
             /\ late' = late \cup {[scope |-> request.scope, payload |-> request.payload]}
    <3>1. request # NoRequest
      BY <2>3 DEF NoRequest
    <3>2. request.scope \in Accounts /\ request.payload \in Payload
      BY <3>1, AnUpload
    <3>. QED
      BY <2>1, <2>3, <3>2
  <2>. QED
    BY <2>2, <2>3 DEF Restart
<1>3. faults' \in 0 .. MaxFaults
  BY <1>1, Bounds DEF WorkerTypeOK
<1>4. scanned \in Seq(Payload) /\ OncePerPlan(scanned)
  <2>1. K \in SUBSET Plans
    OBVIOUS
  <2> HIDE DEF K
  <2>2. /\ Cardinality(K) \in Nat /\ need \in [1 .. Cardinality(K) -> Plans]
        /\ \A i, j \in DOMAIN need : need[i] = need[j] => i = j
    BY <2>1, ListedPlans
  <2>3. \A p \in Plans : source[p].at \in Nat /\ source[p].rev \in Revs
                         /\ 2 * source[p].rev \in Nat
    <3>1. \A p \in Plans : source[p] \in [at : Nat, rev : Revs]
      BY DEF WorkerTypeOK
    <3>. QED
      BY <3>1, Bounds DEF Revs
  <2> HIDE DEF need
  <2>4. \A k \in DOMAIN need : scanned[k] \in Payload /\ scanned[k].plan = need[k]
    BY <2>2, <2>3 DEF Payload
  <2>5. DOMAIN scanned = DOMAIN need /\ scanned = [k \in DOMAIN need |-> scanned[k]]
    OBVIOUS
  <2> HIDE DEF scanned
  <2>6. scanned \in [1 .. Cardinality(K) -> Payload]
    BY <2>2, <2>4, <2>5
  <2>. QED
    BY <2>2, <2>4, <2>5, <2>6, AList DEF OncePerPlan
<1> HIDE DEF K, need, scanned
<1>5. /\ pass' \in PassRec /\ pass'.pc \in {"idle", "start"} /\ OncePerPlan(pass'.batch)
      /\ pass'.i = 1 /\ pass'.counted = 0 /\ Len(pass'.batch) = 0
  <2>1. CASE queue' = <<>>
    BY <1>1, <2>1, BetweenBatches
  <2>2. CASE queue' # <<>>
    BY <1>1, <2>2, BetweenBatches
  <2>. QED
    BY <2>1, <2>2
<1>6. WorkerTypeOK'
  <2>1. disk[account] \in Known /\ account \in Scopes
    BY DEF WorkerTypeOK, Known
  <2>2. attempts' \in [Plans -> 0 .. MaxRetries]
    BY <1>1, Bounds
  <2>3. lastSynced' \in [Plans -> Order \cup {Absent}] /\ retries' \in Seq(Entries)
    BY <1>1, EmptySeq
  <2>. QED
    BY <1>1, <1>2, <1>3, <1>4, <1>5, <2>1, <2>2, <2>3
    DEF WorkerTypeOK, PassRec, Known, Entries
<1>7. QueuedOnce' /\ PassInv' /\ RequestInv'
  BY <1>1, <1>4, <1>5 DEF QueuedOnce, PassInv, RequestInv
<1>8. ASSUME ScopeHolds PROVE ScopeInv' /\ MemoryInv'
  BY <1>1, <1>5, <1>8 DEF ScopeInv, MemoryInv, CacheIsHonest
<1>. QED
  BY <1>6, <1>7, <1>8

(* No step at all. *)
LEMMA WorkerStutters ==
    ASSUME WorkerInv, UNCHANGED workerVars
    PROVE  WorkerInv'
<1>. USE DEF WorkerInv
<1>1. UNCHANGED <<source, account, disk, faults, scope, cache, queue, retries, attempts,
                  lastSynced, pass, request, late, cloud, accepted>>
  BY DEF workerVars, worker, network
<1>2. WorkerTypeOK'
  BY <1>1 DEF WorkerTypeOK
<1>3. QueuedOnce' /\ PassInv' /\ RequestInv'
  BY <1>1 DEF QueuedOnce, PassInv, More, Current, RequestInv, NewerThan
<1>4. ASSUME ScopeHolds PROVE ScopeInv' /\ MemoryInv'
  BY <1>1, <1>4 DEF ScopeInv, MemoryInv, CacheIsHonest
<1>. QED
  BY <1>2, <1>3, <1>4

(* Every step of the worker keeps the invariant. *)
LEMMA WorkerSteps == WorkerInv /\ [WorkerNext]_workerVars => WorkerInv'
<1>. SUFFICES ASSUME WorkerInv, [WorkerNext]_workerVars PROVE WorkerInv'
  OBVIOUS
<1>1. ASSUME NEW T \in SUBSET Plans, Enqueue(T) PROVE WorkerInv'
  BY <1>1, EnqueueKeeps
<1>2. ASSUME NEW ready \in SUBSET (DOMAIN retries), FlushRetries(ready) PROVE WorkerInv'
  BY <1>2, FlushKeeps
<1>3. ASSUME Pass PROVE WorkerInv'
  BY <1>3, StartKeeps, SkipKeeps, SendKeeps, SendLoggedOutKeeps, FinishKeeps DEF Pass
<1>4. ASSUME Answer PROVE WorkerInv'
  BY <1>4, AnswerAfterSwitchKeeps, AnswerOkKeeps, AnswerTooLargeKeeps, AnswerFailedKeeps,
     AnswerExpiredKeeps DEF Answer
<1>5. ASSUME ConnectionFails \/ Arrive \/ ArriveLate PROVE WorkerInv'
  BY <1>5, ConnectionFailsKeeps, ArriveKeeps, ArriveLateKeeps
<1>6. ASSUME NEW p \in Plans, SavePlan(p) PROVE WorkerInv'
  BY <1>6, SavePlanKeeps
<1>7. ASSUME NEW s \in Scopes, SwitchAccount(s) PROVE WorkerInv'
  BY <1>7, SwitchAccountKeeps
<1>8. ASSUME Restart PROVE WorkerInv'
  BY <1>8, RestartKeeps
<1>9. ASSUME UNCHANGED workerVars PROVE WorkerInv'
  BY <1>9, WorkerStutters
<1>. QED
  BY <1>1, <1>2, <1>3, <1>4, <1>5, <1>6, <1>7, <1>8, <1>9 DEF WorkerNext

-----------------------------------------------------------------------------
(* The theorems *)

(* The invariant of the upload worker (cli/src/daemon.ts 208-373): where a *)
(* pass is, what its upload has done, and, when the account changes only   *)
(* where ScopeHolds says, that all it remembers is true of the account.    *)
THEOREM WorkerInvariant == WorkerSpec => []WorkerInv
<1>1. WorkerInit => WorkerInv
  BY WorkerStarts
<1>2. WorkerInv /\ [WorkerNext]_workerVars => WorkerInv'
  BY WorkerSteps
<1>. QED
  BY <1>1, <1>2, PTL DEF WorkerSpec

(* Wherever the account changes, as often as it does: the queue and the    *)
(* batch never hold a plan twice (pushToSyncQueue, daemon.ts 214-222).     *)
THEOREM QueueAlwaysOnce == WorkerSpec => [](WorkerTypeOK /\ QueuedOnce)
<1>1. WorkerInv => WorkerTypeOK /\ QueuedOnce
  BY DEF WorkerInv
<1>. QED
  BY <1>1, WorkerInvariant, PTL

(* Nothing is queued twice, and a revision is in an account's cache file   *)
(* only if that account's cloud answered for it, unless the account        *)
(* changes where the code does not look (daemon.ts 312 and 322).           *)
THEOREM WorkerAlwaysSound ==
    ASSUME ScopeHolds
    PROVE  WorkerSpec => []WorkerIsSound
<1>1. WorkerInv => WorkerIsSound
  BY DEF WorkerInv, MemoryInv, WorkerIsSound
<1>. QED
  BY <1>1, WorkerInvariant, PTL

(* What a dropped upload says of the cloud. *)
LEMMA SkippedIsOld ==
    ASSUME ScopeHolds, WorkerInv, SkipSuperseded
    PROVE  /\ cloud[scope][Current.plan] # Absent
           /\ cloud[scope][Current.plan].at >= Current.at
<1>1. /\ pass.pc = "pick" /\ More /\ Superseded(Current, lastSynced[Current.plan])
      /\ WorkerTypeOK /\ PassInv /\ MemoryInv
  BY DEF SkipSuperseded, WorkerInv
<1>2. Current.plan \in Plans /\ Current.at \in Nat
  BY <1>1, ACurrent
<1> DEFINE ref == lastSynced[Current.plan]
           row == cloud[scope][Current.plan]
<1>3. ref # Absent /\ ref \in Order
  BY <1>1, <1>2 DEF Superseded, WorkerTypeOK
<1>4. scope \in Accounts /\ row # Absent /\ row.at >= ref.at
  BY <1>1, <1>2, <1>3 DEF MemoryInv
<1>5. row \in Payload
  BY <1>1, <1>2, <1>4 DEF WorkerTypeOK
<1>6. row.at \in Nat /\ ref.at \in Nat /\ ref.at >= Current.at
  <2>1. row.at \in Nat /\ ref.at \in Nat
    BY <1>3, <1>5 DEF Payload, Order
  <2>. QED
    BY <1>1, <1>2, <2>1 DEF Superseded
<1>. QED
  BY <1>2, <1>4, <1>6

(* What a step stores over an upload that was answered ok. *)
LEMMA OnlyNewerIsStored ==
    ASSUME ScopeHolds, WorkerInv, [WorkerNext]_workerVars, NEW p \in Plans,
           lastSynced[p] # Absent, late' = late
    PROVE  \/ cloud'[scope][p] = cloud[scope][p]
           \/ NewerThan(cloud'[scope][p], lastSynced[p])
<1>1. WorkerTypeOK /\ RequestInv /\ MemoryInv
  BY DEF WorkerInv
<1>2. scope \in Accounts
  BY <1>1 DEF MemoryInv
<1>3. CASE UNCHANGED cloud
  BY <1>3
<1>4. CASE Arrive
  <2>1. request.stage = "sent"
    BY <1>4 DEF Arrive
  <2>2. request # NoRequest
    BY <2>1 DEF NoRequest
  <2>3. request.scope \in Accounts /\ request.payload \in Payload
    BY <1>1, <2>2, AnUpload
  <2>4. CASE request.payload.rev \in TooLarge
    BY <1>4, <2>4 DEF Arrive
  <2>5. CASE Store(request.scope, request.payload)
    <3>. SUFFICES ASSUME cloud'[scope][p] # cloud[scope][p]
                  PROVE  NewerThan(cloud'[scope][p], lastSynced[p])
      OBVIOUS
    <3>1. scope = request.scope /\ p = request.payload.plan /\ cloud'[scope][p] = request.payload
      BY <1>1, <1>2, <2>3, <2>5, Storing
    <3>. QED
      BY <1>1, <2>1, <2>2, <3>1 DEF RequestInv
  <2>. QED
    BY <1>4, <2>4, <2>5 DEF Arrive
<1>5. ~ArriveLate
  BY DEF ArriveLate
<1>6. [WorkerNext]_workerVars => UNCHANGED cloud \/ Arrive \/ ArriveLate
  BY DEF WorkerNext, workerVars, network, Enqueue, FlushRetries, Pass, Start, SkipSuperseded,
     Send, SendLoggedOut, Rejected, Finish, Answer, Answered, AnswerAfterSwitch, AnswerOk,
     AnswerTooLarge, AnswerFailed, AnswerExpired, ConnectionFails, SavePlan, SwitchAccount,
     Restart
<1>. QED
  BY <1>3, <1>4, <1>5, <1>6

(* The order memory tells the truth (SyncedStays): an upload is dropped    *)
(* only if the account's cloud shows one no older, and nothing but a late  *)
(* upload is stored over an upload answered ok that is not newer           *)
(* (isSuperseded, daemon.ts 311 and 336).                                  *)
THEOREM SyncedAlwaysStays ==
    ASSUME ScopeHolds
    PROVE  WorkerSpec => SyncedStays
<1> DEFINE Stays ==
      /\ SkipSuperseded
           => LET row == cloud[scope][Current.plan] IN row # Absent /\ row.at >= Current.at
      /\ \A p \in Plans : lastSynced[p] # Absent /\ late' = late =>
           LET row == cloud'[scope][p]
           IN  row = cloud[scope][p] \/ NewerThan(row, lastSynced[p])
<1>1. WorkerInv /\ [WorkerNext]_workerVars => [Stays]_workerVars
  <2>. SUFFICES ASSUME WorkerInv, [WorkerNext]_workerVars PROVE Stays
    OBVIOUS
  <2>1. SkipSuperseded
          => LET row == cloud[scope][Current.plan] IN row # Absent /\ row.at >= Current.at
    BY SkippedIsOld
  <2>2. \A p \in Plans : lastSynced[p] # Absent /\ late' = late =>
           LET row == cloud'[scope][p]
           IN  row = cloud[scope][p] \/ NewerThan(row, lastSynced[p])
    BY OnlyNewerIsStored
  <2>. QED
    BY <2>1, <2>2
<1>. QED
  BY <1>1, WorkerInvariant, PTL DEF WorkerSpec, SyncedStays
=============================================================================
