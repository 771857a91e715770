--------------------------- MODULE ApprovalProofs ---------------------------
(***************************************************************************)
(* Theorems about the approval of plans: first about the store, for every  *)
(* number of sessions, owners and revisions, every capacity and every      *)
(* lease, retention and timeout; then about the gate built on it, for any  *)
(* number of hooks at one server.                                          *)
(***************************************************************************)
EXTENDS ReviewGate, FiniteSetTheorems, WellFoundedInduction, TLAPS

-----------------------------------------------------------------------------
(* The approval store.                                                     *)

USE TimeAssumption, CapacityAssumption

(* The sweep keeps only stored sessions, and changes nothing but their     *)
(* status, which it moves from a live one to "expired" or "disconnected".  *)
LEMMA SweptRows ==
    ASSUME TypeOK
    PROVE  /\ DOMAIN Swept \subseteq Present
           /\ \A i \in DOMAIN Swept :
                /\ Swept[i] \in Row /\ Swept[i].rank < created
                /\ Swept[i] = [rows[i] EXCEPT !.status = SweptStatus(rows[i])]
                /\ Swept[i].status \in {rows[i].status, "expired", "disconnected"}
                /\ ~Active(rows[i]) => Swept[i].status = rows[i].status
  BY DEF TypeOK, Swept, Present, Row, SweptStatus, Statuses, Decisions, Active, Live, Acked

(* Storing a well-formed row for a known id keeps the store well formed.   *)
LEMMA UpdateTypeOK ==
    ASSUME TypeOK, NEW id \in Ids, NEW ok, NEW row, Update(id, ok, row),
           ok => row \in Row /\ row.rank < created
    PROVE  TypeOK'
  BY SweptRows DEF TypeOK, Update, With, Present

(* Inserting a review keeps the store well formed, with or without an      *)
(* eviction.                                                               *)
LEMMA CreateTypeOK ==
    ASSUME TypeOK, NEW id \in Ids, NEW own \in Owners, NEW req \in Requests,
           NEW rev \in Revisions, NEW t \in 1..MaxTimeout, Create(id, own, req, rev, t)
    PROVE  TypeOK'
<1>1. NewRow(own, req, rev, t) \in Row /\ NewRow(own, req, rev, t).rank = created
  BY DEF TypeOK, NewRow, Row, Statuses, Never
<1>2. CASE CanCreate(id)
  <2> DEFINE kept == Without(Swept, Evicted)
             new  == NewRow(own, req, rev, t)
  <2>1. rows' = With(kept, id, new) /\ now' = now /\ created' = created + 1
    BY <1>2 DEF Create
  <2>2. DOMAIN kept \subseteq DOMAIN Swept /\ \A i \in DOMAIN kept : kept[i] = Swept[i]
    BY DEF Without
  <2> HIDE DEF kept, new
  <2>3. /\ DOMAIN rows' = DOMAIN kept \cup {id}
        /\ \A i \in DOMAIN rows' : rows'[i] = IF i = id THEN new ELSE kept[i]
    BY <2>1 DEF With
  <2>4. \A i \in DOMAIN kept : i \in Ids /\ kept[i] \in Row /\ kept[i].rank < created
    BY <2>2, SweptRows DEF TypeOK
  <2>5. new \in Row /\ new.rank = created
    BY <1>1 DEF new
  <2>6. \A i \in DOMAIN rows' : i \in Ids /\ rows'[i] \in Row /\ rows'[i].rank < created + 1
    <3> SUFFICES ASSUME NEW i \in DOMAIN rows'
                 PROVE  i \in Ids /\ rows'[i] \in Row /\ rows'[i].rank < created + 1
      OBVIOUS
    <3>1. CASE i = id
      BY <3>1, <2>3, <2>5 DEF TypeOK
    <3>2. CASE i # id
      <4>1. kept[i] \in Row /\ kept[i].rank < created /\ rows'[i] = kept[i] /\ i \in Ids
        BY <3>2, <2>3, <2>4
      <4>2. kept[i].rank \in Nat
        BY <4>1 DEF Row
      <4> QED
        BY <4>1, <4>2 DEF TypeOK
    <3> QED
      BY <3>1, <3>2
  <2> QED
    BY <2>1, <2>6 DEF TypeOK, Present, Row
<1>3. CASE ~CanCreate(id)
  BY <1>3, SweptRows DEF TypeOK, Create, Present
<1> QED
  BY <1>2, <1>3

(* Whatever a request does, the store stays well formed.                   *)
LEMMA StepTyping ==
    ASSUME TypeOK, [Next]_vars
    PROVE  TypeOK'
<1>1. ASSUME NEW id \in Ids, NEW own \in Owners, NEW req \in Requests,
             NEW rev \in Revisions, NEW t \in 1..MaxTimeout, Create(id, own, req, rev, t)
      PROVE  TypeOK'
  BY <1>1, CreateTypeOK
<1>2. CASE List
  BY <1>2, SweptRows DEF List, TypeOK, Present
<1>3. ASSUME NEW id \in Ids, NEW own \in Owners, NEW rev \in Revisions,
             Heartbeat(id, own, rev)
      PROVE  TypeOK'
  <2>1. Permitted(id, own) => /\ AfterHeartbeat(Swept[id], rev) \in Row
                              /\ AfterHeartbeat(Swept[id], rev).rank < created
    <3> SUFFICES ASSUME NEW row \in Row, row.rank < created
                 PROVE  /\ AfterHeartbeat(row, rev) \in Row
                        /\ AfterHeartbeat(row, rev).rank < created
      BY SweptRows DEF Permitted, Found
    <3> QED
      BY DEF AfterHeartbeat, Row, Statuses, TypeOK
  <2> QED
    BY <1>3, <2>1, UpdateTypeOK DEF Heartbeat
<1>4. ASSUME NEW id \in Ids, NEW rev \in Revisions, NEW d \in Decisions,
             NEW f \in Feedbacks \cup {NoFeedback}, Decide(id, rev, d, f)
      PROVE  TypeOK'
  <2>1. CanDecide(id, rev, d, f) =>
          /\ AfterDecision(Swept[id], d, f) \in Row
          /\ AfterDecision(Swept[id], d, f).rank < created
    BY SweptRows DEF CanDecide, Found, AfterDecision, Row, Statuses, TypeOK
  <2> QED
    BY <1>4, <2>1, UpdateTypeOK DEF Decide
<1>5. ASSUME NEW id \in Ids, Cancel(id) PROVE TypeOK'
  <2>1. CanCancel(id) => AfterCancel(Swept[id]) \in Row /\ AfterCancel(Swept[id]).rank < created
    BY SweptRows DEF CanCancel, Found, AfterCancel, Row, Statuses, TypeOK
  <2> QED
    BY <1>5, <2>1, UpdateTypeOK DEF Cancel
<1>6. ASSUME NEW id \in Ids, NEW own \in Owners, OwnerCancel(id, own) PROVE TypeOK'
  <2>1. CanCancel(id) => AfterCancel(Swept[id]) \in Row /\ AfterCancel(Swept[id]).rank < created
    BY SweptRows DEF CanCancel, Found, AfterCancel, Row, Statuses, TypeOK
  <2> QED
    BY <1>6, <2>1, UpdateTypeOK DEF OwnerCancel
<1>7. ASSUME NEW id \in Ids, NEW own \in Owners, NEW rev \in Revisions,
             Acknowledge(id, own, rev)
      PROVE  TypeOK'
  <2>1. Permitted(id, own) => /\ AfterAcknowledge(id, own, rev) \in Row
                              /\ AfterAcknowledge(id, own, rev).rank < created
    BY SweptRows DEF Permitted, Found, AfterAcknowledge, Row, Statuses, TypeOK
  <2> QED
    BY <1>7, <2>1, UpdateTypeOK DEF Acknowledge
<1>8. CASE Restart
  BY <1>8 DEF Restart, TypeOK, Present
<1>9. CASE Tick
  BY <1>9 DEF Tick, TypeOK, Present
<1>10. CASE UNCHANGED vars
  BY <1>10 DEF vars, TypeOK, Present
<1> QED
  BY <1>1, <1>2, <1>3, <1>4, <1>5, <1>6, <1>7, <1>8, <1>9, <1>10 DEF Next

(* Every request leaves the store well formed: Spec => []TypeOK.           *)
THEOREM Typing == Spec => []TypeOK
<1>1. Init => TypeOK
  BY DEF Init, TypeOK, Present
<1>2. TypeOK /\ [Next]_vars => TypeOK'
  BY StepTyping
<1> QED
  BY <1>1, <1>2, PTL DEF Spec

-----------------------------------------------------------------------------
(* What one step can do to one session that stays in the store: only its   *)
(* own handlers change it, and they change the row the sweep left behind.  *)
ChangesTo(i, new) ==
    \/ new = rows[i]
    \/ /\ i \in DOMAIN Swept
       /\ \/ new = Swept[i]
          \/ \E rev \in Revisions : new = AfterHeartbeat(Swept[i], rev)
          \/ \E rev \in Revisions, d \in Decisions, f \in Feedbacks \cup {NoFeedback} :
                CanDecide(i, rev, d, f)
                /\ new = AfterDecision(Swept[i], d, f)
          \/ CanCancel(i) /\ new = AfterCancel(Swept[i])
          \/ \E own \in Owners, rev \in Revisions :
                Permitted(i, own) /\ new = AfterAcknowledge(i, own, rev)

Fresh(row) == row.status = "pending" /\ row.acknowledgedAt = Never /\ row.rank = created

(* An update touches one row; every other row is the swept one. *)
LEMMA UpdateChanges ==
    ASSUME TypeOK, NEW id \in Ids, NEW ok, NEW row, Update(id, ok, row),
           NEW i \in DOMAIN rows', ok => id \in DOMAIN Swept
    PROVE  i \in DOMAIN Swept /\ (rows'[i] = Swept[i] \/ (ok /\ i = id /\ rows'[i] = row))
  BY SweptRows DEF Update, With

(* Whatever the step, a row that stays is an old one changed, or a new     *)
(* one.                                                                    *)
LEMMA StepRows ==
    ASSUME TypeOK, [Next]_vars, NEW i \in DOMAIN rows'
    PROVE  (i \in Present /\ ChangesTo(i, rows'[i])) \/ Fresh(rows'[i])
<1>0. i \in DOMAIN Swept => i \in Present
  BY SweptRows
<1>1. ASSUME NEW id \in Ids, NEW own \in Owners, NEW req \in Requests,
             NEW rev \in Revisions, NEW t \in 1..MaxTimeout, Create(id, own, req, rev, t)
      PROVE  (i \in Present /\ ChangesTo(i, rows'[i])) \/ Fresh(rows'[i])
  <2>1. CASE CanCreate(id)
    <3>1. rows' = With(Without(Swept, Evicted), id, NewRow(own, req, rev, t))
      BY <1>1, <2>1 DEF Create
    <3> DEFINE kept == Without(Swept, Evicted)
    <3>2. DOMAIN kept \subseteq DOMAIN Swept /\ \A j \in DOMAIN kept : kept[j] = Swept[j]
      BY DEF Without
    <3> HIDE DEF kept
    <3>3. CASE i = id
      BY <3>1, <3>3 DEF With, NewRow, Fresh
    <3>4. CASE i # id
      <4>1. i \in DOMAIN kept /\ rows'[i] = kept[i]
        BY <3>1, <3>4 DEF With, kept
      <4> QED
        BY <1>0, <3>2, <4>1 DEF ChangesTo
    <3> QED
      BY <3>3, <3>4
  <2>2. CASE ~CanCreate(id)
    BY <1>0, <1>1, <2>2 DEF Create, ChangesTo
  <2> QED
    BY <2>1, <2>2
<1>2. CASE List
  BY <1>0, <1>2 DEF List, ChangesTo
<1>3. ASSUME NEW id \in Ids, NEW own \in Owners, NEW rev \in Revisions,
             Heartbeat(id, own, rev)
      PROVE  i \in Present /\ ChangesTo(i, rows'[i])
  <2> DEFINE ok == Permitted(id, own)
             row == AfterHeartbeat(Swept[id], rev)
  <2>1. ok => id \in DOMAIN Swept
    BY DEF Permitted, Found
  <2>2. Update(id, ok, row)
    BY <1>3 DEF Heartbeat
  <2> HIDE DEF ok, row
  <2>3. i \in DOMAIN Swept /\ (rows'[i] = Swept[i] \/ (ok /\ i = id /\ rows'[i] = row))
    BY <2>1, <2>2, UpdateChanges
  <2> QED
    BY <1>0, <2>3 DEF ChangesTo, ok, row
<1>4. ASSUME NEW id \in Ids, NEW rev \in Revisions, NEW d \in Decisions,
             NEW f \in Feedbacks \cup {NoFeedback}, Decide(id, rev, d, f)
      PROVE  i \in Present /\ ChangesTo(i, rows'[i])
  <2> DEFINE ok == CanDecide(id, rev, d, f)
             row == AfterDecision(Swept[id], d, f)
  <2>1. ok => id \in DOMAIN Swept
    BY DEF CanDecide, Found
  <2>2. Update(id, ok, row)
    BY <1>4 DEF Decide
  <2> HIDE DEF ok, row
  <2>3. i \in DOMAIN Swept /\ (rows'[i] = Swept[i] \/ (ok /\ i = id /\ rows'[i] = row))
    BY <2>1, <2>2, UpdateChanges
  <2> QED
    BY <1>0, <2>3 DEF ChangesTo, ok, row
<1>5. ASSUME NEW id \in Ids, Cancel(id) PROVE i \in Present /\ ChangesTo(i, rows'[i])
  <2> DEFINE ok == CanCancel(id)
             row == AfterCancel(Swept[id])
  <2>1. ok => id \in DOMAIN Swept
    BY DEF CanCancel, Found
  <2>2. Update(id, ok, row)
    BY <1>5 DEF Cancel
  <2> HIDE DEF ok, row
  <2>3. i \in DOMAIN Swept /\ (rows'[i] = Swept[i] \/ (ok /\ i = id /\ rows'[i] = row))
    BY <2>1, <2>2, UpdateChanges
  <2> QED
    BY <1>0, <2>3 DEF ChangesTo, ok, row
<1>6. ASSUME NEW id \in Ids, NEW own \in Owners, OwnerCancel(id, own)
      PROVE  i \in Present /\ ChangesTo(i, rows'[i])
  <2> DEFINE ok == Permitted(id, own) /\ CanCancel(id)
             row == AfterCancel(Swept[id])
  <2>1. ok => id \in DOMAIN Swept
    BY DEF CanCancel, Found
  <2>2. Update(id, ok, row)
    BY <1>6 DEF OwnerCancel
  <2> HIDE DEF ok, row
  <2>3. i \in DOMAIN Swept /\ (rows'[i] = Swept[i] \/ (ok /\ i = id /\ rows'[i] = row))
    BY <2>1, <2>2, UpdateChanges
  <2> QED
    BY <1>0, <2>3 DEF ChangesTo, ok, row
<1>7. ASSUME NEW id \in Ids, NEW own \in Owners, NEW rev \in Revisions,
             Acknowledge(id, own, rev)
      PROVE  i \in Present /\ ChangesTo(i, rows'[i])
  <2> DEFINE ok == Permitted(id, own)
             row == AfterAcknowledge(id, own, rev)
  <2>1. ok => id \in DOMAIN Swept
    BY DEF Permitted, Found
  <2>2. Update(id, ok, row)
    BY <1>7 DEF Acknowledge
  <2> HIDE DEF ok, row
  <2>3. i \in DOMAIN Swept /\ (rows'[i] = Swept[i] \/ (ok /\ i = id /\ rows'[i] = row))
    BY <2>1, <2>2, UpdateChanges
  <2> QED
    BY <1>0, <2>3 DEF ChangesTo, ok, row
<1>8. CASE Restart
  BY <1>8 DEF Restart
<1>9. CASE Tick \/ UNCHANGED vars
  BY <1>9 DEF Tick, vars, ChangesTo, Present
<1> QED
  BY <1>1, <1>2, <1>3, <1>4, <1>5, <1>6, <1>7, <1>8, <1>9 DEF Next

(* A row that changes keeps its place in the insertion order. *)
LEMMA ChangeKeepsRank ==
    ASSUME TypeOK, NEW i \in Present, NEW new, ChangesTo(i, new)
    PROVE  new.rank = rows[i].rank
<1>1. CASE i \in DOMAIN Swept
  <2> DEFINE row == Swept[i]
  <2>1. row \in Row /\ row.rank = rows[i].rank
    BY <1>1, SweptRows DEF TypeOK, Row
  <2>2. i \in DOMAIN Swept => row = Swept[i]
    OBVIOUS
  <2> HIDE DEF row
  <2>3. \A rev : AfterHeartbeat(row, rev).rank = row.rank
    BY <2>1 DEF AfterHeartbeat, Row
  <2>4. \A d, f : AfterDecision(row, d, f).rank = row.rank
    BY <2>1 DEF AfterDecision, Row
  <2>5. AfterCancel(row).rank = row.rank
    BY <2>1 DEF AfterCancel, Row
  <2>6. \A own, rev : AfterAcknowledge(i, own, rev).rank = row.rank
    BY <2>1 DEF AfterAcknowledge, Row, row
  <2> QED
    BY <1>1, <2>1, <2>3, <2>4, <2>5, <2>6 DEF ChangesTo, row
<1>2. CASE new = rows[i]
  BY <1>2
<1> QED
  BY <1>1, <1>2 DEF ChangesTo

(* Of one session, a step makes one change. *)
LEMMA StepChanges ==
    ASSUME TypeOK, [Next]_vars, NEW i \in DOMAIN rows', SameSession(i)
    PROVE  ChangesTo(i, rows'[i])
<1>1. rows'[i].rank < created /\ rows'[i].rank \in Nat
  BY DEF SameSession, TypeOK, Row
<1> QED
  BY <1>1, StepRows DEF Fresh, TypeOK

(* DecisionsAreFinal: a review is decided at most once.                    *)
THEOREM Finality == Spec => DecisionsAreFinal
<1> DEFINE Final(i) ==
        SameSession(i) =>
            /\ rows'[i].status = "pending" => rows[i].status = "pending"
            /\ rows'[i].status \in Decisions =>
                 \/ rows[i].status = "pending"
                 \/ /\ rows'[i].status = rows[i].status
                    /\ rows'[i].feedback = rows[i].feedback
<1>1. TypeOK /\ [Next]_vars => \A i \in Present \cap DOMAIN rows' : Final(i)
  <2> SUFFICES ASSUME TypeOK, [Next]_vars, NEW i \in Present \cap DOMAIN rows', SameSession(i)
               PROVE  Final(i)
    OBVIOUS
  <2>1. ChangesTo(i, rows'[i])
    BY StepChanges
  <2>2. CASE rows'[i] = rows[i]
    BY <2>2
  <2>3. CASE i \in DOMAIN Swept
    <3> DEFINE row == Swept[i]
    <3>1. /\ row \in Row /\ row.feedback = rows[i].feedback
          /\ row.status \in {rows[i].status, "expired", "disconnected"}
      BY <2>3, SweptRows DEF Row
    <3> HIDE DEF row
    <3>2. CASE rows'[i] = row
      BY <3>1, <3>2 DEF Decisions
    <3>3. ASSUME NEW rev \in Revisions, rows'[i] = AfterHeartbeat(row, rev) PROVE Final(i)
      <4>1. row.status = rows'[i].status \/ rows'[i].status = "superseded"
        BY <3>1, <3>3 DEF AfterHeartbeat, Row
      <4>2. rows'[i].feedback = row.feedback
        BY <3>1, <3>3 DEF AfterHeartbeat, Row
      <4> QED
        BY <3>1, <4>1, <4>2 DEF Decisions
    <3>4. ASSUME NEW rev \in Revisions, NEW d \in Decisions,
                 NEW f \in Feedbacks \cup {NoFeedback}, CanDecide(i, rev, d, f),
                 rows'[i] = AfterDecision(row, d, f)
          PROVE  Final(i)
      <4>1. row.status = "pending"
        BY <3>4 DEF CanDecide, row
      <4>2. rows'[i].status = d
        BY <3>1, <3>4 DEF AfterDecision, Row
      <4> QED
        BY <3>1, <4>1, <4>2 DEF Decisions
    <3>5. CASE rows'[i] = AfterCancel(row)
      <4>1. rows'[i].status = "cancelled" \/ rows'[i].status = row.status
        BY <3>1, <3>5 DEF AfterCancel, Row
      <4>2. rows'[i].feedback = row.feedback
        BY <3>1, <3>5 DEF AfterCancel, Row
      <4> QED
        BY <3>1, <4>1, <4>2 DEF Decisions
    <3>6. ASSUME NEW own \in Owners, NEW rev \in Revisions,
                 rows'[i] = AfterAcknowledge(i, own, rev)
          PROVE  Final(i)
      <4>1. /\ rows'[i].status = "superseded" \/ rows'[i].status = row.status
            /\ rows'[i].feedback = row.feedback
        BY <3>1, <3>6 DEF AfterAcknowledge, Row, row
      <4> QED
        BY <3>1, <4>1 DEF Decisions
    <3> QED
      BY <2>1, <2>2, <2>3, <3>2, <3>3, <3>4, <3>5, <3>6 DEF ChangesTo, row
  <2> QED
    BY <2>1, <2>2, <2>3 DEF ChangesTo
<1> QED
  BY <1>1, Typing, PTL DEF Spec, DecisionsAreFinal

(* The strengthening the next theorems need: only a decided review is ever *)
(* acknowledged, so nothing acknowledged is still pending.                 *)
AckedWasDecided ==
    \A i \in Present : Acked(rows[i]) => rows[i].status \in Decisions \cup {"superseded"}

(* An acknowledgement is written in two ways only: acknowledge() stamps a  *)
(* live decision that has none, and every other write carries it along.    *)
LEMMA StepAcknowledges ==
    ASSUME TypeOK, AckedWasDecided, [Next]_vars, NEW i \in DOMAIN rows', SameSession(i)
    PROVE  \/ /\ rows'[i].acknowledgedAt = rows[i].acknowledgedAt
              /\ Acked(rows[i]) => rows'[i].status \in {rows[i].status, "superseded"}
           \/ /\ i \in DOMAIN Swept /\ ~Acked(rows[i])
              /\ Swept[i].status \in Decisions /\ rows'[i].status = Swept[i].status
<1>0. i \in Present
  BY DEF SameSession
<1>1. ChangesTo(i, rows'[i])
  BY StepChanges
<1>2. CASE rows'[i] = rows[i]
  BY <1>2
<1>3. CASE i \in DOMAIN Swept
  <2> DEFINE row == Swept[i]
  <2>1. /\ row \in Row /\ row.acknowledgedAt = rows[i].acknowledgedAt
        /\ Acked(rows[i]) => row.status = rows[i].status
        /\ Acked(row) <=> Acked(rows[i])
    BY <1>3, SweptRows DEF Row, Active, Acked
  <2> HIDE DEF row
  <2>2. CASE rows'[i] = row
    BY <2>1, <2>2
  <2>3. ASSUME NEW rev \in Revisions, rows'[i] = AfterHeartbeat(row, rev)
        PROVE  /\ rows'[i].acknowledgedAt = row.acknowledgedAt
               /\ Acked(row) => rows'[i].status = row.status
    BY <2>1, <2>3 DEF AfterHeartbeat, Row
  <2>4. ASSUME NEW rev \in Revisions, NEW d \in Decisions,
               NEW f \in Feedbacks \cup {NoFeedback}, CanDecide(i, rev, d, f),
               rows'[i] = AfterDecision(row, d, f)
        PROVE  rows'[i].acknowledgedAt = row.acknowledgedAt /\ ~Acked(row)
    <3>1. row.status = "pending" /\ row.acknowledgedAt = rows'[i].acknowledgedAt
      BY <2>1, <2>4 DEF CanDecide, AfterDecision, row, Row
    <3>2. Acked(rows[i]) => rows[i].status # "pending"
      BY <1>0 DEF AckedWasDecided, Decisions
    <3> QED
      BY <2>1, <3>1, <3>2
  <2>5. CASE CanCancel(i) /\ rows'[i] = AfterCancel(row)
    <3>1. rows'[i].acknowledgedAt = row.acknowledgedAt /\ ~Acked(row)
      BY <2>1, <2>5 DEF AfterCancel, Row, CanCancel, row
    <3> QED
      BY <2>1, <3>1
  <2>6. ASSUME NEW own \in Owners, NEW rev \in Revisions, Permitted(i, own),
               rows'[i] = AfterAcknowledge(i, own, rev)
        PROVE  \/ rows'[i].acknowledgedAt = row.acknowledgedAt
                  /\ rows'[i].status \in {row.status, "superseded"}
               \/ ~Acked(row) /\ row.status \in Decisions /\ rows'[i].status = row.status
    BY <2>1, <2>6 DEF AfterAcknowledge, CanAcknowledge, Row, row
  <2> QED
    BY <1>1, <1>2, <1>3, <2>1, <2>2, <2>3, <2>4, <2>5, <2>6 DEF ChangesTo, row
<1> QED
  BY <1>1, <1>2, <1>3 DEF ChangesTo

(* Nothing is ever acknowledged that was not decided (acknowledge(), which *)
(* refuses the rest).                                                      *)
THEOREM AckedTyping == Spec => []AckedWasDecided
<1>1. Init => AckedWasDecided
  BY DEF Init, AckedWasDecided, Present
<1>2. TypeOK /\ AckedWasDecided /\ [Next]_vars => AckedWasDecided'
  <2> SUFFICES ASSUME TypeOK, AckedWasDecided, [Next]_vars, NEW i \in DOMAIN rows', Acked(rows'[i])
               PROVE  rows'[i].status \in Decisions \cup {"superseded"}
    BY DEF AckedWasDecided, Present, Acked
  <2>1. CASE Fresh(rows'[i])
    BY <2>1 DEF Fresh, Acked
  <2>2. CASE SameSession(i)
    BY <2>2, StepAcknowledges DEF AckedWasDecided, Acked, SameSession
  <2>3. Fresh(rows'[i]) \/ SameSession(i)
    <3>1. CASE i \in Present /\ ChangesTo(i, rows'[i])
      <4>1. rows'[i].rank = rows[i].rank
        BY <3>1, ChangeKeepsRank
      <4> QED
        BY <3>1, <4>1 DEF SameSession
    <3> QED
      BY <3>1, StepRows
  <2> QED
    BY <2>1, <2>2, <2>3
<1> QED
  BY <1>1, <1>2, Typing, PTL DEF Spec

(* DeliveryIsKept: no later request retracts a delivered decision.         *)
THEOREM Irrevocability == Spec => DeliveryIsKept
<1> DEFINE Kept(i) ==
        SameSession(i) /\ Acked(rows[i]) =>
            /\ rows'[i].acknowledgedAt = rows[i].acknowledgedAt
            /\ rows'[i].status \in {rows[i].status, "superseded"}
<1>1. TypeOK /\ AckedWasDecided /\ [Next]_vars => \A i \in Present \cap DOMAIN rows' : Kept(i)
  BY StepAcknowledges
<1> QED
  BY <1>1, Typing, AckedTyping, PTL DEF Spec, DeliveryIsKept

(* DeliveryIsLive: a decision is delivered before the deadline and within  *)
(* the lease, and never in the request that took it.                       *)
THEOREM Liveliness == Spec => DeliveryIsLive
<1> DEFINE LiveDelivery(i) ==
        SameSession(i) /\ ~Acked(rows[i]) /\ Acked(rows'[i]) =>
            /\ rows[i].status \in Decisions /\ rows'[i].status = rows[i].status
            /\ now < rows[i].expiresAt
            /\ now - rows[i].heartbeatAt < Lease
<1>1. TypeOK /\ AckedWasDecided /\ [Next]_vars =>
        \A i \in Present \cap DOMAIN rows' : LiveDelivery(i)
  <2> SUFFICES ASSUME TypeOK, AckedWasDecided, [Next]_vars, NEW i \in Present \cap DOMAIN rows',
                      SameSession(i), ~Acked(rows[i]), Acked(rows'[i])
               PROVE  LiveDelivery(i)
    OBVIOUS
  <2>1. /\ i \in DOMAIN Swept /\ Swept[i].status \in Decisions
        /\ rows'[i].status = Swept[i].status
    BY StepAcknowledges DEF Acked
  <2>2. /\ Swept[i].status = SweptStatus(rows[i]) /\ rows[i] \in Row
        /\ Swept[i].status \in {rows[i].status, "expired", "disconnected"}
    BY <2>1, SweptRows DEF Row, TypeOK
  <2>3. rows[i].status = Swept[i].status /\ Active(rows[i])
    BY <2>1, <2>2 DEF Decisions, Active, Live
  <2>4. ~(now >= rows[i].expiresAt) /\ ~(now - rows[i].heartbeatAt >= Lease)
    BY <2>1, <2>2, <2>3 DEF SweptStatus, Decisions
  <2>5. rows[i].expiresAt \in Nat /\ rows[i].heartbeatAt \in Nat /\ now \in Nat
    BY <2>2 DEF Row, TypeOK
  <2> QED
    BY <2>1, <2>3, <2>4, <2>5
<1> QED
  BY <1>1, Typing, AckedTyping, PTL DEF Spec, DeliveryIsLive

-----------------------------------------------------------------------------
(* A nonempty set of ranks has a smallest one: a full queue that holds an  *)
(* inactive session always has a first one to evict.                       *)
LEMMA SmallestNat ==
    ASSUME NEW T \in SUBSET Nat, T # {}
    PROVE  \E m \in T : \A n \in T : m <= n
<1> DEFINE Upto(n) == 0..n
           Intervals == {Upto(n) : n \in T}
<1>1. Intervals \subseteq FiniteSubsetsOf(Nat) /\ Intervals # {}
  <2>1. \A n \in T : Upto(n) \in SUBSET Nat /\ IsFiniteSet(Upto(n))
    BY FS_Interval
  <2> HIDE DEF Upto
  <2> QED
    BY <2>1 DEF FiniteSubsetsOf
<1>2. PICK x \in Intervals : \A y \in Intervals : ~(<<y, x>> \in StrictSubsetOrdering(Nat))
  <2> HIDE DEF Intervals
  <2>1. IsWellFoundedOn(StrictSubsetOrdering(Nat), FiniteSubsetsOf(Nat))
    BY FS_StrictSubsetOrderingWellFounded
  <2> QED
    BY <1>1, <2>1, WFMin, Zenon
<1>3. PICK m \in T : x = Upto(m)
  BY <1>2
<1>4. ASSUME NEW n \in T, ~(m <= n) PROVE FALSE
  <2>1. Upto(n) \subseteq Upto(m) /\ Upto(n) # Upto(m) /\ Upto(m) \subseteq Nat
    BY <1>4
  <2> QED
    BY <1>2, <1>3, <2>1 DEF StrictSubsetOrdering
<1> QED
  BY <1>4

(* A full store with a review that is over has one to evict. *)
LEMMA SomethingToEvict ==
    ASSUME TypeOK, Full, NEW v \in DOMAIN Swept, ~Active(Swept[v])
    PROVE  \E w \in DOMAIN Swept : w \in Evicted
<1> DEFINE Inactive == {w \in DOMAIN Swept : ~Active(Swept[w])}
           Ranks == {Swept[w].rank : w \in Inactive}
<1>1. Ranks \in SUBSET Nat /\ Ranks # {}
  BY SweptRows DEF Row
<1>2. PICK m \in Ranks : \A n \in Ranks : m <= n
  BY <1>1, SmallestNat
<1>3. PICK w \in Inactive : m = Swept[w].rank
  BY <1>2
<1>4. FirstInactive(Swept, w)
  BY <1>2, <1>3 DEF FirstInactive
<1> QED
  BY <1>3, <1>4 DEF Evicted

(* A sweep does not make the store larger. *)
LEMMA SweptSize ==
    ASSUME TypeOK, CapacityBound
    PROVE  /\ IsFiniteSet(DOMAIN Swept) /\ Cardinality(DOMAIN Swept) \in Nat
           /\ Cardinality(DOMAIN Swept) <= Capacity
<1>1. IsFiniteSet(Present)
  BY FS_Subset DEF TypeOK
<1>2. IsFiniteSet(DOMAIN Swept) /\ Cardinality(DOMAIN Swept) <= Cardinality(Present)
  BY <1>1, SweptRows, FS_Subset
<1>3. /\ Cardinality(DOMAIN Swept) \in Nat /\ Cardinality(Present) \in Nat
  BY <1>1, <1>2, FS_CardinalityType
<1> QED
  BY <1>2, <1>3 DEF CapacityBound

(* CapacityBound: the queue holds at most Capacity sessions.               *)
THEOREM Bounded == Spec => []CapacityBound
<1>1. Init => CapacityBound
  BY FS_EmptySet DEF Init, CapacityBound, Present
<1>2. TypeOK /\ CapacityBound /\ [Next]_vars => CapacityBound'
  <2> SUFFICES ASSUME TypeOK, CapacityBound, [Next]_vars
               PROVE  Cardinality(DOMAIN rows') <= Capacity
    BY DEF CapacityBound, Present
  <2>1. CASE DOMAIN rows' \subseteq Present
    <3>1. IsFiniteSet(Present)
      BY FS_Subset DEF TypeOK
    <3>2. Cardinality(DOMAIN rows') <= Cardinality(Present)
      BY <2>1, <3>1, FS_Subset
    <3>3. Cardinality(DOMAIN rows') \in Nat /\ Cardinality(Present) \in Nat
      BY <2>1, <3>1, FS_Subset, FS_CardinalityType
    <3> QED
      BY <3>2, <3>3 DEF CapacityBound
  <2>2. ASSUME NEW id \in Ids, NEW own \in Owners, NEW req \in Requests,
               NEW rev \in Revisions, NEW t \in 1..MaxTimeout, Create(id, own, req, rev, t),
               CanCreate(id)
        PROVE  Cardinality(DOMAIN rows') <= Capacity
    <3> DEFINE kept == DOMAIN Swept \ Evicted
    <3>1. DOMAIN rows' = kept \cup {id}
      BY <2>2 DEF Create, With, Without
    <3>2. IsFiniteSet(kept) /\ Cardinality(kept) \in Nat
      BY SweptSize, FS_Subset, FS_CardinalityType
    <3>3. Cardinality(kept) < Capacity
      <4>1. CASE Full
        <5>1. PICK w \in DOMAIN Swept : w \in Evicted
          BY <2>2, <4>1, SomethingToEvict DEF CanCreate
        <5>2. kept \subseteq DOMAIN Swept \ {w}
          BY <5>1
        <5>3. /\ IsFiniteSet(DOMAIN Swept \ {w})
              /\ Cardinality(DOMAIN Swept \ {w}) = Cardinality(DOMAIN Swept) - 1
          BY <5>1, SweptSize, FS_RemoveElement
        <5>4. Cardinality(kept) <= Cardinality(DOMAIN Swept \ {w})
          BY <5>2, <5>3, FS_Subset
        <5> QED
          BY <3>2, <5>3, <5>4, SweptSize
      <4>2. CASE ~Full
        BY <3>2, <4>2, SweptSize, FS_Subset DEF Full
      <4> QED
        BY <4>1, <4>2
    <3>4. Cardinality(kept \cup {id}) <= Cardinality(kept) + 1
      <4>1. Cardinality(kept \cup {id}) = IF id \in kept THEN Cardinality(kept)
                                                         ELSE Cardinality(kept) + 1
        BY <3>2, FS_AddElement
      <4> QED
        BY <3>2, <4>1
    <3>5. Cardinality(kept \cup {id}) \in Nat
      BY <3>2, FS_AddElement, FS_CardinalityType
    <3> QED
      BY <3>1, <3>2, <3>3, <3>4, <3>5
  <2>4. ASSUME NEW id \in Ids, NEW own \in Owners, NEW req \in Requests,
               NEW rev \in Revisions, NEW t \in 1..MaxTimeout, Create(id, own, req, rev, t)
        PROVE  Cardinality(DOMAIN rows') <= Capacity
    <3>1. CASE ~CanCreate(id)
      BY <2>1, <2>4, <3>1, SweptRows DEF Create
    <3> QED
      BY <2>2, <2>4, <3>1
  <2>5. ASSUME NEW id \in Ids, NEW own \in Owners, NEW rev \in Revisions,
               Heartbeat(id, own, rev) \/ Acknowledge(id, own, rev)
        PROVE  DOMAIN rows' \subseteq Present
    <3>1. Permitted(id, own) => id \in DOMAIN Swept
      BY DEF Permitted, Found
    <3> QED
      <4>1. CASE Heartbeat(id, own, rev)
        BY <3>1, <4>1, SweptRows DEF Heartbeat, Update, With
      <4>2. CASE Acknowledge(id, own, rev)
        BY <3>1, <4>2, SweptRows DEF Acknowledge, Update, With
      <4> QED
        BY <2>5, <4>1, <4>2
  <2>6. ASSUME NEW id \in Ids, NEW rev \in Revisions, NEW d \in Decisions,
               NEW f \in Feedbacks \cup {NoFeedback}, Decide(id, rev, d, f)
        PROVE  DOMAIN rows' \subseteq Present
    <3>1. CanDecide(id, rev, d, f) => id \in DOMAIN Swept
      BY DEF CanDecide, Found
    <3> QED
      BY <2>6, <3>1, SweptRows DEF Decide, Update, With
  <2>7. ASSUME NEW id \in Ids, NEW own \in Owners, Cancel(id) \/ OwnerCancel(id, own)
        PROVE  DOMAIN rows' \subseteq Present
    <3>1. CanCancel(id) => id \in DOMAIN Swept
      BY DEF CanCancel, Found
    <3> QED
      BY <2>7, <3>1, SweptRows DEF Cancel, OwnerCancel, Update, With
  <2>8. CASE List \/ Restart \/ Tick \/ UNCHANGED vars
    BY <2>1, <2>8, SweptRows DEF List, Restart, Tick, vars, Present
  <2>9. ASSUME NEW id \in Ids, Cancel(id) PROVE DOMAIN rows' \subseteq Present
    <3>1. CanCancel(id) => id \in DOMAIN Swept
      BY DEF CanCancel, Found
    <3> QED
      BY <2>9, <3>1, SweptRows DEF Cancel, Update, With
  <2> QED
    BY <2>1, <2>4, <2>5, <2>6, <2>7, <2>8, <2>9 DEF Next
<1> QED
  BY <1>1, <1>2, Typing, PTL DEF Spec

(* A review that is live by its deadline and lease survives the sweep as   *)
(* it is.                                                                  *)
LEMMA LiveSurvivesSweep ==
    ASSUME TypeOK, NEW i \in Present, Active(rows[i]), now < rows[i].expiresAt,
           now - rows[i].heartbeatAt < Lease
    PROVE  i \in DOMAIN Swept /\ Active(Swept[i])
<1>1. rows[i] \in Row /\ now \in Nat
  BY DEF TypeOK
<1>2. rows[i].expiresAt \in Nat /\ rows[i].heartbeatAt \in Nat
  BY <1>1 DEF Row
<1>3. ~Forgotten(rows[i])
  BY <1>1, <1>2 DEF Forgotten
<1>4. i \in DOMAIN Swept
  BY <1>3 DEF Swept
<1>5. SweptStatus(rows[i]) = rows[i].status
  BY <1>1, <1>2 DEF SweptStatus
<1>6. Swept[i].status = rows[i].status /\ Swept[i].acknowledgedAt = rows[i].acknowledgedAt
  BY <1>1, <1>4, <1>5, SweptRows DEF Row
<1> QED
  BY <1>4, <1>6 DEF Active, Live, Acked

(* LiveReviewsKept: only a restart takes a live review out of the store.   *)
THEOREM NoLiveEviction == Spec => LiveReviewsKept
<1> DEFINE Survives(i) ==
        /\ Active(rows[i]) /\ now < rows[i].expiresAt
        /\ now - rows[i].heartbeatAt < Lease
        => i \in DOMAIN rows' \/ DOMAIN rows' = {}
<1>1. TypeOK /\ [Next]_vars => \A i \in Present : Survives(i)
  <2> SUFFICES ASSUME TypeOK, [Next]_vars, NEW i \in Present, Active(rows[i]),
                      now < rows[i].expiresAt, now - rows[i].heartbeatAt < Lease
               PROVE  i \in DOMAIN rows' \/ DOMAIN rows' = {}
    OBVIOUS
  <2>1. i \in DOMAIN Swept /\ Active(Swept[i])
    BY LiveSurvivesSweep
  <2>2. ASSUME NEW id \in Ids, NEW own \in Owners, NEW req \in Requests,
               NEW rev \in Revisions, NEW t \in 1..MaxTimeout, Create(id, own, req, rev, t)
        PROVE  i \in DOMAIN rows'
    <3>1. i \notin Evicted
      BY <2>1 DEF Evicted, FirstInactive
    <3> QED
      BY <2>1, <2>2, <3>1 DEF Create, With, Without
  <2>4. ASSUME NEW id \in Ids, NEW own \in Owners, NEW rev \in Revisions,
               Heartbeat(id, own, rev)
        PROVE  i \in DOMAIN rows'
    BY <2>1, <2>4 DEF Heartbeat, Update, With
  <2>5. ASSUME NEW id \in Ids, NEW rev \in Revisions, NEW d \in Decisions,
               NEW f \in Feedbacks \cup {NoFeedback}, Decide(id, rev, d, f)
        PROVE  i \in DOMAIN rows'
    BY <2>1, <2>5 DEF Decide, Update, With
  <2>6. ASSUME NEW id \in Ids, Cancel(id) PROVE i \in DOMAIN rows'
    BY <2>1, <2>6 DEF Cancel, Update, With
  <2>7. ASSUME NEW id \in Ids, NEW own \in Owners, OwnerCancel(id, own)
        PROVE  i \in DOMAIN rows'
    BY <2>1, <2>7 DEF OwnerCancel, Update, With
  <2>8. ASSUME NEW id \in Ids, NEW own \in Owners, NEW rev \in Revisions,
               Acknowledge(id, own, rev)
        PROVE  i \in DOMAIN rows'
    BY <2>1, <2>8 DEF Acknowledge, Update, With
  <2>9. CASE List
    BY <2>1, <2>9 DEF List
  <2>10. CASE Restart
    BY <2>10 DEF Restart
  <2>11. CASE Tick \/ UNCHANGED vars
    BY <2>11 DEF Tick, vars, Present
  <2> QED
    BY <2>2, <2>4, <2>5, <2>6, <2>7, <2>8, <2>9, <2>10, <2>11 DEF Next
<1> QED
  BY <1>1, Typing, PTL DEF Spec, LiveReviewsKept

-----------------------------------------------------------------------------
(* The approval gate: whatever is lost, late, restarted or edited, no      *)
(* agent is let through but by a standing approval of what it submitted.   *)
(* The invariant speaks of one hook at a time (HookInv).  Most steps leave *)
(* a hook alone or only take something away from it (Quiet); the others    *)
(* are its own submission, acknowledgement and answer, what the server     *)
(* does with its requests, the reviewer's verdict and an edit of its file. *)

Over == {"expired", "disconnected", "cancelled", "superseded"}

(* A decision was taken on h's review, as far as anything still shows it.  *)
Settled(h) ==
    \/ view[h] \in Decisions \/ replies[h] \in Decisions \/ delivered[h] # "none"
    \/ h \in Present /\ rows[h].status \in Decisions
    \/ pc[h] = "ack" \/ \E m \in requests : m.hook = h /\ m.op = "ack"

Granted(h) ==
    /\ <<h, snapshot[h]>> \in approved /\ delivered[h] = "approved"
    /\ h \notin withdrawn /\ h \in current

RowInv(h) ==
    /\ rows[h].revision = snapshot[h]
    /\ rows[h].status = "approved" => <<h, snapshot[h]>> \in approved
    /\ h \in withdrawn => rows[h].status \in Over
    /\ delivered[h] # "none" => Acked(rows[h]) /\ rows[h].status \in Over \cup {delivered[h]}

(* Nothing of h's review is anywhere, so it can be inserted.               *)
Untold(h) == h \notin Present /\ h \notin withdrawn /\ ~Settled(h)

HookInv(h) ==
    /\ pc[h] = "idle" => Untold(h) /\ \A m \in requests : m.hook # h
    /\ pc[h] # "done" => verdict[h] = "none"
    /\ \A m \in requests : m.hook = h /\ m.op = "create" => m.revision = snapshot[h] /\ Untold(h)
    /\ h \in Present => RowInv(h)
    /\ Settled(h) => /\ h \in Present => rows[h].status # "pending"
                     /\ file[h] = snapshot[h] => h \in current
    /\ \A m \in requests :
          m.hook = h /\ m.op = "ack" /\ m.revision = snapshot[h] => h \in current
    /\ verdict[h] = "allow" \/ (pc[h] = "ack" /\ replies[h] = "approved") => Granted(h)

IInv == TypeOK /\ GateTypeOK /\ \A h \in Ids : HookInv(h)

-----------------------------------------------------------------------------
(* The store *)

(* The row i of the store after a step was there before it, says the same  *)
(* revision, stays acknowledged, and keeps its status or is over.          *)
Calm(i) ==
    /\ i \in Present
    /\ rows'[i].revision = rows[i].revision
    /\ Acked(rows[i]) => Acked(rows'[i])
    /\ rows'[i].status \in {rows[i].status} \cup Over

(* A sweep ends reviews and otherwise leaves them as they are. *)
LEMMA SweptCalm ==
    ASSUME TypeOK, NEW i \in DOMAIN Swept
    PROVE  /\ i \in Present /\ Swept[i] \in Row
           /\ Swept[i].revision = rows[i].revision
           /\ Swept[i].acknowledgedAt = rows[i].acknowledgedAt
           /\ Swept[i].status \in {rows[i].status} \cup Over
BY SweptRows DEF TypeOK, Row, Over

(* An update changes the row it names, to what it is given, and sweeps the *)
(* others.                                                                 *)
LEMMA UpdateCalm ==
    ASSUME TypeOK, NEW id \in Ids, NEW ok, NEW row, Update(id, ok, row),
           ok => id \in DOMAIN Swept
    PROVE  /\ \A i \in DOMAIN rows' \ {id} : Calm(i)
           /\ ~ok => \A i \in DOMAIN rows' : Calm(i)
           /\ ok => id \in DOMAIN rows' /\ rows'[id] = row
<1>1. \A i \in DOMAIN rows' : i # id \/ ~ok => i \in DOMAIN Swept /\ rows'[i] = Swept[i]
  BY UpdateChanges
<1>2. ok => id \in DOMAIN rows' /\ rows'[id] = row
  BY DEF Update, With
<1> QED
  BY <1>1, <1>2, SweptCalm DEF Calm, Acked

(* So does a method that stops after its sweep. *)
LEMMA SweepCalm ==
    ASSUME TypeOK, rows' = Swept
    PROVE  \A i \in DOMAIN rows' : Calm(i)
BY SweptCalm DEF Calm, Acked

(* A heartbeat changes nothing the gate relies on. *)
LEMMA HeartbeatCalm ==
    ASSUME TypeOK, NEW id \in Ids, NEW rev, Heartbeat(id, id, rev)
    PROVE  \A i \in DOMAIN rows' : Calm(i)
<1> DEFINE ok == Permitted(id, id)
           row == AfterHeartbeat(Swept[id], rev)
<1>1. Update(id, ok, row) /\ (ok => id \in DOMAIN Swept)
  BY DEF Heartbeat, Permitted, Found
<1>2. ASSUME NEW old \in Row
      PROVE  /\ AfterHeartbeat(old, rev).revision = old.revision
             /\ AfterHeartbeat(old, rev).acknowledgedAt = old.acknowledgedAt
             /\ AfterHeartbeat(old, rev).status \in {old.status} \cup Over
  BY DEF AfterHeartbeat, Row, Over
<1>3. id \in DOMAIN Swept =>
        /\ id \in Present /\ row.revision = rows[id].revision
        /\ row.acknowledgedAt = rows[id].acknowledgedAt
        /\ row.status \in {rows[id].status} \cup Over
  BY <1>2, SweptCalm
<1> HIDE DEF ok, row
<1>4. ok => Calm(id)
  BY <1>1, <1>3, UpdateCalm DEF Calm, Acked
<1> QED
  BY <1>1, <1>4, UpdateCalm

(* A cancellation ends its own review, unless that was acknowledged. *)
LEMMA CancelCalm ==
    ASSUME TypeOK, NEW id \in Ids, NEW ok, ok => CanCancel(id),
           Update(id, ok, AfterCancel(Swept[id]))
    PROVE  /\ \A i \in DOMAIN rows' : Calm(i)
           /\ ok => /\ id \in DOMAIN rows' /\ rows'[id].status \in Over
                    /\ ~Acked(rows[id])
<1> DEFINE row == AfterCancel(Swept[id])
<1>1. Update(id, ok, row) /\ (ok => id \in DOMAIN Swept /\ ~Acked(Swept[id]))
  BY DEF CanCancel, Found
<1>2. ASSUME NEW old \in Row
      PROVE  /\ AfterCancel(old).revision = old.revision
             /\ AfterCancel(old).acknowledgedAt = old.acknowledgedAt
             /\ AfterCancel(old).status \in Over
  BY DEF AfterCancel, Row, Over
<1>3. id \in DOMAIN Swept =>
        /\ id \in Present /\ row.revision = rows[id].revision
        /\ row.acknowledgedAt = rows[id].acknowledgedAt
        /\ row.status \in Over
        /\ Acked(Swept[id]) <=> Acked(rows[id])
  BY <1>2, SweptCalm DEF Acked
<1> HIDE DEF row
<1>4. ok => Calm(id) /\ id \in DOMAIN rows' /\ rows'[id].status \in Over /\ ~Acked(rows[id])
  BY <1>1, <1>3, UpdateCalm DEF Calm, Acked
<1> QED
  BY <1>1, <1>4, UpdateCalm

(* An acknowledgement stamps its own review, which was decided. *)
LEMMA AcknowledgeCalm ==
    ASSUME TypeOK, NEW id \in Ids, NEW rev, Acknowledge(id, id, rev)
    PROVE  /\ \A i \in DOMAIN rows' : Calm(i)
           /\ CanAcknowledge(id, id, rev) =>
                /\ id \in DOMAIN rows' /\ Acked(rows'[id])
                /\ rows[id].revision = rev /\ rows[id].status \in Decisions
                /\ rows'[id].status = rows[id].status
<1> DEFINE ok == Permitted(id, id)
           row == AfterAcknowledge(id, id, rev)
           old == Swept[id]
<1>1. Update(id, ok, row) /\ (ok => id \in DOMAIN Swept)
  BY DEF Acknowledge, Permitted, Found
<1>2. now \in Nat
  BY DEF TypeOK
<1>3. ASSUME id \in DOMAIN Swept
      PROVE  /\ row.revision = old.revision
             /\ row.acknowledgedAt \in {old.acknowledgedAt, now}
             /\ Acked(old) => Acked(row)
             /\ row.status \in {old.status} \cup Over
             /\ CanAcknowledge(id, id, rev) => Acked(row) /\ row.status = old.status
  <2>1. old \in Row
    BY <1>3, SweptCalm
  <2>2. old = Swept[id]
    OBVIOUS
  <2> HIDE DEF old
  <2>3. row = IF rev # old.revision THEN [old EXCEPT !.status = "superseded"]
              ELSE IF CanAcknowledge(id, id, rev) /\ ~Acked(old)
                   THEN [old EXCEPT !.acknowledgedAt = now] ELSE old
    BY <2>2 DEF AfterAcknowledge
  <2>4. CanAcknowledge(id, id, rev) => rev = old.revision
    BY <2>2 DEF CanAcknowledge
  <2> HIDE DEF row
  <2> QED
    BY <1>2, <2>1, <2>3, <2>4 DEF Row, Acked, Never, Over
<1>4. id \in DOMAIN Swept =>
        /\ id \in Present /\ old.revision = rows[id].revision
        /\ old.acknowledgedAt = rows[id].acknowledgedAt
        /\ old.status \in {rows[id].status} \cup Over
  BY SweptCalm
<1>5. CanAcknowledge(id, id, rev) => ok /\ rev = old.revision /\ old.status \in Decisions
  BY DEF CanAcknowledge
<1> HIDE DEF ok, row, old
<1>6. ok => Calm(id)
  BY <1>1, <1>3, <1>4, UpdateCalm DEF Calm, Acked
<1>7. CanAcknowledge(id, id, rev) =>
        /\ id \in DOMAIN rows' /\ Acked(rows'[id])
        /\ rows[id].revision = rev /\ rows[id].status \in Decisions
        /\ rows'[id].status = rows[id].status
  <2>1. CanAcknowledge(id, id, rev) =>
          /\ Acked(row) /\ row.status = rows[id].status
          /\ rows[id].revision = rev /\ rows[id].status \in Decisions
    BY <1>1, <1>3, <1>4, <1>5 DEF Decisions, Over
  <2>2. CanAcknowledge(id, id, rev) => id \in DOMAIN rows' /\ rows'[id] = row
    BY <1>1, <1>5, UpdateCalm
  <2> QED
    BY <2>1, <2>2 DEF Acked
<1> QED
  BY <1>1, <1>6, <1>7, UpdateCalm

(* A decision touches its own review, which was pending. *)
LEMMA DecideCalm ==
    ASSUME TypeOK, NEW id \in Ids, NEW rev, NEW d \in Decisions, NEW f, Decide(id, rev, d, f)
    PROVE  /\ \A i \in DOMAIN rows' \ {id} : Calm(i)
           /\ ~CanDecide(id, rev, d, f) => \A i \in DOMAIN rows' : Calm(i)
           /\ CanDecide(id, rev, d, f) =>
                /\ id \in Present /\ rows[id].status = "pending" /\ rows[id].revision = rev
                /\ id \in DOMAIN rows' /\ rows'[id].revision = rev /\ rows'[id].status = d
<1> DEFINE ok == CanDecide(id, rev, d, f)
           row == AfterDecision(Swept[id], d, f)
<1>1. /\ Update(id, ok, row)
      /\ ok => id \in DOMAIN Swept /\ Swept[id].status = "pending" /\ Swept[id].revision = rev
  BY DEF Decide, CanDecide, Found
<1>2. ASSUME NEW old \in Row
      PROVE  AfterDecision(old, d, f).revision = old.revision /\ AfterDecision(old, d, f).status = d
  BY DEF AfterDecision, Row
<1>3. id \in DOMAIN Swept =>
        /\ id \in Present /\ row.revision = Swept[id].revision /\ row.status = d
        /\ Swept[id].revision = rows[id].revision
        /\ Swept[id].status \in {rows[id].status} \cup Over
  BY <1>2, SweptCalm
<1> HIDE DEF ok, row
<1>4. ok => /\ id \in Present /\ rows[id].status = "pending" /\ rows[id].revision = rev
            /\ id \in DOMAIN rows' /\ rows'[id].revision = rev /\ rows'[id].status = d
  BY <1>1, <1>3, UpdateCalm DEF Over
<1> QED
  BY <1>1, <1>4, UpdateCalm DEF ok

(* A submission touches no other review. *)
LEMMA CreateCalm ==
    ASSUME TypeOK, NEW id \in Ids, NEW req, NEW rev, Create(id, id, req, rev, Timeout)
    PROVE  /\ \A i \in DOMAIN rows' \ {id} : Calm(i)
           /\ ~CanCreate(id) => \A i \in DOMAIN rows' : Calm(i)
           /\ CanCreate(id) => /\ id \in DOMAIN rows' /\ rows'[id].revision = rev
                               /\ rows'[id].status = "pending" /\ ~Acked(rows'[id])
<1>1. CASE CanCreate(id)
  <2> DEFINE kept == Without(Swept, Evicted)
             new == NewRow(id, req, rev, Timeout)
  <2>1. rows' = With(kept, id, new)
    BY <1>1 DEF Create
  <2>2. /\ DOMAIN kept \subseteq DOMAIN Swept /\ \A i \in DOMAIN kept : kept[i] = Swept[i]
        /\ new.revision = rev /\ new.status = "pending" /\ ~Acked(new)
    BY DEF Without, NewRow, Acked
  <2> HIDE DEF kept, new
  <2>3. /\ id \in DOMAIN rows' /\ rows'[id] = new
        /\ \A i \in DOMAIN rows' \ {id} : i \in DOMAIN Swept /\ rows'[i] = Swept[i]
    BY <2>1, <2>2 DEF With
  <2> QED
    BY <1>1, <2>2, <2>3, SweptCalm DEF Calm, Acked
<1>2. CASE ~CanCreate(id)
  BY <1>2, SweepCalm DEF Create
<1> QED
  BY <1>1, <1>2

-----------------------------------------------------------------------------
(* Types *)

(* A hook that fails is in one of the states a hook can be in. *)
LEMMA FailTypes ==
    ASSUME GateTypeOK, NEW h \in Ids, pc[h] \in Awaiting \cup {"review"}, Fail(h)
    PROVE  /\ requests' \subseteq Request /\ replies' \in [Ids -> Reply]
           /\ pc' \in [Ids -> Awaiting \cup {"idle", "review", "done", "killed"}]
           /\ verdict' \in [Ids -> {"none", "allow", "deny"}]
BY DEF GateTypeOK, Fail, Answer, Send, Request, Reply, Awaiting

(* The steps of hooks keep the types. *)
LEMMA HookTypes ==
    ASSUME TypeOK, GateTypeOK, NEW h \in Ids,
           \/ Start(h) \/ Continue(h) \/ TakeReply(h) \/ RequestTimeout(h)
           \/ Signal(h) \/ ParentExits(h) \/ Kill(h) \/ LoseReply(h)
    PROVE  GateTypeOK'
<1>1. CASE Start(h)
  BY <1>1 DEF Start, GateTypeOK, Answer, Send, Request, Reply, Awaiting, historyVars
<1>2. CASE Continue(h)
  <2>1. CASE Fail(h)
    BY <1>2, <2>1, FailTypes DEF Continue, GateTypeOK, historyVars
  <2>2. CASE ~Fail(h)
    <3>1. file[h] \in Revisions \/ view[h] \notin Decisions \cup {"pending"}
      BY <1>2, <2>2 DEF Continue, GateTypeOK
    <3>2. \/ file[h] \in Revisions /\ (Send(h, "heartbeat", file[h]) \/ Send(h, "ack", file[h]))
          \/ Answer(h, view[h])
      BY <1>2, <2>2, <3>1 DEF Continue, RevisionToSend
    <3> QED
      BY <1>2, <3>2
         DEF Continue, GateTypeOK, Answer, Send, Request, Reply, Awaiting, historyVars
  <2> QED
    BY <2>1, <2>2
<1>3. CASE TakeReply(h)
  <2>1. Deadline \in Nat
    BY TimeAssumption, TimeoutAssumption DEF Deadline, TypeOK
  <2>2. view' \in [Ids -> Statuses] /\ deadline' \in [Ids -> Nat]
    BY <1>3, <2>1 DEF TakeReply, GateTypeOK, Reply, Statuses
  <2>3. \/ Fail(h) \/ Answer(h, "cancelled") \/ Answer(h, replies[h])
        \/ /\ pc' = [pc EXCEPT ![h] = "review"] /\ replies' = [replies EXCEPT ![h] = "none"]
           /\ UNCHANGED <<requests, verdict>>
    BY <1>3 DEF TakeReply
  <2>4. /\ requests' \subseteq Request /\ replies' \in [Ids -> Reply]
        /\ pc' \in [Ids -> Awaiting \cup {"idle", "review", "done", "killed"}]
        /\ verdict' \in [Ids -> {"none", "allow", "deny"}]
    BY <1>3, <2>3, FailTypes DEF TakeReply, GateTypeOK, Answer, Reply
  <2> QED
    BY <1>3, <2>2, <2>4 DEF TakeReply, GateTypeOK, historyVars
<1>4. CASE RequestTimeout(h)
  BY <1>4, FailTypes DEF RequestTimeout, GateTypeOK, Answer, Reply, historyVars
<1>5. CASE Signal(h)
  BY <1>5, FailTypes DEF Signal, GateTypeOK, Abortable, historyVars
<1>6. CASE ParentExits(h)
  BY <1>6, FailTypes DEF ParentExits, GateTypeOK, historyVars
<1>7. CASE Kill(h) \/ LoseReply(h)
  BY <1>7 DEF Kill, LoseReply, GateTypeOK, Reply, historyVars, networkVars, hookVars
<1> QED
  BY <1>1, <1>2, <1>3, <1>4, <1>5, <1>6, <1>7

(* A request the server handles does to the store one of its methods.      *)
LEMMA PerformStep ==
    ASSUME GateTypeOK, NEW m \in requests, Perform(m)
    PROVE  Next /\ m \in Request
<1>1. m \in Request /\ m.hook \in Ids /\ m.revision \in Revisions /\ m.hook \in Owners
      /\ Timeout \in 1..MaxTimeout
  BY HookAssumption, TimeoutAssumption DEF GateTypeOK, Request
<1>2. CASE m.op = "create"
  BY <1>1, <1>2 DEF Perform, Next
<1>3. CASE m.op = "heartbeat"
  BY <1>1, <1>3 DEF Perform, Next
<1>4. CASE m.op = "ack"
  BY <1>1, <1>4 DEF Perform, Next
<1>5. CASE m.op = "cancel"
  BY <1>1, <1>5 DEF Perform, Next
<1> QED
  BY <1>1, <1>2, <1>3, <1>4, <1>5 DEF Request, Awaiting

(* Every step of the gate is a step of the store or leaves it alone.       *)
LEMMA StoreStep ==
    ASSUME GateTypeOK, [GateNext]_gateVars
    PROVE  [Next]_vars
<1>1. ASSUME NEW h \in Ids, NEW rev \in Revisions, NEW d \in Decisions,
             NEW f \in Feedbacks \cup {NoFeedback}, ReviewerDecides(h, rev, d, f)
      PROVE  Next
  BY <1>1 DEF ReviewerDecides, Next
<1>2. ASSUME NEW h \in Ids, ReviewerCancels(h)
      PROVE  Next
  BY <1>2 DEF ReviewerCancels, Next
<1>3. ASSUME NEW m \in requests, Handle(m)
      PROVE  Next
  BY <1>3, PerformStep DEF Handle
<1>4. CASE ServerRestarts \/ PageRefreshes \/ ClockTicks
  BY <1>4 DEF ServerRestarts, PageRefreshes, ClockTicks, Next
<1>5. ASSUME NEW h \in Ids,
             \/ Start(h) \/ Continue(h) \/ TakeReply(h) \/ RequestTimeout(h)
             \/ Signal(h) \/ ParentExits(h) \/ Kill(h) \/ LoseReply(h)
             \/ \E rev \in Revisions \cup {NoFile} : Edit(h, rev)
      PROVE  UNCHANGED vars
  BY <1>5 DEF Start, Continue, TakeReply, RequestTimeout, Signal, ParentExits, Kill,
              LoseReply, Edit
<1>6. ASSUME NEW m \in requests, Lose(m)
      PROVE  UNCHANGED vars
  BY <1>6 DEF Lose
<1>7. CASE UNCHANGED gateVars
  BY <1>7 DEF gateVars
<1> QED
  BY <1>1, <1>2, <1>3, <1>4, <1>5, <1>6, <1>7 DEF GateNext

(* The steps of the server keep the types. *)
LEMMA HandleTypes ==
    ASSUME TypeOK, GateTypeOK, TypeOK', NEW m \in requests, Handle(m)
    PROVE  GateTypeOK'
<1>1. m \in Request /\ m.hook \in Ids
  BY DEF GateTypeOK, Request
<1> DEFINE h == m.hook
<1>2. CASE Accepted(m)
  <2>1. h \in DOMAIN rows'
    <3>1. CASE m.op = "create"
      BY <1>1, <1>2, <3>1, CreateCalm DEF Handle, Perform, Accepted
    <3>2. CASE m.op = "heartbeat"
      BY <1>1, <1>2, <3>2 DEF Handle, Perform, Accepted, Heartbeat, Update, With
    <3>3. CASE m.op = "ack"
      BY <1>1, <1>2, <3>3, AcknowledgeCalm DEF Handle, Perform, Accepted
    <3>4. CASE m.op = "cancel"
      BY <1>1, <1>2, <3>4 DEF Handle, Perform, Accepted, OwnerCancel, Update, With
    <3> QED
      BY <1>1, <3>1, <3>2, <3>3, <3>4 DEF Request, Awaiting
  <2>2. rows'[h].status \in Statuses
    BY <2>1 DEF TypeOK, Present, Row
  <2>3. m.op = "ack" => rows'[h].status \in Decisions
    BY <1>1, <1>2, AcknowledgeCalm DEF Handle, Perform, Accepted
  <2> QED
    BY <1>1, <2>2, <2>3 DEF Handle, GateTypeOK, Reply, hookVars
<1>3. CASE ~Accepted(m)
  BY <1>1, <1>3 DEF Handle, GateTypeOK, Reply, hookVars
<1> QED
  BY <1>2, <1>3

(* Every step keeps the types. *)
LEMMA TypesKeep ==
    ASSUME TypeOK, GateTypeOK, [GateNext]_gateVars
    PROVE  TypeOK' /\ GateTypeOK'
<1>1. TypeOK'
  BY StoreStep, StepTyping
<1>2. ASSUME NEW h \in Ids, NEW rev \in Revisions, NEW d \in Decisions,
             NEW f \in Feedbacks \cup {NoFeedback}, ReviewerDecides(h, rev, d, f)
      PROVE  GateTypeOK'
  BY <1>2 DEF ReviewerDecides, GateTypeOK, hookVars, networkVars
<1>3. ASSUME NEW h \in Ids, ReviewerCancels(h)
      PROVE  GateTypeOK'
  BY <1>3 DEF ReviewerCancels, GateTypeOK, hookVars, networkVars
<1>4. ASSUME NEW h \in Ids, NEW rev \in Revisions \cup {NoFile}, Edit(h, rev)
      PROVE  GateTypeOK'
  BY <1>4 DEF Edit, GateTypeOK, hookVars, networkVars
<1>5. ASSUME NEW m \in requests, Lose(m)
      PROVE  GateTypeOK'
  BY <1>5 DEF Lose, GateTypeOK, hookVars, historyVars
<1>6. ASSUME ServerRestarts \/ PageRefreshes \/ ClockTicks \/ UNCHANGED gateVars
      PROVE  GateTypeOK'
  BY <1>6 DEF ServerRestarts, PageRefreshes, ClockTicks, Environment, gateVars,
              GateTypeOK, hookVars, networkVars, historyVars
<1> QED
  BY <1>1, <1>2, <1>3, <1>4, <1>5, <1>6, HookTypes, HandleTypes DEF GateNext

-----------------------------------------------------------------------------
(* One hook *)

(* A step that at most takes something from h: a row that goes or is over, *)
(* a message or reply that is lost, a hook that gives up or waits again.   *)
Quiet(h) ==
    /\ pc'[h] = pc[h] \/ (pc[h] \notin {"idle", "done"} /\ pc'[h] \notin {"idle", "ack"})
    /\ verdict'[h] = verdict[h] \/ (pc[h] # "done" /\ pc'[h] = "done" /\ verdict'[h] = "deny")
    /\ view'[h] \in {view[h], replies[h]}
    /\ \/ replies'[h] \in {replies[h], "none", "error"}
       \/ pc'[h] # "ack" /\ h \in DOMAIN rows' /\ replies'[h] = rows'[h].status
    /\ \A m \in requests' :
          m.hook = h => m \in requests \/ (pc[h] # "idle" /\ m.op \in {"heartbeat", "cancel"})
    /\ h \in DOMAIN rows' => Calm(h)
    /\ snapshot'[h] = snapshot[h] /\ file'[h] = file[h] /\ delivered'[h] = delivered[h]
    /\ approved \subseteq approved'
    /\ h \in withdrawn' <=> h \in withdrawn
    /\ h \in current' <=> h \in current

(* What any step may do to h's review and to its agent: insert the review, *)
(* decide it, end it, deliver the decision, or deny; and allow once an     *)
(* approval was delivered.                                                 *)
StageStep(h) ==
    \/ (h \in DOMAIN rows' => Calm(h)) /\ delivered'[h] = delivered[h]
    \/ /\ h \in DOMAIN rows' /\ delivered[h] = "none" /\ delivered'[h] = "none"
       /\ \/ h \notin Present /\ rows'[h].status = "pending"
          \/ h \in Present /\ rows[h].status = "pending" /\ rows'[h].status \in Decisions
    \/ /\ h \in Present /\ rows[h].status \in Decisions
       /\ delivered[h] \in {"none", rows[h].status} /\ delivered'[h] = rows[h].status

VerdictStep(h) ==
    \/ verdict'[h] = verdict[h]
    \/ /\ verdict[h] = "none"
       /\ verdict'[h] = "deny" \/ (verdict'[h] = "allow" /\ delivered[h] = "approved")

Promise(h) == StageStep(h) /\ VerdictStep(h)

(* A quiet step decides nothing. *)
LEMMA QuietSettles ==
    ASSUME GateTypeOK, NEW h \in Ids, HookInv(h), Quiet(h), Settled(h)'
    PROVE  Settled(h)
<1>1. h \in DOMAIN rows' /\ rows'[h].status \in Decisions => Settled(h)
  BY DEF Quiet, Calm, Settled, Over, Decisions
<1>2. view'[h] \in Decisions => Settled(h)
  BY DEF Quiet, Settled
<1>3. replies'[h] \in Decisions => Settled(h)
  BY <1>1 DEF Quiet, Settled, Decisions
<1>4. delivered'[h] # "none" \/ pc'[h] = "ack" => Settled(h)
  BY DEF Quiet, Settled
<1>5. (\E m \in requests' : m.hook = h /\ m.op = "ack") => Settled(h)
  BY DEF Quiet, Settled
<1> QED
  BY <1>1, <1>2, <1>3, <1>4, <1>5 DEF Settled, Present

(* A quiet step keeps the invariant of a hook and breaks no promise to it. *)
LEMMA QuietKeeps ==
    ASSUME GateTypeOK, NEW h \in Ids, HookInv(h), Quiet(h)
    PROVE  HookInv(h)' /\ Promise(h)
<1>1. Untold(h) => Untold(h)'
  BY QuietSettles DEF Untold, Quiet, Calm, Present
<1>2. (pc[h] = "idle" => Untold(h) /\ \A m \in requests : m.hook # h)'
  BY <1>1 DEF HookInv, Quiet
<1>3. (pc[h] # "done" => verdict[h] = "none")'
  BY DEF HookInv, Quiet
<1>4. (\A m \in requests : m.hook = h /\ m.op = "create"
                            => m.revision = snapshot[h] /\ Untold(h))'
  BY <1>1 DEF HookInv, Quiet
<1>5. (h \in Present => RowInv(h))'
  BY DEF HookInv, RowInv, Quiet, Calm, Present, Acked, Over
<1>6. (Settled(h) => /\ h \in Present => rows[h].status # "pending"
                     /\ file[h] = snapshot[h] => h \in current)'
  BY QuietSettles DEF HookInv, Quiet, Calm, Present, Over
<1>7. (\A m \in requests : m.hook = h /\ m.op = "ack" /\ m.revision = snapshot[h]
                            => h \in current)'
  BY DEF HookInv, Quiet
<1>8. Granted(h) => Granted(h)'
  BY DEF Granted, Quiet
<1>9. (verdict[h] = "allow" \/ (pc[h] = "ack" /\ replies[h] = "approved") => Granted(h))'
  BY <1>8 DEF HookInv, Quiet
<1>10. Promise(h)
  BY DEF HookInv, Quiet, Promise, StageStep, VerdictStep
<1> QED
  BY <1>2, <1>3, <1>4, <1>5, <1>6, <1>7, <1>9, <1>10 DEF HookInv

(* The hook's own steps, but for a submission, an acknowledgement and its  *)
(* answer.                                                                 *)
Yields(g) ==
    /\ pc[g] \in Awaiting \cup {"review"}
    /\ \/ Fail(g)
       \/ \E status : status # "approved" /\ Answer(g, status)
       \/ Send(g, "heartbeat", RevisionToSend(g))
       \/ /\ pc' = [pc EXCEPT ![g] = "review"] /\ replies' = [replies EXCEPT ![g] = "none"]
          /\ UNCHANGED <<requests, verdict>>

(* A store that is not touched is calm. *)
LEMMA StoreIsCalm == ASSUME TypeOK, rows' = rows PROVE \A i \in DOMAIN rows' : Calm(i)
BY DEF Calm, Acked, Present

(* A step that delivers nothing leaves every stage as it is. *)
LEMMA IdleStage ==
    ASSUME TypeOK, rows' = rows, delivered' = delivered, NEW h
    PROVE  StageStep(h)
BY StoreIsCalm DEF StageStep

(* A hook that goes back to waiting is quiet for all. *)
LEMMA YieldsQuiet ==
    ASSUME TypeOK, GateTypeOK, NEW g \in Ids, Yields(g), NEW h \in Ids,
           UNCHANGED <<vars, historyVars, snapshot, file>>, view'[h] \in {view[h], replies[h]}
    PROVE  Quiet(h)
<1>1. h \in DOMAIN rows' => Calm(h)
  BY StoreIsCalm DEF vars
<1>2. /\ pc'[h] = pc[h] \/ (pc[h] \notin {"idle", "done"} /\ pc'[h] \notin {"idle", "ack"})
      /\ verdict'[h] = verdict[h] \/ (pc[h] # "done" /\ pc'[h] = "done" /\ verdict'[h] = "deny")
      /\ replies'[h] \in {replies[h], "none", "error"}
      /\ \A m \in requests' :
            m.hook = h => m \in requests \/ (pc[h] # "idle" /\ m.op \in {"heartbeat", "cancel"})
  <2>1. ASSUME NEW status, status # "approved", Answer(g, status)
        PROVE  <1>2!1 /\ <1>2!2 /\ <1>2!3 /\ <1>2!4
    BY <2>1 DEF Yields, Answer, GateTypeOK, Awaiting
  <2>2. ASSUME NEW op \in {"heartbeat", "cancel"}, NEW rev, Send(g, op, rev)
        PROVE  <1>2!1 /\ <1>2!2 /\ <1>2!3 /\ <1>2!4
    BY <2>2 DEF Yields, Send, GateTypeOK, Awaiting
  <2>3. CASE /\ pc' = [pc EXCEPT ![g] = "review"] /\ replies' = [replies EXCEPT ![g] = "none"]
             /\ UNCHANGED <<requests, verdict>>
    BY <2>3 DEF Yields, GateTypeOK, Awaiting
  <2> QED
    BY <2>1, <2>2, <2>3 DEF Yields, Fail
<1> QED
  BY <1>1, <1>2 DEF Quiet, historyVars

(* So it keeps the invariant. *)
LEMMA YieldsKeep ==
    ASSUME IInv, NEW g \in Ids, Yields(g), UNCHANGED <<vars, historyVars, snapshot, file>>,
           \A i \in Ids : view'[i] \in {view[i], replies[i]}
    PROVE  \A h \in Ids : HookInv(h)' /\ Promise(h)
BY YieldsQuiet, QuietKeeps DEF IInv

(* The hook submits the plan it has just read, or answers at once that     *)
(* there is none.                                                          *)
LEMMA StartKeeps ==
    ASSUME IInv, NEW g \in Ids, Start(g), NEW h \in Ids
    PROVE  HookInv(h)' /\ Promise(h)
<1> USE DEF IInv
<1>1. /\ pc[g] = "idle" /\ rows' = rows /\ view' = view /\ file' = file
      /\ UNCHANGED historyVars
  BY DEF Start, vars
<1>2. CASE h # g
  <2>1. Quiet(h)
    <3>1. /\ pc'[h] = pc[h] /\ verdict'[h] = verdict[h] /\ replies'[h] = replies[h]
          /\ snapshot'[h] = snapshot[h]
          /\ \A m \in requests' : m.hook = h => m \in requests
      BY <1>2 DEF Start, Answer, Send, GateTypeOK
    <3> QED
      BY <1>1, <3>1, StoreIsCalm DEF Quiet, historyVars
  <2> QED
    BY <2>1, QuietKeeps
<1>3. CASE h = g
  <2>1. Untold(h) /\ \A m \in requests : m.hook # h
    BY <1>1, <1>3 DEF HookInv
  <2>2. CASE file[h] = NoFile
    <3>1. /\ pc'[h] = "done" /\ verdict'[h] = "deny" /\ replies'[h] = "none"
          /\ requests' = requests /\ snapshot' = snapshot
      BY <1>3, <2>2 DEF Start, Answer, GateTypeOK
    <3>2. ~Settled(h)'
      BY <1>1, <2>1, <3>1 DEF Untold, Settled, historyVars, Decisions, Present
    <3>3. Promise(h)
      BY <1>1, <1>3, <3>1, IdleStage DEF Promise, VerdictStep, HookInv, historyVars
    <3> QED
      BY <1>1, <2>1, <3>1, <3>2, <3>3 DEF HookInv, Untold, Present
  <2>3. CASE file[h] # NoFile
    <3> DEFINE m0 == [op |-> "create", hook |-> h, revision |-> file[h]]
    <3>1. /\ pc'[h] = "create" /\ verdict'[h] = verdict[h] /\ replies'[h] = "none"
          /\ requests' = requests \cup {m0} /\ snapshot'[h] = file[h]
      BY <1>3, <2>3 DEF Start, Send, GateTypeOK
    <3>2. m0.op = "create" /\ m0.hook = h /\ m0.revision = file[h]
      OBVIOUS
    <3> HIDE DEF m0
    <3>3. ~Settled(h)'
      BY <1>1, <2>1, <3>1, <3>2 DEF Untold, Settled, historyVars, Decisions, Present
    <3>4. Untold(h)'
      BY <1>1, <2>1, <3>3 DEF Untold, Present, historyVars
    <3>5. verdict'[h] = "none"
      BY <1>1, <1>3, <3>1 DEF HookInv
    <3>6. Promise(h)
      BY <1>1, <3>1, IdleStage DEF Promise, VerdictStep, historyVars
    <3> QED
      BY <1>1, <2>1, <3>1, <3>2, <3>3, <3>4, <3>5, <3>6 DEF HookInv, Untold, Present
  <2> QED
    BY <2>2, <2>3
<1> QED
  BY <1>2, <1>3

(* The hook acknowledges the decision it was shown, with the file as it is *)
(* now: that it still is the snapshot shows that the file held it since.   *)
LEMMA AcknowledgementKeeps ==
    ASSUME IInv, NEW g \in Ids, pc[g] = "review", view[g] \in Decisions,
           Send(g, "ack", RevisionToSend(g)), NEW h \in Ids,
           UNCHANGED <<vars, historyVars, view, snapshot, file>>
    PROVE  HookInv(h)' /\ Promise(h)
<1> USE DEF IInv
<1> DEFINE m0 == [op |-> "ack", hook |-> g, revision |-> file[g]]
<1>1. /\ requests' = requests \cup {m0} /\ m0.op = "ack" /\ m0.hook = g
      /\ m0.revision = file[g]
      /\ pc' = [pc EXCEPT ![g] = "ack"] /\ replies' = [replies EXCEPT ![g] = "none"]
      /\ rows' = rows /\ verdict' = verdict
  BY DEF Send, RevisionToSend, vars
<1> HIDE DEF m0
<1>2. CASE h # g
  <2>1. Quiet(h)
    BY <1>1, <1>2, StoreIsCalm DEF Quiet, GateTypeOK, historyVars
  <2> QED
    BY <2>1, QuietKeeps
<1>3. CASE h = g
  <2>1. Settled(h)
    BY <1>3 DEF Settled
  <2>2. pc'[h] = "ack" /\ replies'[h] = "none" /\ verdict[h] = "none"
    BY <1>1, <1>3 DEF GateTypeOK, HookInv
  <2>3. \A m \in requests : m.hook = h => m.op # "create"
    BY <2>1 DEF HookInv, Untold
  <2>4. \A m \in requests' : m.hook = h /\ m.op = "ack" /\ m.revision = snapshot[h]
                               => h \in current
    BY <1>1, <1>3, <2>1 DEF HookInv
  <2>5. Promise(h)
    BY <1>1, IdleStage DEF Promise, VerdictStep, historyVars
  <2> QED
    BY <1>1, <2>1, <2>2, <2>3, <2>4, <2>5 DEF HookInv, RowInv, Present, historyVars
<1> QED
  BY <1>2, <1>3

(* A hook that goes on keeps the invariant. *)
LEMMA ContinueKeeps ==
    ASSUME IInv, NEW g \in Ids, Continue(g), NEW h \in Ids
    PROVE  HookInv(h)' /\ Promise(h)
<1>1. /\ pc[g] = "review"
      /\ UNCHANGED <<vars, historyVars, view, snapshot, file>>
  BY DEF Continue
<1>2. \/ Yields(g)
      \/ view[g] \in Decisions /\ Send(g, "ack", RevisionToSend(g))
  BY DEF Continue, Yields, Decisions
<1> QED
  BY <1>1, <1>2, YieldsKeep, AcknowledgementKeeps

(* The answer to an acknowledgement lets the agent through only when it    *)
(* says approved, which only a standing approval makes it say.             *)
LEMMA AnswerKeeps ==
    ASSUME IInv, NEW g \in Ids, pc[g] = "ack", replies[g] = "approved",
           Answer(g, replies[g]), NEW h \in Ids, view'[h] \in {view[h], replies[h]},
           UNCHANGED <<vars, historyVars, snapshot, file>>
    PROVE  HookInv(h)' /\ Promise(h)
<1> USE DEF IInv
<1>1. /\ requests' = requests /\ rows' = rows
      /\ pc' = [pc EXCEPT ![g] = "done"] /\ replies' = [replies EXCEPT ![g] = "none"]
      /\ verdict' = [verdict EXCEPT ![g] = "allow"]
  BY DEF Answer, vars
<1>2. CASE h # g
  <2>1. Quiet(h)
    BY <1>1, <1>2, StoreIsCalm DEF Quiet, GateTypeOK, historyVars
  <2> QED
    BY <2>1, QuietKeeps
<1>3. CASE h = g
  <2>1. Granted(h) /\ Settled(h)
    BY <1>3 DEF HookInv, Settled
  <2>2. pc'[h] = "done" /\ Granted(h)'
    BY <1>1, <1>3, <2>1 DEF GateTypeOK, Granted, historyVars
  <2>3. verdict[h] = "none" /\ verdict'[h] = "allow"
    BY <1>1, <1>3 DEF HookInv, GateTypeOK
  <2>4. Promise(h)
    BY <1>1, <2>1, <2>3, IdleStage DEF Promise, VerdictStep, Granted, historyVars
  <2> QED
    BY <1>1, <2>1, <2>2, <2>4 DEF HookInv, Untold, RowInv, Present, historyVars
<1> QED
  BY <1>2, <1>3

(* A hook that takes its reply keeps the invariant. *)
LEMMA TakeReplyKeeps ==
    ASSUME IInv, NEW g \in Ids, TakeReply(g), NEW h \in Ids
    PROVE  HookInv(h)' /\ Promise(h)
<1>1. /\ pc[g] \in Awaiting
      /\ \A i \in Ids : view'[i] \in {view[i], replies[i]}
      /\ UNCHANGED <<vars, historyVars, snapshot, file>>
  BY DEF TakeReply, IInv, GateTypeOK
<1>2. Yields(g) \/ (pc[g] = "ack" /\ replies[g] = "approved" /\ Answer(g, replies[g]))
  BY <1>1 DEF TakeReply, Yields
<1> QED
  BY <1>1, <1>2, YieldsKeep, AnswerKeeps

(* Timeouts, signals and lost replies keep the invariant. *)
LEMMA InterruptsKeep ==
    ASSUME IInv, NEW g \in Ids, NEW h \in Ids,
           RequestTimeout(g) \/ Signal(g) \/ ParentExits(g) \/ Kill(g) \/ LoseReply(g)
    PROVE  HookInv(h)' /\ Promise(h)
<1> USE DEF IInv
<1>1. CASE Yields(g) /\ UNCHANGED <<vars, historyVars, view, snapshot, file>>
  BY <1>1, YieldsKeep
<1>2. CASE RequestTimeout(g)
  <2>1. Yields(g)
    BY <1>2 DEF RequestTimeout, Yields
  <2> QED
    BY <1>1, <1>2, <2>1 DEF RequestTimeout
<1>3. CASE Signal(g) /\ pc[g] \in Abortable
  <2>1. Yields(g)
    BY <1>3 DEF Signal, Yields, Abortable
  <2> QED
    BY <1>1, <1>3, <2>1 DEF Signal
<1>4. CASE ParentExits(g)
  <2>1. Yields(g)
    BY <1>4 DEF ParentExits, Yields
  <2> QED
    BY <1>1, <1>4, <2>1 DEF ParentExits
<1>5. CASE \/ Signal(g) /\ pc[g] \notin Abortable
           \/ Kill(g) \/ LoseReply(g)
  <2>1. Quiet(h)
    BY <1>5, StoreIsCalm DEF Signal, Kill, LoseReply, Quiet, GateTypeOK, vars, hookVars,
                             networkVars, historyVars
  <2> QED
    BY <2>1, QuietKeeps
<1> QED
  BY <1>2, <1>3, <1>4, <1>5

-----------------------------------------------------------------------------
(* The others *)

(* Restarts, the clock, the page and lost requests keep the invariant. *)
LEMMA EnvironmentKeeps ==
    ASSUME IInv, NEW h \in Ids,
           \/ ServerRestarts \/ PageRefreshes \/ ClockTicks
           \/ \E m \in requests : Lose(m)
           \/ UNCHANGED gateVars
    PROVE  HookInv(h)' /\ Promise(h)
<1> USE DEF IInv
<1>1. \A i \in DOMAIN rows' : Calm(i)
  <2>1. CASE rows' = rows
    BY <2>1, StoreIsCalm
  <2>2. CASE rows' = Swept
    BY <2>2, SweepCalm
  <2>3. CASE DOMAIN rows' = {}
    BY <2>3
  <2> QED
    BY <2>1, <2>2, <2>3 DEF ServerRestarts, PageRefreshes, ClockTicks, Restart, List, Tick,
                            Lose, gateVars, vars
<1>2. Quiet(h)
  BY <1>1 DEF ServerRestarts, PageRefreshes, ClockTicks, Environment, Lose, Quiet, gateVars,
              hookVars, networkVars, historyVars
<1> QED
  BY <1>2, QuietKeeps

(* An edit of the plan file keeps the invariant. *)
LEMMA EditKeeps ==
    ASSUME IInv, NEW g \in Ids, NEW rev, Edit(g, rev), NEW h \in Ids
    PROVE  HookInv(h)' /\ Promise(h)
<1> USE DEF IInv
<1>1. /\ UNCHANGED <<rows, pc, view, verdict, snapshot, requests, replies, approved, withdrawn,
                      delivered>>
      /\ current \subseteq current'
  BY DEF Edit, vars, hookVars, networkVars
<1>2. file'[h] = snapshot[h] => file[h] = snapshot[h] \/ h \in current'
  BY DEF Edit, GateTypeOK
<1>3. Settled(h)' <=> Settled(h)
  BY <1>1 DEF Settled, Present
<1>4. Untold(h) => Untold(h)'
  BY <1>1, <1>3 DEF Untold, Present
<1>5. Granted(h) => Granted(h)'
  BY <1>1 DEF Granted
<1>6. (Settled(h) => /\ h \in Present => rows[h].status # "pending"
                     /\ file[h] = snapshot[h] => h \in current)'
  BY <1>1, <1>2, <1>3 DEF HookInv, Present
<1>7. (h \in Present => RowInv(h))'
  BY <1>1 DEF HookInv, RowInv, Present
<1>8. Promise(h)
  BY <1>1, IdleStage DEF Promise, VerdictStep
<1> QED
  BY <1>1, <1>4, <1>5, <1>6, <1>7, <1>8 DEF HookInv

(* The verdict on a review: nothing shows an earlier one, and the file     *)
(* holds the approved revision now or not since.                           *)
LEMMA DecisionKeeps ==
    ASSUME IInv, NEW g \in Ids, NEW rev \in Revisions, NEW d \in Decisions, NEW f,
           ReviewerDecides(g, rev, d, f), NEW h \in Ids
    PROVE  HookInv(h)' /\ Promise(h)
<1> USE DEF IInv
<1>1. /\ Decide(g, rev, d, f) /\ approved \subseteq approved'
      /\ UNCHANGED <<hookVars, networkVars, withdrawn, delivered, file>>
  BY DEF ReviewerDecides
<1>2. CASE h # g \/ ~CanDecide(g, rev, d, f)
  <2>1. h \in DOMAIN rows' => Calm(h)
    BY <1>1, <1>2, DecideCalm
  <2>2. h \in current' <=> h \in current
    BY <1>2 DEF ReviewerDecides
  <2>3. Quiet(h)
    BY <1>1, <2>1, <2>2 DEF Quiet, hookVars, networkVars
  <2> QED
    BY <2>3, QuietKeeps
<1>3. CASE h = g /\ CanDecide(g, rev, d, f)
  <2>1. /\ h \in Present /\ rows[h].status = "pending" /\ rows[h].revision = rev
        /\ h \in DOMAIN rows' /\ rows'[h].revision = rev /\ rows'[h].status = d
    BY <1>1, <1>3, DecideCalm
  <2>2. ~Settled(h) /\ RowInv(h) /\ rev = snapshot[h]
    BY <2>1 DEF HookInv, RowInv
  <2>3. /\ view'[h] = view[h] /\ replies'[h] = replies[h] /\ pc'[h] = pc[h]
        /\ verdict'[h] = verdict[h] /\ snapshot'[h] = snapshot[h] /\ requests' = requests
        /\ file'[h] = file[h] /\ delivered'[h] = "none" /\ delivered[h] = "none"
        /\ withdrawn' = withdrawn /\ h \notin withdrawn
    BY <1>1, <2>1, <2>2 DEF hookVars, networkVars, Settled, RowInv, Over
  <2>4. /\ d = "approved" => <<h, rev>> \in approved'
        /\ file[h] = rev => h \in current'
    BY <1>3 DEF ReviewerDecides
  <2>5. ~Granted(h) /\ ~Untold(h)
    BY <2>1, <2>3 DEF Granted, Untold
  <2>6. d # "pending"
    BY DEF Decisions
  <2>7. Promise(h)
    BY <2>1, <2>3 DEF Promise, StageStep, VerdictStep
  <2> QED
    BY <2>1, <2>2, <2>3, <2>4, <2>5, <2>6, <2>7 DEF HookInv, RowInv, Present, Settled
<1> QED
  BY <1>2, <1>3

(* A cancellation, the hook's own or the reviewer's, of a review that was  *)
(* not delivered.                                                          *)
LEMMA WithdrawalKeeps ==
    ASSUME IInv, NEW h \in Ids, h \in DOMAIN rows', Calm(h), rows'[h].status \in Over,
           ~Acked(rows[h]), withdrawn' = withdrawn \cup {h},
           UNCHANGED <<hookVars, approved, delivered, current, file>>,
           requests' \subseteq requests,
           replies'[h] \in {replies[h], rows'[h].status},
           pc[h] = "ack" => replies'[h] = replies[h]
    PROVE  HookInv(h)' /\ Promise(h)
<1> USE DEF IInv
<1>1. h \in Present /\ RowInv(h) /\ delivered[h] = "none" /\ ~Granted(h) /\ ~Untold(h)
  BY DEF HookInv, Calm, RowInv, Granted, Untold
<1>2. rows'[h].status \notin Decisions \cup {"pending"}
  BY DEF Over, Decisions
<1>3. Settled(h)' => Settled(h)
  BY <1>2 DEF Settled, hookVars
<1>4. RowInv(h)'
  BY <1>1, <1>2 DEF RowInv, Calm, hookVars, Over
<1>5. (Settled(h) => /\ h \in Present => rows[h].status # "pending"
                     /\ file[h] = snapshot[h] => h \in current)'
  BY <1>2, <1>3 DEF HookInv, hookVars
<1>6. verdict[h] # "allow" /\ ~(pc[h] = "ack" /\ replies[h] = "approved")
  BY <1>1 DEF HookInv
<1>7. pc' = pc /\ verdict' = verdict /\ snapshot' = snapshot
  BY DEF hookVars
<1>8. Promise(h)
  BY <1>7 DEF Promise, StageStep, VerdictStep
<1> QED
  BY <1>1, <1>4, <1>5, <1>6, <1>7, <1>8 DEF HookInv

(* A cancellation by the reviewer keeps the invariant. *)
LEMMA ReviewerCancelKeeps ==
    ASSUME IInv, NEW g \in Ids, ReviewerCancels(g), NEW h \in Ids
    PROVE  HookInv(h)' /\ Promise(h)
<1> USE DEF IInv
<1>1. /\ Update(g, CanCancel(g), AfterCancel(Swept[g]))
      /\ UNCHANGED <<hookVars, networkVars, approved, delivered, current, file>>
  BY DEF ReviewerCancels, Cancel
<1>2. CASE h # g \/ ~CanCancel(g)
  <2>1. h \in DOMAIN rows' => Calm(h)
    BY <1>1, CancelCalm
  <2>2. h \in withdrawn' <=> h \in withdrawn
    BY <1>2 DEF ReviewerCancels
  <2>3. Quiet(h)
    BY <1>1, <2>1, <2>2 DEF Quiet, hookVars, networkVars
  <2> QED
    BY <2>3, QuietKeeps
<1>3. CASE h = g /\ CanCancel(g)
  <2>1. h \in DOMAIN rows' /\ Calm(h) /\ rows'[h].status \in Over /\ ~Acked(rows[h])
    BY <1>1, <1>3, CancelCalm
  <2>2. withdrawn' = withdrawn \cup {h} /\ requests' = requests /\ replies' = replies
    BY <1>3 DEF ReviewerCancels, networkVars
  <2> QED
    BY <1>1, <2>1, <2>2, WithdrawalKeeps
<1> QED
  BY <1>2, <1>3

-----------------------------------------------------------------------------
(* The server *)

(* What is handled for another hook, a heartbeat, and what is refused.     *)
LEMMA HandleQuiet ==
    ASSUME IInv, NEW m \in requests, Handle(m), NEW h \in Ids,
           h # m.hook \/ m.op = "heartbeat" \/ ~Accepted(m)
    PROVE  HookInv(h)' /\ Promise(h)
<1> USE DEF IInv
<1>1. m \in Request /\ m.hook \in Ids /\ m.op \in Awaiting
  BY DEF GateTypeOK, Request
<1>2. h \in DOMAIN rows' => Calm(h)
  <2>1. CASE m.op = "create"
    BY <1>1, <2>1, CreateCalm DEF Handle, Perform, Accepted
  <2>2. CASE m.op = "heartbeat"
    BY <1>1, <2>2, HeartbeatCalm DEF Handle, Perform
  <2>3. CASE m.op = "ack"
    BY <1>1, <2>3, AcknowledgeCalm DEF Handle, Perform
  <2>4. CASE m.op = "cancel"
    BY <1>1, <2>4, CancelCalm DEF Handle, Perform, OwnerCancel
  <2> QED
    BY <1>1, <2>1, <2>2, <2>3, <2>4 DEF Awaiting
<1>3. \/ replies'[h] \in {replies[h], "none", "error"}
      \/ pc'[h] # "ack" /\ h \in DOMAIN rows' /\ replies'[h] = rows'[h].status
  <2>1. CASE h # m.hook \/ pc[m.hook] # m.op
    BY <1>1, <2>1 DEF Handle, GateTypeOK
  <2>2. CASE h = m.hook /\ pc[m.hook] = m.op /\ ~Accepted(m)
    BY <1>1, <2>2 DEF Handle, GateTypeOK
  <2>3. CASE h = m.hook /\ pc[m.hook] = m.op /\ Accepted(m) /\ m.op = "heartbeat"
    <3>1. h \in DOMAIN rows'
      BY <1>1, <2>3 DEF Handle, Perform, Accepted, Heartbeat, Update, With
    <3> QED
      BY <1>1, <2>3, <3>1 DEF Handle, GateTypeOK, hookVars
  <2> QED
    BY <2>1, <2>2, <2>3
<1>4. /\ h \in withdrawn' <=> h \in withdrawn
      /\ delivered'[h] = delivered[h]
  BY <1>1 DEF Handle, GateTypeOK
<1>5. Quiet(h)
  BY <1>2, <1>3, <1>4 DEF Handle, Quiet, hookVars
<1> QED
  BY <1>5, QuietKeeps

(* A submission that is accepted keeps the invariant of its hook. *)
LEMMA CreationKeeps ==
    ASSUME IInv, NEW m \in requests, Handle(m), m.op = "create", Accepted(m),
           NEW h \in Ids, h = m.hook
    PROVE  HookInv(h)' /\ Promise(h)
<1> USE DEF IInv
<1>1. m \in Request /\ m.revision = snapshot[h] /\ Untold(h) /\ pc[h] # "idle"
  BY DEF GateTypeOK, HookInv
<1>2. /\ h \in DOMAIN rows' /\ rows'[h].revision = snapshot[h]
      /\ rows'[h].status = "pending" /\ ~Acked(rows'[h])
  BY <1>1, CreateCalm DEF Handle, Perform, Accepted
<1>3. /\ requests' = requests \ {m} /\ UNCHANGED <<hookVars, approved, current, file>>
      /\ withdrawn' = withdrawn /\ delivered' = delivered
      /\ replies'[h] \in {replies[h], "pending"}
  BY <1>2 DEF Handle, GateTypeOK
<1>4. \A n \in requests' : n.hook = h => n.op # "create"
  <2> SUFFICES ASSUME NEW n \in requests, n.hook = h, n.op = "create"
               PROVE  n = m
    BY <1>3
  <2>1. n \in Request /\ n.revision = m.revision
    BY <1>1 DEF HookInv, GateTypeOK
  <2> QED
    BY <1>1, <2>1 DEF Request
<1>5. ~Settled(h)'
  BY <1>1, <1>2, <1>3 DEF Untold, Settled, hookVars, Decisions
<1>6. verdict[h] # "allow"
  BY <1>1 DEF HookInv, Granted, Untold, Settled
<1>7. RowInv(h)'
  BY <1>1, <1>2, <1>3, <1>5 DEF RowInv, Untold, Settled, hookVars
<1>8. pc' = pc /\ verdict' = verdict /\ snapshot' = snapshot
  BY <1>3 DEF hookVars
<1>9. (\A n \in requests : n.hook = h /\ n.op = "ack" /\ n.revision = snapshot[h]
                            => h \in current)'
  BY <1>3, <1>8 DEF HookInv
<1>10. (pc[h] # "done" => verdict[h] = "none")'
  BY <1>8 DEF HookInv
<1>11. ~(pc[h] = "ack" /\ replies[h] = "approved")'
  BY <1>5 DEF Settled, Decisions
<1>12. Promise(h)
  BY <1>1, <1>2, <1>3, <1>8 DEF Promise, StageStep, VerdictStep, Untold, Settled
<1> QED
  BY <1>1, <1>4, <1>5, <1>6, <1>7, <1>8, <1>9, <1>10, <1>11, <1>12 DEF HookInv

(* An acknowledgement that is accepted keeps the invariant of its hook. *)
LEMMA DeliveryKeeps ==
    ASSUME IInv, NEW m \in requests, Handle(m), m.op = "ack", Accepted(m),
           NEW h \in Ids, h = m.hook
    PROVE  HookInv(h)' /\ Promise(h)
<1> USE DEF IInv
<1>1. /\ Calm(h) /\ h \in DOMAIN rows' /\ Acked(rows'[h])
      /\ h \in Present /\ rows[h].revision = m.revision
      /\ rows[h].status \in Decisions /\ rows'[h].status = rows[h].status
  BY AcknowledgeCalm DEF Handle, Perform, Accepted, Calm
<1> DEFINE d == rows[h].status
<1>2. /\ requests' = requests \ {m} /\ UNCHANGED <<hookVars, approved, current, file>>
      /\ withdrawn' = withdrawn /\ delivered'[h] = d
      /\ replies'[h] = IF pc[h] = "ack" THEN d ELSE replies[h]
  BY <1>1 DEF Handle, GateTypeOK
<1>3. /\ Settled(h) /\ RowInv(h) /\ ~Untold(h) /\ m.revision = snapshot[h]
      /\ h \in current /\ h \notin withdrawn
  BY <1>1 DEF Settled, HookInv, RowInv, Untold, Over, Decisions
<1>4. pc' = pc /\ verdict' = verdict /\ snapshot' = snapshot /\ current' = current
      /\ file' = file /\ approved' = approved
  BY <1>2 DEF hookVars
<1>5. d # "pending" /\ d # "none"
  BY <1>1 DEF Decisions
<1>6. RowInv(h)'
  BY <1>1, <1>2, <1>3, <1>4 DEF RowInv, Calm
<1>7. d = "approved" => Granted(h)'
  BY <1>1, <1>2, <1>3, <1>4 DEF Granted, RowInv
<1>8. verdict[h] = "allow" => d = "approved"
  BY <1>1, <1>3 DEF HookInv, Granted, RowInv, Over, Decisions
<1>9. (verdict[h] = "allow" \/ (pc[h] = "ack" /\ replies[h] = "approved") => Granted(h))'
  BY <1>2, <1>4, <1>7, <1>8
<1>10. \A n \in requests' : n \in requests /\ (n.hook = h => n.op # "create")
  BY <1>2, <1>3 DEF HookInv
<1>11. pc[h] # "idle"
  BY <1>3 DEF HookInv
<1>12. (Settled(h) => /\ h \in Present => rows[h].status # "pending"
                      /\ file[h] = snapshot[h] => h \in current)'
  BY <1>1, <1>3, <1>4, <1>5
<1>13. (pc[h] # "done" => verdict[h] = "none")'
  BY <1>4 DEF HookInv
<1>14. Promise(h)
  BY <1>1, <1>2, <1>3, <1>4 DEF Promise, StageStep, VerdictStep, RowInv, Over, Decisions
<1> HIDE DEF d
<1> QED
  BY <1>3, <1>4, <1>6, <1>9, <1>10, <1>11, <1>12, <1>13, <1>14 DEF HookInv

(* Whatever the server handles keeps the invariant. *)
LEMMA HandleKeeps ==
    ASSUME IInv, NEW m \in requests, Handle(m), NEW h \in Ids
    PROVE  HookInv(h)' /\ Promise(h)
<1>1. m.op \in Awaiting
  BY DEF IInv, GateTypeOK, Request
<1>2. CASE h = m.hook /\ Accepted(m) /\ m.op = "cancel"
  <2>1. /\ CanCancel(h) /\ Permitted(h, h)
        /\ Update(h, Permitted(h, h) /\ CanCancel(h), AfterCancel(Swept[h]))
    BY <1>2 DEF Accepted, Handle, Perform, OwnerCancel
  <2>2. h \in DOMAIN rows' /\ Calm(h) /\ rows'[h].status \in Over /\ ~Acked(rows[h])
    BY <2>1, CancelCalm DEF IInv
  <2>3. /\ withdrawn' = withdrawn \cup {h} /\ requests' \subseteq requests
        /\ UNCHANGED <<hookVars, approved, current, file>> /\ delivered' = delivered
        /\ replies'[h] \in {replies[h], rows'[h].status}
        /\ pc[h] = "ack" => replies'[h] = replies[h]
    BY <1>2 DEF Handle, IInv, GateTypeOK
  <2> QED
    BY <2>2, <2>3, WithdrawalKeeps
<1> QED
  BY <1>1, <1>2, HandleQuiet, CreationKeeps, DeliveryKeeps DEF Awaiting

-----------------------------------------------------------------------------
(* The theorems *)

(* The invariant holds at first. *)
LEMMA GateInitial == ASSUME GateInit PROVE IInv
<1>1. TypeOK
  BY DEF GateInit, Init, TypeOK, Present
<1>2. GateTypeOK
  BY DEF GateInit, GateTypeOK, Statuses, Reply, Awaiting, Decisions
<1>3. ASSUME NEW h \in Ids
      PROVE  HookInv(h)
  <2>1. ~Settled(h) /\ h \notin Present
    BY DEF GateInit, Init, Settled, Decisions, Present
  <2> QED
    BY <2>1 DEF GateInit, HookInv, Untold
<1> QED
  BY <1>1, <1>2, <1>3 DEF IInv

(* Every step keeps the invariant, and no step breaks a promise. *)
LEMMA GateInductive ==
    ASSUME IInv, [GateNext]_gateVars
    PROVE  IInv' /\ \A h \in Ids : Promise(h)
<1>1. TypeOK' /\ GateTypeOK'
  BY TypesKeep DEF IInv
<1>2. ASSUME NEW h \in Ids
      PROVE  HookInv(h)' /\ Promise(h)
  <2>1. ASSUME NEW g \in Ids,
               \/ Start(g) \/ Continue(g) \/ TakeReply(g) \/ RequestTimeout(g)
               \/ Signal(g) \/ ParentExits(g) \/ Kill(g) \/ LoseReply(g)
        PROVE  HookInv(h)' /\ Promise(h)
    BY <2>1, StartKeeps, ContinueKeeps, TakeReplyKeeps, InterruptsKeep
  <2>2. ASSUME NEW g \in Ids, ReviewerCancels(g)
        PROVE  HookInv(h)' /\ Promise(h)
    BY <2>2, ReviewerCancelKeeps
  <2>3. ASSUME NEW g \in Ids, NEW rev \in Revisions \cup {NoFile}, Edit(g, rev)
        PROVE  HookInv(h)' /\ Promise(h)
    BY <2>3, EditKeeps
  <2>4. ASSUME NEW g \in Ids, NEW rev \in Revisions, NEW d \in Decisions,
               NEW f \in Feedbacks \cup {NoFeedback}, ReviewerDecides(g, rev, d, f)
        PROVE  HookInv(h)' /\ Promise(h)
    BY <2>4, DecisionKeeps
  <2>5. ASSUME NEW m \in requests, Handle(m)
        PROVE  HookInv(h)' /\ Promise(h)
    BY <2>5, HandleKeeps
  <2>6. ASSUME \/ ServerRestarts \/ PageRefreshes \/ ClockTicks
               \/ \E m \in requests : Lose(m)
               \/ UNCHANGED gateVars
        PROVE  HookInv(h)' /\ Promise(h)
    BY <2>6, EnvironmentKeeps
  <2> QED
    BY <2>1, <2>2, <2>3, <2>4, <2>5, <2>6 DEF GateNext
<1> QED
  BY <1>1, <1>2 DEF IInv

(* So the invariant always holds. *)
LEMMA GateAlways == GateSpec => []IInv
<1>1. GateInit => IInv
  BY GateInitial
<1>2. IInv /\ [GateNext]_gateVars => IInv'
  BY GateInductive
<1> QED
  BY <1>1, <1>2, PTL DEF GateSpec

(* Hooks, network, file and history are well formed.                       *)
THEOREM GateTyping == GateSpec => []GateTypeOK
<1>1. IInv => GateTypeOK
  BY DEF IInv
<1> QED
  BY <1>1, GateAlways, PTL

(* No agent is let through but for the revision it submitted and that was  *)
(* approved.                                                               *)
THEOREM Approval == GateSpec => []GrantWasApproved
<1>1. IInv => GrantWasApproved
  BY DEF IInv, HookInv, Granted, GrantWasApproved
<1> QED
  BY <1>1, GateAlways, PTL

(* No agent is let through after its review was cancelled.                 *)
THEOREM Cancellation == GateSpec => []CancelledIsNeverGranted
<1>1. IInv => CancelledIsNeverGranted
  BY DEF IInv, HookInv, Granted, CancelledIsNeverGranted
<1> QED
  BY <1>1, GateAlways, PTL

(* No agent is let through whose plan file no longer held the approved     *)
(* revision at any instant after the decision.                             *)
THEOREM Freshness == GateSpec => []GrantSawTheFile
<1>1. IInv => GrantSawTheFile
  BY DEF IInv, HookInv, Granted, GrantSawTheFile
<1> QED
  BY <1>1, GateAlways, PTL

(* What any step does to a review is a move of the abstract gate.          *)
LEMMA PromiseKept ==
    ASSUME GateTypeOK, NEW h \in Ids, Promise(h)
    PROVE  /\ \/ Gate!Submit(h) \/ Gate!Decide(h) \/ Gate!Withdraw(h)
              \/ Gate!Deliver(h) \/ Gate!Keep(h)
           /\ Gate!Allow(h) \/ Gate!Deny(h) \/ verdict'[h] = verdict[h]
<1> DEFINE stage == AbstractStage[h]
           decision == AbstractDecision[h]
           stage_ == AbstractStage'[h]
           decision_ == AbstractDecision'[h]
<1>1. /\ stage = IF delivered[h] # "none" THEN "delivered"
                 ELSE IF h \in Present /\ rows[h].status = "pending" THEN "open"
                 ELSE IF h \in Present /\ rows[h].status \in Decisions THEN "decided" ELSE "out"
      /\ decision = IF delivered[h] # "none" THEN delivered[h]
                    ELSE IF h \in Present /\ rows[h].status \in Decisions
                         THEN rows[h].status ELSE "none"
  BY DEF AbstractStage, AbstractDecision, Undelivered, StatusOf, Decisions
<1>2. /\ stage_ = IF delivered'[h] # "none" THEN "delivered"
                  ELSE IF h \in DOMAIN rows' /\ rows'[h].status = "pending" THEN "open"
                  ELSE IF h \in DOMAIN rows' /\ rows'[h].status \in Decisions
                       THEN "decided" ELSE "out"
      /\ decision_ = IF delivered'[h] # "none" THEN delivered'[h]
                     ELSE IF h \in DOMAIN rows' /\ rows'[h].status \in Decisions
                          THEN rows'[h].status ELSE "none"
  BY DEF AbstractStage, AbstractDecision, Undelivered, StatusOf, Decisions, Present
<1> HIDE DEF stage, decision, stage_, decision_
<1>3. \/ stage = "out" /\ stage_ = "open" /\ decision_ = "none"
      \/ stage = "open" /\ stage_ = "decided" /\ decision_ \in Decisions
      \/ stage \in {"open", "decided"} /\ stage_ = "out" /\ decision_ = "none"
      \/ stage = "decided" /\ stage_ = "delivered" /\ decision_ = decision
      \/ stage_ = stage /\ decision_ = decision
  BY <1>1, <1>2 DEF Promise, StageStep, Calm, Over, Decisions
<1>4. \/ verdict'[h] = verdict[h]
      \/ verdict[h] = "none" /\ verdict'[h] = "deny"
      \/ /\ verdict[h] = "none" /\ verdict'[h] = "allow"
         /\ stage = "delivered" /\ decision = "approved"
  BY <1>1 DEF Promise, VerdictStep
<1> QED
  BY <1>3, <1>4 DEF stage, decision, stage_, decision_, Decisions, Gate!Submit, Gate!Decide,
     Gate!Withdraw, Gate!Deliver, Gate!Keep, Gate!Moves, Gate!Allow, Gate!Deny

(* The gate with its network, crashes and edits implements the promise of  *)
(* PlanGate: an agent is let through at most once, by a delivered approval. *)
THEOREM Refinement == GateSpec => RefinesPlanGate
<1>1. GateInit => Gate!Init
  BY DEF GateInit, Init, Gate!Init, AbstractStage, AbstractDecision, Undelivered, StatusOf,
         Present, Decisions
<1>2. IInv /\ [GateNext]_gateVars => [Gate!Next]_(Gate!vars)
  <2> SUFFICES ASSUME IInv, [GateNext]_gateVars
               PROVE  Gate!Next
    OBVIOUS
  <2>1. \A h \in Ids : Promise(h)
    BY GateInductive
  <2> QED
    BY <2>1, PromiseKept DEF Gate!Next, IInv
<1> QED
  BY <1>1, <1>2, GateAlways, PTL DEF GateSpec, RefinesPlanGate, Gate!Spec
=============================================================================
