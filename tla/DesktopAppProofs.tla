-------------------------- MODULE DesktopAppProofs --------------------------
(***************************************************************************)
(* Theorems about the desktop app's API worker, for any number of process  *)
(* slots, directories, crashes and timeouts; and, in the second half,      *)
(* about its interface updates, for any revisions, broken or not, any      *)
(* number of sentinels, dialogs, restarts and failures.                    *)
(*                                                                         *)
(* For the worker the strengthening says what the manager's fields mean to *)
(* each other: a child is connected, being waited for, or on its way out,  *)
(* so that a fork never pushes a healthy worker aside; and a stop holds on *)
(* to the worker it stops until that one is killed or gone, while nothing  *)
(* is forked.  For the interface it says that a bundle which is active or  *)
(* staged has its directory, so that no later installation or pruning      *)
(* changes what an unchanged state resolves to.                            *)
(***************************************************************************)
EXTENDS DesktopBackend, UiBundles, SequenceTheorems, TLAPS

Leaving(w) == proc[w].killed \/ proc[w].st = "ended"

ChildInv ==
    /\ child # None => proc[child].st # "none"
    /\ connection # None => connection = child
    /\ pendingStart # None => pendingStart = child /\ child \notin listening
    /\ startPromise # {} <=> pendingStart # None
    /\ child # None => connection = child \/ pendingStart = child \/ Leaving(child)

StopInv ==
    /\ stopping <=> stop.pc # "none"
    /\ stop.pc = "none" => stop.child = None
    /\ stop.pc \in {"graceful", "killing"} => stop.child # None
    /\ stop.pc = "killing" /\ Alive(stop.child) => proc[stop.child].killed
    /\ stop.pc = "starting" /\ stop.child # None => proc[stop.child].st = "none"

IInv == NoLostWorker /\ ServesNewest /\ ChildInv /\ StopInv

-----------------------------------------------------------------------------
(* Messages *)

(* A message put last in a queue is all that counts of a directory. *)
LEMMA Queued ==
    ASSUME NEW p \in Processes, NEW m \in Messages,
           NEW q \in Processes, q.inbox = Append(p.inbox, m)
    PROVE  /\ ToldToEnd(p) => ToldToEnd(q)
           /\ m.type # "shutdown" => WillServe(q, m.dir)
           /\ m.type = "shutdown" => ToldToEnd(q)
<1> DEFINE n == Len(p.inbox)
<1>1. p.inbox \in Seq(Messages) /\ n \in Nat /\ DOMAIN p.inbox = 1 .. n
  BY DEF Processes
<1>2. DOMAIN q.inbox = 1 .. n + 1
  BY <1>1
<1>3. q.inbox[n + 1] = m /\ \A i \in 1 .. n : q.inbox[i] = p.inbox[i]
  BY <1>1
<1> HIDE DEF n
<1>4. ToldToEnd(p) => ToldToEnd(q)
  BY <1>1, <1>2, <1>3 DEF ToldToEnd
<1>5. n + 1 \in DOMAIN q.inbox /\ \A k \in DOMAIN q.inbox : ~(k > n + 1)
  BY <1>1, <1>2
<1>6. m.type # "shutdown" => WillServe(q, m.dir)
  BY <1>3, <1>5 DEF WillServe
<1>7. m.type = "shutdown" => ToldToEnd(q)
  BY <1>3, <1>5 DEF ToldToEnd
<1> QED BY <1>4, <1>6, <1>7

(* What is left of a queue says the same, once the head has been obeyed. *)
LEMMA Obeyed ==
    ASSUME NEW p \in Processes, p.inbox # <<>>, Head(p.inbox).type # "shutdown",
           NEW q \in Processes, q.inbox = Tail(p.inbox), q.dir = Head(p.inbox).dir
    PROVE  /\ ToldToEnd(p) => ToldToEnd(q)
           /\ \A d : WillServe(p, d) => WillServe(q, d)
<1> DEFINE n == Len(p.inbox)
<1>1. /\ p.inbox \in Seq(Messages) /\ n \in Nat \ {0} /\ DOMAIN p.inbox = 1 .. n
      /\ Head(p.inbox) = p.inbox[1]
  BY DEF Processes
<1>2. DOMAIN q.inbox = 1 .. n - 1 /\ \A i \in 1 .. n - 1 : q.inbox[i] = p.inbox[i + 1]
  BY <1>1
<1> HIDE DEF n
<1>3. \A i \in DOMAIN p.inbox : i # 1 => i - 1 \in DOMAIN q.inbox /\ q.inbox[i - 1] = p.inbox[i]
  <2> SUFFICES ASSUME NEW i \in 1 .. n, i # 1
               PROVE  i - 1 \in 1 .. n - 1 /\ q.inbox[i - 1] = p.inbox[i]
    BY <1>1, <1>2
  <2>1. i - 1 \in 1 .. n - 1 /\ (i - 1) + 1 = i
    BY <1>1
  <2> QED BY <1>2, <2>1
<1>4. \A i \in DOMAIN q.inbox : i + 1 \in DOMAIN p.inbox /\ i + 1 > 1 /\ q.inbox[i] = p.inbox[i + 1]
  BY <1>1, <1>2
<1>5. ToldToEnd(p) => ToldToEnd(q)
  <2> SUFFICES ASSUME NEW i \in DOMAIN p.inbox, p.inbox[i].type = "shutdown" PROVE ToldToEnd(q)
    BY DEF ToldToEnd
  <2>1. i # 1
    BY <1>1
  <2> QED BY <1>3, <2>1 DEF ToldToEnd
<1>6. ASSUME NEW d, WillServe(p, d) PROVE WillServe(q, d)
  <2>1. PICK i \in DOMAIN p.inbox :
          /\ p.inbox[i].type # "shutdown" /\ p.inbox[i].dir = d
          /\ \A k \in DOMAIN p.inbox : k > i => p.inbox[k].type = "shutdown"
    <3>1. 1 \in DOMAIN p.inbox /\ p.inbox[1].type # "shutdown"
      BY <1>1
    <3> QED BY <1>6, <3>1 DEF WillServe
  <2>2. CASE i = 1
    <3>1. \A k \in DOMAIN q.inbox : q.inbox[k].type = "shutdown"
      BY <1>4, <2>1, <2>2
    <3> QED BY <1>1, <2>1, <2>2, <3>1 DEF WillServe
  <2>3. CASE i # 1
    <3>1. i - 1 \in DOMAIN q.inbox /\ q.inbox[i - 1] = p.inbox[i]
      BY <1>3, <2>3
    <3>2. ASSUME NEW k \in DOMAIN q.inbox, k > i - 1 PROVE q.inbox[k].type = "shutdown"
      <4>1. k + 1 \in DOMAIN p.inbox /\ k + 1 > i
        BY <1>1, <1>2, <3>2
      <4> QED BY <1>4, <2>1, <4>1
    <3> QED BY <2>1, <3>1, <3>2 DEF WillServe
  <2> QED BY <2>2, <2>3
<1> QED BY <1>5, <1>6

-----------------------------------------------------------------------------
(* Processes *)

(* What a step to processes ps may do to a worker without the manager:    *)
(* it does not come or go, and what it was told stands.                    *)
Keeps(ps, w) ==
    /\ ps[w].st = "none" <=> proc[w].st = "none"
    /\ proc[w].st = "ended" => ps[w].st = "ended"
    /\ proc[w].killed => ps[w].killed
    /\ ToldToEnd(proc[w]) => ToldToEnd(ps[w]) \/ ps[w].st = "ended"

(* The worker is on its way out, or will serve d. *)
Serves(p, d) == p.st \notin {"forked", "ended"} /\ ~p.killed => WillServe(p, d)

(* A worker that is not touched keeps what is known of it. *)
LEMMA UnmovedKeeps == ASSUME NEW ps, NEW w, ps[w] = proc[w] PROVE Keeps(ps, w)
BY DEF Keeps, ToldToEnd

(* The parts of the invariant, in the form the steps need them. *)
LEMMA FieldsOk ==
    ASSUME IInv
    PROVE  /\ TypeOK /\ ChildInv /\ StopInv
           /\ proc \in [Workers -> Processes] /\ child \in Workers \cup {None}
           /\ lastStartOptions \in {None, wanted}
           /\ child # None => Serves(proc[child], wanted)
BY DEF IInv, NoLostWorker, ServesNewest, TypeOK, Serves

(* Whatever kills a worker keeps it. *)
LEMMA KillKeeps ==
    ASSUME proc \in [Workers -> Processes], NEW w \in Workers
    PROVE  /\ Kill(proc, w) \in [Workers -> Processes]
           /\ Kill(proc, w)[w].killed /\ Kill(proc, w)[w].st = proc[w].st
           /\ \A v \in Workers : Keeps(Kill(proc, w), v)
           /\ \A v \in Workers \ {w} : Kill(proc, w)[v] = proc[v]
<1>1. /\ Kill(proc, w) \in [Workers -> Processes]
      /\ Kill(proc, w)[w].killed /\ Kill(proc, w)[w].st = proc[w].st
      /\ Kill(proc, w)[w].inbox = proc[w].inbox
      /\ \A v \in Workers \ {w} : Kill(proc, w)[v] = proc[v]
  BY DEF Kill, Processes
<1>2. Keeps(Kill(proc, w), w)
  BY <1>1 DEF Keeps, ToldToEnd
<1> QED BY <1>1, <1>2, UnmovedKeeps

(* Whatever is posted to a worker keeps it, and is the last it hears. *)
LEMMA PostKeeps ==
    ASSUME proc \in [Workers -> Processes], NEW w \in Workers, NEW m \in Messages
    PROVE  /\ Posted(w, m) \in [Workers -> Processes] /\ Posted(w, m)[w].st = proc[w].st
           /\ \A v \in Workers : Keeps(Posted(w, m), v)
           /\ \A v \in Workers \ {w} : Posted(w, m)[v] = proc[v]
           /\ m.type # "shutdown" => WillServe(Posted(w, m)[w], m.dir)
           /\ m.type = "shutdown" => ToldToEnd(Posted(w, m)[w])
<1> DEFINE ps == Posted(w, m)
<1>1. Append(proc[w].inbox, m) \in Seq(Messages)
  BY DEF Processes
<1>2. /\ ps \in [Workers -> Processes] /\ ps[w] \in Processes /\ proc[w] \in Processes
      /\ ps[w].st = proc[w].st /\ ps[w].killed = proc[w].killed
      /\ ps[w].inbox = Append(proc[w].inbox, m)
      /\ \A v \in Workers \ {w} : ps[v] = proc[v]
  BY <1>1 DEF Posted, Processes
<1> HIDE DEF ps
<1>3. /\ ToldToEnd(proc[w]) => ToldToEnd(ps[w])
      /\ m.type # "shutdown" => WillServe(ps[w], m.dir)
      /\ m.type = "shutdown" => ToldToEnd(ps[w])
  BY <1>2, Queued
<1>4. Keeps(ps, w)
  BY <1>2, <1>3 DEF Keeps
<1>5. \A v \in Workers : Keeps(ps, v)
  BY <1>2, <1>4, UnmovedKeeps
<1> QED BY <1>2, <1>3, <1>5 DEF ps

(* A step that writes one record of proc. *)
LEMMA NewRecord ==
    ASSUME proc \in [Workers -> Processes], NEW w \in Workers, NEW p \in Processes,
           proc' = [proc EXCEPT ![w] = p]
    PROVE  /\ proc' \in [Workers -> Processes] /\ proc'[w] = p
           /\ \A v \in Workers \ {w} : proc'[v] = proc[v]
OBVIOUS

(* Workers and options may change as long as the child is what it was.     *)
LEMMA Bystander ==
    ASSUME IInv, UNCHANGED <<child, connection, pendingStart, stopping, stop, listening>>,
           main' \in Mains, wanted' \in Dirs, restartTimer' \in BOOLEAN,
           startPromise' \subseteq {"user", "restart"}, startPromise' = {} <=> startPromise = {},
           lastStartOptions' \in {None, wanted'},
           proc' \in [Workers -> Processes], \A w \in Workers : Keeps(proc', w),
           child # None => Serves(proc'[child], wanted')
    PROVE  IInv'
<1>1. TypeOK /\ ChildInv /\ StopInv /\ child \in Workers \cup {None}
  BY FieldsOk
<1>2. TypeOK'
  BY <1>1 DEF TypeOK
<1>3. stop.child \in Workers \cup {None}
  BY <1>1 DEF TypeOK
<1>4. NoLostWorker'
  <2> SUFFICES ASSUME NEW w \in Workers, Alive(w)'
               PROVE  w = child \/ w = stop.child \/ proc'[w].killed \/ ToldToEnd(proc'[w])
    BY <1>2 DEF NoLostWorker
  <2>1. Alive(w)
    BY DEF Alive, Keeps
  <2> QED BY <2>1 DEF IInv, NoLostWorker, Keeps, Alive
<1>5. ServesNewest'
  BY <1>1 DEF ServesNewest, Serves
<1>6. ChildInv'
  BY <1>1 DEF ChildInv, Keeps, Leaving
<1>7. StopInv'
  BY <1>1, <1>3 DEF StopInv, Keeps, Alive
<1> QED BY <1>4, <1>5, <1>6, <1>7 DEF IInv

(* One worker takes a turn: it ends, or its queue goes on saying the same. *)
LEMMA WorkerTurn ==
    ASSUME IInv, NEW w \in Workers, NEW p \in Processes, WorkerStep(w, p),
           p.st = "none" <=> proc[w].st = "none",
           proc[w].st = "ended" => p.st = "ended",
           p.killed = proc[w].killed,
           \/ p.st = "ended"
           \/ /\ proc[w].st \notin {"forked", "ended"}
              /\ ToldToEnd(proc[w]) => ToldToEnd(p)
              /\ WillServe(proc[w], wanted) => WillServe(p, wanted)
    PROVE  IInv'
<1>1. /\ TypeOK /\ proc \in [Workers -> Processes] /\ child \in Workers \cup {None}
      /\ lastStartOptions \in {None, wanted}
      /\ child # None => Serves(proc[child], wanted)
  BY FieldsOk
<1>2. /\ proc' = [proc EXCEPT ![w] = p] /\ main' = main /\ wanted' = wanted
      /\ UNCHANGED <<child, connection, pendingStart, stopping, stop, listening>>
      /\ UNCHANGED <<startPromise, lastStartOptions, restartTimer>>
  BY DEF WorkerStep, manager
<1>3. /\ proc' \in [Workers -> Processes] /\ proc'[w] = p
      /\ \A v \in Workers \ {w} : proc'[v] = proc[v]
  BY <1>1, <1>2, NewRecord
<1>4. \A v \in Workers : Keeps(proc', v)
  <2>1. Keeps(proc', w)
    BY <1>3 DEF Keeps
  <2>2. \A v \in Workers \ {w} : Keeps(proc', v)
    BY <1>3, UnmovedKeeps
  <2> QED BY <2>1, <2>2
<1>5. child # None => Serves(proc'[child], wanted)
  <2>1. CASE child = w
    BY <1>1, <1>3, <2>1 DEF Serves
  <2>2. CASE child # w
    BY <1>1, <1>3, <2>2
  <2> QED BY <2>1, <2>2
<1> QED BY <1>1, <1>2, <1>3, <1>4, <1>5, Bystander DEF TypeOK

(* What a worker does by itself keeps the invariant. *)
LEMMA WorkerInv ==
    ASSUME IInv, NEW w \in Workers,
           Reads(w) \/ Listens(w) \/ Indexes(w) \/ Dies(w) \/ Fails(w) \/ Crashes(w)
    PROVE  IInv'
<1>1. proc \in [Workers -> Processes] /\ proc[w] \in Processes
  BY DEF IInv, NoLostWorker, TypeOK
<1>2. CASE Reads(w)
  <2> DEFINE m == Head(proc[w].inbox)
             q == [proc[w] EXCEPT !.inbox = Tail(@)]
  <2>1. /\ proc[w].st \in {"spawned", "starting", "serving", "ready"} /\ proc[w].inbox # <<>>
        /\ WorkerStep(w, IF m.type = "shutdown" THEN [q EXCEPT !.st = "ended"]
                       ELSE IF m.type = "start" THEN [q EXCEPT !.dir = m.dir, !.st = "starting"]
                       ELSE [q EXCEPT !.dir = m.dir])
    BY <1>2 DEF Reads
  <2>2. Tail(proc[w].inbox) \in Seq(Messages)
    BY <1>1, <2>1 DEF Processes
  <2>3. CASE m.type = "shutdown"
    <3>1. WorkerStep(w, [q EXCEPT !.st = "ended"])
      BY <2>1, <2>3
    <3>2. [q EXCEPT !.st = "ended"] \in Processes /\ [q EXCEPT !.st = "ended"].st = "ended"
          /\ [q EXCEPT !.st = "ended"].killed = proc[w].killed
      BY <1>1, <2>2 DEF Processes
    <3> QED BY <2>1, <3>1, <3>2, WorkerTurn
  <2>4. CASE m.type # "shutdown"
    <3>1. PICK p : p = IF m.type = "start" THEN [q EXCEPT !.dir = m.dir, !.st = "starting"]
                       ELSE [q EXCEPT !.dir = m.dir]
      OBVIOUS
    <3>2. WorkerStep(w, p)
      BY <2>1, <2>4, <3>1
    <3>3. m.dir \in Dirs \cup {None}
      <4>1. proc[w].inbox \in Seq(Messages)
        BY <1>1 DEF Processes
      <4>2. m \in Messages
        BY <2>1, <4>1
      <4> QED BY <4>2 DEF Messages
    <3>4. /\ p \in Processes /\ p.st \in {"starting", proc[w].st} /\ p.killed = proc[w].killed
          /\ p.inbox = Tail(proc[w].inbox) /\ p.dir = m.dir
      <4>1. CASE m.type = "start"
        BY <1>1, <2>2, <3>1, <3>3, <4>1 DEF Processes
      <4>2. CASE m.type # "start"
        BY <1>1, <2>2, <3>1, <3>3, <4>2 DEF Processes
      <4> QED BY <4>1, <4>2
    <3>5. /\ ToldToEnd(proc[w]) => ToldToEnd(p)
          /\ \A d : WillServe(proc[w], d) => WillServe(p, d)
      BY <1>1, <2>1, <2>4, <3>4, Obeyed
    <3> QED BY <2>1, <3>2, <3>4, <3>5, WorkerTurn
  <2> QED BY <2>3, <2>4
<1>3. CASE Listens(w)
  <2> DEFINE p == [proc[w] EXCEPT !.st = "serving", !.outbox = Append(@, "listening")]
  <2>1. Append(proc[w].outbox, "listening") \in Seq({"listening", "fatal"})
    BY <1>1 DEF Processes
  <2>2. /\ p \in Processes /\ p.st = "serving" /\ p.killed = proc[w].killed
        /\ p.inbox = proc[w].inbox /\ p.dir = proc[w].dir
    BY <1>1, <2>1 DEF Processes
  <2>3. proc[w].st = "starting" /\ WorkerStep(w, p)
    BY <1>3 DEF Listens
  <2> HIDE DEF p
  <2>4. /\ ToldToEnd(proc[w]) => ToldToEnd(p)
        /\ WillServe(proc[w], wanted) => WillServe(p, wanted)
    BY <2>2 DEF ToldToEnd, WillServe
  <2> QED BY <2>2, <2>3, <2>4, WorkerTurn
<1>4. CASE Indexes(w)
  <2> DEFINE p == [proc[w] EXCEPT !.st = "ready"]
  <2>1. /\ p \in Processes /\ p.st = "ready" /\ p.killed = proc[w].killed
        /\ p.inbox = proc[w].inbox /\ p.dir = proc[w].dir
    BY <1>1 DEF Processes
  <2>2. proc[w].st = "serving" /\ WorkerStep(w, p)
    BY <1>4 DEF Indexes
  <2> HIDE DEF p
  <2>3. /\ ToldToEnd(proc[w]) => ToldToEnd(p)
        /\ WillServe(proc[w], wanted) => WillServe(p, wanted)
    BY <2>1 DEF ToldToEnd, WillServe
  <2> QED BY <2>1, <2>2, <2>3, WorkerTurn
<1>5. CASE Fails(w)
  <2> DEFINE p == [proc[w] EXCEPT !.st = "ended", !.outbox = Append(@, "fatal")]
  <2>1. Append(proc[w].outbox, "fatal") \in Seq({"listening", "fatal"})
    BY <1>1 DEF Processes
  <2>2. p \in Processes /\ p.st = "ended" /\ p.killed = proc[w].killed
    BY <1>1, <2>1 DEF Processes
  <2>3. /\ proc[w].st \in {"starting", "serving"} /\ WorkerStep(w, p)
    BY <1>5 DEF Fails
  <2> HIDE DEF p
  <2> QED BY <2>2, <2>3, WorkerTurn
<1>6. CASE Dies(w) \/ Crashes(w)
  <2> DEFINE p == [proc[w] EXCEPT !.st = "ended"]
  <2>1. p \in Processes /\ p.st = "ended" /\ p.killed = proc[w].killed
    BY <1>1 DEF Processes
  <2>2. proc[w].st # "none" /\ WorkerStep(w, p)
    BY <1>6 DEF Dies, Crashes, Alive
  <2> HIDE DEF p
  <2> QED BY <2>1, <2>2, WorkerTurn
<1> QED BY <1>2, <1>3, <1>4, <1>5, <1>6

-----------------------------------------------------------------------------
(* The manager *)

(* A worker that comes up keeps the invariant. *)
LEMMA SpawnedInv == ASSUME IInv, NEW w \in Workers, Spawned(w) PROVE IInv'
<1>1. /\ TypeOK /\ proc \in [Workers -> Processes] /\ proc[w] \in Processes
      /\ child \in Workers \cup {None} /\ lastStartOptions \in {None, wanted}
      /\ child # None => Serves(proc[child], wanted)
  BY FieldsOk
<1>2. /\ proc[w].st = "forked" /\ main' = main /\ wanted' = wanted
      /\ UNCHANGED <<child, connection, pendingStart, stopping, stop, listening>>
      /\ UNCHANGED <<startPromise, lastStartOptions, restartTimer>>
  BY DEF Spawned, manager
<1>3. ASSUME NEW p \in Processes, proc' = [proc EXCEPT ![w] = p], p.st = "spawned",
             proc[w].killed => p.killed, ToldToEnd(proc[w]) => ToldToEnd(p),
             child = w => Serves(p, wanted)
      PROVE  IInv'
  <2>1. /\ proc' \in [Workers -> Processes] /\ proc'[w] = p
        /\ \A v \in Workers \ {w} : proc'[v] = proc[v]
    BY <1>1, <1>3, NewRecord
  <2>2. Keeps(proc', w)
    BY <1>2, <1>3, <2>1 DEF Keeps
  <2>3. \A v \in Workers : Keeps(proc', v)
    BY <2>1, <2>2, UnmovedKeeps
  <2>4. child # None => Serves(proc'[child], wanted)
    BY <1>1, <1>3, <2>1
  <2> QED BY <1>1, <1>2, <2>1, <2>3, <2>4, Bystander DEF TypeOK
<1>4. CASE proc' = Kill([proc EXCEPT ![w].st = "spawned"], w)
  <2>1. PICK p : p = [proc[w] EXCEPT !.st = "spawned", !.killed = TRUE]
    OBVIOUS
  <2>2. p \in Processes /\ p.st = "spawned" /\ p.killed /\ p.inbox = proc[w].inbox
    BY <1>1, <2>1 DEF Processes
  <2>3. proc' = [proc EXCEPT ![w] = p]
    BY <1>1, <1>4, <2>1 DEF Kill, Processes
  <2>4. ToldToEnd(proc[w]) => ToldToEnd(p)
    BY <2>2 DEF ToldToEnd
  <2>5. Serves(p, wanted)
    BY <2>2 DEF Serves
  <2> QED BY <1>3, <2>2, <2>3, <2>4, <2>5
<1>5. CASE /\ child = w /\ lastStartOptions # None
           /\ proc' = [proc EXCEPT ![w].st = "spawned",
                         ![w].inbox = Append(@, StartWith(lastStartOptions))]
  <2>1. lastStartOptions = wanted /\ StartWith(wanted) \in Messages
    BY <1>1, <1>5 DEF TypeOK, StartWith, Messages
  <2>2. PICK p : p = [proc[w] EXCEPT !.st = "spawned", !.inbox = Append(@, StartWith(wanted))]
    OBVIOUS
  <2>3. Append(proc[w].inbox, StartWith(wanted)) \in Seq(Messages)
    BY <1>1, <2>1 DEF Processes
  <2>4. /\ p \in Processes /\ p.st = "spawned" /\ p.killed = proc[w].killed
        /\ p.inbox = Append(proc[w].inbox, StartWith(wanted))
    BY <1>1, <2>2, <2>3 DEF Processes
  <2>5. proc' = [proc EXCEPT ![w] = p]
    BY <1>1, <1>5, <2>1, <2>2 DEF Processes
  <2>6. StartWith(wanted).type # "shutdown" /\ StartWith(wanted).dir = wanted
    BY DEF StartWith
  <2>7. WillServe(p, wanted) /\ (ToldToEnd(proc[w]) => ToldToEnd(p))
    BY <1>1, <2>1, <2>4, <2>6, Queued
  <2> QED BY <1>3, <2>4, <2>5, <2>7 DEF Serves
<1> QED BY <1>4, <1>5 DEF Spawned

(* A worker that was just forked is the child; the one before it, if any,  *)
(* is on its way out.                                                      *)
LEMMA ForkInv ==
    ASSUME IInv, NEW ps \in [Workers -> Processes], \A v \in Workers : Keeps(ps, v),
           NEW w \in Workers, ps[w].st = "none", connection = None, startPromise = {}, ~stopping,
           proc' = [ps EXCEPT ![w].st = "forked"], child' = w, pendingStart' = w,
           startPromise' \subseteq {"user", "restart"}, startPromise' # {},
           listening' = listening \ {w},
           main' \in Mains, lastStartOptions' \in {lastStartOptions, wanted}, restartTimer' \in BOOLEAN,
           UNCHANGED <<wanted, connection, stopping, stop>>
    PROVE  IInv'
<1>1. /\ TypeOK /\ ChildInv /\ StopInv /\ lastStartOptions \in {None, wanted}
      /\ child \in Workers \cup {None}
  BY FieldsOk
<1>2. w # None
  BY DirsAssumption
<1>3. /\ proc' \in [Workers -> Processes] /\ proc'[w].st = "forked"
      /\ \A v \in Workers \ {w} : proc'[v] = ps[v]
  BY DEF Processes
<1>4. TypeOK'
  BY <1>1, <1>3 DEF TypeOK
<1>5. NoLostWorker'
  <2> SUFFICES ASSUME NEW v \in Workers, Alive(v)', v # w
               PROVE  proc'[v].killed \/ ToldToEnd(proc'[v])
    BY <1>4 DEF NoLostWorker
  <2>1. ps[v] = proc'[v] /\ Alive(v) /\ ps[v].st # "ended"
    BY <1>3 DEF Alive, Keeps
  <2>2. stop.child = None
    BY <1>1 DEF StopInv
  <2>3. v = child => proc[v].killed
    BY <1>1, <2>1, DirsAssumption DEF ChildInv, Leaving, Alive
  <2>4. proc[v].killed \/ ToldToEnd(proc[v])
    BY <1>2, <2>1, <2>2, <2>3, DirsAssumption DEF IInv, NoLostWorker
  <2> QED BY <2>1, <2>4 DEF Keeps
<1>6. ServesNewest'
  BY <1>1, <1>3 DEF ServesNewest
<1>7. ChildInv'
  BY <1>2, <1>3 DEF ChildInv
<1>8. StopInv'
  BY <1>1, DirsAssumption DEF StopInv
<1> QED BY <1>5, <1>6, <1>7, <1>8 DEF IInv

(* A start asked for keeps the invariant. *)
LEMMA EnsureBackendInv == ASSUME IInv, EnsureBackend PROVE IInv'
<1>1. /\ TypeOK /\ ChildInv /\ proc \in [Workers -> Processes] /\ child \in Workers \cup {None}
      /\ wanted \in Dirs
  BY FieldsOk DEF TypeOK
<1>2. /\ lastStartOptions' = wanted /\ restartTimer' = FALSE /\ ~stopping
      /\ UNCHANGED <<wanted, connection, stopping, stop>>
  BY DEF EnsureBackend
<1>3. PICK ps : /\ ps \in IF child = None THEN {proc} ELSE {Posted(child, SetDir(wanted)), Kill(proc, child)}
                /\ IF connection # None
                   THEN main' = "connected" /\ proc' = ps
                        /\ UNCHANGED <<startPromise, child, pendingStart, listening>>
                   ELSE main' = "booting" /\ StartCurrentOptions("user", ps)
  BY DEF EnsureBackend
<1>4. /\ ps \in [Workers -> Processes] /\ \A v \in Workers : Keeps(ps, v)
      /\ child # None => Serves(ps[child], wanted)
  <2>1. CASE child = None
    BY <1>1, <1>3, <2>1, UnmovedKeeps
  <2>2. CASE child # None /\ ps = Posted(child, SetDir(wanted))
    <3>1. SetDir(wanted) \in Messages /\ SetDir(wanted).type # "shutdown" /\ SetDir(wanted).dir = wanted
      BY <1>1 DEF SetDir, Messages
    <3> QED BY <1>1, <2>2, <3>1, PostKeeps DEF Serves
  <2>3. CASE child # None /\ ps = Kill(proc, child)
    BY <1>1, <2>3, KillKeeps DEF Serves
  <2> QED BY <1>3, <2>1, <2>2, <2>3
<1>5. main' \in Mains
  BY <1>3 DEF Mains
<1>6. CASE connection = None /\ startPromise = {}
  <2>1. PICK w \in Workers :
          /\ ps[w].st = "none" /\ proc' = [ps EXCEPT ![w].st = "forked"]
          /\ child' = w /\ pendingStart' = w /\ startPromise' = {"user"} /\ listening' = listening \ {w}
    BY <1>3, <1>6 DEF StartCurrentOptions
  <2> QED BY <1>2, <1>4, <1>5, <1>6, <2>1, ForkInv
<1>7. CASE connection # None \/ startPromise # {}
  <2>1. /\ proc' = ps /\ UNCHANGED <<child, pendingStart, listening>>
        /\ startPromise' \in {startPromise, startPromise \cup {"user"}}
        /\ connection # None => startPromise' = startPromise
    BY <1>3, <1>7 DEF StartCurrentOptions
  <2>2. startPromise' \subseteq {"user", "restart"} /\ (startPromise' = {} <=> startPromise = {})
    BY <1>1, <1>7, <2>1 DEF TypeOK
  <2> QED BY <1>1, <1>2, <1>4, <1>5, <2>1, <2>2, Bystander
<1> QED BY <1>6, <1>7

(* A new directory keeps the invariant. *)
LEMMA SetClientDistDirInv == ASSUME IInv, NEW d \in Dirs, SetClientDistDir(d) PROVE IInv'
<1>1. /\ TypeOK /\ proc \in [Workers -> Processes] /\ child \in Workers \cup {None}
  BY FieldsOk
<1>2. /\ wanted' = d /\ lastStartOptions' \in {None, d} /\ main' = main
      /\ UNCHANGED <<child, connection, pendingStart, stopping, stop, listening>>
      /\ UNCHANGED <<startPromise, restartTimer>>
  BY DEF SetClientDistDir, OptionsWith
<1>3. /\ proc' \in [Workers -> Processes] /\ \A v \in Workers : Keeps(proc', v)
      /\ child # None => Serves(proc'[child], d)
  <2>1. CASE child = None
    BY <1>1, <2>1, UnmovedKeeps DEF SetClientDistDir
  <2>2. CASE child # None /\ proc' = Posted(child, SetDir(d))
    <3>1. SetDir(d) \in Messages /\ SetDir(d).type # "shutdown" /\ SetDir(d).dir = d
      BY DEF SetDir, Messages
    <3> QED BY <1>1, <2>2, <3>1, PostKeeps DEF Serves
  <2>3. CASE child # None /\ proc' = Kill(proc, child)
    BY <1>1, <2>3, KillKeeps DEF Serves
  <2> QED BY <2>1, <2>2, <2>3 DEF SetClientDistDir
<1> QED BY <1>1, <1>2, <1>3, Bystander DEF TypeOK

(* The restart timer keeps the invariant. *)
LEMMA RestartTimerInv == ASSUME IInv, RestartTimerFires PROVE IInv'
<1>1. /\ TypeOK /\ ChildInv /\ proc \in [Workers -> Processes] /\ child \in Workers \cup {None}
      /\ lastStartOptions \in {None, wanted}
      /\ child # None => Serves(proc[child], wanted)
  BY FieldsOk
<1>2. UNCHANGED <<main, wanted, connection, lastStartOptions, stopping, stop>>
  BY DEF RestartTimerFires
<1>3. \A v \in Workers : Keeps(proc, v)
  BY UnmovedKeeps
<1>4. CASE UNCHANGED <<proc, child, pendingStart, startPromise, listening>>
  <2>1. restartTimer' \in BOOLEAN
    BY <1>1 DEF RestartTimerFires, RetryAgain, StartCurrentOptions, TypeOK
  <2> QED BY <1>1, <1>2, <1>3, <1>4, <2>1, Bystander DEF TypeOK
<1>5. CASE ~stopping /\ connection = None /\ child = None /\ restartTimer' = FALSE
           /\ StartCurrentOptions("restart", proc)
  <2>1. startPromise = {}
    BY <1>1, <1>5 DEF ChildInv
  <2>2. PICK w \in Workers :
          /\ proc[w].st = "none" /\ proc' = [proc EXCEPT ![w].st = "forked"]
          /\ child' = w /\ pendingStart' = w /\ startPromise' = {"restart"} /\ listening' = listening \ {w}
    BY <1>5, <2>1 DEF StartCurrentOptions
  <2> QED BY <1>1, <1>2, <1>3, <1>5, <2>1, <2>2, ForkInv DEF TypeOK
<1> QED BY <1>4, <1>5 DEF RestartTimerFires

(* The worker in hand at a quit is what the stop waits for. *)
LEMMA QuitInv == ASSUME IInv, Quit PROVE IInv'
<1>1. /\ TypeOK /\ ChildInv /\ StopInv /\ proc \in [Workers -> Processes]
      /\ child \in Workers \cup {None}
  BY FieldsOk
<1>2. /\ ~stopping /\ main' = "quit" /\ stopping' = TRUE /\ restartTimer' = FALSE
      /\ lastStartOptions' = None /\ child' = None /\ connection' = None
      /\ UNCHANGED <<wanted, listening>>
  BY DEF Quit
<1>3. stop.child = None
  BY <1>1, <1>2 DEF StopInv
<1>4. /\ pendingStart' = None /\ startPromise' = {}
      /\ child = None => stop' = [pc |-> "starting", child |-> None]
      /\ child # None => stop' = [pc |-> "graceful", child |-> child]
  BY <1>1, DirsAssumption DEF Quit, CancelStart, ChildInv
<1>5. proc' \in [Workers -> Processes] /\ \A v \in Workers : Keeps(proc', v)
  <2>1. CASE proc' = proc
    BY <1>1, <2>1, UnmovedKeeps
  <2>2. CASE child # None /\ proc' = Posted(child, Shutdown)
    <3>1. Shutdown \in Messages
      BY DEF Shutdown, Messages
    <3> QED BY <1>1, <2>2, <3>1, PostKeeps
  <2> QED BY <2>1, <2>2 DEF Quit
<1>6. TypeOK'
  <2>1. stop' \in [pc : {"none", "starting", "graceful", "killing"}, child : Workers \cup {None}]
    <3>1. CASE child = None
      BY <1>4, <3>1
    <3>2. CASE child # None
      BY <1>1, <1>4, <3>2
    <3> QED BY <3>1, <3>2
  <2>2. main' \in Mains
    BY <1>2 DEF Mains
  <2>3. startPromise' \subseteq {"user", "restart"} /\ pendingStart' = None
    BY <1>4
  <2> QED BY <1>1, <1>2, <1>5, <2>1, <2>2, <2>3 DEF TypeOK
<1>7. NoLostWorker'
  <2> SUFFICES ASSUME NEW w \in Workers, Alive(w)'
               PROVE  w = stop'.child \/ proc'[w].killed \/ ToldToEnd(proc'[w])
    BY <1>6 DEF NoLostWorker
  <2>1. Alive(w)
    BY <1>5 DEF Alive, Keeps
  <2>2. w = child => w = stop'.child
    BY <1>4, DirsAssumption
  <2>3. w # child => proc[w].killed \/ ToldToEnd(proc[w])
    BY <1>3, <2>1, DirsAssumption DEF IInv, NoLostWorker
  <2> QED BY <1>5, <2>2, <2>3 DEF Keeps, Alive
<1>8. ServesNewest' /\ ChildInv' /\ StopInv'
  BY <1>2, <1>4, DirsAssumption DEF ServesNewest, ChildInv, StopInv
<1> QED BY <1>7, <1>8 DEF IInv

(* The steps of a stop. *)
LEMMA StopTimesOutInv == ASSUME IInv, StopTimesOut PROVE IInv'
<1>1. /\ TypeOK /\ ChildInv /\ StopInv /\ proc \in [Workers -> Processes]
      /\ child \in Workers \cup {None} /\ lastStartOptions \in {None, wanted}
      /\ child # None => Serves(proc[child], wanted)
  BY FieldsOk
<1>2. /\ stop.pc = "graceful" /\ stop' = [stop EXCEPT !.pc = "killing"] /\ proc' = Kill(proc, stop.child)
      /\ UNCHANGED <<main, wanted, child, connection, pendingStart, startPromise,
                     lastStartOptions, restartTimer, stopping, listening>>
  BY DEF StopTimesOut
<1>3. stop.child \in Workers /\ stop'.pc = "killing" /\ stop'.child = stop.child /\ stopping
  BY <1>1, <1>2 DEF StopInv, TypeOK
<1>4. /\ proc' \in [Workers -> Processes] /\ proc'[stop.child].killed
      /\ \A v \in Workers : Keeps(proc', v)
      /\ \A v \in Workers \ {stop.child} : proc'[v] = proc[v]
  BY <1>1, <1>2, <1>3, KillKeeps
<1>5. TypeOK'
  <2>1. stop \in [pc : {"none", "starting", "graceful", "killing"}, child : Workers \cup {None}]
    BY <1>1 DEF TypeOK
  <2>2. stop' = [stop EXCEPT !.pc = "killing"]
    BY <1>2
  <2>3. stop' \in [pc : {"none", "starting", "graceful", "killing"}, child : Workers \cup {None}]
    BY <2>1, <2>2
  <2>4. UNCHANGED <<main, wanted, child, connection, pendingStart, startPromise,
                    lastStartOptions, restartTimer, stopping, listening>>
    BY <1>2
  <2>5. TypeOK /\ proc' \in [Workers -> Processes]
    BY <1>1, <1>4
  <2> QED BY <2>3, <2>4, <2>5 DEF TypeOK
<1>6. NoLostWorker'
  <2> SUFFICES ASSUME NEW w \in Workers, Alive(w)'
               PROVE  w = child \/ w = stop.child \/ proc'[w].killed \/ ToldToEnd(proc'[w])
    BY <1>2, <1>3, <1>5 DEF NoLostWorker
  <2>1. Alive(w)
    BY <1>4 DEF Alive, Keeps
  <2> QED BY <1>4, <2>1 DEF IInv, NoLostWorker, Keeps, Alive
<1>7. child # None => Serves(proc'[child], wanted)
  BY <1>1, <1>4 DEF Serves
<1>8. ServesNewest'
  BY <1>1, <1>2, <1>7 DEF ServesNewest, Serves
<1>9. ChildInv'
  BY <1>1, <1>2, <1>4 DEF ChildInv, Keeps, Leaving
<1>10. StopInv'
  BY <1>2, <1>3, <1>4, DirsAssumption DEF StopInv
<1> QED BY <1>6, <1>8, <1>9, <1>10 DEF IInv

(* A stop that goes on, or ends, keeps the invariant. *)
LEMMA StopMovesInv == ASSUME IInv, StopGivesUp \/ StopSeesExit \/ StopEnds PROVE IInv'
<1>1. TypeOK /\ ChildInv /\ StopInv
  BY FieldsOk
<1>2. UNCHANGED <<main, wanted, proc, child, connection, pendingStart, startPromise,
                  lastStartOptions, restartTimer, listening>>
  BY DEF StopGivesUp, StopSeesExit, StopEnds
<1>3. /\ \/ stop' = NotStopping /\ stopping' = FALSE
         \/ /\ stop' = [stop EXCEPT !.pc = "starting"] /\ stopping' = stopping
            /\ stop.pc \in {"graceful", "killing"} /\ proc[stop.child].st = "none"
  BY DEF StopGivesUp, StopSeesExit, StopEnds
<1>4. stop' = NotStopping \/ stop'.child = stop.child
  BY <1>1, <1>3 DEF TypeOK
<1>5. TypeOK'
  <2>1. stop \in [pc : {"none", "starting", "graceful", "killing"}, child : Workers \cup {None}]
    BY <1>1 DEF TypeOK
  <2>2. stop' = NotStopping \/ stop' = [stop EXCEPT !.pc = "starting"]
    BY <1>3
  <2>3. stop' \in [pc : {"none", "starting", "graceful", "killing"}, child : Workers \cup {None}]
    BY <2>1, <2>2 DEF NotStopping
  <2>4. stopping' \in BOOLEAN
    BY <1>1, <1>3 DEF TypeOK
  <2> QED BY <1>1, <1>2, <2>3, <2>4 DEF TypeOK
<1>6. stop' = NotStopping /\ stop.child # None /\ Alive(stop.child) => proc[stop.child].killed
  <2>1. CASE StopGivesUp
    BY <1>1, <2>1 DEF StopGivesUp, StopInv
  <2>2. CASE StopSeesExit
    BY <2>2 DEF StopSeesExit, Alive
  <2>3. CASE StopEnds
    BY <1>1, <2>3 DEF StopEnds, StopInv, Alive
  <2> QED BY <2>1, <2>2, <2>3
<1>7. NoLostWorker'
  <2> SUFFICES ASSUME NEW w \in Workers, Alive(w)
               PROVE  w = child \/ w = stop'.child \/ proc[w].killed \/ ToldToEnd(proc[w])
    BY <1>2, <1>5 DEF NoLostWorker, Alive, ToldToEnd
  <2> QED BY <1>4, <1>6, DirsAssumption DEF IInv, NoLostWorker
<1>8. ServesNewest' /\ ChildInv'
  BY <1>1, <1>2 DEF IInv, ServesNewest, WillServe, ChildInv, Leaving
<1>9. StopInv'
  BY <1>1, <1>2, <1>3 DEF StopInv, NotStopping, TypeOK
<1> QED BY <1>7, <1>8, <1>9 DEF IInv

-----------------------------------------------------------------------------
(* What the manager hears of a worker *)

(* A message taken from an outbox leaves the rest of the worker. *)
LEMMA DroppedKeeps ==
    ASSUME proc \in [Workers -> Processes], NEW w \in Workers, proc[w].outbox # <<>>
    PROVE  /\ Dropped(w) \in [Workers -> Processes] /\ Dropped(w)[w].st = proc[w].st
           /\ Dropped(w)[w].killed = proc[w].killed /\ Dropped(w)[w].inbox = proc[w].inbox
           /\ Dropped(w)[w].dir = proc[w].dir
           /\ \A v \in Workers \ {w} : Dropped(w)[v] = proc[v]
<1>1. Tail(proc[w].outbox) \in Seq({"listening", "fatal"})
  BY DEF Processes
<1> QED BY <1>1 DEF Dropped, Processes

(* Who waited for a start is told that it failed. *)
LEMMA RejectedInv ==
    ASSUME IInv, NEW w \in Workers,
           UNCHANGED <<wanted, child, connection, lastStartOptions, stopping, stop, listening>>,
           proc' \in [Workers -> Processes], \A v \in Workers : Keeps(proc', v),
           child # None => Serves(proc'[child], wanted),
           \/ RejectPendingStart(w) /\ (pendingStart = w => proc'[w].killed)
           \/ UNCHANGED <<pendingStart, startPromise, restartTimer, main>>
    PROVE  IInv'
<1>1. TypeOK /\ ChildInv /\ StopInv /\ lastStartOptions \in {None, wanted} /\ child \in Workers \cup {None}
  BY FieldsOk
<1>2. CASE UNCHANGED <<pendingStart, startPromise, restartTimer, main>>
  BY <1>1, <1>2, Bystander DEF TypeOK
<1>3. CASE pendingStart = w /\ RejectPendingStart(w) /\ proc'[w].killed
  <2>1. /\ pendingStart' = None /\ startPromise' = {} /\ main' \in {"failed", main}
        /\ restartTimer' = (restartTimer \/ ("restart" \in startPromise /\ RestartScheduled))
    BY <1>3 DEF RejectPendingStart
  <2>2. restartTimer' \in BOOLEAN
    BY <2>1
  <2>3. TypeOK'
    BY <1>1, <2>1, <2>2 DEF TypeOK, Mains
  <2>4. NoLostWorker'
    <3> SUFFICES ASSUME NEW v \in Workers, Alive(v)'
                 PROVE  v = child \/ v = stop.child \/ proc'[v].killed \/ ToldToEnd(proc'[v])
      BY <2>3 DEF NoLostWorker
    <3>1. Alive(v)
      BY DEF Alive, Keeps
    <3> QED BY <3>1 DEF IInv, NoLostWorker, Keeps, Alive
  <2>5. ServesNewest'
    BY <1>1 DEF ServesNewest, Serves
  <2>6. ChildInv'
    <3>1. child = w
      BY <1>1, <1>3, DirsAssumption DEF ChildInv
    <3> QED BY <1>1, <1>3, <2>1, <3>1 DEF ChildInv, Keeps, Leaving
  <2>7. StopInv'
    <3>1. stop.child \in Workers \cup {None}
      BY <1>1 DEF TypeOK
    <3> QED BY <1>1, <3>1 DEF StopInv, Keeps, Alive
  <2> QED BY <2>4, <2>5, <2>6, <2>7 DEF IInv
<1> QED BY <1>2, <1>3 DEF RejectPendingStart

(* A worker that says it listens keeps the invariant. *)
LEMMA ListeningInv == ASSUME IInv, NEW w \in Workers, ListeningArrives(w) PROVE IInv'
<1>1. /\ TypeOK /\ ChildInv /\ StopInv /\ proc \in [Workers -> Processes]
      /\ child \in Workers \cup {None} /\ lastStartOptions \in {None, wanted}
      /\ child # None => Serves(proc[child], wanted)
  BY FieldsOk
<1>2. /\ proc[w].outbox # <<>> /\ proc' = Dropped(w)
      /\ UNCHANGED <<wanted, lastStartOptions, stopping, stop, child, restartTimer>>
  BY DEF ListeningArrives, Received
<1>3. /\ proc' \in [Workers -> Processes] /\ proc'[w].st = proc[w].st
      /\ proc'[w].killed = proc[w].killed /\ proc'[w].inbox = proc[w].inbox
      /\ proc'[w].dir = proc[w].dir
      /\ \A v \in Workers \ {w} : proc'[v] = proc[v]
  BY <1>1, <1>2, DroppedKeeps
<1>4. \A v \in Workers : Keeps(proc', v)
  <2>1. Keeps(proc', w)
    BY <1>3 DEF Keeps, ToldToEnd
  <2> QED BY <1>3, <2>1, UnmovedKeeps
<1>5. child # None => Serves(proc'[child], wanted)
  <2>1. Serves(proc[w], wanted) => Serves(proc'[w], wanted)
    BY <1>3 DEF Serves, WillServe
  <2> QED BY <1>1, <1>3, <2>1
<1>6. CASE child # w
  <2>1. UNCHANGED <<child, connection, pendingStart, startPromise, listening, main>>
    BY <1>6 DEF ListeningArrives
  <2> QED BY <1>1, <1>2, <1>3, <1>4, <1>5, <2>1, Bystander DEF TypeOK
<1>7. CASE child = w
  <2>1. /\ listening' = listening \cup {w} /\ connection' = w
        /\ pendingStart' = None /\ startPromise' = {} /\ main' \in {"connected", main}
    BY <1>1, <1>7, DirsAssumption DEF ListeningArrives, ChildInv
  <2>2. TypeOK'
    BY <1>1, <1>2, <1>3, <2>1 DEF TypeOK, Mains
  <2>3. NoLostWorker'
    <3> SUFFICES ASSUME NEW v \in Workers, Alive(v)'
                 PROVE  v = child \/ v = stop.child \/ proc'[v].killed \/ ToldToEnd(proc'[v])
      BY <1>2, <2>2 DEF NoLostWorker
    <3>1. Alive(v)
      BY <1>4 DEF Alive, Keeps
    <3> QED BY <1>4, <3>1 DEF IInv, NoLostWorker, Keeps, Alive
  <2>4. ServesNewest'
    BY <1>1, <1>2, <1>5 DEF ServesNewest, Serves
  <2>5. ChildInv'
    BY <1>1, <1>2, <1>3, <1>7, <2>1 DEF ChildInv
  <2>6. StopInv'
    <3>1. stop.child \in Workers \cup {None}
      BY <1>1 DEF TypeOK
    <3> QED BY <1>1, <1>2, <1>4, <3>1 DEF StopInv, Keeps, Alive
  <2> QED BY <2>3, <2>4, <2>5, <2>6 DEF IInv
<1> QED BY <1>6, <1>7

(* A worker that says it failed keeps the invariant. *)
LEMMA FatalInv == ASSUME IInv, NEW w \in Workers, FatalArrives(w) PROVE IInv'
<1>1. /\ TypeOK /\ proc \in [Workers -> Processes] /\ child \in Workers \cup {None}
      /\ child # None => Serves(proc[child], wanted)
  BY FieldsOk
<1>2. /\ proc[w].outbox # <<>>
      /\ proc' = IF child = w THEN Kill(Dropped(w), w) ELSE Dropped(w)
      /\ UNCHANGED <<wanted, child, connection, lastStartOptions, stopping, stop, listening>>
      /\ \/ RejectPendingStart(w) /\ child = w
         \/ UNCHANGED <<pendingStart, startPromise, restartTimer, main>>
  BY DEF FatalArrives, Received
<1>3. /\ Dropped(w) \in [Workers -> Processes] /\ Dropped(w)[w].st = proc[w].st
      /\ Dropped(w)[w].killed = proc[w].killed /\ Dropped(w)[w].inbox = proc[w].inbox
      /\ \A v \in Workers \ {w} : Dropped(w)[v] = proc[v]
  BY <1>1, <1>2, DroppedKeeps
<1>4. /\ proc' \in [Workers -> Processes] /\ proc'[w].st = proc[w].st
      /\ proc[w].killed => proc'[w].killed
      /\ child = w => proc'[w].killed
      /\ proc'[w].inbox = proc[w].inbox
      /\ \A v \in Workers \ {w} : proc'[v] = proc[v]
  <2>1. CASE child = w
    BY <1>2, <1>3, <2>1 DEF Kill, Processes
  <2>2. CASE child # w
    BY <1>2, <1>3, <2>2
  <2> QED BY <2>1, <2>2
<1>5. \A v \in Workers : Keeps(proc', v)
  <2>1. Keeps(proc', w)
    BY <1>4 DEF Keeps, ToldToEnd
  <2> QED BY <1>4, <2>1, UnmovedKeeps
<1>6. child # None => Serves(proc'[child], wanted)
  BY <1>1, <1>4 DEF Serves
<1> QED BY <1>2, <1>4, <1>5, <1>6, RejectedInv

(* A start that takes too long keeps the invariant. *)
LEMMA StartTimesOutInv == ASSUME IInv, NEW w \in Workers, StartTimesOut(w) PROVE IInv'
<1>1. /\ TypeOK /\ proc \in [Workers -> Processes] /\ child \in Workers \cup {None}
      /\ child # None => Serves(proc[child], wanted)
  BY FieldsOk
<1>2. /\ RejectPendingStart(w) /\ proc' = Kill(proc, w)
      /\ UNCHANGED <<wanted, child, connection, lastStartOptions, stopping, stop, listening>>
  BY DEF StartTimesOut
<1>3. /\ proc' \in [Workers -> Processes] /\ proc'[w].killed /\ \A v \in Workers : Keeps(proc', v)
      /\ \A v \in Workers \ {w} : proc'[v] = proc[v]
  BY <1>1, <1>2, KillKeeps
<1>4. child # None => Serves(proc'[child], wanted)
  BY <1>1, <1>3 DEF Serves
<1> QED BY <1>2, <1>3, <1>4, RejectedInv

(* A worker that exits keeps the invariant. *)
LEMMA ExitsInv == ASSUME IInv, NEW w \in Workers, Exits(w) PROVE IInv'
<1>1. /\ TypeOK /\ ChildInv /\ StopInv /\ proc \in [Workers -> Processes]
      /\ child \in Workers \cup {None} /\ lastStartOptions \in {None, wanted}
  BY FieldsOk
<1>2. /\ proc' = [proc EXCEPT ![w] = NoProcess] /\ UNCHANGED <<wanted, stopping, stop, listening>>
      /\ child' = (IF child = w THEN None ELSE child)
      /\ connection' = (IF child = w THEN None ELSE connection)
      /\ lastStartOptions' \in {lastStartOptions, OptionsWith(wanted)}
  BY DEF Exits
<1>3. NoProcess \in Processes /\ NoProcess.st = "none"
  BY DEF NoProcess, Processes
<1>4. /\ proc' \in [Workers -> Processes] /\ proc'[w].st = "none"
      /\ \A v \in Workers \ {w} : proc'[v] = proc[v]
  BY <1>1, <1>2, <1>3, NewRecord
<1>5. /\ pendingStart' = (IF pendingStart = w THEN None ELSE pendingStart)
      /\ startPromise' = (IF pendingStart = w THEN {} ELSE startPromise)
  <2>1. CASE w \in listening
    <3>1. pendingStart # w
      BY <1>1, <2>1, DirsAssumption DEF ChildInv
    <3> QED BY <2>1, <3>1 DEF Exits
  <2>2. CASE w \notin listening
    BY <2>2 DEF Exits, RejectPendingStart
  <2> QED BY <2>1, <2>2
<1>6. main' \in Mains /\ restartTimer' \in BOOLEAN
  <2>1. CASE w \in listening
    <3>1. main' \in {main, "lost"}
      BY <2>1 DEF Exits
    <3>2. UNCHANGED restartTimer \/ restartTimer' = (restartTimer \/ RestartScheduled)
      BY <2>1 DEF Exits
    <3>3. restartTimer' \in BOOLEAN
      BY <1>1, <3>2 DEF TypeOK
    <3> QED BY <1>1, <3>1, <3>3 DEF TypeOK, Mains
  <2>2. CASE w \notin listening
    <3>1. main' \in {main, "failed"}
      BY <2>2 DEF Exits, RejectPendingStart
    <3>2. \/ UNCHANGED restartTimer
          \/ restartTimer' = (restartTimer \/ ("restart" \in startPromise /\ RestartScheduled))
      BY <2>2 DEF Exits, RejectPendingStart
    <3>3. restartTimer' \in BOOLEAN
      BY <1>1, <3>2 DEF TypeOK
    <3> QED BY <1>1, <3>1, <3>3 DEF TypeOK, Mains
  <2> QED BY <2>1, <2>2
<1>7. lastStartOptions' \in {None, wanted}
  BY <1>1, <1>2 DEF OptionsWith
<1>8. TypeOK'
  BY <1>1, <1>2, <1>4, <1>5, <1>6, <1>7 DEF TypeOK
<1>9. NoLostWorker'
  <2> SUFFICES ASSUME NEW v \in Workers, Alive(v)'
               PROVE  v = child' \/ v = stop.child \/ proc'[v].killed \/ ToldToEnd(proc'[v])
    BY <1>2, <1>8 DEF NoLostWorker
  <2>1. v # w /\ proc'[v] = proc[v]
    BY <1>4 DEF Alive
  <2>2. Alive(v)
    BY <2>1 DEF Alive
  <2> QED BY <1>2, <2>1, <2>2 DEF IInv, NoLostWorker
<1>10. ServesNewest'
  <2>1. child' # None => child' = child /\ proc'[child'] = proc[child]
    BY <1>1, <1>2, <1>4
  <2> QED BY <1>2, <1>7, <2>1 DEF IInv, ServesNewest, WillServe
<1>11. ChildInv'
  <2>1. child' # None => child' = child /\ child # w /\ proc'[child] = proc[child]
    BY <1>1, <1>2, <1>4
  <2> QED BY <1>1, <1>2, <1>5, <2>1, DirsAssumption DEF ChildInv, Leaving
<1>12. StopInv'
  <2>1. stop.child \in Workers \cup {None}
    BY <1>1 DEF TypeOK
  <2>2. stop.child # None => proc'[stop.child] = proc[stop.child] \/ proc'[stop.child].st = "none"
    BY <1>4, <2>1
  <2> QED BY <1>1, <1>2, <2>1, <2>2 DEF StopInv, Alive
<1> QED BY <1>9, <1>10, <1>11, <1>12 DEF IInv

-----------------------------------------------------------------------------

(* The invariant holds at first. *)
LEMMA InitInv == Init => IInv
<1> SUFFICES ASSUME Init PROVE IInv
  OBVIOUS
<1>1. NoProcess \in Processes /\ NoProcess.st = "none"
  BY DEF NoProcess, Processes
<1>2. TypeOK
  BY <1>1 DEF Init, TypeOK, Mains, NotStopping
<1>3. \A w \in Workers : ~Alive(w)
  BY <1>1 DEF Init, Alive
<1> QED BY <1>2, <1>3 DEF Init, IInv, NoLostWorker, ServesNewest, ChildInv, StopInv, NotStopping

(* Every step keeps the invariant. *)
LEMMA StepInv == IInv /\ [Next]_vars => IInv'
<1> SUFFICES ASSUME IInv, [Next]_vars PROVE IInv'
  OBVIOUS
<1>1. CASE EnsureBackend \/ Quit \/ (\E d \in Dirs : SetClientDistDir(d)) \/ RestartTimerFires
  BY <1>1, EnsureBackendInv, QuitInv, SetClientDistDirInv, RestartTimerInv
<1>2. CASE StopGivesUp \/ Stopping
  BY <1>2, StopTimesOutInv, StopMovesInv DEF Stopping
<1>3. ASSUME NEW w \in Workers, Worker(w) \/ Fails(w) \/ Crashes(w) \/ StartTimesOut(w) PROVE IInv'
  BY <1>3, WorkerInv, SpawnedInv, ListeningInv, FatalInv, ExitsInv, StartTimesOutInv DEF Worker
<1>4. CASE UNCHANGED vars
  <2>1. \A w \in Workers : Keeps(proc, w)
    BY UnmovedKeeps
  <2> QED BY <1>4, <2>1, FieldsOk, Bystander DEF vars, manager, TypeOK
<1> QED BY <1>1, <1>2, <1>3, <1>4 DEF Next

(* Every run of the manager and its workers keeps the inductive invariant  *)
(* (desktop-backend-manager.ts, with index.ts and backend-worker.ts).      *)
THEOREM BackendInvariant == Spec => []IInv
BY InitInv, StepInv, PTL DEF Spec

(* However workers crash, start late or outlive a stop: none that runs is  *)
(* forgotten, and the directory last decided on reaches the one in use     *)
(* (startWorker, stopCurrent, setClientDistDir).                           *)
THEOREM BackendAlwaysSound == Spec => []BackendIsSound
<1>1. IInv => BackendIsSound
  BY DEF IInv, BackendIsSound
<1> QED BY <1>1, BackendInvariant, PTL

-----------------------------------------------------------------------------
(* The interface updates *)

(* What current.json may hold. *)
Stores == [revision : Revisions \cup {Nothing}, pendingVerify : BOOLEAN,
           quarantined : SUBSET Revisions]

(* What a check holds, and the fields of the store and of the window. *)
UiShape ==
    /\ feed \in Revisions \cup {Pinned}
    /\ state \in Stores
    /\ check \in [Checkers -> [pc : {"idle", "fetched", "installing", "asking"},
                               manifest : Revisions \cup {Pinned, Nothing}]]
    /\ \A c \in Checkers :
         /\ check[c].pc = "fetched" => check[c].manifest # Nothing
         /\ check[c].pc = "installing" => check[c].manifest \in Revisions
    /\ window = [page |-> window.page, stage |-> window.stage]

(* A bundle that is active or staged is in its directory: whatever prunes  *)
(* keeps the active one and unstages the other.                            *)
NamedIsOnDisk ==
    /\ state.revision # Nothing => bundles[state.revision] # "none"
    /\ staged # Nothing => bundles[staged] # "none"

(* Only the active bundle is in doubt. *)
InDoubtIsActive == state.pendingVerify => Overridden

UiInv == UiIsSound /\ UiShape /\ NamedIsOnDisk /\ InDoubtIsActive

-----------------------------------------------------------------------------
(* The store *)

(* What a decision about the active bundle leaves in the store. *)
Drops(st) == st \in Stores /\ st.revision = Nothing /\ ~st.pendingVerify
Takes(st, r) == st \in Stores /\ st.revision = r /\ st.pendingVerify

(* Every decision about the active bundle drops it or takes another. *)
LEMMA Decisions ==
    ASSUME UiInv, NEW r \in Revisions
    PROVE  Drops(Reverted(state)) /\ Drops(Quarantined(r)) /\ Takes(Activated(r), r)
<1>1. state \in Stores
  BY DEF UiInv, UiShape
<1>2. Drops(Reverted(state))
  BY <1>1 DEF Drops, Stores, Reverted
<1>3. Takes(Activated(r), r)
  BY <1>1 DEF Takes, Stores, Activated
<1>4. Drops(Quarantined(r))
  <2>1. \A st : Drops(st) => Drops([st EXCEPT !.quarantined = @ \cup {r}])
    BY DEF Drops, Stores
  <2> QED BY <1>2, <2>1 DEF Quarantined
<1> QED BY <1>2, <1>3, <1>4

(* The same of a reversal, which names no revision. *)
LEMMA RevertDrops == ASSUME UiInv PROVE Drops(Reverted(state))
<1>1. state \in Stores
  BY DEF UiInv, UiShape
<1> QED BY <1>1 DEF Drops, Stores, Reverted

(* Without an active bundle the shipped interface is served. *)
LEMMA NoneServed ==
    ASSUME NEW st, NEW b, NEW floor, st.revision = Nothing
    PROVE  ServedOf(st, b, floor) = floor
BY DEF ServedOf

(* Pruning keeps directories or empties them, and keeps the active one.    *)
LEMMA PruneKeeps ==
    ASSUME NEW st, NEW b, b \in [Revisions -> {"none", "whole", "damaged"}]
    PROVE  /\ Pruned(st, b) \in [Revisions -> {"none", "whole", "damaged"}]
           /\ st.revision \in Revisions => Pruned(st, b)[st.revision] = b[st.revision]
BY DEF Pruned

(* A reload leaves the window on what the store resolves to. *)
LEMMA ReloadIsCurrent ==
    ASSUME UiInv, Reload(state'), UNCHANGED shipped
    PROVE  /\ WindowIsCurrent'
           /\ window' = [page |-> window'.page, stage |-> window'.stage]
           /\ window'.stage \in {"none", "loading", "rendered", "failed"}
BY DEF UiInv, UiIsSound, InDoubtIsWatched, UiTypeOK, UiShape, Stores, Reload, WindowIsCurrent, Served,
       NoWindow

(* The window that stays is current while what is served stays the same.   *)
LEMMA StaysCurrent ==
    ASSUME UiInv, UNCHANGED window, Served' = Served
    PROVE  /\ WindowIsCurrent'
           /\ window' = [page |-> window'.page, stage |-> window'.stage]
           /\ window'.stage \in {"none", "loading", "rendered", "failed"}
BY DEF UiInv, UiIsSound, InDoubtIsWatched, UiTypeOK, UiShape, Stores, WindowIsCurrent

(* What is left for a step to show. *)
LEMMA Together ==
    ASSUME UiTypeOK', UiShape', NamedIsOnDisk', InDoubtIsActive', WindowIsCurrent',
           state'.pendingVerify => awaitingBootConfirmation',
           awaitingBootConfirmation' => sentinels' # <<>>
    PROVE  UiInv'
BY DEF UiInv, UiIsSound, InDoubtIsWatched

(* A step that leaves the store, its directories and the window alone.     *)
LEMMA StoreUntouched ==
    ASSUME UiInv, UNCHANGED <<feed, shipped, state, bundles, window, sentinels>>,
           awaitingBootConfirmation' = awaitingBootConfirmation,
           staged' \in {staged, Nothing}, promptShown' \in BOOLEAN,
           check' \in [Checkers -> [pc : {"idle", "fetched", "installing", "asking"},
                                    manifest : Revisions \cup {Pinned, Nothing}]],
           \A c \in Checkers :
             /\ check'[c].pc = "fetched" => check'[c].manifest # Nothing
             /\ check'[c].pc = "installing" => check'[c].manifest \in Revisions
    PROVE  UiInv'
<1>1. Served' = Served
  BY DEF Served
<1>2. WindowIsCurrent'
  BY <1>1, StaysCurrent
<1>3. UiTypeOK' /\ UiShape' /\ NamedIsOnDisk' /\ InDoubtIsActive'
  BY DEF UiInv, UiIsSound, InDoubtIsWatched, UiTypeOK, UiShape, Stores, NamedIsOnDisk,
         InDoubtIsActive, Overridden
<1> QED BY <1>2, <1>3, Together DEF UiInv, UiIsSound, InDoubtIsWatched

-----------------------------------------------------------------------------
(* Checks *)

(* A check that starts, fails, ends or goes on to install. *)
LEMMA CheckMovesInv ==
    ASSUME UiInv, NEW c \in Checkers, CheckStarts(c) \/ CheckFails(c) \/ CheckInstalls(c)
    PROVE  UiInv'
<1> USE DEF UiInv, UiIsSound, InDoubtIsWatched, UiTypeOK, UiShape, Stores
<1>1. Idle \in [pc : {"idle", "fetched", "installing", "asking"},
                manifest : Revisions \cup {Pinned, Nothing}]
  BY DEF Idle
<1>2. CASE CheckStarts(c)
  BY <1>2, StoreUntouched, RevisionsAssumption DEF CheckStarts, screen
<1>3. CASE CheckFails(c)
  BY <1>1, <1>3, StoreUntouched DEF CheckFails, Idle, screen
<1>4. CASE CheckInstalls(c)
  <2>1. \/ check' = [check EXCEPT ![c] = [@ EXCEPT !.pc = "installing"]]
           /\ check[c].manifest \in Revisions
        \/ check' = [check EXCEPT ![c] = Idle]
    BY <1>4 DEF CheckInstalls, Fetched
  <2>2. check' \in [Checkers -> [pc : {"idle", "fetched", "installing", "asking"},
                                 manifest : Revisions \cup {Pinned, Nothing}]]
    BY <1>1, <2>1
  <2>3. \A o \in Checkers :
          /\ check'[o].pc = "fetched" => check'[o].manifest # Nothing
          /\ check'[o].pc = "installing" => check'[o].manifest \in Revisions
    BY <2>1 DEF Idle
  <2> QED BY <1>4, <2>2, <2>3, StoreUntouched DEF CheckInstalls, screen
<1> QED BY <1>2, <1>3, <1>4

(* A pin takes the active and the staged bundle back. *)
LEMMA CheckPinnedInv == ASSUME UiInv, NEW c \in Checkers, CheckPinned(c) PROVE UiInv'
<1>1. /\ Drops(state')
      /\ bundles' \in [Revisions -> {"none", "whole", "damaged"}]
      /\ staged' = Nothing /\ check' = [check EXCEPT ![c] = Idle]
      /\ UNCHANGED <<feed, shipped, promptShown, awaitingBootConfirmation, sentinels>>
  BY RevertDrops, PruneKeeps
     DEF CheckPinned, Ends, UiInv, UiIsSound, InDoubtIsWatched, UiTypeOK
<1>2. /\ WindowIsCurrent'
      /\ window' = [page |-> window'.page, stage |-> window'.stage]
      /\ window'.stage \in {"none", "loading", "rendered", "failed"}
  <2>1. CASE Overridden
    BY <2>1, ReloadIsCurrent DEF CheckPinned
  <2>2. CASE ~Overridden
    <3>1. Served = shipped /\ Served' = shipped'
      BY <1>1, <2>2 DEF Served, ServedOf, Drops, Overridden
    <3> QED BY <1>1, <2>2, <3>1, StaysCurrent DEF CheckPinned
  <2> QED BY <2>1, <2>2
<1>3. UiTypeOK' /\ UiShape'
  BY <1>1, <1>2 DEF UiInv, UiIsSound, InDoubtIsWatched, UiTypeOK, UiShape, Stores, Drops, Takes, Idle
<1> QED BY <1>1, <1>2, <1>3, Together
        DEF UiInv, UiIsSound, InDoubtIsWatched, NamedIsOnDisk, InDoubtIsActive, Drops, Takes

(* A feed below the floor clears an activation that no longer counts.      *)
LEMMA CheckBelowFloorInv == ASSUME UiInv, NEW c \in Checkers, CheckBelowFloor(c) PROVE UiInv'
<1>1. /\ staged' = Nothing /\ check' = [check EXCEPT ![c] = Idle]
      /\ UNCHANGED <<feed, shipped, bundles, promptShown, awaitingBootConfirmation, sentinels>>
  BY DEF CheckBelowFloor, Ends
<1>2. CASE Served # shipped
  <2>1. UNCHANGED <<state, window>>
    BY <1>2 DEF CheckBelowFloor
  <2> QED BY <1>1, <2>1, StoreUntouched
          DEF UiInv, UiIsSound, InDoubtIsWatched, UiTypeOK, UiShape, Stores, Drops, Takes, Idle
<1>3. CASE Served = shipped
  <2>1. Drops(state')
    BY <1>3, RevertDrops DEF CheckBelowFloor
  <2>2. /\ WindowIsCurrent'
        /\ window' = [page |-> window'.page, stage |-> window'.stage]
        /\ window'.stage \in {"none", "loading", "rendered", "failed"}
    <3>1. CASE Overridden
      BY <1>3, <3>1, ReloadIsCurrent DEF CheckBelowFloor
    <3>2. CASE ~Overridden
      <4>1. Served' = shipped'
        BY <2>1 DEF Served, ServedOf, Drops
      <4> QED BY <1>1, <1>3, <3>2, <4>1, StaysCurrent DEF CheckBelowFloor
    <3> QED BY <3>1, <3>2
  <2>3. UiTypeOK' /\ UiShape'
    BY <1>1, <2>1, <2>2 DEF UiInv, UiIsSound, InDoubtIsWatched, UiTypeOK, UiShape, Stores, Drops, Takes, Idle
  <2> QED BY <1>1, <2>1, <2>2, <2>3, Together
          DEF UiInv, UiIsSound, InDoubtIsWatched, NamedIsOnDisk, InDoubtIsActive, Drops, Takes
<1> QED BY <1>2, <1>3

(* An installed bundle is staged; the active one had its directory before, *)
(* so what is served stays.                                                *)
LEMMA InstalledInv ==
    ASSUME UiInv, NEW c \in Checkers, NEW how \in {"whole", "damaged"}, Installed(c, how)
    PROVE  UiInv'
<1> DEFINE r == check[c].manifest
<1>1. /\ r \in Revisions /\ staged' = r /\ promptShown' = TRUE
      /\ bundles' = [bundles EXCEPT ![r] = how]
      /\ UNCHANGED <<feed, shipped, state, awaitingBootConfirmation, sentinels, window>>
      /\ \/ check' = [check EXCEPT ![c] = Idle]
         \/ check' = [check EXCEPT ![c].pc = "asking"]
         \/ check' = check
  BY DEF Installed, Ends, screen, UiInv, UiShape, Stores
<1>2. Served' = Served
  <2>1. state.revision # Nothing => bundles'[state.revision] # "none" /\ bundles[state.revision] # "none"
    BY <1>1 DEF UiInv, UiIsSound, InDoubtIsWatched, UiTypeOK, NamedIsOnDisk
  <2> QED BY <1>1, <2>1 DEF Served, ServedOf
<1>3. check' \in [Checkers -> [pc : {"idle", "fetched", "installing", "asking"},
                               manifest : Revisions \cup {Pinned, Nothing}]]
  BY <1>1 DEF UiInv, UiShape, Stores, Idle
<1>6. \A o \in Checkers :
        /\ check'[o].pc = "fetched" => check'[o].manifest # Nothing
        /\ check'[o].pc = "installing" => check'[o].manifest \in Revisions
  BY <1>1 DEF UiInv, UiShape, Stores, Idle
<1>7. UiShape'
  BY <1>1, <1>3, <1>6 DEF UiInv, UiShape, Stores
<1>8. UiTypeOK'
  BY <1>1, <1>3 DEF UiInv, UiIsSound, InDoubtIsWatched, UiTypeOK
<1>4. NamedIsOnDisk'
  BY <1>1 DEF UiInv, UiIsSound, InDoubtIsWatched, UiTypeOK, NamedIsOnDisk
<1>5. InDoubtIsActive'
  BY <1>1 DEF UiInv, InDoubtIsActive, Overridden
<1> QED BY <1>1, <1>2, <1>4, <1>5, <1>7, <1>8, StaysCurrent, Together
        DEF UiInv, UiIsSound, InDoubtIsWatched

-----------------------------------------------------------------------------
(* Activations and their sentinels *)

(* What is applied is awaited, and a sentinel is set for it. *)
LEMMA ApplyInv ==
    ASSUME UiInv, ApplyStaged, UNCHANGED <<feed, shipped, bundles>>,
           \/ check' = check
           \/ \E c \in Checkers : check' = [check EXCEPT ![c] = Idle]
    PROVE  UiInv'
<1>1. check' \in [Checkers -> [pc : {"idle", "fetched", "installing", "asking"},
                               manifest : Revisions \cup {Pinned, Nothing}]]
  BY DEF UiInv, UiShape, Stores, Drops, Takes, Idle
<1>2. \A c \in Checkers : check'[c] \in {check[c], Idle}
  BY DEF UiInv, UiShape, Stores, Drops, Takes
<1>3. \A c \in Checkers :
        /\ check'[c].pc = "fetched" => check'[c].manifest # Nothing
        /\ check'[c].pc = "installing" => check'[c].manifest \in Revisions
  BY <1>2 DEF UiInv, UiShape, Stores, Drops, Takes, Idle
<1>4. CASE staged = Nothing
  BY <1>1, <1>3, <1>4, StoreUntouched
     DEF ApplyStaged, UiInv, UiIsSound, InDoubtIsWatched, UiTypeOK
<1>5. CASE staged # Nothing
  <2>1. staged \in Revisions /\ bundles[staged] # "none" /\ sentinels \in Seq(Revisions)
    BY <1>5 DEF UiInv, UiIsSound, InDoubtIsWatched, UiTypeOK, NamedIsOnDisk
  <2>2. /\ Takes(state', staged)
        /\ staged' = Nothing /\ promptShown' = FALSE /\ awaitingBootConfirmation' = TRUE
        /\ sentinels' = Append(sentinels, staged)
        /\ Reload(state')
    BY <1>5, <2>1, Decisions DEF ApplyStaged
  <2>3. sentinels' \in Seq(Revisions) /\ sentinels' # <<>>
    BY <2>1, <2>2
  <2>4. /\ WindowIsCurrent'
        /\ window' = [page |-> window'.page, stage |-> window'.stage]
        /\ window'.stage \in {"none", "loading", "rendered", "failed"}
    BY <2>2, ReloadIsCurrent
  <2>5. UiTypeOK' /\ UiShape'
    BY <1>1, <1>3, <2>1, <2>2, <2>3, <2>4
       DEF UiInv, UiIsSound, InDoubtIsWatched, UiTypeOK, UiShape, Stores, Drops, Takes
  <2>6. NamedIsOnDisk' /\ InDoubtIsActive'
    BY <2>1, <2>2, RevisionsAssumption DEF NamedIsOnDisk, InDoubtIsActive, Drops, Takes, Overridden
  <2> QED BY <2>2, <2>3, <2>4, <2>5, <2>6, Together
<1> QED BY <1>4, <1>5

(* "Reload Now" applies what is staged. *)
LEMMA ReloadNowInv == ASSUME UiInv, NEW c \in Checkers, ReloadNow(c) PROVE UiInv'
BY ApplyInv DEF ReloadNow, DialogCloses, Ends

(* So does the page that asks for it. *)
LEMMA PageAppliesInv == ASSUME UiInv, PageApplies PROVE UiInv'
BY ApplyInv DEF PageApplies

(* "Later" only closes the dialog. *)
LEMMA LaterInv == ASSUME UiInv, NEW c \in Checkers, Later(c) PROVE UiInv'
<1>1. check' = check \/ check' = [check EXCEPT ![c] = Idle]
  BY DEF Later, DialogCloses, Ends
<1>2. check' \in [Checkers -> [pc : {"idle", "fetched", "installing", "asking"},
                               manifest : Revisions \cup {Pinned, Nothing}]]
  BY <1>1 DEF UiInv, UiShape, Stores, Drops, Takes, Idle
<1>3. \A o \in Checkers :
        /\ check'[o].pc = "fetched" => check'[o].manifest # Nothing
        /\ check'[o].pc = "installing" => check'[o].manifest \in Revisions
  BY <1>1 DEF UiInv, UiShape, Stores, Drops, Takes, Idle
<1> QED BY <1>2, <1>3, StoreUntouched DEF Later, screen

(* A sentinel drops the bundle it was set for while one is awaited: then   *)
(* none is in doubt, whichever was awaited.                                *)
LEMMA SentinelFiresInv == ASSUME UiInv, SentinelFires PROVE UiInv'
<1>1. sentinels \in Seq(Revisions) /\ sentinels # <<>>
  BY DEF SentinelFires, UiInv, UiIsSound, InDoubtIsWatched, UiTypeOK
<1>2. Head(sentinels) \in Revisions /\ sentinels' \in Seq(Revisions)
  BY <1>1 DEF SentinelFires
<1>3. /\ awaitingBootConfirmation' = FALSE
      /\ UNCHANGED <<feed, shipped, bundles, check, promptShown, staged>>
  BY DEF SentinelFires
<1>4. CASE awaitingBootConfirmation
  <2>1. /\ Drops(state')
        /\ Reload(state')
    BY <1>2, <1>4, Decisions DEF SentinelFires
  <2>2. UiTypeOK' /\ UiShape' /\ WindowIsCurrent'
    BY <1>2, <1>3, <2>1, ReloadIsCurrent
       DEF UiInv, UiIsSound, InDoubtIsWatched, UiTypeOK, UiShape, Stores, Drops, Takes
  <2> QED BY <1>3, <2>1, <2>2, Together DEF UiInv, NamedIsOnDisk, InDoubtIsActive, Drops, Takes
<1>5. CASE ~awaitingBootConfirmation
  <2>1. UNCHANGED <<state, window>> /\ ~state.pendingVerify
    BY <1>5 DEF SentinelFires, UiInv, UiIsSound, InDoubtIsWatched
  <2>2. Served' = Served
    BY <1>3, <2>1 DEF Served
  <2>3. UiTypeOK' /\ UiShape'
    BY <1>2, <1>3, <2>1 DEF UiInv, UiIsSound, InDoubtIsWatched, UiTypeOK, UiShape, Stores, Drops, Takes
  <2> QED BY <1>3, <2>1, <2>2, <2>3, StaysCurrent, Together
          DEF UiInv, NamedIsOnDisk, InDoubtIsActive, Drops, Takes
<1> QED BY <1>4, <1>5

(* The window says that it rendered: what was in doubt is confirmed.       *)
LEMMA ReadyInv == ASSUME UiInv, ReadyArrives PROVE UiInv'
<1>1. /\ state' \in Stores /\ ~state'.pendingVerify
      /\ state'.revision = state.revision /\ state'.quarantined = state.quarantined
      /\ awaitingBootConfirmation' = FALSE
      /\ UNCHANGED <<feed, shipped, bundles, check, promptShown, staged, sentinels, window>>
  BY DEF ReadyArrives, UiInv, UiShape, Stores, Drops, Takes
<1>2. Served' = Served
  BY <1>1 DEF Served, ServedOf, Drops
<1>3. UiTypeOK' /\ UiShape'
  BY <1>1 DEF UiInv, UiIsSound, InDoubtIsWatched, UiTypeOK, UiShape, Stores, Drops, Takes
<1> QED BY <1>1, <1>2, <1>3, StaysCurrent, Together DEF UiInv, NamedIsOnDisk, InDoubtIsActive, Drops, Takes

-----------------------------------------------------------------------------
(* The window and the outside *)

(* The window's own steps: it loads what is served, stays, or closes.      *)
LEMMA WindowInv ==
    ASSUME UiInv,
           UNCHANGED <<feed, shipped, state, bundles, check, promptShown, staged,
                       awaitingBootConfirmation, sentinels>>,
           \/ window' = [page |-> Served, stage |-> "loading"]
           \/ window' = NoWindow
           \/ window # NoWindow /\ \E s \in {"rendered", "failed"} :
                                      window' = [window EXCEPT !.stage = s]
    PROVE  UiInv'
<1>1. Served' = Served
  BY DEF Served
<1>2. /\ WindowIsCurrent'
      /\ window' = [page |-> window'.page, stage |-> window'.stage]
      /\ window'.stage \in {"none", "loading", "rendered", "failed"}
  BY <1>1 DEF WindowIsCurrent, UiInv, UiIsSound, UiShape, Stores, Drops, Takes, NoWindow
<1>3. UiTypeOK' /\ UiShape' /\ NamedIsOnDisk' /\ InDoubtIsActive'
  BY <1>2 DEF UiInv, UiIsSound, InDoubtIsWatched, UiTypeOK, UiShape, Stores, Drops, Takes, NamedIsOnDisk,
              InDoubtIsActive, Overridden
<1> QED BY <1>2, <1>3, Together DEF UiInv, UiIsSound, InDoubtIsWatched

(* A page that does not load drops the bundle that is awaited. *)
LEMMA LoadFailsInv == ASSUME UiInv, LoadFails PROVE UiInv'
<1>1. /\ UNCHANGED <<feed, shipped, bundles, check, promptShown, staged, sentinels>>
      /\ NotifyLoadFailure /\ window # NoWindow
  BY DEF LoadFails, NoWindow
<1>2. CASE awaitingBootConfirmation /\ Overridden
  <2>1. /\ Drops(state')
        /\ awaitingBootConfirmation' = FALSE
        /\ Reload(state')
    <3>1. state.revision \in Revisions
      BY <1>2 DEF Overridden, UiInv, UiShape, Stores, Drops, Takes
    <3> QED BY <1>1, <1>2, <3>1, Decisions DEF NotifyLoadFailure
  <2>3. UiTypeOK' /\ UiShape' /\ WindowIsCurrent'
    BY <1>1, <2>1, ReloadIsCurrent
       DEF UiInv, UiIsSound, InDoubtIsWatched, UiTypeOK, UiShape, Stores, Drops, Takes
  <2> QED BY <1>1, <2>1, <2>3, Together DEF UiInv, NamedIsOnDisk, InDoubtIsActive, Drops, Takes
<1>3. CASE ~(awaitingBootConfirmation /\ Overridden)
  BY <1>1, <1>3, WindowInv DEF NotifyLoadFailure
<1> QED BY <1>2, <1>3

(* After a restart nothing is in doubt any more. *)
LEMMA RestartInv == ASSUME UiInv, NEW floor \in Floors, Restart(floor) PROVE UiInv'
<1>1. /\ shipped' = floor /\ bundles' = Pruned(state', bundles)
      /\ check' = [c \in Checkers |-> Idle]
      /\ promptShown' = FALSE /\ staged' = Nothing
      /\ awaitingBootConfirmation' = FALSE /\ sentinels' = <<>>
      /\ window' = [page |-> ServedOf(state', bundles', floor), stage |-> "loading"]
      /\ feed' = feed
  BY DEF Restart
<1>2. /\ state' \in Stores
      /\ ~state'.pendingVerify
      /\ state'.revision \in {state.revision, Nothing}
  <2>1. CASE state.pendingVerify /\ Overridden
    <3>1. state.revision \in Revisions
      BY <2>1 DEF Overridden, UiInv, UiShape, Stores
    <3>2. Drops(state')
      BY <2>1, <3>1, Decisions DEF Restart
    <3> QED BY <3>2 DEF Drops
  <2>2. CASE ~(state.pendingVerify /\ Overridden)
    BY <2>2 DEF Restart, UiInv, UiShape, Stores, Drops, Takes, InDoubtIsActive
  <2> QED BY <2>1, <2>2
<1>3. /\ bundles' \in [Revisions -> {"none", "whole", "damaged"}]
      /\ state'.revision # Nothing => bundles'[state'.revision] = bundles[state'.revision]
  BY <1>1, <1>2, PruneKeeps DEF UiInv, UiIsSound, InDoubtIsWatched, UiTypeOK
<1>4. WindowIsCurrent'
  BY <1>1 DEF WindowIsCurrent, Served
<1>5. UiTypeOK' /\ UiShape'
  <2>1. \A c \in Checkers : check'[c] = Idle
    BY <1>1
  <2>2. UiShape'
    BY <1>1, <1>2, <2>1 DEF UiInv, UiShape, Stores, Drops, Takes, Idle
  <2>3. UiTypeOK'
    <3>1. sentinels' \in Seq(Revisions) /\ staged' = Nothing /\ window'.stage = "loading"
      BY <1>1
    <3>2. promptShown' \in BOOLEAN
      BY <1>1
    <3> QED BY <1>2, <1>3, <2>1, <3>1, <3>2 DEF UiTypeOK, Stores, Idle
  <2> QED BY <2>2, <2>3
<1>6. NamedIsOnDisk' /\ InDoubtIsActive'
  BY <1>1, <1>2, <1>3 DEF UiInv, NamedIsOnDisk, InDoubtIsActive, Drops, Takes
<1> QED BY <1>1, <1>2, <1>4, <1>5, <1>6, Together

-----------------------------------------------------------------------------

(* The invariant holds when the app has started. *)
LEMMA UiInitInv == UiInit => UiInv
<1> SUFFICES ASSUME UiInit PROVE UiInv
  OBVIOUS
<1>1. UiTypeOK /\ UiShape
  <2>1. \A c \in Checkers : check[c] = Idle
    BY DEF UiInit
  <2>2. UiShape
    BY <2>1 DEF UiInit, UiShape, Stores, Idle
  <2>3. /\ state.revision = Nothing /\ state.pendingVerify \in BOOLEAN
        /\ state.quarantined = {} /\ window.stage = "loading"
    BY DEF UiInit
  <2>4. bundles \in [Revisions -> {"none", "whole", "damaged"}]
    BY DEF UiInit
  <2>5. sentinels \in Seq(Revisions) /\ staged = Nothing
    BY DEF UiInit
  <2>6. promptShown \in BOOLEAN
    BY DEF UiInit
  <2> QED BY <2>1, <2>2, <2>3, <2>4, <2>5, <2>6 DEF UiTypeOK, Idle
<1>2. WindowIsCurrent
  BY DEF UiInit, WindowIsCurrent, Served, ServedOf
<1> QED BY <1>1, <1>2
        DEF UiInit, UiInv, UiIsSound, InDoubtIsWatched, NamedIsOnDisk, InDoubtIsActive

(* Every step keeps the invariant. *)
LEMMA UiStepInv == UiInv /\ [UiNext]_uiVars => UiInv'
<1> SUFFICES ASSUME UiInv, [UiNext]_uiVars PROVE UiInv'
  OBVIOUS
<1>1. ASSUME NEW c \in Checkers, CheckStarts(c) \/ Check(c) \/ ReloadNow(c) \/ Later(c)
      PROVE  UiInv'
  BY <1>1, CheckMovesInv, CheckPinnedInv, CheckBelowFloorInv, InstalledInv, ReloadNowInv,
     LaterInv DEF Check
<1>2. CASE PageApplies \/ SentinelFires \/ ReadyArrives
  BY <1>2, PageAppliesInv, SentinelFiresInv, ReadyInv
<1>3. CASE PageRenders
  <2>1. window # NoWindow
    BY <1>3 DEF PageRenders, NoWindow
  <2> QED BY <1>3, <2>1, WindowInv DEF PageRenders, updater
<1>4. CASE LoadFails
  BY <1>4, LoadFailsInv
<1>5. CASE PageReloads \/ WindowCloses \/ WindowOpens
  BY <1>5, WindowInv DEF PageReloads, WindowCloses, WindowOpens, updater
<1>6. ASSUME NEW m \in Revisions \cup {Pinned}, Publish(m) PROVE UiInv'
  <2>1. feed' \in Revisions \cup {Pinned}
        /\ UNCHANGED <<shipped, state, bundles, check, promptShown, staged,
                       awaitingBootConfirmation, sentinels, window>>
    BY <1>6 DEF Publish, updater, screen
  <2>2. Served' = Served
    BY <2>1 DEF Served
  <2>3. UiTypeOK' /\ UiShape' /\ NamedIsOnDisk' /\ InDoubtIsActive'
    BY <2>1 DEF UiInv, UiIsSound, InDoubtIsWatched, UiTypeOK, UiShape, Stores, NamedIsOnDisk,
                InDoubtIsActive, Overridden
  <2> QED BY <2>1, <2>2, <2>3, StaysCurrent, Together DEF UiInv, UiIsSound, InDoubtIsWatched
<1>7. ASSUME NEW floor \in Floors, Restart(floor) PROVE UiInv'
  BY <1>7, RestartInv
<1>8. CASE UNCHANGED uiVars
  BY <1>8, StoreUntouched
     DEF uiVars, updater, screen, UiInv, UiIsSound, InDoubtIsWatched, UiTypeOK, UiShape, Stores
<1> QED BY <1>1, <1>2, <1>3, <1>4, <1>5, <1>6, <1>7, <1>8 DEF UiNext

(* Every run of the updater keeps the inductive invariant (ui-updater.ts,  *)
(* ui-bundle/store.ts).                                                    *)
THEOREM UiInvariant == UiSpec => []UiInv
BY UiInitInv, UiStepInv, PTL DEF UiSpec

(* However checks, dialogs, sentinels, late messages and restarts meet: a  *)
(* bundle in doubt is awaited and a sentinel is set for one, and the       *)
(* window has loaded what the store resolves to (applyStaged, runCheck,    *)
(* notifyLoadFailure, reconcilePendingVerify).                             *)
THEOREM UiAlwaysSound == UiSpec => []UiIsSound
<1>1. UiInv => UiIsSound
  BY DEF UiInv
<1> QED BY <1>1, UiInvariant, PTL
=============================================================================
