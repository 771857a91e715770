--------------------------- MODULE DesktopBackend ---------------------------
(***************************************************************************)
(* The desktop app's local API worker: desktop-backend-manager.ts, its     *)
(* worker (backend-worker.ts) and the main process that uses it (index.ts: *)
(* ensureBackend, reloadMainWindow, onUnexpectedExit, onConnectionRestored,*)
(* shutdown).                                                              *)
(*                                                                         *)
(* The main process is one thread; workers are processes, with a message   *)
(* queue each way, that spawn, fail and exit on their own.  What follows a *)
(* promise in the same turn of the event loop is part of the step that     *)
(* settled it.  A directory is the UI the store resolves to (UiBundles);   *)
(* times are left out: any timer that runs may fire.                       *)
(***************************************************************************)
EXTENDS Integers, Sequences

CONSTANTS
    Workers,    \* process slots, as numbers: one is taken again once its exit is handled
    Dirs,       \* client directories
    None,
    MaxEvents   \* bound on crashes, timeouts, failed posts and new directories

ASSUME WorkersAssumption == Workers \subseteq Nat /\ Workers # {}
ASSUME DirsAssumption == Dirs # {} /\ None \notin Dirs \cup Workers

VARIABLES
    main,          \* index.ts: "none", "booting", "connected", "lost",
                   \* "failed", "quit"
    wanted,        \* resolveBackendClientDistDir()
    proc,          \* worker -> [st, killed, dir, inbox, outbox]
    child, connection, pendingStart,
    startPromise,  \* [by] while a start is under way: who waits for it
    lastStartOptions, restartTimer, stopping,
    stop,          \* stopCurrent: [pc, child]
    listening,     \* the workers whose `listening` is set
    events

manager == <<child, connection, pendingStart, startPromise, lastStartOptions, restartTimer,
             stopping, stop, listening>>
vars == <<main, wanted, proc, manager, events>>

NoProcess == [st |-> "none", killed |-> FALSE, dir |-> None, inbox |-> <<>>, outbox |-> <<>>]
NotStopping == [pc |-> "none", child |-> None]
Event == events < MaxEvents /\ events' = events + 1

Alive(w) == proc[w].st \notin {"none", "ended"}
SetDir(d) == [type |-> "set-client-dist-dir", dir |-> d]
StartWith(d) == [type |-> "start", dir |-> d]
Shutdown == [type |-> "shutdown", dir |-> None]

Init ==
    /\ main = "none" /\ wanted \in Dirs
    /\ proc = [w \in Workers |-> NoProcess]
    /\ child = None /\ connection = None /\ pendingStart = None /\ startPromise = {}
    /\ lastStartOptions = None /\ restartTimer = FALSE /\ stopping = FALSE
    /\ stop = NotStopping /\ listening = {}
    /\ events = 0

Kill(ps, w) == [ps EXCEPT ![w].killed = TRUE]

(* postTo: the message is queued, or it cannot be delivered and the child  *)
(* is killed.                                                              *)
Posted(w, m) == [proc EXCEPT ![w].inbox = Append(@, m)]
PostOrKill(w, m, ps) ==
    \/ ps = Posted(w, m) /\ proc[w].st # "ended" /\ UNCHANGED events
    \/ ps = Kill(proc, w) /\ IF proc[w].st = "ended" THEN UNCHANGED events ELSE Event

(* scheduleRestart *)
RestartScheduled == ~stopping /\ lastStartOptions' # None

(* rejectPendingStart of w: who waited for the start hears of it.  The app *)
(* quits when a start it asked for fails; a restart is tried again.        *)
RejectPendingStart(w) ==
    IF pendingStart # w THEN UNCHANGED <<pendingStart, startPromise, restartTimer, main>>
    ELSE /\ pendingStart' = None /\ startPromise' = {}
         /\ restartTimer' = (restartTimer \/ ("restart" \in startPromise /\ RestartScheduled))
         /\ main' = IF "user" \in startPromise THEN "failed" ELSE main

(* startCurrentOptions, and startWorker where nothing is under way. *)
StartCurrentOptions(by, ps) ==
    IF startPromise # {}
    THEN startPromise' = startPromise \cup {by} /\ proc' = ps
         /\ UNCHANGED <<child, pendingStart, listening>>
    ELSE \E w \in Workers :
           /\ ps[w].st = "none" /\ \A v \in Workers : v < w => ps[v].st # "none"
           /\ proc' = [ps EXCEPT ![w].st = "forked"]
           /\ child' = w /\ pendingStart' = w
           /\ startPromise' = {by}
           /\ listening' = listening \ {w}

-----------------------------------------------------------------------------
(* The main process *)

(* ensureBackend: at boot, or when macOS opens a window after the worker   *)
(* was lost.  A child that is there, starting or dying, is told of the     *)
(* directory; one that still counts as connected is used as it is.         *)
EnsureBackend ==
    /\ main \in {"none", "lost"} /\ ~stopping
    /\ lastStartOptions' = wanted /\ restartTimer' = FALSE
    /\ \E ps \in IF child = None THEN {proc} ELSE {Posted(child, SetDir(wanted)), Kill(proc, child)} :
         /\ IF child = None THEN UNCHANGED events ELSE PostOrKill(child, SetDir(wanted), ps)
         /\ IF connection # None
            THEN main' = "connected" /\ proc' = ps
                 /\ UNCHANGED <<startPromise, child, pendingStart, listening>>
            ELSE main' = "booting" /\ StartCurrentOptions("user", ps)
    /\ UNCHANGED <<wanted, connection, stopping, stop>>

(* Mutant: only the running worker hears of a new directory. *)
OptionsKept(d) == lastStartOptions
OptionsWith(d) == IF lastStartOptions = None THEN None ELSE d

(* reloadMainWindow after the store activated, reverted or quarantined a   *)
(* bundle: setClientDistDir.                                               *)
SetClientDistDir(d) ==
    /\ d # wanted /\ main # "quit"
    /\ wanted' = d
    /\ lastStartOptions' = OptionsWith(d)
    /\ Event
    /\ IF child = None THEN UNCHANGED proc
       ELSE \/ proc[child].st # "ended" /\ proc' = Posted(child, SetDir(d))
            \/ proc' = Kill(proc, child)
    /\ UNCHANGED <<main, child, connection, pendingStart, startPromise, restartTimer,
                   stopping, stop, listening>>

CancelStart(w) ==
    IF pendingStart # w THEN UNCHANGED <<pendingStart, startPromise>>
    ELSE pendingStart' = None /\ startPromise' = {}

(* The app quits: stop(), while it runs or after a start that failed. *)
Quit ==
    /\ main # "quit" /\ ~stopping
    /\ main' = "quit" /\ stopping' = TRUE
    /\ restartTimer' = FALSE /\ lastStartOptions' = None
    /\ child' = None /\ connection' = None
    /\ IF child = None
       THEN /\ stop' = [pc |-> "starting", child |-> None]
            /\ UNCHANGED <<proc, pendingStart, startPromise, events>>
       ELSE /\ stop' = [pc |-> "graceful", child |-> child]
            /\ CancelStart(child)
            /\ \/ UNCHANGED events /\ proc' = Posted(child, Shutdown)
               \/ Event /\ UNCHANGED proc
    /\ UNCHANGED <<wanted, listening>>

(* Mutant: the shutdown is waited for without a timeout. *)
StopWaits == FALSE /\ UNCHANGED vars
(* Mutant: a worker that does not answer the shutdown is left behind. *)
StopAbandons ==
    /\ stop.pc = "graceful"
    /\ stop' = NotStopping /\ stopping' = FALSE
    /\ UNCHANGED <<main, wanted, proc, child, connection, pendingStart, startPromise,
                   lastStartOptions, restartTimer, listening, events>>
StopTimesOut ==
    /\ stop.pc = "graceful" /\ proc[stop.child].st # "none"
    /\ stop' = [stop EXCEPT !.pc = "killing"]
    /\ proc' = Kill(proc, stop.child)
    /\ UNCHANGED <<main, wanted, child, connection, pendingStart, startPromise,
                   lastStartOptions, restartTimer, stopping, listening, events>>

(* "Failed to terminate": stop throws, and stopping is cleared all the same. *)
StopGivesUp ==
    /\ stop.pc = "killing" /\ proc[stop.child].st # "none" /\ Event
    /\ stop' = NotStopping /\ stopping' = FALSE
    /\ UNCHANGED <<main, wanted, proc, child, connection, pendingStart, startPromise,
                   lastStartOptions, restartTimer, listening>>

StopSeesExit ==
    /\ stop.pc \in {"graceful", "killing"} /\ proc[stop.child].st = "none"
    /\ stop' = [stop EXCEPT !.pc = "starting"]
    /\ UNCHANGED <<main, wanted, proc, child, connection, pendingStart, startPromise,
                   lastStartOptions, restartTimer, stopping, listening, events>>

StopEnds ==
    /\ stop.pc = "starting" /\ startPromise = {}
    /\ stop' = NotStopping /\ stopping' = FALSE
    /\ UNCHANGED <<main, wanted, proc, child, connection, pendingStart, startPromise,
                   lastStartOptions, restartTimer, listening, events>>

-----------------------------------------------------------------------------
(* Events of a worker *)

Spawned(w) ==
    /\ proc[w].st = "forked"
    /\ IF child # w \/ stopping \/ lastStartOptions = None
       THEN proc' = Kill([proc EXCEPT ![w].st = "spawned"], w) /\ UNCHANGED events
       ELSE \/ /\ UNCHANGED events
               /\ proc' = [proc EXCEPT ![w].st = "spawned",
                             ![w].inbox = Append(@, StartWith(lastStartOptions))]
            \/ Event /\ proc' = Kill([proc EXCEPT ![w].st = "spawned"], w)
    /\ UNCHANGED <<main, wanted, manager>>

Received(w) ==
    /\ proc[w].outbox # <<>>
    /\ UNCHANGED <<wanted, lastStartOptions, stopping, stop, events>>

Dropped(w) == [proc EXCEPT ![w].outbox = Tail(@)]

ListeningArrives(w) ==
    /\ Received(w) /\ Head(proc[w].outbox) = "listening"
    /\ proc' = Dropped(w)
    /\ IF child # w THEN UNCHANGED <<child, connection, pendingStart, startPromise, listening, main>>
       ELSE /\ listening' = listening \cup {w}
            /\ connection' = w
            /\ IF pendingStart = w
               THEN pendingStart' = None /\ startPromise' = {} /\ main' = "connected"
               ELSE UNCHANGED <<pendingStart, startPromise, main>>
            /\ UNCHANGED child
    /\ UNCHANGED restartTimer

FatalArrives(w) ==
    /\ Received(w) /\ Head(proc[w].outbox) = "fatal"
    /\ proc' = IF child = w THEN Kill(Dropped(w), w) ELSE Dropped(w)
    /\ IF child = w /\ w \notin listening THEN RejectPendingStart(w)
       ELSE UNCHANGED <<pendingStart, startPromise, restartTimer, main>>
    /\ UNCHANGED <<child, connection, listening>>

StartTimesOut(w) ==
    /\ pendingStart = w /\ Event
    /\ UNCHANGED lastStartOptions
    /\ RejectPendingStart(w)
    /\ proc' = Kill(proc, w)
    /\ UNCHANGED <<wanted, child, connection, stopping, stop, listening>>

(* The exit handler.  onUnexpectedExit looks the directory up again. *)
Exits(w) ==
    /\ proc[w].st = "ended"
    /\ proc' = [proc EXCEPT ![w] = NoProcess]
    /\ IF child = w THEN child' = None /\ connection' = None ELSE UNCHANGED <<child, connection>>
    /\ IF w \notin listening
       THEN UNCHANGED lastStartOptions /\ RejectPendingStart(w)
       ELSE /\ UNCHANGED <<pendingStart, startPromise>>
            /\ IF child # w \/ stopping THEN UNCHANGED <<lastStartOptions, restartTimer, main>>
               ELSE /\ main' = IF main = "connected" THEN "lost" ELSE main
                    /\ lastStartOptions' = OptionsWith(wanted)
                    /\ restartTimer' = (restartTimer \/ RestartScheduled)
    /\ UNCHANGED <<wanted, stopping, stop, listening, events>>

(* Mutant: a retry that finds the old worker still there is the last. *)
RetryOnce(busy) == FALSE
RetryAgain(busy) == busy /\ lastStartOptions # None

RestartTimerFires ==
    /\ restartTimer
    /\ IF stopping \/ connection # None \/ lastStartOptions = None
       THEN restartTimer' = FALSE /\ UNCHANGED <<proc, child, pendingStart, startPromise, listening>>
       ELSE IF child # None
       THEN restartTimer' = RetryAgain(TRUE)
            /\ UNCHANGED <<proc, child, pendingStart, startPromise, listening>>
       ELSE restartTimer' = FALSE /\ StartCurrentOptions("restart", proc)
    /\ UNCHANGED <<main, wanted, connection, lastStartOptions, stopping, stop, events>>

-----------------------------------------------------------------------------
(* The worker: backend-worker.ts *)

WorkerStep(w, p) ==
    /\ proc' = [proc EXCEPT ![w] = p]
    /\ UNCHANGED <<main, wanted, manager>>

Reads(w) ==
    /\ proc[w].st \in {"spawned", "starting", "serving", "ready"} /\ proc[w].inbox # <<>>
    /\ LET m == Head(proc[w].inbox)
           p == [proc[w] EXCEPT !.inbox = Tail(@)]
       IN  WorkerStep(w, IF m.type = "shutdown" THEN [p EXCEPT !.st = "ended"]
                         ELSE IF m.type = "start" THEN [p EXCEPT !.dir = m.dir, !.st = "starting"]
                         ELSE [p EXCEPT !.dir = m.dir])
    /\ UNCHANGED events

Listens(w) ==
    /\ proc[w].st = "starting"
    /\ WorkerStep(w, [proc[w] EXCEPT !.st = "serving", !.outbox = Append(@, "listening")])
    /\ UNCHANGED events

Indexes(w) ==
    /\ proc[w].st = "serving"
    /\ WorkerStep(w, [proc[w] EXCEPT !.st = "ready"])
    /\ UNCHANGED events

(* The server does not start, or the index fails: fatal, then exit. *)
Fails(w) ==
    /\ proc[w].st \in {"starting", "serving"} /\ Event
    /\ WorkerStep(w, [proc[w] EXCEPT !.st = "ended", !.outbox = Append(@, "fatal")])

Crashes(w) ==
    /\ Alive(w) /\ Event
    /\ WorkerStep(w, [proc[w] EXCEPT !.st = "ended"])

Dies(w) ==
    /\ Alive(w) /\ proc[w].killed
    /\ WorkerStep(w, [proc[w] EXCEPT !.st = "ended"])
    /\ UNCHANGED events

-----------------------------------------------------------------------------
Worker(w) ==
    \/ Reads(w) \/ Listens(w) \/ Indexes(w) \/ Dies(w)
    \/ Spawned(w) \/ ListeningArrives(w) \/ FatalArrives(w) \/ Exits(w)

Stopping == StopTimesOut \/ StopSeesExit \/ StopEnds

Next ==
    \/ EnsureBackend \/ Quit
    \/ \E d \in Dirs : SetClientDistDir(d)
    \/ StopGivesUp \/ Stopping \/ RestartTimerFires
    \/ \E w \in Workers : Worker(w) \/ Fails(w) \/ Crashes(w) \/ StartTimesOut(w)

Spec == Init /\ [][Next]_vars

(* Processes run and killed ones end, events are handled, timers fire, and *)
(* a failed start ends the app.                                            *)
FairSpec ==
    /\ Spec
    /\ \A w \in Workers : WF_vars(Worker(w))
    /\ WF_vars(Stopping) /\ WF_vars(RestartTimerFires)
    /\ WF_vars(main = "failed" /\ Quit)

-----------------------------------------------------------------------------
(* Properties *)

Mains == {"none", "booting", "connected", "lost", "failed", "quit"}
Messages == [type : {"set-client-dist-dir", "start", "shutdown"}, dir : Dirs \cup {None}]
Processes == [st : {"none", "forked", "spawned", "starting", "serving", "ready", "ended"},
              killed : BOOLEAN, dir : Dirs \cup {None},
              inbox : Seq(Messages), outbox : Seq({"listening", "fatal"})]
TypeOK ==
    /\ main \in Mains /\ wanted \in Dirs /\ lastStartOptions \in Dirs \cup {None}
    /\ proc \in [Workers -> Processes]
    /\ {child, connection, pendingStart} \subseteq Workers \cup {None}
    /\ stop \in [pc : {"none", "starting", "graceful", "killing"}, child : Workers \cup {None}]
    /\ startPromise \subseteq {"user", "restart"} /\ listening \subseteq Workers
    /\ restartTimer \in BOOLEAN /\ stopping \in BOOLEAN

(* No worker is forgotten (desktop-backend-manager.ts 128-162, 204): a     *)
(* process that runs is the manager's child, or was killed, or has a       *)
(* shutdown to read, or a stop still waits for it.                         *)
ToldToEnd(p) == \E i \in DOMAIN p.inbox : p.inbox[i].type = "shutdown"
NoLostWorker ==
    /\ TypeOK
    /\ \A w \in Workers :
         Alive(w) => w = child \/ w = stop.child \/ proc[w].killed \/ ToldToEnd(proc[w])

(* The directory a decision of the store left the app with is the one the  *)
(* worker has, or will have when it has read its messages: no activation   *)
(* or quarantine is lost to a worker that is being forked, restarted or    *)
(* replaced (desktop-backend-manager.ts 204-214).                          *)
WillServe(p, d) ==
    LET Names(i) == p.inbox[i].type # "shutdown"
    IN  \/ p.dir = d /\ \A i \in DOMAIN p.inbox : ~Names(i)
        \/ \E i \in DOMAIN p.inbox :
             /\ Names(i) /\ p.inbox[i].dir = d
             /\ \A k \in DOMAIN p.inbox : k > i => ~Names(k)
ServesNewest ==
    /\ lastStartOptions # None => lastStartOptions = wanted
    /\ child # None /\ proc[child].st \notin {"forked", "ended"} /\ ~proc[child].killed
         => WillServe(proc[child], wanted)

(* No worker is lost, and the newest directory is not lost to any.         *)
BackendIsSound == NoLostWorker /\ ServesNewest

(* A connection that was lost comes back, whatever the replacement does in *)
(* between, or the app quits.                                              *)
EventuallyRestored == main \in {"booting", "lost"} ~> main \in {"connected", "quit"}

(* Quitting never waits for a start, an exit or a kill for ever. *)
StopReturns == stopping ~> ~stopping
=============================================================================
