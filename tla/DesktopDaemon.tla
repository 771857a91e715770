---------------------------- MODULE DesktopDaemon ----------------------------
(***************************************************************************)
(* The desktop app's daemon manager (desktop-daemon-manager.ts), the       *)
(* utility process it forks (daemon-worker.ts), and the CLI daemon that    *)
(* may run instead: who serves the plans of this machine, and what starts, *)
(* stops and restarts it.                                                  *)
(*                                                                         *)
(* The manager is one JavaScript thread: an action is what it does between *)
(* two awaits.  Timers may fire as soon as they are set.  The start lock   *)
(* is the mutex StartLock promises, and its holder's death frees it.       *)
(* A token is not told from another: `creds` says whether there is one.    *)
(* A worker with a handler for SIGTERM may finish what it does before it   *)
(* ends; before it has booted it has none and ends at once.                *)
(***************************************************************************)
EXTENDS CliDaemon

CONSTANT MaxCrashes    \* bound on crashes and restarts of the app

ASSUME CrashesAssumption == MaxCrashes \in Nat

VARIABLES
    creds,       \* latestCredentials is there
    child,       \* the worker this app owns
    childBooted,
    timedOut,    \* the child's boot timer has fired
    start,       \* startPromise: where start() is
    awaited,     \* the orphan start() waits for
    stop,        \* stopPromise: where stopChild() is
    stopping,
    restart,     \* restartTimer is set
    monitor,     \* externalStateTimer is set
    status,      \* state.status
    events,      \* the child's messages on their way to the manager
    crashes

starting == <<start, awaited>>
manager == <<creds, child, childBooted, timedOut, starting, stop, stopping,
             restart, monitor, status>>
workers == <<proc, orphans, doomed, events>>
vars == <<manager, workers, machine, crashes>>

Init ==
    /\ CliInit
    /\ creds = FALSE /\ child = NoOne /\ childBooted = FALSE /\ timedOut = FALSE
    /\ start = "none" /\ awaited = NoOne
    /\ stop = "none" /\ stopping = FALSE
    /\ restart = FALSE /\ monitor = FALSE
    /\ status = "idle"
    /\ events = <<>> /\ crashes = 0

(* A daemon whose parent is gone, as the pid file shows it. *)
Orphan ==
    IF pid.owner \in orphans THEN pid.owner
    ELSE IF pid.owner = Cli /\ ~Runs(Cli) /\ Runs(pid.worker) THEN pid.worker
    ELSE NoOne

-----------------------------------------------------------------------------
(* Starting *)

(* scheduleRestart; a timer that is set stays set. *)
ScheduleRestart == restart' = (restart \/ creds)

(* startPromise rejects: the lock is released, and unless a stop began     *)
(* this is an error to recover from.                                       *)
StartFails ==
    /\ start' = "none" /\ awaited' = NoOne
    /\ lock' = IF start = "boot" THEN "free" ELSE lock
    /\ IF stopping THEN UNCHANGED <<status, restart>>
       ELSE status' = "error" /\ ScheduleRestart

(* ensureRunning up to the first await of start(). *)
BeginStart ==
    /\ creds' = TRUE
    /\ status' = "starting"
    /\ awaited' = Orphan
    /\ start' = IF Orphan = NoOne THEN "lock" ELSE "orphan"

Startable == start = "none" /\ child = NoOne

(* Of a start that is on, or a child, ensureRunning only posts credentials. *)
EnsureRunning ==
    /\ ~stopping /\ Startable
    /\ BeginStart
    /\ UNCHANGED <<child, childBooted, timedOut, stop, stopping, restart, monitor>>
    /\ UNCHANGED <<workers, machine, crashes>>

OrphanGone ==
    /\ start = "orphan" /\ ~Runs(awaited) /\ ~stopping
    /\ start' = "lock" /\ awaited' = NoOne
    /\ UNCHANGED <<creds, child, childBooted, timedOut, stop, stopping, restart, monitor, status>>
    /\ UNCHANGED <<workers, machine, crashes>>

(* The orphan outlives its grace, a stop begins, or the lock stays taken. *)
StartGivesUp ==
    /\ \/ start = "orphan" /\ (stopping \/ Runs(awaited))
       \/ start = "lock" /\ (stopping \/ lock # "free")
    /\ StartFails
    /\ UNCHANGED <<creds, child, childBooted, timedOut, stop, stopping, monitor>>
    /\ UNCHANGED <<workers, supervisor, command, pid, crashes>>

(* Mutant: a daemon that is ready is not watched. *)
WatchUntilReady == monitor' = ~pid.ready

WatchDaemon == monitor' = TRUE

(* The lock is taken and released in the same turn. *)
StartFindsDaemon ==
    /\ start = "lock" /\ lock = "free" /\ ~stopping
    /\ DaemonRuns
    /\ status' = IF pid.ready THEN "ready" ELSE "indexing"
    /\ WatchDaemon
    /\ start' = "none"
    /\ UNCHANGED <<creds, child, childBooted, timedOut, awaited, stop, stopping, restart>>
    /\ UNCHANGED <<workers, machine, crashes>>

(* Mutant: the lock is released once the worker is forked. *)
LockNotHeld == UNCHANGED lock

(* The lock is held until the worker has booted or failed. *)
HoldStartLock == lock' = "start"

ForkWorker ==
    /\ start = "lock" /\ lock = "free" /\ ~stopping
    /\ ~DaemonRuns
    /\ creds
    /\ pid' = NoPid
    /\ AnyFree(Workers)
    /\ child' = Free(Workers)
    /\ proc' = [proc EXCEPT ![child'] = "forked"]
    /\ childBooted' = FALSE /\ timedOut' = FALSE /\ events' = <<>>
    /\ monitor' = FALSE
    /\ HoldStartLock
    /\ start' = "boot"
    /\ UNCHANGED <<creds, awaited, stop, stopping, restart, status>>
    /\ UNCHANGED <<orphans, doomed, supervisor, command, crashes>>

-----------------------------------------------------------------------------
(* The child's events and timers *)

UnchangedByEvents == UNCHANGED <<creds, timedOut, stop, stopping, monitor, orphans, supervisor, command, crashes>>

(* 'spawn': the worker is told to start.  A child that is to be killed     *)
(* here was killed before.                                                 *)
Spawned ==
    /\ child # NoOne /\ proc[child] = "forked" /\ child \notin doomed
    /\ proc' = [proc EXCEPT ![child] = "told"]
    /\ UNCHANGED <<manager, orphans, doomed, events, machine, crashes>>

Handle(message) ==
    /\ child # NoOne /\ events # <<>> /\ Head(events) = message
    /\ events' = Tail(events)
    /\ UnchangedByEvents /\ UNCHANGED <<child, pid>>

BootCounts == start = "boot" /\ ~timedOut

BootAccepted ==
    /\ Handle("booted")
    /\ BootCounts
    /\ childBooted' = TRUE
    /\ status' = "starting"
    /\ start' = "none" /\ lock' = "free"
    /\ UNCHANGED <<awaited, restart, proc, doomed>>

BootIgnored ==
    /\ Handle("booted")
    /\ ~BootCounts
    /\ UNCHANGED <<childBooted, status, starting, restart, proc, doomed, lock>>

(* 'status' and 'ready' *)
Progress ==
    /\ \/ Handle("indexing") \/ Handle("ready")
    /\ status' = IF childBooted /\ ~stopping THEN Head(events) ELSE status
    /\ UNCHANGED <<childBooted, starting, restart, proc, doomed, lock>>

(* 'fatal': the worker ends itself, too. *)
Fatal ==
    /\ Handle("fatal")
    /\ doomed' = doomed \cup {child}
    /\ IF start = "boot" THEN StartFails
       ELSE status' = "error" /\ UNCHANGED <<starting, restart, lock>>
    /\ UNCHANGED <<childBooted, proc>>

(* 'token-rotated', of an app that still has a session *)
TokenRotated ==
    /\ child # NoOne
    /\ proc[child] \in {"booted", "ready"} \/ (proc[child] = "dead" /\ pid.owner = child)
    /\ creds' = TRUE
    /\ UNCHANGED <<child, childBooted, timedOut, starting, stop, stopping, restart, monitor, status>>
    /\ UNCHANGED <<workers, machine, crashes>>

(* 'exit' may overtake messages, which are then not heard. *)
ChildGone ==
    /\ child # NoOne /\ proc[child] = "dead"
    /\ proc' = [proc EXCEPT ![child] = "free"]
    /\ doomed' = doomed \ {child}
    /\ events' = <<>>
    /\ child' = NoOne /\ childBooted' = FALSE
    /\ UnchangedByEvents

Terminating == stop \in {"shutdown", "kill"}

ExitBeforeBoot ==
    /\ start = "boot"
    /\ ChildGone
    /\ StartFails
    /\ UNCHANGED pid

(* Mutant: no restart after an exit the manager did not ask for. *)
NoRestart == UNCHANGED restart

RestartAfterExit == ScheduleRestart

ExitUnexpected ==
    /\ childBooted /\ ~stopping
    /\ ChildGone
    /\ status' = "error"
    /\ RestartAfterExit
    /\ UNCHANGED <<starting, lock, pid>>

(* The start had failed already, or a stop waits for its turn or gave up. *)
ExitUnheard ==
    /\ start # "boot" /\ ~Terminating /\ (stopping \/ ~childBooted)
    /\ ChildGone
    /\ UNCHANGED <<status, restart, starting, lock, pid>>

BootTimeout ==
    /\ BootCounts
    /\ timedOut' = TRUE
    /\ doomed' = doomed \cup {child}
    /\ UNCHANGED <<creds, child, childBooted, starting, stop, stopping, restart, monitor, status>>
    /\ UNCHANGED <<proc, orphans, events, machine, crashes>>

KillTimeout ==
    /\ start = "boot" /\ timedOut
    /\ StartFails
    /\ UNCHANGED <<creds, child, childBooted, timedOut, stop, stopping, monitor>>
    /\ UNCHANGED <<workers, supervisor, command, pid, crashes>>

(* With a child that has not booted the timer only sets itself again. *)
RestartTimer ==
    /\ restart /\ (child = NoOne \/ childBooted)
    /\ restart' = FALSE
    /\ IF Startable THEN BeginStart ELSE UNCHANGED <<creds, status, starting>>
    /\ UNCHANGED <<child, childBooted, timedOut, stop, stopping, monitor>>
    /\ UNCHANGED <<workers, machine, crashes>>

(* monitorExternalDaemon *)
Poll ==
    /\ monitor
    /\ IF child # NoOne THEN monitor' = FALSE /\ UNCHANGED <<status, restart>>
       ELSE IF DaemonRuns THEN /\ status' = IF pid.ready THEN "ready" ELSE "indexing"
                               /\ UNCHANGED <<monitor, restart>>
       ELSE /\ status' = "error"
            /\ monitor' = FALSE
            /\ ScheduleRestart
    /\ UNCHANGED <<creds, child, childBooted, timedOut, starting, stop, stopping>>
    /\ UNCHANGED <<workers, machine, crashes>>

-----------------------------------------------------------------------------
(* Stopping *)

ClearTimers == restart' = FALSE /\ monitor' = FALSE

(* stop() up to its first await; a stop that is on is joined.  A boot that *)
(* is on is cancelled: its start rejects and its worker is killed.         *)
Stop ==
    /\ stop = "none"
    /\ stopping' = TRUE /\ status' = "stopping" /\ creds' = FALSE
    /\ ClearTimers
    /\ IF start = "boot"
       THEN /\ start' = "none" /\ lock' = "free"
            /\ doomed' = doomed \cup {child}
       ELSE UNCHANGED <<start, lock, doomed>>
    /\ stop' = IF start \in {"orphan", "lock"} THEN "wait" ELSE "lock"
    /\ UNCHANGED <<child, childBooted, timedOut, awaited>>
    /\ UNCHANGED <<proc, orphans, events, supervisor, command, pid, crashes>>

StopWaited ==
    /\ stop = "wait" /\ start = "none"
    /\ stop' = "lock"
    /\ UNCHANGED <<creds, child, childBooted, timedOut, starting, stopping, restart, monitor, status>>
    /\ UNCHANGED <<workers, machine, crashes>>

(* The finally of stopChild: while a child is left the stop stays on. *)
StopEnds(left) ==
    /\ stop' = "none"
    /\ stopping' = left
    /\ status' = IF left THEN status ELSE "idle"

StopNothing ==
    /\ stop = "lock" /\ lock = "free" /\ child = NoOne
    /\ StopEnds(FALSE)
    /\ UNCHANGED <<creds, child, childBooted, timedOut, starting, restart, monitor>>
    /\ UNCHANGED <<workers, machine, crashes>>

StopShutdown ==
    /\ stop = "lock" /\ lock = "free" /\ child # NoOne
    /\ stop' = "shutdown" /\ lock' = "stop"
    /\ doomed' = doomed \cup {child}
    /\ UNCHANGED <<creds, child, childBooted, timedOut, starting, stopping, restart, monitor, status>>
    /\ UNCHANGED <<proc, orphans, events, supervisor, command, pid, crashes>>

(* Another process has the lock for longer than the start timeout. *)
StopLockTimeout ==
    /\ stop = "lock" /\ lock # "free"
    /\ StopEnds(child # NoOne)
    /\ UNCHANGED <<creds, child, childBooted, timedOut, starting, restart, monitor>>
    /\ UNCHANGED <<workers, machine, crashes>>

StopGraceOver ==
    /\ stop = "shutdown"
    /\ stop' = "kill"
    /\ UNCHANGED <<creds, child, childBooted, timedOut, starting, stopping, restart, monitor, status>>
    /\ UNCHANGED <<workers, machine, crashes>>

StopKillTimeout ==
    /\ stop = "kill"
    /\ StopEnds(TRUE)
    /\ lock' = "free"
    /\ UNCHANGED <<creds, child, childBooted, timedOut, starting, restart, monitor>>
    /\ UNCHANGED <<workers, supervisor, command, pid, crashes>>

StopExited ==
    /\ Terminating
    /\ child # NoOne /\ proc[child] = "dead"
    /\ proc' = [proc EXCEPT ![child] = "free"]
    /\ doomed' = doomed \ {child}
    /\ events' = <<>>
    /\ child' = NoOne /\ childBooted' = FALSE
    /\ RemovePid(child)
    /\ lock' = "free"
    /\ StopEnds(FALSE)
    /\ UNCHANGED <<creds, timedOut, starting, restart, monitor, orphans, supervisor, command, crashes>>

-----------------------------------------------------------------------------
(* The worker, and the app that goes away *)

Post(w, messages) == events' = IF w = child THEN events \o messages ELSE events

WorkerBoots(w) ==
    /\ proc[w] = "told" /\ w \notin doomed
    /\ proc' = [proc EXCEPT ![w] = "booted"]
    /\ pid' = [owner |-> w, ready |-> FALSE, worker |-> NoOne]
    /\ Post(w, <<"booted", "indexing">>)
    /\ UNCHANGED <<manager, orphans, doomed, supervisor, command, lock, crashes>>

WorkerReady(w) ==
    /\ proc[w] = "booted"
    /\ proc' = [proc EXCEPT ![w] = "ready"]
    /\ pid' = [owner |-> w, ready |-> TRUE, worker |-> NoOne]
    /\ Post(w, <<"ready">>)
    /\ UNCHANGED <<manager, orphans, doomed, supervisor, command, lock, crashes>>

WorkerEnds(w) ==
    /\ Alive(w)
    /\ IF w \in orphans
       THEN /\ proc' = [proc EXCEPT ![w] = "free"]
            /\ orphans' = orphans \ {w} /\ doomed' = doomed \ {w}
       ELSE proc' = [proc EXCEPT ![w] = "dead"] /\ UNCHANGED <<orphans, doomed>>
    /\ \/ UNCHANGED events
       \/ w \notin orphans /\ proc[w] \in {"booted", "ready"} /\ Post(w, <<"fatal">>)
    /\ UNCHANGED <<manager, machine, crashes>>

(* The app crashes or quits and is started again.  A worker that booted    *)
(* finds out by its watchdog; another ends with the app.                   *)
AppRestarts ==
    /\ crashes < MaxCrashes /\ crashes' = crashes + 1
    /\ creds' = FALSE /\ child' = NoOne /\ childBooted' = FALSE /\ timedOut' = FALSE
    /\ start' = "none" /\ awaited' = NoOne
    /\ stop' = "none" /\ stopping' = FALSE
    /\ restart' = FALSE /\ monitor' = FALSE /\ status' = "idle"
    /\ LET left == {w \in Workers : proc[w] \in {"booted", "ready"}}
       IN  /\ proc' = [w \in DOMAIN proc |->
                         IF w \in Workers \ left THEN "free" ELSE proc[w]]
           /\ orphans' = (orphans \ Workers) \cup left
           /\ doomed' = (doomed \ Workers) \cup left
    /\ events' = <<>>
    /\ lock' = IF lock = "cli" THEN lock ELSE "free"
    /\ UNCHANGED <<supervisor, command, pid>>

-----------------------------------------------------------------------------
(* The CLI beside the app *)

ExternalDaemon == CliNext /\ UNCHANGED <<manager, events, crashes>>

Next ==
    \/ EnsureRunning \/ OrphanGone \/ StartGivesUp \/ StartFindsDaemon \/ ForkWorker
    \/ Spawned \/ BootAccepted \/ BootIgnored \/ Progress \/ Fatal \/ TokenRotated
    \/ ExitBeforeBoot \/ ExitUnexpected \/ ExitUnheard \/ BootTimeout \/ KillTimeout
    \/ RestartTimer \/ Poll
    \/ Stop \/ StopWaited \/ StopNothing \/ StopShutdown \/ StopLockTimeout
    \/ StopGraceOver \/ StopKillTimeout \/ StopExited
    \/ \E w \in Workers : WorkerBoots(w) \/ WorkerReady(w) \/ WorkerEnds(w)
    \/ AppRestarts
    \/ ExternalDaemon

Spec == Init /\ [][Next]_vars

(* Timers fire and events are served; a process that is told to end ends;  *)
(* a CLI command gives the lock back.  A boot that is tried again and      *)
(* again succeeds some time before its timeout, and a lock that is free    *)
(* again and again is got.                                                 *)
DoomedEnds(w) == w \in doomed /\ WorkerEnds(w)
Exit == ExitBeforeBoot \/ ExitUnexpected \/ ExitUnheard \/ StopExited

Fairness ==
    /\ WF_vars(OrphanGone \/ StartGivesUp \/ StartFindsDaemon)
    /\ SF_vars(ForkWorker)
    /\ SF_vars(Spawned) /\ SF_vars(BootAccepted)
    /\ WF_vars(BootIgnored \/ Progress \/ Fatal)
    /\ WF_vars(Exit)
    /\ WF_vars(KillTimeout) /\ WF_vars(RestartTimer) /\ WF_vars(Poll)
    /\ WF_vars(StopWaited \/ StopNothing \/ StopShutdown \/ StopLockTimeout)
    /\ WF_vars(StopGraceOver \/ StopKillTimeout)
    /\ \A w \in Workers : SF_vars(WorkerBoots(w)) /\ WF_vars(DoomedEnds(w))
    /\ WF_vars(ExternalDaemon /\ Commands)
    /\ \A c \in CliWorkers : WF_vars(ExternalDaemon /\ CliOrphanEnds(c))

FairSpec == Spec /\ Fairness

-----------------------------------------------------------------------------
(* Properties *)

TypeOK ==
    /\ MachineTypeOK
    /\ creds \in BOOLEAN /\ childBooted \in BOOLEAN /\ timedOut \in BOOLEAN
    /\ child \in Workers \cup {NoOne}
    /\ start \in {"none", "orphan", "lock", "boot"}
    /\ awaited \in Workers \cup CliWorkers \cup {NoOne}
    /\ stop \in {"none", "wait", "lock", "shutdown", "kill"}
    /\ stopping \in BOOLEAN /\ restart \in BOOLEAN /\ monitor \in BOOLEAN
    /\ status \in {"idle", "starting", "indexing", "ready", "stopping", "error"}
    /\ events \in Seq({"booted", "indexing", "ready", "fatal"})
    /\ crashes \in 0 .. MaxCrashes

(* The app never loses a worker: one that runs is the child it can stop,   *)
(* however a start ended (a boot timeout with a kill that has no effect,   *)
(* a cancelled boot, a retry).                                             *)
NoLostWorker ==
    \A w \in Workers : proc[w] # "free" /\ w \notin orphans => w = child

(* One process serves the machine: never two workers at once, and no       *)
(* supervisor that would start one beside the app's, whatever crashed, was *)
(* orphaned or restarted before.  A worker that was told to end, or whose  *)
(* parent is gone, is on its way out.                                      *)
Serves(w) == proc[w] \in {"booted", "ready"} /\ w \notin doomed
OneDaemon ==
    /\ \A v, w \in Workers \cup CliWorkers : Serves(v) /\ Serves(w) => v = w
    /\ (\E w \in Workers : Serves(w)) => sup = "down" \/ Stopping \/ sup = "killed"

(* A daemon that runs is in the pid file, where agendex stop, agendex      *)
(* status and another start find it, or a command that holds the lock is   *)
(* about to see to it.                                                     *)
DaemonIsFindable ==
    /\ Runs(Cli) => pid.owner = Cli \/ lock = "cli"
    /\ child # NoOne /\ proc[child] \in {"booted", "ready"} => pid.owner = child \/ Runs(Cli)

(* "CLI start and stop terminate both supervisor and worker"               *)
(* (cli-daemon-lifecycle.test.ts): when agendex stop says that the daemon  *)
(* was stopped, and until it gives the lock back, neither that daemon nor  *)
(* its worker is there, no supervisor runs and no worker serves, whatever  *)
(* the supervisor and the app were about to start when it was told.        *)
StopIsTrue ==
    command.op = "stopped" =>
        /\ ~Runs(command.at) /\ ~Runs(command.worker) /\ ~Runs(Cli)
        /\ \A w \in Workers \cup CliWorkers : ~Serves(w)

(* After a stop that ended well nothing of the daemon is left in the app:  *)
(* no process, no start, no timer that would bring one back.               *)
IdleIsQuiet ==
    status = "idle" =>
        /\ child = NoOne /\ start = "none"
        /\ ~restart /\ ~monitor
        /\ lock \notin {"start", "stop"}

(* At any time: one daemon, which somebody owns, the pid file finds and an *)
(* idle manager has nothing to do with.                                    *)
DaemonIsSafe == TypeOK /\ NoLostWorker /\ OneDaemon /\ DaemonIsFindable /\ StopIsTrue
                /\ IdleIsQuiet

(* Once the app wants the daemon and is not stopping it, and nobody is     *)
(* using the CLI for ever, the CLI's daemon runs or the app's worker boots *)
(* again and again, after every crash, failed boot, orphan or contention.  *)
EventuallyServed ==
    <>[](lock # "cli")
        => []<>(Runs(Cli) \/ childBooted \/ ~creds \/ stopping \/ status = "idle")

(* "a later crash cannot leave the renderer claiming sync is connected     *)
(* forever" (desktop-daemon-manager.ts).                                   *)
StatusIsHonest ==
    []<>(status \in {"ready", "indexing"} => Runs(Cli) \/ (childBooted /\ Alive(child)))
=============================================================================
