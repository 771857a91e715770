------------------------------ MODULE CliDaemon ------------------------------
(***************************************************************************)
(* The CLI's daemon, and what any launcher sees of a machine: the          *)
(* processes, the pid file and the start lock (pid.ts), the commands       *)
(* agendex start and agendex stop (cli.ts) and the supervisor with its     *)
(* worker (startSupervisor of daemon.ts).                                  *)
(*                                                                         *)
(* A command is what the holder of the lock does; between two of its waits *)
(* it is one step, and every wait may time out.  The lock is the mutex     *)
(* StartLock promises, and its holder's death frees it.  A process that    *)
(* was told to end (`doomed`) may finish what it does before.              *)
(***************************************************************************)
EXTENDS Naturals, Sequences, FiniteSets

CONSTANTS
    Workers,      \* process identities of the app's workers, used again
    CliWorkers,   \* those of the supervisor's workers
    Cli,          \* the supervisor
    NoOne,        \* no process
    OrphansSeen,  \* the process list shows the arguments of an app's worker
    MaxRestarts   \* MAX_RESTARTS within RESTART_WINDOW_MS

ASSUME ProcessesAssumption ==
    /\ Cli # NoOne /\ Workers \cap CliWorkers = {}
    /\ {Cli, NoOne} \cap (Workers \cup CliWorkers) = {}
ASSUME RestartsAssumption == MaxRestarts \in Nat

VARIABLES
    proc,        \* worker -> what its process has done
    orphans,     \* workers whose app or supervisor is gone
    doomed,      \* workers that were told to end or killed, and orphans
    sup,         \* the supervisor's process
    worker,      \* workerProc: the worker it waits for
    restarts,    \* restartTimes
    pid,         \* the pid file
    lock,        \* who holds the start lock
    command      \* the CLI command that holds it, and the daemon it is about

supervisor == <<sup, worker, restarts>>
machine == <<supervisor, pid, lock, command>>

NoPid == [owner |-> NoOne, ready |-> FALSE, worker |-> NoOne]
NoCommand == [op |-> "none", at |-> NoOne, worker |-> NoOne]

Alive(w) == proc[w] \notin {"free", "dead"}
AnyFree(S) == \E w \in S : proc[w] = "free"
Free(S) == CHOOSE w \in S : proc[w] = "free"    \* which one makes no difference
Runs(p) == IF p = Cli THEN sup # "down" ELSE p # NoOne /\ Alive(p)

(* isDaemonPidInfoRunning: the pid file names a process that runs and looks *)
(* like a daemon, by its arguments or because its app is there.            *)
DaemonRuns == Runs(pid.owner) /\ (OrphansSeen \/ pid.owner \notin orphans)

RemovePid(owner) == pid' = IF pid.owner = owner THEN NoPid ELSE pid

-----------------------------------------------------------------------------
(* The supervisor *)

HasWorker == worker # NoOne

(* `stopping`; it is ending when it hears its worker no more *)
Stopping == sup \in {"stopping", "ending"}

SpawnWorker ==
    /\ sup \in {"booting", "waiting"}
    /\ AnyFree(CliWorkers)
    /\ worker' = Free(CliWorkers)
    /\ proc' = [proc EXCEPT ![worker'] = "booted"]
    /\ pid' = [owner |-> Cli, ready |-> FALSE, worker |-> worker']
    /\ sup' = "starting"
    /\ UNCHANGED <<orphans, doomed, restarts, lock, command>>

(* A worker that was told to end may still report that it is ready; after  *)
(* the supervisor's timeout it is not heard.                               *)
WorkerReports ==
    /\ HasWorker /\ proc[worker] = "booted"
    /\ proc' = [proc EXCEPT ![worker] = "ready"]
    /\ IF sup \in {"starting", "stopping"}
       THEN /\ sup' = IF sup = "starting" THEN "ready" ELSE sup
            /\ pid' = [owner |-> Cli, ready |-> TRUE, worker |-> worker]
       ELSE UNCHANGED <<sup, pid>>
    /\ UNCHANGED <<orphans, doomed, worker, restarts, lock, command>>

ReadyTimeout ==
    /\ sup = "starting"
    /\ sup' = "failing" /\ doomed' = doomed \cup {worker}
    /\ UNCHANGED <<proc, orphans, worker, restarts, pid, lock, command>>

SupervisorEnds == sup' = "down" /\ restarts' = 0

(* The worker is gone: restarts that are older than the window are         *)
(* forgotten, and with too many of them the supervisor gives up.           *)
AfterExit ==
    IF Stopping THEN SupervisorEnds /\ RemovePid(Cli)
    ELSE IF sup = "killed" THEN UNCHANGED <<sup, restarts, pid>>
    ELSE \E n \in 1 .. restarts + 1 :
           IF n > MaxRestarts THEN SupervisorEnds /\ RemovePid(Cli)
           ELSE sup' = "waiting" /\ restarts' = n /\ UNCHANGED pid

WorkerExits ==
    /\ HasWorker
    /\ proc' = [proc EXCEPT ![worker] = "free"]
    /\ doomed' = doomed \ {worker} /\ worker' = NoOne
    /\ AfterExit
    /\ UNCHANGED <<orphans, lock, command>>

(* The loop ends without a worker to wait for. *)
StoppedBetweenWorkers ==
    /\ Stopping /\ ~HasWorker
    /\ SupervisorEnds /\ RemovePid(Cli)
    /\ UNCHANGED <<proc, orphans, doomed, worker, lock, command>>

(* It is killed or crashes: its worker's watchdog will notice. *)
SupervisorDies ==
    /\ sup # "down"
    /\ SupervisorEnds /\ worker' = NoOne
    /\ LET left == {worker} \ {NoOne}
       IN  orphans' = orphans \cup left /\ doomed' = doomed \cup left
    /\ UNCHANGED <<proc, pid, lock, command>>

CliOrphanEnds(c) ==
    /\ c \in orphans
    /\ proc' = [proc EXCEPT ![c] = "free"]
    /\ orphans' = orphans \ {c} /\ doomed' = doomed \ {c}
    /\ UNCHANGED machine

(* SIGTERM, or a stop request on Windows: before the supervisor has a      *)
(* handler the one ends it and the other is cleared.                       *)
TellSupervisor ==
    /\ \/ /\ sup \notin {"booting", "killed"}
          /\ sup' = IF sup \in {"failing", "ending"} THEN "ending" ELSE "stopping"
          /\ doomed' = doomed \cup ({worker} \ {NoOne})
          /\ UNCHANGED restarts
       \/ sup = "booting" /\ SupervisorEnds /\ UNCHANGED doomed
       \/ sup \in {"booting", "killed"} /\ UNCHANGED <<sup, restarts, doomed>>
    /\ UNCHANGED worker

-----------------------------------------------------------------------------
(* What the commands have in common *)

Take(op) ==
    /\ lock' = "cli"
    /\ command' = [op |-> op, at |-> pid.owner, worker |-> pid.worker]
Step(op) == command' = [command EXCEPT !.op = op] /\ UNCHANGED lock
Release == lock' = "free" /\ command' = NoCommand

(* The recorded worker of a supervisor that may be gone. *)
RecordedWorkerRuns == pid.owner = Cli /\ Runs(pid.worker)
Awaited == IF command.at = Cli THEN command.worker ELSE command.at

-----------------------------------------------------------------------------
(* agendex start *)

SpawnSupervisor(owner) ==
    /\ sup = "down"
    /\ sup' = "booting" /\ restarts' = 0
    /\ RemovePid(owner)
    /\ lock' = "cli"
    /\ command' = [op |-> "wait", at |-> Cli, worker |-> NoOne]
    /\ UNCHANGED worker

MustDrain == (DaemonRuns /\ pid.owner \in orphans) \/ (~DaemonRuns /\ RecordedWorkerRuns)

(* With a daemon that runs the command ends as it began. *)
StartCommand ==
    /\ lock = "free"
    /\ IF MustDrain
       THEN Take("drain") /\ UNCHANGED <<supervisor, pid>>
       ELSE ~DaemonRuns /\ SpawnSupervisor(pid.owner)
    /\ UNCHANGED <<proc, orphans, doomed>>

StartDrained ==
    /\ command.op = "drain" /\ ~Runs(Awaited)
    /\ SpawnSupervisor(command.at)
    /\ UNCHANGED <<proc, orphans, doomed>>

Started ==
    /\ command.op = "wait"
    /\ pid.owner = Cli /\ pid.ready /\ Runs(Cli) /\ Runs(pid.worker)
    /\ Release
    /\ UNCHANGED <<proc, orphans, doomed, supervisor, pid>>

(* stopFailedDaemonStart: the supervisor, then the worker it had recorded. *)
StartFailed ==
    /\ command.op = "wait"
    /\ command' = [op |-> IF Runs(Cli) THEN "term" ELSE "reap", at |-> Cli,
                   worker |-> IF pid.owner = Cli THEN pid.worker ELSE NoOne]
    /\ IF Runs(Cli) THEN TellSupervisor ELSE UNCHANGED <<supervisor, doomed>>
    /\ UNCHANGED <<proc, orphans, pid, lock>>

ForceKill ==
    /\ command.op = "term" /\ Runs(Cli)
    /\ sup' = "killed"
    /\ Step("kill")
    /\ UNCHANGED <<proc, orphans, doomed, worker, restarts, pid>>

StartReaps ==
    /\ command.op \in {"term", "kill"} /\ ~Runs(Cli)
    /\ Step("reap")
    /\ UNCHANGED <<proc, orphans, doomed, supervisor, pid>>

StartCleaned ==
    /\ command.op = "reap" /\ ~Runs(command.worker)
    /\ RemovePid(Cli)
    /\ Release
    /\ UNCHANGED <<proc, orphans, doomed, supervisor>>

(* What cannot be killed is put into the pid file. *)
StartLeaves ==
    /\ \/ command.op = "kill" /\ Runs(Cli)
       \/ command.op = "reap" /\ Runs(command.worker)
    /\ pid' = IF pid.owner = Cli THEN pid
              ELSE [owner |-> Cli, ready |-> FALSE, worker |-> NoOne]
    /\ Release
    /\ UNCHANGED <<proc, orphans, doomed, supervisor>>

-----------------------------------------------------------------------------
(* agendex stop *)

StopCommand ==
    /\ lock = "free" /\ pid.owner # NoOne
    /\ IF DaemonRuns
       THEN /\ Take("stop") /\ UNCHANGED <<pid, proc, orphans>>
            /\ IF pid.owner = Cli THEN TellSupervisor
               ELSE doomed' = doomed \cup {pid.owner} /\ UNCHANGED supervisor
       ELSE /\ UNCHANGED <<supervisor, proc, orphans, doomed>>
            /\ IF RecordedWorkerRuns THEN Take("clear") /\ UNCHANGED pid
               ELSE pid' = NoPid /\ UNCHANGED <<lock, command>>

(* Mutant: the daemon's worker is not waited for. *)
DaemonGone == ~Runs(command.at)
StopIsOver == ~Runs(command.at) /\ ~Runs(command.worker)

(* The stop was told; it then tells the cloud, with the lock. *)
Stopped ==
    /\ command.op = "stop" /\ StopIsOver
    /\ RemovePid(command.at)
    /\ Step("stopped")
    /\ UNCHANGED <<proc, orphans, doomed, supervisor>>

Cleared ==
    /\ command.op = "clear" /\ ~Runs(command.worker)
    /\ RemovePid(command.at)
    /\ Release
    /\ UNCHANGED <<proc, orphans, doomed, supervisor>>

(* A command whose wait is over, that has told the cloud, or that is       *)
(* killed; not while a supervisor it started has left no record.           *)
CommandEnds ==
    /\ command.op # "none" /\ (Runs(Cli) => pid.owner = Cli)
    /\ Release
    /\ UNCHANGED <<proc, orphans, doomed, supervisor, pid>>

-----------------------------------------------------------------------------
CliInit ==
    /\ proc = [w \in Workers \cup CliWorkers |-> "free"]
    /\ orphans = {} /\ doomed = {}
    /\ sup = "down" /\ worker = NoOne /\ restarts = 0
    /\ pid = NoPid /\ lock = "free" /\ command = NoCommand

Commands ==
    \/ StartDrained \/ Started \/ StartFailed \/ ForceKill \/ StartReaps \/ StartCleaned
    \/ StartLeaves \/ Stopped \/ Cleared \/ CommandEnds

CliNext ==
    \/ SpawnWorker \/ WorkerReports \/ ReadyTimeout \/ WorkerExits \/ StoppedBetweenWorkers
    \/ SupervisorDies \/ \E c \in CliWorkers : CliOrphanEnds(c)
    \/ StartCommand \/ StopCommand \/ Commands

Processes == Workers \cup CliWorkers \cup {Cli, NoOne}

MachineTypeOK ==
    /\ proc \in [Workers \cup CliWorkers -> {"free", "forked", "told", "booted", "ready", "dead"}]
    /\ orphans \subseteq doomed /\ doomed \subseteq Workers \cup CliWorkers
    /\ sup \in {"down", "booting", "starting", "ready", "failing", "waiting", "stopping", "ending",
               "killed"}
    /\ worker \in CliWorkers \cup {NoOne} /\ restarts \in 0 .. MaxRestarts
    /\ pid \in [owner : Processes, ready : BOOLEAN, worker : CliWorkers \cup {NoOne}]
    /\ lock \in {"free", "start", "stop", "cli"} /\ (lock = "cli") = (command # NoCommand)
    /\ command \in [op : {"none", "drain", "wait", "term", "kill", "reap", "stop", "clear", "stopped"},
                    at : Processes, worker : CliWorkers \cup {NoOne}]
=============================================================================
