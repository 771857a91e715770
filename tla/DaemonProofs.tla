---------------------------- MODULE DaemonProofs ----------------------------
(***************************************************************************)
(* Theorems about the daemon of a machine, for any number of processes of  *)
(* the app and of the CLI, any restart limit and any number of crashes,    *)
(* where the process list shows the arguments of an orphan (OrphansSeen),  *)
(* and about the lock they start it under, for any number of processes,    *)
(* attempts, kills and leases that pass.                                   *)
(*                                                                         *)
(* That one daemon serves at a time follows from who is in the pid file:   *)
(* an app's worker that has booted is, also as an orphan, and then there   *)
(* is no supervisor (MachineInv).  Nobody may write over the record: what  *)
(* a command holding the lock knows of the machine (CommandInv) and what   *)
(* the manager's fields say of its child (ManagerInv) are needed for that, *)
(* above all that a worker which has not booted has the lock, or was told  *)
(* to end and will never boot.                                             *)
(*                                                                         *)
(* That a holder keeps the startup lock follows from whose files there     *)
(* are: while nobody outlives a lease, every stale lock or claim is of a   *)
(* dead process (CalmInv), so while one at most is dead the claim on its   *)
(* lock is never dropped and the lock cannot change under the claim        *)
(* (ReclaimInv).  That a lone starter wins is the way it goes through its  *)
(* attempts: each removes one obstacle (LoneWay).                          *)
(***************************************************************************)
EXTENDS DesktopDaemon, StartLock, FiniteSetTheorems, TLAPS

Booted(w) == proc[w] \in {"booted", "ready"}

MachineInv ==
    /\ pid.owner \in Workers \cup {Cli, NoOne}
    /\ sup \in {"down", "booting", "waiting"} => worker = NoOne
    /\ sup \in {"starting", "ready", "failing"} => worker # NoOne
    /\ worker # NoOne => Booted(worker) /\ worker \notin orphans
    /\ \A c \in CliWorkers : proc[c] # "free" => c = worker \/ c \in orphans
    /\ \A w \in orphans : Booted(w)
    /\ Runs(Cli) => pid.owner = Cli \/ lock = "cli"
    /\ \A w \in Workers : Booted(w) => pid.owner = w /\ sup = "down"

CommandInv ==
    /\ lock = "cli" <=> command.op # "none"
    /\ command.op = "drain" => sup = "down" /\ pid.owner = command.at
    /\ command.op \in {"wait", "term", "kill", "reap", "stopped"} => \A w \in Workers : ~Booted(w)
    /\ command.op \in {"reap", "clear", "stopped"} => sup = "down"
    /\ command.op = "clear" => command.at = Cli
    /\ command.op = "stop" => /\ pid.owner \in {command.at, NoOne}
                              /\ command.at # Cli => sup = "down"
    /\ command.op = "stopped" => ~Runs(command.at) /\ ~Runs(command.worker)

ManagerInv ==
    /\ lock = "start" <=> start = "boot"
    /\ lock = "stop" <=> stop \in {"shutdown", "kill"}
    /\ start \in {"orphan", "lock"} => child = NoOne
    /\ start = "boot" => /\ child # NoOne /\ ~childBooted /\ sup = "down"
                         /\ \A w \in Workers : Booted(w) => w = child
    /\ child \notin orphans
    /\ child # NoOne /\ proc[child] \in {"forked", "told"} => start = "boot" \/ child \in doomed
    /\ timedOut /\ start = "boot" => child \in doomed
    /\ child # NoOne /\ events # <<>> => proc[child] \in {"booted", "ready", "dead"}

QuietInv ==
    /\ stop # "none" => stopping
    /\ stopping => ~restart /\ ~monitor
    /\ stopping /\ start # "none" => stop = "wait" /\ start # "boot"
    /\ status = "idle" => child = NoOne /\ start = "none" /\ stop = "none" /\ ~restart /\ ~monitor

IInv == TypeOK /\ MachineInv /\ CommandInv /\ ManagerInv /\ QuietInv /\ NoLostWorker

-----------------------------------------------------------------------------
(* The CLI's steps *)

(* What every step of the CLI leaves to the app: its workers' processes,   *)
(* the lock it holds, and no supervisor while it starts a worker.          *)
AppUndisturbed ==
    /\ \A w \in Workers : /\ proc'[w] = proc[w] /\ (w \in orphans' <=> w \in orphans)
                          /\ w \in doomed => w \in doomed'
    /\ lock' = lock \/ {lock, lock'} \subseteq {"free", "cli"}
    /\ lock = "start" /\ sup = "down" => sup' = "down"

MachineSafe == MachineTypeOK /\ MachineInv /\ CommandInv

PidFiles == [owner : Processes, ready : BOOLEAN, worker : CliWorkers \cup {NoOne}]
Records == [op : {"none", "drain", "wait", "term", "kill", "reap", "stop", "clear", "stopped"},
            at : Processes, worker : CliWorkers \cup {NoOne}]

(* Pid files and commands as the steps write them. *)
LEMMA PidFile ==
    ASSUME NEW o \in Processes, NEW r \in BOOLEAN, NEW c \in CliWorkers \cup {NoOne}
    PROVE  [owner |-> o, ready |-> r, worker |-> c] \in PidFiles
  BY DEF PidFiles

(* Who may be in a pid file. *)
LEMMA Owners ==
    /\ Cli \in Processes /\ NoOne \in Processes
    /\ Workers \subseteq Processes /\ CliWorkers \subseteq Processes
    /\ NoPid \in PidFiles
  BY DEF Processes, NoPid, PidFiles

(* What a command may know. *)
LEMMA CommandRecord ==
    ASSUME NEW op \in {"drain", "wait", "term", "kill", "reap", "stop", "clear", "stopped"},
           NEW at \in Processes, NEW c \in CliWorkers \cup {NoOne}
    PROVE  /\ [op |-> op, at |-> at, worker |-> c] \in Records
           /\ [op |-> op, at |-> at, worker |-> c] # NoCommand
           /\ NoCommand \in Records
  BY Owners DEF Records, NoCommand

(* CHOOSE of a free identity. *)
LEMMA FreeIsFree ==
    ASSUME NEW S, AnyFree(S)
    PROVE  Free(S) \in S /\ proc[Free(S)] = "free"
  BY DEF AnyFree, Free

(* A new worker of the supervisor overwrites the pid file: there is a      *)
(* supervisor, so no worker of the app has booted.                         *)
LEMMA SpawnWorkerSafe ==
    ASSUME MachineSafe, SpawnWorker
    PROVE  MachineSafe' /\ AppUndisturbed
<1> USE DEF MachineSafe, SpawnWorker
<1>1. /\ worker' \in CliWorkers /\ proc[worker'] = "free"
      /\ worker' # NoOne /\ worker' \notin orphans
  BY FreeIsFree, ProcessesAssumption DEF MachineInv, Booted
<1>2. MachineTypeOK'
  BY <1>1, ProcessesAssumption DEF MachineTypeOK, Processes
<1>3. \A w \in Workers : proc'[w] = proc[w]
  BY <1>1, ProcessesAssumption DEF MachineTypeOK
<1>4. MachineInv'
  BY <1>1, <1>3, ProcessesAssumption DEF MachineTypeOK, MachineInv, Booted, Runs
<1>5. CommandInv'
  BY <1>1, <1>3, ProcessesAssumption DEF MachineTypeOK, MachineInv, CommandInv, Booted, Runs, Alive
<1>6. AppUndisturbed
  BY <1>3 DEF AppUndisturbed
<1> QED BY <1>2, <1>4, <1>5, <1>6

(* The worker of a supervisor becomes ready. *)
LEMMA WorkerReportsSafe ==
    ASSUME MachineSafe, WorkerReports
    PROVE  MachineSafe' /\ AppUndisturbed
<1> USE DEF MachineSafe, WorkerReports, HasWorker
<1>1. worker \in CliWorkers /\ worker \notin Workers /\ sup # "down"
  BY ProcessesAssumption DEF MachineTypeOK, MachineInv
<1>2. MachineTypeOK'
  <2>1. proc' \in [Workers \cup CliWorkers -> {"free", "forked", "told", "booted", "ready", "dead"}]
    BY <1>1 DEF MachineTypeOK
  <2>2. pid' \in PidFiles
    <3>1. pid \in PidFiles
      BY DEF MachineTypeOK, PidFiles
    <3>2. pid' = pid \/ pid' = [owner |-> Cli, ready |-> TRUE, worker |-> worker]
      OBVIOUS
    <3> QED BY <1>1, <3>1, <3>2, Owners, PidFile
  <2> QED BY <2>1, <2>2 DEF MachineTypeOK, PidFiles
<1>3. /\ \A w \in Workers : proc'[w] = proc[w]
      /\ \A w \in Workers \cup CliWorkers : w # worker => proc'[w] = proc[w]
      /\ proc'[worker] = "ready" /\ sup' # "down"
  BY <1>1 DEF MachineTypeOK
<1>4. MachineInv'
  BY <1>1, <1>3, ProcessesAssumption DEF MachineTypeOK, MachineInv, Booted, Runs
<1>5. CommandInv'
  BY <1>1, <1>3, ProcessesAssumption DEF MachineTypeOK, MachineInv, CommandInv, Booted, Runs, Alive
<1>6. AppUndisturbed
  BY <1>1, <1>3 DEF AppUndisturbed
<1> QED BY <1>2, <1>4, <1>5, <1>6

(* A worker that does not become ready in time is told to end. *)
LEMMA ReadyTimeoutSafe ==
    ASSUME MachineSafe, ReadyTimeout
    PROVE  MachineSafe' /\ AppUndisturbed
<1> USE DEF MachineSafe, ReadyTimeout
<1>1. worker \in CliWorkers
  BY DEF MachineTypeOK, MachineInv
<1>2. MachineTypeOK'
  BY <1>1 DEF MachineTypeOK
<1>3. MachineInv' /\ CommandInv'
  BY DEF MachineInv, CommandInv, Booted, Runs, Alive
<1>4. AppUndisturbed
  BY DEF AppUndisturbed
<1> QED BY <1>2, <1>3, <1>4

(* The worker of a supervisor is gone. *)
LEMMA WorkerExitsSafe ==
    ASSUME MachineSafe, WorkerExits
    PROVE  MachineSafe' /\ AppUndisturbed
<1> USE DEF MachineSafe, WorkerExits, HasWorker
<1>1. worker \in CliWorkers /\ worker \notin Workers /\ worker \notin orphans /\ sup # "down"
  BY ProcessesAssumption DEF MachineTypeOK, MachineInv
<1>2. /\ sup' \in {"down", "waiting", "killed"} /\ restarts' \in 0 .. MaxRestarts
      /\ pid' = pid \/ (sup' = "down" /\ pid.owner = Cli /\ pid' = NoPid)
      /\ pid' = pid \/ sup' = "down"
  BY RestartsAssumption DEF AfterExit, SupervisorEnds, RemovePid, MachineTypeOK, Stopping
<1>3. /\ proc' \in [Workers \cup CliWorkers -> {"free", "forked", "told", "booted", "ready", "dead"}]
      /\ \A w \in Workers : proc'[w] = proc[w]
      /\ \A w \in Workers \cup CliWorkers : w # worker => proc'[w] = proc[w]
      /\ proc'[worker] = "free"
  BY <1>1 DEF MachineTypeOK
<1>4. MachineTypeOK'
  <2>1. pid' \in PidFiles
    BY <1>2, Owners DEF MachineTypeOK, PidFiles
  <2> QED BY <1>1, <1>2, <1>3, <2>1 DEF MachineTypeOK, PidFiles
<1>5. MachineInv'
  BY <1>1, <1>2, <1>3, ProcessesAssumption DEF MachineTypeOK, MachineInv, Booted, Runs, NoPid
<1>6. CommandInv'
  BY <1>1, <1>2, <1>3, ProcessesAssumption DEF MachineTypeOK, MachineInv, CommandInv, Booted, Runs, Alive, NoPid
<1>7. AppUndisturbed
  BY <1>1, <1>3 DEF AppUndisturbed
<1> QED BY <1>4, <1>5, <1>6, <1>7

(* A supervisor that was told to end ends between two workers. *)
LEMMA StoppedBetweenWorkersSafe ==
    ASSUME MachineSafe, StoppedBetweenWorkers
    PROVE  MachineSafe' /\ AppUndisturbed
<1> USE DEF MachineSafe, StoppedBetweenWorkers, HasWorker, SupervisorEnds
<1>1. /\ sup # "down" /\ sup' = "down"
      /\ pid' = pid \/ (pid.owner = Cli /\ pid' = NoPid)
  BY DEF Stopping, RemovePid
<1>2. MachineTypeOK'
  <2>1. pid' \in PidFiles
    BY <1>1, Owners DEF MachineTypeOK, PidFiles
  <2> QED BY <1>1, <2>1, RestartsAssumption DEF MachineTypeOK, PidFiles
<1>3. MachineInv' /\ CommandInv'
  BY <1>1, ProcessesAssumption DEF MachineTypeOK, MachineInv, CommandInv, Booted, Runs, Alive, NoPid
<1>4. AppUndisturbed
  BY DEF AppUndisturbed
<1> QED BY <1>2, <1>3, <1>4

(* A supervisor dies; its worker is an orphan. *)
LEMMA SupervisorDiesSafe ==
    ASSUME MachineSafe, SupervisorDies
    PROVE  MachineSafe' /\ AppUndisturbed
<1> USE DEF MachineSafe, SupervisorDies, SupervisorEnds
<1>1. /\ {worker} \ {NoOne} \subseteq CliWorkers
      /\ \A w \in Workers : ~Booted(w)
  BY DEF MachineTypeOK, MachineInv
<1>2. MachineTypeOK'
  BY <1>1, RestartsAssumption DEF MachineTypeOK
<1>3. MachineInv' /\ CommandInv'
  BY <1>1, ProcessesAssumption DEF MachineTypeOK, MachineInv, CommandInv, Booted, Runs, Alive
<1>4. AppUndisturbed
  BY <1>1, ProcessesAssumption DEF AppUndisturbed
<1> QED BY <1>2, <1>3, <1>4

(* An orphan of the CLI ends. *)
LEMMA CliOrphanEndsSafe ==
    ASSUME MachineSafe, NEW c \in CliWorkers, CliOrphanEnds(c)
    PROVE  MachineSafe' /\ AppUndisturbed
<1> USE DEF MachineSafe, CliOrphanEnds, machine, supervisor
<1>1. c # worker /\ c \notin Workers
  BY ProcessesAssumption DEF MachineInv
<1>2. /\ proc' \in [Workers \cup CliWorkers -> {"free", "forked", "told", "booted", "ready", "dead"}]
      /\ \A w \in Workers : proc'[w] = proc[w]
      /\ \A w \in Workers \cup CliWorkers : w # c => proc'[w] = proc[w]
      /\ proc'[c] = "free"
  BY <1>1 DEF MachineTypeOK
<1>3. MachineTypeOK'
  BY <1>2 DEF MachineTypeOK
<1>4. MachineInv'
  BY <1>1, <1>2, ProcessesAssumption DEF MachineTypeOK, MachineInv, Booted, Runs
<1>5. CommandInv'
  BY <1>1, <1>2, ProcessesAssumption DEF MachineTypeOK, MachineInv, CommandInv, Booted, Runs, Alive
<1>6. AppUndisturbed
  BY <1>1, <1>2 DEF AppUndisturbed
<1> QED BY <1>3, <1>4, <1>5, <1>6

(* SIGTERM to a supervisor that runs: it stops, is gone, or did not hear.  *)
LEMMA SupervisorTold ==
    ASSUME MachineSafe, TellSupervisor, sup # "down"
    PROVE  /\ sup' \in {"down", "booting", "stopping", "ending", "killed"}
           /\ sup' \in {"down", "booting"} => worker = NoOne
           /\ worker' = worker /\ restarts' \in 0 .. MaxRestarts
           /\ doomed \subseteq doomed' /\ doomed' \subseteq doomed \cup CliWorkers
  BY RestartsAssumption DEF MachineSafe, MachineTypeOK, MachineInv, TellSupervisor, SupervisorEnds

(* agendex start: a record of a daemon that is gone is removed; one of a   *)
(* worker whose app or supervisor is gone is left while that is waited for.*)
LEMMA StartCommandSafe ==
    ASSUME OrphansSeen, MachineSafe, StartCommand
    PROVE  MachineSafe' /\ AppUndisturbed
<1> USE DEF MachineSafe, StartCommand
<1>1. AppUndisturbed
  BY DEF AppUndisturbed, Take, SpawnSupervisor, supervisor
<1>2. CASE MustDrain
  <2>1. /\ pid \in PidFiles /\ pid.owner \in Processes /\ pid.worker \in CliWorkers \cup {NoOne}
    BY DEF MachineTypeOK, PidFiles
  <2>2. /\ lock' = "cli" /\ command' \in Records /\ command' # NoCommand
        /\ command'.op = "drain" /\ command'.at = pid.owner
        /\ UNCHANGED <<proc, orphans, doomed, sup, worker, restarts, pid>>
    BY <1>2, <2>1, CommandRecord DEF Take, supervisor
  <2>3. sup = "down"
    BY <1>2, ProcessesAssumption
    DEF MustDrain, DaemonRuns, RecordedWorkerRuns, MachineTypeOK, MachineInv, Runs, Booted
  <2>4. MachineTypeOK'
    BY <2>2 DEF MachineTypeOK, Records
  <2>5. MachineInv' /\ CommandInv'
    BY <2>2, <2>3 DEF MachineInv, CommandInv, Booted, Runs
  <2> QED BY <1>1, <2>4, <2>5
<1>3. CASE ~MustDrain
  <2>1. /\ pid' = NoPid /\ sup = "down" /\ sup' = "booting" /\ restarts' = 0
        /\ lock' = "cli" /\ command' = [op |-> "wait", at |-> Cli, worker |-> NoOne]
        /\ UNCHANGED <<proc, orphans, doomed, worker>>
    BY <1>3 DEF SpawnSupervisor, RemovePid
  <2>2. \A w \in Workers : ~Booted(w)
    BY <1>3, ProcessesAssumption DEF DaemonRuns, MachineInv, Runs, Alive, Booted
  <2>3. /\ command' \in Records /\ command' # NoCommand
        /\ command'.op = "wait" /\ command'.at = Cli
    BY <2>1, Owners, CommandRecord
  <2>4. MachineTypeOK'
    <3>1. pid' \in PidFiles
      BY <2>1, Owners
    <3> QED BY <2>1, <2>3, <3>1, RestartsAssumption DEF MachineTypeOK, Records, PidFiles
  <2>5. MachineInv' /\ CommandInv'
    BY <2>1, <2>2, <2>3 DEF MachineInv, CommandInv, Booted, Runs, NoPid
  <2> QED BY <1>1, <2>4, <2>5
<1> QED BY <1>2, <1>3

(* The worker that was waited for is gone: nobody else is in its record.   *)
LEMMA StartDrainedSafe ==
    ASSUME MachineSafe, StartDrained
    PROVE  MachineSafe' /\ AppUndisturbed
<1> USE DEF MachineSafe, StartDrained
<1>1. /\ sup = "down" /\ sup' = "booting" /\ restarts' = 0 /\ lock = "cli"
      /\ pid' = NoPid
      /\ lock' = "cli" /\ command' = [op |-> "wait", at |-> Cli, worker |-> NoOne]
      /\ UNCHANGED <<proc, orphans, doomed, worker>>
  BY DEF SpawnSupervisor, RemovePid, CommandInv
<1>2. \A w \in Workers : ~Booted(w)
  BY ProcessesAssumption DEF Awaited, CommandInv, MachineInv, Runs, Alive, Booted
<1>3. /\ command' \in Records /\ command' # NoCommand
      /\ command'.op = "wait" /\ command'.at = Cli
  BY <1>1, Owners, CommandRecord
<1>4. MachineTypeOK'
  <2>1. pid' \in PidFiles
    BY <1>1, Owners
  <2> QED BY <1>1, <1>3, <2>1, RestartsAssumption DEF MachineTypeOK, Records, PidFiles
<1>5. MachineInv' /\ CommandInv'
  BY <1>1, <1>2, <1>3 DEF MachineInv, CommandInv, Booted, Runs, NoPid
<1>6. AppUndisturbed
  BY <1>1 DEF AppUndisturbed
<1> QED BY <1>4, <1>5, <1>6

(* What a command leaves when it gives the lock back and changes nothing   *)
(* else: a supervisor that runs is in the pid file.                        *)
LEMMA Released ==
    ASSUME MachineSafe, Release, command.op # "none", Runs(Cli) => pid.owner = Cli,
           UNCHANGED <<proc, orphans, doomed, supervisor, pid>>
    PROVE  MachineSafe' /\ AppUndisturbed
<1> USE DEF MachineSafe, Release, supervisor
<1>1. command'.op = "none" /\ command' \in Records /\ lock = "cli"
  BY Owners DEF NoCommand, Records, CommandInv
<1>2. MachineTypeOK'
  BY <1>1 DEF MachineTypeOK, Records
<1>3. MachineInv' /\ CommandInv'
  BY <1>1 DEF MachineInv, CommandInv, Booted, Runs
<1>4. AppUndisturbed
  BY <1>1 DEF AppUndisturbed
<1> QED BY <1>2, <1>3, <1>4

(* A start that succeeded, and a command whose wait is over or that is     *)
(* killed.                                                                 *)
LEMMA StartedSafe ==
    ASSUME MachineSafe, Started
    PROVE  MachineSafe' /\ AppUndisturbed
  BY Released DEF Started

(* See StartedSafe. *)
LEMMA CommandEndsSafe ==
    ASSUME MachineSafe, CommandEnds
    PROVE  MachineSafe' /\ AppUndisturbed
  BY Released DEF CommandEnds

(* A step to another operation of the same command. *)
LEMMA SteppedRecord ==
    ASSUME command \in Records,
           NEW op \in {"drain", "wait", "term", "kill", "reap", "stop", "clear", "stopped"},
           Step(op)
    PROVE  /\ command' \in Records /\ command' # NoCommand /\ lock' = lock
           /\ command'.op = op /\ command'.at = command.at /\ command'.worker = command.worker
<1>1. /\ command' \in Records /\ lock' = lock
      /\ command'.op = op /\ command'.at = command.at /\ command'.worker = command.worker
  BY DEF Step, Records
<1>2. NoCommand.op = "none"
  BY DEF NoCommand
<1> QED BY <1>1, <1>2

(* A start that failed ends the supervisor it started. *)
LEMMA StartFailedSafe ==
    ASSUME MachineSafe, StartFailed
    PROVE  MachineSafe' /\ AppUndisturbed
<1> USE DEF MachineSafe, StartFailed
<1> DEFINE recorded == IF pid.owner = Cli THEN pid.worker ELSE NoOne
<1>1. /\ lock = "cli" /\ \A w \in Workers : ~Booted(w)
      /\ recorded \in CliWorkers \cup {NoOne}
  BY DEF CommandInv, MachineTypeOK
<1>2. /\ command' \in Records /\ command' # NoCommand
      /\ command'.op = IF Runs(Cli) THEN "term" ELSE "reap"
  BY <1>1, Owners, CommandRecord
<1>3. /\ sup' \in {"down", "booting", "stopping", "ending", "killed"}
      /\ sup' \in {"down", "booting"} => worker = NoOne
      /\ worker' = worker /\ restarts' \in 0 .. MaxRestarts
      /\ doomed \subseteq doomed' /\ doomed' \subseteq doomed \cup CliWorkers
      /\ ~Runs(Cli) => sup' = "down"
  <2>1. CASE Runs(Cli)
    BY <2>1, SupervisorTold DEF Runs
  <2>2. CASE ~Runs(Cli)
    BY <2>2 DEF Runs, supervisor, MachineTypeOK, MachineInv
  <2> QED BY <2>1, <2>2
<1>4. MachineTypeOK'
  BY <1>1, <1>2, <1>3 DEF MachineTypeOK, Records
<1>5. MachineInv' /\ CommandInv'
  BY <1>1, <1>2, <1>3 DEF MachineInv, CommandInv, Booted, Runs
<1>6. AppUndisturbed
  BY <1>1, <1>3 DEF AppUndisturbed
<1> QED BY <1>4, <1>5, <1>6

(* It does not end: it is killed. *)
LEMMA ForceKillSafe ==
    ASSUME MachineSafe, ForceKill
    PROVE  MachineSafe' /\ AppUndisturbed
<1> USE DEF MachineSafe, ForceKill
<1>1. /\ command' \in Records /\ command' # NoCommand /\ lock' = lock
      /\ command'.op = "kill" /\ lock = "cli" /\ sup # "down"
  BY SteppedRecord DEF MachineTypeOK, Records, CommandInv, Runs
<1>2. MachineTypeOK'
  BY <1>1 DEF MachineTypeOK, Records
<1>3. MachineInv' /\ CommandInv'
  BY <1>1 DEF MachineInv, CommandInv, Booted, Runs
<1>4. AppUndisturbed
  BY <1>1 DEF AppUndisturbed
<1> QED BY <1>2, <1>3, <1>4

(* It ended: its worker is next. *)
LEMMA StartReapsSafe ==
    ASSUME MachineSafe, StartReaps
    PROVE  MachineSafe' /\ AppUndisturbed
<1> USE DEF MachineSafe, StartReaps, supervisor
<1>1. /\ command' \in Records /\ command' # NoCommand /\ lock' = lock
      /\ command'.op = "reap" /\ lock = "cli" /\ sup = "down"
  BY SteppedRecord DEF MachineTypeOK, Records, CommandInv, Runs
<1>2. MachineTypeOK'
  BY <1>1 DEF MachineTypeOK, Records
<1>3. MachineInv' /\ CommandInv'
  BY <1>1 DEF MachineInv, CommandInv, Booted, Runs
<1>4. AppUndisturbed
  BY <1>1 DEF AppUndisturbed
<1> QED BY <1>2, <1>3, <1>4

(* A record that is removed while no supervisor runs and no worker of the  *)
(* app is the daemon it names.                                             *)
LEMMA RecordCleared ==
    ASSUME MachineSafe, Release, command.op # "none", sup = "down",
           NEW owner, pid' = pid \/ (pid' = NoPid /\ pid.owner = owner),
           \A w \in Workers : Booted(w) => w # owner,
           UNCHANGED <<proc, orphans, doomed, supervisor>>
    PROVE  MachineSafe' /\ AppUndisturbed
<1> USE DEF MachineSafe, Release, supervisor
<1>1. command'.op = "none" /\ command' \in Records /\ lock = "cli"
  BY Owners DEF NoCommand, Records, CommandInv
<1>2. MachineTypeOK'
  <2>1. pid' \in PidFiles
    BY Owners DEF MachineTypeOK, PidFiles
  <2> QED BY <1>1, <2>1 DEF MachineTypeOK, Records, PidFiles
<1>3. MachineInv' /\ CommandInv'
  BY <1>1 DEF MachineInv, CommandInv, Booted, Runs, NoPid
<1>4. AppUndisturbed
  BY <1>1 DEF AppUndisturbed
<1> QED BY <1>2, <1>3, <1>4

(* The start cleaned up; a stop found only a worker, which is gone.        *)
LEMMA CleanedSafe ==
    ASSUME MachineSafe, StartCleaned \/ Cleared
    PROVE  MachineSafe' /\ AppUndisturbed
<1>1. /\ sup = "down" /\ command.op # "none"
      /\ StartCleaned \/ command.at = Cli
  BY DEF StartCleaned, Cleared, MachineSafe, CommandInv
<1>2. pid' = pid \/ (pid' = NoPid /\ pid.owner = Cli)
  BY <1>1 DEF StartCleaned, Cleared, RemovePid
<1>3. \A w \in Workers : w # Cli
  BY ProcessesAssumption
<1> QED BY <1>1, <1>2, <1>3, RecordCleared DEF StartCleaned, Cleared

(* What could not be killed is left in the pid file. *)
LEMMA StartLeavesSafe ==
    ASSUME MachineSafe, StartLeaves
    PROVE  MachineSafe' /\ AppUndisturbed
<1> USE DEF MachineSafe, StartLeaves, Release, supervisor
<1>1. /\ command'.op = "none" /\ command' \in Records /\ lock = "cli"
      /\ \A w \in Workers : ~Booted(w)
      /\ pid' \in PidFiles /\ pid'.owner = Cli
  <2>1. pid' \in PidFiles /\ pid'.owner = Cli
    BY PidFile, Owners DEF MachineTypeOK, PidFiles
  <2> QED BY <2>1, Owners DEF NoCommand, Records, CommandInv
<1>2. MachineTypeOK'
  BY <1>1 DEF MachineTypeOK, Records, PidFiles
<1>3. MachineInv' /\ CommandInv'
  BY <1>1 DEF MachineInv, CommandInv, Booted, Runs
<1>4. AppUndisturbed
  BY <1>1 DEF AppUndisturbed
<1> QED BY <1>2, <1>3, <1>4

(* agendex stop: the daemon in the pid file is told to end, or the record  *)
(* of one that is gone is removed.                                         *)
LEMMA StopCommandSafe ==
    ASSUME OrphansSeen, MachineSafe, StopCommand
    PROVE  MachineSafe' /\ AppUndisturbed
<1> USE DEF MachineSafe, StopCommand
<1>1. /\ lock = "free" /\ command.op = "none" /\ pid \in PidFiles
      /\ pid.owner \in Processes /\ pid.worker \in CliWorkers \cup {NoOne}
      /\ Runs(Cli) => pid.owner = Cli
  BY DEF MachineTypeOK, PidFiles, CommandInv, MachineInv
<1>2. /\ ~DaemonRuns => sup = "down" /\ \A w \in Workers : ~Booted(w)
      /\ DaemonRuns /\ pid.owner # Cli => sup = "down" /\ pid.owner \in Workers
      /\ DaemonRuns /\ pid.owner = Cli => sup # "down"
  BY <1>1, ProcessesAssumption DEF DaemonRuns, MachineInv, Runs, Alive, Booted
<1>3. CASE DaemonRuns
  <2>1. /\ lock' = "cli" /\ command' \in Records /\ command' # NoCommand
        /\ command'.op = "stop" /\ command'.at = pid.owner
        /\ UNCHANGED <<pid, proc, orphans>>
    BY <1>1, <1>3, CommandRecord DEF Take
  <2>2. /\ sup' \in {"down", "booting", "stopping", "ending", "killed"}
        /\ sup' \in {"down", "booting"} => worker = NoOne
        /\ worker' = worker /\ restarts' \in 0 .. MaxRestarts
        /\ doomed \subseteq doomed' /\ doomed' \subseteq Workers \cup CliWorkers
        /\ sup = "down" => sup' = "down"
        /\ sup = "down" \/ pid.owner = Cli
    <3>1. CASE pid.owner = Cli
      BY <1>2, <1>3, <3>1, SupervisorTold DEF MachineTypeOK
    <3>2. CASE pid.owner # Cli
      BY <1>2, <1>3, <3>2 DEF supervisor, MachineTypeOK, MachineInv
    <3> QED BY <3>1, <3>2
  <2>3. MachineTypeOK'
    BY <2>1, <2>2 DEF MachineTypeOK, Records
  <2>4. MachineInv' /\ CommandInv'
    BY <1>1, <1>2, <1>3, <2>1, <2>2 DEF MachineInv, CommandInv, Booted, Runs
  <2>5. AppUndisturbed
    BY <1>1, <2>1, <2>2 DEF AppUndisturbed
  <2> QED BY <2>3, <2>4, <2>5
<1>4. CASE ~DaemonRuns /\ RecordedWorkerRuns
  <2>1. /\ lock' = "cli" /\ command' \in Records /\ command' # NoCommand
        /\ command'.op = "clear" /\ command'.at = Cli
        /\ UNCHANGED <<proc, orphans, doomed, sup, worker, restarts, pid>>
    BY <1>1, <1>4, CommandRecord DEF Take, RecordedWorkerRuns, supervisor
  <2>2. MachineTypeOK'
    BY <2>1 DEF MachineTypeOK, Records
  <2>3. MachineInv' /\ CommandInv'
    BY <1>2, <1>4, <2>1 DEF MachineInv, CommandInv, Booted, Runs
  <2>4. AppUndisturbed
    BY <1>1, <2>1 DEF AppUndisturbed
  <2> QED BY <2>2, <2>3, <2>4
<1>5. CASE ~DaemonRuns /\ ~RecordedWorkerRuns
  <2>1. pid' = NoPid /\ UNCHANGED <<proc, orphans, doomed, sup, worker, restarts, lock, command>>
    BY <1>5 DEF supervisor
  <2>2. MachineTypeOK'
    BY <2>1, Owners DEF MachineTypeOK, PidFiles
  <2>3. MachineInv' /\ CommandInv'
    BY <1>1, <1>2, <1>5, <2>1 DEF MachineInv, CommandInv, Booted, Runs, NoPid
  <2>4. AppUndisturbed
    BY <2>1 DEF AppUndisturbed
  <2> QED BY <2>2, <2>3, <2>4
<1> QED BY <1>3, <1>4, <1>5

(* The stop sees that the daemon and its worker are gone. *)
LEMMA StoppedSafe ==
    ASSUME MachineSafe, Stopped
    PROVE  MachineSafe' /\ AppUndisturbed
<1> USE DEF MachineSafe, Stopped, StopIsOver, supervisor
<1>1. /\ command' \in Records /\ command' # NoCommand /\ lock' = lock
      /\ command'.op = "stopped" /\ lock = "cli"
      /\ command'.at = command.at /\ command'.worker = command.worker
  BY SteppedRecord DEF MachineTypeOK, Records, CommandInv
<1>2. pid' = pid \/ pid' = NoPid
  BY DEF RemovePid
<1>3. sup = "down" /\ \A w \in Workers : ~Booted(w)
  BY ProcessesAssumption DEF CommandInv, MachineInv, Runs, Alive, Booted
<1>4. MachineTypeOK'
  BY <1>1, <1>2, Owners DEF MachineTypeOK, Records, PidFiles
<1>5. MachineInv' /\ CommandInv'
  BY <1>1, <1>2, <1>3 DEF MachineInv, CommandInv, Booted, Runs, Alive, NoPid
<1>6. AppUndisturbed
  BY <1>1 DEF AppUndisturbed
<1> QED BY <1>4, <1>5, <1>6

(* Every step of the CLI keeps what is known of the machine, and leaves    *)
(* the app's workers, its lock and the start it is in as they are.         *)
LEMMA CliNextSafe ==
    ASSUME OrphansSeen, MachineSafe, CliNext
    PROVE  MachineSafe' /\ AppUndisturbed
  BY SpawnWorkerSafe, WorkerReportsSafe, ReadyTimeoutSafe, WorkerExitsSafe,
     StoppedBetweenWorkersSafe, SupervisorDiesSafe, CliOrphanEndsSafe, StartCommandSafe,
     StartDrainedSafe, StartedSafe, StartFailedSafe, ForceKillSafe, StartReapsSafe, CleanedSafe,
     StartLeavesSafe, StopCommandSafe, StoppedSafe, CommandEndsSafe
  DEF CliNext, Commands

-----------------------------------------------------------------------------
(* The steps of the manager *)

(* A step of the CLI beside the app. *)
LEMMA ExternalDaemonSafe ==
    ASSUME OrphansSeen, IInv, ExternalDaemon
    PROVE  IInv'
<1>1. MachineSafe' /\ AppUndisturbed
  BY CliNextSafe DEF IInv, TypeOK, MachineSafe, ExternalDaemon
<1>2. UNCHANGED <<creds, child, childBooted, timedOut, start, awaited, stop, stopping, restart,
                  monitor, status, events, crashes>>
  BY DEF ExternalDaemon, manager, starting
<1>3. TypeOK'
  BY <1>1, <1>2 DEF IInv, TypeOK, MachineSafe
<1>4. ManagerInv'
  <2>1. child \notin orphans'
    BY <1>1, ProcessesAssumption
    DEF IInv, TypeOK, ManagerInv, MachineSafe, MachineTypeOK, AppUndisturbed
  <2> QED BY <1>1, <1>2, <2>1 DEF IInv, TypeOK, ManagerInv, AppUndisturbed, Booted
<1>5. QuietInv' /\ NoLostWorker'
  BY <1>1, <1>2 DEF IInv, QuietInv, NoLostWorker, AppUndisturbed
<1> QED BY <1>1, <1>3, <1>4, <1>5 DEF IInv, MachineSafe

(* What the manager does to the machine without a process that starts or   *)
(* ends: the lock it takes or gives back, and who it tells to end.         *)
LEMMA LockMoves ==
    ASSUME MachineSafe, UNCHANGED <<proc, orphans, sup, worker, restarts, command, pid>>,
           doomed \subseteq doomed', doomed' \subseteq doomed \cup Workers,
           lock' = lock \/ (lock # "cli" /\ lock' \in {"free", "start", "stop"})
    PROVE  MachineSafe'
<1>1. MachineTypeOK'
  BY DEF MachineSafe, MachineTypeOK, CommandInv
<1>2. MachineInv' /\ CommandInv'
  BY DEF MachineSafe, MachineInv, CommandInv, Booted, Runs, Alive
<1> QED BY <1>1, <1>2 DEF MachineSafe

(* The orphan a start waits for. *)
LEMMA OrphanIsWorker ==
    ASSUME TypeOK
    PROVE  Orphan \in Workers \cup CliWorkers \cup {NoOne}
  BY DEF TypeOK, MachineTypeOK, Orphan

(* A start begins. *)
LEMMA EnsureRunningSafe ==
    ASSUME IInv, EnsureRunning
    PROVE  IInv'
<1> USE DEF EnsureRunning, BeginStart, Startable
<1>1. MachineSafe'
  <2>1. UNCHANGED <<proc, orphans, sup, worker, restarts, command, pid>>
    BY DEF workers, machine, supervisor
  <2>2. doomed \subseteq doomed' /\ doomed' \subseteq doomed \cup Workers
    BY DEF IInv, TypeOK, ManagerInv, workers
  <2>3. lock' = lock \/ (lock # "cli" /\ lock' \in {"free", "start", "stop"})
    BY DEF IInv, ManagerInv, machine
  <2> QED BY <2>1, <2>2, <2>3, LockMoves DEF IInv, TypeOK, MachineSafe
<1>2. TypeOK'
  BY <1>1, OrphanIsWorker DEF IInv, TypeOK, MachineSafe, starting, workers
<1>3. ManagerInv'
  BY DEF IInv, ManagerInv, QuietInv, Booted, starting, workers, machine, supervisor
<1>4. QuietInv' /\ NoLostWorker'
  BY DEF IInv, ManagerInv, QuietInv, NoLostWorker, starting, workers
<1> QED BY <1>1, <1>2, <1>3, <1>4 DEF IInv, MachineSafe

(* The orphan a start waited for is gone. *)
LEMMA OrphanGoneSafe ==
    ASSUME IInv, OrphanGone
    PROVE  IInv'
<1> USE DEF OrphanGone
<1>1. MachineSafe'
  <2>1. UNCHANGED <<proc, orphans, sup, worker, restarts, command, pid>>
    BY DEF workers, machine, supervisor
  <2>2. doomed \subseteq doomed' /\ doomed' \subseteq doomed \cup Workers
    BY DEF IInv, TypeOK, ManagerInv, workers
  <2>3. lock' = lock \/ (lock # "cli" /\ lock' \in {"free", "start", "stop"})
    BY DEF IInv, ManagerInv, machine
  <2> QED BY <2>1, <2>2, <2>3, LockMoves DEF IInv, TypeOK, MachineSafe
<1>2. TypeOK'
  BY <1>1 DEF IInv, TypeOK, MachineSafe, starting, workers
<1>3. ManagerInv'
  BY DEF IInv, ManagerInv, QuietInv, Booted, starting, workers, machine, supervisor
<1>4. QuietInv' /\ NoLostWorker'
  BY DEF IInv, ManagerInv, QuietInv, NoLostWorker, starting, workers
<1> QED BY <1>1, <1>2, <1>3, <1>4 DEF IInv, MachineSafe

(* A start does not get its turn. *)
LEMMA StartGivesUpSafe ==
    ASSUME IInv, StartGivesUp
    PROVE  IInv'
<1> USE DEF StartGivesUp, StartFails, ScheduleRestart
<1>1. MachineSafe'
  <2>1. UNCHANGED <<proc, orphans, sup, worker, restarts, command, pid>>
    BY DEF workers, machine, supervisor
  <2>2. doomed \subseteq doomed' /\ doomed' \subseteq doomed \cup Workers
    BY DEF IInv, TypeOK, ManagerInv, workers
  <2>3. lock' = lock \/ (lock # "cli" /\ lock' \in {"free", "start", "stop"})
    BY DEF IInv, ManagerInv, machine
  <2> QED BY <2>1, <2>2, <2>3, LockMoves DEF IInv, TypeOK, MachineSafe
<1>2. TypeOK'
  BY <1>1 DEF IInv, TypeOK, MachineSafe, starting, workers
<1>3. ManagerInv'
  BY DEF IInv, ManagerInv, QuietInv, Booted, starting, workers, machine, supervisor
<1>4. QuietInv' /\ NoLostWorker'
  BY DEF IInv, ManagerInv, QuietInv, NoLostWorker, starting, workers
<1> QED BY <1>1, <1>2, <1>3, <1>4 DEF IInv, MachineSafe

(* Another daemon runs already. *)
LEMMA StartFindsDaemonSafe ==
    ASSUME IInv, StartFindsDaemon
    PROVE  IInv'
<1> USE DEF StartFindsDaemon, WatchDaemon
<1>1. MachineSafe'
  <2>1. UNCHANGED <<proc, orphans, sup, worker, restarts, command, pid>>
    BY DEF workers, machine, supervisor
  <2>2. doomed \subseteq doomed' /\ doomed' \subseteq doomed \cup Workers
    BY DEF IInv, TypeOK, ManagerInv, workers
  <2>3. lock' = lock \/ (lock # "cli" /\ lock' \in {"free", "start", "stop"})
    BY DEF IInv, ManagerInv, machine
  <2> QED BY <2>1, <2>2, <2>3, LockMoves DEF IInv, TypeOK, MachineSafe
<1>2. TypeOK'
  BY <1>1 DEF IInv, TypeOK, MachineSafe, starting, workers
<1>3. ManagerInv'
  BY DEF IInv, ManagerInv, QuietInv, Booted, starting, workers, machine, supervisor
<1>4. QuietInv' /\ NoLostWorker'
  BY DEF IInv, ManagerInv, QuietInv, NoLostWorker, starting, workers
<1> QED BY <1>1, <1>2, <1>3, <1>4 DEF IInv, MachineSafe

(* The worker booted in time: the start is over and the lock is free. *)
LEMMA BootAcceptedSafe ==
    ASSUME IInv, BootAccepted
    PROVE  IInv'
<1> USE DEF BootAccepted, Handle, UnchangedByEvents, BootCounts
<1>0. events' \in Seq({"booted", "indexing", "ready", "fatal"}) /\ events # <<>> /\ child # NoOne
      /\ Head(events) \in {"booted", "indexing", "ready", "fatal"}
  BY DEF IInv, TypeOK
<1>1. MachineSafe'
  <2>1. UNCHANGED <<proc, orphans, sup, worker, restarts, command, pid>>
    BY DEF workers, machine, supervisor
  <2>2. doomed \subseteq doomed' /\ doomed' \subseteq doomed \cup Workers
    BY <1>0 DEF IInv, TypeOK, ManagerInv, workers
  <2>3. lock' = lock \/ (lock # "cli" /\ lock' \in {"free", "start", "stop"})
    BY <1>0 DEF IInv, ManagerInv, machine
  <2> QED BY <2>1, <2>2, <2>3, LockMoves DEF IInv, TypeOK, MachineSafe
<1>2. TypeOK'
  BY <1>0, <1>1 DEF IInv, TypeOK, MachineSafe, starting, workers
<1>3. ManagerInv'
  BY <1>0 DEF IInv, ManagerInv, QuietInv, Booted, starting, workers, machine, supervisor
<1>4. QuietInv' /\ NoLostWorker'
  BY <1>0 DEF IInv, ManagerInv, QuietInv, NoLostWorker, starting, workers
<1> QED BY <1>1, <1>2, <1>3, <1>4 DEF IInv, MachineSafe

(* It booted too late to be heard. *)
LEMMA BootIgnoredSafe ==
    ASSUME IInv, BootIgnored
    PROVE  IInv'
<1> USE DEF BootIgnored, Handle, UnchangedByEvents, BootCounts
<1>0. events' \in Seq({"booted", "indexing", "ready", "fatal"}) /\ events # <<>> /\ child # NoOne
      /\ Head(events) \in {"booted", "indexing", "ready", "fatal"}
  BY DEF IInv, TypeOK
<1>1. MachineSafe'
  <2>1. UNCHANGED <<proc, orphans, sup, worker, restarts, command, pid>>
    BY DEF workers, machine, supervisor
  <2>2. doomed \subseteq doomed' /\ doomed' \subseteq doomed \cup Workers
    BY <1>0 DEF IInv, TypeOK, ManagerInv, workers
  <2>3. lock' = lock \/ (lock # "cli" /\ lock' \in {"free", "start", "stop"})
    BY <1>0 DEF IInv, ManagerInv, machine
  <2> QED BY <2>1, <2>2, <2>3, LockMoves DEF IInv, TypeOK, MachineSafe
<1>2. TypeOK'
  BY <1>0, <1>1 DEF IInv, TypeOK, MachineSafe, starting, workers
<1>3. ManagerInv'
  BY <1>0 DEF IInv, ManagerInv, QuietInv, Booted, starting, workers, machine, supervisor
<1>4. QuietInv' /\ NoLostWorker'
  BY <1>0 DEF IInv, ManagerInv, QuietInv, NoLostWorker, starting, workers
<1> QED BY <1>1, <1>2, <1>3, <1>4 DEF IInv, MachineSafe

(* The worker tells how far it is. *)
LEMMA ProgressSafe ==
    ASSUME IInv, Progress
    PROVE  IInv'
<1> USE DEF Progress, Handle, UnchangedByEvents, BootCounts
<1>0. events' \in Seq({"booted", "indexing", "ready", "fatal"}) /\ events # <<>> /\ child # NoOne
      /\ Head(events) \in {"booted", "indexing", "ready", "fatal"}
  BY DEF IInv, TypeOK
<1>1. MachineSafe'
  <2>1. UNCHANGED <<proc, orphans, sup, worker, restarts, command, pid>>
    BY DEF workers, machine, supervisor
  <2>2. doomed \subseteq doomed' /\ doomed' \subseteq doomed \cup Workers
    BY <1>0 DEF IInv, TypeOK, ManagerInv, workers
  <2>3. lock' = lock \/ (lock # "cli" /\ lock' \in {"free", "start", "stop"})
    BY <1>0 DEF IInv, ManagerInv, machine
  <2> QED BY <2>1, <2>2, <2>3, LockMoves DEF IInv, TypeOK, MachineSafe
<1>2. TypeOK'
  BY <1>0, <1>1 DEF IInv, TypeOK, MachineSafe, starting, workers
<1>3. ManagerInv'
  BY <1>0 DEF IInv, ManagerInv, QuietInv, Booted, starting, workers, machine, supervisor
<1>4. QuietInv' /\ NoLostWorker'
  BY <1>0 DEF IInv, ManagerInv, QuietInv, NoLostWorker, starting, workers
<1> QED BY <1>1, <1>2, <1>3, <1>4 DEF IInv, MachineSafe

(* The worker could not start or go on. *)
LEMMA FatalSafe ==
    ASSUME IInv, Fatal
    PROVE  IInv'
<1> USE DEF Fatal, Handle, UnchangedByEvents, BootCounts, StartFails, ScheduleRestart
<1>0. events' \in Seq({"booted", "indexing", "ready", "fatal"}) /\ events # <<>> /\ child # NoOne
      /\ Head(events) \in {"booted", "indexing", "ready", "fatal"}
  BY DEF IInv, TypeOK
<1>1. MachineSafe'
  <2>1. UNCHANGED <<proc, orphans, sup, worker, restarts, command, pid>>
    BY DEF workers, machine, supervisor
  <2>2. doomed \subseteq doomed' /\ doomed' \subseteq doomed \cup Workers
    BY <1>0 DEF IInv, TypeOK, ManagerInv, workers
  <2>3. lock' = lock \/ (lock # "cli" /\ lock' \in {"free", "start", "stop"})
    BY <1>0 DEF IInv, ManagerInv, machine
  <2> QED BY <2>1, <2>2, <2>3, LockMoves DEF IInv, TypeOK, MachineSafe
<1>2. TypeOK'
  BY <1>0, <1>1 DEF IInv, TypeOK, MachineSafe, starting, workers
<1>3. ManagerInv'
  BY <1>0 DEF IInv, ManagerInv, QuietInv, Booted, starting, workers, machine, supervisor
<1>4. QuietInv' /\ NoLostWorker'
  BY <1>0 DEF IInv, ManagerInv, QuietInv, NoLostWorker, starting, workers
<1> QED BY <1>1, <1>2, <1>3, <1>4 DEF IInv, MachineSafe

(* The worker was given a new token. *)
LEMMA TokenRotatedSafe ==
    ASSUME IInv, TokenRotated
    PROVE  IInv'
<1> USE DEF TokenRotated
<1>1. MachineSafe'
  <2>1. UNCHANGED <<proc, orphans, sup, worker, restarts, command, pid>>
    BY DEF workers, machine, supervisor
  <2>2. doomed \subseteq doomed' /\ doomed' \subseteq doomed \cup Workers
    BY DEF IInv, TypeOK, ManagerInv, workers
  <2>3. lock' = lock \/ (lock # "cli" /\ lock' \in {"free", "start", "stop"})
    BY DEF IInv, ManagerInv, machine
  <2> QED BY <2>1, <2>2, <2>3, LockMoves DEF IInv, TypeOK, MachineSafe
<1>2. TypeOK'
  BY <1>1 DEF IInv, TypeOK, MachineSafe, starting, workers
<1>3. ManagerInv'
  BY DEF IInv, ManagerInv, QuietInv, Booted, starting, workers, machine, supervisor
<1>4. QuietInv' /\ NoLostWorker'
  BY DEF IInv, ManagerInv, QuietInv, NoLostWorker, starting, workers
<1> QED BY <1>1, <1>2, <1>3, <1>4 DEF IInv, MachineSafe

(* A boot takes too long: the child is killed. *)
LEMMA BootTimeoutSafe ==
    ASSUME IInv, BootTimeout
    PROVE  IInv'
<1> USE DEF BootTimeout, BootCounts
<1>1. MachineSafe'
  <2>1. UNCHANGED <<proc, orphans, sup, worker, restarts, command, pid>>
    BY DEF workers, machine, supervisor
  <2>2. doomed \subseteq doomed' /\ doomed' \subseteq doomed \cup Workers
    BY DEF IInv, TypeOK, ManagerInv, workers
  <2>3. lock' = lock \/ (lock # "cli" /\ lock' \in {"free", "start", "stop"})
    BY DEF IInv, ManagerInv, machine
  <2> QED BY <2>1, <2>2, <2>3, LockMoves DEF IInv, TypeOK, MachineSafe
<1>2. TypeOK'
  BY <1>1 DEF IInv, TypeOK, MachineSafe, starting, workers
<1>3. ManagerInv'
  BY DEF IInv, ManagerInv, QuietInv, Booted, starting, workers, machine, supervisor
<1>4. QuietInv' /\ NoLostWorker'
  BY DEF IInv, ManagerInv, QuietInv, NoLostWorker, starting, workers
<1> QED BY <1>1, <1>2, <1>3, <1>4 DEF IInv, MachineSafe

(* It does not even end then. *)
LEMMA KillTimeoutSafe ==
    ASSUME IInv, KillTimeout
    PROVE  IInv'
<1> USE DEF KillTimeout, StartFails, ScheduleRestart
<1>1. MachineSafe'
  <2>1. UNCHANGED <<proc, orphans, sup, worker, restarts, command, pid>>
    BY DEF workers, machine, supervisor
  <2>2. doomed \subseteq doomed' /\ doomed' \subseteq doomed \cup Workers
    BY DEF IInv, TypeOK, ManagerInv, workers
  <2>3. lock' = lock \/ (lock # "cli" /\ lock' \in {"free", "start", "stop"})
    BY DEF IInv, ManagerInv, machine
  <2> QED BY <2>1, <2>2, <2>3, LockMoves DEF IInv, TypeOK, MachineSafe
<1>2. TypeOK'
  BY <1>1 DEF IInv, TypeOK, MachineSafe, starting, workers
<1>3. ManagerInv'
  BY DEF IInv, ManagerInv, QuietInv, Booted, starting, workers, machine, supervisor
<1>4. QuietInv' /\ NoLostWorker'
  BY DEF IInv, ManagerInv, QuietInv, NoLostWorker, starting, workers
<1> QED BY <1>1, <1>2, <1>3, <1>4 DEF IInv, MachineSafe

(* The restart timer fires. *)
LEMMA RestartTimerSafe ==
    ASSUME IInv, RestartTimer
    PROVE  IInv'
<1> USE DEF RestartTimer, BeginStart, Startable
<1>1. MachineSafe'
  <2>1. UNCHANGED <<proc, orphans, sup, worker, restarts, command, pid>>
    BY DEF workers, machine, supervisor
  <2>2. doomed \subseteq doomed' /\ doomed' \subseteq doomed \cup Workers
    BY DEF IInv, TypeOK, ManagerInv, workers
  <2>3. lock' = lock \/ (lock # "cli" /\ lock' \in {"free", "start", "stop"})
    BY DEF IInv, ManagerInv, machine
  <2> QED BY <2>1, <2>2, <2>3, LockMoves DEF IInv, TypeOK, MachineSafe
<1>2. TypeOK'
  <2>1. /\ start' \in {"none", "orphan", "lock", "boot"} /\ creds' \in BOOLEAN
        /\ awaited' \in Workers \cup CliWorkers \cup {NoOne}
        /\ status' \in {"idle", "starting", "indexing", "ready", "stopping", "error"}
    <3>1. CASE Startable
      BY <3>1, OrphanIsWorker DEF IInv, TypeOK
    <3>2. CASE ~Startable
      BY <3>2 DEF IInv, TypeOK, starting
    <3> QED BY <3>1, <3>2
  <2> QED BY <1>1, <2>1 DEF IInv, TypeOK, MachineSafe, workers
<1>3. ManagerInv'
  BY DEF IInv, ManagerInv, QuietInv, Booted, starting, workers, machine, supervisor
<1>4. QuietInv' /\ NoLostWorker'
  BY DEF IInv, TypeOK, ManagerInv, QuietInv, NoLostWorker, starting, workers
<1> QED BY <1>1, <1>2, <1>3, <1>4 DEF IInv, MachineSafe

(* The other daemon is looked after. *)
LEMMA PollSafe ==
    ASSUME IInv, Poll
    PROVE  IInv'
<1> USE DEF Poll, ScheduleRestart
<1>1. MachineSafe'
  <2>1. UNCHANGED <<proc, orphans, sup, worker, restarts, command, pid>>
    BY DEF workers, machine, supervisor
  <2>2. doomed \subseteq doomed' /\ doomed' \subseteq doomed \cup Workers
    BY DEF IInv, TypeOK, ManagerInv, workers
  <2>3. lock' = lock \/ (lock # "cli" /\ lock' \in {"free", "start", "stop"})
    BY DEF IInv, ManagerInv, machine
  <2> QED BY <2>1, <2>2, <2>3, LockMoves DEF IInv, TypeOK, MachineSafe
<1>2. TypeOK'
  <2>1. monitor' \in BOOLEAN /\ restart' \in BOOLEAN
        /\ status' \in {"idle", "starting", "indexing", "ready", "stopping", "error"}
    BY DEF IInv, TypeOK
  <2> QED BY <1>1, <2>1 DEF IInv, TypeOK, MachineSafe, starting, workers
<1>3. ManagerInv'
  BY DEF IInv, ManagerInv, QuietInv, Booted, starting, workers, machine, supervisor
<1>4. QuietInv' /\ NoLostWorker'
  BY DEF IInv, TypeOK, ManagerInv, QuietInv, NoLostWorker, starting, workers
<1> QED BY <1>1, <1>2, <1>3, <1>4 DEF IInv, MachineSafe

(* A stop begins, and cancels the boot that is on. *)
LEMMA StopSafe ==
    ASSUME IInv, Stop
    PROVE  IInv'
<1> USE DEF Stop, ClearTimers
<1>1. MachineSafe'
  <2>1. UNCHANGED <<proc, orphans, sup, worker, restarts, command, pid>>
    BY DEF workers, machine, supervisor
  <2>2. doomed \subseteq doomed' /\ doomed' \subseteq doomed \cup Workers
    BY DEF IInv, TypeOK, ManagerInv, workers
  <2>3. lock' = lock \/ (lock # "cli" /\ lock' \in {"free", "start", "stop"})
    BY DEF IInv, ManagerInv, machine
  <2> QED BY <2>1, <2>2, <2>3, LockMoves DEF IInv, TypeOK, MachineSafe
<1>2. TypeOK'
  BY <1>1 DEF IInv, TypeOK, MachineSafe, starting, workers
<1>3. ManagerInv'
  BY DEF IInv, ManagerInv, QuietInv, Booted, starting, workers, machine, supervisor
<1>4. QuietInv' /\ NoLostWorker'
  BY DEF IInv, TypeOK, ManagerInv, QuietInv, NoLostWorker, starting, workers
<1> QED BY <1>1, <1>2, <1>3, <1>4 DEF IInv, MachineSafe

(* The start that was on has ended. *)
LEMMA StopWaitedSafe ==
    ASSUME IInv, StopWaited
    PROVE  IInv'
<1> USE DEF StopWaited
<1>1. MachineSafe'
  <2>1. UNCHANGED <<proc, orphans, sup, worker, restarts, command, pid>>
    BY DEF workers, machine, supervisor
  <2>2. doomed \subseteq doomed' /\ doomed' \subseteq doomed \cup Workers
    BY DEF IInv, TypeOK, ManagerInv, workers
  <2>3. lock' = lock \/ (lock # "cli" /\ lock' \in {"free", "start", "stop"})
    BY DEF IInv, ManagerInv, machine
  <2> QED BY <2>1, <2>2, <2>3, LockMoves DEF IInv, TypeOK, MachineSafe
<1>2. TypeOK'
  BY <1>1 DEF IInv, TypeOK, MachineSafe, starting, workers
<1>3. ManagerInv'
  BY DEF IInv, ManagerInv, QuietInv, Booted, starting, workers, machine, supervisor
<1>4. QuietInv' /\ NoLostWorker'
  BY DEF IInv, ManagerInv, QuietInv, NoLostWorker, starting, workers
<1> QED BY <1>1, <1>2, <1>3, <1>4 DEF IInv, MachineSafe

(* There is no child to stop. *)
LEMMA StopNothingSafe ==
    ASSUME IInv, StopNothing
    PROVE  IInv'
<1> USE DEF StopNothing, StopEnds
<1>1. MachineSafe'
  <2>1. UNCHANGED <<proc, orphans, sup, worker, restarts, command, pid>>
    BY DEF workers, machine, supervisor
  <2>2. doomed \subseteq doomed' /\ doomed' \subseteq doomed \cup Workers
    BY DEF IInv, TypeOK, ManagerInv, workers
  <2>3. lock' = lock \/ (lock # "cli" /\ lock' \in {"free", "start", "stop"})
    BY DEF IInv, ManagerInv, machine
  <2> QED BY <2>1, <2>2, <2>3, LockMoves DEF IInv, TypeOK, MachineSafe
<1>2. TypeOK'
  BY <1>1 DEF IInv, TypeOK, MachineSafe, starting, workers
<1>3. ManagerInv'
  BY DEF IInv, ManagerInv, QuietInv, Booted, starting, workers, machine, supervisor
<1>4. QuietInv' /\ NoLostWorker'
  BY DEF IInv, ManagerInv, QuietInv, NoLostWorker, starting, workers
<1> QED BY <1>1, <1>2, <1>3, <1>4 DEF IInv, MachineSafe

(* The child is told to end. *)
LEMMA StopShutdownSafe ==
    ASSUME IInv, StopShutdown
    PROVE  IInv'
<1> USE DEF StopShutdown
<1>1. MachineSafe'
  <2>1. UNCHANGED <<proc, orphans, sup, worker, restarts, command, pid>>
    BY DEF workers, machine, supervisor
  <2>2. doomed \subseteq doomed' /\ doomed' \subseteq doomed \cup Workers
    BY DEF IInv, TypeOK, ManagerInv, workers
  <2>3. lock' = lock \/ (lock # "cli" /\ lock' \in {"free", "start", "stop"})
    BY DEF IInv, ManagerInv, machine
  <2> QED BY <2>1, <2>2, <2>3, LockMoves DEF IInv, TypeOK, MachineSafe
<1>2. TypeOK'
  BY <1>1 DEF IInv, TypeOK, MachineSafe, starting, workers
<1>3. ManagerInv'
  BY DEF IInv, ManagerInv, QuietInv, Booted, starting, workers, machine, supervisor
<1>4. QuietInv' /\ NoLostWorker'
  BY DEF IInv, ManagerInv, QuietInv, NoLostWorker, starting, workers
<1> QED BY <1>1, <1>2, <1>3, <1>4 DEF IInv, MachineSafe

(* The lock stays taken: the stop ends, but not while there is a child. *)
LEMMA StopLockTimeoutSafe ==
    ASSUME IInv, StopLockTimeout
    PROVE  IInv'
<1> USE DEF StopLockTimeout, StopEnds
<1>1. MachineSafe'
  <2>1. UNCHANGED <<proc, orphans, sup, worker, restarts, command, pid>>
    BY DEF workers, machine, supervisor
  <2>2. doomed \subseteq doomed' /\ doomed' \subseteq doomed \cup Workers
    BY DEF IInv, TypeOK, ManagerInv, workers
  <2>3. lock' = lock \/ (lock # "cli" /\ lock' \in {"free", "start", "stop"})
    BY DEF IInv, ManagerInv, machine
  <2> QED BY <2>1, <2>2, <2>3, LockMoves DEF IInv, TypeOK, MachineSafe
<1>2. TypeOK'
  BY <1>1 DEF IInv, TypeOK, MachineSafe, starting, workers
<1>3. ManagerInv'
  BY DEF IInv, ManagerInv, QuietInv, Booted, starting, workers, machine, supervisor
<1>4. QuietInv' /\ NoLostWorker'
  BY DEF IInv, ManagerInv, QuietInv, NoLostWorker, starting, workers
<1> QED BY <1>1, <1>2, <1>3, <1>4 DEF IInv, MachineSafe

(* The child is killed. *)
LEMMA StopGraceOverSafe ==
    ASSUME IInv, StopGraceOver
    PROVE  IInv'
<1> USE DEF StopGraceOver
<1>1. MachineSafe'
  <2>1. UNCHANGED <<proc, orphans, sup, worker, restarts, command, pid>>
    BY DEF workers, machine, supervisor
  <2>2. doomed \subseteq doomed' /\ doomed' \subseteq doomed \cup Workers
    BY DEF IInv, TypeOK, ManagerInv, workers
  <2>3. lock' = lock \/ (lock # "cli" /\ lock' \in {"free", "start", "stop"})
    BY DEF IInv, ManagerInv, machine
  <2> QED BY <2>1, <2>2, <2>3, LockMoves DEF IInv, TypeOK, MachineSafe
<1>2. TypeOK'
  BY <1>1 DEF IInv, TypeOK, MachineSafe, starting, workers
<1>3. ManagerInv'
  BY DEF IInv, ManagerInv, QuietInv, Booted, starting, workers, machine, supervisor
<1>4. QuietInv' /\ NoLostWorker'
  BY DEF IInv, ManagerInv, QuietInv, NoLostWorker, starting, workers
<1> QED BY <1>1, <1>2, <1>3, <1>4 DEF IInv, MachineSafe

(* It outlives the kill. *)
LEMMA StopKillTimeoutSafe ==
    ASSUME IInv, StopKillTimeout
    PROVE  IInv'
<1> USE DEF StopKillTimeout, StopEnds
<1>1. MachineSafe'
  <2>1. UNCHANGED <<proc, orphans, sup, worker, restarts, command, pid>>
    BY DEF workers, machine, supervisor
  <2>2. doomed \subseteq doomed' /\ doomed' \subseteq doomed \cup Workers
    BY DEF IInv, TypeOK, ManagerInv, workers
  <2>3. lock' = lock \/ (lock # "cli" /\ lock' \in {"free", "start", "stop"})
    BY DEF IInv, ManagerInv, machine
  <2> QED BY <2>1, <2>2, <2>3, LockMoves DEF IInv, TypeOK, MachineSafe
<1>2. TypeOK'
  BY <1>1 DEF IInv, TypeOK, MachineSafe, starting, workers
<1>3. ManagerInv'
  BY DEF IInv, ManagerInv, QuietInv, Booted, starting, workers, machine, supervisor
<1>4. QuietInv' /\ NoLostWorker'
  BY DEF IInv, ManagerInv, QuietInv, NoLostWorker, starting, workers
<1> QED BY <1>1, <1>2, <1>3, <1>4 DEF IInv, MachineSafe

(* A worker is forked: nobody else serves, and the lock is held. *)
LEMMA ForkWorkerSafe ==
    ASSUME OrphansSeen, IInv, ForkWorker
    PROVE  IInv'
<1> USE DEF ForkWorker, HoldStartLock, supervisor
<1>1. /\ child' \in Workers /\ proc[child'] = "free" /\ child = NoOne
      /\ \A w \in Workers : ~Booted(w)
      /\ sup = "down" /\ command.op = "none" /\ lock = "free"
      /\ child' \notin orphans /\ child' # worker
  <2>1. /\ child' \in Workers /\ proc[child'] = "free" /\ child = NoOne /\ command.op = "none"
    BY FreeIsFree DEF IInv, ManagerInv, CommandInv
  <2>2. sup = "down" /\ \A w \in Workers : ~Booted(w)
    BY ProcessesAssumption DEF IInv, MachineInv, DaemonRuns, Runs, Alive, Booted
  <2>3. child' \notin orphans /\ child' # worker
    BY <2>1, ProcessesAssumption DEF IInv, TypeOK, MachineTypeOK, MachineInv, Booted
  <2> QED BY <2>1, <2>2, <2>3
<1>2. /\ proc' \in [Workers \cup CliWorkers -> {"free", "forked", "told", "booted", "ready", "dead"}]
      /\ \A w \in Workers \cup CliWorkers : w # child' => proc'[w] = proc[w]
      /\ proc'[child'] = "forked"
  BY <1>1 DEF IInv, TypeOK, MachineTypeOK
<1>3. TypeOK'
  <2>1. pid' \in PidFiles /\ lock # "cli"
    BY <1>1, Owners
  <2>2. MachineTypeOK'
    BY <1>2, <2>1 DEF IInv, TypeOK, MachineTypeOK, PidFiles
  <2>3. /\ child' \in Workers \cup {NoOne} /\ events' \in Seq({"booted", "indexing", "ready", "fatal"})
    BY <1>1
  <2> QED BY <2>2, <2>3 DEF IInv, TypeOK
<1>4. MachineInv'
  BY <1>1, <1>2, ProcessesAssumption DEF IInv, TypeOK, MachineTypeOK, MachineInv, Booted, Runs, NoPid
<1>5. CommandInv'
  BY <1>1 DEF IInv, CommandInv
<1>6. ManagerInv'
  BY <1>1, <1>2, ProcessesAssumption DEF IInv, ManagerInv, Booted
<1>7. QuietInv' /\ NoLostWorker'
  BY <1>1, <1>2, ProcessesAssumption DEF IInv, QuietInv, NoLostWorker
<1> QED BY <1>3, <1>4, <1>5, <1>6, <1>7 DEF IInv

(* The child is told to start. *)
LEMMA SpawnedSafe ==
    ASSUME IInv, Spawned
    PROVE  IInv'
<1> USE DEF Spawned
<1>1. /\ UNCHANGED <<creds, child, childBooted, timedOut, start, awaited, stop, stopping, restart,
                     monitor, status, events, crashes>>
      /\ UNCHANGED <<orphans, doomed, sup, worker, restarts, pid, lock, command>>
  BY DEF manager, starting, machine, supervisor
<1>2. /\ child \in Workers /\ child \notin CliWorkers
      /\ proc' \in [Workers \cup CliWorkers -> {"free", "forked", "told", "booted", "ready", "dead"}]
      /\ \A w \in Workers \cup CliWorkers : w # child => proc'[w] = proc[w]
      /\ proc'[child] = "told"
  BY ProcessesAssumption DEF IInv, TypeOK, MachineTypeOK
<1>3. TypeOK'
  BY <1>1, <1>2 DEF IInv, TypeOK, MachineTypeOK
<1>4. MachineInv'
  BY <1>1, <1>2, ProcessesAssumption DEF IInv, TypeOK, MachineTypeOK, MachineInv, Booted, Runs
<1>5. CommandInv'
  <2>1. \A p \in Processes : ~Runs(p) => ~Runs(p)'
    BY <1>1, <1>2, ProcessesAssumption DEF Runs, Alive, Processes
  <2>2. command.at \in Processes /\ command.worker \in Processes
    BY Owners DEF IInv, TypeOK, MachineTypeOK
  <2>3. \A w \in Workers : Booted(w)' => Booted(w)
    BY <1>2 DEF Booted
  <2> QED BY <1>1, <2>1, <2>2, <2>3 DEF IInv, CommandInv
<1>6. ManagerInv'
  BY <1>1, <1>2 DEF IInv, ManagerInv, Booted
<1>7. QuietInv' /\ NoLostWorker'
  BY <1>1, <1>2 DEF IInv, QuietInv, NoLostWorker
<1> QED BY <1>3, <1>4, <1>5, <1>6, <1>7 DEF IInv

(* The queue of the child's messages: empty, and with what a step posts. *)
Messages == {"booted", "indexing", "ready", "fatal"}

(* An empty queue of messages. *)
LEMMA NoMessages == <<>> \in Seq({"booted", "indexing", "ready", "fatal"})
  OBVIOUS

(* See Messages. *)
LEMMA Posted ==
    ASSUME TypeOK, NEW w, NEW message \in Messages
    PROVE  /\ Post(w, <<message>>) => events' \in Seq(Messages)
           /\ Post(w, <<"booted", "indexing">>) => events' \in Seq(Messages)
<1>1. <<message>> \in Seq(Messages) /\ <<"booted", "indexing">> \in Seq(Messages)
  BY DEF Messages
<1>2. events \in Seq(Messages)
  BY DEF TypeOK, Messages
<1> QED BY <1>1, <1>2 DEF Post

(* What holds of the machine when a process of the app is gone that was    *)
(* dead.                                                                   *)
LEMMA ChildForgotten ==
    ASSUME IInv, child # NoOne, proc[child] = "dead",
           proc' = [proc EXCEPT ![child] = "free"], doomed' = doomed \ {child},
           UNCHANGED <<orphans, sup, worker, restarts, command>>,
           pid' = pid \/ (lock = "stop" /\ pid.owner = child /\ pid' = NoPid),
           lock' = lock \/ (lock # "cli" /\ lock' = "free")
    PROVE  /\ MachineSafe'
           /\ \A w \in Workers : w # child => proc'[w] = proc[w]
           /\ proc'[child] = "free" /\ child \in Workers
           /\ NoOne \notin orphans
<1>1. /\ child \in Workers /\ child \notin CliWorkers /\ child \notin orphans /\ child # worker
      /\ NoOne \notin orphans
      /\ proc' \in [Workers \cup CliWorkers -> {"free", "forked", "told", "booted", "ready", "dead"}]
      /\ \A w \in Workers \cup CliWorkers : w # child => proc'[w] = proc[w]
      /\ proc'[child] = "free"
  BY ProcessesAssumption DEF IInv, TypeOK, MachineTypeOK, ManagerInv
<1>2. MachineTypeOK'
  <2>1. pid' \in PidFiles
    BY Owners DEF IInv, TypeOK, MachineTypeOK, PidFiles
  <2>2. orphans \subseteq doomed' /\ doomed' \subseteq Workers \cup CliWorkers
    BY <1>1 DEF IInv, TypeOK, MachineTypeOK
  <2>3. lock' \in {"free", "start", "stop", "cli"} /\ (lock' = "cli") = (command' # NoCommand)
    BY DEF IInv, TypeOK, MachineTypeOK
  <2> QED BY <1>1, <2>1, <2>2, <2>3 DEF IInv, TypeOK, MachineTypeOK, PidFiles
<1>3. /\ \A w \in Workers : Booted(w)' => Booted(w) /\ w # child
      /\ Runs(Cli)' = Runs(Cli)
  BY <1>1 DEF Booted, Runs
<1>4. MachineInv'
  BY <1>1, <1>3, ProcessesAssumption
  DEF IInv, TypeOK, MachineTypeOK, MachineInv, CommandInv, Booted, NoPid
<1>5. CommandInv'
  <2>1. \A p \in Processes : ~Runs(p) => ~Runs(p)'
    BY <1>1, ProcessesAssumption DEF Runs, Alive, Processes
  <2>2. command.at \in Processes /\ command.worker \in Processes
    BY Owners DEF IInv, TypeOK, MachineTypeOK
  <2> QED BY <1>3, <2>1, <2>2 DEF IInv, CommandInv, NoPid
<1> QED BY <1>1, <1>2, <1>4, <1>5 DEF MachineSafe

(* The child ends before it booted. *)
LEMMA ExitBeforeBootSafe ==
    ASSUME IInv, ExitBeforeBoot
    PROVE  IInv'
<1> USE DEF ExitBeforeBoot, ChildGone, StartFails, ScheduleRestart, UnchangedByEvents
<1>1. /\ MachineSafe' /\ child \in Workers /\ proc'[child] = "free" /\ NoOne \notin orphans
      /\ \A w \in Workers : w # child => proc'[w] = proc[w]
  BY ChildForgotten DEF IInv, ManagerInv, supervisor
<1>2. TypeOK'
  BY <1>1, NoMessages DEF IInv, TypeOK, MachineSafe
<1>3. ManagerInv'
  BY <1>1 DEF IInv, ManagerInv
<1>4. QuietInv' /\ NoLostWorker'
  BY <1>1 DEF IInv, QuietInv, NoLostWorker
<1> QED BY <1>1, <1>2, <1>3, <1>4 DEF IInv, MachineSafe

(* It ends after that, and nobody asked it to. *)
LEMMA ExitUnexpectedSafe ==
    ASSUME IInv, ExitUnexpected
    PROVE  IInv'
<1> USE DEF ExitUnexpected, ChildGone, RestartAfterExit, ScheduleRestart, UnchangedByEvents
<1>1. /\ MachineSafe' /\ child \in Workers /\ proc'[child] = "free" /\ NoOne \notin orphans
      /\ \A w \in Workers : w # child => proc'[w] = proc[w]
  BY ChildForgotten DEF supervisor
<1>2. TypeOK'
  BY <1>1, NoMessages DEF IInv, TypeOK, MachineSafe, starting
<1>3. ManagerInv'
  BY <1>1 DEF IInv, ManagerInv, starting
<1>4. QuietInv' /\ NoLostWorker'
  BY <1>1 DEF IInv, QuietInv, NoLostWorker, starting
<1> QED BY <1>1, <1>2, <1>3, <1>4 DEF IInv, MachineSafe

(* It ends and nobody hears. *)
LEMMA ExitUnheardSafe ==
    ASSUME IInv, ExitUnheard
    PROVE  IInv'
<1> USE DEF ExitUnheard, ChildGone, UnchangedByEvents
<1>1. /\ MachineSafe' /\ child \in Workers /\ proc'[child] = "free" /\ NoOne \notin orphans
      /\ \A w \in Workers : w # child => proc'[w] = proc[w]
  BY ChildForgotten DEF supervisor
<1>2. TypeOK'
  BY <1>1, NoMessages DEF IInv, TypeOK, MachineSafe, starting
<1>3. ManagerInv'
  BY <1>1 DEF IInv, ManagerInv, starting
<1>4. QuietInv' /\ NoLostWorker'
  BY <1>1 DEF IInv, QuietInv, NoLostWorker, starting
<1> QED BY <1>1, <1>2, <1>3, <1>4 DEF IInv, MachineSafe

(* The stop sees the child end: its record is removed and the manager idle.*)
LEMMA StopExitedSafe ==
    ASSUME IInv, StopExited
    PROVE  IInv'
<1> USE DEF StopExited, Terminating, StopEnds
<1>1. lock = "stop" /\ stopping /\ start = "none" /\ ~restart /\ ~monitor
  BY DEF IInv, ManagerInv, QuietInv
<1>2. /\ MachineSafe' /\ child \in Workers /\ proc'[child] = "free" /\ NoOne \notin orphans
      /\ \A w \in Workers : w # child => proc'[w] = proc[w]
  BY <1>1, ChildForgotten DEF supervisor, RemovePid
<1>3. TypeOK'
  BY <1>2, NoMessages DEF IInv, TypeOK, MachineSafe, starting
<1>4. ManagerInv'
  BY <1>1, <1>2 DEF IInv, ManagerInv, starting
<1>5. QuietInv' /\ NoLostWorker'
  BY <1>1, <1>2 DEF IInv, QuietInv, NoLostWorker, starting
<1> QED BY <1>2, <1>3, <1>4, <1>5 DEF IInv, MachineSafe

(* A worker of the app writes to the pid file when it boots and when it is *)
(* ready: there is no supervisor then, and no other worker has booted.     *)
LEMMA OwnerWrites ==
    ASSUME IInv, NEW w \in Workers, NEW state \in {"booted", "ready"}, NEW ready \in BOOLEAN,
           proc[w] \notin {"free", "dead"}, sup = "down", command.op # "stopped",
           \A v \in Workers : Booted(v) => v = w,
           proc' = [proc EXCEPT ![w] = state],
           pid' = [owner |-> w, ready |-> ready, worker |-> NoOne],
           Booted(w) => pid.owner = w,
           ~Booted(w) => lock = "start",
           UNCHANGED <<orphans, doomed, sup, worker, restarts, lock, command>>
    PROVE  /\ MachineSafe' /\ proc'[w] = state
           /\ \A v \in Workers : v # w => proc'[v] = proc[v]
<1>1. /\ w \notin CliWorkers /\ w # worker /\ w # Cli /\ w # NoOne
      /\ proc' \in [Workers \cup CliWorkers -> {"free", "forked", "told", "booted", "ready", "dead"}]
      /\ \A v \in Workers \cup CliWorkers : v # w => proc'[v] = proc[v]
      /\ proc'[w] = state
  BY ProcessesAssumption DEF IInv, TypeOK, MachineTypeOK
<1>2. MachineTypeOK'
  <2>1. pid' \in PidFiles
    BY PidFile, Owners
  <2> QED BY <1>1, <2>1 DEF IInv, TypeOK, MachineTypeOK, PidFiles
<1>3. pid'.owner = w
  OBVIOUS
<1>4. MachineInv'
  BY <1>1, <1>3, ProcessesAssumption DEF IInv, TypeOK, MachineTypeOK, MachineInv, Booted, Runs
<1>5. CommandInv'
  <2>1. /\ lock = "cli" <=> command.op # "none"
        /\ lock = "cli" => Booted(w)
    BY DEF IInv, CommandInv
  <2>2. \A v \in Workers : Booted(v)' => v = w
    BY <1>1 DEF Booted
  <2> QED BY <1>3, <2>1, <2>2 DEF IInv, CommandInv
<1> QED BY <1>1, <1>2, <1>4, <1>5 DEF MachineSafe

(* A child that was told to start and not to end boots while its start     *)
(* holds the lock.                                                         *)
LEMMA WorkerBootsSafe ==
    ASSUME IInv, NEW w \in Workers, WorkerBoots(w)
    PROVE  IInv'
<1> USE DEF WorkerBoots
<1>1. /\ UNCHANGED <<creds, child, childBooted, timedOut, start, awaited, stop, stopping, restart,
                     monitor, status, crashes>>
      /\ UNCHANGED <<orphans, doomed, sup, worker, restarts, lock, command>>
  BY DEF manager, starting, supervisor
<1>2. /\ w = child /\ start = "boot" /\ lock = "start" /\ sup = "down" /\ command.op = "none"
      /\ ~Booted(w) /\ \A v \in Workers : Booted(v) => v = w
  <2>1. w \notin orphans /\ ~Booted(w)
    BY DEF IInv, MachineInv, Booted
  <2>2. w = child /\ w # NoOne
    BY <2>1, ProcessesAssumption DEF IInv, NoLostWorker
  <2>3. start = "boot"
    BY <2>2 DEF IInv, ManagerInv
  <2> QED BY <2>1, <2>2, <2>3 DEF IInv, CommandInv, ManagerInv
<1>3. /\ MachineSafe' /\ proc'[w] = "booted"
      /\ \A v \in Workers : v # w => proc'[v] = proc[v]
  BY <1>1, <1>2, OwnerWrites
<1>4. TypeOK'
  <2>1. events' \in Seq(Messages)
    BY Posted DEF IInv, Messages
  <2> QED BY <1>1, <1>3, <2>1 DEF IInv, TypeOK, MachineSafe, Messages
<1>5. ManagerInv'
  BY <1>1, <1>2, <1>3 DEF IInv, ManagerInv, Booted
<1>6. QuietInv' /\ NoLostWorker'
  BY <1>1, <1>2, <1>3 DEF IInv, QuietInv, NoLostWorker
<1> QED BY <1>3, <1>4, <1>5, <1>6 DEF IInv, MachineSafe

(* A worker that has booted becomes ready, as an orphan too. *)
LEMMA WorkerReadySafe ==
    ASSUME IInv, NEW w \in Workers, WorkerReady(w)
    PROVE  IInv'
<1> USE DEF WorkerReady
<1>1. /\ UNCHANGED <<creds, child, childBooted, timedOut, start, awaited, stop, stopping, restart,
                     monitor, status, crashes>>
      /\ UNCHANGED <<orphans, doomed, sup, worker, restarts, lock, command>>
  BY DEF manager, starting, supervisor
<1>2. /\ Booted(w) /\ pid.owner = w /\ sup = "down" /\ command.op # "stopped"
      /\ \A v \in Workers : Booted(v) => v = w
  BY DEF IInv, MachineInv, CommandInv, Booted
<1>3. /\ MachineSafe' /\ proc'[w] = "ready"
      /\ \A v \in Workers : v # w => proc'[v] = proc[v]
  BY <1>1, <1>2, OwnerWrites
<1>4. TypeOK'
  <2>1. events' \in Seq(Messages)
    BY Posted DEF IInv, Messages
  <2> QED BY <1>1, <1>3, <2>1 DEF IInv, TypeOK, MachineSafe, Messages
<1>5. ManagerInv'
  BY <1>1, <1>2, <1>3 DEF IInv, ManagerInv, Booted, Post
<1>6. QuietInv' /\ NoLostWorker'
  BY <1>1, <1>2, <1>3 DEF IInv, QuietInv, NoLostWorker
<1> QED BY <1>3, <1>4, <1>5, <1>6 DEF IInv, MachineSafe

(* A worker of the app ends; the app hears of its own. *)
LEMMA WorkerEndsSafe ==
    ASSUME IInv, NEW w \in Workers, WorkerEnds(w)
    PROVE  IInv'
<1> USE DEF WorkerEnds
<1>1. /\ UNCHANGED <<creds, child, childBooted, timedOut, start, awaited, stop, stopping, restart,
                     monitor, status, crashes>>
      /\ UNCHANGED <<sup, worker, restarts, pid, lock, command>>
  BY DEF manager, starting, machine, supervisor
<1>2. /\ w \notin CliWorkers /\ w # worker /\ proc[w] \notin {"free", "dead"}
      /\ proc' \in [Workers \cup CliWorkers -> {"free", "forked", "told", "booted", "ready", "dead"}]
      /\ \A v \in Workers \cup CliWorkers : v # w => proc'[v] = proc[v]
      /\ proc'[w] = IF w \in orphans THEN "free" ELSE "dead"
      /\ w \notin orphans'
      /\ orphans' = orphans \ {w} /\ (doomed' = doomed \ {w} \/ UNCHANGED doomed)
  BY ProcessesAssumption DEF IInv, TypeOK, MachineTypeOK, Alive
<1>3. w = child <=> w \notin orphans
  BY <1>2 DEF IInv, ManagerInv, NoLostWorker
<1>4. TypeOK'
  <2>1. events' \in Seq({"booted", "indexing", "ready", "fatal"})
    <3>1. CASE UNCHANGED events
      BY <3>1 DEF IInv, TypeOK
    <3>2. CASE Post(w, <<"fatal">>)
      BY <3>2, Posted DEF IInv, Messages
    <3> QED BY <3>1, <3>2
  <2>2. orphans' \subseteq doomed' /\ doomed' \subseteq Workers \cup CliWorkers
    BY <1>2 DEF IInv, TypeOK, MachineTypeOK
  <2>3. MachineTypeOK'
    BY <1>1, <1>2, <2>2 DEF IInv, TypeOK, MachineTypeOK
  <2> QED BY <1>1, <2>1, <2>3 DEF IInv, TypeOK
<1>5. \A v \in Workers : Booted(v)' => Booted(v) /\ v # w
  BY <1>2 DEF Booted
<1>6. MachineInv'
  <2>1. \A c \in CliWorkers : proc'[c] = proc[c] /\ (c \in orphans' <=> c \in orphans)
    BY <1>2
  <2>2. \A v \in orphans' : Booted(v)'
    BY <1>2 DEF IInv, TypeOK, MachineTypeOK, MachineInv, Booted
  <2>3. worker # NoOne => Booted(worker)' /\ worker \notin orphans'
    BY <1>1, <1>2 DEF IInv, TypeOK, MachineTypeOK, MachineInv, Booted
  <2> QED BY <1>1, <1>5, <2>1, <2>2, <2>3 DEF IInv, MachineInv, Runs
<1>7. CommandInv'
  <2>1. \A p \in Processes : ~Runs(p) => ~Runs(p)'
    BY <1>1, <1>2, ProcessesAssumption DEF Runs, Alive, Processes
  <2>2. command.at \in Processes /\ command.worker \in Processes
    BY Owners DEF IInv, TypeOK, MachineTypeOK
  <2> QED BY <1>1, <1>5, <2>1, <2>2 DEF IInv, CommandInv
<1>8. ManagerInv'
  <2>1. /\ child \notin orphans'
        /\ child # NoOne /\ proc'[child] \in {"forked", "told"} => start = "boot" \/ child \in doomed'
        /\ timedOut /\ start = "boot" => child \in doomed'
    BY <1>2, <1>3 DEF IInv, TypeOK, ManagerInv
  <2>2. child # NoOne /\ events' # <<>> => proc'[child] \in {"booted", "ready", "dead"}
    BY <1>2, <1>3 DEF IInv, TypeOK, ManagerInv, Post
  <2> QED BY <1>1, <1>5, <2>1, <2>2 DEF IInv, ManagerInv
<1>9. QuietInv' /\ NoLostWorker'
  BY <1>1, <1>2, <1>3 DEF IInv, QuietInv, NoLostWorker
<1> QED BY <1>4, <1>6, <1>7, <1>8, <1>9 DEF IInv

(* The app goes away: its workers that have booted are orphans, the others *)
(* are gone with it, and so is its lock.                                   *)
LEMMA AppRestartsSafe ==
    ASSUME IInv, AppRestarts
    PROVE  IInv'
<1> USE DEF AppRestarts
<1> DEFINE left == {w \in Workers : proc[w] \in {"booted", "ready"}}
<1>1. UNCHANGED <<sup, worker, restarts, pid, command>>
  BY DEF supervisor
<1>2. /\ proc' \in [Workers \cup CliWorkers -> {"free", "forked", "told", "booted", "ready", "dead"}]
      /\ \A c \in CliWorkers : proc'[c] = proc[c]
      /\ \A w \in Workers : proc'[w] = IF w \in left THEN proc[w] ELSE "free"
      /\ orphans' = (orphans \ Workers) \cup left
      /\ doomed' = (doomed \ Workers) \cup left
  BY ProcessesAssumption DEF IInv, TypeOK, MachineTypeOK
<1>3. TypeOK'
  <2>1. orphans' \subseteq doomed' /\ doomed' \subseteq Workers \cup CliWorkers
    BY <1>2 DEF IInv, TypeOK, MachineTypeOK
  <2>2. lock' \in {"free", "start", "stop", "cli"} /\ (lock' = "cli") = (command' # NoCommand)
    BY <1>1 DEF IInv, TypeOK, MachineTypeOK
  <2>3. MachineTypeOK'
    BY <1>1, <1>2, <2>1, <2>2 DEF IInv, TypeOK, MachineTypeOK
  <2>4. crashes' \in 0 .. MaxCrashes
    BY CrashesAssumption DEF IInv, TypeOK
  <2> QED BY <2>3, <2>4, NoMessages DEF TypeOK
<1>4. /\ \A w \in Workers : Booted(w)' => Booted(w)
      /\ \A c \in CliWorkers : proc'[c] = proc[c] /\ (c \in orphans' <=> c \in orphans)
      /\ \A w \in orphans' : Booted(w)'
  <2>1. \A c \in CliWorkers : c \notin left /\ c \notin Workers
    BY ProcessesAssumption
  <2>2. \A w \in orphans : w \in Workers \cup CliWorkers /\ Booted(w)
    BY DEF IInv, TypeOK, MachineTypeOK, MachineInv
  <2> QED BY <1>2, <2>1, <2>2 DEF Booted
<1>5. MachineInv'
  <2>1. worker # NoOne => worker \in CliWorkers
    BY DEF IInv, TypeOK, MachineTypeOK
  <2>2. worker # NoOne => Booted(worker)' /\ worker \notin orphans'
    BY <1>1, <1>4, <2>1 DEF IInv, MachineInv, Booted
  <2> QED BY <1>1, <1>4, <2>2 DEF IInv, MachineInv, CommandInv, Runs
<1>6. CommandInv'
  <2>1. \A p \in Processes : ~Runs(p) => ~Runs(p)'
    BY <1>1, <1>2, ProcessesAssumption DEF Runs, Alive, Processes
  <2>2. command.at \in Processes /\ command.worker \in Processes
    BY Owners DEF IInv, TypeOK, MachineTypeOK
  <2> QED BY <1>1, <1>4, <2>1, <2>2 DEF IInv, CommandInv
<1>7. ManagerInv'
  <2>1. NoOne \notin orphans' /\ lock' \in {"free", "cli"}
    BY <1>2, <1>3, ProcessesAssumption DEF TypeOK, MachineTypeOK
  <2> QED BY <2>1 DEF ManagerInv
<1>8. QuietInv' /\ NoLostWorker'
  BY <1>2 DEF QuietInv, NoLostWorker
<1> QED BY <1>3, <1>5, <1>6, <1>7, <1>8 DEF IInv

-----------------------------------------------------------------------------
(* The invariant, and what follows from it *)

(* The invariant holds at first, and is kept where nothing moves. *)
LEMMA InitInv == Init => IInv
<1> SUFFICES ASSUME Init PROVE IInv
  OBVIOUS
<1> USE DEF Init, CliInit
<1>1. TypeOK
  <2>1. pid \in PidFiles /\ command \in Records
    BY Owners DEF NoCommand, Records
  <2>2. /\ proc \in [Workers \cup CliWorkers -> {"free", "forked", "told", "booted", "ready", "dead"}]
        /\ (lock = "cli") = (command # NoCommand)
    OBVIOUS
  <2>3. MachineTypeOK
    BY <2>1, <2>2, RestartsAssumption DEF MachineTypeOK, PidFiles, Records
  <2>4. crashes \in 0 .. MaxCrashes
    BY CrashesAssumption
  <2>5. events \in Seq({"booted", "indexing", "ready", "fatal"})
    BY NoMessages
  <2> HIDE DEF Init, CliInit
  <2>6. /\ creds \in BOOLEAN /\ childBooted \in BOOLEAN /\ timedOut \in BOOLEAN
        /\ child \in Workers \cup {NoOne}
        /\ start \in {"none", "orphan", "lock", "boot"}
        /\ awaited \in Workers \cup CliWorkers \cup {NoOne}
    BY DEF Init
  <2>7. /\ stop \in {"none", "wait", "lock", "shutdown", "kill"}
        /\ stopping \in BOOLEAN /\ restart \in BOOLEAN /\ monitor \in BOOLEAN
        /\ status \in {"idle", "starting", "indexing", "ready", "stopping", "error"}
    BY DEF Init
  <2> QED BY <2>3, <2>4, <2>5, <2>6, <2>7 DEF TypeOK
<1>2. MachineInv /\ CommandInv
  BY ProcessesAssumption DEF MachineInv, CommandInv, Runs, Booted, NoPid, NoCommand
<1>3. ManagerInv /\ QuietInv /\ NoLostWorker
  BY DEF ManagerInv, QuietInv, NoLostWorker, Booted
<1> QED BY <1>1, <1>2, <1>3 DEF IInv

(* See InitInv. *)
LEMMA StutterInv == IInv /\ UNCHANGED vars => IInv'
  BY DEF IInv, TypeOK, MachineTypeOK, MachineInv, CommandInv, ManagerInv, QuietInv, NoLostWorker,
         Booted, Runs, Alive, vars, manager, starting, workers, machine, supervisor

(* Every step keeps the invariant. *)
LEMMA NextInv == OrphansSeen /\ IInv /\ [Next]_vars => IInv'
<1> SUFFICES ASSUME OrphansSeen, IInv, [Next]_vars PROVE IInv'
  OBVIOUS
<1>1. CASE EnsureRunning \/ OrphanGone \/ StartGivesUp \/ StartFindsDaemon \/ ForkWorker
  BY <1>1, EnsureRunningSafe, OrphanGoneSafe, StartGivesUpSafe, StartFindsDaemonSafe, ForkWorkerSafe
<1>2. CASE \/ Spawned \/ BootAccepted \/ BootIgnored \/ Progress \/ Fatal \/ TokenRotated
           \/ ExitBeforeBoot \/ ExitUnexpected \/ ExitUnheard \/ BootTimeout \/ KillTimeout
           \/ RestartTimer \/ Poll
  BY <1>2, SpawnedSafe, BootAcceptedSafe, BootIgnoredSafe, ProgressSafe, FatalSafe,
     TokenRotatedSafe, ExitBeforeBootSafe, ExitUnexpectedSafe, ExitUnheardSafe, BootTimeoutSafe,
     KillTimeoutSafe, RestartTimerSafe, PollSafe
<1>3. CASE \/ Stop \/ StopWaited \/ StopNothing \/ StopShutdown \/ StopLockTimeout
           \/ StopGraceOver \/ StopKillTimeout \/ StopExited
  BY <1>3, StopSafe, StopWaitedSafe, StopNothingSafe, StopShutdownSafe, StopLockTimeoutSafe,
     StopGraceOverSafe, StopKillTimeoutSafe, StopExitedSafe
<1>4. CASE \E w \in Workers : WorkerBoots(w) \/ WorkerReady(w) \/ WorkerEnds(w)
  BY <1>4, WorkerBootsSafe, WorkerReadySafe, WorkerEndsSafe
<1>5. CASE AppRestarts
  BY <1>5, AppRestartsSafe
<1>6. CASE ExternalDaemon
  BY <1>6, ExternalDaemonSafe
<1>7. CASE UNCHANGED vars
  BY <1>7, StutterInv
<1> QED BY <1>1, <1>2, <1>3, <1>4, <1>5, <1>6, <1>7 DEF Next

(* The inductive invariant of the machine with the app and the CLI, where  *)
(* an orphan is seen for what it is.                                       *)
THEOREM DaemonInvariant == OrphansSeen /\ Spec => []IInv
  <1>1. OrphansSeen => (Spec => []IInv)
    <2> SUFFICES ASSUME OrphansSeen PROVE Spec => []IInv
      OBVIOUS
    <2>1. IInv /\ [Next]_vars => IInv'
      BY NextInv
    <2> QED BY InitInv, <2>1, PTL DEF Spec
  <1> QED BY <1>1

(* What the invariant promises: one daemon, which the pid file finds, that *)
(* agendex stop has ended when it says so, and that an idle manager has    *)
(* nothing to do with.                                                     *)
LEMMA InvariantIsSafe == IInv => DaemonIsSafe
<1> SUFFICES ASSUME IInv PROVE DaemonIsSafe
  OBVIOUS
<1>1. OneDaemon
  <2>1. \A w \in Workers : Serves(w) => Booted(w)
    BY DEF Serves, Booted
  <2>2. \A v, w \in Workers : Serves(v) /\ Serves(w) => v = w
    BY <2>1 DEF IInv, MachineInv
  <2>3. \A c \in CliWorkers : Serves(c) => c = worker /\ worker # NoOne /\ sup # "down"
    BY ProcessesAssumption DEF Serves, IInv, TypeOK, MachineTypeOK, MachineInv
  <2>4. \A w \in Workers : Serves(w) => sup = "down"
    BY <2>1 DEF IInv, MachineInv
  <2> QED BY <2>2, <2>3, <2>4 DEF OneDaemon
<1>2. DaemonIsFindable
  BY DEF DaemonIsFindable, IInv, TypeOK, MachineInv, Booted
<1>3. StopIsTrue
  <2> SUFFICES ASSUME command.op = "stopped"
               PROVE  /\ ~Runs(command.at) /\ ~Runs(command.worker) /\ ~Runs(Cli)
                      /\ \A w \in Workers \cup CliWorkers : ~Serves(w)
    BY DEF StopIsTrue
  <2>1. /\ ~Runs(command.at) /\ ~Runs(command.worker) /\ sup = "down"
        /\ \A w \in Workers : ~Booted(w)
    BY DEF IInv, CommandInv
  <2>2. \A c \in CliWorkers : Serves(c) => sup # "down"
    BY ProcessesAssumption DEF Serves, IInv, TypeOK, MachineTypeOK, MachineInv
  <2> QED BY <2>1, <2>2 DEF Runs, Serves, Booted
<1>4. IdleIsQuiet
  BY DEF IdleIsQuiet, IInv, ManagerInv, QuietInv
<1> QED BY <1>1, <1>2, <1>3, <1>4 DEF DaemonIsSafe, IInv

(* One daemon, which somebody owns, the pid file finds and an idle manager *)
(* has nothing to do with (desktop-daemon-manager.ts, cli.ts, daemon.ts).  *)
THEOREM DaemonAlwaysSafe == OrphansSeen /\ Spec => []DaemonIsSafe
  BY DaemonInvariant, InvariantIsSafe, PTL

-----------------------------------------------------------------------------
(* The startup lock: its inductive invariant *)

Claiming == {"verify", "check", "reclaim", "unclaim", "forget"}
Seeing == {"claim", "inspect", "drop"} \cup Claiming
Owning == {"hold", "beat", "remove"}

(* What the files say of their owners. *)
FilesInv ==
    /\ \A p \in Procs : seen[p] # None <=> pc[p] \in Seeing
    /\ lockFile # None /\ Lives(lockFile.owner) => pc[lockFile.owner] \in Owning
    /\ \A c \in claims :
         Lives(c.owner) => pc[c.owner] \in Claiming /\ seen[c.owner].stamp = c.key
    /\ \A c, d \in claims : c.key = d.key \/ c.owner = d.owner => c = d

(* A stamp tells whose lock it was. *)
StampInv ==
    \A p \in Procs : seen[p] # None =>
      /\ \A q \in Procs : seen[q] # None /\ seen[p].stamp = seen[q].stamp =>
                            seen[p].owner = seen[q].owner
      /\ lockFile # None /\ seen[p].stamp = lockFile.stamp => seen[p].owner = lockFile.owner

(* Before a live process outlives a lease, what is stale is of a dead one, *)
(* and nobody claims a lock of its own.                                    *)
CalmInv == stalls = 0 =>
    /\ lockFile # None => ~lockFile.old
    /\ \A c \in claims :
         /\ ~c.old
         /\ lockFile # None /\ lockFile.stamp = c.key => lockFile.owner # c.owner
    /\ \A p \in Procs : seen[p] # None =>
         /\ ~Lives(seen[p].owner)
         /\ \A c \in claims : c.key = seen[p].stamp => c.owner # seen[p].owner

OneDead == \A p, q \in Dead : p = q

(* While one process at most is dead, a claim is its owner's alone, and    *)
(* who is about to remove a stale lock removes that one.                   *)
ClaimsHold(p) ==
    /\ pc[p] # "drop"
    /\ pc[p] \in Claiming => MyClaim(p) # {}
    /\ pc[p] \in {"check", "reclaim"} => StillThere(p)
ReclaimInv == stalls = 0 /\ OneDead => \A p \in Procs : ClaimsHold(p)

Few == OneDead \/ Cardinality(Procs) <= 3
OwnInv == stalls = 0 /\ Few => \A p \in Procs : pc[p] \in Owning => Mine(p)

(* The way of a process that is alone. *)
LoneWay(p) ==
    /\ pc[p] # "refused"
    /\ pc[p] \in {"publish", "observe", "claim"} /\ lockFile # None /\ attempt[p] >= 1
         => ClaimAt(lockFile.stamp) = {}
    /\ pc[p] = "publish" /\ attempt[p] >= 2 => lockFile = None
    /\ pc[p] \in Seeing \cup {"observe"} => attempt[p] < 2
    /\ pc[p] \in {"observe", "claim", "inspect", "drop", "verify", "check", "reclaim"}
         => lockFile # None
    /\ pc[p] \in {"claim", "inspect", "drop", "verify", "check", "reclaim"}
         => seen[p].stamp = lockFile.stamp
    /\ pc[p] \in {"inspect", "drop"} => attempt[p] = 0
    /\ pc[p] = "inspect" => ClaimAt(seen[p].stamp) # {}
    /\ pc[p] \in {"verify", "check", "reclaim"} => MyClaim(p) # {}
    /\ pc[p] \in {"unclaim", "forget"} => lockFile = None
AloneInv ==
    \A p \in Procs : alone[p] =>
      /\ \A q \in Procs : Lives(q) => q = p
      /\ Attempts >= 3 => LoneWay(p)

LockInv == LockTypeOK /\ FilesInv /\ StampInv /\ CalmInv /\ ReclaimInv /\ OwnInv /\ AloneInv

-----------------------------------------------------------------------------
(* Counting *)

(* The values of a function over the processes are no more than these. *)
LEMMA Values ==
    ASSUME NEW f, f = [p \in Procs |-> f[p]]
    PROVE  /\ IsFiniteSet({f[p] : p \in Procs})
           /\ Cardinality({f[p] : p \in Procs}) <= Cardinality(Procs)
           /\ Cardinality({f[p] : p \in Procs}) \in Nat
<1> DEFINE T == {f[p] : p \in Procs}
<1>1. f \in Surjection(Procs, T)
  BY DEF Surjection
<1>2. IsFiniteSet(T) /\ Cardinality(T) <= Cardinality(Procs)
  BY <1>1, FS_Surjection, ProcsAssumption
<1>. QED
  BY <1>2, FS_CardinalityType

(* The stamps in use are two for each process and one at most. *)
LEMMA StampIsFree ==
    ASSUME LockTypeOK, FilesInv
    PROVE  Fresh \in Stamps /\ Fresh \notin Used
<1> DEFINE N == Cardinality(Procs)
           f == [p \in Procs |-> (CHOOSE c \in claims : c.owner = p).key]
           g == [p \in Procs |-> seen[p].stamp]
           A == {lockFile.stamp}
           F == {f[p] : p \in Procs}
           G == {g[p] : p \in Procs}
<1>1. N \in Nat
  BY ProcsAssumption, FS_CardinalityType
<1>2. /\ IsFiniteSet(F) /\ Cardinality(F) \in Nat /\ Cardinality(F) <= N
      /\ IsFiniteSet(G) /\ Cardinality(G) \in Nat /\ Cardinality(G) <= N
  <2> HIDE DEF f, g
  <2>1. f = [p \in Procs |-> f[p]] /\ g = [p \in Procs |-> g[p]]
    BY DEF f, g
  <2>. QED
    BY <2>1, Values
<1>3. IsFiniteSet(A) /\ Cardinality(A) = 1
  BY FS_Singleton
<1>4. IsFiniteSet(A \cup F) /\ Cardinality(A \cup F) <= 1 + N /\ Cardinality(A \cup F) \in Nat
  <2>1. IsFiniteSet(A \cup F)
        /\ Cardinality(A \cup F) = Cardinality(A) + Cardinality(F) - Cardinality(A \cap F)
    BY <1>2, <1>3, FS_Union
  <2>2. Cardinality(A \cap F) \in Nat
    BY <1>2, <1>3, FS_Intersection, FS_CardinalityType
  <2>3. Cardinality(A \cup F) \in Nat
    BY <2>1, FS_CardinalityType
  <2> HIDE DEF A, F, N
  <2>. QED
    BY <1>1, <1>2, <1>3, <2>1, <2>2, <2>3
<1>5. /\ IsFiniteSet((A \cup F) \cup G)
      /\ Cardinality((A \cup F) \cup G) <= 1 + N + N /\ Cardinality((A \cup F) \cup G) \in Nat
  <2>1. IsFiniteSet((A \cup F) \cup G)
        /\ Cardinality((A \cup F) \cup G)
             = Cardinality(A \cup F) + Cardinality(G) - Cardinality((A \cup F) \cap G)
    BY <1>2, <1>4, FS_Union
  <2>2. Cardinality((A \cup F) \cap G) \in Nat
    BY <1>2, <1>4, FS_Intersection, FS_CardinalityType
  <2>3. Cardinality((A \cup F) \cup G) \in Nat
    BY <2>1, FS_CardinalityType
  <2> HIDE DEF A, F, G, N
  <2>. QED
    BY <1>1, <1>2, <1>4, <2>1, <2>2, <2>3
<1>6. Used \subseteq (A \cup F) \cup G
  <2>1. ASSUME NEW c \in claims PROVE c.key \in F
    <3>1. c.owner \in Procs
      BY DEF LockTypeOK
    <3>2. (CHOOSE d \in claims : d.owner = c.owner) = c
      BY DEF FilesInv
    <3>3. f[c.owner] = c.key
      BY <3>1, <3>2
    <3> HIDE DEF f
    <3>. QED
      BY <3>1, <3>3
  <2>2. ASSUME NEW p \in Procs PROVE seen[p].stamp \in G
    BY DEF G
  <2> HIDE DEF F, G
  <2>. QED
    BY <2>1, <2>2 DEF Used
<1>7. \E s \in Stamps : s \notin Used
  <2>1. IsFiniteSet(Stamps) /\ Cardinality(Stamps) = 2 * N + 2
    BY <1>1, FS_Interval DEF Stamps
  <2>2. ~(Stamps \subseteq (A \cup F) \cup G)
    <3> SUFFICES ASSUME Stamps \subseteq (A \cup F) \cup G PROVE FALSE
      OBVIOUS
    <3>1. Cardinality(Stamps) <= Cardinality((A \cup F) \cup G)
      BY <1>5, FS_Subset
    <3> HIDE DEF A, F, G, N
    <3>. QED
      BY <1>1, <1>5, <2>1, <3>1
  <2>. QED
    BY <1>6, <2>2
<1>. QED
  BY <1>7 DEF Fresh

(* Two dead leave at most one of three. *)
LEMMA OneLeft ==
    ASSUME Cardinality(Procs) <= 3, ~OneDead,
           NEW p \in Procs, NEW q \in Procs, Lives(p), Lives(q)
    PROVE  p = q
<1>1. SUFFICES ASSUME p # q PROVE FALSE
  OBVIOUS
<1>2. PICK a \in Dead, b \in Dead : a # b
  BY DEF OneDead
<1>3. a \in Procs /\ b \in Procs /\ a \notin {p, q} /\ b \notin {p, q}
  BY <1>2 DEF Dead
<1>4. IsFiniteSet({p}) /\ Cardinality({p}) = 1
  BY FS_Singleton
<1>5. IsFiniteSet({p} \cup {q}) /\ Cardinality({p} \cup {q}) = 2
  BY <1>1, <1>4, FS_AddElement, q \notin {p}
<1>6. IsFiniteSet(({p} \cup {q}) \cup {a}) /\ Cardinality(({p} \cup {q}) \cup {a}) = 3
  BY <1>3, <1>5, FS_AddElement, a \notin {p} \cup {q}
<1>7. IsFiniteSet((({p} \cup {q}) \cup {a}) \cup {b})
      /\ Cardinality((({p} \cup {q}) \cup {a}) \cup {b}) = 4
  BY <1>2, <1>3, <1>6, FS_AddElement, b \notin ({p} \cup {q}) \cup {a}
<1>8. (({p} \cup {q}) \cup {a}) \cup {b} \in SUBSET Procs
  BY <1>3
<1>9. 4 <= Cardinality(Procs) /\ Cardinality(Procs) \in Nat
  BY <1>7, <1>8, FS_Subset, FS_CardinalityType, ProcsAssumption
<1>. QED
  BY <1>9

-----------------------------------------------------------------------------
(* What the steps have in common *)

(* A lock file as a process writes it. *)
LEMMA AFile ==
    ASSUME NEW p \in Procs, NEW s \in Stamps, NEW b \in BOOLEAN
    PROVE  /\ [owner |-> p, stamp |-> s, old |-> b] \in Files
           /\ [owner |-> p, stamp |-> s, old |-> b] # None
           /\ [owner |-> p, stamp |-> s, old |-> b].owner = p
           /\ [owner |-> p, stamp |-> s, old |-> b].stamp = s
           /\ [owner |-> p, stamp |-> s, old |-> b].old = b
<1>1. [owner |-> p, stamp |-> s, old |-> b] \in Files
  BY DEF Files
<1>. QED
  BY <1>1, NoneAssumption

(* The lock a process publishes is as of no earlier stamp. *)
LEMMA NewFile ==
    ASSUME LockTypeOK, FilesInv, NEW p \in Procs
    PROVE  /\ File(p) \in Files /\ File(p) # None
           /\ File(p).owner = p /\ File(p).stamp = Fresh /\ ~File(p).old
<1>1. Fresh \in Stamps
  BY StampIsFree
<1>2. FALSE \in BOOLEAN
  OBVIOUS
<1>. QED
  BY <1>1, <1>2, AFile DEF File

(* A heartbeat renews the stamp and nothing else that matters. *)
LEMMA TouchedFile ==
    ASSUME LockTypeOK, FilesInv, lockFile # None
    PROVE  LET touched == [lockFile EXCEPT !.stamp = Fresh, !.old = FALSE]
           IN  /\ touched \in Files /\ touched # None
               /\ touched.owner = lockFile.owner /\ touched.stamp = Fresh /\ ~touched.old
<1> DEFINE touched == [lockFile EXCEPT !.stamp = Fresh, !.old = FALSE]
<1>1. Fresh \in Stamps
  BY StampIsFree
<1>2. lockFile \in Files
  BY DEF LockTypeOK
<1>3. touched.owner = lockFile.owner /\ touched.stamp = Fresh /\ ~touched.old
  BY <1>2 DEF Files
<1>4. touched \in Files
  BY <1>1, <1>2 DEF Files
<1>. QED
  BY <1>3, <1>4, NoneAssumption

(* The files and what was seen of them. *)
LEMMA FileFields ==
    ASSUME LockTypeOK
    PROVE  /\ None \notin Files
           /\ lockFile # None => lockFile \in Files /\ lockFile.owner \in Procs
                                 /\ lockFile.stamp \in Stamps
           /\ \A c \in claims : c.owner \in Procs /\ c.key \in Stamps
           /\ \A p \in Procs : seen[p] # None => seen[p] \in Files /\ seen[p].owner \in Procs
                                                 /\ seen[p].stamp \in Stamps
  BY NoneAssumption DEF LockTypeOK, Files

(* The fresh stamp is nobody's. *)
LEMMA FreshIsNew ==
    ASSUME LockTypeOK, FilesInv
    PROVE  /\ lockFile # None => lockFile.stamp # Fresh
           /\ \A c \in claims : c.key # Fresh
           /\ \A p \in Procs : seen[p] # None => seen[p].stamp # Fresh
<1>1. Fresh \notin Used
  BY StampIsFree
<1>2. \A c \in claims : c.key \in Used
  BY DEF Used
<1>3. \A p \in Procs : seen[p] # None => seen[p].stamp \in Used
  BY DEF Used
<1>4. lockFile # None => lockFile.stamp \in Used
  <2>1. lockFile # None => lockFile.owner \in Procs
    BY FileFields
  <2>. QED
    BY <2>1 DEF Used
<1>. QED
  BY <1>1, <1>2, <1>3, <1>4

(* One more attempt, or null. *)
LEMMA NextAttemptDoes ==
    ASSUME LockTypeOK, NEW p \in Procs, NextAttempt(p)
    PROVE  /\ pc' = [pc EXCEPT ![p] = pc'[p]]
           /\ pc'[p] \in {"publish", "refused"}
           /\ seen' = [seen EXCEPT ![p] = None]
           /\ attempt' = [attempt EXCEPT ![p] = attempt'[p]]
           /\ attempt'[p] \in 0 .. Attempts - 1
           /\ attempt[p] + 1 < Attempts => pc'[p] = "publish"
           /\ pc'[p] = "publish" => attempt'[p] = attempt[p] + 1
<1>1. Attempts \in Nat /\ attempt[p] \in 0 .. Attempts - 1
  BY AttemptsAssumption DEF LockTypeOK
<1>2. CASE attempt[p] + 1 < Attempts
  BY <1>1, <1>2 DEF NextAttempt, Goto, LockTypeOK
<1>3. CASE ~(attempt[p] + 1 < Attempts)
  BY <1>1, <1>3 DEF NextAttempt, Refuse, Goto, LockTypeOK
<1>. QED
  BY <1>2, <1>3

(* A process that is alone is the only one that takes a step: what has to  *)
(* be shown is its own way.                                                *)
LEMMA AloneKept ==
    ASSUME LockTypeOK, AloneInv, NEW p \in Procs, Lives(p), alone' = alone,
           pc' = [pc EXCEPT ![p] = pc'[p]],
           alone[p] /\ Attempts >= 3 => LoneWay(p)'
    PROVE  AloneInv'
<1>1. ASSUME NEW q \in Procs, alone'[q] PROVE q = p
  BY <1>1 DEF AloneInv
<1>2. ASSUME NEW r \in Procs, Lives(r)' PROVE Lives(r)
  BY <1>2 DEF Lives, LockTypeOK
<1>. QED
  BY <1>1, <1>2 DEF AloneInv

(* The dead stay dead. *)
LEMMA DeadStay ==
    ASSUME LockTypeOK, NEW p \in Procs, Lives(p), pc' = [pc EXCEPT ![p] = pc'[p]]
    PROVE  /\ \A q \in Procs : Lives(q)' => Lives(q)
           /\ Dead \subseteq Dead' /\ (OneDead' => OneDead) /\ (Few' => Few)
<1>1. \A q \in Procs : Lives(q)' => Lives(q)
  BY DEF Lives, LockTypeOK
<1>2. Dead \subseteq Dead'
  BY <1>1 DEF Dead
<1>3. OneDead' => OneDead
  BY <1>2 DEF OneDead
<1>. QED
  BY <1>1, <1>2, <1>3 DEF Few

(* The lock is created only where there is none. *)
LEMMA PublishKeepsInv ==
    ASSUME LockInv, NEW p \in Procs, Publish(p)
    PROVE  LockInv'
<1>0. LockTypeOK /\ FilesInv /\ StampInv /\ CalmInv /\ ReclaimInv /\ OwnInv /\ AloneInv
  BY DEF LockInv
<1>1. /\ pc[p] = "publish" /\ pc' = [pc EXCEPT ![p] = pc'[p]] /\ pc'[p] \in {"hold", "observe"}
      /\ UNCHANGED <<claims, attempt, seen, alone, stalls>>
      /\ pc'[p] = "hold" => lockFile = None /\ lockFile' = File(p)
      /\ pc'[p] = "observe" => lockFile # None /\ lockFile' = lockFile
  BY <1>0 DEF Publish, Goto, LockTypeOK
<1>2. Lives(p) /\ Lives(p)' /\ pc'[p] \notin Seeing /\ pc[p] \notin Seeing
  BY <1>0, <1>1 DEF Lives, Seeing, Claiming, LockTypeOK
<1>3. /\ \A q \in Procs : Lives(q)' <=> Lives(q)
      /\ Dead' = Dead /\ (OneDead' <=> OneDead) /\ (Few' <=> Few)
  BY <1>0, <1>1, <1>2 DEF Lives, Dead, OneDead, Few, LockTypeOK
<1>4. /\ File(p) \in Files /\ File(p) # None
      /\ File(p).owner = p /\ File(p).stamp = Fresh /\ ~File(p).old
  BY <1>0, NewFile
<1>5. LockTypeOK'
  BY <1>0, <1>1, <1>4 DEF LockTypeOK
<1>6. FilesInv'
  BY <1>0, <1>1, <1>2, <1>3, <1>4, FileFields DEF FilesInv, LockTypeOK, Seeing, Claiming, Owning
<1>7. StampInv'
  BY <1>0, <1>1, <1>4, FreshIsNew DEF StampInv
<1>8. CalmInv'
  BY <1>0, <1>1, <1>3, <1>4, FreshIsNew, FileFields DEF CalmInv
<1>9. ReclaimInv'
  BY <1>0, <1>1, <1>3 DEF ReclaimInv, ClaimsHold, Claiming, MyClaim, ClaimAt, StillThere, LockTypeOK
<1>10. OwnInv'
  BY <1>0, <1>1, <1>3, <1>4 DEF OwnInv, Owning, Mine, LockTypeOK
<1>11. AloneInv'
  <2>1. alone[p] /\ Attempts >= 3 => LoneWay(p)'
    BY <1>0, <1>1, <1>2 DEF AloneInv, LoneWay, LockTypeOK, Seeing, Claiming, ClaimAt
  <2>. QED
    BY <1>0, <1>1, <1>2, <2>1, AloneKept
<1>. QED
  BY <1>5, <1>6, <1>7, <1>8, <1>9, <1>10, <1>11 DEF LockInv

-----------------------------------------------------------------------------
(* The steps of acquireDaemonStartLock *)

(* A new call starts with its attempts and knows whether it is alone. *)
LEMMA BeginKeepsInv ==
    ASSUME LockInv, NEW p \in Procs, Begin(p)
    PROVE  LockInv'
<1>0. LockTypeOK /\ FilesInv /\ StampInv /\ CalmInv /\ ReclaimInv /\ OwnInv /\ AloneInv
  BY DEF LockInv
<1>1. /\ pc[p] \in {"idle", "refused"} /\ pc' = [pc EXCEPT ![p] = pc'[p]] /\ pc'[p] = "publish"
      /\ attempt' = [attempt EXCEPT ![p] = 0]
      /\ alone' = [alone EXCEPT ![p] = Procs \ {p} \subseteq Dead]
      /\ UNCHANGED <<lockFile, claims, seen, stalls>>
  BY <1>0 DEF Begin, Goto, LockTypeOK
<1>2. Lives(p) /\ Lives(p)' /\ pc'[p] \notin Seeing /\ pc[p] \notin Seeing
  BY <1>0, <1>1 DEF Lives, Seeing, Claiming, LockTypeOK
<1>3. /\ \A q \in Procs : Lives(q)' <=> Lives(q)
      /\ Dead' = Dead /\ (OneDead' <=> OneDead) /\ (Few' <=> Few)
  BY <1>0, <1>1, <1>2 DEF Lives, Dead, OneDead, Few, LockTypeOK
<1>5. LockTypeOK'
  <2>1. 0 \in 0 .. Attempts - 1
    BY AttemptsAssumption
  <2>2. (Procs \ {p} \subseteq Dead) \in BOOLEAN
    OBVIOUS
  <2>3. alone' \in [Procs -> BOOLEAN]
    BY <1>0, <1>1, <2>2 DEF LockTypeOK
  <2>. QED
    BY <1>0, <1>1, <2>1, <2>3 DEF LockTypeOK
<1>6. FilesInv'
  BY <1>0, <1>1, <1>2, <1>3, FileFields DEF FilesInv, LockTypeOK, Seeing, Claiming, Owning
<1>7. StampInv' /\ CalmInv'
  BY <1>0, <1>1, <1>3, FileFields DEF StampInv, CalmInv
<1>9. ReclaimInv'
  BY <1>0, <1>1, <1>3 DEF ReclaimInv, ClaimsHold, Claiming, MyClaim, ClaimAt, StillThere, LockTypeOK
<1>10. OwnInv'
  BY <1>0, <1>1, <1>3 DEF OwnInv, Owning, Mine, LockTypeOK
<1>11. AloneInv'
  <2>1. ASSUME NEW q \in Procs, alone'[q] PROVE q = p /\ Procs \ {p} \subseteq Dead
    BY <1>0, <1>1, <1>2, <2>1 DEF AloneInv, LockTypeOK, Dead
  <2>2. alone'[p] => \A q \in Procs : Lives(q)' => q = p
    BY <1>3, <2>1 DEF Dead
  <2>3. LoneWay(p)'
    BY <1>0, <1>1 DEF LoneWay, LockTypeOK, Seeing, Claiming
  <2>. QED
    BY <2>1, <2>2, <2>3 DEF AloneInv
<1>. QED
  BY <1>5, <1>6, <1>7, <1>9, <1>10, <1>11 DEF LockInv

(* A step that leaves the files alone, forgets what it saw and is about    *)
(* to begin or was refused.                                                *)
LEMMA ForgettingKeeps ==
    ASSUME LockInv, NEW p \in Procs, pc[p] \notin Owning, Lives(p),
           pc' = [pc EXCEPT ![p] = pc'[p]], pc'[p] \in {"publish", "refused"},
           seen' = [seen EXCEPT ![p] = None],
           attempt' = [attempt EXCEPT ![p] = attempt'[p]], attempt'[p] \in 0 .. Attempts - 1,
           lockFile' = lockFile, alone' = alone, stalls' = stalls,
           claims' \subseteq claims, \A c \in claims' : c.owner # p,
           OneDead /\ stalls = 0 => \A q \in Procs \ {p} : MyClaim(q) \subseteq claims'
    PROVE  LockTypeOK' /\ FilesInv' /\ StampInv' /\ CalmInv' /\ ReclaimInv' /\ OwnInv'
<1>0. LockTypeOK /\ FilesInv /\ StampInv /\ CalmInv /\ ReclaimInv /\ OwnInv /\ AloneInv
  BY DEF LockInv
<1>2. Lives(p) /\ Lives(p)' /\ pc'[p] \notin Seeing \cup Owning
  BY <1>0 DEF Lives, Seeing, Claiming, Owning, LockTypeOK
<1>3. /\ \A q \in Procs : Lives(q)' <=> Lives(q)
      /\ Dead' = Dead /\ (OneDead' <=> OneDead) /\ (Few' <=> Few)
  BY <1>0, <1>2 DEF Lives, Dead, OneDead, Few, LockTypeOK
<1>5. LockTypeOK'
  BY <1>0 DEF LockTypeOK
<1>6. FilesInv'
  <2>1. \A q \in Procs : seen'[q] # None <=> pc'[q] \in Seeing
    BY <1>0, <1>2 DEF FilesInv, LockTypeOK
  <2>2. lockFile # None /\ pc'[lockFile.owner] # "dead" => pc'[lockFile.owner] \in Owning
    <3>. SUFFICES ASSUME lockFile # None, pc'[lockFile.owner] # "dead"
                  PROVE  pc'[lockFile.owner] \in Owning
      OBVIOUS
    <3>1. lockFile.owner \in Procs /\ Lives(lockFile.owner)
      BY <1>0, <1>3, FileFields DEF Lives
    <3>2. pc[lockFile.owner] \in Owning
      BY <1>0, <3>1 DEF FilesInv
    <3>. QED
      BY <1>0, <3>1, <3>2 DEF LockTypeOK
  <2>3. \A c \in claims' : Lives(c.owner)' =>
              pc'[c.owner] \in Claiming /\ seen'[c.owner].stamp = c.key
    BY <1>0, <1>2, <1>3, FileFields DEF FilesInv, LockTypeOK
  <2>. QED
    BY <1>0, <2>1, <2>2, <2>3 DEF FilesInv, Lives
<1>7. StampInv' /\ CalmInv'
  BY <1>0, <1>3, FileFields DEF StampInv, CalmInv, LockTypeOK
<1>9. ReclaimInv'
  <2>. SUFFICES ASSUME stalls = 0, OneDead, NEW q \in Procs PROVE ClaimsHold(q)'
    BY <1>3 DEF ReclaimInv
  <2>1. CASE q = p
    BY <1>0, <1>2, <2>1 DEF ClaimsHold, Seeing, Claiming
  <2>2. CASE q # p
    <3>1. pc'[q] = pc[q] /\ seen'[q] = seen[q]
      BY <1>0, <2>2 DEF LockTypeOK
    <3>2. MyClaim(q)' = MyClaim(q)
      BY <2>2, <3>1 DEF MyClaim, ClaimAt
    <3>3. StillThere(q)' <=> StillThere(q)
      BY <3>1 DEF StillThere
    <3>. QED
      BY <1>0, <3>1, <3>2, <3>3 DEF ReclaimInv, ClaimsHold
  <2>. QED
    BY <2>1, <2>2
<1>10. OwnInv'
  BY <1>0, <1>2, <1>3 DEF OwnInv, Mine, LockTypeOK
<1>. QED
  BY <1>5, <1>6, <1>7, <1>9, <1>10

(* A process that goes to publish with its second or third attempt finds   *)
(* no claim at its stamp left, or no lock.                                 *)
LEMMA LoneRetry ==
    ASSUME LockTypeOK, AloneInv, NEW p \in Procs, alone[p], Attempts >= 3,
           pc[p] \in Seeing \cup {"observe"}, NextAttempt(p), lockFile' = lockFile,
           \/ pc[p] = "drop" /\ ClaimAt(lockFile.stamp)' = {}
           \/ lockFile = None
    PROVE  LoneWay(p)'
<1>1. LoneWay(p) /\ attempt[p] \in Nat /\ Attempts \in Nat
  BY AttemptsAssumption DEF AloneInv, LockTypeOK
<1>2. attempt[p] < 2 /\ (pc[p] = "drop" => attempt[p] = 0)
  BY <1>1 DEF LoneWay
<1>3. pc'[p] = "publish" /\ attempt'[p] = attempt[p] + 1
  BY <1>1, <1>2, NextAttemptDoes
<1>. QED
  BY <1>1, <1>2, <1>3 DEF LoneWay, Seeing, Claiming

(* What is seen is a stale lock; a fresh one has a live owner. *)
LEMMA ObserveKeepsInv ==
    ASSUME LockInv, NEW p \in Procs, Observe(p)
    PROVE  LockInv'
<1>0. LockTypeOK /\ FilesInv /\ StampInv /\ CalmInv /\ ReclaimInv /\ OwnInv /\ AloneInv
  BY DEF LockInv
<1>1. /\ pc[p] = "observe"
      /\ UNCHANGED <<lockFile, claims, alone, stalls>>
  BY DEF Observe
<1>2. Lives(p) /\ pc[p] \notin Owning /\ pc[p] \notin Seeing /\ seen[p] = None
  BY <1>0, <1>1 DEF Lives, Seeing, Claiming, Owning, FilesInv
<1>3. \A c \in claims : c.owner # p
  BY <1>0, <1>1, <1>2 DEF FilesInv, Claiming
<1>4. \A q \in Procs : MyClaim(q) \subseteq claims
  BY DEF MyClaim, ClaimAt
<1>5. CASE lockFile = None
  <2>1. NextAttempt(p)
    BY <1>1, <1>5 DEF Observe
  <2>2. LockTypeOK' /\ FilesInv' /\ StampInv' /\ CalmInv' /\ ReclaimInv' /\ OwnInv'
    BY <1>0, <1>1, <1>2, <1>3, <1>4, <2>1, NextAttemptDoes, ForgettingKeeps
  <2>3. alone[p] /\ Attempts >= 3 => LoneWay(p)'
    BY <1>0, <1>1, <1>5, <2>1, LoneRetry
  <2>4. AloneInv'
    BY <1>0, <1>1, <1>2, <2>1, <2>3, NextAttemptDoes, AloneKept
  <2>. QED
    BY <2>2, <2>4 DEF LockInv
<1>6. CASE lockFile # None /\ ~Stale(lockFile)
  <2>1. Refuse(p)
    BY <1>1, <1>6 DEF Observe
  <2>2. /\ pc' = [pc EXCEPT ![p] = pc'[p]] /\ pc'[p] = "refused"
        /\ seen' = [seen EXCEPT ![p] = None] /\ attempt' = attempt
        /\ attempt' = [attempt EXCEPT ![p] = attempt'[p]] /\ attempt'[p] \in 0 .. Attempts - 1
    BY <1>0, <2>1 DEF Refuse, Goto, LockTypeOK
  <2>3. LockTypeOK' /\ FilesInv' /\ StampInv' /\ CalmInv' /\ ReclaimInv' /\ OwnInv'
    BY <1>0, <1>1, <1>2, <1>3, <1>4, <2>2, ForgettingKeeps
  <2>4. ~alone[p]
    <3>1. Lives(lockFile.owner) /\ lockFile.owner \in Procs
      BY <1>0, <1>6, FileFields DEF Stale
    <3>2. lockFile.owner # p
      BY <1>0, <1>1, <1>2, <1>6, <3>1 DEF FilesInv
    <3>. QED
      BY <1>0, <3>1, <3>2 DEF AloneInv
  <2>5. AloneInv'
    BY <1>0, <1>1, <1>2, <2>2, <2>4, AloneKept
  <2>. QED
    BY <2>3, <2>5 DEF LockInv
<1>7. CASE lockFile # None /\ Stale(lockFile)
  <2>1. /\ pc' = [pc EXCEPT ![p] = pc'[p]] /\ pc'[p] = "claim"
        /\ seen' = [seen EXCEPT ![p] = lockFile] /\ attempt' = attempt
    BY <1>0, <1>1, <1>7 DEF Observe, Goto, LockTypeOK
  <2>2. /\ \A q \in Procs : Lives(q)' <=> Lives(q)
        /\ Dead' = Dead /\ (OneDead' <=> OneDead) /\ (Few' <=> Few)
    BY <1>0, <1>2, <2>1 DEF Lives, Dead, OneDead, Few, LockTypeOK
  <2>3. LockTypeOK'
    BY <1>0, <1>1, <2>1 DEF LockTypeOK
  <2>4. FilesInv'
    BY <1>0, <1>1, <1>2, <1>7, <2>1, <2>2, FileFields
       DEF FilesInv, LockTypeOK, Seeing, Claiming, Owning
  <2>5. StampInv'
    BY <1>0, <1>1, <2>1, FileFields DEF StampInv, LockTypeOK
  <2>6. stalls = 0 => ~Lives(lockFile.owner)
    BY <1>0, <1>7 DEF CalmInv, Stale
  <2>7. CalmInv'
    BY <1>0, <1>1, <1>7, <2>1, <2>2, <2>6, FileFields DEF CalmInv, LockTypeOK
  <2>8. ReclaimInv'
    BY <1>0, <1>1, <2>1, <2>2
       DEF ReclaimInv, ClaimsHold, Claiming, MyClaim, ClaimAt, StillThere, LockTypeOK
  <2>9. OwnInv'
    BY <1>0, <1>1, <2>1, <2>2 DEF OwnInv, Owning, Mine, LockTypeOK
  <2>10. alone[p] /\ Attempts >= 3 => LoneWay(p)'
    BY <1>0, <1>1, <1>7, <2>1 DEF AloneInv, LoneWay, LockTypeOK, Seeing, Claiming, ClaimAt
  <2>11. AloneInv'
    BY <1>0, <1>1, <1>2, <2>1, <2>10, AloneKept
  <2>. QED
    BY <2>3, <2>4, <2>5, <2>7, <2>8, <2>9, <2>11 DEF LockInv
<1>. QED
  BY <1>5, <1>6, <1>7

-----------------------------------------------------------------------------
(* The steps of claimStaleStartLock *)

(* A step that only looks. *)
LEMMA LookingKeepsInv ==
    ASSUME LockInv, NEW p \in Procs, pc[p] \in Seeing, pc' = [pc EXCEPT ![p] = pc'[p]],
           pc'[p] \in Seeing, pc[p] \in Claiming => pc'[p] \in Claiming,
           UNCHANGED <<lockFile, claims, attempt, seen, alone, stalls>>,
           stalls = 0 /\ OneDead => ClaimsHold(p)',
           alone[p] /\ Attempts >= 3 => LoneWay(p)'
    PROVE  LockInv'
<1>0. LockTypeOK /\ FilesInv /\ StampInv /\ CalmInv /\ ReclaimInv /\ OwnInv /\ AloneInv
  BY DEF LockInv
<1>2. Lives(p) /\ Lives(p)' /\ pc[p] \notin Owning /\ pc'[p] \notin Owning
  BY <1>0 DEF Lives, Seeing, Claiming, Owning, LockTypeOK
<1>3. /\ \A q \in Procs : Lives(q)' <=> Lives(q)
      /\ Dead' = Dead /\ (OneDead' <=> OneDead) /\ (Few' <=> Few)
  BY <1>0, <1>2 DEF Lives, Dead, OneDead, Few, LockTypeOK
<1>5. LockTypeOK'
  BY <1>0 DEF LockTypeOK, Seeing, Claiming
<1>6. FilesInv'
  <2>1. \A q \in Procs : seen'[q] # None <=> pc'[q] \in Seeing
    BY <1>0 DEF FilesInv, LockTypeOK
  <2>2. lockFile # None /\ pc'[lockFile.owner] # "dead" => pc'[lockFile.owner] \in Owning
    <3>. SUFFICES ASSUME lockFile # None, pc'[lockFile.owner] # "dead"
                  PROVE  pc'[lockFile.owner] \in Owning
      OBVIOUS
    <3>1. lockFile.owner \in Procs /\ Lives(lockFile.owner)
      BY <1>0, <1>3, FileFields DEF Lives
    <3>2. pc[lockFile.owner] \in Owning
      BY <1>0, <3>1 DEF FilesInv
    <3>. QED
      BY <1>0, <1>2, <3>1, <3>2 DEF LockTypeOK
  <2>3. ASSUME NEW c \in claims, pc'[c.owner] # "dead"
        PROVE  pc'[c.owner] \in Claiming /\ seen'[c.owner].stamp = c.key
    <3>1. c.owner \in Procs /\ Lives(c.owner)
      BY <1>0, <1>3, <2>3, FileFields DEF Lives
    <3>2. pc[c.owner] \in Claiming /\ seen[c.owner].stamp = c.key
      BY <1>0, <3>1 DEF FilesInv
    <3>. QED
      BY <1>0, <3>1, <3>2 DEF LockTypeOK
  <2>. QED
    BY <1>0, <2>1, <2>2, <2>3 DEF FilesInv, Lives
<1>7. StampInv' /\ CalmInv'
  BY <1>0, <1>3, FileFields DEF StampInv, CalmInv, LockTypeOK
<1>9. ReclaimInv'
  <2>. SUFFICES ASSUME stalls = 0, OneDead, NEW q \in Procs, q # p PROVE ClaimsHold(q)'
    BY <1>3 DEF ReclaimInv
  <2>. QED
    BY <1>0 DEF ReclaimInv, ClaimsHold, MyClaim, ClaimAt, StillThere, LockTypeOK
<1>10. OwnInv'
  BY <1>0, <1>2, <1>3 DEF OwnInv, Mine, LockTypeOK
<1>11. AloneInv'
  BY <1>0, <1>2, AloneKept
<1>. QED
  BY <1>5, <1>6, <1>7, <1>9, <1>10, <1>11 DEF LockInv

(* A claim is made only where there is none at that stamp. *)
LEMMA ClaimKeepsInv ==
    ASSUME LockInv, NEW p \in Procs, Claim(p)
    PROVE  LockInv'
<1>0. LockTypeOK /\ FilesInv /\ StampInv /\ CalmInv /\ ReclaimInv /\ OwnInv /\ AloneInv
  BY DEF LockInv
<1>1. pc[p] = "claim" /\ UNCHANGED <<lockFile, attempt, seen, alone, stalls>>
  BY DEF Claim, UnchangedByClaim
<1>2. Lives(p) /\ pc[p] \in Seeing /\ pc[p] \notin Claiming /\ pc[p] \notin Owning
  BY <1>1 DEF Lives, Seeing, Claiming, Owning
<1>3. CASE ClaimAt(seen[p].stamp) # {}
  <2>1. claims' = claims /\ pc' = [pc EXCEPT ![p] = pc'[p]] /\ pc'[p] = "inspect"
    BY <1>0, <1>3 DEF Claim, Goto, LockTypeOK
  <2>2. pc'[p] \in Seeing
    BY <2>1 DEF Seeing
  <2>3. ClaimsHold(p)'
    BY <2>1 DEF ClaimsHold, Claiming
  <2>4. alone[p] /\ Attempts >= 3 => LoneWay(p)'
    <3>. SUFFICES ASSUME alone[p], Attempts >= 3 PROVE LoneWay(p)'
      OBVIOUS
    <3>1. LoneWay(p) /\ attempt[p] \in Nat
      BY <1>0 DEF AloneInv, LockTypeOK
    <3>2. lockFile # None /\ seen[p].stamp = lockFile.stamp /\ attempt[p] = 0
      BY <1>1, <1>3, <3>1 DEF LoneWay
    <3>. QED
      BY <1>1, <1>3, <2>1, <3>2 DEF LoneWay, ClaimAt, Seeing, Claiming
  <2>. QED
    BY <1>1, <1>2, <2>1, <2>2, <2>3, <2>4, LookingKeepsInv
<1>4. CASE ClaimAt(seen[p].stamp) = {}
  <2> DEFINE new == [key |-> seen[p].stamp, owner |-> p, old |-> FALSE]
  <2>1. claims' = claims \cup {new} /\ pc' = [pc EXCEPT ![p] = pc'[p]] /\ pc'[p] = "verify"
    BY <1>0, <1>4 DEF Claim, Goto, LockTypeOK
  <2>2. seen[p] # None /\ seen[p].stamp \in Stamps
    BY <1>0, <1>2, FileFields DEF FilesInv
  <2>3. /\ new \in [key : Stamps, owner : Procs, old : BOOLEAN]
        /\ new.key = seen[p].stamp /\ new.owner = p /\ ~new.old
    BY <2>2
  <2> HIDE DEF new
  <2>4. /\ Lives(p)' /\ \A q \in Procs : Lives(q)' <=> Lives(q)
        /\ Dead' = Dead /\ (OneDead' <=> OneDead) /\ (Few' <=> Few)
    BY <1>0, <1>2, <2>1 DEF Lives, Dead, OneDead, Few, LockTypeOK
  <2>5. LockTypeOK'
    BY <1>0, <1>1, <2>1, <2>3 DEF LockTypeOK
  <2>6. \A c \in claims : c.key # seen[p].stamp /\ c.owner # p
    BY <1>0, <1>2, <1>4 DEF FilesInv, ClaimAt
  <2>7. FilesInv'
    <3>1. \A q \in Procs : seen'[q] # None <=> pc'[q] \in Seeing
      BY <1>0, <1>1, <1>2, <2>1 DEF FilesInv, LockTypeOK, Seeing, Claiming
    <3>2. lockFile # None /\ pc'[lockFile.owner] # "dead" => pc'[lockFile.owner] \in Owning
      <4>. SUFFICES ASSUME lockFile # None, pc'[lockFile.owner] # "dead"
                    PROVE  pc'[lockFile.owner] \in Owning
        OBVIOUS
      <4>1. lockFile.owner \in Procs /\ Lives(lockFile.owner)
        BY <1>0, <2>4, FileFields DEF Lives
      <4>2. pc[lockFile.owner] \in Owning
        BY <1>0, <4>1 DEF FilesInv
      <4>. QED
        BY <1>0, <1>2, <2>1, <4>1, <4>2 DEF LockTypeOK
    <3>3. ASSUME NEW c \in claims, pc'[c.owner] # "dead"
          PROVE  pc'[c.owner] \in Claiming /\ seen'[c.owner].stamp = c.key
      <4>1. c.owner \in Procs /\ Lives(c.owner)
        BY <1>0, <2>4, <3>3, FileFields DEF Lives
      <4>2. pc[c.owner] \in Claiming /\ seen[c.owner].stamp = c.key
        BY <1>0, <4>1 DEF FilesInv
      <4>. QED
        BY <1>0, <1>1, <2>1, <2>6, <4>1, <4>2 DEF LockTypeOK
    <3>4. pc'[p] \in Claiming /\ seen'[p].stamp = new.key
      BY <1>1, <2>1, <2>3 DEF Claiming
    <3>5. \A c, d \in claims' : c.key = d.key \/ c.owner = d.owner => c = d
      BY <1>0, <2>1, <2>3, <2>6 DEF FilesInv
    <3>. QED
      BY <1>0, <1>1, <2>1, <2>3, <3>1, <3>2, <3>3, <3>4, <3>5 DEF FilesInv, Lives
  <2>8. StampInv'
    BY <1>0, <1>1 DEF StampInv
  <2>9. CalmInv'
    <3>. SUFFICES ASSUME stalls = 0 PROVE CalmInv'
      BY <1>1 DEF CalmInv
    <3>1. ~Lives(seen[p].owner) /\ seen[p].owner # p
      BY <1>0, <1>2, <2>2 DEF CalmInv
    <3>2. lockFile # None /\ lockFile.stamp = new.key => lockFile.owner # new.owner
      BY <1>0, <2>2, <2>3, <3>1 DEF StampInv
    <3>3. \A q \in Procs : seen[q] # None /\ new.key = seen[q].stamp => new.owner # seen[q].owner
      BY <1>0, <2>2, <2>3, <3>1 DEF StampInv
    <3>4. \A q \in Procs : seen[q] # None => pc'[seen[q].owner] = "dead"
      BY <1>0, <2>4, FileFields DEF CalmInv, Lives
    <3>. QED
      BY <1>0, <1>1, <2>1, <2>3, <3>2, <3>3, <3>4 DEF CalmInv, Lives
  <2>10. ReclaimInv'
    <3>. SUFFICES ASSUME stalls = 0, OneDead, NEW q \in Procs PROVE ClaimsHold(q)'
      BY <1>1, <2>4 DEF ReclaimInv
    <3>1. CASE q = p
      BY <1>1, <2>1, <2>3, <3>1 DEF ClaimsHold, MyClaim, ClaimAt
    <3>2. CASE q # p
      BY <1>0, <1>1, <2>1, <3>2 DEF ReclaimInv, ClaimsHold, MyClaim, ClaimAt, StillThere, LockTypeOK
    <3>. QED
      BY <3>1, <3>2
  <2>11. OwnInv'
    BY <1>0, <1>1, <2>1, <2>4 DEF OwnInv, Owning, Mine, LockTypeOK
  <2>12. alone[p] /\ Attempts >= 3 => LoneWay(p)'
    <3>. SUFFICES ASSUME alone[p], Attempts >= 3 PROVE LoneWay(p)'
      OBVIOUS
    <3>1. LoneWay(p) /\ attempt[p] \in Nat
      BY <1>0 DEF AloneInv, LockTypeOK
    <3>2. MyClaim(p)' # {}
      BY <1>1, <2>1, <2>3 DEF MyClaim, ClaimAt
    <3>. QED
      BY <1>1, <2>1, <3>1, <3>2 DEF LoneWay, Seeing, Claiming
  <2>13. AloneInv'
    BY <1>0, <1>1, <1>2, <2>1, <2>12, AloneKept
  <2>. QED
    BY <2>5, <2>7, <2>8, <2>9, <2>10, <2>11, <2>13 DEF LockInv
<1>. QED
  BY <1>3, <1>4

(* With one dead, a stale claim on the lock of the dead is the dead's own, *)
(* and nobody claims its own lock: no claim is dropped.                    *)
LEMMA InspectKeepsInv ==
    ASSUME LockInv, NEW p \in Procs, Inspect(p)
    PROVE  LockInv'
<1>0. LockTypeOK /\ FilesInv /\ StampInv /\ CalmInv /\ ReclaimInv /\ OwnInv /\ AloneInv
  BY DEF LockInv
<1>1. pc[p] = "inspect" /\ UNCHANGED <<lockFile, claims, alone, stalls>>
  BY DEF Inspect
<1>2. Lives(p) /\ pc[p] \in Seeing /\ pc[p] \notin Claiming /\ pc[p] \notin Owning
  BY <1>1 DEF Lives, Seeing, Claiming, Owning
<1>3. seen[p] # None /\ seen[p].owner \in Procs
  BY <1>0, <1>2, FileFields DEF FilesInv
<1>4. CASE \E c \in ClaimAt(seen[p].stamp) : Stale(c)
  <2>1. pc' = [pc EXCEPT ![p] = pc'[p]] /\ pc'[p] = "drop" /\ attempt' = attempt /\ seen' = seen
    BY <1>0, <1>4 DEF Inspect, Goto, LockTypeOK
  <2>2. pc'[p] \in Seeing
    BY <2>1 DEF Seeing
  <2>3. ~(stalls = 0 /\ OneDead)
    <3>. SUFFICES ASSUME stalls = 0, OneDead PROVE FALSE
      OBVIOUS
    <3>1. PICK c \in ClaimAt(seen[p].stamp) : Stale(c)
      BY <1>4
    <3>2. c \in claims /\ c.key = seen[p].stamp
      BY DEF ClaimAt
    <3>3. c.owner \in Procs /\ ~Lives(c.owner)
      BY <1>0, <3>1, <3>2, FileFields DEF CalmInv, Stale
    <3>4. ~Lives(seen[p].owner) /\ c.owner # seen[p].owner
      BY <1>0, <1>3, <3>2 DEF CalmInv
    <3>. QED
      BY <1>3, <3>3, <3>4 DEF OneDead, Dead
  <2>4. alone[p] /\ Attempts >= 3 => LoneWay(p)'
    <3>. SUFFICES ASSUME alone[p], Attempts >= 3 PROVE LoneWay(p)'
      OBVIOUS
    <3>1. LoneWay(p)
      BY <1>0 DEF AloneInv
    <3>. QED
      BY <1>1, <2>1, <3>1 DEF LoneWay, Seeing, Claiming
  <2>. QED
    BY <1>1, <1>2, <2>1, <2>2, <2>3, <2>4, LookingKeepsInv
<1>5. CASE ~\E c \in ClaimAt(seen[p].stamp) : Stale(c)
  <2>1. Refuse(p)
    BY <1>5 DEF Inspect
  <2>2. /\ pc' = [pc EXCEPT ![p] = pc'[p]] /\ pc'[p] = "refused"
        /\ seen' = [seen EXCEPT ![p] = None] /\ attempt' = attempt
        /\ attempt' = [attempt EXCEPT ![p] = attempt'[p]] /\ attempt'[p] \in 0 .. Attempts - 1
    BY <1>0, <2>1 DEF Refuse, Goto, LockTypeOK
  <2>3. \A c \in claims : c.owner # p
    BY <1>0, <1>2 DEF FilesInv
  <2>4. \A q \in Procs : MyClaim(q) \subseteq claims
    BY DEF MyClaim, ClaimAt
  <2>5. LockTypeOK' /\ FilesInv' /\ StampInv' /\ CalmInv' /\ ReclaimInv' /\ OwnInv'
    BY <1>1, <1>2, <2>2, <2>3, <2>4, ForgettingKeeps
  <2>6. ~(alone[p] /\ Attempts >= 3)
    <3>. SUFFICES ASSUME alone[p], Attempts >= 3 PROVE FALSE
      OBVIOUS
    <3>1. ClaimAt(seen[p].stamp) # {}
      BY <1>0, <1>1 DEF AloneInv, LoneWay
    <3>2. PICK c \in ClaimAt(seen[p].stamp) : TRUE
      BY <3>1
    <3>3. c \in claims /\ c.owner \in Procs /\ c.owner # p
      BY <1>0, <2>3, FileFields DEF ClaimAt
    <3>4. ~Lives(c.owner)
      BY <1>0, <3>3 DEF AloneInv
    <3>. QED
      BY <1>5, <3>4 DEF Stale
  <2>7. AloneInv'
    BY <1>0, <1>1, <1>2, <2>2, <2>6, AloneKept
  <2>. QED
    BY <2>5, <2>7 DEF LockInv
<1>. QED
  BY <1>4, <1>5

(* A claim is dropped only with two dead, or by a lone starter. *)
LEMMA DropClaimKeepsInv ==
    ASSUME LockInv, NEW p \in Procs, DropClaim(p)
    PROVE  LockInv'
<1>0. LockTypeOK /\ FilesInv /\ StampInv /\ CalmInv /\ ReclaimInv /\ OwnInv /\ AloneInv
  BY DEF LockInv
<1>1. /\ pc[p] = "drop" /\ UNCHANGED <<lockFile, alone, stalls>>
      /\ claims' = claims \ ClaimAt(seen[p].stamp) /\ NextAttempt(p)
  BY DEF DropClaim
<1>2. Lives(p) /\ pc[p] \in Seeing /\ pc[p] \notin Claiming /\ pc[p] \notin Owning
  BY <1>1 DEF Lives, Seeing, Claiming, Owning
<1>3. \A c \in claims' : c.owner # p
  BY <1>0, <1>1, <1>2 DEF FilesInv
<1>4. ~(OneDead /\ stalls = 0)
  BY <1>0, <1>1 DEF ReclaimInv, ClaimsHold
<1>5. LockTypeOK' /\ FilesInv' /\ StampInv' /\ CalmInv' /\ ReclaimInv' /\ OwnInv'
  BY <1>0, <1>1, <1>2, <1>3, <1>4, NextAttemptDoes, ForgettingKeeps
<1>6. alone[p] /\ Attempts >= 3 => LoneWay(p)'
  <2>. SUFFICES ASSUME alone[p], Attempts >= 3 PROVE LoneWay(p)'
    OBVIOUS
  <2>1. seen[p].stamp = lockFile.stamp
    BY <1>0, <1>1 DEF AloneInv, LoneWay
  <2>2. ClaimAt(lockFile.stamp)' = {}
    BY <1>1, <2>1 DEF ClaimAt
  <2>. QED
    BY <1>0, <1>1, <1>2, <2>2, LoneRetry
<1>7. AloneInv'
  BY <1>0, <1>1, <1>2, <1>6, NextAttemptDoes, AloneKept
<1>. QED
  BY <1>5, <1>7 DEF LockInv

(* The lock is compared after the claim is there. *)
LEMMA VerifyKeepsInv ==
    ASSUME LockInv, NEW p \in Procs, Verify(p)
    PROVE  LockInv'
<1>0. LockTypeOK /\ ReclaimInv /\ AloneInv
  BY DEF LockInv
<1>1. /\ pc[p] = "verify" /\ UNCHANGED <<lockFile, claims, attempt, seen, alone, stalls>>
      /\ pc' = [pc EXCEPT ![p] = pc'[p]]
      /\ pc'[p] = IF StillThere(p) THEN "check" ELSE "unclaim"
  BY <1>0 DEF Verify, UnchangedByClaim, Goto, LockTypeOK
<1>2. pc[p] \in Seeing /\ pc'[p] \in Seeing /\ pc'[p] \in Claiming
  BY <1>1 DEF Seeing, Claiming
<1>3. stalls = 0 /\ OneDead => ClaimsHold(p)'
  <2>1. stalls = 0 /\ OneDead => MyClaim(p) # {}
    BY <1>0, <1>1 DEF ReclaimInv, ClaimsHold, Claiming
  <2>. QED
    BY <1>1, <2>1 DEF ClaimsHold, MyClaim, ClaimAt, StillThere
<1>4. alone[p] /\ Attempts >= 3 => LoneWay(p)'
  <2>. SUFFICES ASSUME alone[p], Attempts >= 3 PROVE LoneWay(p)'
    OBVIOUS
  <2>1. LoneWay(p)
    BY <1>0 DEF AloneInv
  <2>2. pc'[p] = "check"
    BY <1>1, <2>1 DEF LoneWay, StillThere
  <2>. QED
    BY <1>1, <2>1, <2>2 DEF LoneWay, Seeing, Claiming, MyClaim, ClaimAt
<1>. QED
  BY <1>1, <1>2, <1>3, <1>4, LookingKeepsInv

(* The claim is read again before the lock is removed. *)
LEMMA CheckKeepsInv ==
    ASSUME LockInv, NEW p \in Procs, Check(p)
    PROVE  LockInv'
<1>0. LockTypeOK /\ ReclaimInv /\ AloneInv
  BY DEF LockInv
<1>1. /\ pc[p] = "check" /\ UNCHANGED <<lockFile, claims, attempt, seen, alone, stalls>>
      /\ pc' = [pc EXCEPT ![p] = pc'[p]]
      /\ pc'[p] = IF MyClaim(p) # {} THEN "reclaim" ELSE "unclaim"
  BY <1>0 DEF Check, UnchangedByClaim, Goto, LockTypeOK
<1>2. pc[p] \in Seeing /\ pc'[p] \in Seeing /\ pc'[p] \in Claiming
  BY <1>1 DEF Seeing, Claiming
<1>3. stalls = 0 /\ OneDead => ClaimsHold(p)'
  <2>1. stalls = 0 /\ OneDead => MyClaim(p) # {} /\ StillThere(p)
    BY <1>0, <1>1 DEF ReclaimInv, ClaimsHold, Claiming
  <2>. QED
    BY <1>1, <2>1 DEF ClaimsHold, MyClaim, ClaimAt, StillThere
<1>4. alone[p] /\ Attempts >= 3 => LoneWay(p)'
  <2>. SUFFICES ASSUME alone[p], Attempts >= 3 PROVE LoneWay(p)'
    OBVIOUS
  <2>1. LoneWay(p)
    BY <1>0 DEF AloneInv
  <2>2. pc'[p] = "reclaim"
    BY <1>1, <2>1 DEF LoneWay
  <2>. QED
    BY <1>1, <2>1, <2>2 DEF LoneWay, Seeing, Claiming, MyClaim, ClaimAt
<1>. QED
  BY <1>1, <1>2, <1>3, <1>4, LookingKeepsInv

(* The lock is gone: nobody loses one that it owns.                        *)
LEMMA RemovalKeeps ==
    ASSUME LockInv, NEW p \in Procs, Lives(p), pc' = [pc EXCEPT ![p] = pc'[p]],
           lockFile' = None, UNCHANGED <<claims, attempt, seen, alone, stalls>>,
           \/ pc[p] \in Claiming /\ pc'[p] = "unclaim"
           \/ pc[p] \notin Seeing /\ pc'[p] = "idle",
           stalls = 0 /\ Few => \A q \in Procs \ {p} : pc[q] \notin Owning,
           stalls = 0 /\ OneDead => \A q \in Procs \ {p} : pc[q] \notin {"check", "reclaim"}
    PROVE  LockTypeOK' /\ FilesInv' /\ StampInv' /\ CalmInv' /\ ReclaimInv' /\ OwnInv'
<1>0. LockTypeOK /\ FilesInv /\ StampInv /\ CalmInv /\ ReclaimInv /\ OwnInv /\ AloneInv
  BY DEF LockInv
<1>2. /\ pc'[p] \in {"unclaim", "idle"} /\ (pc'[p] \in Seeing <=> pc[p] \in Seeing)
      /\ (pc'[p] \in Claiming <=> pc[p] \in Claiming) /\ pc'[p] \notin Owning
  BY DEF Seeing, Claiming, Owning
<1>3. /\ \A q \in Procs : Lives(q)' <=> Lives(q)
      /\ Dead' = Dead /\ (OneDead' <=> OneDead) /\ (Few' <=> Few)
  BY <1>0, <1>2 DEF Lives, Dead, OneDead, Few, LockTypeOK
<1>5. LockTypeOK'
  BY <1>0, <1>2 DEF LockTypeOK
<1>6. FilesInv'
  <2>1. \A q \in Procs : seen'[q] # None <=> pc'[q] \in Seeing
    BY <1>0, <1>2 DEF FilesInv, LockTypeOK
  <2>3. ASSUME NEW c \in claims, pc'[c.owner] # "dead"
        PROVE  pc'[c.owner] \in Claiming /\ seen'[c.owner].stamp = c.key
    <3>1. c.owner \in Procs /\ Lives(c.owner)
      BY <1>0, <1>3, <2>3, FileFields DEF Lives
    <3>2. pc[c.owner] \in Claiming /\ seen[c.owner].stamp = c.key
      BY <1>0, <3>1 DEF FilesInv
    <3>. QED
      BY <1>0, <1>2, <3>1, <3>2 DEF LockTypeOK
  <2>. QED
    BY <1>0, <2>1, <2>3 DEF FilesInv, Lives
<1>7. StampInv' /\ CalmInv'
  BY <1>0, <1>3, FileFields DEF StampInv, CalmInv, LockTypeOK
<1>9. ReclaimInv'
  <2>. SUFFICES ASSUME stalls = 0, OneDead, NEW q \in Procs PROVE ClaimsHold(q)'
    BY <1>3 DEF ReclaimInv
  <2>1. ClaimsHold(q) /\ MyClaim(q)' = MyClaim(q)
    BY <1>0 DEF ReclaimInv, MyClaim, ClaimAt
  <2>2. CASE q = p
    BY <1>0, <1>2, <2>1, <2>2 DEF ClaimsHold
  <2>3. CASE q # p
    BY <1>0, <2>1, <2>3 DEF ClaimsHold, LockTypeOK
  <2>. QED
    BY <2>2, <2>3
<1>10. OwnInv'
  BY <1>0, <1>2, <1>3 DEF OwnInv, LockTypeOK
<1>. QED
  BY <1>5, <1>6, <1>7, <1>9, <1>10

(* With one dead, the lock removed is still the one claimed, of the dead;  *)
(* with two dead of three, nobody else is left to hold a lock.             *)
LEMMA ReclaimKeepsInv ==
    ASSUME LockInv, NEW p \in Procs, Reclaim(p)
    PROVE  LockInv'
<1>0. LockTypeOK /\ FilesInv /\ StampInv /\ CalmInv /\ ReclaimInv /\ OwnInv /\ AloneInv
  BY DEF LockInv
<1>1. /\ pc[p] = "reclaim" /\ UNCHANGED <<claims, attempt, seen, alone, stalls>>
      /\ lockFile' = None /\ pc' = [pc EXCEPT ![p] = pc'[p]] /\ pc'[p] = "unclaim"
  BY <1>0 DEF Reclaim, Goto, LockTypeOK
<1>2. Lives(p) /\ pc[p] \in Claiming /\ seen[p] # None
  BY <1>0, <1>1 DEF Lives, Seeing, Claiming, FilesInv
<1>3. stalls = 0 /\ OneDead => \A q \in Procs \ {p} : pc[q] \notin {"check", "reclaim"}
  <2>. SUFFICES ASSUME stalls = 0, OneDead, NEW q \in Procs, pc[q] \in {"check", "reclaim"}
                PROVE  p = q
    OBVIOUS
  <2>1. StillThere(p) /\ StillThere(q) /\ MyClaim(p) # {} /\ MyClaim(q) # {}
    BY <1>0, <1>1, <1>2 DEF ReclaimInv, ClaimsHold, Claiming
  <2>2. PICK c \in claims, d \in claims : c.key = d.key /\ c.owner = p /\ d.owner = q
    BY <2>1 DEF StillThere, MyClaim, ClaimAt
  <2>. QED
    BY <1>0, <2>2 DEF FilesInv
<1>4. stalls = 0 /\ Few => \A q \in Procs \ {p} : pc[q] \notin Owning
  <2>. SUFFICES ASSUME stalls = 0, Few, NEW q \in Procs, pc[q] \in Owning
                PROVE  p = q
    OBVIOUS
  <2>1. Lives(q)
    BY DEF Lives, Owning
  <2>2. CASE OneDead
    <3>1. StillThere(p)
      BY <1>0, <1>1, <2>2 DEF ReclaimInv, ClaimsHold
    <3>2. Mine(q)
      BY <1>0 DEF OwnInv
    <3>3. ~Lives(seen[p].owner) /\ seen[p].owner = lockFile.owner
      BY <1>0, <1>2, <3>1 DEF CalmInv, StampInv, StillThere
    <3>. QED
      BY <2>1, <3>2, <3>3 DEF Mine
  <2>3. CASE ~OneDead
    BY <1>2, <2>1, <2>3, OneLeft DEF Few
  <2>. QED
    BY <2>2, <2>3
<1>5. LockTypeOK' /\ FilesInv' /\ StampInv' /\ CalmInv' /\ ReclaimInv' /\ OwnInv'
  BY <1>1, <1>2, <1>3, <1>4, RemovalKeeps
<1>6. alone[p] /\ Attempts >= 3 => LoneWay(p)'
  <2>. SUFFICES ASSUME alone[p], Attempts >= 3 PROVE LoneWay(p)'
    OBVIOUS
  <2>1. LoneWay(p)
    BY <1>0 DEF AloneInv
  <2>. QED
    BY <1>1, <1>2, <2>1 DEF LoneWay, Seeing, Claiming
<1>7. AloneInv'
  BY <1>0, <1>1, <1>2, <1>6, AloneKept
<1>. QED
  BY <1>5, <1>7 DEF LockInv

(* A reclaimer looks for its own claim before it removes it. *)
LEMMA UnclaimKeepsInv ==
    ASSUME LockInv, NEW p \in Procs, Unclaim(p)
    PROVE  LockInv'
<1>0. LockTypeOK /\ FilesInv /\ StampInv /\ CalmInv /\ ReclaimInv /\ OwnInv /\ AloneInv
  BY DEF LockInv
<1>1. pc[p] = "unclaim" /\ UNCHANGED <<lockFile, claims, alone, stalls>>
  BY DEF Unclaim
<1>2. Lives(p) /\ pc[p] \in Seeing /\ pc[p] \in Claiming /\ pc[p] \notin Owning
  BY <1>1 DEF Lives, Seeing, Claiming, Owning
<1>3. alone[p] /\ Attempts >= 3 => LoneWay(p) /\ lockFile = None
  BY <1>0, <1>1 DEF AloneInv, LoneWay
<1>4. CASE MyClaim(p) # {}
  <2>1. pc' = [pc EXCEPT ![p] = pc'[p]] /\ pc'[p] = "forget" /\ attempt' = attempt /\ seen' = seen
    BY <1>0, <1>4 DEF Unclaim, Goto, LockTypeOK
  <2>2. pc'[p] \in Claiming /\ pc'[p] \in Seeing
    BY <2>1 DEF Claiming, Seeing
  <2>3. ClaimsHold(p)'
    BY <1>1, <1>4, <2>1 DEF ClaimsHold, MyClaim, ClaimAt
  <2>4. alone[p] /\ Attempts >= 3 => LoneWay(p)'
    BY <1>1, <1>2, <1>3, <2>1 DEF LoneWay, Seeing, Claiming
  <2>. QED
    BY <1>1, <1>2, <2>1, <2>2, <2>3, <2>4, LookingKeepsInv
<1>5. CASE MyClaim(p) = {}
  <2>1. NextAttempt(p)
    BY <1>5 DEF Unclaim
  <2>2. \A c \in claims : c.owner # p
    BY <1>0, <1>2, <1>5 DEF FilesInv, MyClaim, ClaimAt
  <2>3. \A q \in Procs : MyClaim(q) \subseteq claims
    BY DEF MyClaim, ClaimAt
  <2>4. LockTypeOK' /\ FilesInv' /\ StampInv' /\ CalmInv' /\ ReclaimInv' /\ OwnInv'
    BY <1>0, <1>1, <1>2, <2>1, <2>2, <2>3, NextAttemptDoes, ForgettingKeeps
  <2>5. alone[p] /\ Attempts >= 3 => LoneWay(p)'
    BY <1>0, <1>1, <1>2, <1>3, <2>1, LoneRetry
  <2>6. AloneInv'
    BY <1>0, <1>1, <1>2, <2>1, <2>5, NextAttemptDoes, AloneKept
  <2>. QED
    BY <2>4, <2>6 DEF LockInv
<1>. QED
  BY <1>4, <1>5

(* With one dead, who removes its claim removes nobody else's. *)
LEMMA ForgetKeepsInv ==
    ASSUME LockInv, NEW p \in Procs, Forget(p)
    PROVE  LockInv'
<1>0. LockTypeOK /\ FilesInv /\ StampInv /\ CalmInv /\ ReclaimInv /\ OwnInv /\ AloneInv
  BY DEF LockInv
<1>1. /\ pc[p] = "forget" /\ UNCHANGED <<lockFile, alone, stalls>>
      /\ claims' = claims \ ClaimAt(seen[p].stamp) /\ NextAttempt(p)
  BY DEF Forget
<1>2. Lives(p) /\ pc[p] \in Seeing /\ pc[p] \in Claiming /\ pc[p] \notin Owning
  BY <1>1 DEF Lives, Seeing, Claiming, Owning
<1>3. \A c \in claims' : c.owner # p
  BY <1>0, <1>1, <1>2 DEF FilesInv, ClaimAt
<1>4. OneDead /\ stalls = 0 => \A q \in Procs \ {p} : MyClaim(q) \subseteq claims'
  <2>. SUFFICES ASSUME OneDead, stalls = 0, NEW q \in Procs, q # p, NEW c \in MyClaim(q)
                PROVE  c \in claims'
    OBVIOUS
  <2>1. PICK d \in MyClaim(p) : TRUE
    BY <1>0, <1>2 DEF ReclaimInv, ClaimsHold
  <2>2. c \in claims /\ d \in claims /\ c.owner = q /\ d.owner = p /\ d.key = seen[p].stamp
    BY DEF MyClaim, ClaimAt
  <2>3. c.key # seen[p].stamp
    BY <1>0, <2>2 DEF FilesInv
  <2>. QED
    BY <1>1, <2>2, <2>3 DEF ClaimAt
<1>5. LockTypeOK' /\ FilesInv' /\ StampInv' /\ CalmInv' /\ ReclaimInv' /\ OwnInv'
  BY <1>0, <1>1, <1>2, <1>3, <1>4, NextAttemptDoes, ForgettingKeeps
<1>6. alone[p] /\ Attempts >= 3 => LoneWay(p)'
  <2>. SUFFICES ASSUME alone[p], Attempts >= 3 PROVE LoneWay(p)'
    OBVIOUS
  <2>1. lockFile = None
    BY <1>0, <1>1 DEF AloneInv, LoneWay
  <2>. QED
    BY <1>0, <1>1, <1>2, <2>1, LoneRetry
<1>7. AloneInv'
  BY <1>0, <1>1, <1>2, <1>6, NextAttemptDoes, AloneKept
<1>. QED
  BY <1>5, <1>7 DEF LockInv

-----------------------------------------------------------------------------
(* The holder's steps, kills and leases *)

(* A holder that only reads. *)
LEMMA ReadingKeepsInv ==
    ASSUME LockInv, NEW p \in Procs, pc[p] = "hold", pc' = [pc EXCEPT ![p] = pc'[p]],
           pc'[p] \in {"beat", "remove", "idle"}, Mine(p) <=> pc'[p] # "idle",
           UNCHANGED <<lockFile, claims, attempt, seen, alone, stalls>>
    PROVE  LockInv'
<1>0. LockTypeOK /\ FilesInv /\ StampInv /\ CalmInv /\ ReclaimInv /\ OwnInv /\ AloneInv
  BY DEF LockInv
<1>2. /\ Lives(p) /\ Lives(p)' /\ pc[p] \notin Seeing /\ pc'[p] \notin Seeing
      /\ pc'[p] \in {"beat", "remove", "idle"}
      /\ pc'[p] \in Owning <=> Mine(p)
  BY <1>0 DEF Lives, Seeing, Claiming, Owning, LockTypeOK
<1>3. /\ \A q \in Procs : Lives(q)' <=> Lives(q)
      /\ Dead' = Dead /\ (OneDead' <=> OneDead) /\ (Few' <=> Few)
  BY <1>0, <1>2 DEF Lives, Dead, OneDead, Few, LockTypeOK
<1>5. LockTypeOK'
  BY <1>0, <1>2 DEF LockTypeOK
<1>6. FilesInv'
  <2>1. \A q \in Procs : seen'[q] # None <=> pc'[q] \in Seeing
    BY <1>0, <1>2 DEF FilesInv, LockTypeOK
  <2>2. lockFile # None /\ pc'[lockFile.owner] # "dead" => pc'[lockFile.owner] \in Owning
    <3>. SUFFICES ASSUME lockFile # None, pc'[lockFile.owner] # "dead"
                  PROVE  pc'[lockFile.owner] \in Owning
      OBVIOUS
    <3>1. lockFile.owner \in Procs /\ Lives(lockFile.owner)
      BY <1>0, <1>3, FileFields DEF Lives
    <3>2. pc[lockFile.owner] \in Owning
      BY <1>0, <3>1 DEF FilesInv
    <3>. QED
      BY <1>0, <1>2, <3>1, <3>2 DEF LockTypeOK, Mine
  <2>3. ASSUME NEW c \in claims, pc'[c.owner] # "dead"
        PROVE  pc'[c.owner] \in Claiming /\ seen'[c.owner].stamp = c.key
    <3>1. c.owner \in Procs /\ Lives(c.owner)
      BY <1>0, <1>3, <2>3, FileFields DEF Lives
    <3>2. pc[c.owner] \in Claiming /\ seen[c.owner].stamp = c.key
      BY <1>0, <3>1 DEF FilesInv
    <3>. QED
      BY <1>0, <1>2, <3>1, <3>2 DEF LockTypeOK, Seeing
  <2>. QED
    BY <1>0, <2>1, <2>2, <2>3 DEF FilesInv, Lives
<1>7. StampInv' /\ CalmInv'
  BY <1>0, <1>3, FileFields DEF StampInv, CalmInv, LockTypeOK
<1>9. ReclaimInv'
  BY <1>0, <1>2, <1>3
     DEF ReclaimInv, ClaimsHold, Claiming, MyClaim, ClaimAt, StillThere, LockTypeOK
<1>10. OwnInv'
  BY <1>0, <1>2, <1>3 DEF OwnInv, Mine, LockTypeOK
<1>11. AloneInv'
  <2>1. alone[p] /\ Attempts >= 3 => LoneWay(p)'
    BY <1>0, <1>2 DEF LoneWay, Seeing, Claiming
  <2>. QED
    BY <1>0, <1>2, <2>1, AloneKept
<1>. QED
  BY <1>5, <1>6, <1>7, <1>9, <1>10, <1>11 DEF LockInv

(* A heartbeat first reads the token. *)
LEMMA HeartbeatKeepsInv ==
    ASSUME LockInv, NEW p \in Procs, Heartbeat(p)
    PROVE  LockInv'
<1>1. LockTypeOK
  BY DEF LockInv
<1>2. /\ pc[p] = "hold" /\ pc' = [pc EXCEPT ![p] = pc'[p]] /\ pc'[p] = "beat" /\ Mine(p)
      /\ UNCHANGED <<lockFile, claims, attempt, seen, alone, stalls>>
  BY <1>1 DEF Heartbeat, Goto, UnchangedByHolder, LockTypeOK
<1>3. pc'[p] \in {"beat", "remove", "idle"} /\ (Mine(p) <=> pc'[p] # "idle")
  BY <1>2
<1>. QED
  BY <1>2, <1>3, ReadingKeepsInv

(* A release first reads the token. *)
LEMMA ReleaseKeepsInv ==
    ASSUME LockInv, NEW p \in Procs, ReleaseLock(p)
    PROVE  LockInv'
<1>1. LockTypeOK
  BY DEF LockInv
<1>2. /\ pc[p] = "hold" /\ pc' = [pc EXCEPT ![p] = pc'[p]]
      /\ pc'[p] = IF Mine(p) THEN "remove" ELSE "idle"
      /\ UNCHANGED <<lockFile, claims, attempt, seen, alone, stalls>>
  BY <1>1 DEF ReleaseLock, Goto, UnchangedByHolder, LockTypeOK
<1>3. pc'[p] \in {"beat", "remove", "idle"} /\ (Mine(p) <=> pc'[p] # "idle")
  BY <1>2
<1>. QED
  BY <1>2, <1>3, ReadingKeepsInv

(* Who is about to reclaim saw the lock of a dead one, not of the holder. *)
LEMMA TouchKeepsInv ==
    ASSUME LockInv, NEW p \in Procs, Touch(p)
    PROVE  LockInv'
<1>0. LockTypeOK /\ FilesInv /\ StampInv /\ CalmInv /\ ReclaimInv /\ OwnInv /\ AloneInv
  BY DEF LockInv
<1>1. /\ pc[p] = "beat" /\ pc' = [pc EXCEPT ![p] = pc'[p]] /\ pc'[p] = "hold"
      /\ UNCHANGED <<claims, attempt, seen, alone, stalls>>
      /\ lockFile = None => lockFile' = None
      /\ lockFile # None => /\ lockFile' \in Files /\ lockFile' # None
                            /\ lockFile'.owner = lockFile.owner
                            /\ lockFile'.stamp = Fresh /\ ~lockFile'.old
  BY <1>0, TouchedFile DEF Touch, Goto, UnchangedByHolder, LockTypeOK
<1>2. Lives(p) /\ Lives(p)' /\ pc[p] \in Owning /\ pc[p] \notin Seeing /\ pc'[p] \notin Seeing
  BY <1>0, <1>1 DEF Lives, Seeing, Claiming, Owning, LockTypeOK
<1>3. /\ \A q \in Procs : Lives(q)' <=> Lives(q)
      /\ Dead' = Dead /\ (OneDead' <=> OneDead) /\ (Few' <=> Few)
  BY <1>0, <1>1, <1>2 DEF Lives, Dead, OneDead, Few, LockTypeOK
<1>5. LockTypeOK'
  BY <1>0, <1>1 DEF LockTypeOK
<1>6. FilesInv'
  <2>1. \A q \in Procs : seen'[q] # None <=> pc'[q] \in Seeing
    BY <1>0, <1>1, <1>2 DEF FilesInv, LockTypeOK
  <2>2. lockFile # None /\ pc'[lockFile.owner] # "dead" => pc'[lockFile.owner] \in Owning
    <3>. SUFFICES ASSUME lockFile # None, pc'[lockFile.owner] # "dead"
                  PROVE  pc'[lockFile.owner] \in Owning
      OBVIOUS
    <3>1. lockFile.owner \in Procs /\ Lives(lockFile.owner)
      BY <1>0, <1>3, FileFields DEF Lives
    <3>2. pc[lockFile.owner] \in Owning
      BY <1>0, <3>1 DEF FilesInv
    <3>. QED
      BY <1>0, <1>1, <3>1, <3>2 DEF LockTypeOK, Owning
  <2>3. ASSUME NEW c \in claims, pc'[c.owner] # "dead"
        PROVE  pc'[c.owner] \in Claiming /\ seen'[c.owner].stamp = c.key
    <3>1. c.owner \in Procs /\ Lives(c.owner)
      BY <1>0, <1>3, <2>3, FileFields DEF Lives
    <3>2. pc[c.owner] \in Claiming /\ seen[c.owner].stamp = c.key
      BY <1>0, <3>1 DEF FilesInv
    <3>. QED
      BY <1>0, <1>1, <1>2, <3>1, <3>2 DEF LockTypeOK, Seeing
  <2>. QED
    BY <1>0, <1>1, <2>1, <2>2, <2>3 DEF FilesInv, Lives
<1>7. StampInv'
  BY <1>0, <1>1, FreshIsNew DEF StampInv
<1>8. CalmInv'
  BY <1>0, <1>1, <1>3, FreshIsNew, FileFields DEF CalmInv
<1>9. ReclaimInv'
  <2>. SUFFICES ASSUME stalls = 0, OneDead, NEW q \in Procs PROVE ClaimsHold(q)'
    BY <1>1, <1>3 DEF ReclaimInv
  <2>1. ClaimsHold(q) /\ MyClaim(q)' = MyClaim(q)
    BY <1>0, <1>1 DEF ReclaimInv, MyClaim, ClaimAt
  <2>2. CASE q = p
    BY <1>1, <2>2 DEF ClaimsHold, Claiming
  <2>3. CASE q # p
    <3>1. pc'[q] = pc[q]
      BY <1>0, <1>1, <2>3 DEF LockTypeOK
    <3>2. pc[q] \notin {"check", "reclaim"}
      <4>. SUFFICES ASSUME pc[q] \in {"check", "reclaim"} PROVE FALSE
        OBVIOUS
      <4>1. StillThere(q) /\ seen[q] # None
        BY <1>0, <2>1 DEF ClaimsHold, FilesInv, Seeing, Claiming
      <4>2. ~Lives(seen[q].owner) /\ seen[q].owner = lockFile.owner
        BY <1>0, <4>1 DEF CalmInv, StampInv, StillThere
      <4>3. lockFile.owner = p
        BY <1>0, <1>2 DEF OwnInv, Few, Mine
      <4>. QED
        BY <1>2, <4>2, <4>3
    <3>. QED
      BY <2>1, <3>1, <3>2 DEF ClaimsHold
  <2>. QED
    BY <2>2, <2>3
<1>10. OwnInv'
  BY <1>0, <1>1, <1>2, <1>3 DEF OwnInv, Mine, LockTypeOK
<1>11. AloneInv'
  <2>1. alone[p] /\ Attempts >= 3 => LoneWay(p)'
    BY <1>0, <1>1, <1>2 DEF LoneWay, Seeing, Claiming
  <2>. QED
    BY <1>0, <1>1, <1>2, <2>1, AloneKept
<1>. QED
  BY <1>5, <1>6, <1>7, <1>8, <1>9, <1>10, <1>11 DEF LockInv

(* The release removes the lock it owns. *)
LEMMA RemoveKeepsInv ==
    ASSUME LockInv, NEW p \in Procs, Remove(p)
    PROVE  LockInv'
<1>0. LockTypeOK /\ FilesInv /\ StampInv /\ CalmInv /\ ReclaimInv /\ OwnInv /\ AloneInv
  BY DEF LockInv
<1>1. /\ pc[p] = "remove" /\ UNCHANGED <<claims, attempt, seen, alone, stalls>>
      /\ lockFile' = None /\ pc' = [pc EXCEPT ![p] = pc'[p]] /\ pc'[p] = "idle"
  BY <1>0 DEF Remove, Goto, UnchangedByHolder, LockTypeOK
<1>2. Lives(p) /\ pc[p] \notin Seeing /\ pc[p] \in Owning
  BY <1>1 DEF Lives, Seeing, Claiming, Owning
<1>3. stalls = 0 /\ Few => Mine(p)
  BY <1>0, <1>2 DEF OwnInv
<1>4. stalls = 0 /\ Few => \A q \in Procs \ {p} : pc[q] \notin Owning
  BY <1>0, <1>3 DEF OwnInv, Mine
<1>5. stalls = 0 /\ OneDead => \A q \in Procs \ {p} : pc[q] \notin {"check", "reclaim"}
  <2>. SUFFICES ASSUME stalls = 0, OneDead, NEW q \in Procs, pc[q] \in {"check", "reclaim"}
                PROVE  FALSE
    OBVIOUS
  <2>1. StillThere(q) /\ seen[q] # None
    BY <1>0 DEF ReclaimInv, ClaimsHold, FilesInv, Seeing, Claiming
  <2>2. ~Lives(seen[q].owner) /\ seen[q].owner = lockFile.owner
    BY <1>0, <2>1 DEF CalmInv, StampInv, StillThere
  <2>. QED
    BY <1>2, <1>3, <2>2 DEF Few, Mine
<1>6. LockTypeOK' /\ FilesInv' /\ StampInv' /\ CalmInv' /\ ReclaimInv' /\ OwnInv'
  BY <1>1, <1>2, <1>4, <1>5, RemovalKeeps
<1>7. LoneWay(p)'
  BY <1>1 DEF LoneWay, Seeing, Claiming
<1>8. AloneInv'
  BY <1>0, <1>1, <1>2, <1>7, AloneKept
<1>. QED
  BY <1>6, <1>8 DEF LockInv

(* A kill leaves the files as they are. *)
LEMMA CrashKeepsInv ==
    ASSUME LockInv, NEW p \in Procs, Crash(p)
    PROVE  LockInv'
<1>0. LockTypeOK /\ FilesInv /\ StampInv /\ CalmInv /\ ReclaimInv /\ OwnInv /\ AloneInv
  BY DEF LockInv
<1>1. /\ Lives(p) /\ pc' = [pc EXCEPT ![p] = pc'[p]] /\ pc'[p] = "dead"
      /\ seen' = [seen EXCEPT ![p] = None]
      /\ UNCHANGED <<lockFile, claims, attempt, alone, stalls>>
  BY <1>0 DEF Crash, Goto, LockTypeOK
<1>2. ~Lives(p)' /\ pc'[p] \notin Seeing \cup Owning
  BY <1>1 DEF Lives, Seeing, Claiming, Owning
<1>3. (\A q \in Procs : Lives(q)' => Lives(q)) /\ (OneDead' => OneDead) /\ (Few' => Few)
  BY <1>0, <1>1, DeadStay
<1>5. LockTypeOK'
  BY <1>0, <1>1 DEF LockTypeOK
<1>6. FilesInv'
  <2>1. \A q \in Procs : seen'[q] # None <=> pc'[q] \in Seeing
    BY <1>0, <1>1, <1>2 DEF FilesInv, LockTypeOK
  <2>2. lockFile # None /\ pc'[lockFile.owner] # "dead" => pc'[lockFile.owner] \in Owning
    <3>. SUFFICES ASSUME lockFile # None, pc'[lockFile.owner] # "dead"
                  PROVE  pc'[lockFile.owner] \in Owning
      OBVIOUS
    <3>1. lockFile.owner \in Procs /\ Lives(lockFile.owner)
      BY <1>0, <1>3, FileFields DEF Lives
    <3>2. pc[lockFile.owner] \in Owning
      BY <1>0, <3>1 DEF FilesInv
    <3>. QED
      BY <1>0, <1>1, <3>1, <3>2 DEF LockTypeOK
  <2>3. ASSUME NEW c \in claims, pc'[c.owner] # "dead"
        PROVE  pc'[c.owner] \in Claiming /\ seen'[c.owner].stamp = c.key
    <3>1. c.owner \in Procs /\ Lives(c.owner)
      BY <1>0, <1>3, <2>3, FileFields DEF Lives
    <3>2. pc[c.owner] \in Claiming /\ seen[c.owner].stamp = c.key
      BY <1>0, <3>1 DEF FilesInv
    <3>. QED
      BY <1>0, <1>1, <2>3, <3>1, <3>2 DEF LockTypeOK
  <2>. QED
    BY <1>0, <1>1, <2>1, <2>2, <2>3 DEF FilesInv, Lives
<1>7. StampInv'
  BY <1>0, <1>1, FileFields DEF StampInv, LockTypeOK
<1>8. CalmInv'
  <2>1. \A q \in Procs : pc[q] = "dead" => pc'[q] = "dead"
    BY <1>3 DEF Lives
  <2>. QED
    BY <1>0, <1>1, <2>1, FileFields DEF CalmInv, LockTypeOK, Lives
<1>9. ReclaimInv'
  <2>. SUFFICES ASSUME stalls = 0, OneDead, NEW q \in Procs PROVE ClaimsHold(q)'
    BY <1>1, <1>3 DEF ReclaimInv
  <2>1. CASE q = p
    BY <1>1, <2>1 DEF ClaimsHold, Claiming
  <2>2. CASE q # p
    BY <1>0, <1>1, <2>2 DEF ReclaimInv, ClaimsHold, MyClaim, ClaimAt, StillThere, LockTypeOK
  <2>. QED
    BY <2>1, <2>2
<1>10. OwnInv'
  BY <1>0, <1>1, <1>2, <1>3 DEF OwnInv, Mine, LockTypeOK
<1>11. AloneInv'
  <2>1. LoneWay(p)'
    BY <1>1 DEF LoneWay, Seeing, Claiming
  <2>. QED
    BY <1>0, <1>1, <2>1, AloneKept
<1>. QED
  BY <1>5, <1>6, <1>7, <1>8, <1>9, <1>10, <1>11 DEF LockInv

(* From the first lease that passes on, only the way of the lone is left. *)
LEMMA LockLeasePassesKeepsInv ==
    ASSUME LockInv, LockLeasePasses
    PROVE  LockInv'
<1>0. LockTypeOK /\ FilesInv /\ StampInv /\ AloneInv
  BY DEF LockInv
<1>1. /\ lockFile # None /\ stalls' = stalls + 1 /\ stalls < MaxStalls
      /\ UNCHANGED <<claims, pc, attempt, seen, alone>>
      /\ lockFile' \in Files /\ lockFile' # None
      /\ lockFile'.owner = lockFile.owner /\ lockFile'.stamp = lockFile.stamp
  <2>1. TRUE \in BOOLEAN /\ lockFile \in Files
    BY <1>0, FileFields DEF LockLeasePasses
  <2>2. /\ lockFile' \in Files
        /\ lockFile'.owner = lockFile.owner /\ lockFile'.stamp = lockFile.stamp
    BY <2>1 DEF LockLeasePasses, Files
  <2>. QED
    BY <2>2, NoneAssumption DEF LockLeasePasses
<1>2. stalls' # 0 /\ stalls' \in 0 .. MaxStalls
  BY <1>0, <1>1, BoundsAssumption DEF LockTypeOK
<1>3. LockTypeOK'
  BY <1>0, <1>1, <1>2 DEF LockTypeOK
<1>4. FilesInv' /\ StampInv'
  BY <1>0, <1>1 DEF FilesInv, StampInv, Lives
<1>5. CalmInv' /\ ReclaimInv' /\ OwnInv'
  BY <1>2 DEF CalmInv, ReclaimInv, OwnInv
<1>6. AloneInv'
  BY <1>0, <1>1 DEF AloneInv, Lives, LoneWay, MyClaim, ClaimAt
<1>. QED
  BY <1>3, <1>4, <1>5, <1>6 DEF LockInv

(* The same for the lease of a claim. *)
LEMMA ClaimLeasePassesKeepsInv ==
    ASSUME LockInv, ClaimLeasePasses
    PROVE  LockInv'
<1>0. LockTypeOK /\ FilesInv /\ StampInv /\ AloneInv
  BY DEF LockInv
<1>1. PICK c \in claims : claims' = (claims \ {c}) \cup {[c EXCEPT !.old = TRUE]}
  BY DEF ClaimLeasePasses
<1>2. /\ stalls' = stalls + 1 /\ stalls < MaxStalls
      /\ UNCHANGED <<lockFile, pc, attempt, seen, alone>>
  BY DEF ClaimLeasePasses
<1> DEFINE late == [c EXCEPT !.old = TRUE]
<1>3. /\ late \in [key : Stamps, owner : Procs, old : BOOLEAN]
      /\ late.key = c.key /\ late.owner = c.owner
  <2>1. TRUE \in BOOLEAN /\ c \in [key : Stamps, owner : Procs, old : BOOLEAN]
    BY <1>0 DEF LockTypeOK
  <2>. QED
    BY <2>1
<1>4. claims' = (claims \ {c}) \cup {late}
  BY <1>1
<1> HIDE DEF late
<1>5. stalls' # 0 /\ stalls' \in 0 .. MaxStalls
  BY <1>0, <1>2, BoundsAssumption DEF LockTypeOK
<1>6. LockTypeOK'
  BY <1>0, <1>2, <1>3, <1>4, <1>5 DEF LockTypeOK
<1>7. FilesInv' /\ StampInv'
  BY <1>0, <1>2, <1>3, <1>4 DEF FilesInv, StampInv, Lives
<1>8. CalmInv' /\ ReclaimInv' /\ OwnInv'
  BY <1>5 DEF CalmInv, ReclaimInv, OwnInv
<1>9. AloneInv'
  <2>1. \A k : ClaimAt(k)' = {} <=> ClaimAt(k) = {}
    BY <1>3, <1>4 DEF ClaimAt
  <2>2. ASSUME NEW p \in Procs PROVE MyClaim(p) # {} => MyClaim(p)' # {}
    BY <1>2, <1>3, <1>4 DEF MyClaim, ClaimAt
  <2>3. ASSUME NEW p \in Procs, LoneWay(p) PROVE LoneWay(p)'
    BY <1>2, <2>1, <2>2, <2>3 DEF LoneWay
  <2>. QED
    BY <1>0, <1>2, <2>3 DEF AloneInv, Lives
<1>. QED
  BY <1>6, <1>7, <1>8, <1>9 DEF LockInv

-----------------------------------------------------------------------------
(* The theorems *)

(* At first there are no files and nobody calls. *)
LEMMA LockInitInv == LockInit => LockInv
<1>. SUFFICES ASSUME LockInit PROVE LockInv
  OBVIOUS
<1>1. LockTypeOK
  <2>1. 0 \in 0 .. Attempts - 1 /\ 0 \in 0 .. MaxStalls /\ FALSE \in BOOLEAN
    BY AttemptsAssumption, BoundsAssumption
  <2>. QED
    BY <2>1 DEF LockInit, LockTypeOK
<1>2. \A p \in Procs : pc[p] = "idle" /\ seen[p] = None /\ ~alone[p]
  BY DEF LockInit
<1>3. FilesInv /\ StampInv /\ CalmInv
  BY <1>2 DEF LockInit, FilesInv, StampInv, CalmInv, Seeing, Claiming
<1>4. ReclaimInv /\ OwnInv /\ AloneInv
  BY <1>2 DEF ReclaimInv, ClaimsHold, OwnInv, AloneInv, Claiming, Owning
<1>. QED
  BY <1>1, <1>3, <1>4 DEF LockInv

(* Every step of a call and of a holder. *)
LEMMA LockStepKeepsInv ==
    ASSUME LockInv, NEW p \in Procs, LockStep(p)
    PROVE  LockInv'
<1>1. CASE Acquiring(p)
  BY <1>1, PublishKeepsInv, ObserveKeepsInv, ClaimKeepsInv, InspectKeepsInv, DropClaimKeepsInv,
     VerifyKeepsInv, CheckKeepsInv, ReclaimKeepsInv, UnclaimKeepsInv, ForgetKeepsInv
     DEF Acquiring
<1>. QED
  BY <1>1, BeginKeepsInv, TouchKeepsInv, ReleaseKeepsInv, RemoveKeepsInv DEF LockStep

(* The inductive step. *)
LEMMA LockNextInv == LockInv /\ [LockNext]_lockVars => LockInv'
<1>. SUFFICES ASSUME LockInv, [LockNext]_lockVars PROVE LockInv'
  OBVIOUS
<1>1. CASE UNCHANGED lockVars
  BY <1>1 DEF lockVars, LockInv, LockTypeOK, FilesInv, StampInv, CalmInv, ReclaimInv, ClaimsHold,
     OwnInv, AloneInv, LoneWay, Lives, OneDead, Few, Dead, Mine, StillThere, MyClaim, ClaimAt
<1>2. CASE \E p \in Procs : LockStep(p) \/ Heartbeat(p) \/ Crash(p)
  BY <1>2, LockStepKeepsInv, HeartbeatKeepsInv, CrashKeepsInv
<1>. QED
  BY <1>1, <1>2, LockLeasePassesKeepsInv, ClaimLeasePassesKeepsInv DEF LockNext

(* The inductive invariant holds at any time, for any number of processes, *)
(* attempts, kills and leases that pass (pid.ts 753-857).                  *)
THEOREM LockInvariant == LockSpec => []LockInv
<1>. QED
  BY LockInitInv, LockNextInv, PTL DEF LockSpec

(* The bound on faults counts the dead. *)
FaultsInv == Cardinality(Dead) + stalls <= MaxFaults

(* Every kill and every lease that passes is counted. *)
LEMMA FaultsNext == LockInv /\ FaultsInv /\ [LockNext]_lockVars => FaultsInv'
<1>. SUFFICES ASSUME LockInv, FaultsInv, [LockNext]_lockVars PROVE FaultsInv'
  OBVIOUS
<1>0. LockTypeOK /\ LockTypeOK' /\ MaxFaults \in Nat /\ stalls \in Nat
  BY LockNextInv, BoundsAssumption DEF LockInv, LockTypeOK
<1>1. IsFiniteSet(Dead) /\ Cardinality(Dead) \in Nat
  BY ProcsAssumption, FS_Subset, FS_CardinalityType, Dead \in SUBSET Procs DEF Dead
<1>2. ASSUME NEW p \in Procs, Lives(p), pc' = [pc EXCEPT ![p] = pc'[p]], pc'[p] # "dead",
             stalls' = stalls
      PROVE  FaultsInv'
  <2>1. Dead' = Dead
    BY <1>0, <1>2 DEF Dead, Lives, LockTypeOK
  <2>. QED
    BY <1>2, <2>1 DEF FaultsInv
<1>3. ASSUME NEW p \in Procs, NextAttempt(p)
      PROVE  pc' = [pc EXCEPT ![p] = pc'[p]] /\ pc'[p] # "dead"
  BY <1>0, <1>3, NextAttemptDoes
<1>4. ASSUME NEW p \in Procs, Refuse(p)
      PROVE  pc' = [pc EXCEPT ![p] = pc'[p]] /\ pc'[p] # "dead"
  BY <1>0, <1>4 DEF Refuse, Goto, LockTypeOK
<1>5. ASSUME NEW p \in Procs, LockStep(p) \/ Heartbeat(p)
      PROVE  Lives(p) /\ pc' = [pc EXCEPT ![p] = pc'[p]] /\ pc'[p] # "dead" /\ stalls' = stalls
  <2>1. CASE Begin(p) \/ Publish(p)
    BY <1>0, <2>1 DEF Begin, Publish, Goto, Lives, LockTypeOK
  <2>2. CASE Observe(p) \/ Inspect(p)
    BY <1>0, <1>3, <1>4, <2>2 DEF Observe, Inspect, Goto, Lives, LockTypeOK
  <2>3. CASE DropClaim(p) \/ Unclaim(p) \/ Forget(p)
    BY <1>0, <1>3, <2>3 DEF DropClaim, Unclaim, Forget, Goto, Lives, LockTypeOK
  <2>4. CASE Claim(p) \/ Verify(p) \/ Check(p) \/ Reclaim(p)
    BY <1>0, <2>4 DEF Claim, Verify, Check, Reclaim, UnchangedByClaim, Goto, Lives, LockTypeOK
  <2>5. CASE Touch(p) \/ ReleaseLock(p) \/ Remove(p) \/ Heartbeat(p)
    BY <1>0, <2>5
       DEF Touch, ReleaseLock, Remove, Heartbeat, UnchangedByHolder, Goto, Lives, LockTypeOK
  <2>. QED
    BY <1>5, <2>1, <2>2, <2>3, <2>4, <2>5 DEF LockStep, Acquiring
<1>6. ASSUME NEW p \in Procs, Crash(p) PROVE FaultsInv'
  <2>1. Dead' = Dead \cup {p} /\ p \notin Dead
    BY <1>0, <1>6 DEF Crash, Goto, Dead, Lives, LockTypeOK
  <2>2. Cardinality(Dead') = Cardinality(Dead) + 1
    BY <1>1, <2>1, FS_AddElement
  <2>. QED
    BY <1>0, <1>1, <1>6, <2>2 DEF Crash, FaultsInv
<1>7. ASSUME LockLeasePasses \/ ClaimLeasePasses PROVE FaultsInv'
  <2>1. /\ stalls' = stalls + 1 /\ pc' = pc
        /\ Cardinality(Dead) + stalls < MaxFaults
    BY <1>7 DEF LockLeasePasses, ClaimLeasePasses
  <2>2. Dead' = Dead
    BY <2>1 DEF Dead, Lives
  <2>. QED
    BY <1>0, <1>1, <2>1, <2>2 DEF FaultsInv
<1>8. CASE UNCHANGED lockVars
  BY <1>8 DEF lockVars, FaultsInv, Dead, Lives
<1>9. CASE \E p \in Procs : LockStep(p) \/ Heartbeat(p)
  BY <1>2, <1>5, <1>9
<1>. QED
  BY <1>6, <1>7, <1>8, <1>9 DEF LockNext

(* No more processes are dead than the bound on faults says. *)
LEMMA FaultsBounded == LockSpec => []FaultsInv
<1>1. LockInit => FaultsInv
  <2>1. LockInit => Dead = {}
    BY DEF LockInit, Dead, Lives
  <2>2. Cardinality({}) = 0
    BY FS_EmptySet
  <2>. QED
    BY <2>1, <2>2, BoundsAssumption DEF LockInit, FaultsInv
<1>. QED
  BY <1>1, LockInvariant, FaultsNext, PTL DEF LockSpec

(* One dead, said without counting. *)
LEMMA OneOfTheDead ==
    ASSUME Cardinality(Dead) <= 1
    PROVE  OneDead
<1>1. IsFiniteSet(Dead)
  BY ProcsAssumption, FS_Subset, Dead \in SUBSET Procs DEF Dead
<1>2. ASSUME NEW p \in Dead, NEW q \in Dead, p # q PROVE FALSE
  <2>1. IsFiniteSet({p}) /\ Cardinality({p}) = 1
    BY FS_Singleton
  <2>2. IsFiniteSet({p} \cup {q}) /\ Cardinality({p} \cup {q}) = 2
    BY <1>2, <2>1, FS_AddElement, q \notin {p}
  <2>3. {p} \cup {q} \in SUBSET Dead
    OBVIOUS
  <2>4. 2 <= Cardinality(Dead) /\ Cardinality(Dead) \in Nat
    BY <1>1, <2>2, <2>3, FS_Subset, FS_CardinalityType
  <2>. QED
    BY <2>4
<1>. QED
  BY <1>2 DEF OneDead

(* With any number of processes, the lock of a live holder is its own as   *)
(* long as no live process outlived a lease and one at most was killed: no *)
(* reclaimer, late release or heartbeat takes it away.                     *)
THEOREM HolderKeepsLockOfOneDead == LockSpec => [](Cardinality(Dead) <= 1 => HolderKeepsLock)
<1>1. LockInv => (Cardinality(Dead) <= 1 => HolderKeepsLock)
  BY OneOfTheDead DEF LockInv, OwnInv, Few, HolderKeepsLock, Holding, Owning
<1>. QED
  BY <1>1, LockInvariant, PTL

(* With three attempts, as in the code, a process that was alone during    *)
(* its whole call is never refused, whatever number of killed ones left    *)
(* locks and claims behind, and also past their leases.                    *)
THEOREM LoneStarterAlwaysWins ==
    ASSUME Attempts >= 3
    PROVE  LockSpec => []LoneStarterWins
<1>1. LockInv => LoneStarterWins
  BY DEF LockInv, AloneInv, LoneWay, LoneStarterWins
<1>. QED
  BY <1>1, LockInvariant, PTL

(* Both at once, for any number of kills among three processes and for one *)
(* kill among any number of them.  (Two killed of four can break the lock: *)
(* the second reclaimer drops the first one's claim.)                      *)
THEOREM LockAlwaysSafe ==
    ASSUME Attempts >= 3, Cardinality(Procs) <= 3 \/ MaxFaults <= 1
    PROVE  LockSpec => []LockIsSafe
<1>1. LockInv /\ FaultsInv => Few
  <2>. SUFFICES ASSUME LockInv, FaultsInv, ~(Cardinality(Procs) <= 3) PROVE OneDead
    BY DEF Few
  <2>1. stalls \in Nat /\ MaxFaults \in Nat /\ MaxFaults <= 1
    BY BoundsAssumption DEF LockInv, LockTypeOK
  <2>2. IsFiniteSet(Dead) /\ Cardinality(Dead) \in Nat
    BY ProcsAssumption, FS_Subset, FS_CardinalityType, Dead \in SUBSET Procs DEF Dead
  <2>3. Cardinality(Dead) <= 1
    BY <2>1, <2>2 DEF FaultsInv
  <2>. QED
    BY <2>3, OneOfTheDead
<1>2. LockInv /\ Few => HolderKeepsLock
  BY DEF LockInv, OwnInv, HolderKeepsLock, Holding, Owning
<1>3. LockInv => LoneStarterWins
  BY DEF LockInv, AloneInv, LoneWay, LoneStarterWins
<1>4. LockInv /\ FaultsInv => LockIsSafe
  BY <1>1, <1>2, <1>3 DEF LockIsSafe, LockInv
<1>. QED
  BY <1>4, LockInvariant, FaultsBounded, PTL
=============================================================================
