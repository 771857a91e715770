------------------------------ MODULE PlanIndex ------------------------------
(***************************************************************************)
(* The local plan index of one process (shared/src/services,               *)
(* plan-service.ts) and the file watcher that feeds it (watcher.ts).       *)
(*                                                                         *)
(* A full scan builds a new index from every source and swaps it in; a     *)
(* rescan re-reads one changed file into the live index.  Both await their *)
(* reads, so files change, rescans run and routes ask for scans while a    *)
(* pass is under way.                                                      *)
(*                                                                         *)
(* A file stands for a plan source with the plans read from it.  What it   *)
(* says is the number of changes made to it, which also stands for its     *)
(* size and modification time.  A file whose directory is no plan source   *)
(* is "unlisted".  The user's low-value restores (setPlanValueOverride,    *)
(* pruneDeletedValueOverrides), several adapters on one source, and plans  *)
(* written through the index (create and update, which no local route      *)
(* calls) are left out.                                                    *)
(***************************************************************************)
EXTENDS Integers, FiniteSets

CONSTANTS
    Files,        \* plan sources
    Flushes,      \* debounced batches of changed files rescanned at once
    Callers,      \* routes that wait for a scan
    Boot,         \* the process start, which waits for the first scan
    Replay,       \* the rescans a pass makes after its swap
    None,         \* no file, no entry, no request
    MaxChanges,   \* bound on the changes of one file
    MaxFailures   \* bound on failed reads and failed passes

ASSUME RunnersAssumption == Replay \notin Flushes /\ Boot \notin Callers
ASSUME NoneAssumption == None \notin Files
ASSUME BoundsAssumption == MaxChanges \in Nat /\ MaxFailures \in Nat

Runners == Flushes \cup {Replay}
Waiters == Callers \cup {Boot}

VARIABLES
    disk,        \* the files as they are
    index,       \* store: what the live index says of each file
    parsed,      \* parseCache
    scan,        \* the pass of scanOnce under way
    followUp,    \* followUpScanRequested
    waiting,     \* callers of scan() and what they asked it to show
    rescanned,   \* rescannedDuringScan
    pending,     \* pendingFiles of the watcher
    watched,     \* files with a live watcher
    tasks,       \* rescans under way
    failures,    \* failures so far
    seen,        \* history: the newest state of a file any read has met
    failed,      \* history: the newest state of a file a failed read has met
    reported,    \* history: the last change of a file the watcher reported
    overtaken    \* history: files last indexed by a read that had been overtaken

pass == <<scan, followUp, waiting>>
history == <<seen, failed, reported, overtaken>>
vars == <<disk, index, parsed, pass, rescanned, pending, watched, tasks,
          failures, history>>

Entry == [at : Nat, plan : BOOLEAN]

(* What a read of f finds now. *)
View(f) == [at |-> disk[f].at, plan |-> disk[f].state # "absent"]

(* What the index should say of f now. *)
Current(f) == [at |-> disk[f].at, plan |-> disk[f].state = "listed"]

NoPass == [pc |-> "idle"]
NewPass == [pc |-> "files", todo |-> Files, file |-> None, print |-> 0,
            next |-> [f \in Files |-> None], cache |-> [f \in Files |-> None]]
NoTask == [todo |-> {}, file |-> None, got |-> None]

Later(a, b) == IF a >= b THEN a ELSE b

(* The first scan is under way; the watchers start when it has ended. *)
Init ==
    /\ disk \in [Files -> [at : {1}, state : {"absent", "listed", "unlisted"}]]
    /\ index = [f \in Files |-> [at |-> 0, plan |-> FALSE]]
    /\ parsed = [f \in Files |-> None]
    /\ scan = NewPass
    /\ followUp = FALSE
    /\ waiting = [c \in Waiters |-> IF c = Boot
                                    THEN [wants |-> [f \in Files |-> 1], watch |-> TRUE]
                                    ELSE None]
    /\ rescanned = {} /\ pending = {} /\ watched = {}
    /\ tasks = [r \in Runners |-> NoTask]
    /\ failures = 0
    /\ seen = [f \in Files |-> 0]
    /\ failed = [f \in Files |-> 0]
    /\ reported = [f \in Files |-> 0]
    /\ overtaken = {}

-----------------------------------------------------------------------------
(* The files *)

Changed(f, state) ==
    /\ disk[f].at < MaxChanges
    /\ disk' = [disk EXCEPT ![f] = [at |-> @.at + 1, state |-> state]]

(* An agent or the user writes, creates or deletes a plan; the watcher's   *)
(* listener puts the file with the pending ones.                           *)
Change(f) ==
    /\ disk[f].state # "unlisted"
    /\ \E state \in {"listed", "absent"} :
          (disk[f].state = "listed" \/ state = "listed") /\ Changed(f, state)
    /\ IF f \in watched
       THEN /\ pending' = pending \cup {f}
            /\ reported' = [reported EXCEPT ![f] = disk[f].at + 1]
       ELSE UNCHANGED <<pending, reported>>
    /\ UNCHANGED <<index, parsed, pass, rescanned, watched, tasks,
                   failures, seen, failed, overtaken>>

(* An errored watcher is abandoned. *)
WatcherFails(f) ==
    /\ f \in watched
    /\ watched' = watched \ {f}
    /\ UNCHANGED <<disk, index, parsed, pass, rescanned, pending, tasks,
                   failures, history>>

-----------------------------------------------------------------------------
(* scan() *)

Begun == scan' = NewPass /\ rescanned' = {}

(* Mutant: a request that finds a pass under way shares it. *)
NotQueued == UNCHANGED followUp

Queued == followUp' = TRUE

(* Caller c asks for a scan; one that finds a pass under way queues one more. *)
Request(c, watch) ==
    /\ waiting[c] = None
    /\ waiting' = [waiting EXCEPT ![c] =
         [wants |-> [f \in Files |-> disk'[f].at], watch |-> watch]]
    /\ IF scan = NoPass
       THEN Begun /\ UNCHANGED followUp
       ELSE Queued /\ UNCHANGED <<scan, rescanned>>

(* POST /rescan *)
Rescan(c) ==
    /\ UNCHANGED disk
    /\ Request(c, FALSE)
    /\ UNCHANGED <<index, parsed, pending, watched, tasks, failures, history>>

(* POST and DELETE /plan-sources: the directory of f comes or goes. *)
ChangeSource(c, f) ==
    /\ \/ disk[f].state = "unlisted" /\ Changed(f, "listed")
       \/ disk[f].state = "listed" /\ Changed(f, "unlisted")
    /\ Request(c, TRUE)
    /\ UNCHANGED <<index, parsed, pending, watched, tasks, failures, history>>

(* Mutant: the poll queues a pass as a route does. *)
SweepQueues ==
    /\ waiting[Boot] = None
    /\ IF scan = NoPass
       THEN Begun /\ UNCHANGED followUp
       ELSE followUp' = TRUE /\ UNCHANGED <<scan, rescanned>>
    /\ UNCHANGED <<disk, index, parsed, waiting, pending, watched, tasks,
                   failures, history>>

(* The fallback poll: it starts no pass while one is under way. *)
Sweep ==
    /\ waiting[Boot] = None
    /\ scan = NoPass
    /\ Begun
    /\ UNCHANGED <<disk, index, parsed, followUp, waiting, pending, watched, tasks,
                   failures, history>>

(* indexSourcePlans, and what the next pass may reuse. *)
Put(f, entry, reuse) ==
    scan' = [scan EXCEPT !.todo = @ \ {f}, !.file = None, !.print = 0,
                         !.next[f] = entry, !.cache[f] = reuse]

Met(f, at) == seen' = [seen EXCEPT ![f] = Later(@, at)]

(* The walk lists f or not; a listed file is reused while its fingerprint  *)
(* is the cached one, and parsed otherwise.                                *)
Look(f) ==
    /\ scan.pc = "files" /\ scan.file = None /\ f \in scan.todo
    /\ IF disk[f].state = "listed" /\ (parsed[f] = None \/ parsed[f].print # disk[f].at)
       THEN /\ scan' = [scan EXCEPT !.file = f, !.print = disk[f].at]
            /\ UNCHANGED seen
       ELSE /\ IF disk[f].state = "listed"
               THEN Put(f, parsed[f].entry, parsed[f])
               ELSE Put(f, Current(f), None)
            /\ Met(f, disk[f].at)
    /\ UNCHANGED <<disk, index, parsed, followUp, waiting, rescanned, pending, watched,
                   tasks, failures, failed, reported, overtaken>>

Parse ==
    /\ scan.pc = "files" /\ scan.file # None
    /\ LET f == scan.file
       IN  /\ Put(f, View(f), [print |-> scan.print, entry |-> View(f)])
           /\ Met(f, disk[f].at)
    /\ UNCHANGED <<disk, index, parsed, followUp, waiting, rescanned, pending, watched,
                   tasks, failures, failed, reported, overtaken>>

(* Mutant: the plans kept after a failed read are cached as if just read. *)
KeptAsRead(f) == [print |-> scan.print, entry |-> index[f]]

KeptReuse(f) == None

(* A source that cannot be read keeps its previous plans; nothing of them  *)
(* is reused by the next pass.                                             *)
ParseFails ==
    /\ scan.pc = "files" /\ scan.file # None
    /\ failures < MaxFailures
    /\ failures' = failures + 1
    /\ LET f == scan.file
       IN  /\ Put(f, index[f], KeptReuse(f))
           /\ Met(f, disk[f].at)
           /\ failed' = [failed EXCEPT ![f] = disk[f].at]
    /\ UNCHANGED <<disk, index, parsed, followUp, waiting, rescanned, pending, watched,
                   tasks, reported, overtaken>>

Swap ==
    /\ scan.pc = "files" /\ scan.todo = {}
    /\ index' = scan.next
    /\ parsed' = scan.cache
    /\ tasks' = [tasks EXCEPT ![Replay] = [NoTask EXCEPT !.todo = rescanned]]
    /\ rescanned' = {}
    /\ scan' = [pc |-> "replay"]
    /\ overtaken' = {f \in overtaken : scan.next[f].at < seen[f]}
    /\ UNCHANGED <<disk, followUp, waiting, pending, watched, failures,
                   seen, failed, reported>>

Replayed == scan.pc = "replay" /\ tasks[Replay] = NoTask

(* Every caller returns; the start and the source routes then attach the   *)
(* missing watchers and close those of directories no longer listed.       *)
Answer ==
    /\ waiting' = [c \in Waiters |-> None]
    /\ watched' = IF \E c \in Waiters : waiting[c] # None /\ waiting[c].watch
                  THEN {f \in Files : disk[f].state # "unlisted"}
                  ELSE watched

(* A pass has ended: the queued one begins, or scan() is done. *)
EndPass ==
    /\ Replayed
    /\ followUp' = FALSE
    /\ IF followUp
       THEN Begun /\ UNCHANGED <<waiting, watched>>
       ELSE scan' = NoPass /\ Answer /\ UNCHANGED rescanned
    /\ UNCHANGED <<disk, index, parsed, pending, tasks, failures, history>>

(* A pass throws, on its way or after its replay: its callers are told so. *)
(* A failed first scan ends the process and is left out.                   *)
FailPass ==
    /\ scan.pc = "files" \/ Replayed
    /\ waiting[Boot] = None
    /\ failures < MaxFailures
    /\ failures' = failures + 1
    /\ scan' = NoPass
    /\ followUp' = FALSE
    /\ waiting' = [c \in Waiters |-> None]
    /\ rescanned' = {}
    /\ UNCHANGED <<disk, index, parsed, pending, watched, tasks, history>>

-----------------------------------------------------------------------------
(* rescanFile *)

(* flushPendingRescan *)
Flush(r) ==
    /\ r \in Flushes /\ tasks[r] = NoTask
    /\ pending # {}
    /\ tasks' = [tasks EXCEPT ![r].todo = pending]
    /\ pending' = {}
    /\ UNCHANGED <<disk, index, parsed, pass, rescanned, watched, failures,
                   history>>

Done(r, f) ==
    tasks' = [tasks EXCEPT ![r] = [NoTask EXCEPT !.todo = tasks[r].todo \ {f}]]

(* Mutant: a rescan during a pass is not remembered for the replay. *)
NotNoted(f) == rescanned

(* Mutant: a rescan is remembered when no pass will replay it. *)
AlwaysNoted(f) == rescanned \cup {f}

Noted(f) == IF scan.pc = "files" THEN rescanned \cup {f} ELSE rescanned

(* The file is noted for the replay and its cached parse dropped; a file   *)
(* under no plan source is nobody's.                                       *)
Begin(r, f) ==
    /\ tasks[r].file = None /\ f \in tasks[r].todo
    /\ rescanned' = Noted(f)
    /\ parsed' = [parsed EXCEPT ![f] = None]
    /\ IF disk[f].state = "unlisted"
       THEN Done(r, f) /\ reported' = [reported EXCEPT ![f] = 0]
       ELSE tasks' = [tasks EXCEPT ![r].file = f] /\ UNCHANGED reported
    /\ UNCHANGED <<disk, index, pass, pending, watched, failures,
                   seen, failed, overtaken>>

Read(r) ==
    /\ tasks[r].file # None /\ tasks[r].got = None
    /\ tasks' = [tasks EXCEPT ![r].got = View(tasks[r].file)]
    /\ Met(tasks[r].file, disk[tasks[r].file].at)
    /\ UNCHANGED <<disk, index, parsed, pass, rescanned, pending, watched,
                   failures, failed, reported, overtaken>>

ReadFails(r) ==
    /\ tasks[r].file # None /\ tasks[r].got = None
    /\ failures < MaxFailures
    /\ failures' = failures + 1
    /\ Done(r, tasks[r].file)
    /\ Met(tasks[r].file, disk[tasks[r].file].at)
    /\ failed' = [failed EXCEPT ![tasks[r].file] = disk[tasks[r].file].at]
    /\ UNCHANGED <<disk, index, parsed, pass, rescanned, pending, watched,
                   reported, overtaken>>

(* The awaited plans replace those of the file in the live index. *)
Finish(r) ==
    /\ tasks[r].got # None
    /\ LET f == tasks[r].file
       IN  /\ index' = [index EXCEPT ![f] = tasks[r].got]
           /\ overtaken' = IF tasks[r].got.at < seen[f]
                           THEN overtaken \cup {f} ELSE overtaken \ {f}
           /\ Done(r, f)
    /\ UNCHANGED <<disk, parsed, pass, rescanned, pending, watched, failures,
                   seen, failed, reported>>

-----------------------------------------------------------------------------

ScanStep ==
    \/ \E f \in Files : Look(f)
    \/ Parse
    \/ Swap
    \/ EndPass

RescanStep(r) ==
    \/ Flush(r)
    \/ \E f \in Files : Begin(r, f)
    \/ Read(r)
    \/ Finish(r)

Next ==
    \/ \E f \in Files : Change(f) \/ WatcherFails(f)
    \/ \E c \in Callers : Rescan(c) \/ \E f \in Files : ChangeSource(c, f)
    \/ Sweep
    \/ ScanStep
    \/ ParseFails
    \/ FailPass
    \/ \E r \in Runners : RescanStep(r) \/ ReadFails(r)

Spec == Init /\ [][Next]_vars

(* Reads end and timers fire: every pass and rescan goes on, pending files *)
(* are flushed and the poll comes round.  Nobody has to change anything.   *)
FairSpec ==
    /\ Spec
    /\ WF_vars(ScanStep)
    /\ WF_vars(Sweep)
    /\ \A r \in Runners : WF_vars(RescanStep(r))

-----------------------------------------------------------------------------
(* Properties *)

FileState == [at : Nat \ {0}, state : {"absent", "listed", "unlisted"}]
Reuse == [print : Nat, entry : Entry]
Task == [todo : SUBSET Files, file : Files \cup {None}, got : Entry \cup {None}]
Reading == [pc : {"files"}, todo : SUBSET Files, file : Files \cup {None}, print : Nat,
            next : [Files -> Entry \cup {None}], cache : [Files -> Reuse \cup {None}]]

(* The state is well formed: a pass holds what it has read and what it may *)
(* reuse, and only a pass under way has rescans to remember.               *)
TypeOK ==
    /\ disk \in [Files -> FileState]
    /\ index \in [Files -> Entry]
    /\ parsed \in [Files -> Reuse \cup {None}]
    /\ scan \in {NoPass, [pc |-> "replay"]} \cup Reading
    /\ scan.pc = "files" => \A f \in Files \ scan.todo : scan.next[f] \in Entry
    /\ followUp \in BOOLEAN
    /\ waiting \in [Waiters -> [wants : [Files -> Nat], watch : BOOLEAN] \cup {None}]
    /\ pending \subseteq Files /\ watched \subseteq Files
    /\ rescanned \subseteq Files /\ (rescanned # {} => scan.pc = "files")
    /\ tasks \in [Runners -> Task]
    /\ failures \in 0 .. MaxFailures
    /\ {seen, failed, reported} \subseteq [Files -> Nat] /\ overtaken \subseteq Files

Quiet(f) ==
    /\ f \notin pending
    /\ \A r \in Runners : f \notin tasks[r].todo /\ f # tasks[r].file

(* A change the watcher reported is never lost to a pass that read the     *)
(* file before it: once its rescans are over, the replayed one included,   *)
(* the index shows it.  Two things excuse an older entry: the last read of *)
(* the file failed, or a slow rescan wrote what it had read before a       *)
(* faster one (plan-service.ts, "recorded so they can be replayed").       *)
ReportedIsIndexed ==
    /\ TypeOK
    /\ \A f \in Files :
          Quiet(f) => \/ index[f].at >= reported[f]
                      \/ failed[f] >= reported[f]
                      \/ f \in overtaken

(* Who waited for a scan finds in the index what was there when it asked:  *)
(* no pass that began before the request answers it ("visible before every *)
(* waiting caller returns").                                               *)
CallersSeeTheirChange ==
    [][\A c \in Waiters :
         waiting[c] # None /\ waiting'[c] = None /\ failures' = failures
           => \A f \in Files : \/ index'[f].at >= waiting[c].wants[f]
                               \/ failed[f] >= waiting[c].wants[f]
                               \/ f \in overtaken]_vars

(* Every caller of scan() gets an answer: polls and rescans cannot keep it *)
(* waiting for pass after pass.                                            *)
CallersReturn ==
    \A c \in Waiters : waiting[c] # None ~> waiting[c] = None

(* Whatever watchers, reads and passes fail: when the files stay as they   *)
(* are, the index comes to show them and keeps doing so.                   *)
EventuallyCurrent ==
    <>[](\A f \in Files : index[f] = Current(f))

(* In the end: whoever waits is answered, and the index shows the files.   *)
IndexIsLive == CallersReturn /\ EventuallyCurrent
=============================================================================
