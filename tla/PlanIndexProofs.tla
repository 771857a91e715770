--------------------------- MODULE PlanIndexProofs ---------------------------
(***************************************************************************)
(* Theorems about the plan index, for any number of files, overlapping     *)
(* rescans, waiting routes, changes and failures.                          *)
(*                                                                         *)
(* That a reported change is indexed is not inductive: a pass that read    *)
(* the file before the change may still replace the index, and a slow      *)
(* rescan may still write what it read.  The strengthening follows a       *)
(* change from the watcher to the index (Asked, Owed, FileInv), says what  *)
(* the running pass has read of it, and, for those who wait, which pass    *)
(* is going to answer them (WaitInv).                                      *)
(***************************************************************************)
EXTENDS PlanIndex, TLAPS

(* The file waits for a rescan that has not begun; one that has not read it. *)
Asked(f) == f \in pending \/ \E r \in Runners : f \in tasks[r].todo /\ tasks[r].file # f
Unread(f) == \E r \in Runners : tasks[r].file = f /\ tasks[r].got = None
Owed(f) == Asked(f) \/ Unread(f)

(* An entry of age `at` is as new as n, or the read that met n failed. *)
Newer(f, at, n) == at >= n \/ failed[f] >= n

(* A rescan has read the last reported change and will write it. *)
Brought(f) ==
    \E r \in Runners : tasks[r].file = f /\ tasks[r].got # None /\ tasks[r].got.at >= reported[f]

FileInv(f) ==
    /\ reported[f] <= disk[f].at /\ failed[f] <= disk[f].at
    /\ seen[f] >= reported[f] \/ Owed(f)
    /\ Owed(f) \/ Brought(f) \/ f \in overtaken \/ Newer(f, index[f].at, reported[f])

(* What the pass has read of f is new enough, or f will be read again. *)
PassInv(f) ==
    scan.pc = "files" /\ f \notin scan.todo
      => f \in rescanned \/ Asked(f) \/ Newer(f, scan.next[f].at, reported[f])

(* A cached parse is no older than its fingerprint. *)
Fresh(reuse) == reuse # None => reuse.entry.at >= reuse.print

CacheInv ==
    /\ \A f \in Files : Fresh(parsed[f])
    /\ scan.pc = "files" => \A f \in Files : Fresh(scan.cache[f])
    /\ scan.pc = "files" /\ scan.file # None => scan.print <= disk[scan.file].at

TaskInv ==
    /\ scan.pc # "replay" => tasks[Replay] = NoTask
    /\ \A r \in Runners : /\ tasks[r].file # None => tasks[r].file \in tasks[r].todo
                          /\ tasks[r].got # None => tasks[r].file # None

(* The pass that will answer c has met what c asked to see. *)
WaitInv(c) ==
    waiting[c] # None =>
      /\ scan.pc # "idle"
      /\ \A f \in Files : waiting[c].wants[f] <= disk[f].at
      /\ ~followUp /\ scan.pc = "files" =>
           \A f \in Files \ scan.todo :
             /\ seen[f] >= waiting[c].wants[f]
             /\ Newer(f, scan.next[f].at, waiting[c].wants[f])
      /\ ~followUp /\ scan.pc = "replay" =>
           \A f \in Files :
             /\ seen[f] >= waiting[c].wants[f]
             /\ f \in overtaken \/ Newer(f, index[f].at, waiting[c].wants[f])

IInv ==
    /\ TypeOK /\ CacheInv /\ TaskInv
    /\ \A f \in Files : FileInv(f) /\ PassInv(f)
    /\ \A c \in Waiters : WaitInv(c)

-----------------------------------------------------------------------------
(* What the invariant says of the types, in the form the steps need it. *)

(* What a well-typed state says of files, entries, rescans and callers. *)
LEMMA Types ==
    ASSUME TypeOK
    PROVE  /\ disk \in [Files -> FileState] /\ index \in [Files -> Entry]
           /\ parsed \in [Files -> Reuse \cup {None}]
           /\ tasks \in [Runners -> Task]
           /\ seen \in [Files -> Nat] /\ failed \in [Files -> Nat] /\ reported \in [Files -> Nat]
           /\ waiting \in [Waiters -> [wants : [Files -> Nat], watch : BOOLEAN] \cup {None}]
           /\ \A f \in Files : disk[f].at \in Nat /\ View(f) \in Entry /\ Current(f) \in Entry
BY DEF TypeOK, FileState, View, Current, Entry

(* What it says of the pass. *)
LEMMA ScanTypes ==
    ASSUME TypeOK
    PROVE  /\ scan.pc \in {"idle", "files", "replay"}
           /\ scan.pc = "files" => scan \in Reading
           /\ scan.pc = "idle" <=> scan = NoPass
           /\ NewPass \in Reading /\ NewPass.pc = "files" /\ NewPass.todo = Files
           /\ NewPass.file = None /\ \A f \in Files : NewPass.cache[f] = None
<1>1. scan = NoPass \/ scan = [pc |-> "replay"] \/ scan \in Reading
  BY DEF TypeOK
<1>2. NewPass \in Reading /\ NewPass.pc = "files" /\ NewPass.todo = Files
      /\ NewPass.file = None /\ \A f \in Files : NewPass.cache[f] = None
  BY DEF NewPass, Reading
<1> QED BY <1>1, <1>2 DEF NoPass, Reading

(* A pass that begins has read nothing and owes everybody everything. *)
LEMMA BegunInv ==
    ASSUME IInv, Begun,
           UNCHANGED <<disk, index, parsed, pending, tasks, failures, history>>,
           watched' \subseteq Files, followUp' \in BOOLEAN,
           scan.pc = "replay" => tasks[Replay] = NoTask,
           waiting' \in [Waiters -> [wants : [Files -> Nat], watch : BOOLEAN] \cup {None}],
           \A c \in Waiters : waiting'[c] # None =>
             \A f \in Files : waiting'[c].wants[f] <= disk[f].at
    PROVE  IInv'
<1>1. TypeOK /\ CacheInv /\ TaskInv
  BY DEF IInv
<1>2. scan' = NewPass /\ rescanned' = {}
  BY DEF Begun
<1>3. scan' \in Reading /\ scan'.pc = "files" /\ scan'.todo = Files /\ scan'.file = None
      /\ \A f \in Files : scan'.cache[f] = None
  BY <1>1, <1>2, ScanTypes
<1>4. TypeOK'
  BY <1>1, <1>2, <1>3 DEF TypeOK, history
<1>5. CacheInv'
  BY <1>1, <1>3 DEF CacheInv, Fresh
<1>6. TaskInv'
  BY <1>1, <1>3 DEF TaskInv
<1>7. ASSUME NEW f \in Files PROVE FileInv(f)' /\ PassInv(f)'
  BY <1>3 DEF IInv, FileInv, PassInv, Owed, Asked, Unread, Brought, Newer, history
<1>8. ASSUME NEW c \in Waiters PROVE WaitInv(c)'
  BY <1>3 DEF WaitInv
<1> QED BY <1>4, <1>5, <1>6, <1>7, <1>8 DEF IInv

(* A source has been read by the pass, or could not be. *)
LEMMA PutInv ==
    ASSUME IInv, scan.pc = "files",
           NEW f \in Files, NEW entry \in Entry, NEW reuse \in Reuse \cup {None},
           Put(f, entry, reuse), Fresh(reuse), Met(f, disk[f].at),
           \/ failed' = failed /\ entry.at >= disk[f].at
           \/ failed' = [failed EXCEPT ![f] = disk[f].at],
           failures' \in 0 .. MaxFailures,
           UNCHANGED <<disk, index, parsed, followUp, waiting, rescanned, pending, watched,
                       tasks, reported, overtaken>>
    PROVE  IInv'
<1>1. TypeOK /\ CacheInv /\ TaskInv /\ scan \in Reading
  BY ScanTypes DEF IInv
<1>2. /\ scan' \in Reading /\ scan'.pc = "files" /\ scan'.todo = scan.todo \ {f} /\ scan'.file = None
      /\ scan'.next = [scan.next EXCEPT ![f] = entry]
      /\ scan'.cache = [scan.cache EXCEPT ![f] = reuse]
  BY <1>1 DEF Put, Reading
<1>3. /\ scan'.next[f] = entry /\ scan'.cache[f] = reuse
      /\ \A g \in Files \ {f} : scan'.next[g] = scan.next[g] /\ scan'.cache[g] = scan.cache[g]
  BY <1>1, <1>2 DEF Reading
<1>4. /\ seen' \in [Files -> Nat] /\ seen'[f] >= disk[f].at /\ seen'[f] >= seen[f]
      /\ \A g \in Files \ {f} : seen'[g] = seen[g]
  BY <1>1, Types DEF Met, Later
<1>5. /\ failed' \in [Files -> Nat] /\ failed'[f] <= disk[f].at
      /\ \A g \in Files : failed'[g] >= failed[g]
      /\ \A g \in Files \ {f} : failed'[g] = failed[g]
      /\ entry.at >= disk[f].at \/ failed'[f] >= disk[f].at
  BY <1>1, Types DEF IInv, FileInv
<1>6. TypeOK'
  <2>1. scan'.pc = "files" => \A g \in Files \ scan'.todo : scan'.next[g] \in Entry
    BY <1>1, <1>2, <1>3 DEF TypeOK
  <2> QED BY <1>1, <1>2, <1>4, <1>5, <2>1 DEF TypeOK
<1>7. CacheInv'
  BY <1>1, <1>2, <1>3 DEF CacheInv, Fresh
<1>8. TaskInv'
  BY <1>1, <1>2 DEF TaskInv
<1>9. ASSUME NEW g \in Files PROVE FileInv(g)'
  <2>1. FileInv(g) /\ index[g].at \in Nat /\ reported[g] \in Nat /\ disk[g].at \in Nat
        /\ seen[g] \in Nat /\ failed[g] \in Nat /\ seen'[g] \in Nat /\ failed'[g] \in Nat
    BY <1>1, <1>4, <1>5, Types DEF IInv, Entry
  <2>2. (Owed(g) <=> Owed(g)') /\ (Brought(g) <=> Brought(g)')
    BY DEF Owed, Asked, Unread, Brought
  <2>3. seen'[g] >= seen[g] /\ failed'[g] >= failed[g] /\ failed'[g] <= disk[g].at
    BY <1>4, <1>5, <2>1 DEF FileInv
  <2> QED BY <2>1, <2>2, <2>3 DEF FileInv, Newer
<1>10. ASSUME NEW g \in Files PROVE PassInv(g)'
  <2>1. /\ PassInv(g) /\ (Asked(g) <=> Asked(g)') /\ reported[g] <= disk[g].at
    BY DEF IInv, FileInv, Asked
  <2>2. entry.at \in Nat /\ reported[g] \in Nat /\ disk[g].at \in Nat /\ failed[g] \in Nat
        /\ failed'[g] \in Nat
    BY <1>1, <1>5, Types DEF Entry
  <2>3. CASE g = f
    BY <1>3, <1>5, <2>1, <2>2, <2>3 DEF PassInv, Newer
  <2>4. CASE g # f
    BY <1>2, <1>3, <1>5, <2>1, <2>4 DEF PassInv, Newer
  <2> QED BY <2>3, <2>4
<1>11. ASSUME NEW c \in Waiters PROVE WaitInv(c)'
  <2> SUFFICES ASSUME waiting[c] # None PROVE WaitInv(c)'
    BY DEF WaitInv
  <2>1. WaitInv(c) /\ \A g \in Files : waiting[c].wants[g] <= disk[g].at /\ waiting[c].wants[g] \in Nat
    BY <1>1, Types DEF IInv, WaitInv
  <2>2. ASSUME ~followUp, NEW g \in Files \ scan'.todo
        PROVE  seen'[g] >= waiting[c].wants[g] /\ Newer(g, scan.next[g].at, waiting[c].wants[g])'
    <3>1. /\ entry.at \in Nat /\ disk[g].at \in Nat /\ failed'[g] \in Nat /\ failed[g] \in Nat
          /\ seen[g] \in Nat /\ seen'[g] \in Nat
      BY <1>1, <1>4, <1>5, Types DEF Entry
    <3>2. CASE g = f
      BY <1>3, <1>4, <1>5, <2>1, <3>1, <3>2 DEF Newer
    <3>3. CASE g # f
      BY <1>2, <1>3, <1>4, <1>5, <2>1, <2>2, <3>1, <3>3 DEF WaitInv, Newer
    <3> QED BY <3>2, <3>3
  <2> QED BY <1>2, <2>1, <2>2 DEF WaitInv
<1> QED BY <1>6, <1>7, <1>8, <1>9, <1>10, <1>11 DEF IInv

-----------------------------------------------------------------------------
(* The files and the watcher *)

(* A file that changes keeps the invariant. *)
LEMMA ChangeInv == ASSUME IInv, NEW f \in Files, Change(f) PROVE IInv'
<1>1. TypeOK /\ CacheInv /\ TaskInv /\ disk[f] \in FileState
  BY Types DEF IInv
<1>2. PICK state \in {"listed", "absent"} :
        disk' = [disk EXCEPT ![f] = [at |-> @.at + 1, state |-> state]]
  BY DEF Change, Changed
<1>3. UNCHANGED <<index, parsed, scan, followUp, waiting, rescanned, watched, tasks, failures,
                  seen, failed, overtaken>>
  BY DEF Change, pass
<1>4. /\ disk' \in [Files -> FileState] /\ disk'[f].at = disk[f].at + 1
      /\ \A g \in Files \ {f} : disk'[g] = disk[g]
  BY <1>1, <1>2, Types DEF FileState
<1>5. /\ reported' \in [Files -> Nat] /\ pending' \subseteq Files /\ pending \subseteq pending'
      /\ \A g \in Files \ {f} : reported'[g] = reported[g]
      /\ \/ reported'[f] = reported[f]
         \/ reported'[f] = disk[f].at + 1 /\ f \in pending'
  BY <1>1, Types DEF Change, TypeOK, FileState
<1>6. \A g \in Files : disk[g].at \in Nat /\ disk'[g].at \in Nat /\ disk'[g].at >= disk[g].at
  BY <1>1, <1>4, Types
<1>7. TypeOK'
  BY <1>1, <1>3, <1>4, <1>5 DEF TypeOK
<1>8. CacheInv'
  <2>1. scan.pc = "files" /\ scan.file # None => scan.file \in Files /\ scan.print \in Nat
    BY <1>1, ScanTypes DEF Reading
  <2> QED BY <1>1, <1>3, <1>6, <2>1 DEF CacheInv, Fresh
<1>9. TaskInv'
  BY <1>1, <1>3 DEF TaskInv
<1>10. ASSUME NEW g \in Files PROVE FileInv(g)' /\ PassInv(g)'
  <2>1. FileInv(g) /\ PassInv(g) /\ reported[g] \in Nat /\ reported'[g] \in Nat /\ failed[g] \in Nat
    BY <1>1, <1>5, Types DEF IInv
  <2>2. Asked(g) => Asked(g)'
    BY <1>3, <1>5 DEF Asked
  <2>3. Unread(g) => Unread(g)'
    BY <1>3 DEF Unread
  <2>4. CASE reported'[g] = reported[g]
    <3>1. Brought(g) => Brought(g)'
      BY <1>3, <2>4 DEF Brought
    <3>2. FileInv(g)'
      BY <1>3, <1>6, <2>1, <2>2, <2>3, <2>4, <3>1 DEF FileInv, Newer, Owed
    <3>3. PassInv(g)'
      BY <1>3, <2>1, <2>2, <2>4 DEF PassInv, Newer
    <3> QED BY <3>2, <3>3
  <2>5. CASE g = f /\ reported'[f] = disk[f].at + 1 /\ f \in pending'
    <3>1. Asked(g)'
      BY <2>5 DEF Asked
    <3>2. reported'[g] <= disk'[g].at /\ failed'[g] <= disk'[g].at
      BY <1>3, <1>4, <1>6, <2>1, <2>5 DEF FileInv
    <3> QED BY <3>1, <3>2 DEF FileInv, PassInv, Owed
  <2> QED BY <1>5, <2>4, <2>5
<1>11. ASSUME NEW c \in Waiters PROVE WaitInv(c)'
  <2> SUFFICES ASSUME waiting[c] # None PROVE WaitInv(c)'
    BY <1>3 DEF WaitInv
  <2>1. WaitInv(c) /\ \A g \in Files : waiting[c].wants[g] \in Nat
    BY <1>1, Types DEF IInv
  <2>2. \A g \in Files : waiting[c].wants[g] <= disk'[g].at
    BY <1>6, <2>1 DEF WaitInv
  <2> QED BY <1>3, <2>1, <2>2 DEF WaitInv, Newer
<1> QED BY <1>7, <1>8, <1>9, <1>10, <1>11 DEF IInv

(* A watcher that fails keeps the invariant. *)
LEMMA WatcherFailsInv == ASSUME IInv, NEW f \in Files, WatcherFails(f) PROVE IInv'
<1>1. TypeOK /\ CacheInv /\ TaskInv
  BY DEF IInv
<1>2. UNCHANGED <<disk, index, parsed, scan, followUp, waiting, rescanned, pending, tasks,
                  failures, seen, failed, reported, overtaken>> /\ watched' \subseteq watched
  BY DEF WatcherFails, pass, history
<1>3. TypeOK' /\ CacheInv' /\ TaskInv'
  BY <1>1, <1>2 DEF TypeOK, CacheInv, Fresh, TaskInv
<1>4. ASSUME NEW g \in Files PROVE FileInv(g)' /\ PassInv(g)'
  BY <1>2 DEF IInv, FileInv, PassInv, Owed, Asked, Unread, Brought, Newer
<1>5. ASSUME NEW c \in Waiters PROVE WaitInv(c)'
  BY <1>2 DEF IInv, WaitInv, Newer
<1> QED BY <1>3, <1>4, <1>5 DEF IInv

-----------------------------------------------------------------------------
(* scan() and its callers *)

(* A file changes its directory's standing, at most: the watcher is silent. *)
LEMMA RequestInv ==
    ASSUME IInv, NEW c \in Callers, NEW watch \in BOOLEAN, Request(c, watch),
           disk' \in [Files -> FileState],
           \A f \in Files : disk'[f].at >= disk[f].at,
           UNCHANGED <<index, parsed, pending, watched, tasks, failures, history>>
    PROVE  IInv'
<1>1. TypeOK /\ CacheInv /\ TaskInv
  BY DEF IInv
<1>2. /\ waiting' = [waiting EXCEPT ![c] = [wants |-> [f \in Files |-> disk'[f].at], watch |-> watch]]
      /\ IF scan = NoPass THEN Begun /\ UNCHANGED followUp
         ELSE followUp' = TRUE /\ UNCHANGED <<scan, rescanned>>
  BY DEF Request, Queued
<1>3. \A f \in Files : disk[f].at \in Nat /\ disk'[f].at \in Nat
  BY <1>1, Types DEF FileState
<1>4. /\ waiting' \in [Waiters -> [wants : [Files -> Nat], watch : BOOLEAN] \cup {None}]
      /\ \A f \in Files : waiting'[c].wants[f] = disk'[f].at
      /\ \A d \in Waiters \ {c} : waiting'[d] = waiting[d]
  BY <1>1, <1>2, <1>3, Types DEF Waiters
<1>5. ASSUME NEW d \in Waiters, waiting'[d] # None
      PROVE  \A f \in Files : waiting'[d].wants[f] <= disk'[f].at
  <2>1. CASE d = c
    BY <1>3, <1>4, <2>1
  <2>2. CASE d # c
    <3>1. waiting'[d] = waiting[d] /\ \A f \in Files : waiting[d].wants[f] \in Nat
      BY <1>1, <1>4, <1>5, <2>2, Types
    <3>2. \A f \in Files : waiting[d].wants[f] <= disk[f].at
      BY <1>5, <3>1 DEF IInv, WaitInv
    <3> QED BY <1>3, <3>1, <3>2
  <2> QED BY <2>1, <2>2
<1>6. \/ scan = NoPass /\ scan' = NewPass /\ rescanned' = {} /\ followUp' = followUp
      \/ scan # NoPass /\ scan' = scan /\ rescanned' = rescanned /\ followUp' = TRUE
  BY <1>2 DEF Begun
<1>7. scan' = NewPass => /\ scan' \in Reading /\ scan'.pc = "files" /\ scan'.todo = Files
                         /\ scan'.file = None /\ \A f \in Files : scan'.cache[f] = None
  BY <1>1, ScanTypes
<1>8. TypeOK'
  <2>1. scan' \in {NoPass, [pc |-> "replay"]} \cup Reading /\ followUp' \in BOOLEAN
        /\ rescanned' \subseteq Files /\ (rescanned' # {} => scan'.pc = "files")
        /\ (scan'.pc = "files" => \A f \in Files \ scan'.todo : scan'.next[f] \in Entry)
    BY <1>1, <1>6, <1>7 DEF TypeOK
  <2> QED BY <1>1, <1>4, <2>1 DEF TypeOK, history
<1>9. CacheInv'
  <2>1. scan.pc = "files" /\ scan.file # None => scan.file \in Files /\ scan.print \in Nat
    BY <1>1, ScanTypes DEF Reading
  <2> QED BY <1>1, <1>3, <1>6, <1>7, <2>1 DEF CacheInv, Fresh
<1>10. TaskInv'
  BY <1>1, <1>6, <1>7, ScanTypes DEF TaskInv
<1>11. ASSUME NEW f \in Files PROVE FileInv(f)' /\ PassInv(f)'
  <2>1. FileInv(f) /\ PassInv(f) /\ reported[f] \in Nat /\ failed[f] \in Nat
    BY <1>1, Types DEF IInv
  <2>2. FileInv(f)'
    BY <1>3, <2>1 DEF FileInv, Owed, Asked, Unread, Brought, Newer, history
  <2>3. PassInv(f)'
    BY <1>6, <1>7, <2>1 DEF PassInv, Asked, Newer, history
  <2> QED BY <2>2, <2>3
<1>12. ASSUME NEW d \in Waiters PROVE WaitInv(d)'
  <2> SUFFICES ASSUME waiting'[d] # None PROVE WaitInv(d)'
    BY DEF WaitInv
  <2>1. CASE scan = NoPass
    BY <1>5, <1>6, <1>7, <2>1 DEF WaitInv
  <2>2. CASE scan # NoPass
    BY <1>1, <1>5, <1>6, <2>2, ScanTypes DEF WaitInv
  <2> QED BY <2>1, <2>2
<1> QED BY <1>8, <1>9, <1>10, <1>11, <1>12 DEF IInv

(* The routes keep the invariant. *)
LEMMA RoutesInv ==
    ASSUME IInv, NEW c \in Callers, Rescan(c) \/ \E f \in Files : ChangeSource(c, f)
    PROVE  IInv'
<1>1. disk \in [Files -> FileState] /\ \A f \in Files : disk[f].at \in Nat
  BY Types DEF IInv
<1>2. CASE Rescan(c)
  <2>1. disk' \in [Files -> FileState] /\ \A f \in Files : disk'[f].at >= disk[f].at
    BY <1>1, <1>2 DEF Rescan
  <2> QED BY <1>2, <2>1, RequestInv DEF Rescan
<1>3. ASSUME NEW f \in Files, ChangeSource(c, f) PROVE IInv'
  <2>1. PICK state \in {"listed", "unlisted"} :
          disk' = [disk EXCEPT ![f] = [at |-> @.at + 1, state |-> state]]
    BY <1>3 DEF ChangeSource, Changed
  <2>2. disk' \in [Files -> FileState] /\ \A g \in Files : disk'[g].at >= disk[g].at
    BY <1>1, <2>1 DEF FileState
  <2> QED BY <1>3, <2>2, RequestInv DEF ChangeSource
<1> QED BY <1>2, <1>3

(* A poll keeps the invariant. *)
LEMMA SweepInv == ASSUME IInv, Sweep PROVE IInv'
<1>1. TypeOK /\ scan.pc # "replay"
  BY ScanTypes DEF IInv, Sweep, NoPass
<1>2. \A c \in Waiters : waiting[c] # None => \A f \in Files : waiting[c].wants[f] <= disk[f].at
  BY DEF IInv, WaitInv
<1> QED BY <1>1, <1>2, BegunInv, Types DEF Sweep, TypeOK

-----------------------------------------------------------------------------
(* A pass *)

(* A pass that looks at a file keeps the invariant. *)
LEMMA LookInv == ASSUME IInv, NEW f \in Files, Look(f) PROVE IInv'
<1>1. TypeOK /\ CacheInv /\ TaskInv /\ scan \in Reading /\ scan.pc = "files" /\ f \in scan.todo
      /\ parsed[f] \in Reuse \cup {None} /\ Fresh(parsed[f]) /\ disk[f].at \in Nat
  BY ScanTypes, Types DEF IInv, Look, CacheInv
<1>2. CASE scan' = [scan EXCEPT !.file = f, !.print = disk[f].at] /\ UNCHANGED seen
  <2>1. UNCHANGED <<disk, index, parsed, followUp, waiting, rescanned, pending, watched,
                    tasks, failures, seen, failed, reported, overtaken>>
    BY <1>2 DEF Look
  <2>2. /\ scan' \in Reading /\ scan'.pc = "files" /\ scan'.todo = scan.todo /\ scan'.next = scan.next
        /\ scan'.cache = scan.cache /\ scan'.file = f /\ scan'.print = disk[f].at
    BY <1>1, <1>2 DEF Reading
  <2>3. TypeOK'
    BY <1>1, <2>1, <2>2 DEF TypeOK
  <2>4. CacheInv' /\ TaskInv'
    BY <1>1, <2>1, <2>2 DEF CacheInv, TaskInv, Fresh
  <2>5. ASSUME NEW g \in Files PROVE FileInv(g)' /\ PassInv(g)'
    BY <1>1, <2>1, <2>2 DEF IInv, FileInv, PassInv, Owed, Asked, Unread, Brought, Newer
  <2>6. ASSUME NEW c \in Waiters PROVE WaitInv(c)'
    BY <1>1, <2>1, <2>2 DEF IInv, WaitInv, Newer
  <2> QED BY <2>3, <2>4, <2>5, <2>6 DEF IInv
<1>3. ASSUME NEW entry \in Entry, NEW reuse \in Reuse \cup {None},
             Put(f, entry, reuse), Fresh(reuse), entry.at >= disk[f].at, Met(f, disk[f].at)
      PROVE  IInv'
  <2>1. failures' \in 0 .. MaxFailures /\ failed' = failed
    BY <1>1 DEF Look, TypeOK
  <2> QED BY <1>1, <1>3, <2>1, PutInv DEF Look
<1>4. CASE disk[f].state = "listed" /\ parsed[f] # None /\ parsed[f].print = disk[f].at
           /\ Put(f, parsed[f].entry, parsed[f]) /\ Met(f, disk[f].at)
  <2>1. parsed[f] \in Reuse /\ parsed[f].entry \in Entry /\ parsed[f].entry.at >= disk[f].at
    BY <1>1, <1>4 DEF Fresh, Reuse
  <2> QED BY <1>1, <1>3, <1>4, <2>1
<1>5. CASE Put(f, Current(f), None) /\ Met(f, disk[f].at)
  <2>1. Current(f) \in Entry /\ Current(f).at >= disk[f].at /\ Fresh(None)
    BY <1>1 DEF Current, Entry, Fresh
  <2> QED BY <1>3, <1>5, <2>1
<1> QED BY <1>2, <1>4, <1>5 DEF Look

(* A pass that parses, or fails to, keeps the invariant. *)
LEMMA ParseInv == ASSUME IInv, Parse \/ ParseFails PROVE IInv'
<1> DEFINE f == scan.file
<1>1. TypeOK /\ CacheInv /\ scan \in Reading /\ scan.pc = "files" /\ f \in Files
      /\ scan.print \in Nat /\ scan.print <= disk[f].at /\ disk[f].at \in Nat
  BY ScanTypes, Types DEF IInv, Parse, ParseFails, CacheInv, Reading
<1>2. View(f) \in Entry /\ View(f).at = disk[f].at /\ index[f] \in Entry
  BY <1>1, Types DEF View
<1>3. CASE Parse
  <2> DEFINE reuse == [print |-> scan.print, entry |-> View(f)]
  <2>1. reuse \in Reuse /\ Fresh(reuse)
    BY <1>1, <1>2 DEF Reuse, Fresh
  <2>2. failures' \in 0 .. MaxFailures /\ failed' = failed /\ View(f).at >= disk[f].at
    BY <1>1, <1>2, <1>3 DEF Parse, TypeOK
  <2>3. Put(f, View(f), reuse) /\ Met(f, disk[f].at)
        /\ UNCHANGED <<disk, index, parsed, followUp, waiting, rescanned, pending, watched,
                       tasks, reported, overtaken>>
    BY <1>3 DEF Parse
  <2> HIDE DEF f, reuse
  <2> QED BY <1>1, <1>2, <2>1, <2>2, <2>3, PutInv
<1>4. CASE ParseFails
  <2>1. failures' \in 0 .. MaxFailures
    BY <1>1, <1>4, BoundsAssumption DEF ParseFails, TypeOK
  <2>2. Put(f, index[f], None) /\ Met(f, disk[f].at) /\ failed' = [failed EXCEPT ![f] = disk[f].at]
        /\ UNCHANGED <<disk, index, parsed, followUp, waiting, rescanned, pending, watched,
                       tasks, reported, overtaken>>
    BY <1>4 DEF ParseFails, KeptReuse
  <2>3. Fresh(None)
    BY DEF Fresh
  <2> HIDE DEF f
  <2> QED BY <1>1, <1>2, <2>1, <2>2, <2>3, PutInv
<1> QED BY <1>3, <1>4

(* What was rescanned meanwhile is read again; the rest was read in time. *)
LEMMA SwapInv == ASSUME IInv, Swap PROVE IInv'
<1>1. TypeOK /\ CacheInv /\ TaskInv /\ scan \in Reading /\ scan.pc = "files" /\ scan.todo = {}
  BY ScanTypes DEF IInv, Swap
<1>2. /\ index' = scan.next /\ parsed' = scan.cache /\ rescanned' = {}
      /\ tasks' = [tasks EXCEPT ![Replay] = [NoTask EXCEPT !.todo = rescanned]]
      /\ scan' = [pc |-> "replay"] /\ scan'.pc = "replay"
      /\ overtaken' = {f \in overtaken : scan.next[f].at < seen[f]}
      /\ UNCHANGED <<disk, followUp, waiting, pending, watched, failures, seen, failed, reported>>
  BY DEF Swap
<1>3. \A f \in Files : index'[f] \in Entry /\ scan.next[f].at \in Nat
  BY <1>1, <1>2 DEF TypeOK, Entry
<1>4. /\ tasks' \in [Runners -> Task] /\ tasks'[Replay].todo = rescanned
      /\ tasks'[Replay].file = None /\ tasks'[Replay].got = None
      /\ \A r \in Runners \ {Replay} : tasks'[r] = tasks[r]
      /\ tasks[Replay].todo = {} /\ tasks[Replay].file = None /\ Replay \in Runners
  BY <1>1, <1>2, Types DEF TaskInv, NoTask, Task, TypeOK, Runners
<1>5. index' \in [Files -> Entry] /\ parsed' \in [Files -> Reuse \cup {None}]
  BY <1>1, <1>2, <1>3 DEF Reading
<1>6. TypeOK'
  BY <1>1, <1>2, <1>4, <1>5 DEF TypeOK
<1>7. CacheInv'
  BY <1>1, <1>2 DEF CacheInv, Fresh
<1>8. TaskInv'
  BY <1>1, <1>2, <1>4 DEF TaskInv
<1>9. ASSUME NEW f \in Files PROVE FileInv(f)' /\ PassInv(f)'
  <2>1. FileInv(f) /\ PassInv(f)
    BY DEF IInv
  <2>2. Asked(f) => Asked(f)'
    BY <1>2, <1>4 DEF Asked
  <2>3. Unread(f) => Unread(f)'
    BY <1>2, <1>4, NoneAssumption DEF Unread
  <2>4. f \in rescanned => Asked(f)'
    BY <1>4, NoneAssumption DEF Asked
  <2>5. Owed(f)' \/ Newer(f, index[f].at, reported[f])'
    BY <1>1, <1>2, <2>1, <2>2, <2>4 DEF PassInv, Owed, Newer
  <2>6. FileInv(f)'
    BY <1>2, <2>1, <2>2, <2>3, <2>5 DEF FileInv, Owed
  <2> QED BY <1>2, <2>6 DEF PassInv
<1>10. ASSUME NEW c \in Waiters PROVE WaitInv(c)'
  BY <1>1, <1>2 DEF IInv, WaitInv, Newer
<1> QED BY <1>6, <1>7, <1>8, <1>9, <1>10 DEF IInv

(* A pass that ends keeps the invariant. *)
LEMMA EndPassInv == ASSUME IInv, EndPass PROVE IInv'
<1>1. TypeOK /\ CacheInv /\ TaskInv /\ scan.pc = "replay" /\ tasks[Replay] = NoTask
  BY DEF IInv, EndPass, Replayed
<1>2. CASE followUp
  <2>1. \A c \in Waiters : waiting[c] # None => \A f \in Files : waiting[c].wants[f] <= disk[f].at
    BY DEF IInv, WaitInv
  <2> QED BY <1>1, <1>2, <2>1, BegunInv, Types DEF EndPass, TypeOK
<1>3. CASE ~followUp
  <2>1. /\ scan' = NoPass /\ scan'.pc = "idle" /\ followUp' = FALSE /\ Answer
        /\ UNCHANGED <<disk, index, parsed, rescanned, pending, tasks, failures,
                       seen, failed, reported, overtaken>>
    BY <1>3 DEF EndPass, NoPass, history
  <2>2. waiting' = [c \in Waiters |-> None] /\ watched' \subseteq Files
    BY <1>1, <2>1 DEF Answer, TypeOK
  <2>3. TypeOK'
    BY <1>1, <2>1, <2>2 DEF TypeOK
  <2>4. CacheInv' /\ TaskInv'
    BY <1>1, <2>1 DEF CacheInv, TaskInv, Fresh
  <2>5. ASSUME NEW f \in Files PROVE FileInv(f)' /\ PassInv(f)'
    BY <2>1 DEF IInv, FileInv, PassInv, Owed, Asked, Unread, Brought, Newer
  <2>6. ASSUME NEW c \in Waiters PROVE WaitInv(c)'
    BY <2>2 DEF WaitInv
  <2> QED BY <2>3, <2>4, <2>5, <2>6 DEF IInv
<1> QED BY <1>2, <1>3

(* A pass that fails keeps the invariant. *)
LEMMA FailPassInv == ASSUME IInv, FailPass PROVE IInv'
<1>1. TypeOK /\ CacheInv /\ TaskInv /\ tasks[Replay] = NoTask
  BY DEF IInv, FailPass, Replayed, TaskInv
<1>2. /\ scan' = NoPass /\ scan'.pc = "idle" /\ followUp' = FALSE /\ rescanned' = {}
      /\ failures < MaxFailures /\ failures' = failures + 1
      /\ waiting' = [c \in Waiters |-> None]
      /\ UNCHANGED <<disk, index, parsed, pending, watched, tasks, seen, failed, reported, overtaken>>
  BY DEF FailPass, NoPass, history
<1>3. TypeOK'
  <2>1. failures' \in 0 .. MaxFailures
    BY <1>1, <1>2, BoundsAssumption DEF TypeOK
  <2>2. waiting' \in [Waiters -> [wants : [Files -> Nat], watch : BOOLEAN] \cup {None}]
    BY <1>2
  <2> QED BY <1>1, <1>2, <2>1, <2>2 DEF TypeOK
<1>4. CacheInv' /\ TaskInv'
  BY <1>1, <1>2 DEF CacheInv, TaskInv, Fresh
<1>5. ASSUME NEW f \in Files PROVE FileInv(f)' /\ PassInv(f)'
  BY <1>2 DEF IInv, FileInv, PassInv, Owed, Asked, Unread, Brought, Newer
<1>6. ASSUME NEW c \in Waiters PROVE WaitInv(c)'
  BY <1>2 DEF WaitInv
<1> QED BY <1>3, <1>4, <1>5, <1>6 DEF IInv

-----------------------------------------------------------------------------
(* Rescans *)

(* A batch of the watcher keeps the invariant. *)
LEMMA FlushInv == ASSUME IInv, NEW r \in Runners, Flush(r) PROVE IInv'
<1>1. TypeOK /\ CacheInv /\ TaskInv /\ tasks[r] = NoTask /\ r # Replay
  BY RunnersAssumption DEF IInv, Flush
<1>2. /\ tasks' = [tasks EXCEPT ![r].todo = pending] /\ pending' = {}
      /\ UNCHANGED <<disk, index, parsed, scan, followUp, waiting, rescanned, watched, failures,
                     seen, failed, reported, overtaken>>
  BY DEF Flush, pass, history
<1>3. /\ tasks' \in [Runners -> Task] /\ tasks'[r].todo = pending
      /\ tasks'[r].file = None /\ tasks'[r].got = None
      /\ \A q \in Runners \ {r} : tasks'[q] = tasks[q]
      /\ tasks[r].todo = {} /\ tasks[r].file = None
  BY <1>1, <1>2, Types DEF NoTask, Task, TypeOK
<1>4. TypeOK'
  BY <1>1, <1>2, <1>3 DEF TypeOK
<1>5. CacheInv'
  BY <1>1, <1>2 DEF CacheInv, Fresh
<1>6. TaskInv'
  BY <1>1, <1>2, <1>3 DEF TaskInv, Runners
<1>7. ASSUME NEW f \in Files PROVE FileInv(f)' /\ PassInv(f)'
  <2>1. FileInv(f) /\ PassInv(f)
    BY DEF IInv
  <2>2. Asked(f) => Asked(f)'
    BY <1>2, <1>3, NoneAssumption DEF Asked
  <2>3. Unread(f) => Unread(f)'
    BY <1>3, NoneAssumption DEF Unread
  <2>4. Brought(f) => Brought(f)'
    BY <1>2, <1>3, NoneAssumption DEF Brought
  <2> QED BY <1>2, <2>1, <2>2, <2>3, <2>4 DEF FileInv, PassInv, Owed, Newer
<1>8. ASSUME NEW c \in Waiters PROVE WaitInv(c)'
  BY <1>2 DEF IInv, WaitInv, Newer
<1> QED BY <1>4, <1>5, <1>6, <1>7, <1>8 DEF IInv

(* The file of a rescan that begins is noted while a pass reads. *)
LEMMA BeginInv == ASSUME IInv, NEW r \in Runners, NEW f \in Files, Begin(r, f) PROVE IInv'
<1>1. TypeOK /\ CacheInv /\ TaskInv /\ tasks[r] \in Task /\ tasks[r].file = None /\ tasks[r].got = None
      /\ f \in tasks[r].todo
  BY Types DEF IInv, Begin, TaskInv
<1>2. /\ rescanned' = (IF scan.pc = "files" THEN rescanned \cup {f} ELSE rescanned)
      /\ parsed' = [parsed EXCEPT ![f] = None]
      /\ UNCHANGED <<disk, index, scan, followUp, waiting, pending, watched, failures,
                     seen, failed, overtaken>>
  BY DEF Begin, Noted, pass
<1>3. /\ tasks' \in [Runners -> Task] /\ \A q \in Runners \ {r} : tasks'[q] = tasks[q]
      /\ \/ /\ tasks'[r].todo = tasks[r].todo \ {f} /\ tasks'[r].file = None /\ tasks'[r].got = None
            /\ reported' = [reported EXCEPT ![f] = 0]
         \/ /\ tasks'[r].todo = tasks[r].todo /\ tasks'[r].file = f /\ tasks'[r].got = None
            /\ reported' = reported
  <2>1. CASE Done(r, f) /\ reported' = [reported EXCEPT ![f] = 0]
    BY <1>1, <2>1, Types DEF Done, NoTask, Task
  <2>2. CASE tasks' = [tasks EXCEPT ![r].file = f] /\ reported' = reported
    BY <1>1, <2>2, Types DEF Task
  <2> QED BY <2>1, <2>2 DEF Begin
<1>4. /\ reported' \in [Files -> Nat] /\ \A g \in Files \ {f} : reported'[g] = reported[g]
      /\ reported'[f] = reported[f] \/ reported'[f] = 0
  BY <1>1, <1>3, Types
<1>5. parsed' \in [Files -> Reuse \cup {None}] /\ parsed'[f] = None
      /\ \A g \in Files \ {f} : parsed'[g] = parsed[g]
  BY <1>1, <1>2, Types
<1>6. TypeOK'
  <2>1. rescanned' \subseteq Files /\ (rescanned' # {} => scan'.pc = "files")
    BY <1>1, <1>2 DEF TypeOK
  <2> QED BY <1>1, <1>2, <1>3, <1>4, <1>5, <2>1 DEF TypeOK
<1>7. CacheInv'
  BY <1>1, <1>2, <1>5 DEF CacheInv, Fresh
<1>8. TaskInv'
  <2>1. scan.pc # "replay" => r # Replay
    BY <1>1 DEF TaskInv, NoTask
  <2> QED BY <1>1, <1>2, <1>3, <2>1 DEF TaskInv, Runners
<1>9. ASSUME NEW g \in Files PROVE FileInv(g)' /\ PassInv(g)'
  <2>1. FileInv(g) /\ PassInv(g) /\ reported[g] \in Nat /\ failed[g] \in Nat /\ disk[g].at \in Nat
        /\ index[g].at \in Nat /\ seen[g] \in Nat /\ g # None
    BY <1>1, Types, NoneAssumption DEF IInv, Entry
  <2>2. CASE g = f /\ reported'[f] = 0
    <3>1. FileInv(g)'
      BY <1>2, <2>1, <2>2 DEF FileInv, Newer
    <3>2. PassInv(g)'
      BY <1>2, <2>2 DEF PassInv
    <3> QED BY <3>1, <3>2
  <2>3. CASE g = f /\ reported' = reported /\ tasks'[r].file = f /\ tasks'[r].got = None
    <3>1. Unread(g)'
      BY <2>3 DEF Unread
    <3>2. FileInv(g)'
      BY <1>2, <2>1, <2>3, <3>1 DEF FileInv, Owed
    <3>3. PassInv(g)'
      BY <1>2, <2>3 DEF PassInv
    <3> QED BY <3>2, <3>3
  <2>4. CASE g # f
    <3>1. Asked(g) => Asked(g)'
      BY <1>2, <1>3, <2>1, <2>4 DEF Asked
    <3>2. Unread(g) => Unread(g)'
      BY <1>1, <1>3, <2>1, <2>4 DEF Unread
    <3>3. Brought(g) => Brought(g)'
      BY <1>1, <1>3, <1>4, <2>1, <2>4 DEF Brought
    <3> QED BY <1>2, <1>4, <2>1, <2>4, <3>1, <3>2, <3>3 DEF FileInv, PassInv, Owed, Newer
  <2>5. reported' = [reported EXCEPT ![f] = 0] => reported'[f] = 0
    BY <1>1, Types
  <2> QED BY <1>3, <2>2, <2>3, <2>4, <2>5
<1>10. ASSUME NEW c \in Waiters PROVE WaitInv(c)'
  BY <1>2 DEF IInv, WaitInv, Newer
<1> QED BY <1>6, <1>7, <1>8, <1>9, <1>10 DEF IInv

(* The file has been read, or could not be: it owes nothing to the past. *)
LEMMA ReadInv == ASSUME IInv, NEW r \in Runners, Read(r) PROVE IInv'
<1> DEFINE f == tasks[r].file
<1>1. TypeOK /\ CacheInv /\ TaskInv /\ tasks[r] \in Task /\ f # None /\ f \in Files
      /\ tasks[r].got = None /\ f \in tasks[r].todo
  BY Types DEF IInv, Read, TaskInv, Task
<1>2. /\ tasks' = [tasks EXCEPT ![r].got = View(f)] /\ Met(f, disk[f].at)
      /\ UNCHANGED <<disk, index, parsed, scan, followUp, waiting, rescanned, pending, watched,
                     failures, failed, reported, overtaken>>
  BY DEF Read, pass
<1>3. View(f) \in Entry /\ View(f).at = disk[f].at /\ disk[f].at \in Nat
  BY <1>1, Types DEF View
<1> HIDE DEF f
<1>4. /\ tasks' \in [Runners -> Task] /\ \A q \in Runners \ {r} : tasks'[q] = tasks[q]
      /\ tasks'[r].todo = tasks[r].todo /\ tasks'[r].file = f /\ tasks'[r].got = View(f)
      /\ tasks[r].file = f
  BY <1>1, <1>2, <1>3, Types DEF Task, f
<1>5. /\ seen' \in [Files -> Nat] /\ seen'[f] >= disk[f].at
      /\ \A g \in Files : seen'[g] >= seen[g]
      /\ \A g \in Files \ {f} : seen'[g] = seen[g]
  BY <1>1, <1>2, <1>3, Types DEF Met, Later
<1>6. TypeOK'
  BY <1>1, <1>2, <1>4, <1>5 DEF TypeOK
<1>7. CacheInv'
  BY <1>1, <1>2 DEF CacheInv, Fresh
<1>8. TaskInv'
  <2>1. scan.pc # "replay" => r # Replay
    BY <1>1, <1>4 DEF TaskInv, NoTask
  <2> QED BY <1>1, <1>2, <1>4, <2>1 DEF TaskInv, Runners
<1>9. ASSUME NEW g \in Files PROVE FileInv(g)' /\ PassInv(g)'
  <2>1. FileInv(g) /\ PassInv(g) /\ reported[g] \in Nat /\ seen[g] \in Nat /\ seen'[g] \in Nat
    BY <1>1, <1>5, Types DEF IInv
  <2>2. Asked(g) <=> Asked(g)'
    BY <1>2, <1>4 DEF Asked
  <2>3. PassInv(g)'
    BY <1>2, <2>1, <2>2 DEF PassInv, Newer
  <2>4. CASE g = f
    <3>1. seen'[g] >= reported[g]
      BY <1>3, <1>5, <2>1, <2>4 DEF FileInv
    <3>2. Unread(g)' \/ Brought(g)'
      BY <1>2, <1>3, <1>4, <2>1, <2>4 DEF Unread, Brought, FileInv
    <3> QED BY <1>2, <2>1, <2>3, <3>1, <3>2 DEF FileInv, Owed
  <2>5. CASE g # f
    <3>1. (Unread(g) => Unread(g)') /\ (Brought(g) => Brought(g)')
      BY <1>2, <1>4, <2>5 DEF Unread, Brought
    <3> QED BY <1>2, <1>5, <2>1, <2>2, <2>3, <2>5, <3>1 DEF FileInv, Owed, Newer
  <2> QED BY <2>4, <2>5
<1>10. ASSUME NEW c \in Waiters PROVE WaitInv(c)'
  <2> SUFFICES ASSUME waiting[c] # None PROVE WaitInv(c)'
    BY <1>2 DEF WaitInv
  <2>1. WaitInv(c) /\ \A g \in Files : waiting[c].wants[g] \in Nat /\ seen[g] \in Nat /\ seen'[g] \in Nat
    BY <1>1, <1>5, Types DEF IInv
  <2> QED BY <1>2, <1>5, <2>1 DEF WaitInv, Newer
<1> QED BY <1>6, <1>7, <1>8, <1>9, <1>10 DEF IInv

(* A rescan that fails keeps the invariant. *)
LEMMA ReadFailsInv == ASSUME IInv, NEW r \in Runners, ReadFails(r) PROVE IInv'
<1> DEFINE f == tasks[r].file
<1>1. TypeOK /\ CacheInv /\ TaskInv /\ tasks[r] \in Task /\ f # None /\ f \in Files
      /\ tasks[r].got = None /\ f \in tasks[r].todo /\ disk[f].at \in Nat
  BY Types DEF IInv, ReadFails, TaskInv, Task
<1>2. /\ Done(r, f) /\ Met(f, disk[f].at)
      /\ failed' = [failed EXCEPT ![f] = disk[f].at]
      /\ failures < MaxFailures /\ failures' = failures + 1
      /\ UNCHANGED <<disk, index, parsed, scan, followUp, waiting, rescanned, pending, watched,
                     reported, overtaken>>
  BY DEF ReadFails, pass
<1> HIDE DEF f
<1>3. /\ tasks' \in [Runners -> Task] /\ \A q \in Runners \ {r} : tasks'[q] = tasks[q]
      /\ tasks'[r].todo = tasks[r].todo \ {f} /\ tasks'[r].file = None /\ tasks'[r].got = None
      /\ tasks[r].file = f
  BY <1>1, <1>2, Types DEF Task, Done, NoTask, f
<1>4. /\ seen' \in [Files -> Nat] /\ seen'[f] >= disk[f].at
      /\ \A g \in Files : seen'[g] >= seen[g]
      /\ \A g \in Files \ {f} : seen'[g] = seen[g]
  BY <1>1, <1>2, Types DEF Met, Later
<1>5. /\ failed' \in [Files -> Nat] /\ failed'[f] = disk[f].at
      /\ \A g \in Files : failed'[g] >= failed[g]
      /\ \A g \in Files \ {f} : failed'[g] = failed[g]
  BY <1>1, <1>2, Types DEF IInv, FileInv
<1>6. TypeOK'
  <2>1. failures' \in 0 .. MaxFailures
    BY <1>1, <1>2, BoundsAssumption DEF TypeOK
  <2> QED BY <1>1, <1>2, <1>3, <1>4, <1>5, <2>1 DEF TypeOK
<1>7. CacheInv'
  BY <1>1, <1>2 DEF CacheInv, Fresh
<1>8. TaskInv'
  <2>1. scan.pc # "replay" => r # Replay
    BY <1>1, <1>3 DEF TaskInv, NoTask
  <2> QED BY <1>1, <1>2, <1>3, <2>1 DEF TaskInv, Runners
<1>9. ASSUME NEW g \in Files PROVE FileInv(g)' /\ PassInv(g)'
  <2>1. FileInv(g) /\ PassInv(g) /\ reported[g] \in Nat /\ seen[g] \in Nat /\ seen'[g] \in Nat
        /\ failed[g] \in Nat /\ failed'[g] \in Nat /\ g # None
    BY <1>1, <1>4, <1>5, Types, NoneAssumption DEF IInv
  <2>2. CASE g = f
    <3>1. failed'[g] >= reported[g] /\ seen'[g] >= reported[g] /\ failed'[g] <= disk[g].at
      BY <1>1, <1>4, <1>5, <2>1, <2>2 DEF FileInv
    <3> QED BY <1>2, <2>1, <3>1 DEF FileInv, PassInv, Newer
  <2>3. CASE g # f
    <3>1. (Asked(g) => Asked(g)') /\ (Unread(g) => Unread(g)') /\ (Brought(g) => Brought(g)')
      BY <1>2, <1>3, <2>1, <2>3 DEF Asked, Unread, Brought
    <3> QED BY <1>2, <1>4, <1>5, <2>1, <2>3, <3>1 DEF FileInv, PassInv, Owed, Newer
  <2> QED BY <2>2, <2>3
<1>10. ASSUME NEW c \in Waiters PROVE WaitInv(c)'
  <2> SUFFICES ASSUME waiting[c] # None PROVE WaitInv(c)'
    BY <1>2 DEF WaitInv
  <2>1. WaitInv(c) /\ \A g \in Files : waiting[c].wants[g] \in Nat
    BY <1>1, Types DEF IInv
  <2>2. \A g \in Files : seen[g] \in Nat /\ seen'[g] \in Nat /\ failed[g] \in Nat /\ failed'[g] \in Nat
    BY <1>1, <1>4, <1>5, Types
  <2> QED BY <1>2, <1>4, <1>5, <2>1, <2>2 DEF WaitInv, Newer
<1> QED BY <1>6, <1>7, <1>8, <1>9, <1>10 DEF IInv

(* A write puts the newest in place, or is known to be an overtaken one. *)
LEMMA FinishInv == ASSUME IInv, NEW r \in Runners, Finish(r) PROVE IInv'
<1> DEFINE f == tasks[r].file
           got == tasks[r].got
<1>1. TypeOK /\ CacheInv /\ TaskInv /\ tasks[r] \in Task /\ f # None /\ f \in Files
      /\ got \in Entry /\ got # None /\ got.at \in Nat
  BY Types DEF IInv, Finish, TaskInv, Task, Entry
<1>2. /\ index' = [index EXCEPT ![f] = got] /\ Done(r, f)
      /\ overtaken' = (IF got.at < seen[f] THEN overtaken \cup {f} ELSE overtaken \ {f})
      /\ UNCHANGED <<disk, parsed, scan, followUp, waiting, rescanned, pending, watched, failures,
                     seen, failed, reported>>
  BY DEF Finish, pass
<1> HIDE DEF f, got
<1>3. /\ tasks' \in [Runners -> Task] /\ \A q \in Runners \ {r} : tasks'[q] = tasks[q]
      /\ tasks'[r].todo = tasks[r].todo \ {f} /\ tasks'[r].file = None /\ tasks'[r].got = None
      /\ tasks[r].file = f /\ tasks[r].got = got
  BY <1>1, <1>2, Types DEF Task, Done, NoTask, f, got
<1>4. /\ index' \in [Files -> Entry] /\ index'[f] = got
      /\ \A g \in Files \ {f} : index'[g] = index[g]
  BY <1>1, <1>2, Types
<1>5. TypeOK'
  <2>1. overtaken' \subseteq Files
    BY <1>1, <1>2 DEF TypeOK
  <2> QED BY <1>1, <1>2, <1>3, <1>4, <2>1 DEF TypeOK
<1>6. CacheInv'
  BY <1>1, <1>2 DEF CacheInv, Fresh
<1>7. TaskInv'
  <2>1. scan.pc # "replay" => r # Replay
    BY <1>1, <1>3 DEF TaskInv, NoTask
  <2> QED BY <1>1, <1>2, <1>3, <2>1 DEF TaskInv, Runners
<1>8. ASSUME NEW g \in Files PROVE FileInv(g)' /\ PassInv(g)'
  <2>1. FileInv(g) /\ PassInv(g) /\ reported[g] \in Nat /\ seen[g] \in Nat /\ g # None
    BY <1>1, Types, NoneAssumption DEF IInv
  <2>2. Asked(g) => Asked(g)'
    BY <1>2, <1>3, <2>1 DEF Asked
  <2>3. Unread(g) => Unread(g)'
    BY <1>1, <1>3, <2>1 DEF Unread
  <2>4. PassInv(g)'
    BY <1>2, <2>1, <2>2 DEF PassInv, Newer
  <2>5. CASE g = f
    <3>1. CASE got.at < seen[f]
      <4>1. f \in overtaken'
        BY <1>2, <3>1
      <4> QED BY <1>2, <2>1, <2>2, <2>3, <2>4, <2>5, <4>1 DEF FileInv, Owed
    <3>2. CASE got.at >= seen[f]
      <4>1. Owed(g)' \/ got.at >= reported[g]
        BY <1>1, <2>1, <2>2, <2>3, <2>5, <3>2 DEF FileInv, Owed
      <4> QED BY <1>2, <1>4, <2>1, <2>2, <2>3, <2>4, <2>5, <4>1 DEF FileInv, Owed, Newer
    <3> QED BY <1>1, <2>1, <2>5, <3>1, <3>2
  <2>6. CASE g # f
    <3>1. Brought(g) => Brought(g)'
      BY <1>2, <1>3, <2>6 DEF Brought
    <3>2. g \in overtaken <=> g \in overtaken'
      BY <1>2, <2>6
    <3> QED BY <1>2, <1>4, <2>1, <2>2, <2>3, <2>4, <2>6, <3>1, <3>2 DEF FileInv, Owed, Newer
  <2> QED BY <2>5, <2>6
<1>9. ASSUME NEW c \in Waiters PROVE WaitInv(c)'
  <2> SUFFICES ASSUME waiting[c] # None PROVE WaitInv(c)'
    BY <1>2 DEF WaitInv
  <2>1. WaitInv(c) /\ \A g \in Files : waiting[c].wants[g] \in Nat /\ seen[g] \in Nat
    BY <1>1, Types DEF IInv
  <2>2. ASSUME ~followUp, scan.pc = "replay", NEW g \in Files
        PROVE  g \in overtaken' \/ index'[g].at >= waiting[c].wants[g]
                                \/ failed[g] >= waiting[c].wants[g]
    <3>1. /\ seen[g] >= waiting[c].wants[g]
          /\ g \in overtaken \/ Newer(g, index[g].at, waiting[c].wants[g])
      BY <2>1, <2>2 DEF WaitInv
    <3>2. CASE g = f
      <4>1. CASE got.at < seen[f]
        BY <1>2, <3>2, <4>1
      <4>2. CASE got.at >= seen[f]
        BY <1>1, <1>4, <2>1, <3>1, <3>2, <4>2
      <4> QED BY <1>1, <2>1, <3>2, <4>1, <4>2
    <3>3. CASE g # f
      BY <1>2, <1>4, <3>1, <3>3 DEF Newer
    <3> QED BY <3>2, <3>3
  <2> QED BY <1>2, <2>1, <2>2 DEF WaitInv, Newer
<1> QED BY <1>5, <1>6, <1>7, <1>8, <1>9 DEF IInv

-----------------------------------------------------------------------------

(* The invariant holds at first. *)
LEMMA InitInv == Init => IInv
<1> SUFFICES ASSUME Init PROVE IInv
  OBVIOUS
<1>1. NewPass \in Reading /\ NewPass.pc = "files" /\ NewPass.todo = Files
      /\ NewPass.file = None /\ \A f \in Files : NewPass.cache[f] = None
  BY DEF NewPass, Reading
<1>2. NoTask \in Task /\ NoTask.todo = {} /\ NoTask.file = None /\ NoTask.got = None
  BY DEF NoTask, Task
<1>3. \A f \in Files : disk[f] \in FileState /\ disk[f].at = 1
  BY DEF Init, FileState
<1>4. TypeOK
  <2>1. disk \in [Files -> FileState] /\ index \in [Files -> Entry]
    BY <1>3 DEF Init, Entry, FileState
  <2>2. waiting \in [Waiters -> [wants : [Files -> Nat], watch : BOOLEAN] \cup {None}]
    BY DEF Init
  <2>3. {seen, failed, reported} \subseteq [Files -> Nat] /\ failures \in 0 .. MaxFailures
    BY BoundsAssumption DEF Init
  <2>4. tasks \in [Runners -> Task] /\ parsed \in [Files -> Reuse \cup {None}]
    BY <1>2 DEF Init
  <2> QED BY <1>1, <2>1, <2>2, <2>3, <2>4 DEF Init, TypeOK
<1>5. CacheInv /\ TaskInv
  BY <1>1, <1>2 DEF Init, CacheInv, TaskInv, Fresh, Runners
<1>6. ASSUME NEW f \in Files PROVE FileInv(f) /\ PassInv(f)
  BY <1>1, <1>3 DEF Init, FileInv, PassInv, Newer
<1>7. ASSUME NEW c \in Waiters PROVE WaitInv(c)
  BY <1>1, <1>3 DEF Init, WaitInv
<1> QED BY <1>4, <1>5, <1>6, <1>7 DEF IInv

(* Every step keeps the invariant. *)
LEMMA StepInv == IInv /\ [Next]_vars => IInv'
<1> SUFFICES ASSUME IInv, [Next]_vars PROVE IInv'
  OBVIOUS
<1>1. ASSUME NEW f \in Files, Change(f) \/ WatcherFails(f) PROVE IInv'
  BY <1>1, ChangeInv, WatcherFailsInv
<1>2. ASSUME NEW c \in Callers, Rescan(c) \/ \E f \in Files : ChangeSource(c, f) PROVE IInv'
  BY <1>2, RoutesInv
<1>3. CASE Sweep \/ ScanStep \/ ParseFails \/ FailPass
  BY <1>3, SweepInv, LookInv, ParseInv, SwapInv, EndPassInv, FailPassInv DEF ScanStep
<1>4. ASSUME NEW r \in Runners, RescanStep(r) \/ ReadFails(r) PROVE IInv'
  BY <1>4, FlushInv, BeginInv, ReadInv, FinishInv, ReadFailsInv DEF RescanStep
<1>5. CASE UNCHANGED vars
  <2>1. UNCHANGED <<disk, index, parsed, scan, followUp, waiting, rescanned, pending, watched,
                    tasks, failures, seen, failed, reported, overtaken>>
    BY <1>5 DEF vars, pass, history
  <2>2. TypeOK' /\ CacheInv' /\ TaskInv'
    BY <2>1 DEF IInv, TypeOK, CacheInv, Fresh, TaskInv
  <2>3. ASSUME NEW f \in Files PROVE FileInv(f)' /\ PassInv(f)'
    BY <2>1 DEF IInv, FileInv, PassInv, Owed, Asked, Unread, Brought, Newer
  <2>4. ASSUME NEW c \in Waiters PROVE WaitInv(c)'
    BY <2>1 DEF IInv, WaitInv, Newer
  <2> QED BY <2>2, <2>3, <2>4 DEF IInv
<1> QED BY <1>1, <1>2, <1>3, <1>4, <1>5 DEF Next

(* Every run of the index and its watcher keeps the inductive invariant    *)
(* (plan-service.ts, watcher.ts).                                          *)
THEOREM IndexInvariant == Spec => []IInv
BY InitInv, StepInv, PTL DEF Spec

(* No reported change is lost, however passes, rescans, replays and source *)
(* changes overlap: once nobody has the file to read, the index shows the  *)
(* change, its read failed, or a slower read overtook a faster one         *)
(* (scanOnce and rescanFile, "recorded so they can be replayed").          *)
THEOREM ReportedAlwaysIndexed == Spec => []ReportedIsIndexed
<1>1. ASSUME IInv PROVE ReportedIsIndexed
  <2>1. ASSUME NEW f \in Files, Quiet(f)
        PROVE  index[f].at >= reported[f] \/ failed[f] >= reported[f] \/ f \in overtaken
    <3>1. ~Owed(f) /\ ~Brought(f)
      BY <2>1 DEF Quiet, Owed, Asked, Unread, Brought
    <3> QED BY <1>1, <3>1 DEF IInv, FileInv, Newer
  <2> QED BY <1>1, <2>1 DEF ReportedIsIndexed, IInv
<1> QED BY <1>1, IndexInvariant, PTL

(* A caller of scan() returns from a pass that began after it asked, so it *)
(* finds in the index what was there then (scan(), followUpScanRequested). *)
THEOREM CallersAlwaysSee == Spec => CallersSeeTheirChange
<1>1. ASSUME IInv, [Next]_vars, NEW c \in Waiters,
             waiting[c] # None, waiting'[c] = None, failures' = failures, NEW f \in Files
      PROVE  \/ index'[f].at >= waiting[c].wants[f]
             \/ failed[f] >= waiting[c].wants[f]
             \/ f \in overtaken
  <2>1. TypeOK /\ WaitInv(c)
    BY <1>1 DEF IInv
  <2>2. CASE EndPass
    <3>1. ~followUp /\ scan.pc = "replay" /\ index' = index
      BY <1>1, <2>2 DEF EndPass, Replayed
    <3> QED BY <1>1, <2>1, <3>1 DEF WaitInv, Newer
  <2>3. CASE FailPass
    BY <1>1, <2>1, <2>3 DEF FailPass, TypeOK
  <2>4. ASSUME NEW d \in Callers, Rescan(d) \/ \E g \in Files : ChangeSource(d, g) PROVE FALSE
    <3>1. PICK watch : Request(d, watch)
      BY <2>4 DEF Rescan, ChangeSource
    <3>2. waiting[d] = None /\ waiting' = [waiting EXCEPT ![d] =
            [wants |-> [g \in Files |-> disk'[g].at], watch |-> watch]]
      BY <3>1 DEF Request
    <3> QED BY <1>1, <2>1, <3>2 DEF TypeOK
  <2>5. CASE waiting' = waiting
    BY <1>1, <2>5
  <2> QED BY <1>1, <2>2, <2>3, <2>4, <2>5
       DEF Next, Change, WatcherFails, Sweep, ScanStep, Look, Parse, ParseFails, Swap, RescanStep,
           ReadFails, Flush, Begin, Read, Finish, pass, vars
<1>2. IInv /\ [Next]_vars =>
        [\A c \in Waiters :
           waiting[c] # None /\ waiting'[c] = None /\ failures' = failures
             => \A f \in Files : \/ index'[f].at >= waiting[c].wants[f]
                                 \/ failed[f] >= waiting[c].wants[f]
                                 \/ f \in overtaken]_vars
  BY <1>1
<1> QED BY <1>2, IndexInvariant, PTL DEF Spec, CallersSeeTheirChange
=============================================================================
