----------------------------- MODULE StartLock -----------------------------
(***************************************************************************)
(* The daemon's startup lock (cli/src/pid.ts, acquireDaemonStartLock): a   *)
(* file linked into place, refreshed while it is held, and reclaimed when  *)
(* its owner is dead or let its lease pass.  A reclaimer first publishes a *)
(* claim file whose name is derived from the stale lock it saw.            *)
(*                                                                         *)
(* Processes share only the file system, and every call on it is a step of *)
(* its own.  A snapshot (readFileSnapshot) is one step: one torn by        *)
(* another process matches no later snapshot, and ends in a retry as one   *)
(* does that was overtaken right after it was read.                        *)
(*                                                                         *)
(* A stamp stands for what tells two snapshots apart: the inode, the token *)
(* in the content and the time of the last refresh.                        *)
(***************************************************************************)
EXTENDS Integers, FiniteSets

CONSTANTS
    Procs,       \* processes that start or stop the daemon
    None,        \* no file
    Attempts,    \* attempts of one acquireDaemonStartLock
    MaxStalls,   \* bound on files of a live process that outlive the lease
    MaxFaults    \* bound on those and the killed processes together

ASSUME ProcsAssumption == IsFiniteSet(Procs) /\ None \notin Procs
ASSUME AttemptsAssumption == Attempts \in Nat \ {0}
ASSUME BoundsAssumption == MaxStalls \in Nat /\ MaxFaults \in Nat

VARIABLES
    lockFile, \* the lock file: owner, stamp, and whether its lease passed
    claims,   \* the claim files: key, owner, and whether their lease passed
    pc,       \* where each process is
    attempt,  \* the attempts it has used up
    seen,     \* the stale lock it observed
    alone,    \* no other process lived at any time of its call
    stalls

lockVars == <<lockFile, claims, pc, attempt, seen, alone, stalls>>

Lives(p) == pc[p] # "dead"
Dead == {p \in Procs : ~Lives(p)}
Holding(p) == pc[p] \in {"hold", "beat"}

(* A stamp nothing refers to any more. *)
Stamps == 1 .. 2 * Cardinality(Procs) + 2
Files == [owner : Procs, stamp : Stamps, old : BOOLEAN]
ASSUME NoneAssumption == None \notin Files

Used ==
    {lockFile.stamp : q \in {r \in Procs : lockFile # None}} \cup {c.key : c \in claims}
        \cup {seen[p].stamp : p \in {q \in Procs : seen[q] # None}}
Fresh == CHOOSE s \in Stamps : s \notin Used

File(p) == [owner |-> p, stamp |-> Fresh, old |-> FALSE]

(* Mutant: a dead owner is not noticed before its lease passes. *)
StaleByLease(file) == file.old

(* isStaleStartLock *)
Stale(file) == ~Lives(file.owner) \/ file.old

ClaimAt(key) == {c \in claims : c.key = key}
MyClaim(p) == {c \in ClaimAt(seen[p].stamp) : c.owner = p}

LockInit ==
    /\ lockFile = None /\ claims = {}
    /\ pc = [p \in Procs |-> "idle"]
    /\ attempt = [p \in Procs |-> 0]
    /\ seen = [p \in Procs |-> None]
    /\ alone = [p \in Procs |-> FALSE]
    /\ stalls = 0

-----------------------------------------------------------------------------
(* acquireDaemonStartLock *)

Goto(p, label) == pc' = [pc EXCEPT ![p] = label]

(* The call ends with null. *)
Refuse(p) ==
    /\ Goto(p, "refused")
    /\ seen' = [seen EXCEPT ![p] = None]
    /\ UNCHANGED attempt

(* Mutant: the last attempt is not made. *)
NextButOne(p) ==
    IF attempt[p] + 2 < Attempts
    THEN /\ attempt' = [attempt EXCEPT ![p] = @ + 1]
         /\ Goto(p, "publish")
         /\ seen' = [seen EXCEPT ![p] = None]
    ELSE Refuse(p)

(* Mutant: the attempts are not counted. *)
NextForever(p) ==
    /\ attempt' = [attempt EXCEPT ![p] = @ + 1]
    /\ Goto(p, "publish")
    /\ seen' = [seen EXCEPT ![p] = None]

NextAttempt(p) ==
    IF attempt[p] + 1 < Attempts
    THEN /\ attempt' = [attempt EXCEPT ![p] = @ + 1]
         /\ Goto(p, "publish")
         /\ seen' = [seen EXCEPT ![p] = None]
    ELSE Refuse(p)

(* start, stop and the desktop app call it, again and again when refused. *)
Begin(p) ==
    /\ pc[p] \in {"idle", "refused"}
    /\ Goto(p, "publish")
    /\ attempt' = [attempt EXCEPT ![p] = 0]
    /\ alone' = [alone EXCEPT ![p] = Procs \ {p} \subseteq Dead]
    /\ UNCHANGED <<lockFile, claims, seen, stalls>>

(* publishOwnedFile on the lock: link fails when the file is there. *)
Publish(p) ==
    /\ pc[p] = "publish"
    /\ IF lockFile = None
       THEN lockFile' = File(p) /\ Goto(p, "hold")
       ELSE UNCHANGED lockFile /\ Goto(p, "observe")
    /\ UNCHANGED <<claims, attempt, seen, alone, stalls>>

Observe(p) ==
    /\ pc[p] = "observe"
    /\ IF lockFile = None THEN NextAttempt(p)
       ELSE IF ~Stale(lockFile) THEN Refuse(p)
       ELSE /\ seen' = [seen EXCEPT ![p] = lockFile]
            /\ Goto(p, "claim")
            /\ UNCHANGED attempt
    /\ UNCHANGED <<lockFile, claims, alone, stalls>>

-----------------------------------------------------------------------------
(* claimStaleStartLock *)

UnchangedByClaim(p) == UNCHANGED <<lockFile, attempt, seen, alone, stalls>>

Claim(p) ==
    /\ pc[p] = "claim"
    /\ IF ClaimAt(seen[p].stamp) = {}
       THEN /\ claims' = claims \cup {[key |-> seen[p].stamp, owner |-> p, old |-> FALSE]}
            /\ Goto(p, "verify")
       ELSE UNCHANGED claims /\ Goto(p, "inspect")
    /\ UnchangedByClaim(p)

Inspect(p) ==
    /\ pc[p] = "inspect"
    /\ IF \E c \in ClaimAt(seen[p].stamp) : Stale(c)
       THEN Goto(p, "drop") /\ UNCHANGED <<attempt, seen>>
       ELSE Refuse(p)
    /\ UNCHANGED <<lockFile, claims, alone, stalls>>

(* Whatever claim is there by now. *)
DropClaim(p) ==
    /\ pc[p] = "drop"
    /\ claims' = claims \ ClaimAt(seen[p].stamp)
    /\ NextAttempt(p)
    /\ UNCHANGED <<lockFile, alone, stalls>>

(* Mutant: the lock observed before the claim is removed unseen. *)
AnyThere(p) == lockFile # None

(* sameStartLockSnapshot *)
StillThere(p) == lockFile # None /\ lockFile.stamp = seen[p].stamp

Verify(p) ==
    /\ pc[p] = "verify"
    /\ Goto(p, IF StillThere(p) THEN "check" ELSE "unclaim")
    /\ UNCHANGED claims /\ UnchangedByClaim(p)

Check(p) ==
    /\ pc[p] = "check"
    /\ Goto(p, IF MyClaim(p) # {} THEN "reclaim" ELSE "unclaim")
    /\ UNCHANGED claims /\ UnchangedByClaim(p)

(* Whatever lock is there by now. *)
Reclaim(p) ==
    /\ pc[p] = "reclaim"
    /\ lockFile' = None
    /\ Goto(p, "unclaim")
    /\ UNCHANGED <<claims, attempt, seen, alone, stalls>>

(* removeOwnedFile on the claim, in two steps *)
Unclaim(p) ==
    /\ pc[p] = "unclaim"
    /\ IF MyClaim(p) # {}
       THEN Goto(p, "forget") /\ UNCHANGED <<attempt, seen>>
       ELSE NextAttempt(p)
    /\ UNCHANGED <<lockFile, claims, alone, stalls>>

Forget(p) ==
    /\ pc[p] = "forget"
    /\ claims' = claims \ ClaimAt(seen[p].stamp)
    /\ NextAttempt(p)
    /\ UNCHANGED <<lockFile, alone, stalls>>

-----------------------------------------------------------------------------
(* The holder *)

UnchangedByHolder == UNCHANGED <<claims, attempt, seen, alone, stalls>>
Mine(p) == lockFile # None /\ lockFile.owner = p

(* The heartbeat: read the token, then touch what is at the path. *)
Heartbeat(p) ==
    /\ pc[p] = "hold" /\ Mine(p)
    /\ Goto(p, "beat")
    /\ UNCHANGED lockFile /\ UnchangedByHolder

Touch(p) ==
    /\ pc[p] = "beat"
    /\ lockFile' = IF lockFile = None THEN None
                   ELSE [lockFile EXCEPT !.stamp = Fresh, !.old = FALSE]
    /\ Goto(p, "hold")
    /\ UnchangedByHolder

(* The release callback: read the token, then remove what is there. *)
ReleaseLock(p) ==
    /\ pc[p] = "hold"
    /\ Goto(p, IF Mine(p) THEN "remove" ELSE "idle")
    /\ UNCHANGED lockFile /\ UnchangedByHolder

Remove(p) ==
    /\ pc[p] = "remove"
    /\ lockFile' = None
    /\ Goto(p, "idle")
    /\ UnchangedByHolder

-----------------------------------------------------------------------------
(* Kills, and processes slower than their lease *)

Crash(p) ==
    /\ Lives(p) /\ Cardinality(Dead) + stalls < MaxFaults
    /\ Goto(p, "dead")
    /\ seen' = [seen EXCEPT ![p] = None]
    /\ UNCHANGED <<lockFile, claims, attempt, alone, stalls>>

LockLeasePasses ==
    /\ lockFile # None /\ ~Stale(lockFile)
    /\ stalls < MaxStalls /\ Cardinality(Dead) + stalls < MaxFaults
    /\ lockFile' = [lockFile EXCEPT !.old = TRUE]
    /\ stalls' = stalls + 1
    /\ UNCHANGED <<claims, pc, attempt, seen, alone>>

ClaimLeasePasses ==
    /\ stalls < MaxStalls /\ Cardinality(Dead) + stalls < MaxFaults
    /\ \E c \in claims : ~Stale(c) /\ claims' = (claims \ {c}) \cup {[c EXCEPT !.old = TRUE]}
    /\ stalls' = stalls + 1
    /\ UNCHANGED <<lockFile, pc, attempt, seen, alone>>

Acquiring(p) ==
    \/ Publish(p) \/ Observe(p)
    \/ Claim(p) \/ Inspect(p) \/ DropClaim(p)
    \/ Verify(p) \/ Check(p) \/ Reclaim(p) \/ Unclaim(p) \/ Forget(p)

LockStep(p) ==
    \/ Begin(p) \/ Acquiring(p)
    \/ Touch(p) \/ ReleaseLock(p) \/ Remove(p)

LockNext ==
    \/ \E p \in Procs : LockStep(p) \/ Heartbeat(p) \/ Crash(p)
    \/ LockLeasePasses \/ ClaimLeasePasses

LockSpec == LockInit /\ [][LockNext]_lockVars

(* A live process goes on with its call, calls again when refused, and     *)
(* releases what it got when the daemon is up or its timeout is over.      *)
LockFairSpec == LockSpec /\ \A p \in Procs :
    WF_lockVars(Begin(p) \/ Acquiring(p) \/ Touch(p) \/ Remove(p)) /\ SF_lockVars(ReleaseLock(p))

-----------------------------------------------------------------------------
(* Properties *)

LockTypeOK ==
    /\ lockFile \in {None} \cup Files
    /\ claims \subseteq [key : Stamps, owner : Procs, old : BOOLEAN]
    /\ pc \in [Procs -> {"idle", "publish", "observe", "claim", "inspect", "drop", "verify",
                         "check", "reclaim", "unclaim", "forget", "hold", "beat", "remove",
                         "refused", "dead"}]
    /\ attempt \in [Procs -> 0 .. Attempts - 1]
    /\ seen \in [Procs -> {None} \cup Files]
    /\ alone \in [Procs -> BOOLEAN]
    /\ stalls \in 0 .. MaxStalls

(* While no live process outlives a lease, the lock of a live holder is    *)
(* its own: no reclaimer, late release or heartbeat takes it away, so two  *)
(* processes never hold it at once.                                        *)
HolderKeepsLock == stalls = 0 => \A p \in Procs : Holding(p) => Mine(p)

(* A process that was alone during its whole call gets the lock, whatever  *)
(* locks and claims the killed ones left: three attempts are enough.       *)
LoneStarterWins == \A p \in Procs : pc[p] = "refused" => ~alone[p]

(* At any time: holders hold what they think they hold, and a lone starter *)
(* is never refused (pid.ts 753-857).                                      *)
LockIsSafe == LockTypeOK /\ HolderKeepsLock /\ LoneStarterWins

(* Killed owners and reclaimers never block the start for good: while      *)
(* somebody is left (fewer faults than processes), somebody gets the lock  *)
(* again and again.                                                        *)
LockIsNeverStuck == []<>(\E p \in Procs : Holding(p))
=============================================================================
