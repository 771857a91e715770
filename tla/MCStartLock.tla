---------------------------- MODULE MCStartLock ----------------------------
(* The startup lock with three processes, two of which may be killed. *)
EXTENDS StartLock, TLC

Symmetric == Permutations(Procs)
=============================================================================
