---------------------------- MODULE MCReviewGate ----------------------------
(* The approval gate on small instances: one hook with every loss, restart *)
(* and edit, and two hooks competing for one slot of the queue.            *)
EXTENDS ReviewGate, TLC

HookSymmetry == Permutations(Ids)
=============================================================================
