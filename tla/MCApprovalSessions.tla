------------------------- MODULE MCApprovalSessions -------------------------
(* The approval store on a small instance: two sessions competing *)
(* for one slot, two owners, two revisions and a clock that outlives    *)
(* lease, deadline and retention.                                          *)
EXTENDS ApprovalSessions, TLC

Symmetric ==
    Permutations(Ids) \cup Permutations(Owners) \cup Permutations(Revisions)
        \cup Permutations(Requests) \cup Permutations(Feedbacks)
=============================================================================
