------------------------------- MODULE Outbox -------------------------------
(***************************************************************************)
(* What the owner of a plan is promised about feedback sent from the       *)
(* dashboard: it is taken once, it ends once, and it is only said to be    *)
(* sent when a session has it.  A session may get feedback whose end says  *)
(* otherwise: an answer can be lost.                                       *)
(***************************************************************************)
CONSTANT Jobs

VARIABLES
    box,      \* job -> "none", "pending", "sent", "failed", "expired"
    arrived   \* the jobs a session received

vars == <<box, arrived>>

Ends == {"sent", "failed", "expired"}

Init == box = [j \in Jobs |-> "none"] /\ arrived = {}

(* Feedback is taken; what lapsed before it may end in the same step. *)
Take(j, lapsed) ==
    /\ box[j] = "none"
    /\ \A i \in lapsed : box[i] = "pending"
    /\ box' = [i \in Jobs |-> IF i = j THEN "pending"
                              ELSE IF i \in lapsed THEN "expired" ELSE box[i]]
    /\ UNCHANGED arrived

Arrive(j) ==
    /\ box[j] # "none"
    /\ arrived' = arrived \cup {j}
    /\ UNCHANGED box

End(j, end) ==
    /\ box[j] = "pending"
    /\ end = "sent" => j \in arrived
    /\ box' = [box EXCEPT ![j] = end]
    /\ UNCHANGED arrived

Sweep(lapsed) ==
    /\ \A i \in lapsed : box[i] = "pending"
    /\ box' = [i \in Jobs |-> IF i \in lapsed THEN "expired" ELSE box[i]]
    /\ UNCHANGED arrived

Next ==
    \/ \E j \in Jobs, lapsed \in SUBSET Jobs : Take(j, lapsed)
    \/ \E j \in Jobs : Arrive(j)
    \/ \E j \in Jobs, end \in Ends : End(j, end)
    \/ \E lapsed \in SUBSET Jobs : Sweep(lapsed)

Spec == Init /\ [][Next]_vars
=============================================================================
