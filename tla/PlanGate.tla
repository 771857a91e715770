------------------------------ MODULE PlanGate ------------------------------
(***************************************************************************)
(* What the plan-approval gate promises, without store, network or clock   *)
(* (docs/plan-approval-gates.md): an agent that asks to leave plan mode is *)
(* let through at most once, and only when a reviewer approved the plan it *)
(* asked about and the approval was handed over before the review ended in *)
(* any other way.  ReviewGate implements this module.                      *)
(***************************************************************************)
CONSTANT Hooks

VARIABLES
    stage,      \* of each hook's review: out, open, decided, delivered
    decision,   \* the reviewer's verdict, while decided or delivered
    verdict     \* what the agent was told: none, allow, deny

vars == <<stage, decision, verdict>>

Init ==
    /\ stage = [h \in Hooks |-> "out"]
    /\ decision = [h \in Hooks |-> "none"]
    /\ verdict = [h \in Hooks |-> "none"]

\* The moves of one review; several reviews may move together (a sweep).
Moves(h, from, to) == stage[h] = from /\ stage'[h] = to

Submit(h)   == Moves(h, "out", "open") /\ decision'[h] = "none"
Decide(h)   == /\ Moves(h, "open", "decided")
               /\ decision'[h] \in {"approved", "changes_requested", "rejected"}
Withdraw(h) == /\ stage[h] \in {"open", "decided"}
               /\ stage'[h] = "out" /\ decision'[h] = "none"
Deliver(h)  == Moves(h, "decided", "delivered") /\ decision'[h] = decision[h]
Keep(h)     == stage'[h] = stage[h] /\ decision'[h] = decision[h]

Allow(h) == /\ stage[h] = "delivered" /\ decision[h] = "approved"
            /\ verdict[h] = "none" /\ verdict'[h] = "allow"
Deny(h)  == verdict[h] = "none" /\ verdict'[h] = "deny"

Next ==
    \A h \in Hooks :
        /\ Submit(h) \/ Decide(h) \/ Withdraw(h) \/ Deliver(h) \/ Keep(h)
        /\ Allow(h) \/ Deny(h) \/ verdict'[h] = verdict[h]

Spec == Init /\ [][Next]_vars
=============================================================================
