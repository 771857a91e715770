----------------------------- MODULE MCWriteback -----------------------------
(* One machine, a session and its newer replacement, two write-backs: the  *)
(* first is meant for this machine, the second for whoever has the session.*)
EXTENDS Writeback

MCHome == [p \in Plans |-> CHOOSE d \in Devices : TRUE]
MCTargets == [j \in Jobs |-> IF j = 1 THEN Devices ELSE {NoDevice}]
=============================================================================
