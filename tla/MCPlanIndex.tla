---------------------------- MODULE MCPlanIndex ----------------------------
(* The plan index on small instances: a file or two, two batches of       *)
(* rescans that may overlap, and a route.                                  *)
EXTENDS PlanIndex
=============================================================================
