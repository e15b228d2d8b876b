--------------------------- MODULE MCPlannerTree ---------------------------
(* Instances of PlannerTree for TLC. *)
EXTENDS PlannerTree

MixedPlan   == <<"remote", "approval", "local", "planner">>
WorkPlan    == <<"remote", "approval", "local">>
LocalPlan   == <<"local", "local">>
=============================================================================
