--------------------------- MODULE MCObjectiveRun ---------------------------
(* Instances of ObjectiveRun for TLC. *)
EXTENDS ObjectiveRun, TLC

SmallPlans == {{}, {"validate-baseline"}}
BarePlan   == {{}}

Alone    == {{}}
OneOther == {{}} \union {{p} : p \in Daemons \union Operators}
=============================================================================
