-------------------------- MODULE MCInitiativeRun --------------------------
(* Instances of InitiativeRun for TLC. *)
EXTENDS InitiativeRun, TLC

\* A plan of one task whose target is against the scope, and one of two tasks.
Spec1(mode, target) == [mode |-> mode, target |-> target]
MCPlans == {<<Spec1("agent_remote", "remote")>>, <<Spec1("manual", "local"), Spec1("agent_local", "local")>>}
MCBudgets == [start \in {"idea", "plan", "launch", "autonomous"} |->
                CASE start = "idea" -> 3 [] start = "plan" -> 3 [] start = "launch" -> 2 [] OTHER -> 1]
Symmetric == Permutations(Requests)
=============================================================================
