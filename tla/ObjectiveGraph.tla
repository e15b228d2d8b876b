--------------------------- MODULE ObjectiveGraph ---------------------------
(***************************************************************************)
(* The work items of an objective and their dependencies: the plan that    *)
(* GenerateObjectiveExecutionContract (initiative/objectives.go) writes    *)
(* for the first iteration and the plan buildObjectiveRepairCycle          *)
(* (httpapi/objectives.go) writes for every later one.                     *)
(*                                                                         *)
(* An item is named by the stem of its work_item_id; the iteration suffix  *)
(* of the repair items is the iteration that goes with the name.  A plan   *)
(* is the set f of the optional items it has.                              *)
(***************************************************************************)
EXTENDS Naturals

CONSTANT MaxIterations  \* objective_max_iterations

Name == {"research", "replan", "validate-baseline", "bootstrap", "analyze", "edit",
         "edit-docs", "edit-config", "edit-deps", "validate", "review"}

Preparations == {"validate-baseline", "bootstrap", "analyze"}
Workstreams  == {"edit-docs", "edit-config", "edit-deps"}
Optional     == Preparations \union Workstreams

\* The order in which the builders append the items, hence of launch_order.
Position(n) ==
  CASE n = "research"          -> 0
    [] n = "replan"            -> 0
    [] n = "validate-baseline" -> 1
    [] n = "bootstrap"         -> 2
    [] n = "analyze"           -> 3
    [] n = "edit"              -> 4
    [] n = "edit-docs"         -> 5
    [] n = "edit-config"       -> 6
    [] n = "edit-deps"         -> 7
    [] n = "validate"          -> 8
    [] n = "review"            -> 9

Kind(n) ==
  CASE n = "validate-baseline"                  -> "validate"
    [] n \in {"bootstrap"} \union Workstreams   -> "edit"
    [] OTHER                                    -> n

\* ApprovalRequired: every aider run; the scaffold of an empty workspace is not.
Gated == {"edit"} \union Workstreams

First(i) == IF i = 1 THEN "research" ELSE "replan"

Items(i, f) == {First(i)} \union f \union {"edit", "validate", "review"}

\* editDependsOn, in either builder.
EditDependsOn(i, f) == {First(i)} \union (f \intersect Preparations)

\* finalEditID as it stands when item n is appended.
LastEditBefore(f, n) ==
  CHOOSE e \in {"edit"} \union (f \intersect Workstreams) :
    /\ Position(e) < Position(n)
    /\ \A d \in {"edit"} \union (f \intersect Workstreams) :
         Position(d) < Position(n) => Position(d) <= Position(e)

\* The first contract: analyze waits for the preparations appended before it,
\* every secondary workstream for the preparations and the edit before it.
InitialDependsOn(f, n) ==
  CASE n = "research"                         -> {}
    [] n \in {"validate-baseline", "bootstrap"} -> {"research"}
    [] n = "analyze"                          -> EditDependsOn(1, f) \ {"analyze"}
    [] n = "edit"                             -> EditDependsOn(1, f)
    [] n \in Workstreams                      -> EditDependsOn(1, f) \union {LastEditBefore(f, n)}
    [] n = "validate"                         -> {LastEditBefore(f, n)}
    [] n = "review"                           -> {"validate"}
    [] OTHER                                  -> {}

\* A repair cycle: the preparations wait for the replan only, so they may run
\* side by side, and a workstream waits for the edit before it only.
RepairDependsOn(i, f, n) ==
  CASE n = "replan"                           -> {}
    [] n \in Preparations                     -> {"replan"}
    [] n = "edit"                             -> EditDependsOn(i, f)
    [] n \in Workstreams \union {"validate"}  -> {LastEditBefore(f, n)}
    [] n = "review"                           -> {"validate"}
    [] OTHER                                  -> {}

DependsOn(i, f, n) == IF i = 1 THEN InitialDependsOn(f, n) ELSE RepairDependsOn(i, f, n)

\* detectInitialBaselineValidation is off in a workspace to be bootstrapped.
InitialPlans == {f \in SUBSET Optional : ~ {"validate-baseline", "bootstrap"} \subseteq f}

(***************************************************************************)
(* What the next repair cycle has, from the findings of the failed item    *)
(* and from whether its result names changed files.                        *)
(***************************************************************************)
FindingKind == {"scope_contradicted", "research_scope_contradicted",
                "missing_diff", "validation_failure"}

\* objectiveRepairAnalysisTypes: any of the kinds adds a type to analyse.
RepairAnalysisTypes(findings) ==
  (IF findings \intersect {"scope_contradicted", "research_scope_contradicted", "missing_diff"} # {}
     THEN {"complexity", "lint"} ELSE {})
  \union (IF "validation_failure" \in findings THEN {"dependencies", "security"} ELSE {})

InsertCodeAnalysis(findings, changed) ==
  /\ RepairAnalysisTypes(findings) # {}
  /\ \/ findings \intersect {"scope_contradicted", "research_scope_contradicted", "missing_diff"} # {}
     \/ "validation_failure" \in findings /\ ~ changed

InsertBaselineValidation(findings, changed) ==
  \/ findings \intersect {"scope_contradicted", "missing_diff"} # {}
  \/ "validation_failure" \in findings /\ ~ changed

\* objectiveRepairSecondaryWorkstreams keeps the workstreams of the contract.
RepairPlan(f, findings, changed) ==
  (f \intersect Workstreams)
  \union (IF InsertBaselineValidation(findings, changed) THEN {"validate-baseline"} ELSE {})
  \union (IF InsertCodeAnalysis(findings, changed) THEN {"analyze"} ELSE {})

(***************************************************************************)
(* Status snapshots.                                                       *)
(***************************************************************************)

\* objectiveStatusSnapshotRank and initiativeObjectiveSnapshotRank: by kind.
SnapshotRank(kind) ==
  CASE kind = "review"   -> 6
    [] kind = "validate" -> 5
    [] kind = "edit"     -> 4
    [] kind = "analyze"  -> 3
    [] kind = "replan"   -> 2
    [] kind = "research" -> 1
    [] OTHER             -> 0

\* objectiveStatusSnapshotPrecedes: whether the newer snapshot cand is shown
\* instead of cur: a later iteration, then a higher rank, then the newer one.
SnapshotPrecedes(cur, cand) ==
  \/ cand.iter > cur.iter
  \/ cand.iter = cur.iter /\ SnapshotRank(cand.kind) >= SnapshotRank(cur.kind)

\* objectiveNextExpectedAction: what the snapshot of a result announces.
NextExpectedAction(n, ok, repair) ==
  CASE repair                               -> "replan"
    [] ~ repair /\ ~ ok                     -> "block_initiative"
    [] ~ repair /\ ok /\ n = "review"       -> "close_initiative"
    [] ~ repair /\ ok /\ n = "validate"     -> "review"
    [] ~ repair /\ ok /\ Kind(n) = "edit"   -> "validate"
    [] OTHER                                -> "edit"
=============================================================================
