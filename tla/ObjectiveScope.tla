--------------------------- MODULE ObjectiveScope ---------------------------
(***************************************************************************)
(* Where the edits of an objective work: the files the research of the     *)
(* bridge recommends (bridge/executor.go), what the server makes of them   *)
(* when it queues an edit, what the review of the bridge finds in the      *)
(* diff, and the scope the next repair cycle starts from                   *)
(* (httpapi/objectives.go).                                                *)
(*                                                                         *)
(* It goes on where ObjectivePlanning ends.  The items run in the order of *)
(* the plan, so one stage stands for those between two steps that look at  *)
(* paths.                                                                  *)
(***************************************************************************)
EXTENDS ObjectivePlanning

CONSTANT MaxTouched  \* bound: files in a diff beside a validation artifact

ASSUME ScopeAssumption == MaxIterations \in Nat \ {0} /\ MaxTouched \in Nat

VARIABLES
  iter, optional, \* the iteration and its optional items
  suspected,      \* suspected_paths of the iteration
  research,       \* [scope, excluded]: payload of its research or replan
  found,          \* files its analysis has findings in
  scope,          \* suspected_paths of its edits as they are queued
  result          \* [changed, findings]: the result that asked for the iteration

scopeVars == <<iter, optional, suspected, research, found, scope, result>>
allVars == <<planVars, scopeVars>>

\* A file called PASS or FAIL, which a validation leaves behind.
Artifact == -1

SelectedPaths == {contract.selected[i].path : i \in DOMAIN contract.selected}
RejectedPaths == {contract.rejected[i].path : i \in DOMAIN contract.rejected}

\* objectiveRepairPatchIntent: the files a repair cycle is told to change.
PatchIntent == IF iter = 1 THEN {} ELSE suspected

ScopeInit ==
  /\ PlanInit
  /\ iter = 1 /\ optional = {} /\ suspected = {} /\ found = {}
  /\ research = [scope |-> {}, excluded |-> {}] /\ scope = <<>>
  /\ result = [changed |-> {}, findings |-> {}]

(***************************************************************************)
(* research_project, for research and replan.                              *)
(***************************************************************************)

\* listProjectFiles; a bootstrapped workspace has its files from then on.
Tree == ws.files \union (IF Bootstrap /\ iter > 1 THEN ws.expected ELSE {})

InferredLimit == 4
BestOf(S, score) ==
  {p \in S : Cardinality({q \in S : score[q] > score[p] \/ (score[q] = score[p] /\ q < p)}) < InferredLimit}

\* inferScopePathsFromGoal
InferScopePathsFromGoal == BestOf({p \in Tree : ws.facts[p].named}, [p \in Tree |-> 0])

\* inferScopePathsFromReadme
InferScopePathsFromReadme ==
  LET line == [p \in Tree |-> ws.facts[p].readme + ws.facts[p].cue]
  IN  BestOf({p \in Tree : ws.facts[p].readme # 0 /\ line[p] > 0}, line)

\* interpretPlannerRepairFindings
Promoted  == IF "planner_rejected_scope_contradicted" \in result.findings
               THEN result.changed \intersect RejectedPaths ELSE {}
Confirmed == IF "planner_scope_confirmed" \in result.findings THEN SelectedPaths ELSE {}
Excluded  ==
  ((IF "planner_scope_contradicted" \in result.findings THEN SelectedPaths \ result.changed ELSE {})
   \union (IF "planner_rejected_scope_confirmed" \in result.findings THEN RejectedPaths ELSE {}))
  \ Promoted

\* recommendResearchScopePaths: the exclusion yields if nothing is left.
RecommendResearchScopePaths ==
  LET all == (Promoted \union Confirmed \union result.changed \union PatchIntent
              \union suspected \union InferScopePathsFromReadme \union InferScopePathsFromGoal) \ {Artifact}
  IN  IF all \ Excluded # {} THEN all \ Excluded ELSE all

ResearchProject ==
  /\ stage = "research"
  /\ research' = [scope |-> RecommendResearchScopePaths, excluded |-> Excluded]
  /\ stage' = "analysis"
  /\ UNCHANGED <<ws, chunks, hits, contract, iter, optional, suspected, found, scope, result>>

\* code_analysis, if the plan has it.
CodeAnalysis ==
  /\ stage = "analysis"
  /\ found' \in IF "analyze" \in optional THEN {{}} \union {{p} : p \in Tree} ELSE {{}}
  /\ stage' = "queue"
  /\ UNCHANGED <<ws, chunks, hits, contract, iter, optional, suspected, research, scope, result>>

(***************************************************************************)
(* objectiveQueueMetadataPatch                                             *)
(***************************************************************************)

\* objectivePrioritizeWorkstreamScope
PrioritizeWorkstreamScope(n, current, recommended) ==
  IF n \in Workstreams /\ recommended # {} THEN current \union recommended ELSE recommended

\* applyObjectiveResearchPatch: an empty recommendation changes nothing.
ResearchPatch(n, current) ==
  IF research.scope = {} THEN current
  ELSE PrioritizeWorkstreamScope(n, current \ {Artifact}, research.scope \ {Artifact})

\* applyObjectiveAnalysisPatch
AnalysisPatch(current) == found \union current

\* The dependencies of an edit in their order: research before analysis.
Patched(n, current) ==
  LET deps == DependsOn(iter, optional, n)
      researched == IF First(iter) \in deps THEN ResearchPatch(n, current) ELSE current
  IN  IF "analyze" \in deps THEN AnalysisPatch(researched) ELSE researched

QueueEdits ==
  /\ stage = "queue"
  /\ scope' = [n \in {e \in Items(iter, optional) : Kind(e) = "edit"} |->
                 Patched(n, IF n \in Workstreams THEN contract.paths[n] ELSE suspected)]
  /\ stage' = "edit"
  /\ UNCHANGED <<ws, chunks, hits, contract, iter, optional, suspected, research, found, result>>

(***************************************************************************)
(* run_tests and review_workspace                                          *)
(***************************************************************************)

\* workspaceGitState after the edits; outside a repository there is no diff.
Diffs ==
  IF ~ ws.git /\ ~ Bootstrap THEN {{}}
  ELSE {d \in SUBSET (ws.files \union ws.expected \union {Artifact}) : Cardinality(d \ {Artifact}) <= MaxTouched}

\* reviewScopeAlignment
ReviewScopeAlignment(expected, changed) ==
  CASE expected = {} \/ changed = {} -> "unknown"
    [] OTHER -> IF expected \intersect changed # {} THEN "confirmed" ELSE "contradicted"

\* Mutant: a rejected path counts only if the whole diff is in rejected paths.
ReviewRejectedIfAll(rejected, changed) ==
  CASE rejected = {} \/ changed = {} -> "unknown"
    [] OTHER -> IF changed \subseteq rejected THEN "contradicted" ELSE "confirmed"

\* reviewRejectedScopeAlignment
ReviewRejectedScopeAlignment(rejected, changed) ==
  CASE rejected = {} \/ changed = {} -> "unknown"
    [] OTHER -> IF rejected \intersect changed # {} THEN "contradicted" ELSE "confirmed"

\* reviewResearchPaths: of the review's own metadata, not of the edit's.
ReviewResearchPaths ==
  suspected \union PatchIntent \union UNION {contract.paths[n] : n \in optional \intersect Workstreams}

\* reviewRetrievalAlignment
ReviewRetrievalAlignment(changed) ==
  CASE hits = <<>> \/ changed = {} -> "unknown"
    [] OTHER -> IF \E i \in DOMAIN hits : hits[i].path \in changed THEN "confirmed" ELSE "contradicted"

\* buildReviewRetrievalFindings
ReviewRetrievalFindings(changed) ==
  CASE ReviewRetrievalAlignment(changed) = "confirmed"    -> {"retrieval_scope_confirmed"}
    [] ReviewRetrievalAlignment(changed) = "contradicted" -> {"retrieval_scope_contradicted"}
    [] OTHER                                              -> {}

\* buildReviewAlignmentFindings
ReviewAlignmentFindings(changed) ==
  LET planner  == ReviewScopeAlignment(SelectedPaths, changed)
      rejected == ReviewRejectedScopeAlignment(RejectedPaths, changed)
  IN  {f \in {"planner_scope_confirmed"} : planner = "confirmed"}
      \union {f \in {"planner_scope_contradicted"} : planner = "contradicted"}
      \union {f \in {"planner_rejected_scope_confirmed"} : rejected = "confirmed"}
      \union {f \in {"planner_rejected_scope_contradicted"} : rejected = "contradicted"}
      \union {f \in {"research_scope_contradicted"} :
                ReviewScopeAlignment(ReviewResearchPaths, changed) = "contradicted"}

ChangesRequested(changed, findings) ==
  /\ stage = "edit" /\ stage' = "result"
  /\ result' = [changed |-> changed, findings |-> findings]
  /\ UNCHANGED <<ws, chunks, hits, contract, iter, optional, suspected, research, found, scope>>

\* run_tests fails: its result names no changed file.
ValidationFails == ChangesRequested({}, {"validation_failure"})

\* review_workspace: its own run of the tests fails, or git shows no diff,
\* which new files alone do not make.
ReviewFails(changed) ==
  ChangesRequested(changed, {"validation_failure"} \union ReviewAlignmentFindings(changed)
                              \union ReviewRetrievalFindings(changed))
ReviewMissesDiff(changed) ==
  ChangesRequested(changed, {"missing_diff"} \union ReviewRetrievalFindings(changed))

(***************************************************************************)
(* The cycles.                                                             *)
(***************************************************************************)
StartObjective ==
  /\ stage = "done"
  /\ optional' = contract.plan /\ suspected' = contract.paths["edit"]
  /\ stage' = "research"
  /\ UNCHANGED <<ws, chunks, hits, contract, iter, research, found, scope, result>>

\* The kinds of ObjectiveGraph.
PlanKinds(findings) ==
  (findings \intersect FindingKind)
  \union {f \in {"scope_contradicted"} :
            findings \intersect {"planner_scope_contradicted", "planner_rejected_scope_contradicted",
                                 "retrieval_scope_contradicted"} # {}}

\* buildObjectiveRepairCycle: it starts from the diff, if the result has one.
StartRepairCycle ==
  /\ stage = "result" /\ iter < MaxIterations
  /\ iter' = iter + 1
  /\ optional' = RepairPlan(contract.plan, PlanKinds(result.findings), result.changed # {})
  /\ suspected' = IF result.changed # {} THEN result.changed ELSE contract.paths["edit"]
  /\ found' = {} /\ scope' = <<>>
  /\ stage' = "research"
  /\ UNCHANGED <<ws, chunks, hits, contract, research, result>>

ScopeNext ==
  \/ PlanNext /\ UNCHANGED scopeVars
  \/ StartObjective \/ ResearchProject \/ CodeAnalysis \/ QueueEdits
  \/ ValidationFails
  \/ \E changed \in Diffs : ReviewFails(changed) \/ ReviewMissesDiff(changed)
  \/ StartRepairCycle

ScopeSpec == ScopeInit /\ [][ScopeNext]_allVars

(***************************************************************************)
(* Properties.                                                             *)
(***************************************************************************)

\* The review compared the diff with the planner's two lists, and p is on a
\* list that the diff has refuted or confirmed without touching p.
RuledOut(p) ==
  /\ "missing_diff" \notin result.findings /\ result.changed # {} /\ p \notin result.changed
  /\ \/ p \in SelectedPaths /\ result.changed \intersect SelectedPaths = {}
     \/ p \in RejectedPaths /\ result.changed \intersect RejectedPaths = {}

\* Through review, repair cycle, replan and queueing, evidence is neither lost
\* nor overruled: a repair works on every file of the rejected diff and every
\* file the analysis has findings in, a synchronisation keeps the files it was
\* planned for, and a file the review has ruled out comes back only if the
\* analysis names it or nothing else is left.
RepairFollowsEvidence ==
  stage = "edit" =>
    /\ found \union (result.changed \ {Artifact}) \subseteq scope["edit"]
    /\ \A n \in optional \intersect Workstreams : contract.paths[n] \subseteq scope[n]
    /\ \/ \A p \in scope["edit"] : RuledOut(p) => p \in found
       \/ \A p \in scope["edit"] : RuledOut(p) \/ p \in found

\* "The observed diff contradicts the research-guided patch intent" is said of
\* no diff that stays inside the files the research sent the edit to.
ResearchContradictionIsReal ==
  stage = "result" /\ "research_scope_contradicted" \in result.findings =>
    ~ result.changed \subseteq scope["edit"]

=============================================================================
