------------------------- MODULE ObjectivePlanning -------------------------
(***************************************************************************)
(* How createObjective (httpapi/objectives.go) makes the first contract:   *)
(* it selects precedents from the retrieved context (memory/retrieval.go), *)
(* ranks the files of the workspace and decides which optional items the   *)
(* plan has (initiative/objectives.go).                                    *)
(*                                                                         *)
(* A path is a number, in the order of the names.  Text is reduced to what *)
(* the detectors look for in it: topics of the goal and of a precedent,    *)
(* and for each path what goal, README and precedents say of it.           *)
(***************************************************************************)
EXTENDS ObjectiveGraph, Integers, Sequences, FiniteSets

CONSTANTS
  Workspaces,  \* workspaces and goals to plan for
  Contexts     \* sequences of retrieved chunks

ASSUME WorkspaceAssumption ==
  \A w \in Workspaces : w.files \subseteq Nat /\ w.expected \subseteq Nat

ASSUME ContextAssumption ==
  Contexts \subseteq Seq([ref : Int, class : STRING, score : Int, path : Int, topics : SUBSET STRING])

VARIABLES
  ws,          \* [files, expected, facts, git, topics]
  chunks,      \* [ref, class, score, path, topics]: what the vector search returned
  hits,        \* the selected precedents
  contract,    \* the execution contract
  stage

planVars == <<ws, chunks, hits, contract, stage>>

NoContract == [plan |-> {}, paths |-> <<>>, selected |-> <<>>, rejected |-> <<>>]

PlanInit ==
  /\ ws \in Workspaces /\ chunks \in Contexts
  /\ hits = <<>> /\ contract = NoContract
  /\ stage = "context"

\* The elements of S in the strict order R, a set of pairs.
Sorted(S, R) ==
  [k \in 1..Cardinality(S) |-> CHOOSE x \in S : Cardinality({y \in S : <<y, x>> \in R}) = k - 1]

(***************************************************************************)
(* SelectRetrievalHits: best first, at most two of a class, no reference   *)
(* twice, at most five.                                                    *)
(***************************************************************************)
DefaultPrecedentLimit == 5
DefaultPerClassLimit  == 2

MemoryClassPriority(class) ==
  CASE class = "repo_specific"      -> 0
    [] class = "recent_execution"   -> 1
    [] class = "pattern_similar"    -> 2
    [] class = "technology_similar" -> 3
    [] class = "planning_context"   -> 4
    [] OTHER                        -> 10

BetterChunk(a, b) ==
  \/ a.score > b.score
  \/ a.score = b.score /\ MemoryClassPriority(a.class) < MemoryClassPriority(b.class)
  \/ /\ a.score = b.score /\ MemoryClassPriority(a.class) = MemoryClassPriority(b.class)
     /\ a.ref < b.ref

OfClass(s, class) == {i \in DOMAIN s : s[i].class = class}

\* Mutant: the limit per class is compared before the hit is counted.
TakeHitLate(taken, c) ==
  IF \/ Len(taken) >= DefaultPrecedentLimit
     \/ \E i \in DOMAIN taken : taken[i].ref = c.ref
     \/ Cardinality(OfClass(taken, c.class)) > DefaultPerClassLimit
    THEN taken ELSE Append(taken, c)

\* The loop of SelectRetrievalHits.  A chunk without a reference is sorted under
\* the empty one and counted under its type and identifier; every chunk here has
\* a reference.  createObjective hands over at most three chunks of its own, all
\* unscored; the other callers (initiative/objectives.go, helpers.go) hand over
\* the chunks of a context package, of which there are more.
TakeHit(taken, c) ==
  IF \/ Len(taken) >= DefaultPrecedentLimit
     \/ \E i \in DOMAIN taken : taken[i].ref = c.ref
     \/ Cardinality(OfClass(taken, c.class)) >= DefaultPerClassLimit
    THEN taken ELSE Append(taken, c)

\* Stable: chunks that compare equal keep the order of the search.
SortedChunks(s) ==
  LET cand == {i \in DOMAIN s : s[i].class # "negative_guardrail"}
      before == {p \in cand \X cand :
                   \/ BetterChunk(s[p[1]], s[p[2]])
                   \/ ~ BetterChunk(s[p[2]], s[p[1]]) /\ p[1] < p[2]}
  IN  [k \in 1..Cardinality(cand) |-> s[Sorted(cand, before)[k]]]

SelectRetrievalHits(s) ==
  LET sorted == SortedChunks(s)
      taken[n \in 0..Len(sorted)] == IF n = 0 THEN <<>> ELSE TakeHit(taken[n - 1], sorted[n])
  IN  taken[Len(sorted)]

\* buildObjectivePlanningContext
BuildPlanningContext ==
  /\ stage = "context"
  /\ hits' = SelectRetrievalHits(chunks)
  /\ stage' = "contract"
  /\ UNCHANGED <<ws, chunks, contract>>

(***************************************************************************)
(* buildInitialScopeHypotheses                                             *)
(***************************************************************************)

\* objectivePlannerPrecedentSupport
CitedBy(p) == {i \in DOMAIN hits : hits[i].path = p}

\* objectivePrimaryCodeCue
PrimaryCodeCue(p) == ws.facts[p].classes = {} /\ "fix" \in ws.topics

\* What goal and README say: the best README line replaces a lower score.
TextScore(p) ==
  LET direct == IF ws.facts[p].named THEN 12 + (IF PrimaryCodeCue(p) THEN 3 ELSE 0) ELSE 0
      line   == IF ws.facts[p].readme = 0 THEN 0 ELSE ws.facts[p].readme + ws.facts[p].cue
  IN  [score      |-> IF line > direct THEN line ELSE direct,
       confidence |-> CASE line > direct /\ line >= 9 -> "high"
                        [] line > direct /\ line < 9  -> "medium"
                        [] line <= direct /\ direct > 0 -> "high"
                        [] OTHER -> "low"]

Hypothesis(p) ==
  LET text  == TextScore(p)
      base  == IF text.score = 0 /\ p \in ws.expected THEN 3 ELSE text.score
      cited == CitedBy(p) # {}
  IN  [path       |-> p,
       score      |-> base + (IF cited THEN 4 ELSE 0),
       confidence |-> IF cited /\ text.confidence = "low" THEN "medium" ELSE text.confidence]

Candidates == {Hypothesis(p) : p \in ws.files \union ws.expected}

Outranks(a, b) == a.score > b.score \/ (a.score = b.score /\ a.path < b.path)

\* A candidate without any evidence is dropped.
Ranked ==
  LET found == {h \in Candidates : h.score # 0}
  IN  Sorted(found, {p \in found \X found : Outranks(p[1], p[2])})

SelectedLimit == 2
Selected == SubSeq(Ranked, 1, IF Len(Ranked) < SelectedLimit THEN Len(Ranked) ELSE SelectedLimit)
Rejected == SubSeq(Ranked, SelectedLimit + 1, Len(Ranked))

SuspectedPaths ==
  IF Selected # <<>> THEN {Selected[i].path : i \in DOMAIN Selected} ELSE ws.expected

(***************************************************************************)
(* Which optional items the plan has.                                      *)
(***************************************************************************)

\* shouldBootstrapObjectiveWorkspace
Bootstrap == ~ ws.git /\ ws.files = {}

StrongEvidence(h) == h.score >= 6 \/ h.confidence \in {"medium", "high"}

ScopeIsAmbiguous ==
  /\ Len(Selected) >= 2
  /\ Selected[1].score - Selected[2].score <= 2
  /\ StrongEvidence(Selected[1]) /\ StrongEvidence(Selected[2])

PrecedentTopics == UNION {hits[i].topics : i \in DOMAIN hits}

\* detectInitialObjectiveAnalysis
InitialAnalysis == "structure" \in ws.topics \union PrecedentTopics \/ ScopeIsAmbiguous

\* detectInitialBaselineValidation
InitialBaseline ==
  /\ ~ Bootstrap
  /\ {"fix", "tests"} \subseteq ws.topics \/ "regression" \in PrecedentTopics

\* objectiveDocumentationPaths, objectiveInfraPaths, objectiveDependencyPaths:
\* at most three listed files of the class, or the default one of a scaffold.
\* Manifests come before lockfiles.
DefaultPath == 0
WorkstreamPaths(class) ==
  LET of    == {p \in ws.files : class \in ws.facts[p].classes}
      lock(p) == IF class = "deps" /\ ws.facts[p].lockfile THEN 1 ELSE 0
      ahead(p) == {q \in of : lock(q) < lock(p) \/ (lock(q) = lock(p) /\ q < p)}
      taken == {p \in of : Cardinality(ahead(p)) < 3}
  IN  IF taken = {} /\ Bootstrap THEN {DefaultPath} ELSE taken

\* detectObjectiveDocumentationWorkstream and the other two: only beside work
\* outside the class.
HasWorkstream(class) ==
  /\ class \in ws.topics
  /\ \E p \in SuspectedPaths : class \notin ws.facts[p].classes
  /\ WorkstreamPaths(class) # {}

InitialPlan ==
  (IF InitialBaseline THEN {"validate-baseline"} ELSE {})
  \union (IF Bootstrap THEN {"bootstrap"} ELSE {})
  \union (IF InitialAnalysis THEN {"analyze"} ELSE {})
  \union (IF HasWorkstream("docs") THEN {"edit-docs"} ELSE {})
  \union (IF HasWorkstream("infra") THEN {"edit-config"} ELSE {})
  \union (IF HasWorkstream("deps") THEN {"edit-deps"} ELSE {})

WorkstreamClass(n) == CASE n = "edit-docs" -> "docs" [] n = "edit-config" -> "infra" [] n = "edit-deps" -> "deps"

\* Mutant: the last workstream alone is validated with the code.
ValidatePathsOfLast(f) ==
  SuspectedPaths \union
    (IF f \intersect Workstreams = {} THEN {} ELSE WorkstreamPaths(WorkstreamClass(LastEditBefore(f, "validate"))))

\* finalValidatePaths
ValidatePaths(f) ==
  SuspectedPaths \union UNION {WorkstreamPaths(WorkstreamClass(n)) : n \in f \intersect Workstreams}

\* The suspected_paths of each item.
ItemPaths(f, n) ==
  CASE n \in Workstreams            -> WorkstreamPaths(WorkstreamClass(n))
    [] n \in {"validate", "review"} -> ValidatePaths(f)
    [] OTHER                        -> SuspectedPaths

GenerateContract ==
  /\ stage = "contract"
  /\ contract' = [plan     |-> InitialPlan,
                  paths    |-> [n \in Items(1, InitialPlan) |-> ItemPaths(InitialPlan, n)],
                  selected |-> Selected,
                  rejected |-> Rejected]
  /\ stage' = "done"
  /\ UNCHANGED <<ws, chunks, hits>>

PlanNext == BuildPlanningContext \/ GenerateContract

(***************************************************************************)
(* Properties.                                                             *)
(***************************************************************************)

\* A retrieved chunk is missing from the selected precedents only because it
\* is a guardrail, better hits fill the list or its class, or a better hit
\* has its reference: the greedy loop over the sorted chunks loses nothing else,
\* and no class crowds the others out.
PrecedentsAreBest ==
  stage = "contract" =>
    /\ \A j \in DOMAIN hits : Cardinality(OfClass(hits, hits[j].class)) <= DefaultPerClassLimit
    /\ \A i \in DOMAIN chunks :
         LET c == chunks[i]
             better == {j \in DOMAIN hits : ~ BetterChunk(c, hits[j])}
         IN  \/ \E j \in DOMAIN hits : hits[j] = c
             \/ c.class = "negative_guardrail"
             \/ Cardinality(better) = DefaultPrecedentLimit
             \/ Cardinality({j \in better : hits[j].class = c.class}) = DefaultPerClassLimit
             \/ \E j \in better : hits[j].ref = c.ref

\* In every contract and in every repair cycle that can follow it, an item
\* depends on earlier items of the same plan only, every item but the review
\* is one that another waits for, so that the review comes after all of them,
\* and a file that some item may edit is in the scope of the review.
ReviewSeesEverything ==
  stage = "done" =>
    /\ \A i \in {1, 2}, findings \in SUBSET FindingKind, changed \in BOOLEAN :
         LET f == IF i = 1 THEN contract.plan ELSE RepairPlan(contract.plan, findings, changed)
         IN  /\ \A n \in Items(i, f) : \A d \in DependsOn(i, f, n) :
                  d \in Items(i, f) /\ Position(d) < Position(n)
             /\ \A d \in Items(i, f) \ {"review"} : \E n \in Items(i, f) : d \in DependsOn(i, f, n)
    /\ \A n \in DOMAIN contract.paths : contract.paths[n] \subseteq contract.paths["review"]

=============================================================================
