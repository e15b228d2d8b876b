------------------------ MODULE MCObjectivePlanning ------------------------
(* Instances of ObjectivePlanning and ObjectiveScope for TLC. *)
EXTENDS ObjectiveScope

\* Four files with one class each, what is said of the first two varies.
Fact(classes, named, readme, cue, lockfile) ==
  [classes |-> classes, named |-> named, readme |-> readme, cue |-> cue, lockfile |-> lockfile]

MCFacts ==
  {<<Fact(k, named, 8, 2, FALSE), Fact({}, FALSE, readme, cue, FALSE), Fact({"docs"}, FALSE, 0, 0, FALSE),
     Fact({"deps"}, FALSE, 0, 0, TRUE), Fact({"infra", "deps"}, FALSE, 0, 0, FALSE)>> :
     k \in {{}, {"docs"}}, named \in BOOLEAN, readme \in {0, 8}, cue \in {-3, 2}}

MCWorkspaces ==
  {[files |-> files, expected |-> expected, facts |-> facts, git |-> files # {}, topics |-> topics] :
     files \in {{}, {1, 2}, 1..5}, expected \in {{2}, {2, 3}}, facts \in MCFacts,
     topics \in {{"fix", "tests"}, {"docs", "infra", "deps"}, {"docs", "structure"}}}

Chunk(ref, class, score, path, topics) ==
  [ref |-> ref, class |-> class, score |-> score, path |-> path, topics |-> topics]

\* Up to eight chunks of five classes, with one reference found twice.
MCContexts ==
  {<<>>, <<Chunk(1, "repo_specific", 3, 2, {"regression"})>>}
  \union {<<Chunk(1, c, 2, 2, {}), Chunk(2, "repo_specific", s, 0, {"structure"}), Chunk(1, "recent_execution", 1, 3, {}),
            Chunk(3, "repo_specific", -1, 1, {}), Chunk(4, "pattern_similar", 2, 1, {}), Chunk(5, "technology_similar", 1, 0, {}),
            Chunk(6, "pattern_similar", s, 2, {"regression"}), Chunk(7, "repo_specific", 2, 0, {})>> :
            c \in {"repo_specific", "negative_guardrail"}, s \in {1, 3}}
=============================================================================
