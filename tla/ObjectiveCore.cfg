CONSTANTS
  Runner = runner
  Daemons = {d1}
  Operators = {op}
  Plans <- SmallPlans
  MaxIterations = 2
  MaxCycles = 2
  MaxFaults = 1
  MayExpire = TRUE
  Deployments <- OneOther
SPECIFICATION FairSpec
INVARIANTS DependenciesFirst ReadyItemGoesOn RunnerSuccessIsReviewed 
PROPERTIES RunnerEnds
\* The runner has its verdict and nothing is queued: the system may rest.
CHECK_DEADLOCK FALSE
