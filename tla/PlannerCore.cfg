CONSTANTS
  N = 3
  Kind <- WorkPlan
  Reconcilers = {r1, r2}
  MaxOps = 1
  MaxFaults = 1
SPECIFICATION FairSpec
INVARIANT FailureHasCause
PROPERTY RootSettles
CHECK_DEADLOCK FALSE
