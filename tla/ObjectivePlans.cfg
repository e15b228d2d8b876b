CONSTANTS
  Workspaces <- MCWorkspaces
  Contexts <- MCContexts
  MaxIterations = 2
  MaxTouched = 1
SPECIFICATION ScopeSpec
INVARIANTS PrecedentsAreBest ReviewSeesEverything RepairFollowsEvidence
\* The last iteration allowed is not repaired.
CHECK_DEADLOCK FALSE
