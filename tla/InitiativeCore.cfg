CONSTANTS
  Requests = {r1, r2}
  AutoRun = auto
  Worker = worker
  Plans <- MCPlans
  Budgets <- MCBudgets
  Scopes = {"local", "remote"}
  GoalTexts = {FALSE}
  MaxFaults = 1
SPECIFICATION Spec
SYMMETRY Symmetric
INVARIANTS ActiveWasReviewed DecisionNamesGenerated LaunchStaysInScope ExecutionHasBacklog
CHECK_DEADLOCK FALSE
