CONSTANTS
  p1 = p1
  p2 = p2
  p3 = p3
  g1 = g1
  l1 = l1
  coder = coder
  reviewer = reviewer
  NoTask = NoTask
  Tasks = {p1, g1}
  Gated = {g1}
  Launchable = {}
  Workers = {w1}
  Handlers = {h1}
  AgentTypes = {coder, reviewer}
  Agent <- MCAgent
  QueueMaxGlobal = 2
  QueueMaxPerAgent = 2
  MaxCrashes = 1
  MaxPending = 2
SPECIFICATION FairSpec
PROPERTY QueuedGetsClaimed
CHECK_DEADLOCK FALSE
