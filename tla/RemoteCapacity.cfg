CONSTANTS
  p1 = p1
  p2 = p2
  p3 = p3
  g1 = g1
  l1 = l1
  coder = coder
  reviewer = reviewer
  NoTask = NoTask
  Tasks = {p1, p2, p3}
  Gated = {}
  Launchable = {}
  Workers = {w1}
  Handlers = {h1, h2}
  AgentTypes = {coder, reviewer}
  Agent <- MCAgent
  QueueMaxGlobal = 1
  QueueMaxPerAgent = 1
  MaxCrashes = 0
  MaxPending = 2
SPECIFICATION Spec
SYMMETRY MCSymmetry
INVARIANTS QueueOvershootBounded
CHECK_DEADLOCK FALSE
