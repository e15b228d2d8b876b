CONSTANTS
  p1 = p1
  p2 = p2
  p3 = p3
  g1 = g1
  l1 = l1
  coder = coder
  reviewer = reviewer
  NoTask = NoTask
  Tasks = {g1, l1}
  Gated = {g1}
  Launchable = {l1}
  Workers = {w1, w2}
  Handlers = {h1, h2}
  AgentTypes = {coder, reviewer}
  Agent <- MCAgent
  QueueMaxGlobal = 2
  QueueMaxPerAgent = 2
  MaxCrashes = 1
  MaxPending = 2
SPECIFICATION Spec
SYMMETRY MCSymmetry
INVARIANTS SingleToken QueuedNotLost
PROPERTIES TerminalIsFinal ImplementsTaskLife
\* All tasks finished, nothing to poll: the system may rest.
CHECK_DEADLOCK FALSE
