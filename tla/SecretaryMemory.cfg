SPECIFICATION Spec
CONSTANTS
  Conversations = {"telegram", "webui"}
  Questions <- MCQuestions
  CommandText <- MCCommand
  Topics = {"a"}
  Registered = {"Granola", "Jira", "web"}
  MaxPairs = 2
  MaxChars = 2
  HistoryWindow = 0
  MemoryWindow = 1
  MemoryLimit = 1
  KnowledgeLimit = 1
  TraceWindow = 0
  CandidateWindow = 0
  MaxClock = 1
  MaxExchanges = 2
  MaxItems = 1
  MaxFaults = 1
INVARIANTS ReviewDecides CacheIsDurable SourceWishesAreKept
PROPERTIES EndingIsTruthful ForgottenIsNeverUsed
CHECK_DEADLOCK FALSE
