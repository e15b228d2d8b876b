SPECIFICATION Spec
CONSTANTS
  NoWrite = NoWrite
  Commands <- MCCommands
  WriteOf <- MCWriteOf
  Asks <- MCAsks
  Answers <- MCAnswers
  Size <- MCSize
  MaxPromptChars = 10
  MaxEntries = 2
  MaxRequests = 3
  MaxOpen = 2
INVARIANTS CompletedCanBeContinued RefusedOnlyIfDone NoCommandTwice
CHECK_DEADLOCK FALSE
