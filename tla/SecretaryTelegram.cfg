SPECIFICATION FairSpec
CONSTANTS
  Modes <- MCModes
  Transcription = {TRUE, FALSE}
  Messages <- MCMessages
  MaxUpdates = 2
  MaxPending = 1
  MaxActive = 2
  MaxFaults = 2
INVARIANTS AcknowledgedIsHandled NoNeedlessReplay TextAnswerIsLast TimersRingOnce
PROPERTIES SentIsAnswered PolledTimerRings
CHECK_DEADLOCK FALSE
