CONSTANTS
  PollInterval = 2
  DefaultTimeout = 4
  Timeouts = {0, 1, 3, 6}
  WrapAt = 8
  MaxLate = 1
  MaxElapsed = 12
SPECIFICATION FairCheckSpec
INVARIANTS
  CameraIsFreed
  AnswerTellsOfFrame
PROPERTIES
  CallReturns
