CONSTANTS
  PollInterval = 2
  DefaultTimeout = 4
  Timeouts = {7}
  WrapAt = 8
  MaxLate = 0
  MaxElapsed = 12
SPECIFICATION FairCheckSpec
PROPERTIES
  CallReturns
