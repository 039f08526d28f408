CONSTANTS
  PollInterval = 2
  DefaultTimeout = 4
  Timeouts = {1, 3}
  WrapAt = 8
  MaxLate = 0
  MaxElapsed = 12
SPECIFICATION CheckSpec
INVARIANTS
  ProbeKeepsNothing
