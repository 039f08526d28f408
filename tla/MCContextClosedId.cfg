CONSTANTS
  Objects = {s1, s2}
  nullptr = nullptr
  Devices = {cam1}
  NumFormats = 1
  MaxId = 1
  StrictClient = TRUE
SPECIFICATION Spec
INVARIANTS
  IsOpenStreamAnswers
