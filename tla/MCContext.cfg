CONSTANTS
  Objects = {s1, s2, s3, s4}
  nullptr = nullptr
  Devices = {cam1, cam2}
  NumFormats = 2
  MaxId = 3
  StrictClient = TRUE
SPECIFICATION Spec
SYMMETRY Symmetry
INVARIANTS
  HandedIdsAreStored
  CapturingHasOneId
  NoDanglingEntry
  ReleaseStopsAll
PROPERTIES
  IdsAreNotReused
