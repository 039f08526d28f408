CONSTANTS
  Sizes = {1, 2}
  Requested = 2
SPECIFICATION Spec
INVARIANTS
  ReleasesOnlyItsOwn
