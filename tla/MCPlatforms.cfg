CONSTANTS
  Platforms = {"Linux", "Windows", "macOS"}
  Cameras = {c1, c2, c3}
  Unit <- MCEachOne
  Pathless = {c2, c3}
  Slots = {0, 1, 2}
  None = None
  Kinds = {"BI_RGB", "BI_BITFIELDS", "MJPG"}
  Rates = {0, 15, 30}
  Ranges <- MCRanges
  MaxCaps = 2
  Callers = {"open", "reapply", "setFrameRate"}
  CapsMayFail = TRUE
  PropIDs = {1, 4, 5, 14}
  SignBit = 4
  Limits <- MCLimits
  Widths = {2, 4}
  Heights = {2, 4}
  Levels = {0, 16, 128, 235, 255}
SPECIFICATION Spec
INVARIANTS
  WrongCameraHasACause
  EachDeletedOnce
  ClosestIsApplied
  SignedControlsAreRead
  ConvertsEveryPixel
