CONSTANTS
  MaxFrames = 3
SPECIFICATION Spec
INVARIANTS
  CountsLifetime
