CONSTANTS
  NBuffers = 2
  Formats = {"NV12", "MJPG"}
  CounterMod = 4
SPECIFICATION Spec
INVARIANTS
  OpenMeansCapturing
