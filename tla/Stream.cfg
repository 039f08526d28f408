CONSTANTS
  Readers = {r1, r2}
  Capture = Capture
  NoThread = NoThread
  MaxLen = 3
  FrameLens = {1, 2, 3}
  CallerLens = {1, 2}
  FrameBufferLen = 2
  RawEstimate = 1
  MaxFrames = 2
SPECIFICATION FairSpec
INVARIANTS
  TypeOK
  DeliveriesInLayers
  CopiesStayInside
  NewFrameFlagExact
PROPERTIES
  ImplementsMailbox
  MutexReleased
  DeliveriesMoveForward
