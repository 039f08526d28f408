CONSTANTS
  Readers = {r1}
  Capture = Capture
  NoThread = NoThread
  MaxLen = 2
  FrameLens = {1, 2}
  CallerLens = {2}
  FrameBufferLen = 2
  RawEstimate = 1
  MaxFrames = 2
SPECIFICATION Spec
INVARIANTS
  OneFramePerDelivery
