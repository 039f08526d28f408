CONSTANTS
  Client = client
  Readers = {client}
  Capture = Capture
  NoThread = NoThread
  MaxLen = 4
  FrameLens = {2, 3, 4}
  CallerLens = {1}
  FrameBufferLen = 2
  RawEstimate = 1
  MaxFrames = 4
SPECIFICATION LoopSpec
INVARIANTS
  UsedJpegIsComplete
  EachPassUsesANewFrame
