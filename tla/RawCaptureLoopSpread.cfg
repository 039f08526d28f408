CONSTANTS
  Client = client
  Readers = {client}
  Capture = Capture
  NoThread = NoThread
  MaxLen = 5
  FrameLens = {2, 5}
  CallerLens = {1}
  FrameBufferLen = 2
  RawEstimate = 1
  MaxFrames = 4
SPECIFICATION LoopSpec
INVARIANTS
  UsedJpegIsComplete
