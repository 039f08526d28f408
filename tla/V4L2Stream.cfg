CONSTANTS
  NBuffers = 3
  Formats = {"RGB3", "NV12", "MJPG", "H264"}
  CounterMod = 2
SPECIFICATION FairSpec
INVARIANTS
  BufferHasOneOwner
  ThreadHasItsResources
  DeadThreadHoldsNothing
PROPERTIES
  ImplementsSource
  CloseReturns
