CONSTANTS
  MaxFrames = 3
SPECIFICATION Spec
INVARIANTS
  DelegateHasItsStream
  DeviceOutlivesStream
  LockedFormatIsKept
PROPERTIES
  ImplementsSource
