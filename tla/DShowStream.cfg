CONSTANTS
  Sizes = {1, 2, 3}
  Requested = 2
SPECIFICATION FairSpec
INVARIANTS
  CallbackHasItsObjects
PROPERTIES
  LayoutSettles
  ImplementsSource
  CloseReturns
