SPECIFICATION Spec
CONSTANTS
  Clients = {"a", "b"}
  PerMinute = 2
  Window = 3
  MaxBytes = 2
  Lengths <- MCLengths
  MaxTime = 6
INVARIANTS
  TypeOK
PROPERTIES
  ImplementsSlidingWindow
CHECK_DEADLOCK FALSE
