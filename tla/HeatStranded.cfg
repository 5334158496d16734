SPECIFICATION Spec
CONSTANTS
  Analyses = {a1}
  MaxAttempts = 2
  MaxSubmits = 2
  MaxFaults = 1
  MaxExpiries = 1
INVARIANTS
  LostItemsRecoverable
CHECK_DEADLOCK FALSE
