SPECIFICATION Spec
CONSTANTS
  Analyses = {a1}
  MaxAttempts = 2
  MaxSubmits = 3
  MaxFaults = 0
  MaxExpiries = 1
PROPERTIES
  NoChargeWhilePending
CHECK_DEADLOCK FALSE
