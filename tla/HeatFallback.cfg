SPECIFICATION Spec
CONSTANTS
  Analyses = {a1}
  MaxAttempts = 2
  MaxSubmits = 2
  MaxFaults = 0
  MaxExpiries = 1
PROPERTIES
  StaleFallbackKept
CHECK_DEADLOCK FALSE
