SPECIFICATION Spec
CONSTANTS
  MaxRequests = 4
  MaxInFlight = 1
  MaxCrashes = 1
  MaxFrames = 0
  ProviderOutcomes = {TRUE, FALSE}
INVARIANTS
  DecidedWholeRevision
PROPERTIES
  ImplementsLifecycle
CHECK_DEADLOCK FALSE
