SPECIFICATION Spec
CONSTANTS
  MaxRequests = 3
  MaxInFlight = 2
  MaxCrashes = 0
  MaxFrames = 0
  ProviderOutcomes = {TRUE}
PROPERTIES
  RejectedNeverCompleted
CHECK_DEADLOCK FALSE
