SPECIFICATION FairSpec
CONSTANTS
  MaxRequests = 3
  MaxInFlight = 2
  MaxCrashes = 1
  MaxFrames = 10
  ProviderOutcomes = {TRUE, FALSE}
INVARIANTS
  TypeOK
  SequencesDense
  NoMissedEvent
  GateAfterEveryNode
  AuditTrail
  DecisionsLogged
PROPERTIES
  ImplementsEventLog
  ExecutionSettles
CHECK_DEADLOCK FALSE
