SPECIFICATION FairSpec
CONSTANTS
  Valid <- MCValid
  Invalid <- MCInvalid
  Length <- MCLength
  MaxRequests = 4
  MaxInFlight = 2
  MaxCrashes = 1
INVARIANTS
  TypeOK
  WholeDocument
  EvidenceBacked
  ReadyServesItsContent
PROPERTIES
  ImplementsSearchIndex
  RequestsEnd
CHECK_DEADLOCK FALSE
