SPECIFICATION FairSpec
CONSTANTS
  Analyses = {a1}
  MaxAttempts = 4
  MaxSubmits = 2
  MaxFaults = 2
  MaxExpiries = 1
INVARIANTS
  TypeOK
  ChargedOnce
  SucceededHasResult
  ScheduleDurable
PROPERTIES
  ResultKept
  AnalysesSettle
CHECK_DEADLOCK FALSE
