SPECIFICATION Spec
CONSTANTS
  Projects <- MCProjects
  Portfolios <- MCPortfolios
  Bodies <- MCBodies
  WriteOutcomes = {"stored", "disabled", "caught", "escaped", "unanswered"}
  MaxRequests = 4
  MaxInFlight = 3
  MaxCrashes = 1
INVARIANTS
  TypeOK
  OneRunPerBody
  ReportBacked
  AnswersDurable
  ResultsConsistent
PROPERTIES
  ImplementsLedger
CHECK_DEADLOCK FALSE
