SPECIFICATION Spec
CONSTANTS
  Us = "us"
  OurProjects <- MCProjects
  HeatRows <- MCHeatRows
  PortfolioRows <- MCPortfolioRows
  Catalogue <- MCCatalogue
  EvidenceOf <- MCEvidenceOf
  Inputs <- MCInputs
  Outputs <- MCOutputs
  MaxChanges = 4
  MaxRevisions = 2
INVARIANTS
  TypeOK
  TenantIsolation
  CitationsIssued
  GroundedAsAsked
  EvidenceComplete
  StateOfLastExecution
CHECK_DEADLOCK FALSE
