SPECIFICATION Spec
CONSTANTS
  Casefold <- MCCasefold
  Orgs = {"us", "them"}
  OrgOf <- MCOrgOf
  ProjectOf <- MCProjectOf
  Catalogue <- MCCatalogue
  Bodies <- MCBodies
  MaxRequests = 2
  MaxInFlight = 2
INVARIANTS
  TypeOK
  PromisesKept
  StoredAsAnswered
CHECK_DEADLOCK FALSE
