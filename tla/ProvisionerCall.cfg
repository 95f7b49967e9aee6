SPECIFICATION FairSpec
CONSTANTS
  j1 = j1
  j2 = j2
  orgA = orgA
  contoso = contoso
  NULL = NULL
  Jobs = {j1, j2}
  OrgOf <- MCOrgOf
  SizesOf <- MCSizesOf
  Tenants = {contoso}
  Slots = 2
  GlobalLimit = 2
  OrgLimit = 1
  MaxAttempts = 2
  ClientTimeout = 1
  RequestAge = 2
  Leads <- MCLeads
  MaxEntries = 2
  Permanent = {"invalid_credentials"}
  MaxFaults = 1
PROPERTIES
  ImplementsValidation
  TakenOnce
  RetryIsNoReplay
  EveryJobEnds
CHECK_DEADLOCK FALSE
