SPECIFICATION FairSpec
CONSTANTS
  a1 = a1
  a2 = a2
  a3 = a3
  a4 = a4
  a5 = a5
  b1 = b1
  b2 = b2
  b3 = b3
  orgA = orgA
  orgB = orgB
  Callers = {a1, a2, a3, a4, a5, b1, b2, b3}
  Organizations = {orgA, orgB}
  OrgOf <- MCOrgOf
  GlobalLimit = 5
  OrgLimit = 3
INVARIANTS
  WorkLimited
  NobodyWaitsForNothing
PROPERTIES
  ImplementsLine
  WaitersServed
