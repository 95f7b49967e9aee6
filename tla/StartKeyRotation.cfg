SPECIFICATION Spec
CONSTANTS
  r1 = r1
  r2 = r2
  r3 = r3
  k1 = k1
  k2 = k2
  p1 = p1
  p2 = p2
  q1 = q1
  orgA = orgA
  orgB = orgB
  c1 = c1
  c2 = c2
  NULL = NULL
  Requests = {r1, r2}
  Keys = {k1}
  Organizations = {orgA, orgB}
  Payloads = {p1}
  OrgOf <- MCOrgOf
  CipherKeys = {c1, c2}
  MaxFaults = 1
INVARIANTS
  SamePayloadSameJob
