SPECIFICATION FairSpec
CONSTANTS
  c1 = c1
  c2 = c2
  c3 = c3
  k1 = k1
  k2 = k2
  alice = alice
  bob = bob
  contoso = contoso
  NULL = NULL
  Calls = {c1, c2}
  Connections = {k1}
  Emails = {alice}
  Tenants = {contoso}
  Requests <- MCOneRequest
  Failures = {"microsoft_unavailable"}
  IdleTTL = 1
PROPERTIES
  ExpiryKills
