SPECIFICATION Spec
CONSTANTS
  j1 = j1
  j2 = j2
  h1 = h1
  h2 = h2
  t1 = t1
  t2 = t2
  contoso = contoso
  NULL = NULL
  Jobs = {j1}
  Handlers = {h1, h2}
  Ticks = {t1}
  Tenants = {contoso}
  LeaseDuration = 2
  RetryDelay <- MCRetryDelay
  Answers <- MCAnswersTransient
  MaxFaults = 2
INVARIANTS
  OneCallPerConnection
