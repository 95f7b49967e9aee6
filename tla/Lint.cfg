SPECIFICATION Spec
CONSTANTS
  NULL = NULL
  OVERFLOW = OVERFLOW
  Programs <- MCPrograms
INVARIANTS
  ReportsMeant
  NothingEscapes
  NeverOverflows
CHECK_DEADLOCK FALSE
