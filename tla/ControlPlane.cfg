SPECIFICATION FairSpec
CONSTANTS
  ann = ann
  ben = ben
  w2 = w2
  k1 = k1
  r1 = r1
  r2 = r2
  mail1 = mail1
  mail2 = mail2
  NULL = NULL
  SignUps = {ann, ben}
  Emails = {mail1, mail2}
  SignUpInputs <- MCSignUpInputs
  MoreWorkspaces = {w2}
  OwnerOf <- MCOwnerOf
  ApiKeys = {k1}
  Requests = {r1, r2}
  Issues <- MCIssues
  Grants <- MCGrants
  CallsOf <- MCCallsOf
  MaxTime = 1
  MaxDeletions = 1
INVARIANTS
  EmailTakenOnce
  RowsBelong
  AnswersExact
  WriteJustified
  NoDeadKey
PROPERTIES
  ImplementsBoundary
  EverythingEnds
CHECK_DEADLOCK FALSE
