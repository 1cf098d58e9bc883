SPECIFICATION FairSpec
CONSTANTS
  Workers = {w1, w2}
  n1 = n1
  n2 = n2
  n3 = n3
  p1 = p1
  p2 = p2
  Names = {n1, n2, n3}
  Applicants = {n3}
  Passwords = {p1, p2}
  NoPassword = NoPassword
  NULL = NULL
  user <- Accounts
INVARIANTS TypeOK LoginExact LoginKnown Granted CrashShared
PROPERTY Answered
CHECK_DEADLOCK FALSE
