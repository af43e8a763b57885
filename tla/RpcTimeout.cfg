SPECIFICATION FairSpec
CONSTANTS
  Callers = {c1}
  Args = {1, 3}
  MaxCalls = 2
  MaxRestarts = 0
  MayTimeout = TRUE
PROPERTY ReplyReachesClient
CHECK_DEADLOCK FALSE
