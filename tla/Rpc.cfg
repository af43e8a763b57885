SPECIFICATION FairSpec
CONSTANTS
  Callers = {c1, c2}
  Args = {1, 40000}
  MaxCalls = 3
  MaxRestarts = 1
  MayTimeout = TRUE
CHECK_DEADLOCK FALSE
INVARIANT WireSafe
INVARIANT AnswerMatchesCall
PROPERTY EveryCallReturns
