SPECIFICATION GroupSpec
CONSTANTS
  Systems = {"ring", "words", "letters", "offset"}
  Limit = 5
  Chunk = 2
  FileLength = 5
  MaxRuns = 3
  MaxGen = 2
  Talks = {"child", "exec", "relay"}
  MaxLines = 5
  Senders = {2, 3, 4}
  Pids = {11, 12}
  Capacity = 3
  MaxStarts = 4
  Programs = {"fifos", "mixed"}
  Buffer = 2
  MaxTyped = 2
  MaxOpens = 4
  Exchangers = {"hello", "gfg", "unix", "words", "judge", "names"}
  NCalls = 3
  MaxServers = 2
  MaxStopped = 1
  MaxSockets = 2
CHECK_DEADLOCK FALSE
INVARIANT GroupTypeOK
INVARIANT TurnsKept
INVARIANT TalkKept
INVARIANT MessagesKept
INVARIANT PollKept
PROPERTY AllServed
