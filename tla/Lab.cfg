SPECIFICATION Spec
CONSTANTS
  NListeners = 3
  Sources = {s1, s2}
  MaxRead = 2
  MaxUsr1 = 2
  NViewers = 3
  Streams = {1, 2}
  Missing = {2}
  Row = 2
  MaxOut = 2
  NCallers = 3
  Kinds = {"poll", "thread", "choose", "fork"}
  Wanted = {1, 3}
  NGuests = 3
  NStarts = 3
  Rounds = 2
  NChatters = 3
  MaxSaid = 3
  ChanCap = 2
CHECK_DEADLOCK FALSE
INVARIANT LabTypeOK
INVARIANT StreamsSafe
INVARIANT DataSafe
 
INVARIANT PassedSafe
INVARIANT ChatSafe
