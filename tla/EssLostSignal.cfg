SPECIFICATION FairSpec
CONSTANTS
  Clients = {c0, c1, c2}
  FirstClient = c0
  Nobody = Nobody
  CleanerRuns = FALSE
  MaxQuits = 0
PROPERTY SignalledConnects
CHECK_DEADLOCK FALSE
