SPECIFICATION FairSpec
CONSTANTS
  Clients = {c0, c1, c2, c3}
  FirstClient = c0
  Nobody = Nobody
  CleanerRuns = TRUE
  MaxQuits = 1
CHECK_DEADLOCK FALSE
INVARIANT TypeOK
INVARIANT HandoverSafe
PROPERTY SessionSafe
PROPERTY WokenIsServed
