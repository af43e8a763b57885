SPECIFICATION ASpec
CONSTANTS
  Clients = {c1, c2, c3}
  FirstClient = c1
  Nobody = Nobody
  CleanerRuns = TRUE
  MaxQuits = 1
CHECK_DEADLOCK FALSE
INVARIANT AnnounceSafe
