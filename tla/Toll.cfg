SPECIFICATION FairSpec
CONSTANTS
  NumGates = 2
  Visits = {1, 2, 3}
  Plate <- ThreePlates
  Wheels <- ThreeWheels
  Gate <- TwoAtGateOne
  Ports = {3, 5}
  Backlog = 2
  RawCap = 4
  NoVisit = 0
CHECK_DEADLOCK FALSE
INVARIANT TypeOK
INVARIANT VerdictIsMine
INVARIANT TrafficBounded
PROPERTY EveryVehicleAnswered
