SPECIFICATION FairSpec
CONSTANTS
  Scores = {12, 16, 15, 25}
  NumFielders = 3
  MaxBalls = 2
CHECK_DEADLOCK FALSE
INVARIANT TypeOK
INVARIANT BallAndCatch
INVARIANT VerdictIsOnThisBall
PROPERTY BallComesBack
