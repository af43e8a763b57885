SPECIFICATION ShowFairSpec
CONSTANTS
  NumJudges = 2
  Performers = {p1, p2}
  NoPid = NoPid
  MaxRounds = 2
  MaxLines = 1
  MaxQuits = 1
CHECK_DEADLOCK FALSE
 
INVARIANT AnnouncedScores
INVARIANT OneRightAsker
PROPERTY RoundEnds
