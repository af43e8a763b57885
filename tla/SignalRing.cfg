SPECIFICATION FairSpec
CONSTANT CleanerRuns = TRUE
CHECK_DEADLOCK FALSE
INVARIANT TypeOK
INVARIANT RingInOrder
INVARIANT PidsAreRight
PROPERTY EverythingEnds
