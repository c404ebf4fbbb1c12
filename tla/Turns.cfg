SPECIFICATION FairSpec
CONSTANTS
  NULL = NULL
  MaxTurns = 2
  MaxAttempts <- MCAttempts
  MaxChunks <- MCChunks
INVARIANTS TypeOK NoGaps
PROPERTIES EndsOnce TurnsEnd
CHECK_DEADLOCK FALSE
