SPECIFICATION FairSpec
CONSTANTS
  MaxTurns = 2
  MaxLines = 7
  MaxPipe = 2
INVARIANTS TypeOK NobodyWaitsOnTheDead TurnGetsItsOwnOutcome ChildEndsWithRun
PROPERTIES FirstOutcomeStands RunEnds
CHECK_DEADLOCK FALSE
