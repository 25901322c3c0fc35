SPECIFICATION FairSpec
CONSTANTS
  a1 = a1
  a2 = a2
  a3 = a3
  Attempts = {a1, a2}
  Versions = {1, 2}
  MaxTurns <- OneOrTwo
  None = None
INVARIANTS TypeOK ExitPathsHonoured WorkspaceIsSound OneInitialiser TurnsStayBounded
PROPERTY AttemptEnds
