SPECIFICATION Spec
CONSTANTS
  a1 = a1
  a2 = a2
  a3 = a3
  Attempts = {a1, a2}
  Versions = {1}
  MaxTurns <- OneTurn
  None = None
INVARIANT AfterRunOwed
