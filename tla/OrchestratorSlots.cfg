SPECIFICATION Spec
CONSTANTS
  i1 = i1
  i2 = i2
  g1 = g1
  g2 = g2
  Issues = {i1, i2}
  Gens = {g1}
  ActiveStates = {"todo", "review"}
  TerminalStates = {"terminal"}
  OtherStates = {"other"}
  StateOverride <- OneInReview
  Limits = {1, 2}
  MaxAttempt = 2
  MaxTicks = 0
  MaxConfigs = 1
  None = None
  Pending = Pending
  Failed = Failed
SYMMETRY Symmetry
PROPERTIES StartsFillSlots StartsTakeFreeIssues BackoffNeverResets
