SPECIFICATION Spec
CONSTANTS
  i1 = i1
  i2 = i2
  g1 = g1
  g2 = g2
  Issues = {i1}
  Gens = {g1, g2}
  ActiveStates = {"active"}
  TerminalStates = {"terminal"}
  OtherStates = {"other"}
  StateOverride <- NoOverride
  Limits = {1}
  MaxAttempt = 1
  MaxTicks = 0
  MaxConfigs = 0
  None = None
  Pending = Pending
  Failed = Failed
INVARIANT OneWorkerPerIssue
