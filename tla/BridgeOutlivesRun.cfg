SPECIFICATION ClaudeSpec
CONSTANTS
    MaxTurns = 2
INVARIANTS
    BridgeEndsWithRun
CHECK_DEADLOCK FALSE
