SPECIFICATION AgentSpec
CONSTANTS
    MaxLeases = 2
    MaxControls = 1
    MaxCounter = 2
    MaxTimeouts = 1
INVARIANTS JobsAreOwned
CHECK_DEADLOCK FALSE
