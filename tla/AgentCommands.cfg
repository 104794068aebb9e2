SPECIFICATION AgentSpec
CONSTANTS
    MaxLeases = 2
    MaxControls = 1
    MaxCounter = 3
    MaxTimeouts = 0
INVARIANTS CommandsAreFresh
CHECK_DEADLOCK FALSE
