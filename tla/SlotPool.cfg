CONSTANTS
    MaxSlots = 1
    Environments = {e1, e2}
    Requests = {"r1"}
    MaxLeases = 2
    MaxGeneration = 2
    MaxConcurrency = 1
    RequireTrusted = TRUE
    Faults = {"expiry", "cancel", "environment"}
    Kinds = {"scale", "delete", "apply"}
    MaxRevision = 3
    MaxCrashes = 1
    Mode = "windows"
    Bounds <- MCBounds
SPECIFICATION BoundedSpec
SYMMETRY Symmetry
VIEW ReadAgain
INVARIANTS SlotRecordsAgree LeaseHasSlot
PROPERTIES ReuseIsFenced OperationsSettle
CHECK_DEADLOCK FALSE
