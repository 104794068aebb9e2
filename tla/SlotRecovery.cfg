SPECIFICATION ControlSpec
CONSTANTS
    MaxSlots = 2
    Environments = {e1}
    Requests = {r1}
    MaxLeases = 2
    MaxGeneration = 1
    MaxConcurrency = 1
    RequireTrusted = TRUE
    Faults = {"expiry"}
    Kinds = {}
    MaxRevision = 1
    MaxCrashes = 1
    Mode = "windows"
INVARIANTS OneSlotPerRequest
