SPECIFICATION ControlFairSpec
CONSTANTS
    MaxSlots = 1
    Environments = {e1}
    Requests = {r1}
    MaxLeases = 1
    MaxGeneration = 1
    MaxConcurrency = 1
    RequireTrusted = TRUE
    Faults = {"expiry"}
    Kinds = {}
    MaxRevision = 1
    MaxCrashes = 1
    Mode = "logical"
PROPERTIES ExpiredLeasesRecovered
