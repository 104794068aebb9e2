SPECIFICATION HostSpec
CONSTANTS
    Slots = {s1}
    Profiles = {p1, p2}
    MaxGeneration = 2
    MaxSids = 2
    MaxMishaps = 2
    Nothing = Nothing
    Controllers = {c1}
    RetryBudget = 1
    MaxOperations = 2
    MaxChanges = 1
    NoOne = NoOne
SYMMETRY Symmetry
INVARIANTS ForeignUntouched NothingLeftBehind AccessIsRecorded StopHolds
