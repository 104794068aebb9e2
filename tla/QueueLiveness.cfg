SPECIFICATION FairSpec
CONSTANTS
    r1 = r1
    r2 = r2
    a1 = a1
    a2 = a2
    Request = {r1, r2}
    Account = {a1, a2}
    AccountOf <- TwoAccounts
    Notified = {}
    Client = {}
    NoRequest = NoRequest
    MaxGlobalConcurrency = 1
    LeaseTTL = 2
    RunTimeout = 2
    MaxAttempts = 2
    RetryDelay <- MCRetryDelay
    Deadlines = {0, 3}
    WorkerFailures = {"credential"}
    MaxTime = 14
    SubmitUntil = 1
    MaxCrashes = 1
    MaxFaults = 1
    Urgent = TRUE
INVARIANTS
    ConcurrencyBounded
PROPERTIES
    EveryRequestSettles
CHECK_DEADLOCK FALSE
