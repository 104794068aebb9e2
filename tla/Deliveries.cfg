SPECIFICATION DeliverySpec
CONSTANTS
    Conns = {n1}
    MaxCalls = 3
    MaxTorn = 1
    e1 = e1
    e2 = e2
    e3 = e3
    Event = {e1, e2, e3}
    Broken = {e3}
    ClaimTTL = 2
    BatchSize = 2
    RetryDelay <- MCRetryDelay
    MaxAttempts = 12
    MaxTime = 11
    EnqueueUntil = 2
    MaxFailures = 1
    MaxCrashes = 1
    StallUntil = 3
INVARIANTS
    AnswerIsOwn
    ServerLetsGo
    DeliveredWasSent
    FlushNeverFails
PROPERTIES
    EveryCallReturns
    DeliveredIsFinal
    EventuallyDelivered
CHECK_DEADLOCK FALSE
