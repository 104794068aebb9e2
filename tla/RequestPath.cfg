SPECIFICATION PathSpec
CONSTANTS
    r1 = r1
    r2 = r2
    a1 = a1
    a2 = a2
    Request = {r1, r2}
    Account = {a1}
    AccountOf <- OneAccount
    Notified = {r1, r2}
    Client = {c1}
    NoRequest = NoRequest
    MaxGlobalConcurrency = 1
    LeaseTTL = 2
    RunTimeout = 3
    MaxAttempts = 2
    RetryDelay <- MCRetryDelay
    Deadlines = {0, 2}
    WorkerFailures = {"credential"}
    MaxTime = 4
    SubmitUntil = 1
    MaxCrashes = 1
    MaxFaults = 1
    Urgent = FALSE
    MaxSessions = 3
    Generations = {1, 2}
    BrokerGenerations = {1, 2}
    NoRecord = NoRecord
    NoOwner = NoOwner
    MaxTries = 2
    MaxTrouble = 2
    ask = ask
    stop = stop
    askAgain = askAgain
    stopAll = stopAll
    snoop = snoop
    look = look
    spy = spy
    help = help
    noise = noise
    echo = echo
    account1 = account1
    room1 = room1
    room2 = room2
    Messages = {ask, stop, askAgain, stopAll, snoop, look, spy, help, noise, echo}
    Rooms = {room1, room2}
    Accounts = {account1}
    RoomOf <- MCRoomOf
    RoleOf <- MCRoleOf
    CommandOf <- MCCommandOf
    Nobody = Nobody
    MaxPosts = 3
    MaxMishaps = 1
SYMMETRY RequestSymmetry
INVARIANTS
    RequestsMirrorAccounts
    LeasesGuardRuns
    OutboxComplete
    ExitsOnlyForCause
    CommandsAreAccounted
    SessionsAreManaged
    SessionEndsClean
PROPERTIES
    SettledIsFinal
    ImplementsLifecycle
CHECK_DEADLOCK FALSE
