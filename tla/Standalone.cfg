SPECIFICATION StandaloneSpec
CONSTANTS
    Submitter = {s1, s2}
    Input <- Inputs
    NoRoom = "none"
    NoKey = NoKey
    Scopes = {"global", "room"}
    Limit <- Limits
    Window <- Windows
    MaxTime = 3
    MaxReservations = 3
    MaxFaults = 1
    MaxCrashes = 1
    MaxDuration = 15
    Policies <- AllPolicies
    Attempts = {1, 2, 3, 4, 5, 6, 8}
    Callers = {c1}
    MaxRuns = 2
    Users = {u1, u2}
    Keys = {k1, k2}
    MaxVersions = 2
    MaxAccesses = 1
    MaxKeyChanges = 1
    Nil = Nil
    Orchestrator = {o1}
    EventID = {1, 2, 3, 4}
    NoEvent = NoEvent
    Reports <- SingleReports
    MaxEvents = 4
    MaxDays = 2
    Launchers = {l1, l2}
    coreComponent = coreComponent
    app = app
    own1 = own1
    own2 = own2
    shared = shared
    Components = {coreComponent, app}
    Dependencies <- MCDependencies
    ResourcesOf <- MCResourcesOf
    Required = {coreComponent}
    Nothing = Nothing
    Bad = Bad
    MaxRelease = 2
    MaxAttempts = 2
    MaxMishaps = 2
    MaxPids = 4
    PluginApi = "adapter"
INVARIANTS
    BucketsMatchSubmissions
    DelayIsCappedDoubling
    CapabilityIsLeased
    SecretsAreAccounted
    AcceptedIsStorable
    NoWorkRepeated
    InstallationIsWhole
    WhatRunsIsKnown
CHECK_DEADLOCK FALSE
