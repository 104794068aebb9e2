SPECIFICATION EnvSpec
CONSTANTS
    Contents = {x, y}
    Damaged = Damaged
    None = None
    c1 = c1
    c2 = c2
    Callers = {c1, c2}
    CallerOps <- MCCallerOps
    MaxGeneration = 3
    MaxFaults = 1
SYMMETRY Symmetry
INVARIANTS ReadyWasApproved CommittedPackageKept StoreMirrorsManager
