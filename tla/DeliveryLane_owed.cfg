SPECIFICATION Spec
CONSTANTS
    Procs = {p1, p2}
    NoProc = NoProc
    MaxIndex = 2
    MaxUnstored = 0
    MaxCrashes = 0
    MaxFaults = 1
INVARIANTS NoDeliveredIndexSkipped
CHECK_DEADLOCK FALSE
