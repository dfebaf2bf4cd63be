SPECIFICATION Spec
CONSTANTS
    Procs = {p1, p2, p3}
    NoProc = NoProc
    MaxIndex = 3
    MaxUnstored = 0
    MaxCrashes = 0
    MaxFaults = 0
INVARIANTS NoLiveDeliverySkipped
CHECK_DEADLOCK FALSE
