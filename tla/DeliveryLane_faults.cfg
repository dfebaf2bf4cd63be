SPECIFICATION FairSpec
CONSTANTS
    Procs = {p1, p2}
    NoProc = NoProc
    MaxIndex = 2
    MaxUnstored = 1
    MaxCrashes = 1
    MaxFaults = 1
INVARIANTS TypeOK NoSilentLoss OwesItsOwn LaneInv
PROPERTIES DeliversInOrder NeverWedges
CHECK_DEADLOCK FALSE
