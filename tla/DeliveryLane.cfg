SPECIFICATION Spec
CONSTANTS
    Procs = {p1, p2}
    NoProc = NoProc
    MaxIndex = 3
    MaxUnstored = 1
    MaxCrashes = 1
    MaxFaults = 0
SYMMETRY Symmetry
INVARIANTS OneDelivery
PROPERTIES InOrder AnchorRespected SkipsNoneOfItsOwn
CHECK_DEADLOCK FALSE
