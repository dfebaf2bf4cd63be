SPECIFICATION Spec
CONSTANTS
    Items = {i1}
    Workers = {w1, w2}
    NoWorker = NoWorker
    NoCopy = NoCopy
    MaxRetries = 1
    BatchSize = 1
    MaxCrashes = 2
    MaxFaults = 0
    MaxStalls = 0
INVARIANTS AttemptsBounded
CHECK_DEADLOCK FALSE
