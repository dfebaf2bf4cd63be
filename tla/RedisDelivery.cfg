SPECIFICATION MCSpec
CONSTANTS
    Items = {i1, i2}
    Workers = {w1, w2}
    NoWorker = NoWorker
    NoCopy = NoCopy
    MaxRetries = 1
    BatchSize = 2
    MaxCrashes = 1
    MaxFaults = 1
    MaxStalls = 1
INVARIANTS TypeOK OneCopy RetriesEarned ExclusiveLease
PROPERTIES KeepsPromise
CHECK_DEADLOCK FALSE
