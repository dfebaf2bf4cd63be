SPECIFICATION MCSpec
CONSTANTS
    Owner = Owner
    Executors = {e1, e2}
    NoExecutor = NoExecutor
    Batch = 2
    MaxFrames = 1
    MaxControls = 2
    MaxFaults = 1
    MaxDowns = 1
INVARIANTS TypeOK TakenOnce GapMeansRefusal SilenceMeansLoss NothingStranded
PROPERTIES CarriesTurn
CHECK_DEADLOCK FALSE
