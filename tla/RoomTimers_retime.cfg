SPECIFICATION TimersSpec
CONSTANTS
    InactiveAfter = 1
    ClosedAfter = 1
    Attempts = 3
    MaxClock = 3
    Errands = {"message", "check", "retime"}
PROPERTIES IdleClockKept
CHECK_DEADLOCK FALSE
