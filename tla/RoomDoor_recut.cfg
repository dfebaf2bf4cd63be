SPECIFICATION DoorSpec
CONSTANTS
    Calls = {c1, c2}
    MaxAsks = 0
INVARIANTS NeverCancelledUnasked
CHECK_DEADLOCK FALSE
