SPECIFICATION KitSpec
CONSTANTS
    Calls = {c1, c2, c3}
    MaxAsks = 1
    Tasks = {t1, t2, t3}
    Rooms = {r1, r2}
    Locks = {l1, l2, l3, l4, l5}
    None = None
    MaxLocks = 1
    Turns = {u1, u2, u3, u4}
    Deliveries = {d1, d2}
    NoTurn = NoTurn
    InactiveAfter = 1
    ClosedAfter = 1
    Attempts = 3
    MaxClock = 4
    Errands = {"message", "check", "pause", "resume", "reopen", "close", "archive"}
    Delegated = {g1, g2, g3}
    Callers = {a1, a2}
    Closer = Closer
    NoTask = NoTask
    Items = {i1, i2, i3, i4}
    QueueSize = 2
    Retries = 1
    Chunk = 2
    MaxCloses = 1
INVARIANTS KitTypeOK ExclusiveDoor AdmissionOrder CutTellsTruth CancelsSettled OneSection RefsAreUsers OneTurn StartsAsAsked
PROPERTIES DoorDrains TurnsEnd EndsOnce SettlesOnce TimersOnTime
CHECK_DEADLOCK FALSE
