SPECIFICATION CallSpec
CONSTANTS
    None = None
    Conv = {c1, c2}
    Sealed = {c1}
    Mortal = {c2}
    JoinRuns = {1, 2}
    Downs = {1, 2}
    MaxLeaves = 1
    Reports = {1, 2}
    Notify = TRUE
    InOrder = TRUE
    LatePush = FALSE
    Stale = FALSE
    MaxPushes = 1
    MaxTurns = 1
    MaxKills = 1
    MaxReads = 1
    MaxPresses = 3
    MaxSignIns = 2
    MaxEvents = 1
    MaxFaults = 2
INVARIANTS
    CallIsHeld RowIsTrue SwitchIsTrue
    RingsOnce NoGhostRing PressIsCarried
CHECK_DEADLOCK FALSE
