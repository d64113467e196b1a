SPECIFICATION DeviceSpec
CONSTANTS
    None = None
    Calls = {1, 2}
    Asks = {1, 2, 3}
    MaxShares = 1
    MaxFails = 1
    MaxLoads = 1
    Races = {}
    Commands = {1, 2, 3}
    Cameras = {a, b}
    a = a
    b = b
    MaxTroubles = 1
    Device = {1, 2}
    Words = {1, 2}
    MaxKeys = 2
    MaxCodes = 3
    MaxTurns = 4
    Tab = {1, 2}
    Account = {1, 2}
    MaxTokens = 3
    MaxFaults = 2
INVARIANTS
    NothingRunsOn ShownIsSent ButtonIsTrue OpenIsHeard
    RowIsOneKey WrittenCodeOpens DeviceIsItself
PROPERTY EndsOnce
CHECK_DEADLOCK FALSE
