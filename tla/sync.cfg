SPECIFICATION SyncSpec
CONSTANTS
    None = None
    Sock = {1, 2}
    MaxNews = 1
    Calls = {1, 2}
    Commands = {1, 2, 3, 4}
    MaxLoads = 1
    Retries = 1
INVARIANTS NothingIsSlept OneSocket CallIsThePages
PROPERTIES Delivered ConnectsAgain TouchesItsOwn FoundOrClosed
CHECK_DEADLOCK FALSE
