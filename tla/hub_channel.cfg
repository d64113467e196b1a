SPECIFICATION LiveSpec
CONSTANTS
    l1 = l1
    Loop = {l1}
    Sweep = {1}
    FirstPage = 1
    ArchivePage = 1
    EventsPage = 1
    ContextPage = 1
    Races = {}
    MaxPosts = 3
    MaxLog = 1
    MaxTurns = 1
INVARIANTS NothingIsPassedOver PassedIsRemoved
PROPERTY ReadToTheEnd
CHECK_DEADLOCK FALSE
