SPECIFICATION LiveSpec
CONSTANTS
    first = first
    public = public
    dm = dm
    hub = hub
    t1 = t1
    NoTab = NoTab
    g1 = g1
    g2 = g2
    c1 = c1
    None = None
PROPERTIES ChannelsFlowOn SharedBecomesReadable EndedLeaves
CHECK_DEADLOCK FALSE
