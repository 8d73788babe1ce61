\* One honest peer and one that declines, stays silent or sends bad bodies.
SPECIFICATION AnnouncedBodySpec
CONSTANTS
    g = g  a1 = a1  a2 = a2  b1 = b1  c1 = c1
    honest = honest  faulty = faulty
    Genesis = g
    Tree <- Contest
    PeerSeq <- PeerTable
    Honest = {honest}
    NoPeer = nobody
    Refusable = {b1}
    Throttled = {faulty}
    Timeout = 2
    MaxInFlight = 1
    MaxInFlightCatchup = 2
    CatchupLag = 1
    PendingMax = 2
    PendingHeights = 1
    RewindDepth = 2
    ServedMax = 1
    RRCycle = 2
INVARIANT BodyTypeOK
PROPERTIES
    RewindsApply
    PacedRetries
    FetchCompletes
