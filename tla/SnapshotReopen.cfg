\* A clean life of the node: no torn write, one restart.
SPECIFICATION ResumeSpec
CONSTANTS
    g = g  a1 = a1  a2 = a2  a3 = a3  a4 = a4  c2 = c2  c3 = c3
    Genesis = g
    NoHash = none
    Hash = {g, a1, a2, a3, a4, c2}
    Difficulties = {1, 3}
    Annulet = FALSE
    MaxHeight = 4
    Tree <- Contest
    Rank <- ByteOrder
    FinalLine = {a1, a2}
    EarlyVotes = FALSE
    PendingHeights = 2
    RewindDepth = 2
    MaxPending = 2
    DiskFails = {}
    MaxFailures = 0
    MaxRestarts = 1
    MaxTorn = 0
INVARIANT OpensAgain
