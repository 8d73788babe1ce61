\* Votes may come before their headers and one body is held at a time; snapshots on any
\* branch, one of them torn; one restart anywhere.
SPECIFICATION ResumeSpec
CONSTANTS
    g = g  a1 = a1  a2 = a2  a3 = a3  a4 = a4  c2 = c2  c3 = c3
    Genesis = g
    NoHash = none
    Hash = {g, a1, a2, a3, c2, c3}
    Difficulties = {1, 3}
    Annulet = FALSE
    MaxHeight = 3
    Tree <- Contest
    Rank <- ByteOrder
    FinalLine = {a2}
    EarlyVotes = TRUE
    PendingHeights = 1
    RewindDepth = 2
    MaxPending = 1
    DiskFails = {}
    MaxFailures = 0
    MaxRestarts = 1
    MaxTorn = 1
INVARIANTS
    StateOfItsChain
    StateFinalityFollows
PROPERTIES
    ResumeKeepsFinality
    ResumeReachesReplay
    RewindsOnlyLosers
