\* Votes follow their headers and the body window is ample; one crash anywhere: the
\* heads agree, the state converges and the pool stays what validation would accept.
SPECIFICATION FairPoolSpec
CONSTANTS
    g = g  a1 = a1  a2 = a2  a3 = a3  a4 = a4  b2 = b2  b3 = b3
    commit1 = commit1  commit2 = commit2  reveal1 = reveal1  reveal2 = reveal2
    renew = renew  pay = pay  repay = repay
    Genesis = g
    NoHash = none
    Hash = {g, a1, a2, a3, a4, b2, b3}
    Difficulties = {1, 3}
    Annulet = FALSE
    MaxHeight = 4
    Tree <- Branches
    Rank <- ByteOrder
    FinalLine = {a1, a2}
    EarlyVotes = FALSE
    PendingHeights = 4
    RewindDepth = 3
    MaxPending = 6
    DiskFails = {}
    MaxFailures = 0
    MaxRestarts = 1
    Tx = {commit1, commit2, reveal1, reveal2, renew, pay, repay}
    Surface <- Surfaces
    Commits = {"c1", "c2"}
    Body <- Bodies
    FeeOrder <- ByFee
    Names = {"n"}
    MaxAnchorAge = 2
    CommitMinAge = 1
    CommitMaxAge = 3
    NameTerm = 1
    NameGrace = 1
    Median = 2
INVARIANTS
    PoolStaysMinable
    TemplateValidates
    StateFinalOnMainChain
    RestartReproducesState
PROPERTIES
    EvictsOnlyDoomed
    NoReorgPastCheckpoint
    Convergence
    FinalityReachesLog
