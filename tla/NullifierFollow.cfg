\* A reorganization deeper than the window and one within it; one block of regress, one
\* failed poll and one crash anywhere.
SPECIFICATION FairFollowSpec
CONSTANTS
    a1 = a1  a2 = a2  a3 = a3  b2 = b2  b3 = b3  b4 = b4
    Genesis = g
    Tree <- Fork
    Moves <- NoReturn
    ReorgWindow = 1
    HeadersPage = 2
    MaxFalls = 1
    MaxFailedPolls = 1
    MaxRestarts = 1
INVARIANT FollowsOneBranch
PROPERTY FollowCatchesUp
