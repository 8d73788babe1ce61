\* A queue of one, two retained jobs; restarts at any time.
SPECIFICATION FairSpec
CONSTANTS
    p = p  q = q  r = r
    x = x  y = y
    Client = {x, y}
    Bundle = {p, q, r}
    Nullifiers <- Spends
    NoBundle = none
    QueueCapacity = 1
    RetainedMax = 2
    MaxFailures = 1
INVARIANTS
    SubmissionsAreClaimed
    PaidBeforeSubmitted
PROPERTY EveryJobEnds
