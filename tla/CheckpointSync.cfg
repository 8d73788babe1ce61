\* One honest peer, one that sends anything and claims the most, one lost connection.
SPECIFICATION FairJoinSpec
CONSTANTS
    g = g  a1 = a1  a2 = a2  a3 = a3  c1 = c1  f1 = f1  f2 = f2  t2 = t2
    honest = honest  faulty = faulty
    Genesis = g
    NoHash = none
    Hash = {g, a1, a2, a3, c1, f1, f2, t2}
    Difficulties = {1, 2}
    Annulet = FALSE
    MaxHeight = 3
    Tree <- Headers
    Peers = {honest, faulty}
    NoPeer = nobody
    Serves <- HonestChain
    Claim <- Claims
    Attested = {a1, a2}
    TallySlack = 1
    BatchMax = 2
    SpanMax = 2
    StallMax = 2
    MaxDrops = 1
INVARIANT NoForgedHeader
PROPERTIES
    AdmissionCompletes
    Joins
