\* A member that equivocates; a small tally; restarts.
SPECIFICATION Spec
CONSTANTS
    m1 = m1  m2 = m2  m3 = m3  m4 = m4
    a = a  b = b
    NoBlock = none
    Member = {m1, m2, m3, m4}
    Block = {a, b}
    MaxSlot = 2
    Signed <- OneEquivocates
    Group <- ThreeHosts
    Requestable = TRUE
    TipSlack = 1
    MaxTalliedSlots = 1
    MaxVariants = 1
    JailTerm = 2
    Window = 1
    ThresholdPct = 33
INVARIANTS
    TypeOK
    FinalizedAscends
PROPERTY CountedVotersMayVote
