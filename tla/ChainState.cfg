\* Any known block may be finalized: fork choice, the index and finality.
SPECIFICATION Spec
CONSTANTS
    Genesis = g
    NoHash = none
    Hash = {g, b1, b2, b3, b4, b5}
    Difficulties = {1, 2}
    Annulet = FALSE
    MaxHeight = 4
SYMMETRY HashSymmetry
INVARIANTS
    TypeOK
    IndexIsTipBranch
    TipDescendsFromFinalized
    AncestryFollowsParentLinks
PROPERTIES
    FinalizedOnlyGrows
    HeaviestKept
CHECK_DEADLOCK FALSE
