\* Votes and evidence arrive in the epoch of their height.  The applied tip is at most
\* one block behind the header tip, so that no record is in a later epoch than it.
SPECIFICATION Spec
CONSTANTS
    m1 = m1  m2 = m2  m3 = m3
    GenesisRoster <- Roster
    Byzantine = {m1, m3}
    EpochLength = 2
    MaxHeight = 4
    VoteHeight = {1, 3}
    Bond = 100
    InEpochOnly = TRUE
    BodyLag = 1
INVARIANTS
    OnlyEquivocatorsPunished
    RestartReproducesCommittee
PROPERTY TombstonesArePermanent
