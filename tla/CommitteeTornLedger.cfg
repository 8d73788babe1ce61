\* A ledger file is truncated before it is rewritten; the process may die between.
SPECIFICATION Spec
CONSTANTS
    n1 = n1  n2 = n2
    m1 = m1  m2 = m2  m3 = m3  m4 = m4
    a1 = a1  a2 = a2  b1 = b1  b2 = b2
    NoBlock = none
    Node = {n1, n2}
    Member = {m1, m2, m3, m4}
    Byzantine = {}
    Host <- Hosting
    Block = {a1, a2, b1, b2}
    MaxSlot = 2
    Branch <- EarlyFork
    WriteOutcome = {"written", "truncated"}
INVARIANT NeverEquivocates
