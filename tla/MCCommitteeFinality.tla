------------------------- MODULE MCCommitteeFinality -------------------------
(***************************************************************************)
(* Instances of CommitteeFinality for TLC: four members, quorum three.     *)
(***************************************************************************)
EXTENDS CommitteeFinality, TLC

CONSTANTS
    n1, n2, m1, m2, m3, m4,
    a1, a2, b1, b2

\* Two branches that part before the first slot.
EarlyFork == {<<a1, a2>>, <<b1, b2>>}

\* Two branches that part after the first slot.
LateFork == {<<a1, a2>>, <<a1, b2>>}

\* m1 on one node, m2 and m3 on the other; m4 is the Byzantine one, or on n2.
Hosting == [m \in Member |-> IF m = m1 THEN n1 ELSE n2]

\* m2 and m3 are interchangeable.
MemberSymmetry == Permutations({m2, m3})
=============================================================================
