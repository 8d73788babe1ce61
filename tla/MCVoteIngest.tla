---------------------------- MODULE MCVoteIngest ----------------------------
(***************************************************************************)
(* Instances of VoteIngest for TLC: four members, quorum three.            *)
(***************************************************************************)
EXTENDS VoteIngest

CONSTANTS m1, m2, m3, m4, a, b

\* m1, m2 and m3 sign a at every slot; m4 signs both a and b.
OneEquivocates ==
    [s \in Slot |-> [x \in Block |-> IF x = a THEN Member ELSE {m4}]]

\* Everyone signs a at every slot.
AllSign == [s \in Slot |-> [x \in Block |-> IF x = a THEN Member ELSE {}]]

\* One message per node that holds keys, and the accumulated sets they relay.
ThreeHosts == {{m1, m2}, {m3}, {m4}, {m1, m2, m3}, Member}
=============================================================================
