---------------------------- MODULE MCBodyFetch -----------------------------
(***************************************************************************)
(* Instances of BodyFetch for TLC.                                         *)
(***************************************************************************)
EXTENDS BodyFetch

CONSTANTS g, a1, a2, b1, c1, honest, faulty

Row(prev, height, work) == [prev |-> prev, height |-> height, work |-> work]

\* b1 outweighs a1, and a2 on a1 outweighs b1: a1 is applied, rewound and needed
\* again.
Contest == [b \in {a1, a2, b1} |->
              CASE b = a1 -> Row(g, 1, 1) [] b = b1 -> Row(g, 1, 2) [] b = a2 -> Row(a1, 2, 3)]

\* Two siblings on c1, of which b1 is the winner.
Siblings == [b \in {c1, a2, b1} |->
              CASE b = c1 -> Row(g, 1, 1) [] b = a2 -> Row(c1, 2, 2) [] b = b1 -> Row(c1, 2, 3)]

PeerTable == <<honest, faulty>>
=============================================================================
