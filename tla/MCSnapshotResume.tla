--------------------------- MODULE MCSnapshotResume ---------------------------
(***************************************************************************)
(* An instance of SnapshotResume for TLC: branch a and a branch c that    *)
(* leaves it at a1, outweighs a3 and loses to a4.                          *)
(***************************************************************************)
EXTENDS SnapshotResume

CONSTANTS g, a1, a2, a3, a4, c2, c3

Mined(prev, height, difficulty) == [prev |-> prev, height |-> height, difficulty |-> difficulty]

Contest ==
    [h \in Hash \ {g} |->
        CASE h = a1 -> Mined(g, 1, 1) [] h = a2 -> Mined(a1, 2, 1) [] h = a3 -> Mined(a2, 3, 1)
          [] h = a4 -> Mined(a3, 4, 3) [] h = c2 -> Mined(a1, 2, 3) [] h = c3 -> Mined(c2, 3, 1)]

ByteOrder ==
    [h \in Hash |->
        CASE h = g -> 0 [] h = a1 -> 1 [] h = c2 -> 2 [] h = a2 -> 3 [] h = a3 -> 4 [] h = a4 -> 5
          [] h = c3 -> 6]
=============================================================================
