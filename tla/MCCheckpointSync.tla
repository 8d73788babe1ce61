-------------------------- MODULE MCCheckpointSync --------------------------
(***************************************************************************)
(* An instance of CheckpointSync for TLC: the honest branch a; a valid     *)
(* block c1 that outweighs a1 and loses to a3; forged headers f1 and f2;   *)
(* and a header t2 on a1 whose time goes back.                             *)
(***************************************************************************)
EXTENDS CheckpointSync

CONSTANTS g, a1, a2, a3, c1, f1, f2, t2, honest, faulty

Mined(prev, height, difficulty) ==
    [prev |-> prev, height |-> height, difficulty |-> difficulty, time |-> height, valid |-> TRUE]
Forged(prev, height, time) == [Mined(prev, height, 1) EXCEPT !.time = time, !.valid = FALSE]

Headers ==
    [h \in Hash \ {g} |->
        CASE h = a1 -> Mined(g, 1, 1) [] h = a2 -> Mined(a1, 2, 1) [] h = a3 -> Mined(a2, 3, 1)
          [] h = c1 -> Mined(g, 1, 2)
          [] h = f1 -> Forged(g, 1, 1) [] h = f2 -> Forged(f1, 2, 2) [] h = t2 -> Forged(a1, 2, 0)]

HonestChain == [p \in {honest} |-> <<g, a1, a2, a3>>]
Claims == [p \in Peers |-> IF p = honest THEN 3 ELSE 9]
=============================================================================
