--------------------------- MODULE MCNullifierFollow ---------------------------
(***************************************************************************)
(* An instance of NullifierFollow for TLC: branch b leaves a at a1 and     *)
(* spends one of a's two nullifiers at another height.                     *)
(***************************************************************************)
EXTENDS NullifierFollow

CONSTANTS a1, a2, a3, b2, b3, b4

Mined(height, prev, nullifiers) == [height |-> height, prev |-> prev, nullifiers |-> nullifiers]

Fork ==
    [b \in {a1, a2, a3, b2, b3, b4} |->
        CASE b = a1 -> Mined(1, Genesis, {}) [] b = a2 -> Mined(2, a1, {"n"})
          [] b = a3 -> Mined(3, a2, {"m"}) [] b = b2 -> Mined(2, a1, {})
          [] b = b3 -> Mined(3, b2, {"n"}) [] b = b4 -> Mined(4, b3, {})]

\* The chain may skip blocks and leave branch a for branch b, and does not come back.
NoReturn ==
    {a1, a2, a3} \X {b3, b4} \cup {Genesis} \X (Block \ {b2})
    \cup {a1, a2, a3} \X {a2, a3} \cup {b2, b3, b4} \X {b3, b4}

\* The chain may come back to a branch it left (README, section 3).
AnyLonger == (Block \cup {Genesis}) \X Block
=============================================================================
