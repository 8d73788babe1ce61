------------------------------ MODULE MCMempool ------------------------------
(***************************************************************************)
(* An instance of Mempool for TLC: two branches after a1, of which only b  *)
(* carries the second commit; two rival reveals of one name, a renewal and *)
(* two payments that spend one note.                                       *)
(***************************************************************************)
EXTENDS Mempool

CONSTANTS g, a1, a2, a3, a4, b2, b3

Mined(prev, height, difficulty) == [prev |-> prev, height |-> height, difficulty |-> difficulty]

Branches ==
    [h \in Hash \ {g} |->
        CASE h = a1 -> Mined(g, 1, 1) [] h = a2 -> Mined(a1, 2, 1) [] h = a3 -> Mined(a2, 3, 3)
          [] h = a4 -> Mined(a3, 4, 1) [] h = b2 -> Mined(a1, 2, 1) [] h = b3 -> Mined(b2, 3, 1)]

ByteOrder ==
    [h \in Hash |->
        CASE h = g -> 0 [] h = a1 -> 1 [] h = b2 -> 2 [] h = a2 -> 3 [] h = a3 -> 4 [] h = a4 -> 5
          [] h = b3 -> 6]

CONSTANTS commit1, commit2, reveal1, reveal2, renew, pay, repay

NoOp == [kind |-> "none", name |-> "n", commit |-> "c1"]
Op(kind, commit) == [kind |-> kind, name |-> "n", commit |-> commit]

Spends(nf, anchor, op) == [nullifiers |-> {nf}, anchor |-> anchor, weight |-> 1, op |-> op]

Surfaces ==
    [t \in Tx |->
        CASE t = commit1 -> Spends(1, g, Op("commit", "c1"))
          [] t = commit2 -> Spends(2, g, Op("commit", "c2"))
          [] t = reveal1 -> Spends(3, a1, Op("reveal", "c1"))
          [] t = reveal2 -> Spends(4, a1, Op("reveal", "c2"))
          [] t = renew   -> Spends(5, a2, Op("renew", "c1"))
          [] t = pay     -> Spends(6, a1, NoOp)
          [] t = repay   -> Spends(6, g, NoOp)]

Bodies ==
    [h \in Hash |->
        CASE h = a1 -> <<commit1>> [] h = a2 -> <<pay>> [] h = a3 -> <<reveal1>>
          [] h = b2 -> <<commit2>> [] h = b3 -> <<repay>> [] OTHER -> <<>>]

ByFee == <<reveal1, reveal2, renew, commit1, commit2, pay, repay>>
====
