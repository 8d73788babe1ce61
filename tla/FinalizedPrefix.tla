-------------------------- MODULE FinalizedPrefix --------------------------
(***************************************************************************)
(* What a ledger with a finality gadget promises its users, and nothing    *)
(* else: there is one list of final blocks, it starts with genesis, and it *)
(* only ever grows at its end.  A block that was once in the list keeps    *)
(* its place for ever.                                                     *)
(*                                                                         *)
(* Shown to implement it: the finalized head of fork choice (ChainState),  *)
(* alone and in a joining node (CheckpointSync), and the durable head of   *)
(* the state machine (NodeHeads, SnapshotResume).                          *)
(***************************************************************************)
EXTENDS Naturals, Sequences

CONSTANTS
    Hash,     \* the block identities
    Genesis   \* the block every chain starts with

VARIABLE
    final     \* the final blocks, genesis first

\* Before anything is finalized, only genesis is final.
Init == final = <<Genesis>>

\* A finalization puts blocks after the final ones and keeps those.
Extend ==
    /\ final' \in Seq(Hash)
    /\ Len(final) <= Len(final')
    /\ SubSeq(final', 1, Len(final)) = final

Spec == Init /\ [][Extend]_final
=============================================================================
