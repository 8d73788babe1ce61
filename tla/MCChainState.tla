---------------------------- MODULE MCChainState ----------------------------
(***************************************************************************)
(* Instances of ChainState for TLC.                                        *)
(***************************************************************************)
EXTENDS ChainState, FiniteSets, TLC

\* Hashes other than genesis are interchangeable.
HashSymmetry == Permutations(Hash \ {Genesis})
=============================================================================
