---------------------------- MODULE MCPunishment ----------------------------
(***************************************************************************)
(* Instances of Punishment for TLC: a committee of three.                  *)
(***************************************************************************)
EXTENDS Punishment

CONSTANTS m1, m2, m3

Roster == <<m1, m2, m3>>
=============================================================================
