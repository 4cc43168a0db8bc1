---------------------------- MODULE MCPacemaker ----------------------------
(* Instances of Pacemaker for TLC. *)
EXTENDS Pacemaker, TLC

CONSTANTS c1, c2, c3, c4, c5

Symm == Permutations(Cmds)
=============================================================================
