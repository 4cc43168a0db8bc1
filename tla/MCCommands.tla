----------------------------- MODULE MCCommands -----------------------------
(* Instances of Commands for TLC. *)
EXTENDS Commands, TLC

CONSTANTS r1, r2, r3, r4
=============================================================================
