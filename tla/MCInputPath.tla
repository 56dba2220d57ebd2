----------------------------- MODULE MCInputPath -----------------------------
(* Instances of InputPath for TLC: one key, the paste shortcut's V, and one button. *)
EXTENDS InputPath

CONSTANTS k1, b1
=============================================================================
