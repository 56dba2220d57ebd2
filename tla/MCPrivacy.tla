------------------------------ MODULE MCPrivacy ------------------------------
(* Privacy for TLC: nothing in it has to be bounded. *)
EXTENDS Privacy
=============================================================================
