------------------------------- MODULE MCStack -------------------------------
(* Stack for TLC. TURN starts and stops as signaling does, and is left out. *)
EXTENDS Stack

MCOrder == <<"signaling", "host">>
MCHostOnly == <<"host">>
=============================================================================
