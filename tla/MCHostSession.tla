---------------------------- MODULE MCHostSession ----------------------------
(* Instances of HostSession for TLC: a session and the one replacing it, and *)
(* the sizes a session's video may get (VideoSize).                          *)
EXTENDS HostVideo, TLC

CONSTANTS s1, s2

Symmetry == Permutations({s1, s2})
=============================================================================
