----------------------------- MODULE MCSignaling -----------------------------
(* Instances of Signaling for TLC: one account with two browser sockets,   *)
(* one device whose Host reconnects, two HTTP requests in flight.          *)
EXTENDS Signaling, TLC

CONSTANTS u, d, b1, b2, h1, h2, r1, r2

MCSubject == [c \in Conns |-> IF c \in {b1, b2} THEN u ELSE d]

Symmetry == Permutations({r1, r2}) \cup Permutations({b1, b2})
                \cup Permutations({h1, h2})
=============================================================================
