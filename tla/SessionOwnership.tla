--------------------------- MODULE SessionOwnership ---------------------------
(***************************************************************************)
(* What the signaling server promises about sessions, with no tasks, locks *)
(* or queues: a device is owned by at most one session; taking a device    *)
(* always makes a new session, newer than any before; only the owner of a  *)
(* device can be claimed, by one socket, once; a session that has lost its *)
(* device never gets it back.                                              *)
(***************************************************************************)
EXTENDS Naturals

CONSTANTS Devices, Conns, None, MaxSessions

VARIABLES
    taken,   \* how many sessions there have been
    owner,   \* owner[d]: the session that owns device d, or 0
    claim    \* claim[s]: the socket that claimed session s, or None

vars == <<taken, owner, claim>>

Init ==
    /\ taken = 0
    /\ owner = [d \in Devices |-> 0]
    /\ claim = [s \in 1..MaxSessions |-> None]

Take(d) ==
    /\ taken < MaxSessions
    /\ taken' = taken + 1
    /\ owner' = [owner EXCEPT ![d] = taken + 1]
    /\ UNCHANGED claim

Claim(d, c) ==
    /\ owner[d] # 0
    /\ claim[owner[d]] = None
    /\ claim' = [claim EXCEPT ![owner[d]] = c]
    /\ UNCHANGED <<taken, owner>>

Release(d) ==
    /\ owner[d] # 0
    /\ owner' = [owner EXCEPT ![d] = 0]
    /\ UNCHANGED <<taken, claim>>

Next == \E d \in Devices : \/ Take(d)
                           \/ Release(d)
                           \/ \E c \in Conns : Claim(d, c)

Spec == Init /\ [][Next]_vars
=============================================================================
