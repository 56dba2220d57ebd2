-------------------------------- MODULE Pasting --------------------------------
(***************************************************************************)
(* What the clipboard of a session promises, with no requests, parts,      *)
(* timers or buffers: an operation is begun, for a press that is newer     *)
(* than those before it or for none; it is put on the Host's clipboard,    *)
(* pasted, or both, pictures in their order; and the user is told once how *)
(* it ended.  What he is told is done has been done and is over.  What he  *)
(* is told has failed may still be under way.                              *)
(***************************************************************************)
EXTENDS Naturals, Sequences

CONSTANT MaxOps  \* presses

VARIABLES
    ops,      \* the operations, in the order they were begun, and what is told of them
    written,  \* those that were put on the Host's clipboard
    pasted    \* those that were pasted

vars == <<ops, written, pasted>>

Writing == {"send", "text", "picture"}
Pasted  == {"paste", "text", "picture"}

Init == ops = <<>> /\ written = {} /\ pasted = {}

\* A session that is over fails at once.
Begin(kind, from) ==
    /\ from # 0 => \A o \in DOMAIN ops : ops[o].from < from
    /\ \E told \in {"open", "failed"} :
          ops' = Append(ops, [kind |-> kind, from |-> from, told |-> told])
    /\ UNCHANGED <<written, pasted>>

Over(o) == ops[o].told = "done"

Write(o) ==
    /\ ops[o].kind \in Writing /\ ~Over(o)
    /\ written' = written \cup {o}
    /\ UNCHANGED <<ops, pasted>>

InTurn(o) == \A q \in pasted : ops[q].kind = "picture" => q < o

Paste(o) ==
    /\ ops[o].kind \in Pasted /\ ~Over(o)
    /\ ops[o].kind \in Writing => o \in written
    /\ ops[o].kind = "picture" => InTurn(o)
    /\ pasted' = pasted \cup {o}
    /\ UNCHANGED <<ops, written>>

Did(o) == /\ ops[o].kind \in Writing => o \in written
          /\ ops[o].kind \in Pasted => o \in pasted

\* The end of a session is the end of several.
Tell(os, ok) ==
    /\ \A o \in os : ops[o].told = "open" /\ (ok => Did(o))
    /\ ops' = [o \in DOMAIN ops |->
                 IF o \in os THEN [ops[o] EXCEPT !.told = IF ok THEN "done" ELSE "failed"]
                 ELSE ops[o]]
    /\ UNCHANGED <<written, pasted>>

Next ==
    \/ \E os \in SUBSET DOMAIN ops, ok \in BOOLEAN : Tell(os, ok)
    \/ \E o \in DOMAIN ops : Write(o) \/ Paste(o)
    \/ \E kind \in Writing \cup Pasted \cup {"read"}, from \in 0..MaxOps : Begin(kind, from)

Spec == Init /\ [][Next]_vars
=============================================================================
