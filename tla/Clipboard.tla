------------------------------- MODULE Clipboard -------------------------------
(***************************************************************************)
(* The clipboard of a session: the page (web/src/input.ts, rtc.ts), the    *)
(* ordered data channel, and serve_clipboard on the Host                   *)
(* (host/src/rtc/mod.rs, clipboard.rs, clipboard_image.rs) before the      *)
(* Windows clipboard.                                                      *)
(*                                                                         *)
(* A paste in the page reaches it from up to three sources, one of them a  *)
(* promise that may answer much later; what is delivered becomes an        *)
(* operation.  A picture is sent in parts, Window of them at a time, one   *)
(* picture after the other; a request times out in the page while the Host *)
(* still works on it.  The Host serves one request at a time and collects  *)
(* the parts of a picture in a buffer.                                     *)
(*                                                                         *)
(* Texts are represented by the operation that carries them, pictures by   *)
(* the sequence of their parts; a part is the operation and its position.  *)
(***************************************************************************)
EXTENDS Naturals, Sequences, FiniteSets

CONSTANTS
    MaxOps,   \* operations of the page, and pastes of its user
    MaxFaults,\* requests the Host refuses
    Parts,    \* parts of a picture
    Window,   \* parts on their way at once
    MaxParts, \* what the Host collects of one picture
    None

ASSUME ClipboardBounds ==
    /\ {MaxOps, MaxFaults} \subseteq Nat
    /\ {Parts, Window, MaxParts} \subseteq Nat \ {0}
    /\ Parts <= MaxParts

VARIABLES
    prefer,  \* the next Ctrl+V is the Host's own paste
    attempt, \* #pasteAttempt
    handled, \* #pasteHandled
    reads,   \* attempts whose navigator.clipboard.read has not answered
    open,    \* the session has not been closed in the page
    ops,     \* the operations, in the order they were started
    upload,  \* the picture that is being sent, how far, and whether it failed
    pending, \* #clipboardRequests: requests with a timer
    sent,    \* #clipboardRequestId
    up,      \* requests on their way to the Host
    down,    \* answers on their way to the page
    buffer,  \* image_upload
    work,    \* the request that is being served
    clip,    \* the operation the Windows clipboard is from, 0 for a copy, None: empty
    put,     \* <<operation, parts>> the Host has put there
    pasted,  \* operations whose paste was injected
    faults

page == <<prefer, attempt, handled, reads>>
session == <<open, ops, upload, pending, sent>>
host == <<buffer, work, clip, put, pasted, faults>>
vars == <<page, session, up, down, host>>

Kinds == {"read", "send", "text", "paste", "picture"}
Op == [kind : Kinds, from : 0..MaxOps, state : {"waiting", "sent", "done", "failed"}]
Part == [op : 1..MaxOps, part : 1..Parts]
Request == [id : 1..(MaxOps * Parts), op : 1..MaxOps, part : 0..Parts]
Upload == [op : 1..MaxOps, next : 1..(Parts + 1), broken : BOOLEAN]
Work == [req : Request, step : {"put", "paste", "read", "reply"}, ok : BOOLEAN]

ASSUME NoneAssumption == None \notin Upload \cup Work

TypeOK ==
    /\ {prefer, open} \subseteq BOOLEAN
    /\ attempt \in 0..MaxOps /\ handled \in 0..attempt /\ reads \subseteq 1..attempt
    /\ ops \in Seq(Op) /\ Len(ops) <= MaxOps
    /\ upload \in Upload \cup {None} /\ (upload # None => upload.op \in DOMAIN ops)
    /\ sent \in 0..(MaxOps * Parts)
    /\ pending \subseteq Request /\ \A r \in pending : r.id <= sent
    /\ up \in Seq(Request) /\ down \in Seq([id : 1..sent, ok : BOOLEAN])
    /\ buffer \in Seq(Part) /\ Len(buffer) <= MaxParts
    /\ work \in Work \cup {None}
    /\ clip \in {None, 0} \cup DOMAIN ops
    /\ pasted \subseteq DOMAIN ops
    /\ faults \in 0..MaxFaults

Init ==
    /\ prefer = FALSE /\ attempt = 0 /\ handled = 0 /\ reads = {}
    /\ open = TRUE /\ ops = <<>> /\ upload = None /\ pending = {} /\ sent = 0
    /\ up = <<>> /\ down = <<>>
    /\ buffer = <<>> /\ work = None /\ clip = None /\ put = {} /\ pasted = {}
    /\ faults = 0

-----------------------------------------------------------------------------
(* Requests of the page *)

Requests(o, parts) == {[id |-> sent + i, op |-> o, part |-> parts[i]] : i \in DOMAIN parts}

\* #clipboardRequest for each of these parts, on an open channel
Send(o, parts) ==
    /\ pending' = pending \cup Requests(o, parts)
    /\ up' = up \o [i \in DOMAIN parts |-> [id |-> sent + i, op |-> o, part |-> parts[i]]]
    /\ sent' = sent + Len(parts)

\* An operation starts: a picture queues, anything else is sent at once.
Start(kind, from) ==
    LET add(state) == ops' = Append(ops, [kind |-> kind, from |-> from, state |-> state])
    IN /\ Len(ops) < MaxOps
       /\ \/ kind = "picture" /\ add("waiting") /\ UNCHANGED <<pending, up, sent>>
          \/ kind # "picture" /\ open /\ add("sent") /\ Send(Len(ops) + 1, <<0>>)
          \/ kind # "picture" /\ ~open /\ add("failed") /\ UNCHANGED <<pending, up, sent>>
       /\ UNCHANGED <<open, upload, down, host>>

-----------------------------------------------------------------------------
(* The user at the page *)

\* A mutant: what a press has delivered already is not remembered.
DeliverAgain(n, kind) ==
    /\ handled' = IF handled < n THEN n ELSE handled
    /\ Start(kind, n)

\* #deliverBrowserPaste, #deliverBrowserImage
Deliver(n, kind) ==
    /\ handled' = IF handled < n THEN n ELSE handled
    /\ IF handled >= n THEN UNCHANGED <<session, up, down, host>> ELSE Start(kind, n)

\* Ctrl+V after a copy in the session: the Host pastes its own clipboard.
PressForHost ==
    /\ prefer /\ prefer' = FALSE
    /\ Start("paste", 0)
    /\ UNCHANGED <<attempt, handled, reads>>

\* Ctrl+V: the clipboard is asked for, and the paste event may bring it at once.
PressForBrowser ==
    /\ ~prefer /\ attempt < MaxOps
    /\ attempt' = attempt + 1 /\ reads' = reads \cup {attempt'}
    /\ \/ \E kind \in {"text", "picture"} : Deliver(attempt', kind)
       \/ UNCHANGED <<handled, session, up, down, host>>
    /\ UNCHANGED prefer

\* A paste event without the keys
PasteEvent(kind) ==
    /\ attempt < MaxOps /\ attempt' = attempt + 1
    /\ Deliver(attempt', kind)
    /\ UNCHANGED <<prefer, reads>>

ReadAnswers(n, kind) ==
    /\ n \in reads /\ reads' = reads \ {n}
    /\ Deliver(n, kind)
    /\ UNCHANGED <<prefer, attempt>>

ReadFails(n) ==
    /\ n \in reads /\ reads' = reads \ {n}
    /\ UNCHANGED <<prefer, attempt, handled, session, up, down, host>>

\* Ctrl+C in the session; the application on the Host copies.
Copy ==
    /\ open /\ ~(prefer /\ clip = 0)
    /\ prefer' = TRUE /\ clip' = 0
    /\ UNCHANGED <<attempt, handled, reads, session, up, down, buffer, work, put, pasted, faults>>

\* The page loses the focus.
Blur ==
    /\ prefer /\ prefer' = FALSE
    /\ UNCHANGED <<attempt, handled, reads, session, up, down, host>>

Toolbar(kind) ==
    /\ Start(kind, 0)
    /\ UNCHANGED page

User ==
    \/ PressForHost \/ PressForBrowser \/ Copy \/ Blur
    \/ \E kind \in {"text", "picture"} : PasteEvent(kind)
    \/ \E n \in reads : ReadFails(n) \/ \E kind \in {"text", "picture"} : ReadAnswers(n, kind)
    \/ \E kind \in {"read", "send", "text"} : Toolbar(kind)

-----------------------------------------------------------------------------
(* Uploads *)

Waiting == {o \in DOMAIN ops : ops[o].state = "waiting"}
EndOp(o, ok) == ops' = [ops EXCEPT ![o].state = IF ok THEN "done" ELSE "failed"]

\* A mutant: pictures are not sent in the order they were pasted.
AnyWaiting(o) == o \in Waiting

\* #imageWriteQueue
NextWaiting(o) == o \in Waiting /\ \A q \in Waiting : o <= q

\* A picture may be too large, or not be converted.
StartUpload(o) ==
    /\ upload = None /\ NextWaiting(o)
    /\ \/ /\ upload' = [op |-> o, next |-> 1, broken |-> FALSE]
          /\ ops' = [ops EXCEPT ![o].state = "sent"]
       \/ EndOp(o, FALSE) /\ UNCHANGED upload
    /\ UNCHANGED <<page, open, pending, sent, up, down, host>>

WindowDone == upload # None /\ \A r \in pending : r.op # upload.op

WindowLength(next) == IF Parts + 1 - next < Window THEN Parts + 1 - next ELSE Window

SendWindow ==
    /\ WindowDone /\ ~upload.broken /\ upload.next <= Parts
    /\ LET n == WindowLength(upload.next)
       IN IF open
          THEN /\ Send(upload.op, [i \in 1..n |-> upload.next + i - 1])
               /\ upload' = [upload EXCEPT !.next = @ + n]
          ELSE upload' = [upload EXCEPT !.broken = TRUE] /\ UNCHANGED <<pending, up, sent>>
    /\ UNCHANGED <<page, open, ops, down, host>>

\* A mutant: the answers of a window are waited for and not looked at.
AnsweredUpload == upload.next > Parts

Uploaded == ~upload.broken

EndUpload ==
    /\ WindowDone /\ (upload.broken \/ upload.next > Parts)
    /\ EndOp(upload.op, Uploaded) /\ upload' = None
    /\ UNCHANGED <<page, open, pending, sent, up, down, host>>

-----------------------------------------------------------------------------
(* How requests end in the page *)

\* These requests are answered, or rejected.
Settle(rs, ok) ==
    /\ pending' = pending \ rs
    /\ upload' = IF ~ok /\ upload # None /\ \E r \in rs : r.op = upload.op
                 THEN [upload EXCEPT !.broken = TRUE] ELSE upload
    /\ ops' = [o \in DOMAIN ops |->
                 IF ops[o].kind # "picture" /\ \E r \in rs : r.op = o
                 THEN [ops[o] EXCEPT !.state = IF ok THEN "done" ELSE "failed"] ELSE ops[o]]

\* #onClipboardMessage: an answer that comes too late is dropped.
OnAnswer ==
    /\ down # <<>>
    /\ down' = Tail(down)
    /\ Settle({r \in pending : r.id = Head(down).id}, Head(down).ok)
    /\ UNCHANGED <<page, open, sent, up, host>>

\* Timers run as long as each other: the oldest request is the first.
TimeOut ==
    /\ \E r \in pending : /\ \A q \in pending : r.id <= q.id
                          /\ Settle({r}, FALSE)
    /\ UNCHANGED <<page, open, sent, up, down, host>>

\* A mutant: the timers stop and the promises are left alone.
Forgotten(rs) == pending' = {} /\ UNCHANGED <<upload, ops>>

Rejected(rs) == Settle(rs, FALSE)

\* close
Close ==
    /\ open /\ open' = FALSE
    /\ Rejected(pending)
    /\ UNCHANGED <<page, sent, up, down, host>>

-----------------------------------------------------------------------------
(* serve_clipboard *)

Works(r, step, ok) == work' = [req |-> r, step |-> step, ok |-> ok]
Replies(ok) == work' = [work EXCEPT !.step = "reply", !.ok = ok]

\* A mutant: the parts that came before a refused one are kept.
KeptBuffer(r) == buffer

\* What is left of the buffer when a part is refused
RefusedBuffer(r) == <<>>

Collected(r) == Append(IF r.part = 1 THEN <<>> ELSE buffer, [op |-> r.op, part |-> r.part])

\* A part is refused when it is malformed or the picture has become too large.
TakePart(r, good) ==
    IF good /\ Len(Collected(r)) <= MaxParts
    THEN IF r.part = Parts
         THEN buffer' = Collected(r) /\ Works(r, "put", TRUE)
         ELSE buffer' = Collected(r) /\ Works(r, "reply", TRUE)
    ELSE buffer' = RefusedBuffer(r) /\ Works(r, "reply", FALSE)

StepOf(kind) == CASE kind = "read" -> "read" [] kind = "paste" -> "paste" [] OTHER -> "put"

Take(good) ==
    /\ work = None /\ up # <<>>
    /\ up' = Tail(up)
    /\ faults' = IF good THEN faults ELSE faults + 1
    /\ faults' <= MaxFaults
    /\ LET r == Head(up)
       IN IF r.part > 0 THEN TakePart(r, good)
          ELSE /\ IF good THEN Works(r, StepOf(ops[r.op].kind), TRUE) ELSE Works(r, "reply", FALSE)
               /\ UNCHANGED buffer
    /\ UNCHANGED <<page, session, down, clip, put, pasted>>

\* The decoder is credited with the signature only.
Decodes(parts) == parts # <<>> /\ Head(parts).part = 1

FailToPut == Replies(FALSE)

\* The clipboard may be busy, or refuse the data when it has been emptied already.
NotPut == clip' \in {clip, None} /\ FailToPut /\ UNCHANGED put

IsPut(parts) == clip' = work.req.op /\ put' = put \cup {<<work.req.op, parts>>}

\* write_png; the paste flag is always set for pictures
PutPicture ==
    /\ work # None /\ work.step = "put" /\ work.req.part > 0
    /\ buffer' = <<>>
    /\ \/ Decodes(buffer) /\ IsPut(buffer) /\ Works(work.req, "paste", TRUE)
       \/ NotPut
    /\ UNCHANGED <<page, session, up, down, pasted, faults>>

\* write_text
PutText ==
    /\ work # None /\ work.step = "put" /\ work.req.part = 0
    /\ \/ IsPut(<<>>) /\ IF ops[work.req.op].kind = "send" THEN Replies(TRUE)
                                                          ELSE Works(work.req, "paste", TRUE)
       \/ NotPut
    /\ UNCHANGED <<page, session, up, down, buffer, pasted, faults>>

\* paste_text, paste_clipboard; for the Host's own paste the clipboard is read
\* first, which may fail as well.
Paste(ok) ==
    /\ work # None /\ work.step = "paste"
    /\ pasted' = IF ok THEN pasted \cup {work.req.op} ELSE pasted
    /\ Replies(ok)
    /\ UNCHANGED <<page, session, up, down, buffer, clip, put, faults>>

Read(ok) ==
    /\ work # None /\ work.step = "read"
    /\ Replies(ok)
    /\ UNCHANGED <<page, session, up, down, buffer, clip, put, pasted, faults>>

\* An answer that cannot be sent ends the service; it may be sent for a while to
\* a page that has closed the session.
Reply ==
    /\ work # None /\ work.step = "reply"
    /\ work' = None
    /\ IF open THEN down' = Append(down, [id |-> work.req.id, ok |-> work.ok]) /\ UNCHANGED up
               ELSE up' \in {up, <<>>} /\ UNCHANGED down
    /\ UNCHANGED <<page, session, buffer, clip, put, pasted, faults>>

\* OnClose is polled.
EndService ==
    /\ ~open /\ work = None /\ up # <<>>
    /\ up' = <<>>
    /\ UNCHANGED <<page, session, down, host>>

-----------------------------------------------------------------------------
Page == \/ \E o \in Waiting : StartUpload(o)
        \/ SendWindow \/ EndUpload \/ OnAnswer

Host == \/ \E ok \in BOOLEAN : Take(ok) \/ Paste(ok) \/ Read(ok)
        \/ PutPicture \/ PutText \/ Reply \/ EndService

Next == User \/ Page \/ TimeOut \/ Close \/ Host

Spec == Init /\ [][Next]_vars

\* The page runs its tasks and timers; of the Host nothing is asked.
FairSpec == Spec /\ WF_vars(Page \/ TimeOut)

-----------------------------------------------------------------------------
(* Properties *)

Whole(o) == [i \in 1..Parts |-> [op |-> o, part |-> i]]

\* Whatever was refused, timed out or given up before: a picture on the Host's
\* clipboard is the picture that was pasted, from its first part to its last.
WholePictures == \A p \in put : p[2] = (IF ops[p[1]].kind = "picture" THEN Whole(p[1]) ELSE <<>>)

\* What the page reports as done was put on the clipboard and, when it was to
\* be, pasted.
ReportedIsDone ==
    \A o \in DOMAIN ops : ops[o].state = "done" =>
        /\ ops[o].kind \in {"text", "paste", "picture"} => o \in pasted
        /\ ops[o].kind \in {"text", "send", "picture"} => \E p \in put : p[1] = o

\* Nothing is pasted in place of what could not be put on the clipboard.
PasteFollowsWrite ==
    \A o \in pasted : ops[o].kind \in {"text", "picture"} => \E p \in put : p[1] = o

\* What there is on the clipboard and was pasted is what the user pasted.
ClipboardInv == TypeOK /\ WholePictures /\ PasteFollowsWrite

\* The event, the editable field and a read that answers late make one paste of
\* one press.
OncePerPress ==
    \A o, q \in DOMAIN ops : o # q /\ ops[o].from # 0 => ops[o].from # ops[q].from

\* Pictures are pasted in the order in which the user pasted them.
PicturesInOrder ==
    [][\A o \in pasted' \ pasted, q \in pasted :
         ops[o].kind = "picture" /\ ops[q].kind = "picture" => q < o]_vars

\* What the user is told of an operation, and what reached the Host's clipboard
Told == [o \in DOMAIN ops |->
           [kind |-> ops[o].kind, from |-> ops[o].from,
            told |-> IF ops[o].state \in {"waiting", "sent"} THEN "open" ELSE ops[o].state]]

Written == {p[1] : p \in put}

Promise == INSTANCE Pasting WITH ops <- Told, written <- Written

\* Through all its requests, parts, answers and time-outs, the clipboard does what
\* Pasting promises: one operation of one press, pictures in order, and an end that
\* is told once and is true.
ImplementsPasting == Promise!Spec

\* Every operation ends for the user, also when the session is closed under it or
\* the Host never answers: a picture that fails does not hold the next one back.
OperationsEnd == []<>(\A o \in DOMAIN ops : ops[o].state \in {"done", "failed"})
=============================================================================
