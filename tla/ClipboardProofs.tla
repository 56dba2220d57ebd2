---------------------------- MODULE ClipboardProofs ----------------------------
(* Clipboard for any number of operations, parts and faults: what is pasted is *)
(* what the user pasted, in order and once, and what the page reports.         *)
EXTENDS Clipboard, FiniteSetTheorems, SequenceTheorems, TLAPS

USE ClipboardBounds DEF ClipboardBounds

-----------------------------------------------------------------------------
(* Types *)

Answer == [id : 1..(MaxOps * Parts), ok : BOOLEAN]

PageType   == /\ prefer \in BOOLEAN /\ open \in BOOLEAN
              /\ attempt \in 0..MaxOps /\ handled \in 0..attempt /\ reads \subseteq 1..attempt
OpsType    == ops \in Seq(Op) /\ Len(ops) <= MaxOps
UploadType == upload \in Upload \cup {None} /\ (upload # None => upload.op \in DOMAIN ops)
WireType   == /\ sent \in Nat /\ pending \subseteq Request
              /\ up \in Seq(Request) /\ down \in Seq(Answer)
HostType   == /\ buffer \in Seq(Part) /\ Len(buffer) <= MaxParts
              /\ work \in Work \cup {None} /\ clip \in {None, 0} \cup DOMAIN ops
              /\ pasted \subseteq DOMAIN ops /\ \A p \in put : p[1] \in DOMAIN ops
              /\ faults \in 0..MaxFaults

Types == PageType /\ OpsType /\ UploadType /\ WireType /\ HostType

\* A picture that waits or is being sent has room for all its requests.
PartsOf(n) == n * Parts
Rest == IF upload = None THEN 0 ELSE Parts + 1 - upload.next
RoomInv == sent + (PartsOf(Cardinality(Waiting)) + Rest) <= PartsOf(Len(ops))

LEMMA TypesInit == Init => Types /\ RoomInv
  <1> SUFFICES ASSUME Init PROVE Types /\ RoomInv
    OBVIOUS
  <1>1. Types
    <2>1. prefer \in BOOLEAN /\ open \in BOOLEAN
      BY DEF Init
    <2>2. attempt \in 0..MaxOps /\ handled \in 0..attempt /\ reads \subseteq 1..attempt
      BY DEF Init
    <2>3. OpsType /\ UploadType
      BY EmptySeq DEF Init, OpsType, UploadType
    <2>4. WireType
      BY EmptySeq DEF Init, WireType
    <2>5. HostType
      BY EmptySeq DEF Init, HostType
    <2>. QED  BY <2>1, <2>2, <2>3, <2>4, <2>5 DEF Types, PageType
  <1>2. Waiting = {} /\ Len(ops) = 0
    BY DEF Init, Waiting
  <1>3. Cardinality(Waiting) = 0
    BY <1>2, FS_EmptySet
  <1>. QED  BY <1>1, <1>2, <1>3 DEF Init, RoomInv, Rest, PartsOf

\* The user starts an operation, from the toolbar or for a press that has brought
\* nothing yet.
Starts(kind, from) ==
    /\ kind \in Kinds /\ from \in 0..MaxOps
    /\ Start(kind, from)
    /\ \/ from = 0 /\ handled' = handled
       \/ handled < from /\ handled' = from

\* The page's steps that are about the keyboard only.
Presses == UNCHANGED <<session, up, down, buffer, work, put, pasted, faults>>

LEMMA UserSteps ==
    ASSUME Types, User
    PROVE  \/ Presses /\ handled' \in {handled} \cup 1..attempt' /\ handled <= handled'
           \/ \E kind \in Kinds, from \in 0..MaxOps : Starts(kind, from)
  <1>1. ASSUME NEW n \in 1..MaxOps, NEW kind \in {"text", "picture"}, Deliver(n, kind)
        PROVE  \/ Presses /\ handled' = handled
               \/ \E k \in Kinds, from \in 0..MaxOps : Starts(k, from)
    <2>1. kind \in Kinds
      BY DEF Kinds
    <2>2. CASE handled >= n
      BY <1>1, <2>2 DEF Deliver, Presses, host, Types, PageType
    <2>3. CASE ~(handled >= n)
      <3>1. Start(kind, n) /\ handled' = n /\ handled < n
        BY <1>1, <2>3 DEF Deliver, Types, PageType
      <3>2. Starts(kind, n)
        BY <2>1, <3>1 DEF Starts
      <3>. QED  BY <2>1, <3>2
    <2>. QED  BY <2>2, <2>3
  <1>2. CASE PressForHost
    <2>1. Starts("paste", 0)
      BY <1>2 DEF PressForHost, Starts, Kinds
    <2>. QED  BY <2>1 DEF Kinds
  <1>3. CASE PressForBrowser
    <2>1. attempt' \in 1..MaxOps /\ attempt' = attempt + 1
      BY <1>3 DEF PressForBrowser, Types, PageType
    <2>2. CASE \E kind \in {"text", "picture"} : Deliver(attempt', kind)
      BY <1>1, <2>1, <2>2 DEF Types, PageType
    <2>3. CASE UNCHANGED <<handled, session, up, down, host>>
      BY <2>1, <2>3 DEF Presses, host, Types, PageType
    <2>. QED  BY <1>3, <2>2, <2>3 DEF PressForBrowser
  <1>4. ASSUME NEW kind \in {"text", "picture"}, PasteEvent(kind)
        PROVE  \/ Presses /\ handled' = handled
               \/ \E k \in Kinds, from \in 0..MaxOps : Starts(k, from)
    <2>1. attempt' \in 1..MaxOps /\ Deliver(attempt', kind)
      BY <1>4 DEF PasteEvent, Types, PageType
    <2>. QED  BY <1>1, <2>1
  <1>5. ASSUME NEW n \in reads, NEW kind \in {"text", "picture"}, ReadAnswers(n, kind)
        PROVE  \/ Presses /\ handled' = handled
               \/ \E k \in Kinds, from \in 0..MaxOps : Starts(k, from)
    <2>1. n \in 1..MaxOps /\ Deliver(n, kind)
      BY <1>5 DEF ReadAnswers, Types, PageType
    <2>. QED  BY <1>1, <2>1
  <1>6. ASSUME NEW kind \in {"read", "send", "text"}, Toolbar(kind)
        PROVE  Starts(kind, 0)
    BY <1>6 DEF Toolbar, page, Starts, Kinds
  <1>7. CASE Copy \/ Blur \/ \E n \in reads : ReadFails(n)
    BY <1>7 DEF Copy, Blur, ReadFails, Presses, host, Types, PageType
  <1>8. \A kind \in {"read", "send", "text"} : kind \in Kinds
    BY DEF Kinds
  <1>9. handled <= handled
    BY DEF Types, PageType
  <1>. QED  BY <1>2, <1>3, <1>4, <1>5, <1>6, <1>7, <1>8, <1>9 DEF User

\* What is known of an operation that has just started.
LEMMA StartEffect ==
    ASSUME Types, NEW kind \in Kinds, NEW from \in 0..MaxOps, Start(kind, from)
    PROVE  \E e \in Op :
              /\ e.kind = kind /\ e.from = from
              /\ ops' = Append(ops, e) /\ Len(ops) < MaxOps
              /\ \/ kind = "picture" /\ e.state = "waiting" /\ UNCHANGED <<pending, up, sent>>
                 \/ /\ kind # "picture" /\ e.state = "sent" /\ open
                    /\ Send(Len(ops) + 1, <<0>>)
                 \/ kind # "picture" /\ e.state = "failed" /\ UNCHANGED <<pending, up, sent>>
              /\ UNCHANGED <<open, upload, down, host>>
  <1> DEFINE E(state) == [kind |-> kind, from |-> from, state |-> state]
  <1>1. \A state \in {"waiting", "sent", "failed"} :
           E(state) \in Op /\ E(state).state = state
    BY DEF Op
  <1>2. \A state : E(state).kind = kind /\ E(state).from = from
    OBVIOUS
  <1>3. CASE kind = "picture" /\ ops' = Append(ops, E("waiting"))
             /\ UNCHANGED <<pending, up, sent>>
    BY <1>1, <1>2, <1>3 DEF Start
  <1>4. CASE kind # "picture" /\ open /\ ops' = Append(ops, E("sent"))
             /\ Send(Len(ops) + 1, <<0>>)
    BY <1>1, <1>2, <1>4 DEF Start
  <1>5. CASE kind # "picture" /\ ops' = Append(ops, E("failed"))
             /\ UNCHANGED <<pending, up, sent>>
    BY <1>1, <1>2, <1>5 DEF Start
  <1>. QED  BY <1>3, <1>4, <1>5 DEF Start

\* An operation keeps what it is.
SameOps ==
    /\ Len(ops') >= Len(ops)
    /\ \A o \in DOMAIN ops : /\ o \in DOMAIN ops'
                             /\ ops'[o].kind = ops[o].kind /\ ops'[o].from = ops[o].from

LEMMA AppendOps ==
    ASSUME Types, NEW e \in Op, ops' = Append(ops, e), Len(ops) < MaxOps
    PROVE  /\ OpsType' /\ SameOps /\ Len(ops') = Len(ops) + 1
           /\ DOMAIN ops = 1..Len(ops) /\ DOMAIN ops' = 1..(Len(ops) + 1)
           /\ ops'[Len(ops) + 1] = e
           /\ \A o \in DOMAIN ops : ops'[o] = ops[o]
  <1>1. ops \in Seq(Op) /\ DOMAIN ops = 1..Len(ops) /\ Len(ops) \in Nat
    BY LenProperties DEF Types, OpsType
  <1>2. /\ ops' \in Seq(Op) /\ Len(ops') = Len(ops) + 1
        /\ \A o \in 1..Len(ops) : ops'[o] = ops[o]
        /\ ops'[Len(ops) + 1] = e
    BY <1>1, AppendProperties
  <1>3. DOMAIN ops' = 1..(Len(ops) + 1)
    BY <1>2, LenProperties
  <1>. QED  BY <1>1, <1>2, <1>3 DEF OpsType, SameOps

\* Steps that change states only.
LEMMA ChangeStates ==
    ASSUME Types, ops' \in [DOMAIN ops -> Op],
           \A o \in DOMAIN ops : ops'[o].kind = ops[o].kind /\ ops'[o].from = ops[o].from
    PROVE  OpsType' /\ SameOps /\ Len(ops') = Len(ops) /\ DOMAIN ops' = DOMAIN ops
  <1>1. ops \in Seq(Op) /\ DOMAIN ops = 1..Len(ops) /\ Len(ops) \in Nat
    BY LenProperties DEF Types, OpsType
  <1>2. ops' \in Seq(Op)
    BY <1>1
  <1>3. DOMAIN ops' = 1..Len(ops') /\ Len(ops') \in Nat
    BY <1>2, LenProperties
  <1>4. Len(ops') = Len(ops)
    BY <1>1, <1>3
  <1>. QED  BY <1>1, <1>2, <1>3, <1>4 DEF Types, OpsType, SameOps

LEMMA SettleEffect ==
    ASSUME Types, NEW rs \in SUBSET pending, NEW ok \in BOOLEAN, Settle(rs, ok)
    PROVE  /\ ops' \in [DOMAIN ops -> Op]
           /\ \A o \in DOMAIN ops :
                 /\ ops'[o].kind = ops[o].kind /\ ops'[o].from = ops[o].from
                 /\ \/ ops'[o].state = ops[o].state
                    \/ /\ ops[o].kind # "picture" /\ \E r \in rs : r.op = o
                       /\ ops'[o].state = IF ok THEN "done" ELSE "failed"
           /\ pending' = pending \ rs
           /\ IF ~ok /\ upload # None /\ \E r \in rs : r.op = upload.op
              THEN upload' = [upload EXCEPT !.broken = TRUE]
              ELSE upload' = upload
  <1>1. ops \in Seq(Op) /\ \A o \in DOMAIN ops : ops[o] \in Op
    BY ElementOfSeq, LenProperties DEF Types, OpsType
  <1>2. ASSUME NEW o \in DOMAIN ops
        PROVE  /\ ops'[o] \in Op
               /\ ops'[o].kind = ops[o].kind /\ ops'[o].from = ops[o].from
               /\ \/ ops'[o].state = ops[o].state
                  \/ /\ ops[o].kind # "picture" /\ \E r \in rs : r.op = o
                     /\ ops'[o].state = IF ok THEN "done" ELSE "failed"
    BY <1>1 DEF Settle, Op
  <1>3. ops' = [o \in DOMAIN ops |-> ops'[o]]
    BY DEF Settle
  <1>4. ops' \in [DOMAIN ops -> Op]
    BY <1>2, <1>3
  <1>. QED  BY <1>2, <1>4 DEF Settle

LEMMA EndOpEffect ==
    ASSUME Types, NEW o \in DOMAIN ops, NEW state \in {"sent", "done", "failed"},
           ops' = [ops EXCEPT ![o].state = state]
    PROVE  /\ ops' \in [DOMAIN ops -> Op]
           /\ \A q \in DOMAIN ops :
                 /\ ops'[q].kind = ops[q].kind /\ ops'[q].from = ops[q].from
                 /\ ops'[q].state = IF q = o THEN state ELSE ops[q].state
  <1>1. ops \in [DOMAIN ops -> Op]
    BY LenProperties DEF Types, OpsType
  <1>. QED  BY <1>1 DEF Op

\* Steps of the page and of the Host that leave the operations alone.
HostStep == \E ok \in BOOLEAN : \/ Take(ok) \/ Paste(ok) \/ Read(ok)
                                \/ PutPicture \/ PutText \/ Reply \/ EndService

LEMMA HostStepKeeps ==
    ASSUME HostStep
    PROVE  UNCHANGED <<prefer, attempt, handled, reads, open, ops, upload, pending, sent>>
  BY DEF HostStep, Take, Paste, Read, PutPicture, PutText, Reply, EndService, page, session

\* How requests end: answered, in time or not, timed out, or with the session.
Settles ==
    \E rs \in SUBSET pending, ok \in BOOLEAN :
       /\ Settle(rs, ok)
       /\ UNCHANGED <<prefer, attempt, handled, reads, sent, up, host>>
       /\ open' \in BOOLEAN /\ (open' => open)
       /\ \/ /\ down # <<>> /\ down' = Tail(down)
             /\ rs = {r \in pending : r.id = Head(down).id} /\ ok = Head(down).ok
          \/ ok = FALSE /\ down' = down

LEMMA SettleSteps ==
    ASSUME Types, OnAnswer \/ TimeOut \/ Close
    PROVE  Settles
  <1>1. CASE OnAnswer
    <2> PICK m \in Answer : m = Head(down)
      BY <1>1, HeadTailProperties DEF OnAnswer, Types, WireType
    <2> DEFINE rs == {r \in pending : r.id = m.id}
    <2>1. m.ok \in BOOLEAN /\ rs \in SUBSET pending
      BY DEF Answer
    <2>2. Settle(rs, m.ok) /\ UNCHANGED <<prefer, attempt, handled, reads, sent, up, host>>
      BY <1>1 DEF OnAnswer, page
    <2>3. open' = open /\ open \in BOOLEAN /\ down # <<>> /\ down' = Tail(down)
      BY <1>1 DEF OnAnswer, Types, PageType
    <2>. QED  BY <2>1, <2>2, <2>3 DEF Settles
  <1>2. CASE TimeOut
    <2> PICK r \in pending : Settle({r}, FALSE)
      BY <1>2 DEF TimeOut
    <2>1. UNCHANGED <<prefer, attempt, handled, reads, sent, up, host, open, down>>
      BY <1>2 DEF TimeOut, page
    <2>2. open \in BOOLEAN /\ {r} \in SUBSET pending
      BY DEF Types, PageType
    <2>. QED  BY <2>1, <2>2 DEF Settles
  <1>3. CASE Close
    <2>1. /\ Settle(pending, FALSE) /\ open' = FALSE /\ open
          /\ UNCHANGED <<prefer, attempt, handled, reads, sent, up, host, down>>
      BY <1>3 DEF Close, Rejected, page
    <2>. QED  BY <2>1 DEF Settles
  <1>. QED  BY <1>1, <1>2, <1>3

\* Every step is of one of these kinds.
LEMMA StepKinds ==
    ASSUME Types, [Next]_vars
    PROVE  \/ Presses /\ handled' \in {handled} \cup 1..attempt' /\ handled <= handled'
           \/ \E kind \in Kinds, from \in 0..MaxOps : Starts(kind, from)
           \/ \E o \in Waiting : StartUpload(o)
           \/ SendWindow \/ EndUpload \/ Settles \/ HostStep
  <1>1. CASE UNCHANGED vars
    BY <1>1 DEF vars, page, host, Presses, Types, PageType
  <1>. QED  BY <1>1, UserSteps, SettleSteps DEF Next, Page, Host, HostStep

LEMMA OpsStep ==
    ASSUME Types, [Next]_vars
    PROVE  OpsType' /\ SameOps
  <1>1. CASE UNCHANGED ops
    <2>1. Len(ops) >= Len(ops)
      BY LenProperties DEF Types, OpsType
    <2>. QED  BY <1>1, <2>1 DEF Types, OpsType, SameOps
  <1>2. ASSUME NEW kind \in Kinds, NEW from \in 0..MaxOps, Starts(kind, from)
        PROVE  OpsType' /\ SameOps
    BY <1>2, StartEffect, AppendOps DEF Starts
  <1>3. ASSUME NEW o \in Waiting, StartUpload(o)
        PROVE  OpsType' /\ SameOps
    <2>1. PICK state \in {"sent", "done", "failed"} : ops' = [ops EXCEPT ![o].state = state]
      BY <1>3 DEF StartUpload, EndOp
    <2>2. o \in DOMAIN ops
      BY DEF Waiting
    <2>. QED  BY <2>1, <2>2, EndOpEffect, ChangeStates
  <1>4. CASE EndUpload
    <2>1. upload.op \in DOMAIN ops
      BY <1>4 DEF EndUpload, WindowDone, Types, UploadType
    <2>2. PICK state \in {"sent", "done", "failed"} :
             ops' = [ops EXCEPT ![upload.op].state = state]
      BY <1>4 DEF EndUpload, EndOp
    <2>. QED  BY <2>1, <2>2, EndOpEffect, ChangeStates
  <1>5. CASE Settles
    BY <1>5, SettleEffect, ChangeStates DEF Settles
  <1>6. SendWindow \/ Presses \/ HostStep => UNCHANGED ops
    BY HostStepKeeps DEF SendWindow, Presses, session
  <1>. QED  BY <1>1, <1>2, <1>3, <1>4, <1>5, <1>6, StepKinds

LEMMA PageStep == ASSUME Types, [Next]_vars PROVE PageType'
  <1>1. ASSUME NEW n \in 1..attempt', NEW kind, Deliver(n, kind), attempt' \in Nat,
               attempt <= attempt'
        PROVE  handled' \in 0..attempt' /\ open' = open
    <2>1. handled' \in 0..attempt'
      BY <1>1 DEF Deliver, Types, PageType
    <2>2. open' = open
      BY <1>1 DEF Deliver, Start, session
    <2>. QED  BY <2>1, <2>2
  <1>2. CASE PressForBrowser
    <2>1. attempt' = attempt + 1 /\ attempt' \in 1..MaxOps /\ reads' = reads \cup {attempt'}
      BY <1>2 DEF PressForBrowser, Types, PageType
    <2>2. handled' \in 0..attempt' /\ open' = open
      <3>1. CASE \E kind \in {"text", "picture"} : Deliver(attempt', kind)
        BY <1>1, <2>1, <3>1 DEF Types, PageType
      <3>2. CASE UNCHANGED <<handled, session, up, down, host>>
        BY <2>1, <3>2 DEF session, Types, PageType
      <3>. QED  BY <1>2, <3>1, <3>2 DEF PressForBrowser
    <2>3. prefer' = prefer /\ reads' \subseteq 1..attempt'
      BY <1>2, <2>1 DEF PressForBrowser, Types, PageType
    <2>4. prefer \in BOOLEAN /\ open \in BOOLEAN
      BY DEF Types, PageType
    <2>. QED  BY <2>1, <2>2, <2>3, <2>4 DEF PageType
  <1>3. ASSUME NEW kind \in {"text", "picture"}, PasteEvent(kind)
        PROVE  PageType'
    <2>1. attempt' = attempt + 1 /\ attempt' \in 1..MaxOps /\ reads' = reads /\ prefer' = prefer
      BY <1>3 DEF PasteEvent, Types, PageType
    <2>2. handled' \in 0..attempt' /\ open' = open
      BY <1>1, <1>3, <2>1 DEF PasteEvent, Types, PageType
    <2>3. reads' \subseteq 1..attempt'
      BY <2>1 DEF Types, PageType
    <2>4. prefer \in BOOLEAN /\ open \in BOOLEAN
      BY DEF Types, PageType
    <2>. QED  BY <2>1, <2>2, <2>3, <2>4 DEF PageType
  <1>4. ASSUME NEW n \in reads, NEW kind \in {"text", "picture"}, ReadAnswers(n, kind)
        PROVE  PageType'
    <2>1. attempt' = attempt /\ attempt \in 0..MaxOps /\ reads' \subseteq 1..attempt
          /\ prefer' = prefer /\ n \in 1..attempt
      BY <1>4 DEF ReadAnswers, Types, PageType
    <2>2. handled' \in 0..attempt' /\ open' = open
      BY <1>1, <1>4, <2>1 DEF ReadAnswers
    <2>3. prefer \in BOOLEAN /\ open \in BOOLEAN
      BY DEF Types, PageType
    <2>. QED  BY <2>1, <2>2, <2>3 DEF PageType
  <1>5. ASSUME UNCHANGED <<attempt, handled, open>>, reads' \subseteq reads,
               prefer' \in {prefer, TRUE, FALSE}
        PROVE  PageType'
    <2>1. prefer' \in BOOLEAN /\ open' \in BOOLEAN
      BY <1>5 DEF Types, PageType
    <2>. QED  BY <1>5, <2>1 DEF Types, PageType
  <1>6. CASE PressForHost \/ Copy \/ Blur \/ \E n \in reads : ReadFails(n)
    BY <1>5, <1>6 DEF PressForHost, Start, Copy, Blur, ReadFails, session
  <1>7. ASSUME NEW kind \in {"read", "send", "text"}, Toolbar(kind)
        PROVE  PageType'
    BY <1>5, <1>7 DEF Toolbar, Start, page
  <1>8. CASE User
    BY <1>2, <1>3, <1>4, <1>6, <1>7, <1>8 DEF User
  <1>9. CASE Settles
    <2>1. UNCHANGED <<prefer, attempt, handled, reads>> /\ open' \in BOOLEAN
      BY <1>9 DEF Settles
    <2>2. prefer' \in BOOLEAN
      BY <2>1 DEF Types, PageType
    <2>. QED  BY <2>1, <2>2 DEF Types, PageType
  <1>10. CASE HostStep \/ SendWindow \/ EndUpload \/ \E o \in Waiting : StartUpload(o)
    BY <1>5, <1>10, HostStepKeeps DEF SendWindow, EndUpload, StartUpload, page
  <1>11. CASE UNCHANGED vars
    BY <1>5, <1>11 DEF vars, page, session
  <1>. QED  BY <1>8, <1>9, <1>10, <1>11, SettleSteps DEF Next, Page, Host, HostStep

LEMMA UploadTypes ==
    ASSUME Types, upload # None
    PROVE  /\ upload \in Upload /\ upload.op \in DOMAIN ops /\ upload.op \in 1..MaxOps
           /\ upload.next \in 1..(Parts + 1) /\ upload.broken \in BOOLEAN
  BY DEF Types, UploadType, Upload

\* What a window of parts asks for.
LEMMA WindowEffect ==
    ASSUME Types, SendWindow, open
    PROVE  \E n \in 1..Parts :
              /\ upload.next + n <= Parts + 1
              /\ upload' = [upload EXCEPT !.next = upload.next + n]
              /\ Send(upload.op, [i \in 1..n |-> upload.next + i - 1])
  <1>1. upload.next \in 1..Parts /\ upload \in Upload
    BY UploadTypes DEF SendWindow, WindowDone
  <1> DEFINE n == WindowLength(upload.next)
  <1>2. n \in 1..Parts /\ upload.next + n <= Parts + 1
    BY <1>1 DEF WindowLength
  <1>3. upload' = [upload EXCEPT !.next = upload.next + n]
    BY DEF SendWindow
  <1>. QED  BY <1>2, <1>3 DEF SendWindow

LEMMA UploadTypeStep == ASSUME Types, [Next]_vars PROVE UploadType'
  <1>1. \A o \in DOMAIN ops : o \in DOMAIN ops' /\ o \in 1..MaxOps
    BY OpsStep, LenProperties DEF SameOps, Types, OpsType
  <1>2. CASE UNCHANGED upload
    BY <1>1, <1>2 DEF Types, UploadType
  <1>3. ASSUME NEW o \in Waiting, StartUpload(o) PROVE UploadType'
    <2>1. o \in DOMAIN ops
      BY DEF Waiting
    <2>2. CASE upload' = [op |-> o, next |-> 1, broken |-> FALSE]
      <3>1. upload' \in Upload /\ upload'.op = o
        BY <1>1, <2>1, <2>2 DEF Upload
      <3>. QED  BY <1>1, <2>1, <3>1 DEF UploadType
    <2>. QED  BY <1>2, <1>3, <2>2 DEF StartUpload
  <1>4. CASE SendWindow
    <2>1. upload # None /\ upload \in Upload /\ upload.op \in DOMAIN ops
      BY <1>4, UploadTypes DEF SendWindow, WindowDone
    <2>2. upload' \in Upload /\ upload'.op = upload.op
      <3>1. CASE open
        <4> PICK n \in 1..Parts : /\ upload.next + n <= Parts + 1
                                 /\ upload' = [upload EXCEPT !.next = upload.next + n]
          BY <1>4, <3>1, WindowEffect
        <4>1. upload.next + n \in 1..(Parts + 1)
          BY <2>1 DEF Upload
        <4>. QED  BY <2>1, <4>1 DEF Upload
      <3>2. CASE ~open
        BY <1>4, <2>1, <3>2 DEF SendWindow, Upload
      <3>. QED  BY <3>1, <3>2
    <2>. QED  BY <1>1, <2>1, <2>2 DEF UploadType
  <1>5. CASE upload' = None
    BY <1>5 DEF UploadType
  <1>6. CASE Settles
    <2>1. \/ upload' = upload
          \/ upload # None /\ upload' = [upload EXCEPT !.broken = TRUE]
      BY <1>6 DEF Settles, Settle
    <2>2. CASE upload # None /\ upload' = [upload EXCEPT !.broken = TRUE]
      <3>1. upload \in Upload /\ upload.op \in DOMAIN ops
        BY <2>2, UploadTypes
      <3>2. upload' \in Upload /\ upload'.op = upload.op
        BY <2>2, <3>1 DEF Upload
      <3>. QED  BY <1>1, <3>1, <3>2 DEF UploadType
    <2>. QED  BY <1>2, <2>1, <2>2
  <1>7. Presses \/ HostStep \/ (\E kind \in Kinds, from \in 0..MaxOps : Starts(kind, from))
            => upload' = upload
    BY HostStepKeeps DEF Presses, Starts, Start, session
  <1>. QED  BY <1>2, <1>3, <1>4, <1>5, <1>6, <1>7, StepKinds DEF EndUpload

-----------------------------------------------------------------------------
(* The number of requests *)

LEMMA PartsOfType ==
    /\ PartsOf(0) = 0
    /\ \A a \in Nat : PartsOf(a) \in Nat /\ PartsOf(a + 1) = PartsOf(a) + Parts
    /\ \A a, b \in Nat : a <= b => PartsOf(a) <= PartsOf(b)
  BY DEF PartsOf

LEMMA SameInterval == ASSUME NEW a \in Nat, NEW b \in Nat, 1..a = 1..b PROVE a = b
  <1>1. \A i : i \in 1..a <=> i \in 1..b
    OBVIOUS
  <1>2. CASE a < b
    BY <1>1, <1>2
  <1>3. CASE b < a
    BY <1>1, <1>3
  <1>. QED  BY <1>2, <1>3

LEMMA WaitingFinite ==
    ASSUME Types
    PROVE  IsFiniteSet(Waiting) /\ Cardinality(Waiting) \in Nat
  <1>1. Waiting \subseteq 1..Len(ops) /\ Len(ops) \in Nat
    BY LenProperties DEF Waiting, Types, OpsType
  <1>2. IsFiniteSet(1..Len(ops))
    BY <1>1, FS_Interval
  <1>. QED  BY <1>1, <1>2, FS_Subset, FS_CardinalityType

LEMMA FewerWait ==
    ASSUME Types, Waiting' \subseteq Waiting
    PROVE  /\ Cardinality(Waiting') \in Nat
           /\ PartsOf(Cardinality(Waiting')) <= PartsOf(Cardinality(Waiting))
  <1>1. /\ Cardinality(Waiting') <= Cardinality(Waiting)
        /\ IsFiniteSet(Waiting')
    BY WaitingFinite, FS_Subset
  <1>2. Cardinality(Waiting') \in Nat
    BY <1>1, FS_CardinalityType
  <1>. QED  BY <1>1, <1>2, WaitingFinite, PartsOfType

LEMMA StartWaits ==
    ASSUME Types, NEW e \in Op, ops' = Append(ops, e), Len(ops) < MaxOps
    PROVE  Waiting' = Waiting \cup (IF e.state = "waiting" THEN {Len(ops) + 1} ELSE {})
  <1>1. /\ DOMAIN ops = 1..Len(ops) /\ DOMAIN ops' = 1..(Len(ops) + 1)
        /\ ops'[Len(ops) + 1] = e /\ \A o \in DOMAIN ops : ops'[o] = ops[o]
        /\ Len(ops) \in Nat
    BY AppendOps, LenProperties DEF Types, OpsType
  <1>2. ASSUME NEW o
        PROVE  o \in Waiting' <=>
                 o \in Waiting \cup (IF e.state = "waiting" THEN {Len(ops) + 1} ELSE {})
    <2>1. CASE o \in 1..Len(ops)
      BY <1>1, <2>1 DEF Waiting
    <2>2. CASE o = Len(ops) + 1
      BY <1>1, <2>2 DEF Waiting
    <2>3. CASE o \notin 1..(Len(ops) + 1)
      BY <1>1, <2>3 DEF Waiting
    <2>. QED  BY <1>1, <2>1, <2>2, <2>3
  <1>. QED  BY <1>2

LEMMA StateWaits ==
    ASSUME Types, NEW o \in DOMAIN ops, NEW state \in {"sent", "done", "failed"},
           ops' = [ops EXCEPT ![o].state = state]
    PROVE  Waiting' = Waiting \ {o}
  <1>1. /\ ops' \in [DOMAIN ops -> Op]
        /\ \A q \in DOMAIN ops : ops'[q].state = IF q = o THEN state ELSE ops[q].state
    BY EndOpEffect
  <1>2. DOMAIN ops' = DOMAIN ops
    BY <1>1
  <1>. QED  BY <1>1, <1>2 DEF Waiting

LEMMA SettleWaits ==
    ASSUME Types, Settles
    PROVE  Waiting' \subseteq Waiting
  <1> PICK rs \in SUBSET pending, ok \in BOOLEAN : Settle(rs, ok)
    BY DEF Settles
  <1>1. /\ ops' \in [DOMAIN ops -> Op]
        /\ \A o \in DOMAIN ops : ops'[o].state # "waiting" \/ ops'[o].state = ops[o].state
    BY SettleEffect
  <1>. QED  BY <1>1 DEF Waiting

\* How the set of waiting pictures changes.
LEMMA WaitingStep ==
    ASSUME Types, [Next]_vars
    PROVE  \/ Waiting' \subseteq Waiting
           \/ \E from \in 0..MaxOps :
                 /\ Starts("picture", from) /\ Len(ops) + 1 \notin Waiting
                 /\ Waiting' = Waiting \cup {Len(ops) + 1}
  <1>1. ASSUME NEW kind \in Kinds, NEW from \in 0..MaxOps, Starts(kind, from)
        PROVE  \/ Waiting' \subseteq Waiting
               \/ /\ kind = "picture" /\ Len(ops) + 1 \notin Waiting
                  /\ Waiting' = Waiting \cup {Len(ops) + 1}
    <2>1. PICK e \in Op : /\ ops' = Append(ops, e) /\ Len(ops) < MaxOps
                          /\ kind = "picture" \/ e.state # "waiting"
      BY <1>1, StartEffect DEF Starts
    <2>2. Len(ops) + 1 \notin DOMAIN ops
      BY LenProperties DEF Types, OpsType
    <2>. QED  BY <2>1, <2>2, StartWaits DEF Waiting
  <1>2. ASSUME NEW o \in Waiting, StartUpload(o) PROVE Waiting' \subseteq Waiting
    <2>1. PICK state \in {"sent", "done", "failed"} : ops' = [ops EXCEPT ![o].state = state]
      BY <1>2 DEF StartUpload, EndOp
    <2>. QED  BY <2>1, StateWaits DEF Waiting
  <1>3. CASE EndUpload
    <2>1. upload.op \in DOMAIN ops
      BY <1>3, UploadTypes DEF EndUpload, WindowDone
    <2>2. PICK state \in {"sent", "done", "failed"} :
             ops' = [ops EXCEPT ![upload.op].state = state]
      BY <1>3 DEF EndUpload, EndOp
    <2>. QED  BY <2>1, <2>2, StateWaits
  <1>4. CASE SendWindow \/ Presses \/ HostStep
    <2>1. ops' = ops
      BY <1>4, HostStepKeeps DEF SendWindow, Presses, session
    <2>. QED  BY <2>1 DEF Waiting
  <1>. QED  BY <1>1, <1>2, <1>3, <1>4, SettleWaits, StepKinds

\* What an append to the line does.
LEMMA SendEffect ==
    ASSUME Types, NEW o \in 1..MaxOps, NEW m \in Nat, NEW parts \in [1..m -> 0..Parts],
           Send(o, parts)
    PROVE  /\ sent' = sent + m
           /\ pending' = pending \cup {[id |-> sent + i, op |-> o, part |-> parts[i]] :
                                         i \in 1..m}
           /\ Len(up) \in Nat /\ Len(up') = Len(up) + m
           /\ DOMAIN up = 1..Len(up) /\ DOMAIN up' = 1..(Len(up) + m)
           /\ \A i \in 1..Len(up) : up'[i] = up[i]
           /\ \A i \in 1..m : up'[Len(up) + i] =
                                [id |-> sent + i, op |-> o, part |-> parts[i]]
           /\ sent + m <= MaxOps * Parts => up' \in Seq(Request)
  <1> DEFINE S == [id : Nat, op : 1..MaxOps, part : 0..Parts]
  <1> DEFINE s == [i \in 1..m |-> [id |-> sent + i, op |-> o, part |-> parts[i]]]
  <1>1. DOMAIN parts = 1..m /\ parts \in Seq(0..Parts) /\ Len(parts) = m
    OBVIOUS
  <1>2. sent \in Nat /\ up \in Seq(Request) /\ Request \subseteq S
    BY DEF Types, WireType, Request
  <1>3. \A i \in 1..m : s[i] \in S /\ s[i] = [id |-> sent + i, op |-> o, part |-> parts[i]]
    BY <1>2
  <1>4. s \in Seq(S) /\ Len(s) = m
    <2>1. s \in [1..m -> S]
      BY <1>3
    <2> HIDE DEF s, S
    <2>2. s \in Seq(S)
      BY <2>1
    <2>3. 1..m = 1..Len(s) /\ Len(s) \in Nat
      BY <2>1, <2>2, LenProperties
    <2>4. Len(s) = m
      BY <2>3, SameInterval
    <2>. QED  BY <2>2, <2>4
  <1>5. up \in Seq(S)
    <2>1. up \in [1..Len(up) -> Request] /\ Len(up) \in Nat
      BY <1>2, LenProperties
    <2> HIDE DEF s, S
    <2>2. up \in [1..Len(up) -> S]
      BY <1>2, <2>1
    <2>. QED  BY ONLY <2>1, <2>2
  <1>6. up' = up \o s /\ sent' = sent + m
    BY <1>1 DEF Send
  <1> HIDE DEF s, S
  <1>7. /\ up' \in Seq(S) /\ Len(up') = Len(up) + m /\ Len(up) \in Nat
        /\ \A i \in 1..Len(up') : up'[i] = IF i <= Len(up) THEN up[i] ELSE s[i - Len(up)]
    BY <1>4, <1>5, <1>6, ConcatProperties, LenProperties
  <1>8. DOMAIN up = 1..Len(up) /\ DOMAIN up' = 1..(Len(up) + m)
    BY <1>5, <1>7, LenProperties
  <1>9. \A i \in 1..Len(up) : up'[i] = up[i]
    BY <1>7
  <1>10. ASSUME NEW i \in 1..m PROVE up'[Len(up) + i] = s[i]
    <2>1. Len(up) + i \in 1..Len(up') /\ ~(Len(up) + i <= Len(up)) /\ Len(up) + i - Len(up) = i
      BY <1>7
    <2>. QED  BY <1>7, <2>1
  <1>11. ASSUME sent + m <= MaxOps * Parts PROVE up' \in Seq(Request)
    <2>1. ASSUME NEW i \in 1..m PROVE s[i] \in Request
      <3> PICK top \in Nat : top = MaxOps * Parts
        OBVIOUS
      <3>1. sent + i \in 1..top
        BY <1>2, <1>11
      <3>2. sent + i \in 1..(MaxOps * Parts)
        BY <3>1, Zenon
      <3>3. parts[i] \in 0..Parts
        OBVIOUS
      <3>4. s[i] = [id |-> sent + i, op |-> o, part |-> parts[i]]
        BY <1>3
      <3> HIDE DEF s, S
      <3>. QED  BY <3>2, <3>3, <3>4 DEF Request
    <2>2. s \in [1..m -> Request]
      BY <2>1 DEF s
    <2>3. s \in Seq(Request)
      BY <2>2
    <2>. QED  BY <1>2, <1>6, <2>3, ConcatProperties
  <1>12. pending' = pending \cup {[id |-> sent + i, op |-> o, part |-> parts[i]] : i \in 1..m}
    BY <1>1 DEF Send, Requests
  <1>. QED  BY <1>3, <1>6, <1>7, <1>8, <1>9, <1>10, <1>11, <1>12

LEMMA RestType == ASSUME Types PROVE Rest \in Nat
  <1>1. CASE upload = None
    BY <1>1 DEF Rest
  <1>2. CASE upload # None
    <2> PICK k \in 1..(Parts + 1) : k = upload.next
      BY <1>2, UploadTypes
    <2>1. Parts \in Nat
      OBVIOUS
    <2>2. Parts + 1 - k \in Nat
      BY ONLY <2>1
    <2>. QED  BY <1>2, <2>2 DEF Rest
  <1>. QED  BY <1>1, <1>2

\* A picture that fails is not forgotten before it ends.
LEMMA BrokenRest ==
    ASSUME Types, upload # None, upload' = [upload EXCEPT !.broken = TRUE]
    PROVE  Rest' = Rest /\ Rest' <= Rest
  <1>1. upload \in Upload
    BY UploadTypes
  <1>2. upload' \in Upload /\ upload'.next = upload.next
    BY <1>1 DEF Upload
  <1>3. upload' # None
    BY <1>2, NoneAssumption
  <1>4. Rest' = Rest
    BY <1>2, <1>3 DEF Rest
  <1>. QED  BY <1>4, RestType

\* The number of requests: PartsOf is what may be left for the pictures that wait.
LEMMA RoomKept ==
    ASSUME Types, RoomInv, NEW w \in Nat, NEW l \in Nat, NEW n \in Nat, NEW u \in Nat,
           w = Cardinality(Waiting'), l = Len(ops'), n = sent', u = Rest',
           Len(ops) <= l, sent <= n,
           \/ Waiting' \subseteq Waiting /\ n + u <= sent + Rest + PartsOf(l) - PartsOf(Len(ops))
           \/ /\ w = Cardinality(Waiting) + 1 /\ l = Len(ops) + 1
              /\ n = sent /\ u = Rest
           \/ w = Cardinality(Waiting) - 1 /\ n + u <= sent + Rest + Parts
    PROVE  RoomInv'
  <1> PICK w0 \in Nat : w0 = Cardinality(Waiting)
    BY WaitingFinite
  <1> PICK l0 \in Nat : l0 = Len(ops)
    BY LenProperties DEF Types, OpsType
  <1>1. sent \in Nat /\ Rest \in Nat
    BY RestType DEF Types, WireType
  <1>0. Parts \in Nat
    OBVIOUS
  <1>2. sent + (PartsOf(w0) + Rest) <= PartsOf(l0)
    BY DEF RoomInv
  <1>3. /\ PartsOf(w0) \in Nat /\ PartsOf(l0) \in Nat /\ PartsOf(w) \in Nat /\ PartsOf(l) \in Nat
        /\ PartsOf(l0 + 1) = PartsOf(l0) + Parts /\ PartsOf(w0 + 1) = PartsOf(w0) + Parts
        /\ PartsOf(l0) <= PartsOf(l)
        /\ PartsOf(w + 1) = PartsOf(w) + Parts
    BY PartsOfType
  <1>4. n + (PartsOf(w) + u) <= PartsOf(l)
    <2> PICK s0 \in Nat, r0 \in Nat, p0 \in Nat, q0 \in Nat, p \in Nat, q \in Nat :
              /\ s0 = sent /\ r0 = Rest /\ p0 = PartsOf(w0) /\ q0 = PartsOf(l0)
              /\ p = PartsOf(w) /\ q = PartsOf(l)
      BY <1>1, <1>3
    <2>0. s0 + (p0 + r0) <= q0 /\ q0 <= q
      BY <1>2, <1>3
    <2>1. CASE Waiting' \subseteq Waiting /\ n + u <= sent + Rest + PartsOf(l) - PartsOf(l0)
      <3>1. p <= p0 /\ n + u <= s0 + r0 + q - q0
        BY <2>1, FewerWait
      <3>2. n + (p + u) <= q
        BY ONLY <1>0, <2>0, <3>1
      <3>. QED  BY <3>2
    <2>2. CASE w = w0 + 1 /\ l = l0 + 1 /\ n = sent /\ u = Rest
      <3>1. p = p0 + Parts /\ q = q0 + Parts /\ n = s0 /\ u = r0
        BY <1>3, <2>2
      <3>2. n + (p + u) <= q
        BY ONLY <1>0, <2>0, <3>1
      <3>. QED  BY <3>2
    <2>3. CASE w = w0 - 1 /\ n + u <= sent + Rest + Parts
      <3>1. w + 1 = w0 /\ n + u <= s0 + r0 + Parts
        BY <2>3, SMTT(20)
      <3>2. p0 = p + Parts
        <4>1. PartsOf(w + 1) = PartsOf(w) + Parts
          BY <1>3
        <4>. QED  BY <3>1, <4>1, Zenon
      <3>3. n + (p + u) <= q
        BY ONLY <1>0, <2>0, <3>1, <3>2
      <3>. QED  BY <3>3
    <2>. QED  BY <2>1, <2>2, <2>3
  <1>. QED  BY <1>4 DEF RoomInv

LEMMA RoomStep ==
    ASSUME Types, RoomInv, [Next]_vars
    PROVE  RoomInv' /\ sent' \in Nat /\ sent <= sent'
  <1>1. sent \in Nat /\ Rest \in Nat /\ Rest' \in Nat
    <2>1. upload' # None => upload' \in Upload
      BY UploadTypeStep DEF UploadType
    <2>2. CASE upload' = None
      BY <2>2, RestType DEF Types, WireType, Rest
    <2>3. CASE upload' # None
      <3> PICK k \in 1..(Parts + 1) : k = upload'.next
        BY <2>1, <2>3 DEF Upload
      <3>1. Parts \in Nat
        OBVIOUS
      <3>2. Parts + 1 - k \in Nat
        BY ONLY <3>1
      <3>3. Rest' = Parts + 1 - k
        BY <2>3 DEF Rest
      <3>. QED  BY <3>2, <3>3, RestType DEF Types, WireType
    <2>. QED  BY <2>2, <2>3
  <1> PICK l0 \in Nat : l0 = Len(ops)
    BY LenProperties DEF Types, OpsType
  <1> PICK l \in Nat : l = Len(ops') /\ l0 <= l /\ l <= MaxOps
    BY OpsStep, LenProperties DEF OpsType, SameOps
  <1>2. Cardinality(Waiting') \in Nat
    <2>1. Waiting' \subseteq 1..l
      BY OpsStep, LenProperties DEF Waiting, OpsType
    <2>2. IsFiniteSet(1..l)
      BY FS_Interval
    <2>. QED  BY <2>1, <2>2, FS_Subset, FS_CardinalityType
  <1>3. PartsOf(l0) \in Nat /\ PartsOf(l) \in Nat /\ PartsOf(l0 + 1) = PartsOf(l0) + Parts
        /\ PartsOf(l0) <= PartsOf(l)
    BY PartsOfType
  <1> PICK a \in Nat, b \in Nat : a = PartsOf(l) /\ b = PartsOf(l0) /\ b <= a
    BY <1>3
  <1> PICK s0 \in Nat, r0 \in Nat, r \in Nat, d \in Nat :
              s0 = sent /\ r0 = Rest /\ r = Rest' /\ d = a - b
    <2>1. a - b \in Nat
      OBVIOUS
    <2>. QED  BY <1>1, <2>1
  <1> PICK w \in Nat : w = Cardinality(Waiting')
    BY <1>2
  <1>4. ASSUME Waiting' \subseteq Waiting, NEW s1 \in Nat, s1 = sent', s0 <= s1,
               s1 + r <= s0 + r0 + d
        PROVE  RoomInv' /\ sent' \in Nat /\ sent <= sent'
    <2>1. s1 + r <= sent + Rest + PartsOf(l) - PartsOf(l0)
      <3>1. s1 + r <= s0 + r0 + d /\ d = a - b
        BY <1>4
      <3>2. s1 + r <= s0 + r0 + a - b
        BY ONLY <3>1
      <3>. QED  BY <3>2
    <2>. QED  BY <1>1, <1>2, <1>4, <2>1, RoomKept
  <1>5. CASE UNCHANGED sent /\ Rest' <= Rest /\ Waiting' \subseteq Waiting
    <2>1. r <= r0
      BY <1>5
    <2>2. s0 + r <= s0 + r0 + d
      BY ONLY <2>1
    <2>3. s0 = sent' /\ s0 <= s0
      BY <1>5
    <2>. QED  BY <1>4, <1>5, <2>2, <2>3
  <1>6. ASSUME NEW kind \in Kinds, NEW from \in 0..MaxOps, Starts(kind, from)
        PROVE  RoomInv' /\ sent' \in Nat /\ sent <= sent'
    <2>1. PICK e \in Op :
              /\ e.kind = kind /\ ops' = Append(ops, e) /\ Len(ops) < MaxOps
              /\ \/ kind = "picture" /\ e.state = "waiting" /\ UNCHANGED <<pending, up, sent>>
                 \/ /\ kind # "picture" /\ e.state = "sent" /\ open
                    /\ Send(Len(ops) + 1, <<0>>)
                 \/ kind # "picture" /\ e.state = "failed" /\ UNCHANGED <<pending, up, sent>>
              /\ UNCHANGED <<open, upload, down, host>>
      BY <1>6, StartEffect DEF Starts
    <2>2. l = l0 + 1 /\ Rest' = Rest
      BY <2>1, AppendOps DEF Rest
    <2>3. CASE e.state = "waiting" /\ sent' = sent
      <3>1. Waiting' = Waiting \cup {l0 + 1} /\ l0 + 1 \notin Waiting
        <4>1. Waiting' = Waiting \cup {l0 + 1}
          BY <2>1, <2>3, StartWaits
        <4>2. DOMAIN ops = 1..l0
          BY LenProperties DEF Types, OpsType
        <4>3. l0 + 1 \notin 1..l0
          OBVIOUS
        <4>4. Waiting \subseteq 1..l0
          BY <4>2 DEF Waiting
        <4>. QED  BY <4>1, <4>3, <4>4
      <3>2. Cardinality(Waiting') = Cardinality(Waiting) + 1
        BY <3>1, WaitingFinite, FS_AddElement
      <3>3. /\ w = Cardinality(Waiting) + 1 /\ l = Len(ops) + 1
            /\ s0 = sent /\ s0 = sent' /\ r = Rest' /\ r = Rest
            /\ Len(ops) <= l /\ sent <= s0
        BY <1>1, <2>2, <2>3, <3>2
      <3>4. RoomInv'
        BY <3>3, RoomKept
      <3>. QED  BY <3>3, <3>4
    <2>4. CASE e.state # "waiting" /\ sent' \in s0..(s0 + 1)
      <3>1. Waiting' \subseteq Waiting
        BY <2>1, <2>4, StartWaits
      <3>2. d = Parts /\ r = r0
        <4>1. a = b + Parts
          BY <1>3, <2>2
        <4>2. Parts \in Nat
          OBVIOUS
        <4>. QED  BY <1>1, <2>2, <4>1, <4>2
      <3>. PICK s1 \in Nat : s1 = sent' /\ s1 \in s0..(s0 + 1)
        BY <1>1, <2>4
      <3>3. Parts \in Nat \ {0} /\ s1 \in s0..(s0 + 1)
        OBVIOUS
      <3>4. s0 <= s1 /\ s1 + r <= s0 + r0 + d
        BY ONLY <3>2, <3>3
      <3>. QED  BY <1>4, <3>1, <3>4
    <2>5. Send(Len(ops) + 1, <<0>>) => sent' = sent + 1
      BY DEF Send
    <2>6. sent' \in s0..(s0 + 1)
      <3>1. sent' = s0 \/ sent' = s0 + 1
        BY <2>1, <2>5
      <3>2. s0 \in s0..(s0 + 1) /\ s0 + 1 \in s0..(s0 + 1)
        BY ONLY TRUE
      <3>. QED  BY <3>1, <3>2
    <2>7. e.state = "waiting" => sent' = sent
      BY <2>1
    <2>. QED  BY <2>3, <2>4, <2>6, <2>7
  <1>7. ASSUME NEW o \in Waiting, StartUpload(o)
        PROVE  RoomInv' /\ sent' \in Nat /\ sent <= sent'
    <2>1. PICK state \in {"sent", "done", "failed"} : ops' = [ops EXCEPT ![o].state = state]
      BY <1>7 DEF StartUpload, EndOp
    <2>2. Waiting' = Waiting \ {o}
      BY <2>1, StateWaits DEF Waiting
    <2>3. Cardinality(Waiting') = Cardinality(Waiting) - 1
      BY <2>2, WaitingFinite, FS_RemoveElement
    <2>4. sent' = sent /\ Rest' <= Rest + Parts
      <3>1. CASE upload' = [op |-> o, next |-> 1, broken |-> FALSE]
        <4>1. Rest' = IF upload' = None THEN 0 ELSE Parts
          BY <3>1 DEF Rest
        <4>2. Rest = 0 /\ sent' = sent
          BY <1>7 DEF StartUpload, Rest
        <4>3. Parts \in Nat /\ (Rest' = 0 \/ Rest' = Parts)
          BY <4>1
        <4>. QED  BY <4>2, <4>3
      <3>2. CASE upload' = upload
        <4>1. Rest' = Rest /\ sent' = sent
          BY <1>7, <3>2 DEF StartUpload, Rest
        <4>2. Parts \in Nat
          OBVIOUS
        <4>. QED  BY <1>1, <4>1, <4>2
      <3>. QED  BY <1>7, <3>1, <3>2 DEF StartUpload
    <2>5. /\ w = Cardinality(Waiting) - 1 /\ s0 = sent' /\ r = Rest'
          /\ Len(ops) <= l /\ sent <= s0
      BY <1>1, <2>3, <2>4
    <2>6. s0 + r <= sent + Rest + Parts
      <3>1. r <= r0 + Parts /\ Parts \in Nat
        BY <2>4
      <3>2. s0 + r <= s0 + r0 + Parts
        BY ONLY <3>1
      <3>. QED  BY <3>2
    <2>7. RoomInv'
      BY <2>5, <2>6, RoomKept
    <2>. QED  BY <1>1, <2>5, <2>7
  <1>8. CASE SendWindow
    <2>1. Waiting' \subseteq Waiting
      BY <1>8 DEF SendWindow, Waiting
    <2>2. upload # None /\ upload \in Upload
      BY <1>8, UploadTypes DEF SendWindow, WindowDone
    <2>3. CASE ~open
      <3>1. sent' = sent /\ upload' = [upload EXCEPT !.broken = TRUE]
        BY <1>8, <2>3 DEF SendWindow
      <3>2. Rest' <= Rest
        BY <2>2, <3>1, BrokenRest
      <3>. QED  BY <1>5, <2>1, <3>1, <3>2
    <2>4. CASE open
      <3>. PICK n \in 1..Parts : /\ upload.next + n <= Parts + 1
                                 /\ upload' = [upload EXCEPT !.next = upload.next + n]
                                 /\ Send(upload.op, [i \in 1..n |-> upload.next + i - 1])
        BY <1>8, <2>4, WindowEffect
      <3>1. sent' = sent + n
        BY DEF Send
      <3>. PICK k \in 1..(Parts + 1) : k = upload.next
        BY <2>2 DEF Upload
      <3>2. upload'.next = k + n
        BY <2>2 DEF Upload
      <3>3. r0 = Parts + 1 - k
        BY <2>2 DEF Rest
      <3>4. r = 0 \/ r = Parts + 1 - (k + n)
        BY <1>1, <3>2 DEF Rest
      <3>5. s0 + n \in Nat /\ s0 + n = sent' /\ s0 <= s0 + n
        <4>1. Parts \in Nat
          OBVIOUS
        <4>2. s0 + n \in Nat /\ s0 <= s0 + n
          BY ONLY <4>1
        <4>. QED  BY <3>1, <4>2
      <3>6. Parts \in Nat /\ n \in 1..Parts /\ k \in 1..(Parts + 1) /\ k + n <= Parts + 1
        OBVIOUS
      <3>7. s0 + n + r <= s0 + r0 + d
        BY ONLY <3>3, <3>4, <3>6
      <3>. QED  BY <1>4, <2>1, <3>5, <3>7
    <2>. QED  BY <2>3, <2>4
  <1>9. CASE EndUpload
    <2>1. sent' = sent /\ Rest' <= Rest
      <3>1. sent' = sent /\ upload' = None
        BY <1>9 DEF EndUpload
      <3>2. Rest' = 0
        BY <3>1 DEF Rest
      <3>. QED  BY <3>1, <3>2, RestType
    <2>2. upload.op \in DOMAIN ops
      BY <1>9, UploadTypes DEF EndUpload, WindowDone
    <2>3. PICK state \in {"sent", "done", "failed"} :
             ops' = [ops EXCEPT ![upload.op].state = state]
      BY <1>9 DEF EndUpload, EndOp
    <2>4. Waiting' \subseteq Waiting
      BY <2>2, <2>3, StateWaits
    <2>. QED  BY <1>5, <2>1, <2>4
  <1>10. CASE Settles
    <2>1. sent' = sent
      BY <1>10 DEF Settles
    <2>2. \/ upload' = upload
          \/ upload # None /\ upload' = [upload EXCEPT !.broken = TRUE]
      BY <1>10 DEF Settles, Settle
    <2>3. Rest' <= Rest
      <3>1. CASE upload # None /\ upload' = [upload EXCEPT !.broken = TRUE]
        BY <3>1, BrokenRest
      <3>. QED  BY <1>1, <2>2, <3>1 DEF Rest
    <2>. QED  BY <1>5, <2>1, <2>3, <1>10, SettleWaits
  <1>11. CASE Presses \/ HostStep
    <2>1. UNCHANGED <<ops, upload, sent>>
      BY <1>11, HostStepKeeps DEF Presses, session
    <2>. QED  BY <1>1, <1>5, <2>1 DEF Rest, Waiting
  <1>. QED  BY <1>5, <1>6, <1>7, <1>8, <1>9, <1>10, <1>11, StepKinds

LEMMA SentBounded ==
    ASSUME Types, RoomInv, [Next]_vars
    PROVE  sent' <= MaxOps * Parts
  <1> PICK s1 \in Nat : s1 = sent'
    BY RoomStep
  <1> PICK r \in Nat : r = Rest'
    BY UploadTypeStep DEF UploadType, Rest, Upload
  <1> PICK l \in Nat : l = Len(ops') /\ l <= MaxOps
    BY OpsStep, LenProperties DEF OpsType
  <1> PICK w \in Nat : w = Cardinality(Waiting')
    <2>1. Waiting' \subseteq 1..l
      BY OpsStep, LenProperties DEF Waiting, OpsType
    <2>2. IsFiniteSet(1..l)
      BY FS_Interval
    <2>. QED  BY <2>1, <2>2, FS_Subset, FS_CardinalityType
  <1> PICK k \in Nat, a \in Nat, top \in Nat :
             k = PartsOf(w) /\ a = PartsOf(l) /\ top = PartsOf(MaxOps) /\ a <= top
    BY PartsOfType
  <1>1. s1 + (k + r) <= a /\ a <= top
    BY RoomStep DEF RoomInv
  <1>2. s1 <= top
    BY ONLY <1>1
  <1>. QED  BY <1>2 DEF PartsOf

-----------------------------------------------------------------------------
(* Requests, wherever they are *)

Line == {up[i] : i \in DOMAIN up}
Requested == pending \cup Line \cup (IF work = None THEN {} ELSE {work.req})

\* A request knows its operation, and no two have the same number.
RequestsInv ==
    /\ \A r \in Requested : /\ r.id \in 1..sent /\ r.op \in DOMAIN ops
                            /\ r.part = 0 <=> ops[r.op].kind # "picture"
    /\ \A r, s \in Requested : r.id = s.id => r = s

LEMMA LineType ==
    ASSUME Types
    PROVE  /\ DOMAIN up = 1..Len(up) /\ Len(up) \in Nat
           /\ \A i \in DOMAIN up : up[i] \in Request
           /\ Line \subseteq Request
           /\ up # <<>> => 1 \in DOMAIN up /\ Head(up) = up[1] /\ Head(up) \in Line
  <1>1. up \in Seq(Request)
    BY DEF Types, WireType
  <1>2. DOMAIN up = 1..Len(up) /\ Len(up) \in Nat /\ \A i \in DOMAIN up : up[i] \in Request
    BY <1>1, LenProperties, ElementOfSeq
  <1>3. up # <<>> => 1 \in DOMAIN up /\ Head(up) = up[1]
    BY <1>1, <1>2
  <1>. QED  BY <1>2, <1>3 DEF Line

LEMMA WorkType ==
    ASSUME Types, work # None
    PROVE  /\ work \in Work /\ work.req \in Request /\ work.ok \in BOOLEAN
           /\ work.step \in {"put", "paste", "read", "reply"}
  BY DEF Types, HostType, Work

\* What Tail does to the line.
LEMMA TailEffect ==
    ASSUME Types, up # <<>>, up' = Tail(up)
    PROVE  /\ up' \in Seq(Request) /\ Len(up') = Len(up) - 1 /\ Len(up) >= 1
           /\ DOMAIN up' = 1..(Len(up) - 1)
           /\ \A i \in DOMAIN up' : i + 1 \in DOMAIN up /\ up'[i] = up[i + 1]
           /\ \A i \in DOMAIN up : i # 1 => i - 1 \in DOMAIN up' /\ up'[i - 1] = up[i]
           /\ Line' \subseteq Line
  <1>1. up \in Seq(Request) /\ Len(up) \in Nat
    BY LineType DEF Types, WireType
  <1>2. /\ up' \in Seq(Request) /\ Len(up') = Len(up) - 1
        /\ \A i \in 1..Len(up') : up'[i] = up[i + 1]
    BY <1>1, HeadTailProperties
  <1>3. DOMAIN up' = 1..(Len(up) - 1) /\ Len(up) >= 1 /\ DOMAIN up = 1..Len(up)
    <2>1. Len(up') \in Nat /\ DOMAIN up' = 1..Len(up')
      BY <1>2, LenProperties
    <2>. QED  BY <1>1, <1>2, <2>1, LineType
  <1>4. ASSUME NEW i \in DOMAIN up' PROVE i + 1 \in DOMAIN up /\ up'[i] = up[i + 1]
    BY <1>1, <1>2, <1>3, <1>4
  <1>5. ASSUME NEW i \in DOMAIN up, i # 1
        PROVE  i - 1 \in DOMAIN up' /\ up'[i - 1] = up[i]
    <2>1. i - 1 \in DOMAIN up' /\ i - 1 + 1 = i
      BY <1>1, <1>3, <1>5
    <2>. QED  BY <1>4, <2>1
  <1>6. Line' \subseteq Line
    BY <1>4 DEF Line
  <1>. QED  BY <1>2, <1>3, <1>4, <1>5, <1>6

\* Requests for m parts of an operation, the first of them from
Sends(o, from, m) ==
    /\ o \in 1..MaxOps /\ m \in 1..Parts /\ from \in Nat /\ from + m <= Parts + 1
    /\ Send(o, [i \in 1..m |-> from + i - 1])
    /\ UNCHANGED <<open, down, host>>
    /\ \/ /\ from = 0 /\ m = 1 /\ open /\ upload' = upload
          /\ \E e \in Op : /\ ops' = Append(ops, e) /\ Len(ops) < MaxOps /\ o = Len(ops) + 1
                           /\ e.kind # "picture" /\ e.state = "sent"
       \/ /\ from >= 1 /\ upload # None /\ o = upload.op /\ from = upload.next /\ open
          /\ upload' = [upload EXCEPT !.next = from + m] /\ ops' = ops

NewRequest(o, from, i) == [id |-> sent + i, op |-> o, part |-> from + i - 1]

LEMMA NewFields ==
    \A o, from, i : /\ NewRequest(o, from, i).id = sent + i
                   /\ NewRequest(o, from, i).op = o
                   /\ NewRequest(o, from, i).part = from + i - 1
  BY DEF NewRequest

LEMMA SendsEffect ==
    ASSUME Types, RoomInv, [Next]_vars, NEW o, NEW from, NEW m, Sends(o, from, m)
    PROVE  /\ sent' = sent + m
           /\ pending' = pending \cup {NewRequest(o, from, i) : i \in 1..m}
           /\ Len(up) \in Nat /\ Len(up') = Len(up) + m
           /\ DOMAIN up = 1..Len(up) /\ DOMAIN up' = 1..(Len(up) + m)
           /\ \A i \in 1..Len(up) : up'[i] = up[i]
           /\ \A i \in 1..m : up'[Len(up) + i] = NewRequest(o, from, i)
           /\ up' \in Seq(Request)
           /\ \A i \in 1..m : NewRequest(o, from, i) \in Request
  <1> DEFINE parts == [i \in 1..m |-> from + i - 1]
  <1>1. o \in 1..MaxOps /\ m \in 1..Parts /\ from \in Nat /\ from + m <= Parts + 1
    BY DEF Sends
  <1>2. ASSUME NEW i \in 1..m PROVE from + i - 1 \in 0..Parts
    <2>1. Parts \in Nat
      OBVIOUS
    <2>. QED  BY ONLY <1>1, <1>2, <2>1
  <1>3. parts \in [1..m -> 0..Parts] /\ Send(o, parts)
    BY <1>2 DEF Sends
  <1>4. m \in Nat
    BY <1>1
  <1> HIDE DEF parts
  <1>5. /\ sent' = sent + m
        /\ pending' = pending \cup {[id |-> sent + i, op |-> o, part |-> parts[i]] : i \in 1..m}
        /\ Len(up) \in Nat /\ Len(up') = Len(up) + m
        /\ DOMAIN up = 1..Len(up) /\ DOMAIN up' = 1..(Len(up) + m)
        /\ \A i \in 1..Len(up) : up'[i] = up[i]
        /\ \A i \in 1..m : up'[Len(up) + i] = [id |-> sent + i, op |-> o, part |-> parts[i]]
        /\ sent + m <= MaxOps * Parts => up' \in Seq(Request)
    BY <1>1, <1>3, <1>4, SendEffect
  <1>6. \A i \in 1..m : [id |-> sent + i, op |-> o, part |-> parts[i]] = NewRequest(o, from, i)
    BY DEF parts, NewRequest
  <1>7. up' \in Seq(Request)
    BY <1>5, SentBounded
  <1>8. ASSUME NEW i \in 1..m PROVE NewRequest(o, from, i) \in Request
    <2>1. Len(up) + i \in 1..Len(up')
      BY <1>4, <1>5
    <2>2. up'[Len(up) + i] \in Request
      BY <1>7, <2>1, ElementOfSeq
    <2>. QED  BY <1>5, <1>6, <2>2
  <1>9. pending' = pending \cup {NewRequest(o, from, i) : i \in 1..m}
    BY <1>5, <1>6
  <1>. QED  BY <1>5, <1>6, <1>7, <1>8, <1>9

\* Every step sends, or leaves the numbers alone.
LEMMA SendKinds ==
    ASSUME Types, [Next]_vars
    PROVE  \/ \E o \in 1..MaxOps, from \in 0..Parts, m \in 1..Parts : Sends(o, from, m)
           \/ /\ sent' = sent /\ pending' \subseteq pending
              /\ \/ up' = up
                 \/ up # <<>> /\ up' = Tail(up) /\ \E good \in BOOLEAN : Take(good)
                 \/ up' = <<>> /\ ~open'
              /\ upload # None /\ upload' # None => upload'.next = upload.next
                                                    /\ upload'.op = upload.op
  <1>1. ASSUME NEW kind \in Kinds, NEW from \in 0..MaxOps, Starts(kind, from)
        PROVE  \/ Sends(Len(ops) + 1, 0, 1)
               \/ UNCHANGED <<sent, pending, up, upload>>
    <2>1. PICK e \in Op :
              /\ e.kind = kind
              /\ ops' = Append(ops, e) /\ Len(ops) < MaxOps
              /\ \/ UNCHANGED <<pending, up, sent>>
                 \/ kind # "picture" /\ e.state = "sent" /\ open /\ Send(Len(ops) + 1, <<0>>)
              /\ UNCHANGED <<open, upload, down, host>>
      BY <1>1, StartEffect DEF Starts
    <2>2. <<0>> = [i \in 1..1 |-> 0 + i - 1]
      OBVIOUS
    <2>3. Len(ops) + 1 \in 1..MaxOps
      BY <2>1, LenProperties DEF Types, OpsType
    <2>4. 1 \in 1..Parts /\ 0 + 1 <= Parts + 1
      OBVIOUS
    <2>. QED  BY <2>1, <2>2, <2>3, <2>4 DEF Sends
  <1>2. CASE SendWindow
    <2>1. upload # None /\ upload \in Upload /\ upload.op \in 1..MaxOps
      BY <1>2, UploadTypes DEF SendWindow, WindowDone
    <2>2. CASE open
      <3>. PICK n \in 1..Parts : /\ upload.next + n <= Parts + 1
                                 /\ upload' = [upload EXCEPT !.next = upload.next + n]
                                 /\ Send(upload.op, [i \in 1..n |-> upload.next + i - 1])
        BY <1>2, <2>2, WindowEffect
      <3>1. upload.next \in 1..Parts
        BY <1>2, <2>1 DEF SendWindow, Upload
      <3>2. Sends(upload.op, upload.next, n)
        BY <1>2, <2>1, <2>2, <3>1 DEF SendWindow, Sends
      <3>3. upload.next \in 0..Parts
        BY <3>1
      <3>4. \E o \in 1..MaxOps, from \in 0..Parts, m \in 1..Parts : Sends(o, from, m)
        BY <2>1, <3>2, <3>3, Zenon
      <3>. QED  BY <3>4
    <2>3. CASE ~open
      <3>1. upload' = [upload EXCEPT !.broken = TRUE] /\ UNCHANGED <<pending, up, sent>>
        BY <1>2, <2>3 DEF SendWindow
      <3>. QED  BY <2>1, <3>1 DEF Upload
    <2>. QED  BY <2>2, <2>3
  <1>3. CASE Settles
    <2>1. UNCHANGED <<sent, up>> /\ pending' \subseteq pending
      BY <1>3 DEF Settles, Settle
    <2>2. \/ upload' = upload
          \/ upload # None /\ upload' = [upload EXCEPT !.broken = TRUE]
      BY <1>3 DEF Settles, Settle
    <2>. QED  BY <2>1, <2>2, UploadTypes DEF Upload
  <1>4. CASE HostStep
    <2>1. UNCHANGED <<sent, pending, upload>>
      BY <1>4, HostStepKeeps
    <2>2. \/ up' = up
          \/ up' = <<>> /\ ~open'
          \/ up # <<>> /\ up' = Tail(up) /\ \E good \in BOOLEAN : Take(good)
      <3>1. ASSUME NEW good \in BOOLEAN, Take(good) PROVE up # <<>> /\ up' = Tail(up)
        BY <3>1 DEF Take
      <3>2. PutPicture \/ PutText \/ Reply \/ EndService => up' = up \/ (up' = <<>> /\ ~open)
        BY DEF PutPicture, PutText, Reply, EndService
      <3>4. open' = open
        BY <1>4, HostStepKeeps
      <3>3. \A ok \in BOOLEAN : Paste(ok) \/ Read(ok) => up' = up
        BY DEF Paste, Read
      <3>. QED  BY <1>4, <3>1, <3>2, <3>3, <3>4 DEF HostStep
    <2>. QED  BY <2>1, <2>2
  <1>5. CASE EndUpload \/ Presses \/ \E o \in Waiting : StartUpload(o)
    <2>1. UNCHANGED <<sent, pending, up>>
      BY <1>5 DEF EndUpload, Presses, StartUpload, session
    <2>2. upload # None /\ upload' # None => upload' = upload
      BY <1>5 DEF EndUpload, Presses, StartUpload, session
    <2>. QED  BY <2>1, <2>2
  <1>6. Len(ops) < MaxOps => Len(ops) + 1 \in 1..MaxOps /\ 0 \in 0..Parts /\ 1 \in 1..Parts
    BY LenProperties DEF Types, OpsType
  <1>7. \A kind, from : Starts(kind, from) => Len(ops) < MaxOps
    BY DEF Starts, Start
  <1>. QED  BY <1>1, <1>2, <1>3, <1>4, <1>5, <1>6, <1>7, StepKinds

\* What is asked for: nothing new, or the parts that are sent.
LEMMA RequestedStep ==
    ASSUME Types, RoomInv, [Next]_vars
    PROVE  \/ sent' = sent /\ Line' \subseteq Line /\ Requested' \subseteq Requested
           \/ \E o \in 1..MaxOps, from \in 0..Parts, m \in 1..Parts :
                 /\ Sends(o, from, m)
                 /\ Line' = Line \cup {NewRequest(o, from, i) : i \in 1..m}
                 /\ Requested' = Requested \cup {NewRequest(o, from, i) : i \in 1..m}
  <1>1. ASSUME NEW o \in 1..MaxOps, NEW from \in 0..Parts, NEW m \in 1..Parts,
               Sends(o, from, m)
        PROVE  /\ Line' = Line \cup {NewRequest(o, from, i) : i \in 1..m}
               /\ Requested' = Requested \cup {NewRequest(o, from, i) : i \in 1..m}
    <2> DEFINE New == {NewRequest(o, from, i) : i \in 1..m}
    <2>1. /\ pending' = pending \cup New
          /\ Len(up) \in Nat
          /\ DOMAIN up = 1..Len(up) /\ DOMAIN up' = 1..(Len(up) + m)
          /\ \A i \in 1..Len(up) : up'[i] = up[i]
          /\ \A i \in 1..m : up'[Len(up) + i] = NewRequest(o, from, i)
      BY <1>1, SendsEffect
    <2>2. Line' \subseteq Line \cup New
      <3>1. ASSUME NEW i \in DOMAIN up' PROVE up'[i] \in Line \cup New
        <4>1. CASE i \in 1..Len(up)
          BY <2>1, <4>1 DEF Line
        <4>2. CASE i \notin 1..Len(up)
          <5>1. i - Len(up) \in 1..m /\ i = Len(up) + (i - Len(up))
            BY <2>1, <3>1, <4>2
          <5>. QED  BY <2>1, <5>1
        <4>. QED  BY <4>1, <4>2
      <3>. QED  BY <3>1 DEF Line
    <2>3. Line \subseteq Line'
      <3>1. ASSUME NEW i \in DOMAIN up PROVE up[i] \in Line'
        <4>1. i \in DOMAIN up' /\ up'[i] = up[i]
          BY <2>1, <3>1
        <4>. QED  BY <4>1 DEF Line
      <3>. QED  BY <3>1 DEF Line
    <2>4. New \subseteq Line'
      <3>1. ASSUME NEW i \in 1..m PROVE NewRequest(o, from, i) \in Line'
        <4>1. Len(up) + i \in DOMAIN up' /\ up'[Len(up) + i] = NewRequest(o, from, i)
          BY <2>1, <3>1
        <4>. QED  BY <4>1 DEF Line
      <3>. QED  BY <3>1
    <2>5. work' = work
      BY <1>1 DEF Sends, host
    <2> HIDE DEF New
    <2>6. Line' = Line \cup New
      BY <2>2, <2>3, <2>4
    <2>7. Requested' = Requested \cup New
      BY <2>1, <2>5, <2>6 DEF Requested
    <2>. QED  BY <2>6, <2>7 DEF New
  <1>2. CASE /\ sent' = sent /\ pending' \subseteq pending
             /\ \/ up' = up
                \/ up # <<>> /\ up' = Tail(up)
                \/ up' = <<>>
    <2>1. Line' \subseteq Line
      <3>1. CASE up' = <<>>
        BY <3>1 DEF Line
      <3>2. CASE up' = up
        BY <3>2 DEF Line
      <3>. QED  BY <1>2, <3>1, <3>2, TailEffect
    <2>2. work' # None => (work # None /\ work'.req = work.req) \/ work'.req \in Line
      <3>1. CASE HostStep
        <4>1. ASSUME NEW good \in BOOLEAN, Take(good) PROVE work'.req \in Line
          <5> DEFINE r == Head(up)
          <5>1. \/ \E step, ok : Works(r, step, ok)
            BY <4>1 DEF Take, TakePart
          <5>2. r \in Line
            BY <4>1, LineType DEF Take
          <5>. QED  BY <5>1, <5>2 DEF Works
        <4>2. CASE PutPicture \/ PutText \/ \E ok \in BOOLEAN : Paste(ok) \/ Read(ok)
          <5>1. work # None /\ \/ \E ok : Replies(ok)
                               \/ \E step, ok : Works(work.req, step, ok)
            BY <4>2 DEF PutPicture, PutText, Paste, Read, NotPut, FailToPut
          <5>2. work # None => [work EXCEPT !.step = work.step].req = work.req
            BY WorkType DEF Work
          <5>3. \A ok : Replies(ok) /\ work # None => work'.req = work.req
            BY WorkType DEF Replies, Work
          <5>. QED  BY <5>1, <5>3 DEF Works
        <4>3. CASE Reply \/ EndService
          BY <4>3 DEF Reply, EndService, host
        <4>. QED  BY <3>1, <4>1, <4>2, <4>3 DEF HostStep
      <3>2. ~HostStep => work' = work
        BY StepKinds DEF Presses, Starts, Start, StartUpload, SendWindow, EndUpload, Settles, host
      <3>. QED  BY <3>1, <3>2
    <2>3. Requested' \subseteq Requested
      <3>1. (IF work' = None THEN {} ELSE {work'.req}) \subseteq Requested
        BY <2>2 DEF Requested
      <3>. QED  BY <1>2, <2>1, <3>1 DEF Requested
    <2>. QED  BY <1>2, <2>1, <2>3
  <1>. QED  BY <1>1, <1>2, SendKinds

\* What has reached the clipboard, and what was asked of an operation
OnClipboard(o) == \E p \in put : p[1] = o

OpDone(o) ==
    /\ ops[o].kind \in {"text", "paste", "picture"} => o \in pasted
    /\ ops[o].kind \in {"text", "send", "picture"} => OnClipboard(o)

\* A request that asks for the whole operation has been served.
Done(r) == r.part \in {0, Parts} => OpDone(r.op)

\* A picture that is being sent is done when its last part is not missed.
UploadInv ==
    upload # None =>
       /\ ops[upload.op].kind = "picture" /\ ops[upload.op].state = "sent"
       /\ ~upload.broken /\ upload.next = Parts + 1 =>
             OpDone(upload.op) \/ \E r \in pending : r.op = upload.op /\ r.part = Parts

LEMMA RequestsStep ==
    ASSUME Types, RoomInv, RequestsInv, UploadInv, [Next]_vars
    PROVE  RequestsInv'
  <1>0. sent \in Nat /\ SameOps
    BY OpsStep DEF Types, WireType
  <1>1. CASE sent' = sent /\ Requested' \subseteq Requested
    <2>1. ASSUME NEW r \in Requested'
          PROVE  /\ r.id \in 1..sent' /\ r.op \in DOMAIN ops'
                 /\ r.part = 0 <=> ops'[r.op].kind # "picture"
      <3>1. /\ r.id \in 1..sent /\ r.op \in DOMAIN ops
            /\ r.part = 0 <=> ops[r.op].kind # "picture"
        BY <1>1, <2>1 DEF RequestsInv
      <3>. QED  BY <1>0, <1>1, <3>1 DEF SameOps
    <2>2. \A r, s \in Requested' : r.id = s.id => r = s
      BY <1>1 DEF RequestsInv
    <2>. QED  BY <2>1, <2>2 DEF RequestsInv
  <1>2. ASSUME NEW o \in 1..MaxOps, NEW from \in 0..Parts, NEW m \in 1..Parts,
               Sends(o, from, m),
               Requested' = Requested \cup {NewRequest(o, from, i) : i \in 1..m}
        PROVE  RequestsInv'
    <2>1. sent' = sent + m
      BY <1>2, SendsEffect
    <2>2. ASSUME NEW i \in 1..m
          PROVE  /\ NewRequest(o, from, i).id = sent + i
                 /\ NewRequest(o, from, i).op = o
                 /\ NewRequest(o, from, i).part = from + i - 1
      BY DEF NewRequest
    <2>3. /\ o \in DOMAIN ops'
          /\ \/ from = 0 /\ m = 1 /\ ops'[o].kind # "picture"
             \/ from >= 1 /\ ops'[o].kind = "picture"
      <3>1. CASE /\ from = 0 /\ m = 1
                 /\ \E e \in Op : /\ ops' = Append(ops, e) /\ Len(ops) < MaxOps /\ o = Len(ops) + 1
                                  /\ e.kind # "picture" /\ e.state = "sent"
        <4>1. Len(ops) + 1 \in 1..(Len(ops) + 1)
          BY LenProperties DEF Types, OpsType
        <4>2. PICK e \in Op : /\ ops' = Append(ops, e) /\ Len(ops) < MaxOps
                               /\ o = Len(ops) + 1 /\ e.kind # "picture"
          BY <3>1
        <4>3. ops'[o] = e /\ o \in DOMAIN ops'
          BY <4>1, <4>2, AppendOps
        <4>4. from = 0 /\ m = 1
          BY <3>1
        <4>. QED  BY <4>2, <4>3, <4>4
      <3>2. CASE from >= 1 /\ upload # None /\ o = upload.op /\ ops' = ops
        <4>1. ops[o].kind = "picture" /\ o \in DOMAIN ops
          BY <3>2, UploadTypes DEF UploadInv
        <4>. QED  BY <3>2, <4>1
      <3>. QED  BY <1>2, <3>1, <3>2 DEF Sends
    <2>4. ASSUME NEW i \in 1..m
          PROVE  LET r == NewRequest(o, from, i)
                 IN /\ r.id \in 1..sent' /\ r.op \in DOMAIN ops'
                    /\ r.part = 0 <=> ops'[r.op].kind # "picture"
                    /\ r.id > sent
      <3>1. sent + i \in 1..(sent + m) /\ sent + i > sent
        BY <1>0
      <3>2. from + i - 1 = 0 <=> from = 0 /\ m = 1
        BY <2>3
      <3>. QED  BY <2>1, <2>2, <2>3, <3>1, <3>2
    <2>5. ASSUME NEW r \in Requested
          PROVE  /\ r.id \in 1..sent' /\ r.id <= sent /\ r.op \in DOMAIN ops'
                 /\ r.part = 0 <=> ops'[r.op].kind # "picture"
      <3>1. /\ r.id \in 1..sent /\ r.op \in DOMAIN ops
            /\ r.part = 0 <=> ops[r.op].kind # "picture"
        BY DEF RequestsInv
      <3>2. r.op \in DOMAIN ops' /\ ops'[r.op].kind = ops[r.op].kind
        BY <3>1, OpsStep DEF SameOps
      <3>3. r.id \in 1..sent' /\ r.id <= sent
        <4>1. r.id \in 1..sent
          BY <3>1
        <4>2. sent' = sent + m
          BY <2>1
        <4>. QED  BY <1>0, <4>1, <4>2
      <3>. QED  BY <3>1, <3>2, <3>3
    <2>6. ASSUME NEW i \in 1..m, NEW j \in 1..m,
                 NewRequest(o, from, i).id = NewRequest(o, from, j).id
          PROVE  NewRequest(o, from, i) = NewRequest(o, from, j)
      <3>1. i = j
        BY <1>0, <2>2, <2>6
      <3>. QED  BY <3>1
    <2>7. ASSUME NEW r \in Requested, NEW i \in 1..m
          PROVE  r.id # NewRequest(o, from, i).id
      <3>1. r.id <= sent /\ r.id \in Nat
        BY <2>5, <1>0
      <3>. QED  BY <1>0, <2>4, <3>1
    <2>8. \A r, s \in Requested : r.id = s.id => r = s
      BY DEF RequestsInv
    <2>9. \A r, s \in Requested' : r.id = s.id => r = s
      BY <1>2, <2>6, <2>7, <2>8
    <2>10. \A r \in Requested' : /\ r.id \in 1..sent' /\ r.op \in DOMAIN ops'
                                 /\ r.part = 0 <=> ops'[r.op].kind # "picture"
      BY <1>2, <2>4, <2>5
    <2>. QED  BY ONLY <2>9, <2>10 DEF RequestsInv
  <1>. QED  BY <1>1, <1>2, RequestedStep

-----------------------------------------------------------------------------
(* The request that is being served *)

LEMMA RepliesEffect ==
    ASSUME Types, work # None, NEW ok \in BOOLEAN, Replies(ok)
    PROVE  Works(work.req, "reply", ok)
  BY WorkType DEF Replies, Works, Work

LEMMA WorksEffect ==
    ASSUME NEW r \in Request, NEW step \in {"put", "paste", "read", "reply"},
           NEW ok \in BOOLEAN, Works(r, step, ok)
    PROVE  /\ work' \in Work /\ work' # None
           /\ work'.req = r /\ work'.step = step /\ work'.ok = ok
  BY NoneAssumption DEF Works, Work

\* What taking a request does to the buffer and to the work.
LEMMA TakeEffect ==
    ASSUME Types, RequestsInv, NEW good \in BOOLEAN, Take(good)
    PROVE  /\ work = None /\ up # <<>> /\ up' = Tail(up) /\ 1 \in DOMAIN up
           /\ up[1] \in Request /\ up[1] \in Line /\ up[1] \in Requested
           /\ up[1].op \in DOMAIN ops
           /\ faults' \in 0..MaxFaults /\ UNCHANGED <<down, clip, put, pasted>>
           /\ \/ /\ up[1].part = 0 /\ ops[up[1].op].kind # "picture" /\ buffer' = buffer
                 /\ \/ Works(up[1], StepOf(ops[up[1].op].kind), TRUE)
                    \/ Works(up[1], "reply", FALSE)
              \/ /\ up[1].part > 0 /\ ops[up[1].op].kind = "picture"
                 /\ \/ /\ buffer' = Collected(up[1]) /\ Len(Collected(up[1])) <= MaxParts
                       /\ Works(up[1], IF up[1].part = Parts THEN "put" ELSE "reply", TRUE)
                    \/ buffer' = <<>> /\ Works(up[1], "reply", FALSE)
  <1>1. work = None /\ up # <<>> /\ up' = Tail(up) /\ UNCHANGED <<down, clip, put, pasted>>
    BY DEF Take
  <1>2. 1 \in DOMAIN up /\ Head(up) = up[1] /\ up[1] \in Request /\ up[1] \in Line
    BY <1>1, LineType
  <1>3. up[1] \in Requested
    BY <1>2 DEF Requested
  <1>4. up[1].op \in DOMAIN ops /\ (up[1].part = 0 <=> ops[up[1].op].kind # "picture")
    BY <1>3 DEF RequestsInv
  <1>5. faults' \in 0..MaxFaults
    <2>1. faults \in 0..MaxFaults
      BY DEF Types, HostType
    <2>. QED  BY <2>1 DEF Take
  <1>6. up[1].part \in 0..Parts
    BY <1>2 DEF Request
  <1>7. CASE up[1].part = 0
    <2>1. /\ buffer' = buffer
          /\ \/ Works(up[1], StepOf(ops[up[1].op].kind), TRUE)
             \/ Works(up[1], "reply", FALSE)
      <3>1. ~(Head(up).part > 0) /\ Head(up) = up[1]
        BY <1>2, <1>7
      <3>. QED  BY <3>1 DEF Take
    <2>. QED  BY <1>1, <1>2, <1>3, <1>4, <1>5, <1>7, <2>1
  <1>8. CASE up[1].part > 0
    <2>1. TakePart(up[1], good)
      BY <1>2, <1>8 DEF Take
    <2>2. \/ /\ buffer' = Collected(up[1]) /\ Len(Collected(up[1])) <= MaxParts
             /\ Works(up[1], IF up[1].part = Parts THEN "put" ELSE "reply", TRUE)
          \/ buffer' = <<>> /\ Works(up[1], "reply", FALSE)
      BY <2>1 DEF TakePart, RefusedBuffer
    <2>3. ops[up[1].op].kind = "picture"
      BY <1>4, <1>6, <1>8
    <2>. QED  BY <1>1, <1>2, <1>3, <1>4, <1>5, <1>8, <2>2, <2>3
  <1>9. up[1].part = 0 \/ up[1].part > 0
    BY <1>6
  <1>. QED  BY <1>7, <1>8, <1>9

\* What serving it does.
Serves ==
    /\ work # None /\ UNCHANGED <<up, down, faults>>
    /\ work.req \in Request /\ work.req \in Requested /\ work.req.op \in DOMAIN ops
    /\ \/ /\ work.step = "put" /\ work.req.part > 0 /\ Decodes(buffer) /\ buffer' = <<>>
          /\ put' = put \cup {<<work.req.op, buffer>>} /\ clip' = work.req.op
          /\ pasted' = pasted /\ Works(work.req, "paste", TRUE)
       \/ /\ work.step = "put" /\ work.req.part > 0 /\ buffer' = <<>>
          /\ put' = put /\ clip' \in {clip, None} /\ pasted' = pasted
          /\ Works(work.req, "reply", FALSE)
       \/ /\ work.step = "put" /\ work.req.part = 0 /\ buffer' = buffer /\ pasted' = pasted
          /\ put' = put \cup {<<work.req.op, <<>>>>} /\ clip' = work.req.op
          /\ \/ ops[work.req.op].kind = "send" /\ Works(work.req, "reply", TRUE)
             \/ ops[work.req.op].kind # "send" /\ Works(work.req, "paste", TRUE)
       \/ /\ work.step = "put" /\ work.req.part = 0 /\ buffer' = buffer /\ pasted' = pasted
          /\ put' = put /\ clip' \in {clip, None} /\ Works(work.req, "reply", FALSE)
       \/ /\ work.step = "paste" /\ UNCHANGED <<buffer, clip, put>>
          /\ \/ pasted' = pasted \cup {work.req.op} /\ Works(work.req, "reply", TRUE)
             \/ pasted' = pasted /\ Works(work.req, "reply", FALSE)
       \/ /\ work.step = "read" /\ UNCHANGED <<buffer, clip, put, pasted>>
          /\ \E ok \in BOOLEAN : Works(work.req, "reply", ok)

LEMMA ServeSteps ==
    ASSUME Types, RequestsInv,
           PutPicture \/ PutText \/ \E ok \in BOOLEAN : Paste(ok) \/ Read(ok)
    PROVE  Serves
  <1>1. work # None /\ UNCHANGED <<up, down, faults>>
    BY DEF PutPicture, PutText, Paste, Read, NotPut
  <1>2. work.req \in Request /\ work.req \in Requested /\ work.req.op \in DOMAIN ops
    <2>1. work.req \in Requested
      BY <1>1 DEF Requested
    <2>. QED  BY <1>1, <2>1, WorkType DEF RequestsInv
  <1>3. \A ok \in BOOLEAN : Replies(ok) => Works(work.req, "reply", ok)
    BY <1>1, RepliesEffect
  <1>4. CASE PutPicture
    <2>1. /\ work.step = "put" /\ work.req.part > 0 /\ buffer' = <<>> /\ pasted' = pasted
          /\ \/ /\ Decodes(buffer) /\ put' = put \cup {<<work.req.op, buffer>>}
                /\ clip' = work.req.op /\ Works(work.req, "paste", TRUE)
             \/ put' = put /\ clip' \in {clip, None} /\ Replies(FALSE)
      BY <1>4 DEF PutPicture, NotPut, FailToPut, IsPut
    <2>. QED  BY <1>1, <1>2, <1>3, <2>1 DEF Serves
  <1>5. CASE PutText
    <2>1. /\ work.step = "put" /\ work.req.part = 0 /\ buffer' = buffer /\ pasted' = pasted
          /\ \/ /\ put' = put \cup {<<work.req.op, <<>>>>} /\ clip' = work.req.op
                /\ \/ ops[work.req.op].kind = "send" /\ Replies(TRUE)
                   \/ ops[work.req.op].kind # "send" /\ Works(work.req, "paste", TRUE)
             \/ put' = put /\ clip' \in {clip, None} /\ Replies(FALSE)
      BY <1>5 DEF PutText, NotPut, FailToPut, IsPut
    <2>. QED  BY <1>1, <1>2, <1>3, <2>1 DEF Serves
  <1>6. ASSUME NEW ok \in BOOLEAN, Paste(ok) PROVE Serves
    <2>1. /\ work.step = "paste" /\ UNCHANGED <<buffer, clip, put>> /\ Replies(ok)
          /\ pasted' = IF ok THEN pasted \cup {work.req.op} ELSE pasted
      BY <1>6 DEF Paste
    <2>2. CASE ok = TRUE
      BY <1>1, <1>2, <1>3, <2>1, <2>2 DEF Serves
    <2>3. CASE ok = FALSE
      BY <1>1, <1>2, <1>3, <2>1, <2>3 DEF Serves
    <2>. QED  BY <2>2, <2>3
  <1>7. ASSUME NEW ok \in BOOLEAN, Read(ok) PROVE Serves
    <2>1. work.step = "read" /\ UNCHANGED <<buffer, clip, put, pasted>> /\ Replies(ok)
      BY <1>7 DEF Read
    <2>. QED  BY <1>1, <1>2, <1>3, <2>1 DEF Serves
  <1>. QED  BY <1>4, <1>5, <1>6, <1>7

\* Every step of the Host.
LEMMA HostKinds ==
    ASSUME Types, RequestsInv, HostStep
    PROVE  (\E good \in BOOLEAN : Take(good)) \/ Serves \/ Reply \/ EndService
  BY ServeSteps DEF HostStep

\* The page's steps leave the Host alone; a copy on the Host is not one of these.
LEMMA HostKept ==
    ASSUME Types, [Next]_vars, ~HostStep
    PROVE  UNCHANGED <<buffer, work, put, pasted, faults>> /\ clip' \in {clip, 0}
  <1>1. CASE User
    <2>1. \A kind, from : Start(kind, from) => UNCHANGED host
      BY DEF Start
    <2>. QED  BY <1>1, <2>1 DEF User, PressForHost, PressForBrowser, Deliver, PasteEvent,
                              ReadAnswers, ReadFails, Copy, Blur, Toolbar, host
  <1>2. CASE Page \/ TimeOut \/ Close
    BY <1>2 DEF Page, StartUpload, SendWindow, EndUpload, OnAnswer, TimeOut, Close, host
  <1>3. CASE UNCHANGED vars
    BY <1>3 DEF vars, host
  <1>. QED  BY <1>1, <1>2, <1>3 DEF Next, Host, HostStep

LEMMA CollectedEffect ==
    ASSUME Types, NEW r \in Request, r.part > 0
    PROVE  /\ Collected(r) \in Seq(Part) /\ Collected(r) # <<>>
           /\ Collected(r)[Len(Collected(r))] = [op |-> r.op, part |-> r.part]
           /\ r.part = 1 \/ buffer = <<>> => Len(Collected(r)) = 1
           /\ r.part # 1 =>
                /\ Len(Collected(r)) = Len(buffer) + 1
                /\ \A i \in 1..Len(buffer) : Collected(r)[i] = buffer[i]
  <1>1. [op |-> r.op, part |-> r.part] \in Part
    BY DEF Request, Part
  <1> DEFINE q == IF r.part = 1 THEN <<>> ELSE buffer
  <1>2. q \in Seq(Part) /\ Len(q) \in Nat /\ (r.part = 1 \/ buffer = <<>> => Len(q) = 0)
    BY EmptySeq, LenProperties DEF Types, HostType
  <1>3. Collected(r) = Append(q, [op |-> r.op, part |-> r.part])
    BY DEF Collected
  <1>4. r.part # 1 => q = buffer
    OBVIOUS
  <1> HIDE DEF q
  <1>. QED  BY <1>1, <1>2, <1>3, <1>4, AppendProperties

LEMMA HostTypeStep ==
    ASSUME Types, RequestsInv, [Next]_vars
    PROVE  HostType'
  <1>0. \A o \in DOMAIN ops : o \in DOMAIN ops'
    BY OpsStep DEF SameOps
  <1>1. /\ buffer \in Seq(Part) /\ Len(buffer) <= MaxParts /\ work \in Work \cup {None}
        /\ clip \in {None, 0} \cup DOMAIN ops /\ pasted \subseteq DOMAIN ops
        /\ \A p \in put : p[1] \in DOMAIN ops
        /\ faults \in 0..MaxFaults
    BY DEF Types, HostType
  <1>2. CASE ~HostStep
    BY <1>0, <1>1, <1>2, HostKept DEF HostType
  <1>3. ASSUME NEW good \in BOOLEAN, Take(good) PROVE HostType'
    <2>1. work' \in Work
      <3>1. StepOf(ops[up[1].op].kind) \in {"put", "paste", "read", "reply"}
        BY DEF StepOf
      <3>2. up[1] \in Request /\ \E step \in {"put", "paste", "read", "reply"}, ok \in BOOLEAN :
                                    Works(up[1], step, ok)
        BY <1>3, <3>1, TakeEffect
      <3>. QED  BY <3>2, WorksEffect
    <2>2. buffer' \in Seq(Part) /\ Len(buffer') <= MaxParts
      <3>1. Len(<<>>) <= MaxParts /\ <<>> \in Seq(Part)
        BY EmptySeq
      <3>2. up[1] \in Request
        BY <1>3, TakeEffect
      <3>. QED  BY <1>1, <1>3, <3>1, <3>2, TakeEffect, CollectedEffect
    <2>3. faults' \in 0..MaxFaults /\ UNCHANGED <<clip, put, pasted>>
      BY <1>3, TakeEffect
    <2>. QED  BY <1>0, <1>1, <2>1, <2>2, <2>3 DEF HostType
  <1>4. CASE Serves
    <2>1. work' \in Work
      <3>1. work.req \in Request /\ \E step \in {"put", "paste", "read", "reply"}, ok \in BOOLEAN :
                                       Works(work.req, step, ok)
        BY <1>4 DEF Serves
      <3>. QED  BY <3>1, WorksEffect
    <2>2. buffer' \in Seq(Part) /\ Len(buffer') <= MaxParts
      <3>1. Len(<<>>) <= MaxParts /\ <<>> \in Seq(Part)
        BY EmptySeq
      <3>. QED  BY <1>1, <1>4, <3>1 DEF Serves
    <2>3. clip' \in {clip, None, work.req.op} /\ work.req.op \in DOMAIN ops
      BY <1>4 DEF Serves
    <2>4. pasted' \subseteq pasted \cup {work.req.op} /\ faults' = faults
      BY <1>4 DEF Serves
    <2>5. \A p \in put' : p \in put \/ p[1] = work.req.op
      <3>1. \E x : put' \subseteq put \cup {<<work.req.op, x>>}
        BY <1>4 DEF Serves
      <3>2. \A x : <<work.req.op, x>>[1] = work.req.op
        OBVIOUS
      <3>. QED  BY <3>1, <3>2
    <2>6. clip' \in {None, 0} \cup DOMAIN ops'
      BY <1>0, <1>1, <2>3
    <2>7. pasted' \subseteq DOMAIN ops' /\ faults' \in 0..MaxFaults
      BY <1>0, <1>1, <2>3, <2>4
    <2>8. \A p \in put' : p[1] \in DOMAIN ops'
      BY <1>0, <1>1, <2>3, <2>5
    <2>. QED  BY <2>1, <2>2, <2>6, <2>7, <2>8 DEF HostType
  <1>5. CASE Reply \/ EndService
    <2>1. work' \in {work, None} /\ UNCHANGED <<buffer, clip, put, pasted, faults>>
      BY <1>5 DEF Reply, EndService, host
    <2>. QED  BY <1>0, <1>1, <2>1 DEF HostType
  <1>. QED  BY <1>2, <1>3, <1>4, <1>5, HostKinds

LEMMA WireStep ==
    ASSUME Types, RoomInv, [Next]_vars
    PROVE  WireType'
  <1>1. sent \in Nat /\ pending \subseteq Request /\ up \in Seq(Request) /\ down \in Seq(Answer)
    BY DEF Types, WireType
  <1>2. sent' \in Nat
    BY RoomStep
  <1>3. pending' \subseteq Request /\ up' \in Seq(Request)
    <2>1. ASSUME NEW o \in 1..MaxOps, NEW from \in 0..Parts, NEW m \in 1..Parts,
                 Sends(o, from, m)
          PROVE  pending' \subseteq Request /\ up' \in Seq(Request)
      BY <1>1, <2>1, SendsEffect
    <2>. QED  BY <1>1, <2>1, SendKinds, TailEffect, EmptySeq
  <1>4. down' \in Seq(Answer)
    <2>1. CASE Settles
      <3>1. down' = down \/ (down # <<>> /\ down' = Tail(down))
        BY <2>1 DEF Settles
      <3>. QED  BY <1>1, <3>1, HeadTailProperties
    <2>2. CASE Reply
      <3>1. work.req \in Request /\ work.ok \in BOOLEAN
        BY <2>2, WorkType DEF Reply
      <3>2. [id |-> work.req.id, ok |-> work.ok] \in Answer
        BY <3>1 DEF Request, Answer
      <3>3. Append(down, [id |-> work.req.id, ok |-> work.ok]) \in Seq(Answer)
        BY <1>1, <3>2, AppendProperties
      <3>. QED  BY <1>1, <2>2, <3>3 DEF Reply
    <2>3. CASE HostStep /\ ~Reply
      <3>1. down' = down
        BY <2>3 DEF HostStep, Take, Paste, Read, PutPicture, PutText, EndService
      <3>. QED  BY <1>1, <3>1
    <2>4. ~Settles /\ ~HostStep => down' = down
      BY StepKinds DEF Presses, Starts, Start, StartUpload, SendWindow, EndUpload
    <2>. QED  BY <1>1, <2>1, <2>2, <2>3, <2>4
  <1>. QED  BY <1>2, <1>3, <1>4 DEF WireType

LEMMA TypesStep ==
    ASSUME Types, RoomInv, RequestsInv, [Next]_vars
    PROVE  Types'
  BY PageStep, OpsStep, UploadTypeStep, WireStep, HostTypeStep DEF Types

-----------------------------------------------------------------------------
(* Answers *)

\* What the Host has done of the request it serves.
WorkInv ==
    work # None =>
       LET k == ops[work.req.op].kind
       IN /\ work.step = "put" => work.req.part = Parts \/ k \in {"send", "text"}
          /\ work.step = "paste" => /\ k \in {"text", "picture"} => OnClipboard(work.req.op)
                                    /\ work.req.part = Parts \/ k \in {"text", "paste"}
          /\ work.step = "read" => k = "read"
          /\ work.step = "reply" /\ work.ok => Done(work.req)

\* A good answer tells the truth of the request it is for.
AnswersInv ==
    \A i \in DOMAIN down : /\ down[i].id \in 1..sent
                           /\ down[i].ok => \A r \in pending : r.id = down[i].id => Done(r)

WaitingArePictures == \A o \in Waiting : ops[o].kind = "picture"

LEMMA MoreIsDone ==
    ASSUME Types, RequestsInv, [Next]_vars
    PROVE  pasted \subseteq pasted' /\ put \subseteq put'
  <1>1. CASE ~HostStep
    BY <1>1, HostKept
  <1>2. CASE Serves
    BY <1>2 DEF Serves
  <1>3. CASE Reply \/ EndService \/ \E good \in BOOLEAN : Take(good)
    BY <1>3 DEF Reply, EndService, Take, host
  <1>. QED  BY <1>1, <1>2, <1>3, HostKinds

LEMMA DoneKept ==
    ASSUME Types, RequestsInv, [Next]_vars, NEW o \in DOMAIN ops
    PROVE  /\ OnClipboard(o) => OnClipboard(o)'
           /\ OpDone(o) => OpDone(o)'
  <1>1. /\ ops'[o].kind = ops[o].kind /\ pasted \subseteq pasted'
        /\ put \subseteq put'
    BY OpsStep, MoreIsDone DEF SameOps
  <1>2. OnClipboard(o) => OnClipboard(o)'
    BY <1>1 DEF OnClipboard
  <1>. QED  BY <1>1, <1>2 DEF OpDone

LEMMA DoneRequestKept ==
    ASSUME Types, RequestsInv, [Next]_vars, NEW r \in Requested, Done(r)
    PROVE  Done(r)'
  BY DoneKept DEF Done, RequestsInv

LEMMA WorkStep ==
    ASSUME Types, RequestsInv, WorkInv, [Next]_vars
    PROVE  WorkInv'
  <1>0. \A o \in DOMAIN ops : ops'[o].kind = ops[o].kind
    BY OpsStep DEF SameOps
  <1>1. CASE work' = work
    <2>1. SUFFICES ASSUME work # None PROVE WorkInv'
      BY <1>1 DEF WorkInv
    <2> PICK w : w = work
      OBVIOUS
    <2>2. w.req \in Requested /\ w.req.op \in DOMAIN ops
      BY <2>1 DEF Requested, RequestsInv
    <2>3. OnClipboard(w.req.op) => OnClipboard(w.req.op)'
      BY <2>2, DoneKept
    <2>4. Done(w.req) => Done(w.req)'
      BY <2>2, DoneRequestKept
    <2>5. ops'[w.req.op].kind = ops[w.req.op].kind /\ work' = w
      BY <1>0, <1>1, <2>2
    <2>. QED  BY <2>1, <2>3, <2>4, <2>5 DEF WorkInv
  <1>2. ASSUME NEW good \in BOOLEAN, Take(good) PROVE WorkInv'
    <2> PICK r \in Request : r = up[1]
      BY <1>2, TakeEffect
    <2>1. r.op \in DOMAIN ops /\ ops'[r.op].kind = ops[r.op].kind /\ ops[r.op].kind \in Kinds
      <3>1. r.op \in DOMAIN ops
        BY <1>2, TakeEffect
      <3>2. ops[r.op] \in Op
        BY <3>1, ElementOfSeq, LenProperties DEF Types, OpsType
      <3>. QED  BY <1>0, <3>1, <3>2 DEF Op
    <2>2. ASSUME Works(r, "reply", FALSE) PROVE WorkInv'
      <3>1. work'.req = r /\ work'.step = "reply" /\ work'.ok = FALSE
        BY <2>2, WorksEffect
      <3>. QED  BY <3>1 DEF WorkInv
    <2>3. CASE r.part = 0 /\ ops[r.op].kind # "picture" /\ Works(r, StepOf(ops[r.op].kind), TRUE)
      <3> DEFINE k == ops[r.op].kind
      <3>1. StepOf(k) \in {"put", "paste", "read", "reply"}
        BY DEF StepOf
      <3>2. work'.req = r /\ work'.step = StepOf(k)
        BY <2>3, <3>1, WorksEffect
      <3>3. /\ StepOf(k) = "put" => k \in {"send", "text"}
            /\ StepOf(k) = "paste" => k = "paste"
            /\ StepOf(k) = "read" => k = "read"
            /\ StepOf(k) # "reply"
        BY <2>1, <2>3 DEF StepOf, Kinds
      <3>. QED  BY <2>1, <3>2, <3>3 DEF WorkInv
    <2>4. CASE r.part > 0 /\ Works(r, IF r.part = Parts THEN "put" ELSE "reply", TRUE)
      <3>1. work'.req = r /\ work'.step = (IF r.part = Parts THEN "put" ELSE "reply")
        BY <2>4, WorksEffect
      <3>2. r.part # Parts => Done(r)'
        BY <2>4 DEF Done, Request
      <3>. QED  BY <3>1, <3>2 DEF WorkInv
    <2>. QED  BY <1>2, <2>2, <2>3, <2>4, TakeEffect
  <1>3. CASE Serves
    <2> PICK r \in Request : r = work.req
      BY <1>3 DEF Serves
    <2>1. /\ r.op \in DOMAIN ops /\ ops'[r.op].kind = ops[r.op].kind
          /\ ops[r.op].kind \in Kinds /\ (r.part = 0 <=> ops[r.op].kind # "picture")
      <3>1. r.op \in DOMAIN ops /\ r \in Requested
        BY <1>3 DEF Serves
      <3>2. ops[r.op] \in Op
        BY <3>1, ElementOfSeq, LenProperties DEF Types, OpsType
      <3>. QED  BY <1>0, <3>1, <3>2 DEF Op, RequestsInv
    <2> DEFINE k == ops[r.op].kind
    <2>2. ASSUME Works(r, "reply", FALSE) PROVE WorkInv'
      <3>1. work'.req = r /\ work'.step = "reply" /\ work'.ok = FALSE
        BY <2>2, WorksEffect
      <3>. QED  BY <3>1 DEF WorkInv
    <2>3. ASSUME Works(r, "reply", TRUE), Done(r)' PROVE WorkInv'
      <3>1. work'.req = r /\ work'.step = "reply"
        BY <2>3, WorksEffect
      <3>. QED  BY <2>3, <3>1 DEF WorkInv
    <2>4. ASSUME Works(r, "paste", TRUE), OnClipboard(r.op)', r.part = Parts \/ k = "text"
          PROVE  WorkInv'
      <3>1. work'.req = r /\ work'.step = "paste"
        BY <2>4, WorksEffect
      <3>. QED  BY <2>1, <2>4, <3>1 DEF WorkInv
    <2>5. ASSUME work.step = "put", NEW x, put' = put \cup {<<r.op, x>>},
                 \/ k = "send" /\ Works(r, "reply", TRUE)
                 \/ k # "send" /\ Works(r, "paste", TRUE)
          PROVE  WorkInv'
      <3>1. OnClipboard(r.op)'
        <4>1. <<r.op, x>> \in put' /\ <<r.op, x>>[1] = r.op
          BY <2>5
        <4>. QED  BY <4>1 DEF OnClipboard
      <3>2. r.part = Parts \/ k \in {"send", "text"}
        BY <1>3, <2>5 DEF WorkInv, Serves
      <3>3. k = "send" => Done(r)'
        BY <2>1, <3>1 DEF Done, OpDone
      <3>. QED  BY <2>3, <2>4, <2>5, <3>1, <3>2, <3>3
    <2>6. CASE work.step = "put"
      <3>1. \/ Works(r, "reply", FALSE)
            \/ \E x : /\ put' = put \cup {<<r.op, x>>}
                      /\ \/ k = "send" /\ Works(r, "reply", TRUE)
                         \/ k # "send" /\ Works(r, "paste", TRUE)
        <4>1. r.part > 0 => k # "send"
          BY <2>1
        <4>. QED  BY <1>3, <2>6, <4>1 DEF Serves
      <3>. QED  BY <2>2, <2>5, <2>6, <3>1
    <2>7. CASE work.step = "paste"
      <3>1. /\ k \in {"text", "picture"} => OnClipboard(r.op)
            /\ r.part = Parts \/ k \in {"text", "paste"}
        BY <1>3, <2>7 DEF WorkInv, Serves
      <3>2. \/ r.op \in pasted' /\ Works(r, "reply", TRUE)
            \/ Works(r, "reply", FALSE)
        BY <1>3, <2>7 DEF Serves
      <3>3. OnClipboard(r.op) => OnClipboard(r.op)'
        BY <2>1, DoneKept
      <3>4. r.part = Parts => k # "send"
        BY <2>1
      <3>5. r.op \in pasted' => Done(r)'
        BY <2>1, <3>1, <3>3, <3>4 DEF Done, OpDone
      <3>. QED  BY <2>2, <2>3, <3>2, <3>5
    <2>8. CASE work.step = "read"
      <3>1. k = "read"
        BY <1>3, <2>8 DEF WorkInv, Serves
      <3>2. Done(r)'
        BY <2>1, <3>1 DEF Done, OpDone
      <3>. QED  BY <1>3, <2>2, <2>3, <2>8, <3>2 DEF Serves
    <2>. QED  BY <1>3, <2>6, <2>7, <2>8 DEF Serves
  <1>4. CASE work' = None
    BY <1>4 DEF WorkInv
  <1>5. HostStep \/ work' = work
    BY HostKept
  <1>. QED  BY <1>1, <1>2, <1>3, <1>4, <1>5, HostKinds DEF Reply, EndService, host

LEMMA NewNumbers ==
    ASSUME Types, RoomInv, [Next]_vars, NEW r \in Requested'
    PROVE  r \in Requested \/ r.id > sent
  <1>1. ASSUME NEW o \in 1..MaxOps, NEW from \in 0..Parts, NEW m \in 1..Parts,
               Requested' = Requested \cup {NewRequest(o, from, i) : i \in 1..m}
        PROVE  r \in Requested \/ r.id > sent
    <2>1. \A i \in 1..m : NewRequest(o, from, i).id > sent
      BY DEF NewRequest, Types, WireType
    <2>. QED  BY <1>1, <2>1
  <1>. QED  BY <1>1, RequestedStep

GoodAnswer(a) ==
    /\ a.id \in 1..sent
    /\ a.ok => \A r \in pending : r.id = a.id => Done(r)

LEMMA GoodKept ==
    ASSUME Types, RoomInv, RequestsInv, [Next]_vars, NEW a \in Answer, GoodAnswer(a)
    PROVE  GoodAnswer(a)'
  <1>1. sent \in Nat /\ sent' \in Nat /\ sent <= sent' /\ a.id \in 1..sent
    BY RoomStep DEF Types, WireType, GoodAnswer
  <1>2. a.id \in 1..sent'
    BY <1>1
  <1>3. ASSUME a.ok, NEW r \in pending', r.id = a.id PROVE Done(r)'
    <2>1. r \in Requested'
      BY DEF Requested
    <2>2. r \in Requested
      BY <1>1, <1>3, <2>1, NewNumbers
    <2>3. r \in pending \/ Sends(0, 0, 0) \/ \E o, from, m : Sends(o, from, m)
              /\ o \in 1..MaxOps /\ from \in 0..Parts /\ m \in 1..Parts
      BY <1>3, SendKinds
    <2>4. r \in pending
      <3>1. ASSUME NEW o, NEW from, NEW m, Sends(o, from, m) PROVE r \in pending
        <4>1. pending' = pending \cup {NewRequest(o, from, i) : i \in 1..m}
          BY <3>1, SendsEffect
        <4>2. \A i \in 1..m : NewRequest(o, from, i).id > sent /\ m \in Nat
          <5>1. m \in Nat /\ sent \in Nat
            BY <1>1, <3>1 DEF Sends
          <5>2. \A i \in 1..m : sent + i > sent
            BY ONLY <5>1
          <5>. QED  BY <5>1, <5>2 DEF NewRequest
        <4>3. ~(r.id > sent)
          BY <1>1, <1>3
        <4>. QED  BY <1>3, <4>1, <4>2, <4>3
      <3>. QED  BY <2>3, <3>1
    <2>5. Done(r)
      BY <1>3, <2>4 DEF GoodAnswer
    <2>. QED  BY <2>2, <2>5, DoneRequestKept
  <1>. QED  BY <1>2, <1>3 DEF GoodAnswer

LEMMA AnswersGood ==
    ASSUME Types
    PROVE  /\ AnswersInv <=> \A i \in 1..Len(down) : GoodAnswer(down[i])
           /\ Len(down) \in Nat /\ \A i \in 1..Len(down) : down[i] \in Answer
           /\ down # <<>> => /\ Head(down) = down[1] /\ 1 \in 1..Len(down)
                             /\ Len(Tail(down)) = Len(down) - 1
                             /\ \A i \in 1..Len(Tail(down)) : /\ Tail(down)[i] = down[i + 1]
                                                             /\ i + 1 \in 1..Len(down)
  <1>1. down \in Seq(Answer)
    BY DEF Types, WireType
  <1>2. DOMAIN down = 1..Len(down) /\ Len(down) \in Nat
    BY <1>1, LenProperties
  <1>3. AnswersInv <=> \A i \in 1..Len(down) : GoodAnswer(down[i])
    BY <1>2 DEF AnswersInv, GoodAnswer
  <1>4. \A i \in 1..Len(down) : down[i] \in Answer
    BY <1>1, ElementOfSeq
  <1>5. ASSUME down # <<>>
        PROVE  /\ Head(down) = down[1] /\ 1 \in 1..Len(down)
               /\ Len(Tail(down)) = Len(down) - 1
               /\ \A i \in 1..Len(Tail(down)) : Tail(down)[i] = down[i + 1] /\ i + 1 \in 1..Len(down)
    <2>1. Head(down) = down[1] /\ 1 \in 1..Len(down)
      BY <1>1, <1>2, <1>5
    <2>2. /\ Len(Tail(down)) = Len(down) - 1
          /\ \A i \in 1..Len(Tail(down)) : Tail(down)[i] = down[i + 1]
      BY <1>1, <1>5, HeadTailProperties
    <2>. QED  BY <1>2, <2>1, <2>2
  <1>. QED  BY <1>2, <1>3, <1>4, <1>5

LEMMA AnswersStep ==
    ASSUME Types, RoomInv, RequestsInv, WorkInv, AnswersInv, [Next]_vars
    PROVE  AnswersInv'
  <1>1. DOMAIN down' = 1..Len(down')
    BY WireStep, LenProperties DEF WireType
  <1>2. SUFFICES ASSUME NEW i \in 1..Len(down') PROVE GoodAnswer(down[i])'
    <2>1. (\A i \in DOMAIN down' : GoodAnswer(down[i])') => AnswersInv'
      BY DEF AnswersInv, GoodAnswer
    <2>. QED  BY <1>1, <2>1
  <1> PICK a : a = down'[i]
    OBVIOUS
  <1>3. SUFFICES GoodAnswer(a)'
    BY DEF GoodAnswer
  <1>4. \A j \in 1..Len(down) : GoodAnswer(down[j]) /\ down[j] \in Answer
    BY AnswersGood
  <1>5. CASE \E j \in 1..Len(down) : a = down[j]
    BY <1>4, <1>5, GoodKept
  <1>6. CASE Reply /\ open
    <2>1. work.req \in Request /\ work.ok \in BOOLEAN /\ work.req \in Requested /\ work # None
          /\ work.step = "reply"
      BY <1>6, WorkType DEF Reply, Requested
    <2> DEFINE b == [id |-> work.req.id, ok |-> work.ok]
    <2>2. b \in Answer /\ b.id = work.req.id /\ b.ok = work.ok
      BY <2>1 DEF Request, Answer
    <2>3. down' = Append(down, b)
      BY <1>6 DEF Reply
    <2>4. GoodAnswer(b)
      <3>1. work.req.id \in 1..sent
        BY <2>1 DEF RequestsInv
      <3>2. ASSUME work.ok, NEW r \in pending, r.id = work.req.id PROVE Done(r)
        <4>1. r = work.req
          BY <2>1, <3>2 DEF RequestsInv, Requested
        <4>. QED  BY <2>1, <3>2, <4>1 DEF WorkInv
      <3>. QED  BY <2>2, <3>1, <3>2 DEF GoodAnswer
    <2> HIDE DEF b
    <2>5. a = b \/ \E j \in 1..Len(down) : a = down[j]
      <3>1. down \in Seq(Answer) /\ Len(down) \in Nat
        BY AnswersGood DEF Types, WireType
      <3>2. /\ Len(Append(down, b)) = Len(down) + 1
            /\ \A j \in 1..Len(down) : Append(down, b)[j] = down[j]
            /\ Append(down, b)[Len(down) + 1] = b
        BY <2>2, <3>1, AppendProperties
      <3>3. i \in 1..Len(down) \/ i = Len(down) + 1
        BY <2>3, <3>1, <3>2
      <3>. QED  BY <2>3, <3>2, <3>3
    <2> PICK c : c = b
      OBVIOUS
    <2>6. GoodAnswer(c) /\ c \in Answer
      BY <2>2, <2>4
    <2>7. GoodAnswer(c)'
      BY <2>6, GoodKept
    <2>. QED  BY <1>5, <2>5, <2>7
  <1>7. CASE down' = down
    BY <1>5, <1>7
  <1>8. CASE down # <<>> /\ down' = Tail(down)
    BY <1>5, <1>8, AnswersGood
  <1>9. CASE HostStep /\ ~Reply
    BY <1>7, <1>9 DEF HostStep, Take, Paste, Read, PutPicture, PutText, EndService
  <1>10. ~HostStep => down' = down \/ (down # <<>> /\ down' = Tail(down))
    BY StepKinds DEF Presses, Starts, Start, StartUpload, SendWindow, EndUpload, Settles
  <1>11. Reply => open \/ down' = down
    BY DEF Reply
  <1>. QED  BY <1>6, <1>7, <1>8, <1>9, <1>10, <1>11

LEMMA WaitingPicturesStep ==
    ASSUME Types, WaitingArePictures, [Next]_vars
    PROVE  WaitingArePictures'
  <1>1. \A o \in DOMAIN ops : ops'[o].kind = ops[o].kind
    BY OpsStep DEF SameOps
  <1>2. Waiting \subseteq DOMAIN ops
    BY DEF Waiting
  <1>3. CASE Waiting' \subseteq Waiting
    BY <1>1, <1>2, <1>3 DEF WaitingArePictures
  <1>4. ASSUME NEW from \in 0..MaxOps, Starts("picture", from),
               Waiting' = Waiting \cup {Len(ops) + 1}
        PROVE  WaitingArePictures'
    <2>1. PICK e \in Op : e.kind = "picture" /\ ops' = Append(ops, e) /\ Len(ops) < MaxOps
      BY <1>4, StartEffect DEF Starts
    <2>2. ops'[Len(ops) + 1].kind = "picture"
      BY <2>1, AppendOps
    <2>. QED  BY <1>1, <1>2, <1>4, <2>2 DEF WaitingArePictures
  <1>. QED  BY <1>3, <1>4, WaitingStep

-----------------------------------------------------------------------------
(* What the page reports *)

LEMMA StateKept ==
    ASSUME Types, WaitingArePictures, UploadInv, [Next]_vars,
           NEW o \in DOMAIN ops, ops[o].kind = "picture"
    PROVE  \/ ops'[o].state = ops[o].state
           \/ o \in Waiting /\ StartUpload(o)
           \/ EndUpload /\ upload.op = o
  <1>1. CASE ops' = ops
    BY <1>1
  <1>2. ASSUME NEW kind \in Kinds, NEW from \in 0..MaxOps, Starts(kind, from)
        PROVE  ops'[o].state = ops[o].state
    BY <1>2, StartEffect, AppendOps DEF Starts
  <1>3. ASSUME NEW q \in Waiting, StartUpload(q)
        PROVE  ops'[o].state = ops[o].state \/ q = o
    <2>1. PICK state \in {"sent", "done", "failed"} : ops' = [ops EXCEPT ![q].state = state]
      BY <1>3 DEF StartUpload, EndOp
    <2>. QED  BY <2>1, EndOpEffect DEF Waiting
  <1>4. CASE EndUpload
    <2>1. PICK state \in {"sent", "done", "failed"} :
             ops' = [ops EXCEPT ![upload.op].state = state]
      BY <1>4 DEF EndUpload, EndOp
    <2>2. upload.op \in DOMAIN ops
      BY <1>4, UploadTypes DEF EndUpload, WindowDone
    <2>. QED  BY <1>4, <2>1, <2>2, EndOpEffect
  <1>5. CASE Settles
    BY <1>5, SettleEffect DEF Settles
  <1>6. SendWindow \/ Presses \/ HostStep => ops' = ops
    BY HostStepKeeps DEF SendWindow, Presses, session
  <1>. QED  BY <1>1, <1>2, <1>3, <1>4, <1>5, <1>6, StepKinds

LEMMA UploadStep ==
    ASSUME Types, RoomInv, RequestsInv, AnswersInv, WaitingArePictures, UploadInv, [Next]_vars
    PROVE  UploadInv'
  <1>0. \A o \in DOMAIN ops : ops'[o].kind = ops[o].kind
    BY OpsStep DEF SameOps
  <1>1. CASE upload' = None
    BY <1>1 DEF UploadInv
  <1>2. ASSUME NEW o \in Waiting, StartUpload(o) PROVE UploadInv'
    <2>1. CASE /\ upload' = [op |-> o, next |-> 1, broken |-> FALSE]
               /\ ops' = [ops EXCEPT ![o].state = "sent"]
      <3>1. o \in DOMAIN ops /\ ops[o].kind = "picture"
        BY DEF Waiting, WaitingArePictures
      <3>2. upload'.op = o /\ upload'.next # Parts + 1
        BY <2>1
      <3>3. ops'[o].kind = "picture" /\ ops'[o].state = "sent"
        BY <2>1, <3>1, EndOpEffect
      <3>. QED  BY <3>2, <3>3 DEF UploadInv
    <2>2. upload = None
      BY <1>2 DEF StartUpload
    <2>. QED  BY <1>1, <1>2, <2>1, <2>2 DEF StartUpload
  <1>3. ASSUME upload # None, upload' # None, ~EndUpload PROVE UploadInv'
    <2> PICK o \in DOMAIN ops : o = upload.op
      BY <1>3, UploadTypes
    <2>1. ops[o].kind = "picture" /\ ops[o].state = "sent"
      BY <1>3 DEF UploadInv
    <2>2. ops'[o].kind = "picture" /\ ops'[o].state = "sent"
      <3>1. ~\E q \in Waiting : StartUpload(q)
        BY <1>3 DEF StartUpload
      <3>. QED  BY <1>0, <1>3, <2>1, <3>1, StateKept
    <2>3. upload \in Upload
      BY <1>3, UploadTypes
    <2>4. OpDone(o) => OpDone(o)'
      BY DoneKept
    <2>5. CASE upload' = upload /\ pending \subseteq pending'
      <3>1. upload'.op = o
        BY <2>5
      <3>2. ASSUME ~upload'.broken, upload'.next = Parts + 1
            PROVE  OpDone(o)' \/ \E r \in pending' : r.op = o /\ r.part = Parts
        <4>1. OpDone(o) \/ \E r \in pending : r.op = o /\ r.part = Parts
          BY <1>3, <2>5, <3>2 DEF UploadInv
        <4>. QED  BY <2>4, <2>5, <4>1
      <3>3. UploadInv' <=> /\ ops'[o].kind = "picture" /\ ops'[o].state = "sent"
                           /\ ~upload'.broken /\ upload'.next = Parts + 1 =>
                                OpDone(o)' \/ \E r \in pending' : r.op = o /\ r.part = Parts
        BY <1>3, <3>1 DEF UploadInv
      <3>. QED  BY <2>2, <3>2, <3>3
    <2>6. ASSUME upload'.op = o, upload'.broken \/ upload'.next # Parts + 1
          PROVE  UploadInv'
      BY <2>2, <2>6 DEF UploadInv
    <2>7. ASSUME upload'.op = o, \E r \in pending' : r.op = o /\ r.part = Parts
          PROVE  UploadInv'
      BY <2>2, <2>7 DEF UploadInv
    <2>8. CASE SendWindow
      <3>1. CASE ~open
        <4>1. upload' = [upload EXCEPT !.broken = TRUE]
          BY <2>8, <3>1 DEF SendWindow
        <4>2. upload'.op = o /\ upload'.broken
          BY <2>3, <4>1 DEF Upload
        <4>. QED  BY <2>6, <4>2
      <3>2. CASE open
        <4> PICK n \in 1..Parts : /\ upload.next + n <= Parts + 1
                                  /\ upload' = [upload EXCEPT !.next = upload.next + n]
                                  /\ Send(upload.op, [i \in 1..n |-> upload.next + i - 1])
          BY <2>8, <3>2, WindowEffect
        <4>1. upload'.op = o /\ upload'.next = upload.next + n /\ upload.next \in 1..Parts
          BY <2>3, <2>8 DEF Upload, SendWindow
        <4>2. Sends(o, upload.next, n)
          <5>1. o \in 1..MaxOps
            BY <1>3, UploadTypes
          <5>. QED  BY <1>3, <2>8, <3>2, <4>1, <5>1 DEF SendWindow, Sends
        <4> DEFINE r == NewRequest(o, upload.next, n)
        <4>3. r \in pending' /\ r.op = o /\ r.part = upload.next + n - 1
          <5>1. pending' = pending \cup {NewRequest(o, upload.next, i) : i \in 1..n}
            BY <4>2, SendsEffect
          <5>2. n \in 1..n
            OBVIOUS
          <5>3. r \in pending'
            BY <5>1, <5>2, Zenon
          <5>. QED  BY <5>3, NewFields
        <4> HIDE DEF r
        <4>4. upload'.next = Parts + 1 => r.part = Parts
          <5> PICK k \in Nat : k = upload.next
            BY <4>1
          <5>1. Parts \in Nat
            OBVIOUS
          <5>2. k + n = Parts + 1 => k + n - 1 = Parts
            BY ONLY <5>1
          <5>. QED  BY <4>1, <4>3, <5>2
        <4>. QED  BY <2>6, <2>7, <4>1, <4>3, <4>4
      <3>. QED  BY <3>1, <3>2
    <2>9. CASE Settles
      <3>. PICK rs \in SUBSET pending, ok \in BOOLEAN :
                /\ Settle(rs, ok)
                /\ ok => down # <<>> /\ rs = {r \in pending : r.id = Head(down).id} /\ Head(down).ok
        BY <2>9 DEF Settles
      <3>1. /\ pending' = pending \ rs
            /\ IF ~ok /\ \E r \in rs : r.op = o
               THEN upload' = [upload EXCEPT !.broken = TRUE]
               ELSE upload' = upload
        BY <1>3 DEF Settle
      <3>2. CASE ~ok /\ \E r \in rs : r.op = o
        <4>1. upload'.op = o /\ upload'.broken
          BY <2>3, <3>1, <3>2 DEF Upload
        <4>. QED  BY <2>6, <4>1
      <3>3. CASE ok \/ ~\E r \in rs : r.op = o
        <4>1. upload' = upload
          BY <3>1, <3>3
        <4>2. ASSUME NEW r \in pending, r.op = o, r.part = Parts
              PROVE  r \in pending' \/ OpDone(o)
          <5>1. CASE r \in rs
            <6>1. ok
              BY <3>3, <4>2, <5>1
            <6>2. GoodAnswer(Head(down)) /\ Head(down).ok /\ r.id = Head(down).id
              BY <5>1, <6>1, AnswersGood
            <6>. QED  BY <4>2, <6>2 DEF GoodAnswer, Done
          <5>2. CASE r \notin rs
            BY <3>1, <5>2
          <5>. QED  BY <5>1, <5>2
        <4>3. CASE upload.broken \/ upload.next # Parts + 1
          BY <2>6, <4>1, <4>3
        <4>4. CASE ~(upload.broken \/ upload.next # Parts + 1)
          <5>1. OpDone(o) \/ \E r \in pending : r.op = o /\ r.part = Parts
            BY <1>3, <4>4 DEF UploadInv
          <5>2. OpDone(o) \/ \E r \in pending' : r.op = o /\ r.part = Parts
            BY <4>2, <5>1
          <5>3. OpDone(o)' => UploadInv'
            BY <2>2, <4>1 DEF UploadInv
          <5>. QED  BY <2>4, <2>7, <4>1, <5>2, <5>3
        <4>. QED  BY <4>3, <4>4
      <3>. QED  BY <3>2, <3>3
    <2>10. CASE Presses \/ HostStep \/ \E kind \in Kinds, from \in 0..MaxOps : Starts(kind, from)
      <3>1. upload' = upload
        BY <2>10, HostStepKeeps DEF Presses, Starts, Start, session
      <3>2. pending \subseteq pending'
        BY <2>10, HostStepKeeps DEF Presses, Starts, Start, Send, session
      <3>. QED  BY <2>5, <3>1, <3>2
    <2>11. ~\E q \in Waiting : StartUpload(q)
      BY <1>3 DEF StartUpload
    <2>. QED  BY <1>3, <2>8, <2>9, <2>10, <2>11, StepKinds
  <1>4. upload = None => upload' = None \/ \E o \in Waiting : StartUpload(o)
    <2>1. ASSUME upload = None, SendWindow \/ EndUpload PROVE FALSE
      BY <2>1 DEF SendWindow, EndUpload, WindowDone
    <2>2. ASSUME upload = None, Settles PROVE upload' = None
      BY <2>2 DEF Settles, Settle
    <2>3. Presses \/ HostStep \/ (\E kind \in Kinds, from \in 0..MaxOps : Starts(kind, from))
              => upload' = upload
      BY HostStepKeeps DEF Presses, Starts, Start, session
    <2>. QED  BY <2>1, <2>2, <2>3, StepKinds
  <1>5. EndUpload => upload' = None
    BY DEF EndUpload
  <1>. QED  BY <1>1, <1>2, <1>3, <1>4, <1>5

LEMMA ReportedStep ==
    ASSUME Types, RoomInv, RequestsInv, AnswersInv, UploadInv, ReportedIsDone, [Next]_vars
    PROVE  ReportedIsDone'
  <1>0. /\ \A o \in DOMAIN ops : o \in DOMAIN ops'
        /\ \A o \in DOMAIN ops : OpDone(o) => OpDone(o)'
    BY OpsStep, DoneKept DEF SameOps
  <1>1. SUFFICES ASSUME NEW o \in DOMAIN ops', ops'[o].state = "done"
                 PROVE  OpDone(o)'
    BY DEF ReportedIsDone, OpDone, OnClipboard
  <1>2. ASSUME o \in DOMAIN ops, ops[o].state = "done" PROVE OpDone(o)'
    BY <1>0, <1>2 DEF ReportedIsDone, OpDone, OnClipboard
  <1>3. CASE ops' = ops
    BY <1>1, <1>2, <1>3
  <1>4. ASSUME NEW kind \in Kinds, NEW from \in 0..MaxOps, Starts(kind, from)
        PROVE  OpDone(o)'
    <2>1. PICK e \in Op : ops' = Append(ops, e) /\ Len(ops) < MaxOps /\ e.state # "done"
      BY <1>4, StartEffect DEF Starts
    <2>2. /\ DOMAIN ops = 1..Len(ops) /\ DOMAIN ops' = 1..(Len(ops) + 1)
          /\ ops'[Len(ops) + 1] = e /\ \A q \in DOMAIN ops : ops'[q] = ops[q]
          /\ Len(ops) \in Nat
      BY <2>1, AppendOps, LenProperties DEF Types, OpsType
    <2>3. o \in DOMAIN ops
      BY <1>1, <2>1, <2>2
    <2>. QED  BY <1>1, <1>2, <2>2, <2>3
  <1>5. ASSUME NEW q \in Waiting, StartUpload(q) PROVE OpDone(o)'
    <2>1. q \in DOMAIN ops
      BY DEF Waiting
    <2>2. PICK state \in {"sent", "failed"} : ops' = [ops EXCEPT ![q].state = state]
      BY <1>5 DEF StartUpload, EndOp
    <2>3. o \in DOMAIN ops /\ ops[o].state = "done"
      BY <1>1, <2>1, <2>2, EndOpEffect
    <2>. QED  BY <1>2, <2>3
  <1>6. CASE EndUpload
    <2>1. upload # None /\ upload \in Upload /\ upload.op \in DOMAIN ops
      BY <1>6, UploadTypes DEF EndUpload, WindowDone
    <2>2. PICK state \in {"done", "failed"} :
             /\ ops' = [ops EXCEPT ![upload.op].state = state]
             /\ upload.broken => state = "failed"
      BY <1>6 DEF EndUpload, EndOp, Uploaded
    <2>3. o \in DOMAIN ops /\ (o # upload.op => ops[o].state = "done")
          /\ (o = upload.op => state = "done")
      BY <1>1, <2>1, <2>2, EndOpEffect
    <2>4. CASE o = upload.op
      <3>1. ~upload.broken /\ upload.next = Parts + 1
        BY <1>6, <2>1, <2>2, <2>3, <2>4 DEF EndUpload, Upload
      <3>2. \A r \in pending : r.op # upload.op
        BY <1>6 DEF EndUpload, WindowDone
      <3>3. OpDone(o)
        BY <2>1, <2>4, <3>1, <3>2 DEF UploadInv
      <3>. QED  BY <1>0, <2>3, <3>3
    <2>. QED  BY <1>2, <2>3, <2>4
  <1>7. CASE Settles
    <2>. PICK rs \in SUBSET pending, ok \in BOOLEAN :
              /\ Settle(rs, ok)
              /\ ok => down # <<>> /\ rs = {r \in pending : r.id = Head(down).id} /\ Head(down).ok
      BY <1>7 DEF Settles
    <2>1. o \in DOMAIN ops
      BY <1>1, SettleEffect
    <2>2. \/ ops[o].state = "done"
          \/ ops[o].kind # "picture" /\ ok /\ \E r \in rs : r.op = o
      <3>1. CASE ok = TRUE
        <4>1. Settle(rs, TRUE)
          BY <3>1
        <4>2. \/ ops'[o].state = ops[o].state
              \/ ops[o].kind # "picture" /\ \E r \in rs : r.op = o
          BY <2>1, <4>1, SettleEffect
        <4>. QED  BY <1>1, <3>1, <4>2
      <3>2. CASE ok = FALSE
        <4>1. Settle(rs, FALSE)
          BY <3>2
        <4>2. ops'[o].state = ops[o].state \/ ops'[o].state = "failed"
          BY <2>1, <4>1, SettleEffect
        <4>. QED  BY <1>1, <4>2
      <3>. QED  BY <3>1, <3>2
    <2>3. ASSUME ops[o].kind # "picture", ok, NEW r \in rs, r.op = o PROVE OpDone(o)
      <3>1. GoodAnswer(Head(down)) /\ Head(down).ok /\ r.id = Head(down).id
        BY <2>3, AnswersGood
      <3>2. r.part = 0
        BY <2>3 DEF RequestsInv, Requested
      <3>. QED  BY <2>3, <3>1, <3>2 DEF GoodAnswer, Done
    <2>. QED  BY <1>0, <1>2, <2>1, <2>2, <2>3
  <1>8. SendWindow \/ Presses \/ HostStep => ops' = ops
    BY HostStepKeeps DEF SendWindow, Presses, session
  <1>. QED  BY <1>3, <1>4, <1>5, <1>6, <1>7, <1>8, StepKinds

-----------------------------------------------------------------------------
(* The parts on their way *)

Before(a, b) == a.op < b.op \/ (a.op = b.op /\ a.part < b.part)

Contains(o, n) == \E i \in DOMAIN up : up[i].op = o /\ up[i].part = n

\* Between a and b there is no part of b's picture that is not in the line.
Ahead(a, b) ==
    /\ Before(a, b)
    /\ \A n \in 1..Parts : n < b.part /\ Before(a, [op |-> b.op, part |-> n])
                              => Contains(b.op, n)

NextPart == [op |-> upload.op, part |-> upload.next]
LastPart == buffer[Len(buffer)]

\* The parts are in the line in their order, and without a gap.
LineInv ==
    \A i, j \in DOMAIN up : i < j /\ up[i].part > 0 /\ up[j].part > 0 => Ahead(up[i], up[j])

\* So they are in the buffer,
RunInv ==
    \A i \in DOMAIN buffer : /\ buffer[i].op = buffer[1].op
                             /\ buffer[i].part = buffer[1].part + (i - 1)
                             /\ buffer[i].op \in DOMAIN ops

\* which ends with the part before those in the line
BehindInv == buffer # <<>> => \A j \in DOMAIN up : up[j].part > 0 => Ahead(LastPart, up[j])

\* and with the last part of its picture when that is to be put on the clipboard.
PutInv ==
    work # None /\ work.step = "put" /\ work.req.part > 0 =>
       buffer # <<>> /\ LastPart = [op |-> work.req.op, part |-> Parts]

BufferInv == RunInv /\ BehindInv /\ PutInv

\* What is sent next belongs behind all of them.
SendInv ==
    upload # None =>
       /\ \A j \in DOMAIN up : up[j].part > 0 => /\ Before(up[j], NextPart)
                                                 /\ open => Ahead(up[j], NextPart)
       /\ buffer # <<>> /\ open => Ahead(LastPart, NextPart)

LEMMA LinePlaces ==
    ASSUME Types
    PROVE  /\ \A i \in DOMAIN up : up[i].op \in Nat /\ up[i].op \in 1..MaxOps
                                   /\ up[i].part \in 0..Parts /\ up[i].part \in Nat
           /\ buffer # <<>> => /\ Len(buffer) \in DOMAIN buffer /\ 1 \in DOMAIN buffer
                               /\ LastPart \in Part /\ LastPart.op \in Nat /\ LastPart.part \in Nat
           /\ DOMAIN buffer = 1..Len(buffer) /\ Len(buffer) \in Nat
           /\ upload # None => NextPart.op \in Nat /\ NextPart.part \in Nat
           /\ NextPart.op = upload.op /\ NextPart.part = upload.next
  <1>1. ASSUME NEW i \in DOMAIN up
        PROVE  up[i].op \in Nat /\ up[i].op \in 1..MaxOps
               /\ up[i].part \in 0..Parts /\ up[i].part \in Nat
    <2>1. up[i] \in Request
      BY LineType
    <2>. QED  BY <2>1 DEF Request
  <1>2. buffer \in Seq(Part) /\ DOMAIN buffer = 1..Len(buffer) /\ Len(buffer) \in Nat
    BY LenProperties DEF Types, HostType
  <1>3. ASSUME buffer # <<>>
        PROVE  /\ Len(buffer) \in DOMAIN buffer /\ 1 \in DOMAIN buffer
               /\ LastPart \in Part /\ LastPart.op \in Nat /\ LastPart.part \in Nat
    <2>1. Len(buffer) \in DOMAIN buffer /\ 1 \in DOMAIN buffer
      BY <1>2, <1>3
    <2>2. LastPart \in Part
      BY <1>2, <2>1, ElementOfSeq DEF LastPart
    <2>. QED  BY <2>1, <2>2 DEF Part
  <1>4. NextPart.op = upload.op /\ NextPart.part = upload.next
    BY DEF NextPart
  <1>5. upload # None => NextPart.op \in Nat /\ NextPart.part \in Nat
    BY <1>4, UploadTypes DEF Upload
  <1>. QED  BY <1>1, <1>2, <1>3, <1>4, <1>5

LEMMA AheadSame ==
    ASSUME up' = up, NEW a, NEW b, Ahead(a, b)
    PROVE  Ahead(a, b)'
  BY DEF Ahead, Contains, Before

\* The first of the line is taken: what was ahead of it only is not affected.
LEMMA AheadTail ==
    ASSUME Types, up # <<>>, up' = Tail(up), NEW a, NEW b, Ahead(a, b),
           a.op \in Nat, a.part \in Nat,
           \/ up[1].part = 0
           \/ Before(up[1], a)
           \/ a.op = up[1].op /\ a.part = up[1].part
    PROVE  Ahead(a, b)'
  <1>1. Before(a, b)'
    BY DEF Ahead, Before
  <1>2. ASSUME NEW n \in 1..Parts, n < b.part, Before(a, [op |-> b.op, part |-> n])
        PROVE  Contains(b.op, n)'
    <2> PICK i \in DOMAIN up : up[i].op = b.op /\ up[i].part = n
      BY <1>2 DEF Ahead, Contains
    <2>1. i # 1
      <3>1. CASE i = 1
        <4>1. up[1].part = n /\ up[1].op = b.op /\ up[1].op \in Nat /\ n \in Nat /\ n > 0
          BY <3>1, LinePlaces
        <4>2. a.op < up[1].op \/ (a.op = up[1].op /\ a.part < up[1].part)
          BY <1>2, <4>1 DEF Before
        <4>. QED  BY <4>1, <4>2 DEF Before
      <3>. QED  BY <3>1
    <2>2. i - 1 \in DOMAIN up' /\ up'[i - 1] = up[i]
      BY <2>1, TailEffect
    <2>. QED  BY <2>2 DEF Contains
  <1>3. \A n \in 1..Parts : n < b.part /\ Before(a, [op |-> b.op, part |-> n])'
                               => Contains(b.op, n)'
    BY <1>2 DEF Before
  <1>. QED  BY <1>1, <1>3 DEF Ahead

LEMMA SendsKeeps ==
    ASSUME Types, RoomInv, [Next]_vars, NEW o, NEW from, NEW m, Sends(o, from, m)
    PROVE  /\ \A i \in DOMAIN up : i \in DOMAIN up' /\ up'[i] = up[i]
           /\ \A i \in DOMAIN up' : \/ i \in DOMAIN up
                                    \/ \E k \in 1..m : /\ i = Len(up) + k
                                                       /\ up'[i] = NewRequest(o, from, k)
           /\ DOMAIN up = 1..Len(up) /\ Len(up) \in Nat
  <1>1. m \in 1..Parts
    BY DEF Sends
  <1>2. /\ DOMAIN up = 1..Len(up) /\ DOMAIN up' = 1..(Len(up) + m) /\ Len(up) \in Nat
        /\ \A i \in 1..Len(up) : up'[i] = up[i]
        /\ \A i \in 1..m : up'[Len(up) + i] = NewRequest(o, from, i)
    BY SendsEffect
  <1>3. ASSUME NEW i \in DOMAIN up, TRUE PROVE i \in DOMAIN up' /\ up'[i] = up[i]
    BY <1>1, <1>2
  <1>4. ASSUME NEW i \in DOMAIN up', i \notin DOMAIN up
        PROVE  \E k \in 1..m : i = Len(up) + k /\ up'[i] = NewRequest(o, from, k)
    <2>1. i - Len(up) \in 1..m /\ i = Len(up) + (i - Len(up))
      BY <1>1, <1>2, <1>4
    <2>. QED  BY <1>2, <2>1
  <1>. QED  BY <1>2, <1>3, <1>4

LEMMA AheadSends ==
    ASSUME Types, RoomInv, [Next]_vars, NEW o, NEW from, NEW m, Sends(o, from, m),
           NEW a, NEW b, Ahead(a, b)
    PROVE  Ahead(a, b)'
  <1>1. \A i \in DOMAIN up : i \in DOMAIN up' /\ up'[i] = up[i]
    BY SendsKeeps
  <1>2. \A n : Contains(b.op, n) => Contains(b.op, n)'
    BY <1>1 DEF Contains
  <1>. QED  BY <1>2 DEF Ahead, Before

\* The parts that are sent follow everything that has been sent before.
LEMMA AheadOfWindow ==
    ASSUME Types, RoomInv, [Next]_vars, NEW o \in 1..MaxOps, NEW from \in 1..Parts,
           NEW m \in 1..Parts, Sends(o, from, m),
           NEW a,
           Ahead(a, NextPart) \/ (\E k \in from..(from + m - 1) : a.op = o /\ a.part = k),
           a.op \in Nat, a.part \in Nat, NEW k \in from..(from + m),
           NEW b, b.op = o, b.part = k, a.op = o => a.part < k
    PROVE  Ahead(a, b)'
  <1>1. upload # None /\ o = upload.op /\ from = upload.next
    BY DEF Sends
  <1>2. NextPart.op = o /\ NextPart.part = from
    BY <1>1 DEF NextPart
  <1>3. Before(a, b)'
    BY <1>2 DEF Ahead, Before
  <1>4. ASSUME NEW n \in 1..Parts, n < k, Before(a, [op |-> o, part |-> n])
        PROVE  Contains(o, n)'
    <2>1. CASE n < from
      <3>1. Ahead(a, NextPart)
        <4>1. ASSUME NEW l \in from..(from + m - 1), a.op = o, a.part = l PROVE FALSE
          BY <1>4, <2>1, <4>1 DEF Before
        <4>. QED  BY <4>1
      <3>2. Contains(o, n)
        BY <1>2, <1>4, <2>1, <3>1 DEF Ahead
      <3>3. \A i \in DOMAIN up : i \in DOMAIN up' /\ up'[i] = up[i]
        BY SendsKeeps
      <3>. QED  BY <3>2, <3>3 DEF Contains
    <2>2. CASE n >= from
      <3> PICK i \in 1..m : n = from + i - 1
        <4>1. n - from + 1 \in 1..m /\ n = from + (n - from + 1) - 1
          BY <1>4, <2>2
        <4>. QED  BY <4>1
      <3>1. Len(up) + i \in DOMAIN up' /\ up'[Len(up) + i] = NewRequest(o, from, i)
        <4>1. up'[Len(up) + i] = NewRequest(o, from, i)
          <5>1. \A j \in 1..m : up'[Len(up) + j] = NewRequest(o, from, j)
            BY SendsEffect, SMTT(20)
          <5>. QED  BY <5>1, Zenon
        <4>2. DOMAIN up' = 1..(Len(up) + m)
          BY SendsEffect
        <4>3. Len(up) + i \in 1..(Len(up) + m)
          <5>1. Len(up) \in Nat /\ Parts \in Nat
            BY SendsKeeps
          <5>. QED  BY ONLY <5>1
        <4>. QED  BY <4>1, <4>2, <4>3
      <3>2. up'[Len(up) + i].op = o /\ up'[Len(up) + i].part = n
        BY <3>1 DEF NewRequest
      <3>. QED  BY <3>1, <3>2 DEF Contains
    <2>. QED  BY <2>1, <2>2
  <1>5. \A n \in 1..Parts : n < b.part /\ Before(a, [op |-> b.op, part |-> n])'
                               => Contains(b.op, n)'
    BY <1>4 DEF Before
  <1>. QED  BY <1>3, <1>5 DEF Ahead

LEMMA LineStep ==
    ASSUME Types, RoomInv, UploadInv, LineInv, SendInv, [Next]_vars
    PROVE  LineInv'
  <1>1. CASE up' = up
    <2>1. SUFFICES ASSUME NEW i \in DOMAIN up, NEW j \in DOMAIN up, i < j,
                          up[i].part > 0, up[j].part > 0
                   PROVE  \E a, b : a = up[i] /\ b = up[j] /\ Ahead(a, b)'
      BY <1>1 DEF LineInv, Ahead, Before, Contains
    <2> PICK a, b : a = up[i] /\ b = up[j]
      OBVIOUS
    <2>2. Ahead(a, b)
      BY <2>1 DEF LineInv
    <2>. QED  BY <1>1, <2>2, AheadSame
  <1>2. CASE up' = <<>>
    BY <1>2 DEF LineInv
  <1>3. CASE up # <<>> /\ up' = Tail(up)
    <2>1. SUFFICES ASSUME NEW i \in DOMAIN up', NEW j \in DOMAIN up', i < j,
                          up'[i].part > 0, up'[j].part > 0
                   PROVE  \E a, b : a = up'[i] /\ b = up'[j] /\ Ahead(a, b)'
      BY DEF LineInv, Ahead, Before, Contains
    <2> PICK a, b : a = up[i + 1] /\ b = up[j + 1]
      OBVIOUS
    <2>2. i + 1 \in DOMAIN up /\ j + 1 \in DOMAIN up /\ up'[i] = a /\ up'[j] = b
      BY <1>3, TailEffect
    <2>3. i \in Nat /\ j \in Nat /\ i + 1 < j + 1 /\ 1 \in DOMAIN up /\ 1 < i + 1
      BY <1>3, <2>1, <2>2, LineType, TailEffect
    <2>4. Ahead(a, b)
      BY <2>1, <2>2, <2>3 DEF LineInv
    <2>5. up[1].part = 0 \/ Before(up[1], a)
      <3>1. up[1].part \in Nat
        BY <2>3, LinePlaces
      <3>. QED  BY <2>1, <2>2, <2>3, <3>1 DEF LineInv, Ahead
    <2>6. a.op \in Nat /\ a.part \in Nat
      BY <2>2, LinePlaces
    <2>7. Ahead(a, b)'
      BY <1>3, <2>4, <2>5, <2>6, AheadTail
    <2>. QED  BY <2>2, <2>7
  <1>4. ASSUME NEW o \in 1..MaxOps, NEW from \in 0..Parts, NEW m \in 1..Parts,
               Sends(o, from, m)
        PROVE  LineInv'
    <2>1. SUFFICES ASSUME NEW i \in DOMAIN up', NEW j \in DOMAIN up', i < j,
                          up'[i].part > 0, up'[j].part > 0
                   PROVE  \E a, b : a = up'[i] /\ b = up'[j] /\ Ahead(a, b)'
      BY DEF LineInv, Ahead, Before, Contains
    <2> PICK a, b : a = up'[i] /\ b = up'[j]
      OBVIOUS
    <2>2. /\ \A k \in DOMAIN up : k \in DOMAIN up' /\ up'[k] = up[k]
          /\ DOMAIN up = 1..Len(up) /\ Len(up) \in Nat
      BY <1>4, SendsKeeps
    <2>3. ASSUME NEW k \in DOMAIN up', k \notin DOMAIN up
          PROVE  \E l \in 1..m : k = Len(up) + l /\ up'[k] = NewRequest(o, from, l)
      BY <1>4, <2>3, SendsKeeps
    <2>4. CASE j \in DOMAIN up
      <3>1. i \in DOMAIN up
        <4>1. i \in Nat /\ i >= 1
          BY <1>4, SendsEffect
        <4>. QED  BY <2>1, <2>2, <2>4, <4>1
      <3>2. Ahead(a, b)
        BY <2>1, <2>2, <2>4, <3>1 DEF LineInv
      <3>3. Ahead(a, b)'
        BY <1>4, <3>2, AheadSends
      <3>. QED  BY <3>3
    <2>5. CASE j \notin DOMAIN up
      <3> PICK l \in 1..m : j = Len(up) + l /\ b = NewRequest(o, from, l)
        BY <2>3, <2>5
      <3>1. b.op = o /\ b.part = from + l - 1
        BY DEF NewRequest
      <3>2. from >= 1
        <4>1. CASE from = 0
          <5>1. m = 1
            BY <1>4, <4>1 DEF Sends
          <5>. QED  BY <2>1, <3>1, <4>1, <5>1
        <4>. QED  BY <4>1
      <3>3. from \in 1..Parts /\ upload # None /\ o = upload.op /\ from = upload.next /\ open
        BY <1>4, <3>2 DEF Sends
      <3>4. from + l - 1 \in from..(from + m)
        <4>1. from \in Nat /\ Parts \in Nat
          BY <3>3
        <4>. QED  BY ONLY <4>1
      <3>5. CASE i \in DOMAIN up
        <4>1. a = up[i] /\ a.op \in Nat /\ a.part \in Nat
          BY <2>2, <3>5, LinePlaces
        <4>2. Ahead(a, NextPart)
          BY <2>1, <3>3, <4>1, <3>5 DEF SendInv
        <4>3. a.op = o => a.part < from + l - 1
          <5>1. a.op = o => a.part < from
            BY <3>3, <4>1, <4>2 DEF Ahead, Before, NextPart
          <5>2. a.part \in Nat /\ from \in Nat /\ Parts \in Nat
            BY <3>3, <4>1
          <5>. QED  BY ONLY <5>1, <5>2
        <4>4. Ahead(a, b)'
          BY <1>4, <3>1, <3>3, <3>4, <4>1, <4>2, <4>3, AheadOfWindow
        <4>. QED  BY <4>4
      <3>6. CASE i \notin DOMAIN up
        <4> PICK h \in 1..m : i = Len(up) + h /\ a = NewRequest(o, from, h)
          BY <2>3, <3>6
        <4>1. a.op = o /\ a.part = from + h - 1 /\ a.op \in Nat /\ a.part \in Nat
          <5>1. a.op = o /\ a.part = from + h - 1
            BY NewFields
          <5>2. from \in Nat /\ from >= 1 /\ Parts \in Nat
            BY <3>3
          <5>3. from + h - 1 \in Nat
            BY ONLY <5>2
          <5>4. o \in Nat
            OBVIOUS
          <5>. QED  BY <5>1, <5>3, <5>4
        <4>2. h < l
          BY <2>1, <2>2
        <4>3. from + h - 1 \in from..(from + m - 1)
          <5>1. from \in Nat /\ Parts \in Nat
            BY <3>3
          <5>. QED  BY ONLY <5>1
        <4>4. a.op = o => a.part < from + l - 1
          <5>1. from \in Nat /\ Parts \in Nat
            BY <3>3
          <5>2. from + h - 1 < from + l - 1
            BY ONLY <4>2, <5>1
          <5>. QED  BY <4>1, <5>2
        <4>5. Ahead(a, b)'
          BY <1>4, <3>1, <3>3, <3>4, <4>1, <4>3, <4>4, AheadOfWindow
        <4>. QED  BY <4>5
      <3>. QED  BY <3>5, <3>6
    <2>. QED  BY <2>4, <2>5
  <1>. QED  BY <1>1, <1>2, <1>3, <1>4, SendKinds

\* A part that is taken continues the buffer or begins a new one.
LEMMA TakenPart ==
    ASSUME Types, LineInv, BufferInv, up # <<>>, up[1].part > 1, buffer # <<>>
    PROVE  up[1].op = LastPart.op /\ up[1].part = LastPart.part + 1
  <1>1. 1 \in DOMAIN up /\ up[1].op \in Nat /\ up[1].part \in 1..Parts
    BY LineType, LinePlaces
  <1>2. LastPart.op \in Nat /\ LastPart.part \in 1..Parts
    BY LinePlaces DEF Part
  <1>3. Ahead(LastPart, up[1])
    BY <1>1 DEF BufferInv, BehindInv
  <1>4. ASSUME NEW n \in 1..Parts, n < up[1].part, Contains(up[1].op, n)
        PROVE  FALSE
    <2> PICK i \in DOMAIN up : up[i].op = up[1].op /\ up[i].part = n
      BY <1>4 DEF Contains
    <2>1. i > 1
      <3>1. i \in Nat /\ i >= 1
        BY LineType
      <3>. QED  BY <1>4, <3>1
    <2>2. Before(up[1], up[i])
      BY <1>1, <2>1 DEF LineInv, Ahead
    <2>. QED  BY <1>1, <1>4, <2>2 DEF Before
  <1>5. CASE LastPart.op < up[1].op
    <2>1. Contains(up[1].op, 1)
      BY <1>1, <1>3, <1>5 DEF Ahead, Before
    <2>. QED  BY <1>1, <1>4, <2>1
  <1>6. CASE LastPart.op = up[1].op /\ LastPart.part < up[1].part
    <2>1. CASE LastPart.part + 1 < up[1].part
      <3>1. LastPart.part + 1 \in 1..Parts
        BY <1>1, <1>2, <2>1
      <3>2. Contains(up[1].op, LastPart.part + 1)
        BY <1>2, <1>3, <1>6, <2>1, <3>1 DEF Ahead, Before
      <3>. QED  BY <1>4, <2>1, <3>1, <3>2
    <2>. QED  BY <1>1, <1>2, <1>6, <2>1
  <1>. QED  BY <1>3, <1>5, <1>6 DEF Ahead, Before

\* A buffer that is kept stays ahead of the line.
LEMMA BehindKept ==
    ASSUME Types, RoomInv, UploadInv, BufferInv, SendInv, [Next]_vars, buffer' = buffer
    PROVE  BehindInv' \/ (up[1].part # 0 /\ \E good \in BOOLEAN : Take(good))
  <1>1. SUFFICES ASSUME buffer # <<>>, NEW j \in DOMAIN up', up'[j].part > 0,
                        ~(up[1].part # 0 /\ \E good \in BOOLEAN : Take(good))
                 PROVE  \E a, b : a = LastPart /\ b = up'[j] /\ Ahead(a, b)'
    BY DEF BehindInv, LastPart, Ahead, Before, Contains
  <1> PICK a, b : a = LastPart /\ b = up'[j]
    OBVIOUS
  <1>2. a.op \in Nat /\ a.part \in Nat
    BY <1>1, LinePlaces
  <1>3. ASSUME NEW i \in DOMAIN up, b = up[i] PROVE Ahead(a, b)
    BY <1>1, <1>3 DEF BufferInv, BehindInv
  <1>4. CASE up' = up
    BY <1>3, <1>4, AheadSame
  <1>5. CASE up # <<>> /\ up' = Tail(up) /\ \E good \in BOOLEAN : Take(good)
    <2>1. j + 1 \in DOMAIN up /\ b = up[j + 1]
      BY <1>5, TailEffect
    <2>2. up[1].part = 0
      BY <1>1, <1>5
    <2>3. Ahead(a, b)'
      BY <1>2, <1>3, <1>5, <2>1, <2>2, AheadTail
    <2>. QED  BY <2>3
  <1>6. ASSUME NEW o \in 1..MaxOps, NEW from \in 0..Parts, NEW m \in 1..Parts,
               Sends(o, from, m)
        PROVE  Ahead(a, b)'
    <2>1. CASE j \in DOMAIN up
      <3>1. b = up[j]
        BY <1>6, <2>1, SendsKeeps
      <3>. QED  BY <1>3, <1>6, <2>1, <3>1, AheadSends
    <2>2. CASE j \notin DOMAIN up
      <3> PICK l \in 1..m : b = NewRequest(o, from, l)
        BY <1>6, <2>2, SendsKeeps
      <3>1. b.op = o /\ b.part = from + l - 1
        BY DEF NewRequest
      <3>2. from >= 1
        <4>1. CASE from = 0
          <5>1. m = 1
            BY <1>6, <4>1 DEF Sends
          <5>. QED  BY <1>1, <3>1, <4>1, <5>1
        <4>. QED  BY <4>1
      <3>3. from \in 1..Parts /\ upload # None /\ o = upload.op /\ from = upload.next /\ open
        BY <1>6, <3>2 DEF Sends
      <3>4. from + l - 1 \in from..(from + m)
        BY <3>3
      <3>5. Ahead(a, NextPart)
        BY <1>1, <3>3 DEF SendInv
      <3>6. a.op = o => a.part < from + l - 1
        BY <1>2, <3>3, <3>5 DEF Ahead, Before, NextPart
      <3>. QED  BY <1>2, <1>6, <3>1, <3>3, <3>4, <3>5, <3>6, AheadOfWindow
    <2>. QED  BY <2>1, <2>2
  <1>7. up' # <<>>
    OBVIOUS
  <1>. QED  BY <1>4, <1>5, <1>6, <1>7, SendKinds

\* The part that is taken is ahead of the others.
LEMMA BehindTaken ==
    ASSUME Types, LineInv, up # <<>>, up' = Tail(up), up[1].part > 0,
           NEW j \in DOMAIN up', up'[j].part > 0, NEW a, a.op = up[1].op, a.part = up[1].part
    PROVE  \A b : b = up'[j] => Ahead(a, b)'
  <1>1. SUFFICES ASSUME NEW b, b = up'[j] PROVE Ahead(a, b)'
    OBVIOUS
  <1>2. 1 \in DOMAIN up /\ j + 1 \in DOMAIN up /\ b = up[j + 1] /\ 1 < j + 1
    BY <1>1, LineType, TailEffect
  <1>3. Ahead(up[1], b)
    BY <1>1, <1>2 DEF LineInv
  <1>4. Ahead(a, b)
    BY <1>3 DEF Ahead, Before
  <1>5. a.op \in Nat /\ a.part \in Nat
    BY <1>2, LinePlaces
  <1>. QED  BY <1>4, <1>5, AheadTail

LEMMA BufferStep ==
    ASSUME Types, RoomInv, RequestsInv, UploadInv, LineInv, BufferInv, SendInv, WorkInv,
           [Next]_vars
    PROVE  BufferInv'
  <1>1. (RunInv' /\ BehindInv' /\ PutInv') => BufferInv'
    BY DEF BufferInv
  <1>2. RunInv /\ BehindInv /\ PutInv
    BY DEF BufferInv
  <1>3. \A o \in DOMAIN ops : o \in DOMAIN ops'
    BY OpsStep DEF SameOps
  <1>4. ASSUME buffer' = buffer PROVE RunInv'
    <2>1. \A i \in DOMAIN buffer : buffer[i].op \in DOMAIN ops'
      BY <1>2, <1>3 DEF RunInv
    <2>. QED  BY <1>2, <1>4, <2>1 DEF RunInv
  <1>5. ASSUME buffer' = <<>> PROVE RunInv' /\ BehindInv'
    BY <1>5 DEF RunInv, BehindInv
  <1>6. ASSUME NEW good \in BOOLEAN, Take(good) PROVE BufferInv'
    <2> PICK r \in Request : r = up[1]
      BY <1>6, TakeEffect
    <2>1. up # <<>> /\ up' = Tail(up) /\ work = None
      BY <1>6, TakeEffect
    <2>2. CASE r.part = 0
      <3>0. ~(up[1].part > 0) /\ up[1].part = 0
        BY <2>2
      <3>1. buffer' = buffer
        BY <1>6, <3>0, TakeEffect
      <3>2. BehindInv'
        BY <3>0, <3>1, BehindKept
      <3>3. work'.req.part = 0
        <4>1. StepOf(ops[r.op].kind) \in {"put", "paste", "read", "reply"}
          BY DEF StepOf
        <4>2. \E step \in {"put", "paste", "read", "reply"}, ok \in BOOLEAN : Works(r, step, ok)
          BY <1>6, <2>2, <4>1, TakeEffect
        <4>. QED  BY <2>2, <4>2, WorksEffect
      <3>. QED  BY <1>1, <1>4, <3>1, <3>2, <3>3 DEF PutInv
    <2>3. CASE r.part > 0 /\ buffer' = <<>> /\ Works(r, "reply", FALSE)
      <3>1. work'.step = "reply"
        BY <2>3, WorksEffect
      <3>. QED  BY <1>1, <1>5, <2>3, <3>1 DEF PutInv
    <2>4. CASE /\ r.part > 0 /\ buffer' = Collected(r)
               /\ Works(r, IF r.part = Parts THEN "put" ELSE "reply", TRUE)
      <3> PICK c : c = Collected(r)
        OBVIOUS
      <3>1. /\ c \in Seq(Part) /\ c # <<>> /\ c[Len(c)] = [op |-> r.op, part |-> r.part]
            /\ r.part = 1 \/ buffer = <<>> => Len(c) = 1
            /\ r.part # 1 => /\ Len(c) = Len(buffer) + 1
                             /\ \A i \in 1..Len(buffer) : c[i] = buffer[i]
        BY <2>4, CollectedEffect
      <3>2. Len(c) \in Nat /\ DOMAIN c = 1..Len(c) /\ buffer' = c
        BY <2>4, <3>1, LenProperties
      <3> PICK l : l = c[Len(c)]
        OBVIOUS
      <3>3. l = [op |-> r.op, part |-> r.part] /\ l.op = r.op /\ l.part = r.part
        BY <3>1
      <3>4. BehindInv'
        <4>1. ASSUME NEW j \in DOMAIN up', up'[j].part > 0
              PROVE  \A b : b = up'[j] => Ahead(l, b)'
          BY <2>1, <2>4, <3>3, <4>1, BehindTaken
        <4>. QED  BY <3>2, <4>1 DEF BehindInv, LastPart, Ahead, Before, Contains
      <3>5. r.op \in DOMAIN ops'
        BY <1>3, <1>6, TakeEffect
      <3>6. RunInv'
        <4>1. CASE Len(c) = 1
          <5>1. buffer'[1] = l /\ DOMAIN buffer' = {1}
            BY <3>2, <4>1
          <5>2. l.part = l.part + (1 - 1)
            BY <3>3 DEF Request
          <5>. QED  BY <3>3, <3>5, <5>1, <5>2 DEF RunInv
        <4>2. CASE Len(c) # 1
          <5>1. r.part # 1 /\ buffer # <<>> /\ r.part > 1
            BY <2>4, <3>1, <4>2 DEF Request
          <5>2. r.op = LastPart.op /\ r.part = LastPart.part + 1
            BY <2>1, <5>1, TakenPart
          <5>3. /\ Len(buffer) \in Nat /\ Len(buffer) >= 1 /\ DOMAIN buffer = 1..Len(buffer)
                /\ 1 \in DOMAIN buffer /\ Len(buffer) \in DOMAIN buffer
                /\ buffer[1] \in Part
            <6>1. buffer \in Seq(Part)
              BY DEF Types, HostType
            <6>. QED  BY <5>1, <6>1, LinePlaces, ElementOfSeq
          <5>4. c[1] = buffer[1] /\ buffer[1].part \in Nat
            BY <3>1, <5>1, <5>3 DEF Part
          <5>5. LastPart.op = buffer[1].op /\ LastPart.part = buffer[1].part + (Len(buffer) - 1)
            BY <1>2, <5>3 DEF RunInv, LastPart
          <5>6. ASSUME NEW i \in DOMAIN c
                PROVE  /\ c[i].op = c[1].op /\ c[i].part = c[1].part + (i - 1)
                       /\ c[i].op \in DOMAIN ops'
            <6>1. CASE i \in 1..Len(buffer)
              <7>1. c[i] = buffer[i] /\ i \in DOMAIN buffer
                BY <3>1, <5>1, <5>3, <6>1
              <7>. QED  BY <1>2, <1>3, <5>4, <7>1 DEF RunInv
            <6>2. CASE i = Len(c)
              <7>1. c[i].op = r.op /\ c[i].part = r.part
                BY <3>3, <6>2
              <7>2. i - 1 = Len(buffer)
                BY <3>1, <5>1, <5>3, <6>2
              <7>3. r.part = c[1].part + (i - 1)
                BY <5>2, <5>3, <5>4, <5>5, <7>2
              <7>. QED  BY <3>5, <5>2, <5>4, <5>5, <7>1, <7>3
            <6>. QED  BY <3>1, <3>2, <5>1, <5>3, <6>1, <6>2
          <5>. QED  BY <3>2, <5>6 DEF RunInv
        <4>. QED  BY <4>1, <4>2
      <3>7. PutInv'
        <4>1. work'.req = r /\ (work'.step = "put" => r.part = Parts)
          BY <2>4, WorksEffect
        <4>. QED  BY <3>1, <3>2, <3>3, <4>1 DEF LastPart, PutInv
      <3>. QED  BY <1>1, <3>4, <3>6, <3>7
    <2>. QED  BY <1>6, <2>2, <2>3, <2>4, TakeEffect
  <1>7. CASE Serves
    <2>1. buffer' = <<>> \/ buffer' = buffer
      BY <1>7 DEF Serves
    <2>2. work'.step # "put"
      <3>1. work.req \in Request /\ \E step \in {"paste", "reply"}, ok \in BOOLEAN :
                                       Works(work.req, step, ok)
        BY <1>7 DEF Serves
      <3>. QED  BY <3>1, WorksEffect
    <2>3. buffer' = buffer => BehindInv'
      <3>1. ~\E good \in BOOLEAN : Take(good)
        BY <1>7 DEF Serves, Take
      <3>. QED  BY <3>1, BehindKept
    <2>4. PutInv'
      BY <2>2 DEF PutInv
    <2>. QED  BY <1>1, <1>4, <1>5, <2>1, <2>3, <2>4
  <1>8. ASSUME buffer' = buffer, work' = work \/ work' = None,
               ~\E good \in BOOLEAN : Take(good)
        PROVE  BufferInv'
    <2>1. BehindInv'
      BY <1>8, BehindKept
    <2>2. PutInv'
      BY <1>2, <1>8 DEF LastPart, PutInv
    <2>. QED  BY <1>1, <1>4, <1>8, <2>1, <2>2
  <1>9. CASE Reply \/ EndService
    <2>1. buffer' = buffer /\ (work' = work \/ work' = None)
      BY <1>9 DEF Reply, EndService, host
    <2>. QED  BY <1>6, <1>8, <2>1
  <1>10. CASE ~HostStep
    <2>1. buffer' = buffer /\ work' = work
      BY <1>10, HostKept
    <2>. QED  BY <1>6, <1>8, <2>1
  <1>. QED  BY <1>6, <1>7, <1>9, <1>10, HostKinds

-----------------------------------------------------------------------------
(* Pictures wait behind those that are sent *)

WaitInv ==
    \A w \in Waiting :
       /\ \A j \in DOMAIN up : up[j].part > 0 => up[j].op < w
       /\ buffer # <<>> => LastPart.op < w
       /\ upload # None => upload.op < w

\* How the upload changes.
LEMMA UploadKinds ==
    ASSUME Types, [Next]_vars, upload' # None
    PROVE  \/ \E o \in Waiting :
                 /\ StartUpload(o) /\ upload' = [op |-> o, next |-> 1, broken |-> FALSE]
                 /\ UNCHANGED <<up, open>> /\ UNCHANGED <<buffer, work, pasted>>
                 /\ Waiting' = Waiting \ {o}
           \/ /\ upload # None /\ upload'.op = upload.op
              /\ \/ upload'.next = upload.next
                 \/ \E m \in 1..Parts : Sends(upload.op, upload.next, m)
                                        /\ upload'.next = upload.next + m
  <1>1. ASSUME NEW o \in Waiting, StartUpload(o), upload' # upload
        PROVE  /\ upload' = [op |-> o, next |-> 1, broken |-> FALSE]
               /\ UNCHANGED <<up, open>> /\ UNCHANGED <<buffer, work, pasted>>
               /\ Waiting' = Waiting \ {o}
    <2>1. /\ upload' = [op |-> o, next |-> 1, broken |-> FALSE]
          /\ ops' = [ops EXCEPT ![o].state = "sent"]
          /\ UNCHANGED <<up, open>> /\ UNCHANGED <<buffer, work, pasted>>
      BY <1>1 DEF StartUpload, host
    <2>. QED  BY <2>1, StateWaits DEF Waiting
  <1>2. CASE upload # None /\ upload' = upload
    BY <1>2
  <1>3. CASE SendWindow
    <2>1. upload # None /\ upload \in Upload /\ upload.op \in 1..MaxOps
      BY <1>3, UploadTypes DEF SendWindow, WindowDone
    <2>2. CASE open
      <3>. PICK n \in 1..Parts : /\ upload.next + n <= Parts + 1
                                 /\ upload' = [upload EXCEPT !.next = upload.next + n]
                                 /\ Send(upload.op, [i \in 1..n |-> upload.next + i - 1])
        BY <1>3, <2>2, WindowEffect
      <3>1. upload.next \in 1..Parts
        BY <1>3, <2>1 DEF SendWindow, Upload
      <3>2. Sends(upload.op, upload.next, n)
        BY <1>3, <2>1, <2>2, <3>1 DEF SendWindow, Sends
      <3>3. upload'.op = upload.op /\ upload'.next = upload.next + n
        BY <2>1 DEF Upload
      <3>. QED  BY <2>1, <3>2, <3>3
    <2>3. CASE ~open
      <3>1. upload' = [upload EXCEPT !.broken = TRUE]
        BY <1>3, <2>3 DEF SendWindow
      <3>. QED  BY <2>1, <3>1 DEF Upload
    <2>. QED  BY <2>2, <2>3
  <1>4. CASE Settles
    <2>1. \/ upload' = upload
          \/ upload # None /\ upload' = [upload EXCEPT !.broken = TRUE]
      BY <1>4 DEF Settles, Settle
    <2>. QED  BY <2>1, UploadTypes DEF Upload
  <1>5. CASE Presses \/ HostStep \/ \E kind \in Kinds, from \in 0..MaxOps : Starts(kind, from)
    <2>1. upload' = upload
      BY <1>5, HostStepKeeps DEF Presses, Starts, Start, session
    <2>. QED  BY <2>1
  <1>6. EndUpload => FALSE
    BY DEF EndUpload
  <1>7. ASSUME NEW o \in Waiting, StartUpload(o) PROVE upload = None
    BY <1>7 DEF StartUpload
  <1>. QED  BY <1>1, <1>2, <1>3, <1>4, <1>5, <1>6, <1>7, StepKinds

\* How the buffer changes, as far as its last part goes.
LEMMA LastKinds ==
    ASSUME Types, RequestsInv, [Next]_vars, buffer' # <<>>
    PROVE  \/ buffer' = buffer /\ ~(up[1].part # 0 /\ \E good \in BOOLEAN : Take(good))
           \/ /\ \E good \in BOOLEAN : Take(good)
              /\ up # <<>> /\ up' = Tail(up) /\ 1 \in DOMAIN up /\ up[1].part > 0
              /\ LastPart' = [op |-> up[1].op, part |-> up[1].part]
  <1>1. ASSUME NEW good \in BOOLEAN, Take(good), up[1].part # 0
        PROVE  /\ up # <<>> /\ up' = Tail(up) /\ 1 \in DOMAIN up /\ up[1].part > 0
               /\ LastPart' = [op |-> up[1].op, part |-> up[1].part]
    <2>1. /\ up # <<>> /\ up' = Tail(up) /\ 1 \in DOMAIN up /\ up[1].part > 0
          /\ up[1] \in Request /\ buffer' = Collected(up[1])
      BY <1>1, TakeEffect
    <2>. QED  BY <2>1, CollectedEffect DEF LastPart
  <1>2. ASSUME NEW good \in BOOLEAN, Take(good), up[1].part = 0 PROVE buffer' = buffer
    <2>1. ~(up[1].part > 0)
      BY <1>2
    <2>. QED  BY <1>2, <2>1, TakeEffect
  <1>3. ASSUME Serves \/ Reply \/ EndService
        PROVE  buffer' = buffer /\ ~\E good \in BOOLEAN : Take(good)
    <2>1. work # None \/ UNCHANGED <<work, buffer>>
      BY <1>3 DEF Serves, Reply, EndService, host
    <2>2. buffer' = buffer
      BY <1>3 DEF Serves, Reply, EndService, host
    <2>3. ~\E good \in BOOLEAN : Take(good)
      <3>1. ASSUME NEW good \in BOOLEAN, Take(good) PROVE FALSE
        <4>1. work = None /\ work' # None
          <5>1. work' # None
            <6>1. StepOf(ops[up[1].op].kind) \in {"put", "paste", "read", "reply"}
              BY DEF StepOf
            <6>. QED  BY <3>1, <6>1, TakeEffect, WorksEffect
          <5>. QED  BY <3>1, <5>1, TakeEffect
        <4>. QED  BY <2>1, <4>1
      <3>. QED  BY <3>1
    <2>. QED  BY <2>2, <2>3
  <1>4. ~HostStep => buffer' = buffer /\ ~\E good \in BOOLEAN : Take(good)
    BY HostKept DEF HostStep
  <1>. QED  BY <1>1, <1>2, <1>3, <1>4, HostKinds

LEMMA OpenStep == ASSUME Types, [Next]_vars PROVE open' => open
  BY StepKinds, HostStepKeeps
     DEF Presses, Starts, Start, StartUpload, SendWindow, EndUpload, Settles, session

\* How the line changes, as far as parts of pictures go.
LEMMA LineKinds ==
    ASSUME Types, RoomInv, [Next]_vars, NEW j \in DOMAIN up', up'[j].part > 0
    PROVE  \/ up' = up
           \/ /\ \E good \in BOOLEAN : Take(good)
              /\ up # <<>> /\ up' = Tail(up)
              /\ \E i \in DOMAIN up : up'[j] = up[i] /\ i > 1
           \/ \E o, from, m : Sends(o, from, m) /\ \E i \in DOMAIN up : up'[j] = up[i]
           \/ \E m \in 1..Parts : \E l \in 1..m :
                 /\ upload # None /\ Sends(upload.op, upload.next, m) /\ open
                 /\ upload.next \in 1..Parts
                 /\ up'[j] = NewRequest(upload.op, upload.next, l)
                 /\ up'[j].op = upload.op /\ up'[j].part = upload.next + l - 1
  <1>1. CASE up' = up
    BY <1>1
  <1>2. ASSUME NEW good \in BOOLEAN, Take(good), up # <<>>, up' = Tail(up)
        PROVE  \E i \in DOMAIN up : up'[j] = up[i] /\ i > 1
    <2>1. j + 1 \in DOMAIN up /\ up'[j] = up[j + 1] /\ j \in Nat /\ j >= 1
      BY <1>2, TailEffect, LineType
    <2>. QED  BY <2>1
  <1>3. ASSUME NEW o \in 1..MaxOps, NEW from \in 0..Parts, NEW m \in 1..Parts,
               Sends(o, from, m)
        PROVE  \/ \E i \in DOMAIN up : up'[j] = up[i]
               \/ \E l \in 1..m :
                     /\ upload # None /\ o = upload.op /\ from = upload.next /\ open
                     /\ from \in 1..Parts /\ up'[j] = NewRequest(o, from, l)
                     /\ up'[j].op = o /\ up'[j].part = from + l - 1
    <2>1. CASE j \in DOMAIN up
      BY <1>3, <2>1, SendsKeeps
    <2>2. CASE j \notin DOMAIN up
      <3> PICK l \in 1..m : up'[j] = NewRequest(o, from, l)
        BY <1>3, <2>2, SendsKeeps
      <3>1. up'[j].op = o /\ up'[j].part = from + l - 1
        BY DEF NewRequest
      <3>2. from >= 1
        <4>1. CASE from = 0
          <5>1. m = 1
            BY <1>3, <4>1 DEF Sends
          <5>. QED  BY <3>1, <4>1, <5>1
        <4>. QED  BY <4>1
      <3>3. upload # None /\ o = upload.op /\ from = upload.next /\ open
        BY <1>3, <3>2 DEF Sends
      <3>. QED  BY <3>1, <3>2, <3>3
    <2>. QED  BY <2>1, <2>2
  <1>4. up' # <<>>
    OBVIOUS
  <1>5. CASE up # <<>> /\ up' = Tail(up) /\ \E good \in BOOLEAN : Take(good)
    <2> PICK good \in BOOLEAN : Take(good)
      BY <1>5
    <2>1. \E i \in DOMAIN up : up'[j] = up[i] /\ i > 1
      BY <1>2, <1>5
    <2>. QED  BY <1>5, <2>1
  <1>6. ASSUME NEW o \in 1..MaxOps, NEW from \in 0..Parts, NEW m \in 1..Parts,
               Sends(o, from, m), \E i \in DOMAIN up : up'[j] = up[i]
        PROVE  \E q, f, n : Sends(q, f, n) /\ \E i \in DOMAIN up : up'[j] = up[i]
    BY <1>6
  <1>7. ASSUME NEW o \in 1..MaxOps, NEW from \in 0..Parts, NEW m \in 1..Parts,
               Sends(o, from, m), NEW l \in 1..m,
               upload # None, o = upload.op, from = upload.next, open,
               from \in 1..Parts, up'[j] = NewRequest(o, from, l),
               up'[j].op = o, up'[j].part = from + l - 1
        PROVE  \E n \in 1..Parts : \E k \in 1..n :
                  /\ upload # None /\ Sends(upload.op, upload.next, n) /\ open
                  /\ upload.next \in 1..Parts
                  /\ up'[j] = NewRequest(upload.op, upload.next, k)
                  /\ up'[j].op = upload.op /\ up'[j].part = upload.next + k - 1
    <2>1. /\ upload # None /\ Sends(upload.op, upload.next, m) /\ open
          /\ upload.next \in 1..Parts
          /\ up'[j] = NewRequest(upload.op, upload.next, l)
          /\ up'[j].op = upload.op /\ up'[j].part = upload.next + l - 1
      BY <1>7
    <2>. QED  BY <2>1, Zenon
  <1>8. CASE \E o \in 1..MaxOps, from \in 0..Parts, m \in 1..Parts : Sends(o, from, m)
    <2> PICK o \in 1..MaxOps, from \in 0..Parts, m \in 1..Parts : Sends(o, from, m)
      BY <1>8
    <2>1. CASE \E i \in DOMAIN up : up'[j] = up[i]
      BY <1>6, <2>1, Zenon
    <2>2. CASE ~\E i \in DOMAIN up : up'[j] = up[i]
      <3> PICK l \in 1..m :
                /\ upload # None /\ o = upload.op /\ from = upload.next /\ open
                /\ from \in 1..Parts /\ up'[j] = NewRequest(o, from, l)
                /\ up'[j].op = o /\ up'[j].part = from + l - 1
        BY <1>3, <2>2
      <3>. QED  BY <1>7, Zenon
    <2>. QED  BY <2>1, <2>2
  <1>. QED  BY <1>1, <1>4, <1>5, <1>8, SendKinds

LEMMA WaitStep ==
    ASSUME Types, RoomInv, RequestsInv, UploadInv, BufferInv, WaitInv, [Next]_vars
    PROVE  WaitInv'
  <1>0. \A w \in Waiting : w \in Nat
    BY LenProperties DEF Waiting, Types, OpsType
  <1> DEFINE Behind(w) == /\ \A j \in DOMAIN up : up[j].part > 0 => up[j].op < w
                          /\ buffer # <<>> => LastPart.op < w
                          /\ upload # None => upload.op < w
  <1>1. ASSUME NEW w \in Nat, Behind(w), ~\E o \in Waiting : StartUpload(o)
        PROVE  Behind(w)'
    <2>1. ASSUME NEW j \in DOMAIN up', up'[j].part > 0 PROVE up'[j].op < w
      <3>1. (\E i \in DOMAIN up : up'[j] = up[i]) \/ (upload # None /\ up'[j].op = upload.op)
        BY <2>1, LineKinds
      <3>. QED  BY <1>1, <2>1, <3>1
    <2>2. ASSUME buffer' # <<>> PROVE LastPart'.op < w
      <3>1. CASE buffer' = buffer
        BY <1>1, <2>2, <3>1 DEF LastPart
      <3>2. CASE 1 \in DOMAIN up /\ up[1].part > 0
                 /\ LastPart' = [op |-> up[1].op, part |-> up[1].part]
        BY <1>1, <3>2
      <3>. QED  BY <2>2, <3>1, <3>2, LastKinds
    <2>3. ASSUME upload' # None PROVE upload'.op < w
      BY <1>1, <2>3, UploadKinds
    <2>. QED  BY <2>1, <2>2, <2>3
  <1>2. ASSUME NEW w \in Nat, \A o \in DOMAIN ops : o < w PROVE Behind(w)
    <2>1. ASSUME NEW j \in DOMAIN up PROVE up[j].op < w
      <3>1. up[j] \in Requested
        BY DEF Requested, Line
      <3>. QED  BY <1>2, <3>1 DEF RequestsInv
    <2>2. buffer # <<>> => LastPart.op \in DOMAIN ops
      BY LinePlaces DEF BufferInv, RunInv, LastPart
    <2>3. upload # None => upload.op \in DOMAIN ops
      BY UploadTypes
    <2>. QED  BY <1>2, <2>1, <2>2, <2>3
  <1>3. \A w \in Waiting : Behind(w)
    BY DEF WaitInv
  <1> HIDE DEF Behind
  <1>4. ASSUME NEW o \in Waiting, StartUpload(o) PROVE WaitInv'
    <2>1. PICK state \in {"sent", "done", "failed"} : ops' = [ops EXCEPT ![o].state = state]
      BY <1>4 DEF StartUpload, EndOp
    <2>2. Waiting' = Waiting \ {o}
      BY <2>1, StateWaits DEF Waiting
    <2>3. UNCHANGED <<up, buffer>> /\ (upload' # None => upload'.op = o)
      <3>1. upload = None /\ UNCHANGED <<up, buffer>>
        BY <1>4 DEF StartUpload, host
      <3>2. upload' = upload \/ upload' = [op |-> o, next |-> 1, broken |-> FALSE]
        BY <1>4 DEF StartUpload
      <3>. QED  BY <3>1, <3>2
    <2>4. ASSUME NEW w \in Waiting' PROVE o < w
      <3>1. o <= w /\ o # w /\ w \in Waiting
        BY <1>4, <2>2 DEF StartUpload, NextWaiting
      <3>. QED  BY <1>0, <3>1
    <2>5. \A w \in Waiting' : /\ \A j \in DOMAIN up : up[j].part > 0 => up[j].op < w
                              /\ buffer # <<>> => LastPart.op < w
      BY <2>2 DEF WaitInv
    <2>. QED  BY <2>3, <2>4, <2>5 DEF WaitInv, LastPart
  <1>5. CASE ~\E o \in Waiting : StartUpload(o)
    <2>1. SUFFICES ASSUME NEW w \in Waiting' PROVE Behind(w)'
      BY DEF WaitInv, Behind
    <2>2. CASE w \in Waiting
      BY <1>0, <1>1, <1>3, <1>5, <2>2
    <2>3. CASE w = Len(ops) + 1
      <3>1. w \in Nat /\ \A o \in DOMAIN ops : o < w
        BY <2>3, LenProperties DEF Types, OpsType
      <3>. QED  BY <1>1, <1>2, <1>5, <3>1
    <2>. QED  BY <2>2, <2>3, WaitingStep
  <1>. QED  BY <1>4, <1>5

LEMMA SendStep ==
    ASSUME Types, RoomInv, RequestsInv, UploadInv, LineInv, BufferInv, SendInv, WaitInv,
           [Next]_vars
    PROVE  SendInv'
  <1>1. CASE upload' = None
    BY <1>1 DEF SendInv
  <1>2. ASSUME NEW o \in Waiting, upload' = [op |-> o, next |-> 1, broken |-> FALSE],
               UNCHANGED <<up, open, buffer>>
        PROVE  SendInv'
    <2> PICK b : b = [op |-> o, part |-> 1]
      OBVIOUS
    <2>1. NextPart' = b
      BY <1>2 DEF NextPart
    <2>2. ASSUME NEW a, a.op < o PROVE Before(a, b) /\ Ahead(a, b)'
      BY <2>2 DEF Before, Ahead
    <2>3. ASSUME NEW j \in DOMAIN up, up[j].part > 0
          PROVE  \E a : a = up[j] /\ Before(a, b) /\ Ahead(a, b)'
      <3> PICK a : a = up[j]
        OBVIOUS
      <3>1. a.op < o
        BY <2>3 DEF WaitInv
      <3>. QED  BY <2>2, <3>1
    <2>4. buffer # <<>> => \E a : a = LastPart /\ Ahead(a, b)'
      <3> PICK a : a = LastPart
        OBVIOUS
      <3>1. buffer # <<>> => a.op < o
        BY DEF WaitInv
      <3>. QED  BY <2>2, <3>1
    <2>. QED  BY <1>2, <2>1, <2>3, <2>4 DEF SendInv, LastPart, Ahead, Before, Contains
  <1>3. ASSUME upload # None, upload' # None, upload'.op = upload.op,
               upload'.next = upload.next
        PROVE  SendInv'
    <2> PICK b : b = NextPart
      OBVIOUS
    <2>1. NextPart' = b
      BY <1>3 DEF NextPart
    <2>2. ASSUME NEW j \in DOMAIN up', up'[j].part > 0
          PROVE  \E a : a = up'[j] /\ Before(a, b) /\ (open' => Ahead(a, b)')
      <3> PICK a : a = up'[j]
        OBVIOUS
      <3>1. ASSUME NEW i \in DOMAIN up, a = up[i]
            PROVE  /\ Before(a, b) /\ (open' => Ahead(a, b))
                   /\ a.op \in Nat /\ a.part \in Nat
        BY <1>3, <2>2, <3>1, LinePlaces, OpenStep DEF SendInv
      <3>2. CASE up' = up
        BY <3>1, <3>2, AheadSame
      <3>3. CASE up # <<>> /\ up' = Tail(up) /\ \E i \in DOMAIN up : up'[j] = up[i] /\ i > 1
        <4> PICK i \in DOMAIN up : a = up[i] /\ i > 1
          BY <3>3
        <4>1. up[1].part = 0 \/ Before(up[1], a)
          <5>1. 1 \in DOMAIN up /\ up[1].part \in Nat
            BY <3>3, LineType, LinePlaces
          <5>. QED  BY <2>2, <5>1 DEF LineInv, Ahead
        <4>2. open' => Ahead(a, b)'
          BY <3>1, <3>3, <4>1, AheadTail
        <4>. QED  BY <3>1, <4>2
      <3>4. ASSUME NEW o, NEW from, NEW m, Sends(o, from, m),
                   \E i \in DOMAIN up : up'[j] = up[i]
            PROVE  Before(a, b) /\ (open' => Ahead(a, b)')
        BY <3>1, <3>4, AheadSends
      <3>5. ASSUME NEW m \in 1..Parts, Sends(upload.op, upload.next, m), upload.next \in 1..Parts
            PROVE  FALSE
        <4>1. upload' = [upload EXCEPT !.next = upload.next + m]
          BY <3>5 DEF Sends
        <4>2. upload'.next = upload.next + m
          BY <1>3, <4>1, UploadTypes DEF Upload
        <4>. QED  BY <1>3, <3>5, <4>2
      <3>. QED  BY <2>2, <3>2, <3>3, <3>4, <3>5, LineKinds
    <2>3. ASSUME buffer' # <<>>, open'
          PROVE  \E a : a = LastPart' /\ Ahead(a, b)'
      <3> PICK a : a = LastPart'
        OBVIOUS
      <3>1. open
        BY <2>3, OpenStep
      <3>2. CASE buffer' = buffer /\ ~(up[1].part # 0 /\ \E good \in BOOLEAN : Take(good))
        <4>1. a = LastPart /\ Ahead(a, b) /\ a.op \in Nat /\ a.part \in Nat
          BY <1>3, <2>3, <3>1, <3>2, LinePlaces DEF SendInv, LastPart
        <4>2. CASE up' = up
          BY <4>1, <4>2, AheadSame
        <4>3. CASE up # <<>> /\ up' = Tail(up) /\ \E good \in BOOLEAN : Take(good)
          <5>1. up[1].part = 0
            BY <3>2, <4>3
          <5>2. Ahead(a, b)'
            BY <4>1, <4>3, <5>1, AheadTail
          <5>. QED  BY <5>2
        <4>4. ASSUME NEW o, NEW from, NEW m, Sends(o, from, m) PROVE Ahead(a, b)'
          BY <4>1, <4>4, AheadSends
        <4>. QED  BY <2>3, <4>2, <4>3, <4>4, SendKinds
      <3>3. CASE /\ up # <<>> /\ up' = Tail(up) /\ 1 \in DOMAIN up /\ up[1].part > 0
                 /\ LastPart' = [op |-> up[1].op, part |-> up[1].part]
        <4>1. a.op = up[1].op /\ a.part = up[1].part /\ a.op \in Nat /\ a.part \in Nat
          BY <3>3, LinePlaces
        <4>2. Ahead(up[1], b)
          BY <1>3, <3>1, <3>3 DEF SendInv
        <4>3. Ahead(a, b)
          BY <4>1, <4>2 DEF Ahead, Before
        <4>4. Ahead(a, b)'
          BY <3>3, <4>1, <4>3, AheadTail
        <4>. QED  BY <4>4
      <3>. QED  BY <2>3, <3>2, <3>3, LastKinds
    <2>. QED  BY <2>1, <2>2, <2>3 DEF SendInv, Ahead, Before, Contains
  <1>4. ASSUME upload # None, upload' # None, upload'.op = upload.op, NEW m \in 1..Parts,
               Sends(upload.op, upload.next, m), upload'.next = upload.next + m
        PROVE  SendInv'
    <2> PICK o \in 1..MaxOps, from \in 1..(Parts + 1) : o = upload.op /\ from = upload.next
      BY <1>4, UploadTypes
    <2>1. from \in 1..Parts /\ from + m \in from..(from + m) /\ Sends(o, from, m)
          /\ open /\ buffer' = buffer /\ from + m \in 1..(Parts + 1)
      BY <1>4 DEF Sends, host
    <2> PICK b : b = [op |-> o, part |-> from + m]
      OBVIOUS
    <2>2. NextPart' = b /\ b.op = o /\ b.part = from + m
      BY <1>4 DEF NextPart
    <2>3. ASSUME NEW a, a.op \in Nat, a.part \in Nat, Before(a, NextPart)
          PROVE  Before(a, b) /\ (a.op = o => a.part < from + m)
      BY <2>1, <2>2, <2>3 DEF Before, NextPart
    <2>4. ASSUME NEW a, a.op \in Nat, a.part \in Nat, Ahead(a, NextPart)
          PROVE  Ahead(a, b)'
      <3>1. a.op = o => a.part < from + m
        BY <2>3, <2>4 DEF Ahead
      <3>. QED  BY <2>1, <2>2, <2>4, <3>1, AheadOfWindow
    <2>5. ASSUME NEW j \in DOMAIN up', up'[j].part > 0
          PROVE  \E a : a = up'[j] /\ Before(a, b) /\ Ahead(a, b)'
      <3> PICK a : a = up'[j]
        OBVIOUS
      <3>1. CASE j \in DOMAIN up
        <4>1. a = up[j] /\ a.op \in Nat /\ a.part \in Nat
          BY <2>1, <3>1, SendsKeeps, LinePlaces
        <4>2. Before(a, NextPart) /\ Ahead(a, NextPart)
          BY <1>4, <2>1, <2>5, <3>1, <4>1 DEF SendInv
        <4>. QED  BY <2>3, <2>4, <4>1, <4>2
      <3>2. CASE j \notin DOMAIN up
        <4> PICK l \in 1..m : a = NewRequest(o, from, l)
          BY <2>1, <3>2, SendsKeeps
        <4>1. a.op = o /\ a.part = from + l - 1
          BY DEF NewRequest
        <4>2. from + l - 1 \in Nat /\ from + l - 1 \in from..(from + m - 1)
              /\ from + l - 1 < from + m
          BY <2>1
        <4>3. Before(a, b)
          BY <2>2, <4>1, <4>2 DEF Before
        <4>4. Ahead(a, b)'
          BY <2>1, <2>2, <4>1, <4>2, AheadOfWindow
        <4>. QED  BY <4>3, <4>4
      <3>. QED  BY <3>1, <3>2
    <2>6. buffer # <<>> => \E a : a = LastPart /\ Ahead(a, b)'
      <3> PICK a : a = LastPart
        OBVIOUS
      <3>1. buffer # <<>> => Ahead(a, NextPart) /\ a.op \in Nat /\ a.part \in Nat
        BY <1>4, <2>1, LinePlaces DEF SendInv
      <3>. QED  BY <2>4, <3>1
    <2>7. LastPart' = LastPart
      BY <2>1 DEF LastPart
    <2>. QED  BY <2>1, <2>2, <2>5, <2>6, <2>7 DEF SendInv, Ahead, Before, Contains
  <1>. QED  BY <1>1, <1>2, <1>3, <1>4, UploadKinds

-----------------------------------------------------------------------------
(* The order of the pictures *)

\* How the Host's state changes.
LEMMA WorkKinds ==
    ASSUME Types, RequestsInv, [Next]_vars
    PROVE  \/ UNCHANGED <<buffer, put, pasted>> /\ (work' = work \/ work' = None)
           \/ \E good \in BOOLEAN : Take(good)
           \/ Serves
  <1>1. CASE ~HostStep
    BY <1>1, HostKept
  <1>2. CASE Reply \/ EndService
    BY <1>2 DEF Reply, EndService, host
  <1>. QED  BY <1>1, <1>2, HostKinds

\* A request whose part has a number is for a picture.
LEMMA PartOfPicture ==
    ASSUME Types, RequestsInv, NEW r \in Requested
    PROVE  r.part > 0 <=> ops[r.op].kind = "picture"
  <1>1. r \in Request
    BY LineType, WorkType DEF Requested, Types, WireType
  <1>2. r.part \in 0..Parts
    BY <1>1 DEF Request
  <1>. QED  BY <1>2 DEF RequestsInv

\* Pictures that have been pasted, or are all there and about to be
IsPicture(o) == ops[o].kind = "picture"
Complete == work # None /\ work.step \in {"put", "paste"} /\ work.req.part > 0
Passed == {o \in pasted : IsPicture(o)} \cup {o \in DOMAIN ops : Complete /\ o = work.req.op}

\* What is sent or waits is behind them.
PassedInv ==
    \A o \in Passed :
       /\ \A j \in DOMAIN up : up[j].part > 0 => o < up[j].op
       /\ upload # None => o < upload.op \/ (o = upload.op /\ upload.next = Parts + 1)
       /\ \A w \in Waiting : o < w

\* So the picture that is about to be pasted is behind those that have been.
WorkedInv == Complete => \A o \in pasted : IsPicture(o) => o < work.req.op

\* A picture is complete with its last part.
LEMMA CompleteStep ==
    ASSUME Types, RequestsInv, [Next]_vars, Complete'
    PROVE  \/ Complete /\ work'.req.op = work.req.op
           \/ \E good \in BOOLEAN :
                 Take(good) /\ up[1].part = Parts /\ work'.req.op = up[1].op
  <1>1. CASE UNCHANGED <<buffer, put, pasted>> /\ (work' = work \/ work' = None)
    BY <1>1 DEF Complete
  <1>2. ASSUME NEW good \in BOOLEAN, Take(good)
        PROVE  up[1].part = Parts /\ work'.req.op = up[1].op
    <2>1. up[1] \in Request
      BY <1>2, TakeEffect
    <2>2. \A step \in {"put", "paste", "read", "reply"}, ok \in BOOLEAN :
             Works(up[1], step, ok) => work'.req = up[1] /\ work'.step = step
      BY <2>1, WorksEffect
    <2>3. StepOf(ops[up[1].op].kind) \in {"put", "paste", "read", "reply"}
      BY DEF StepOf
    <2>4. work'.req = up[1]
      BY <1>2, <2>2, <2>3, TakeEffect
    <2>5. up[1].part > 0
      BY <2>4 DEF Complete
    <2>6. CASE up[1].part # Parts
      <3>1. Works(up[1], "reply", TRUE) \/ Works(up[1], "reply", FALSE)
        <4>1. up[1].part # 0 /\ (IF up[1].part = Parts THEN "put" ELSE "reply") = "reply"
          BY <2>5, <2>6
        <4>2. \/ Works(up[1], IF up[1].part = Parts THEN "put" ELSE "reply", TRUE)
              \/ Works(up[1], "reply", FALSE)
          BY <1>2, <4>1, TakeEffect
        <4>. QED  BY <4>1, <4>2
      <3>2. work'.step = "reply"
        BY <2>2, <3>1
      <3>. QED  BY <3>2 DEF Complete
    <2>. QED  BY <2>4, <2>6
  <1>3. CASE Serves
    <2> PICK w : w = work
      OBVIOUS
    <2>1. w \in Work /\ w.req \in Request /\ work # None
      BY <1>3, WorkType DEF Serves
    <2>2. \A step \in {"put", "paste", "read", "reply"}, ok \in BOOLEAN :
             Works(w.req, step, ok) => work'.req = w.req /\ work'.step = step
      BY <2>1, WorksEffect
    <2>3. work'.step = "paste" /\ work'.req = w.req /\ w.step = "put"
      BY <1>3, <2>2 DEF Serves, Complete
    <2>. QED  BY <2>1, <2>3 DEF Complete
  <1>. QED  BY <1>1, <1>2, <1>3, WorkKinds

\* Something is pasted when it is the request's turn.
LEMMA PastedStep ==
    ASSUME Types, RequestsInv, [Next]_vars, NEW o \in pasted' \ pasted
    PROVE  /\ work # None /\ work.step = "paste" /\ o = work.req.op /\ work.req \in Requested
           /\ o \in DOMAIN ops
  <1>1. CASE UNCHANGED <<buffer, put, pasted>>
    BY <1>1
  <1>2. CASE \E good \in BOOLEAN : Take(good)
    BY <1>2 DEF Take
  <1>3. CASE Serves
    <2>1. work # None /\ work.req \in Requested /\ work.req.op \in DOMAIN ops
      BY <1>3 DEF Serves
    <2>2. pasted' = pasted \/ (work.step = "paste" /\ pasted' = pasted \cup {work.req.op})
      BY <1>3 DEF Serves
    <2>. QED  BY <2>1, <2>2
  <1>. QED  BY <1>1, <1>2, <1>3, WorkKinds

LEMMA PassedStep ==
    ASSUME Types, RequestsInv, [Next]_vars, NEW o \in Passed'
    PROVE  \/ o \in Passed
           \/ \E good \in BOOLEAN : Take(good) /\ up[1].part = Parts /\ o = up[1].op
  <1>1. pasted \subseteq DOMAIN ops
    BY DEF Types, HostType
  <1>2. CASE o \in pasted' /\ IsPicture(o)'
    <2>1. CASE o \in pasted
      BY <1>1, <1>2, <2>1, OpsStep DEF SameOps, IsPicture, Passed
    <2>2. CASE o \notin pasted
      <3>1. /\ work # None /\ work.step = "paste" /\ o = work.req.op /\ work.req \in Requested
            /\ o \in DOMAIN ops
        BY <1>2, <2>2, PastedStep
      <3>2. ops[o].kind = "picture"
        BY <1>2, <3>1, OpsStep DEF SameOps, IsPicture
      <3>. QED  BY <3>1, <3>2, PartOfPicture DEF Passed, Complete
    <2>. QED  BY <2>1, <2>2
  <1>3. CASE Complete' /\ o = work'.req.op
    <2>1. CASE Complete /\ work'.req.op = work.req.op
      <3>1. work.req \in Requested
        BY <2>1 DEF Complete, Requested
      <3>2. o \in DOMAIN ops
        BY <1>3, <2>1, <3>1 DEF RequestsInv
      <3>. QED  BY <1>3, <2>1, <3>2 DEF Passed
    <2>. QED  BY <1>3, <2>1, CompleteStep
  <1>. QED  BY <1>2, <1>3 DEF Passed

LEMMA PassedOps == ASSUME Types PROVE Passed \subseteq DOMAIN ops
  BY DEF Types, HostType, Passed

LEMMA OrderStep ==
    ASSUME Types, RoomInv, RequestsInv, UploadInv, LineInv, SendInv, WaitInv, PassedInv,
           [Next]_vars
    PROVE  PassedInv'
  <1>1. DOMAIN ops = 1..Len(ops) /\ Len(ops) \in Nat /\ Waiting \subseteq DOMAIN ops
    BY LenProperties DEF Types, OpsType, Waiting
  <1>2. ASSUME NEW o \in Passed
        PROVE  /\ \A j \in DOMAIN up' : up'[j].part > 0 => o < up'[j].op
               /\ upload' # None => o < upload'.op \/ (o = upload'.op /\ upload'.next = Parts + 1)
               /\ \A w \in Waiting' : o < w
    <2>1. o \in Nat /\ o <= Len(ops)
      BY <1>1, PassedOps
    <2>2. ASSUME upload # None, upload.next \in 1..Parts PROVE o < upload.op
      BY <2>2 DEF PassedInv
    <2>3. ASSUME NEW j \in DOMAIN up', up'[j].part > 0 PROVE o < up'[j].op
      <3>1. \/ \E i \in DOMAIN up : up'[j] = up[i]
            \/ upload # None /\ upload.next \in 1..Parts /\ up'[j].op = upload.op
        BY <2>3, LineKinds
      <3>. QED  BY <2>2, <2>3, <3>1 DEF PassedInv
    <2>4. ASSUME upload' # None
          PROVE  o < upload'.op \/ (o = upload'.op /\ upload'.next = Parts + 1)
      <3>1. ASSUME NEW m \in 1..Parts, Sends(upload.op, upload.next, m), upload # None
            PROVE  upload.next \in 1..Parts
        BY <3>1, UploadTypes DEF Sends
      <3>. QED  BY <2>2, <2>4, <3>1, UploadKinds DEF PassedInv
    <2>5. ASSUME NEW w \in Waiting' PROVE o < w
      <3>1. w \in Waiting \/ w = Len(ops) + 1
        BY WaitingStep
      <3>. QED  BY <1>1, <2>1, <3>1 DEF PassedInv
    <2>. QED  BY <2>3, <2>4, <2>5
  <1>3. ASSUME NEW good \in BOOLEAN, Take(good), up[1].part = Parts
        PROVE  /\ \A j \in DOMAIN up' : up'[j].part > 0 => up[1].op < up'[j].op
               /\ upload' # None => \/ up[1].op < upload'.op
                                    \/ up[1].op = upload'.op /\ upload'.next = Parts + 1
               /\ \A w \in Waiting' : up[1].op < w
    <2>1. /\ up # <<>> /\ up' = Tail(up) /\ 1 \in DOMAIN up
          /\ UNCHANGED <<ops, upload>> /\ Parts > 0
      BY <1>3, LineType DEF Take, session
    <2>2. ASSUME NEW j \in DOMAIN up', up'[j].part > 0 PROVE up[1].op < up'[j].op
      <3>1. j + 1 \in DOMAIN up /\ up'[j] = up[j + 1] /\ 1 < j + 1
        BY <2>1, TailEffect
      <3>2. Before(up[1], up[j + 1])
        BY <1>3, <2>1, <2>2, <3>1 DEF LineInv, Ahead
      <3>3. up[j + 1].part \in 0..Parts
        BY <3>1, LinePlaces
      <3>. QED  BY <1>3, <3>1, <3>2, <3>3 DEF Before
    <2>3. ASSUME upload # None
          PROVE  up[1].op < upload.op \/ (up[1].op = upload.op /\ upload.next = Parts + 1)
      <3>1. Before(up[1], NextPart)
        BY <1>3, <2>1, <2>3 DEF SendInv
      <3>2. upload.next \in 1..(Parts + 1)
        BY <2>3, UploadTypes
      <3>. QED  BY <1>3, <3>1, <3>2 DEF Before, NextPart
    <2>4. Waiting' = Waiting /\ \A w \in Waiting : up[1].op < w
      BY <1>3, <2>1 DEF Waiting, WaitInv
    <2>. QED  BY <2>1, <2>2, <2>3, <2>4
  <1>4. ASSUME NEW o \in Passed'
        PROVE  /\ \A j \in DOMAIN up' : up'[j].part > 0 => o < up'[j].op
               /\ upload' # None => o < upload'.op \/ (o = upload'.op /\ upload'.next = Parts + 1)
               /\ \A w \in Waiting' : o < w
    <2>1. CASE o \in Passed
      BY <1>2, <2>1
    <2>2. CASE \E good \in BOOLEAN : Take(good) /\ up[1].part = Parts /\ o = up[1].op
      BY <1>3, <2>2
    <2>. QED  BY <2>1, <2>2, PassedStep
  <1>. QED  BY <1>4 DEF PassedInv

LEMMA WorkedStep ==
    ASSUME Types, RequestsInv, PassedInv, WorkedInv, [Next]_vars
    PROVE  WorkedInv'
  <1>1. SUFFICES ASSUME Complete', NEW o \in pasted', IsPicture(o)'
                 PROVE  o < work'.req.op
    BY DEF WorkedInv
  <1>2. CASE Complete /\ work'.req.op = work.req.op
    <2>1. o \in pasted
      <3>1. ASSUME o \notin pasted PROVE FALSE
        <4>1. work # None /\ work.step = "paste"
          BY <3>1, PastedStep
        <4>2. Serves
          <5>1. pasted' # pasted
            BY <3>1
          <5>2. ~\E good \in BOOLEAN : Take(good)
            BY <5>1 DEF Take
          <5>. QED  BY <5>1, <5>2, WorkKinds
        <4> PICK w : w = work
          OBVIOUS
        <4>3. w.req \in Request
          BY <4>1, WorkType
        <4>4. Works(w.req, "reply", TRUE) \/ Works(w.req, "reply", FALSE)
          BY <4>1, <4>2 DEF Serves
        <4>5. work'.step = "reply"
          BY <4>3, <4>4, WorksEffect
        <4>. QED  BY <1>1, <4>5 DEF Complete
      <3>. QED  BY <3>1
    <2>2. o \in DOMAIN ops
      BY <2>1 DEF Types, HostType
    <2>3. IsPicture(o)
      BY <1>1, <2>2, OpsStep DEF SameOps, IsPicture
    <2>. QED  BY <1>2, <2>1, <2>3 DEF WorkedInv
  <1>3. ASSUME NEW good \in BOOLEAN, Take(good), up[1].part = Parts, work'.req.op = up[1].op
        PROVE  o < work'.req.op
    <2>1. pasted' = pasted /\ ops' = ops /\ 1 \in DOMAIN up /\ Parts > 0
      BY <1>3, TakeEffect DEF Take, session
    <2>2. o \in Passed
      BY <1>1, <2>1 DEF Passed, IsPicture
    <2>. QED  BY <1>3, <2>1, <2>2 DEF PassedInv
  <1>. QED  BY <1>1, <1>2, <1>3, CompleteStep

\* A step pastes a picture behind those that have been pasted.
InOrder ==
    \A o \in pasted' \ pasted, q \in pasted :
       ops[o].kind = "picture" /\ ops[q].kind = "picture" => q < o

LEMMA InOrderStep == ASSUME Types, RequestsInv, WorkedInv, [Next]_vars PROVE InOrder
  <1> SUFFICES ASSUME NEW o \in pasted' \ pasted, NEW q \in pasted,
                      ops[o].kind = "picture", ops[q].kind = "picture"
               PROVE  q < o
    BY DEF InOrder
  <1>1. work # None /\ work.step = "paste" /\ o = work.req.op /\ work.req \in Requested
    BY PastedStep
  <1>2. Complete
    BY <1>1, PartOfPicture DEF Complete
  <1>. QED  BY <1>1, <1>2 DEF WorkedInv, IsPicture

-----------------------------------------------------------------------------
(* What is on the clipboard *)

\* The buffer of a picture that decodes
LEMMA WholeBuffer ==
    ASSUME Types, BufferInv, Decodes(buffer), NEW o, LastPart = [op |-> o, part |-> Parts]
    PROVE  buffer = Whole(o)
  <1>1. /\ buffer \in Seq(Part) /\ DOMAIN buffer = 1..Len(buffer) /\ Len(buffer) \in Nat
        /\ buffer # <<>> /\ Len(buffer) \in DOMAIN buffer /\ 1 \in DOMAIN buffer
    BY LinePlaces DEF Decodes, Types, HostType
  <1>2. buffer[1].part = 1
    BY <1>1 DEF Decodes
  <1>3. LastPart.op = o /\ LastPart.part = Parts
    OBVIOUS
  <1>4. \A i \in DOMAIN buffer : buffer[i].op = buffer[1].op /\ buffer[i].part = i
    BY <1>1, <1>2 DEF BufferInv, RunInv
  <1>5. Len(buffer) = Parts /\ buffer[1].op = o
    BY <1>1, <1>3, <1>4 DEF LastPart
  <1>6. ASSUME NEW i \in 1..Parts PROVE buffer[i] = [op |-> o, part |-> i]
    <2>1. buffer[i] \in Part
      BY <1>1, <1>5, ElementOfSeq
    <2>. QED  BY <1>1, <1>4, <1>5, <2>1 DEF Part
  <1>7. buffer = [i \in 1..Len(buffer) |-> buffer[i]]
    BY <1>1
  <1>. QED  BY <1>5, <1>6, <1>7 DEF Whole

LEMMA WholeStep ==
    ASSUME Types, RequestsInv, BufferInv, WholePictures, [Next]_vars
    PROVE  WholePictures'
  <1> DEFINE Is(p) == p[2] = (IF ops[p[1]].kind = "picture" THEN Whole(p[1]) ELSE <<>>)
  <1>1. ASSUME NEW p \in put, TRUE PROVE Is(p)'
    <2>1. Is(p) /\ p[1] \in DOMAIN ops
      BY DEF WholePictures, Types, HostType
    <2>2. ops'[p[1]].kind = ops[p[1]].kind
      BY <2>1, OpsStep DEF SameOps
    <2>. QED  BY <2>1, <2>2 DEF Whole
  <1>2. ASSUME NEW p \in put', p \notin put PROVE Is(p)'
    <2>1. Serves
      <3>1. put' # put
        BY <1>2
      <3>2. ~\E good \in BOOLEAN : Take(good)
        BY <3>1 DEF Take
      <3>. QED  BY <3>1, <3>2, WorkKinds
    <2> PICK w : w = work
      OBVIOUS
    <2>2. /\ work # None /\ w.req \in Requested /\ w.req.op \in DOMAIN ops
          /\ \/ w.step = "put" /\ w.req.part > 0 /\ Decodes(buffer) /\ p = <<w.req.op, buffer>>
             \/ w.step = "put" /\ w.req.part = 0 /\ p = <<w.req.op, <<>>>>
      BY <1>2, <2>1 DEF Serves
    <2>3. ops'[w.req.op].kind = ops[w.req.op].kind
      BY <2>2, OpsStep DEF SameOps
    <2>4. CASE w.req.part > 0 /\ Decodes(buffer) /\ p = <<w.req.op, buffer>> /\ w.step = "put"
      <3>1. ops[w.req.op].kind = "picture"
        BY <2>2, <2>4, PartOfPicture
      <3>2. LastPart = [op |-> w.req.op, part |-> Parts]
        BY <2>2, <2>4 DEF BufferInv, PutInv
      <3>3. buffer = Whole(w.req.op)
        BY <2>4, <3>2, WholeBuffer
      <3>4. p[1] = w.req.op /\ p[2] = Whole(w.req.op)
        BY <2>4, <3>3
      <3>. QED  BY <2>3, <3>1, <3>4 DEF Whole
    <2>5. CASE w.req.part = 0 /\ p = <<w.req.op, <<>>>>
      <3>1. ops[w.req.op].kind # "picture"
        BY <2>2, <2>5, PartOfPicture
      <3>. QED  BY <2>3, <2>5, <3>1
    <2>. QED  BY <2>2, <2>4, <2>5
  <1>3. \A p \in put' : Is(p)'
    BY <1>1, <1>2
  <1>. QED  BY <1>3 DEF WholePictures

LEMMA FollowsStep ==
    ASSUME Types, RequestsInv, WorkInv, PasteFollowsWrite, [Next]_vars
    PROVE  PasteFollowsWrite'
  <1>1. \A o \in DOMAIN ops : ops'[o].kind = ops[o].kind /\ (OnClipboard(o) => OnClipboard(o)')
    BY OpsStep, DoneKept DEF SameOps
  <1>2. ASSUME NEW o \in pasted', ops'[o].kind \in {"text", "picture"}
        PROVE  OnClipboard(o)'
    <2>1. CASE o \in pasted
      <3>1. o \in DOMAIN ops
        BY <2>1 DEF Types, HostType
      <3>. QED  BY <1>1, <1>2, <2>1, <3>1 DEF PasteFollowsWrite, OnClipboard
    <2>2. CASE o \notin pasted
      <3>1. work # None /\ work.step = "paste" /\ o = work.req.op /\ o \in DOMAIN ops
        BY <1>2, <2>2, PastedStep
      <3>2. OnClipboard(o)
        BY <1>1, <1>2, <3>1 DEF WorkInv
      <3>. QED  BY <1>1, <3>1, <3>2
    <2>. QED  BY <2>1, <2>2
  <1>. QED  BY <1>2 DEF PasteFollowsWrite, OnClipboard

-----------------------------------------------------------------------------
(* Presses *)

\* What has been started is from a press that is handled.
FromInv == \A o \in DOMAIN ops : ops[o].from <= handled

LEMMA FromType == ASSUME Types PROVE \A o \in DOMAIN ops : ops[o].from \in Nat
  <1> SUFFICES ASSUME NEW o \in DOMAIN ops PROVE ops[o].from \in Nat
    OBVIOUS
  <1>1. ops[o] \in Op
    BY ElementOfSeq, LenProperties DEF Types, OpsType
  <1>. QED  BY <1>1 DEF Op

LEMMA PressStep ==
    ASSUME Types, FromInv, OncePerPress, [Next]_vars
    PROVE  FromInv' /\ OncePerPress'
  <1>1. ASSUME DOMAIN ops' = DOMAIN ops, handled <= handled', handled' \in Nat
        PROVE  FromInv' /\ OncePerPress'
    <2>1. \A o \in DOMAIN ops : ops'[o].from = ops[o].from
      BY OpsStep DEF SameOps
    <2>2. \A o \in DOMAIN ops : ops[o].from \in Nat
      BY FromType
    <2>3. handled \in Nat
      BY DEF Types, PageType
    <2>4. ASSUME NEW o \in DOMAIN ops PROVE ops[o].from <= handled'
      BY <1>1, <2>2, <2>3, <2>4 DEF FromInv
    <2>. QED  BY <1>1, <2>1, <2>4 DEF FromInv, OncePerPress
  <1>2. ASSUME NEW kind \in Kinds, NEW from \in 0..MaxOps, Starts(kind, from)
        PROVE  FromInv' /\ OncePerPress'
    <2> PICK e \in Op : e.from = from /\ ops' = Append(ops, e) /\ Len(ops) < MaxOps
      BY <1>2, StartEffect DEF Starts
    <2>1. /\ DOMAIN ops = 1..Len(ops) /\ DOMAIN ops' = 1..(Len(ops) + 1) /\ Len(ops) \in Nat
          /\ ops'[Len(ops) + 1] = e /\ \A o \in DOMAIN ops : ops'[o] = ops[o]
      BY AppendOps, LenProperties DEF Types, OpsType
    <2>2. handled \in Nat /\ handled' \in Nat
      BY <1>2 DEF Types, PageType, Starts
    <2>3. handled <= handled' /\ (from = 0 \/ (handled < from /\ handled' = from))
      BY <1>2, <2>2 DEF Starts
    <2>4. \A o \in DOMAIN ops : ops[o].from \in Nat /\ ops[o].from <= handled
      BY FromType DEF FromInv
    <2>5. ASSUME NEW o \in DOMAIN ops' PROVE o \in DOMAIN ops \/ o = Len(ops) + 1
      BY <2>1
    <2>6. ASSUME NEW o \in DOMAIN ops' PROVE ops'[o].from <= handled'
      <3>1. CASE o \in DOMAIN ops
        BY <2>1, <2>2, <2>3, <2>4, <3>1
      <3>2. CASE o = Len(ops) + 1
        BY <2>1, <2>2, <2>3, <3>2
      <3>. QED  BY <2>5, <3>1, <3>2
    <2>7. ASSUME NEW o \in DOMAIN ops, from # 0 PROVE ops[o].from # from
      BY <2>2, <2>3, <2>4, <2>7
    <2>8. ASSUME NEW o \in DOMAIN ops', NEW q \in DOMAIN ops', o # q, ops'[o].from # 0
          PROVE  ops'[o].from # ops'[q].from
      <3>1. CASE o \in DOMAIN ops /\ q \in DOMAIN ops
        BY <2>1, <2>8, <3>1 DEF OncePerPress
      <3>2. CASE o \in DOMAIN ops /\ q = Len(ops) + 1
        BY <2>1, <2>7, <2>8, <3>2
      <3>3. CASE o = Len(ops) + 1 /\ q \in DOMAIN ops
        BY <2>1, <2>7, <2>8, <3>3
      <3>. QED  BY <2>5, <2>8, <3>1, <3>2, <3>3
    <2>. QED  BY <2>6, <2>8 DEF FromInv, OncePerPress
  <1>3. handled \in Nat /\ handled' \in Nat /\ handled <= handled
    BY PageStep DEF Types, PageType
  <1>4. ASSUME NEW o \in Waiting, StartUpload(o)
        PROVE  DOMAIN ops' = DOMAIN ops /\ handled' = handled
    <2>1. o \in DOMAIN ops /\ handled' = handled
      BY <1>4 DEF StartUpload, Waiting, page
    <2>. QED  BY <1>4, <2>1 DEF StartUpload, EndOp
  <1>5. EndUpload => DOMAIN ops' = DOMAIN ops /\ handled' = handled
    BY DEF EndUpload, EndOp, page
  <1>6. Settles => DOMAIN ops' = DOMAIN ops /\ handled' = handled
    BY DEF Settles, Settle
  <1>7. Presses => DOMAIN ops' = DOMAIN ops
    BY DEF Presses, session
  <1>8. SendWindow \/ HostStep => ops' = ops /\ handled' = handled
    BY HostStepKeeps DEF SendWindow, page
  <1>. QED  BY <1>1, <1>2, <1>3, <1>4, <1>5, <1>6, <1>7, <1>8, StepKinds

-----------------------------------------------------------------------------
(* What is over is over *)

\* What the Host has not answered yet
Unserved == Line \cup (IF work = None THEN {} ELSE {work.req})

\* A request is in one place only: on its way, served, or answered.
LinedInv == \A i, j \in DOMAIN up : i # j => up[i].id # up[j].id
TakenInv == work # None => \A j \in DOMAIN up : work.req.id # up[j].id
SpokenInv == \A i \in DOMAIN down : \A r \in Unserved : down[i].id # r.id

\* What is no picture is one request.
SingleInv == \A r, s \in Requested : r.op = s.op /\ r.part = 0 => r = s

\* It is open while the page waits for its answer.
SentInv == \A r \in pending : r.part = 0 => ops[r.op].state = "sent"

\* Nothing was sent of a picture that waits.
FreshInv == \A w \in Waiting : \A r \in Requested : r.op # w

\* The page waits for all that was sent of a picture until one part is missed.
AwaitedInv ==
    upload # None /\ ~upload.broken => \A r \in Unserved : r.op = upload.op => r \in pending

\* So the Host does nothing for an operation that is reported as done.
LateInv == \A r \in Unserved : ops[r.op].state # "done"

LEMMA WorkReq ==
    ASSUME Types, RequestsInv, [Next]_vars, work' # None
    PROVE  \/ work # None /\ work'.req = work.req
           \/ \E good \in BOOLEAN : Take(good) /\ work'.req = up[1] /\ up[1] \in Line
  <1>1. CASE work' = work
    BY <1>1
  <1>2. ASSUME NEW good \in BOOLEAN, Take(good) PROVE work'.req = up[1] /\ up[1] \in Line
    <2>1. StepOf(ops[up[1].op].kind) \in {"put", "paste", "read", "reply"}
      BY DEF StepOf
    <2>2. up[1] \in Request /\ up[1] \in Line
      BY <1>2, TakeEffect
    <2>3. \A step \in {"put", "paste", "read", "reply"}, ok \in BOOLEAN :
             Works(up[1], step, ok) => work'.req = up[1]
      BY <2>2, WorksEffect
    <2>. QED  BY <1>2, <2>1, <2>2, <2>3, TakeEffect
  <1>3. CASE Serves
    <2> PICK w : w = work
      OBVIOUS
    <2>1. w.req \in Request /\ work # None
      BY <1>3 DEF Serves
    <2>2. \A step \in {"put", "paste", "read", "reply"}, ok \in BOOLEAN :
             Works(w.req, step, ok) => work'.req = w.req
      BY <2>1, WorksEffect
    <2>3. work'.req = w.req
      BY <1>3, <2>2 DEF Serves
    <2>. QED  BY <2>1, <2>3
  <1>. QED  BY <1>1, <1>2, <1>3, WorkKinds

\* What is left to serve: nothing new, or what is sent.
LEMMA UnservedStep ==
    ASSUME Types, RoomInv, RequestsInv, [Next]_vars
    PROVE  \/ Unserved' \subseteq Unserved
           \/ \E o \in 1..MaxOps, from \in 0..Parts, m \in 1..Parts :
                 /\ Sends(o, from, m)
                 /\ Unserved' = Unserved \cup {NewRequest(o, from, i) : i \in 1..m}
  <1>1. work' # None => work'.req \in Unserved
    BY WorkReq DEF Unserved
  <1>2. CASE Line' \subseteq Line
    BY <1>1, <1>2 DEF Unserved
  <1>3. ASSUME NEW o \in 1..MaxOps, NEW from \in 0..Parts, NEW m \in 1..Parts,
               Sends(o, from, m),
               Line' = Line \cup {NewRequest(o, from, i) : i \in 1..m}
        PROVE  Unserved' = Unserved \cup {NewRequest(o, from, i) : i \in 1..m}
    <2>1. work' = work
      BY <1>3 DEF Sends, host
    <2>. QED  BY <1>3, <2>1 DEF Unserved
  <1>. QED  BY <1>2, <1>3, RequestedStep

LEMMA UnservedRequested == Unserved \subseteq Requested
  BY DEF Unserved, Requested

\* What is known of the requests that are sent.
LEMMA NewRequests ==
    ASSUME Types, RoomInv, RequestsInv, UploadInv, [Next]_vars,
           NEW o, NEW from, NEW m, Sends(o, from, m), NEW i \in 1..m
    PROVE  LET r == NewRequest(o, from, i)
           IN /\ r.id > sent /\ r.op = o /\ r.part = from + i - 1 /\ r \in pending'
              /\ o \in DOMAIN ops' /\ ops'[o].state = "sent"
              /\ \/ r.part = 0 /\ i = 1 /\ m = 1 /\ o = Len(ops) + 1 /\ o \notin DOMAIN ops
                    /\ ops'[o].kind # "picture" /\ upload' = upload
                 \/ r.part # 0 /\ upload # None /\ o = upload.op /\ o \in DOMAIN ops
                    /\ ops[o].kind = "picture" /\ ops' = ops
  <1> DEFINE r == NewRequest(o, from, i)
  <1>1. r.id = sent + i /\ r.op = o /\ r.part = from + i - 1
    BY NewFields
  <1>2. r \in pending'
    <2>1. pending' = pending \cup {NewRequest(o, from, k) : k \in 1..m}
      BY SendsEffect
    <2>. QED  BY <2>1
  <1> HIDE DEF r
  <1>3. m \in Nat /\ from \in Nat /\ sent \in Nat /\ i \in Nat /\ i >= 1
    BY DEF Sends, Types, WireType
  <1>4. r.id > sent
    BY <1>1, <1>3
  <1>5. CASE /\ from = 0 /\ m = 1 /\ upload' = upload
             /\ \E e \in Op : /\ ops' = Append(ops, e) /\ Len(ops) < MaxOps /\ o = Len(ops) + 1
                              /\ e.kind # "picture" /\ e.state = "sent"
    <2> PICK e \in Op : /\ ops' = Append(ops, e) /\ Len(ops) < MaxOps /\ o = Len(ops) + 1
                        /\ e.kind # "picture" /\ e.state = "sent"
      BY <1>5
    <2>1. /\ Len(ops) \in Nat /\ DOMAIN ops = 1..Len(ops)
          /\ DOMAIN ops' = 1..(Len(ops) + 1) /\ ops'[Len(ops) + 1] = e
      BY AppendOps, LenProperties DEF Types, OpsType
    <2>2. o \in DOMAIN ops' /\ o \notin DOMAIN ops /\ ops'[o] = e
      BY <2>1
    <2>3. i = 1 /\ m = 1 /\ r.part = 0
      BY <1>1, <1>5
    <2>. QED  BY <1>1, <1>2, <1>4, <1>5, <2>2, <2>3 DEF r
  <1>6. CASE from >= 1 /\ upload # None /\ o = upload.op /\ ops' = ops
    <2>1. ops[o].kind = "picture" /\ ops[o].state = "sent" /\ o \in DOMAIN ops
      BY <1>6, UploadTypes DEF UploadInv
    <2>2. r.part # 0
      BY <1>1, <1>3, <1>6
    <2>. QED  BY <1>1, <1>2, <1>4, <1>6, <2>1, <2>2 DEF r
  <1>. QED  BY <1>5, <1>6 DEF Sends

\* A session that asks for more does not reuse a number.
LEMMA OldNumbers ==
    ASSUME Types, RequestsInv, AnswersInv
    PROVE  /\ sent \in Nat
           /\ \A r \in Requested : r.id \in Nat /\ r.id <= sent /\ r.op \in DOMAIN ops
           /\ \A i \in DOMAIN down : down[i].id \in Nat /\ down[i].id <= sent
  <1>1. sent \in Nat
    BY DEF Types, WireType
  <1>2. ASSUME NEW n \in 1..sent PROVE n \in Nat /\ n <= sent
    BY <1>1
  <1>. QED  BY <1>1, <1>2 DEF RequestsInv, AnswersInv

LEMMA LinedStep ==
    ASSUME Types, RoomInv, RequestsInv, AnswersInv, LinedInv, [Next]_vars
    PROVE  LinedInv'
  <1>1. CASE up' = up
    BY <1>1 DEF LinedInv
  <1>2. CASE up' = <<>>
    BY <1>2 DEF LinedInv
  <1>3. CASE up # <<>> /\ up' = Tail(up)
    <2>1. ASSUME NEW i \in DOMAIN up', NEW j \in DOMAIN up', i # j
          PROVE  up'[i].id # up'[j].id
      <3>1. /\ i + 1 \in DOMAIN up /\ up'[i] = up[i + 1]
            /\ j + 1 \in DOMAIN up /\ up'[j] = up[j + 1]
        BY <1>3, TailEffect
      <3>2. i + 1 # j + 1
        <4>1. i \in Int /\ j \in Int
          BY <1>3, TailEffect, LineType
        <4>. QED  BY <2>1, <4>1
      <3>. QED  BY <3>1, <3>2 DEF LinedInv
    <2>. QED  BY <2>1 DEF LinedInv
  <1>4. ASSUME NEW o, NEW from, NEW m, Sends(o, from, m)
        PROVE  LinedInv'
    <2>1. /\ Len(up) \in Nat /\ DOMAIN up = 1..Len(up) /\ DOMAIN up' = 1..(Len(up) + m)
          /\ \A i \in 1..Len(up) : up'[i] = up[i]
          /\ \A i \in 1..m : up'[Len(up) + i] = NewRequest(o, from, i)
      BY <1>4, SendsEffect
    <2>2. m \in Nat
      BY <1>4 DEF Sends
    <2>3. ASSUME NEW i \in DOMAIN up'
          PROVE  \/ i \in DOMAIN up /\ up'[i] = up[i] /\ up'[i].id \in Nat /\ up'[i].id <= sent
                 \/ i - Len(up) \in 1..m /\ up'[i].id = sent + (i - Len(up))
      <3>1. CASE i \in DOMAIN up
        <4>1. up[i] \in Requested
          BY <3>1 DEF Requested, Line
        <4>. QED  BY <2>1, <3>1, <4>1, OldNumbers
      <3>2. CASE i \notin DOMAIN up
        <4>1. i - Len(up) \in 1..m /\ Len(up) + (i - Len(up)) = i
          BY <2>1, <2>2, <3>2
        <4>2. up'[i] = NewRequest(o, from, i - Len(up))
          BY <2>1, <4>1
        <4>. QED  BY <4>1, <4>2, NewFields
      <3>. QED  BY <3>1, <3>2
    <2>4. ASSUME NEW i \in DOMAIN up', NEW j \in DOMAIN up', i # j
          PROVE  up'[i].id # up'[j].id
      <3>1. sent \in Nat /\ i \in Int /\ j \in Int
        BY <2>1, <2>2, OldNumbers
      <3>2. CASE i \in DOMAIN up /\ up'[i] = up[i] /\ j \in DOMAIN up /\ up'[j] = up[j]
        BY <2>4, <3>2 DEF LinedInv
      <3>3. CASE /\ up'[i].id \in Nat /\ up'[i].id <= sent
                 /\ j - Len(up) \in 1..m /\ up'[j].id = sent + (j - Len(up))
        BY <2>2, <3>1, <3>3
      <3>4. CASE /\ up'[j].id \in Nat /\ up'[j].id <= sent
                 /\ i - Len(up) \in 1..m /\ up'[i].id = sent + (i - Len(up))
        BY <2>2, <3>1, <3>4
      <3>5. CASE /\ up'[i].id = sent + (i - Len(up)) /\ up'[j].id = sent + (j - Len(up))
        BY <2>1, <2>4, <3>1, <3>5
      <3>. QED  BY <2>3, <3>2, <3>3, <3>4, <3>5
    <2>. QED  BY <2>4 DEF LinedInv
  <1>. QED  BY <1>1, <1>2, <1>3, <1>4, SendKinds

LEMMA TakenStep ==
    ASSUME Types, RoomInv, RequestsInv, UploadInv, AnswersInv, LinedInv, TakenInv, [Next]_vars
    PROVE  TakenInv'
  <1> SUFFICES ASSUME work' # None, NEW j \in DOMAIN up'
               PROVE  work'.req.id # up'[j].id
    BY DEF TakenInv
  <1>1. ASSUME NEW good \in BOOLEAN, Take(good), work'.req = up[1]
        PROVE  work'.req.id # up'[j].id
    <2>1. up # <<>> /\ up' = Tail(up) /\ 1 \in DOMAIN up
      BY <1>1, TakeEffect
    <2>2. j + 1 \in DOMAIN up /\ up'[j] = up[j + 1] /\ j + 1 # 1
      <3>1. j \in 1..(Len(up) - 1) /\ Len(up) \in Nat
        BY <2>1, TailEffect, LineType
      <3>2. j + 1 # 1
        BY <3>1
      <3>. QED  BY <2>1, <3>2, TailEffect
    <2>. QED  BY <1>1, <2>1, <2>2 DEF LinedInv
  <1>2. ASSUME work # None, work'.req = work.req PROVE work'.req.id # up'[j].id
    <2>1. CASE \E i \in DOMAIN up : up'[j] = up[i]
      BY <1>2, <2>1 DEF TakenInv
    <2>2. ASSUME NEW o, NEW from, NEW m, Sends(o, from, m)
          PROVE  (\E i \in DOMAIN up : up'[j] = up[i]) \/ up'[j].id > sent
      <3>1. /\ Len(up) \in Nat /\ DOMAIN up = 1..Len(up) /\ DOMAIN up' = 1..(Len(up) + m)
            /\ \A i \in 1..Len(up) : up'[i] = up[i]
            /\ \A i \in 1..m : up'[Len(up) + i] = NewRequest(o, from, i)
        BY <2>2, SendsEffect
      <3>2. CASE j \in DOMAIN up
        BY <3>1, <3>2
      <3>3. CASE j \notin DOMAIN up
        <4>1. m \in Nat
          BY <2>2 DEF Sends
        <4>2. j - Len(up) \in 1..m /\ Len(up) + (j - Len(up)) = j
          BY <3>1, <3>3, <4>1
        <4>3. up'[j] = NewRequest(o, from, j - Len(up))
          BY <3>1, <4>2
        <4>. QED  BY <2>2, <4>2, <4>3, NewRequests
      <3>. QED  BY <3>2, <3>3
    <2>3. up'[j].id > sent => work'.req.id # up'[j].id
      <3>1. work.req \in Requested
        BY <1>2 DEF Requested
      <3>2. work'.req.id \in Nat /\ work'.req.id <= sent /\ sent \in Nat
        BY <1>2, <3>1, OldNumbers
      <3>3. ASSUME NEW n, n > sent, n = work'.req.id PROVE FALSE
        BY <3>2, <3>3
      <3>. QED  BY <3>3
    <2>4. up # <<>> /\ up' = Tail(up) => \E i \in DOMAIN up : up'[j] = up[i]
      BY TailEffect
    <2>. QED  BY <2>1, <2>2, <2>3, <2>4, SendKinds
  <1>. QED  BY <1>1, <1>2, WorkReq

\* An answer is an earlier one, or that of the request that was served.
LEMMA AnswerKinds ==
    ASSUME Types, RequestsInv, [Next]_vars, NEW i \in DOMAIN down'
    PROVE  \/ \E j \in DOMAIN down : down'[i] = down[j]
           \/ Reply /\ down'[i].id = work.req.id
  <1>1. /\ down \in Seq(Answer) /\ Len(down) \in Nat /\ DOMAIN down = 1..Len(down)
    BY LenProperties DEF Types, WireType
  <1>2. CASE Reply /\ open
    <2>1. work.req \in Request /\ work.ok \in BOOLEAN
      BY <1>2, WorkType DEF Reply
    <2> DEFINE b == [id |-> work.req.id, ok |-> work.ok]
    <2>2. b \in Answer /\ b.id = work.req.id
      BY <2>1 DEF Request, Answer
    <2>3. down' = Append(down, b)
      BY <1>2 DEF Reply
    <2> HIDE DEF b
    <2>4. /\ Append(down, b) \in Seq(Answer)
          /\ Len(Append(down, b)) = Len(down) + 1
          /\ \A j \in 1..Len(down) : Append(down, b)[j] = down[j]
          /\ Append(down, b)[Len(down) + 1] = b
      BY <1>1, <2>2, AppendProperties
    <2>5. DOMAIN down' = 1..(Len(down) + 1)
      BY <2>3, <2>4, LenProperties
    <2>6. i \in 1..Len(down) \/ i = Len(down) + 1
      BY <1>1, <2>5
    <2>. QED  BY <1>1, <1>2, <2>2, <2>3, <2>4, <2>6
  <1>3. CASE down' = down
    BY <1>3
  <1>4. CASE down # <<>> /\ down' = Tail(down)
    <2>1. down' \in Seq(Answer) /\ i \in 1..Len(down')
      <3>1. down' \in Seq(Answer)
        BY <1>1, <1>4, HeadTailProperties
      <3>. QED  BY <3>1, LenProperties
    <2>. QED  BY <1>1, <1>4, <2>1, AnswersGood
  <1>5. HostStep /\ ~Reply => down' = down
    BY DEF HostStep, Take, Paste, Read, PutPicture, PutText, EndService
  <1>6. ~HostStep => down' = down \/ (down # <<>> /\ down' = Tail(down))
    BY StepKinds DEF Presses, Starts, Start, StartUpload, SendWindow, EndUpload, Settles
  <1>7. Reply => open \/ down' = down
    BY DEF Reply
  <1>. QED  BY <1>2, <1>3, <1>4, <1>5, <1>6, <1>7

LEMMA SpokenStep ==
    ASSUME Types, RoomInv, RequestsInv, UploadInv, AnswersInv, TakenInv, SpokenInv, [Next]_vars
    PROVE  SpokenInv'
  <1> SUFFICES ASSUME NEW i \in DOMAIN down', NEW r \in Unserved'
               PROVE  down'[i].id # r.id
    BY DEF SpokenInv
  <1>1. ASSUME NEW j \in DOMAIN down PROVE down[j].id # r.id
    <2>1. CASE r \in Unserved
      BY <2>1 DEF SpokenInv
    <2>2. ASSUME NEW o, NEW from, NEW m, Sends(o, from, m), NEW k \in 1..m,
                 r = NewRequest(o, from, k)
          PROVE  down[j].id # r.id
      <3>1. r.id > sent
        BY <2>2, NewRequests
      <3>2. down[j].id \in Nat /\ down[j].id <= sent /\ sent \in Nat
        BY OldNumbers
      <3>3. ASSUME NEW n, n > sent, n = down[j].id PROVE FALSE
        BY <3>2, <3>3
      <3>. QED  BY <3>1, <3>3
    <2>. QED  BY <2>1, <2>2, UnservedStep
  <1>2. CASE Reply /\ down'[i].id = work.req.id
    <2>1. work # None /\ work' = None /\ (up' = up \/ up' = <<>>)
      BY <1>2 DEF Reply
    <2>2. r \in Line' /\ up' = up
      BY <2>1 DEF Unserved, Line
    <2>3. \E j \in DOMAIN up : r = up[j]
      BY <2>2 DEF Line
    <2>. QED  BY <1>2, <2>1, <2>3 DEF TakenInv
  <1>. QED  BY <1>1, <1>2, AnswerKinds

LEMMA SingleStep ==
    ASSUME Types, RoomInv, RequestsInv, UploadInv, SingleInv, [Next]_vars
    PROVE  SingleInv'
  <1> SUFFICES ASSUME NEW r \in Requested', NEW s \in Requested', r.op = s.op, r.part = 0
               PROVE  r = s
    BY DEF SingleInv
  <1>1. CASE Requested' \subseteq Requested
    BY <1>1 DEF SingleInv
  <1>2. ASSUME NEW o, NEW from, NEW m, Sends(o, from, m),
               Requested' = Requested \cup {NewRequest(o, from, i) : i \in 1..m}
        PROVE  r = s
    <2>1. ASSUME NEW i \in 1..m, r = NewRequest(o, from, i) PROVE r = s
      <3>1. i = 1 /\ m = 1 /\ o \notin DOMAIN ops /\ r.op = o
        BY <1>2, <2>1, NewRequests
      <3>2. s \notin Requested
        BY <3>1 DEF RequestsInv
      <3>. QED  BY <1>2, <2>1, <3>1, <3>2
    <2>2. ASSUME r \in Requested, NEW i \in 1..m, s = NewRequest(o, from, i) PROVE FALSE
      <3>1. r.op \in DOMAIN ops /\ ops[r.op].kind # "picture"
        BY <2>2 DEF RequestsInv
      <3>2. s.op = o /\ (o \notin DOMAIN ops \/ ops[o].kind = "picture")
        BY <1>2, <2>2, NewRequests
      <3>. QED  BY <3>1, <3>2
    <2>. QED  BY <1>2, <2>1, <2>2 DEF SingleInv
  <1>. QED  BY <1>1, <1>2, RequestedStep

\* An operation that is no picture ends with its request.
LEMMA RequestEnds ==
    ASSUME Types, WaitingArePictures, UploadInv, [Next]_vars,
           NEW o \in DOMAIN ops, ops[o].kind # "picture"
    PROVE  \/ ops'[o].state = ops[o].state
           \/ \E rs \in SUBSET pending, ok \in BOOLEAN :
                 /\ pending' = pending \ rs /\ \E r \in rs : r.op = o
                 /\ ops'[o].state = IF ok THEN "done" ELSE "failed"
                 /\ ok => down # <<>> /\ \A r \in rs : r.id = Head(down).id
  <1>1. CASE ops' = ops
    BY <1>1
  <1>2. ASSUME NEW kind \in Kinds, NEW from \in 0..MaxOps, Starts(kind, from)
        PROVE  ops'[o].state = ops[o].state
    BY <1>2, StartEffect, AppendOps DEF Starts
  <1>3. ASSUME NEW q \in Waiting, StartUpload(q)
        PROVE  ops'[o].state = ops[o].state
    <2>1. PICK state \in {"sent", "done", "failed"} : ops' = [ops EXCEPT ![q].state = state]
      BY <1>3 DEF StartUpload, EndOp
    <2>2. q \in DOMAIN ops /\ q # o
      BY DEF Waiting, WaitingArePictures
    <2>. QED  BY <2>1, <2>2, EndOpEffect
  <1>4. CASE EndUpload
    <2>1. PICK state \in {"sent", "done", "failed"} :
             ops' = [ops EXCEPT ![upload.op].state = state]
      BY <1>4 DEF EndUpload, EndOp
    <2>2. upload.op \in DOMAIN ops /\ upload.op # o
      BY <1>4, UploadTypes DEF EndUpload, WindowDone, UploadInv
    <2>. QED  BY <2>1, <2>2, EndOpEffect
  <1>5. CASE Settles
    <2>. PICK rs \in SUBSET pending, ok \in BOOLEAN :
              /\ Settle(rs, ok)
              /\ ok => down # <<>> /\ rs = {r \in pending : r.id = Head(down).id}
      BY <1>5 DEF Settles
    <2>1. /\ \A q \in DOMAIN ops :
                /\ ops'[q].kind = ops[q].kind /\ ops'[q].from = ops[q].from
                /\ \/ ops'[q].state = ops[q].state
                   \/ /\ ops[q].kind # "picture" /\ \E r \in rs : r.op = q
                      /\ ops'[q].state = IF ok THEN "done" ELSE "failed"
          /\ pending' = pending \ rs
      BY ONLY Types, Settle(rs, ok), SettleEffect
    <2>2. ok => down # <<>> /\ \A r \in rs : r.id = Head(down).id
      OBVIOUS
    <2>. QED  BY <2>1, <2>2
  <1>6. SendWindow \/ Presses \/ HostStep => ops' = ops
    BY HostStepKeeps DEF SendWindow, Presses, session
  <1>. QED  BY <1>1, <1>2, <1>3, <1>4, <1>5, <1>6, StepKinds

LEMMA SentStep ==
    ASSUME Types, RoomInv, RequestsInv, WaitingArePictures, UploadInv, SingleInv, SentInv,
           [Next]_vars
    PROVE  SentInv'
  <1> SUFFICES ASSUME NEW r \in pending', r.part = 0 PROVE ops'[r.op].state = "sent"
    BY DEF SentInv
  <1>1. CASE r \in pending
    <2>1. r \in Requested /\ pending \subseteq Requested
      BY <1>1 DEF Requested
    <2>2. r.op \in DOMAIN ops /\ ops[r.op].kind # "picture" /\ ops[r.op].state = "sent"
      BY <1>1, <2>1 DEF RequestsInv, SentInv
    <2>3. ASSUME NEW rs \in SUBSET pending, pending' = pending \ rs, NEW q \in rs, q.op = r.op
          PROVE  FALSE
      <3>1. q = r
        BY <2>1, <2>3 DEF SingleInv
      <3>. QED  BY <2>3, <3>1
    <2>. QED  BY <2>2, <2>3, RequestEnds
  <1>2. ASSUME NEW o, NEW from, NEW m, Sends(o, from, m), r \notin pending
        PROVE  ops'[r.op].state = "sent"
    <2>1. \E i \in 1..m : r = NewRequest(o, from, i)
      BY <1>2, SendsEffect
    <2>. QED  BY <1>2, <2>1, NewRequests
  <1>. QED  BY <1>1, <1>2, SendKinds

LEMMA FreshStep ==
    ASSUME Types, RoomInv, RequestsInv, UploadInv, FreshInv, [Next]_vars
    PROVE  FreshInv'
  <1> SUFFICES ASSUME NEW w \in Waiting', NEW r \in Requested' PROVE r.op # w
    BY DEF FreshInv
  <1>1. CASE r \in Requested
    <2>1. r.op \in DOMAIN ops
      BY <1>1 DEF RequestsInv
    <2>2. Len(ops) + 1 \notin DOMAIN ops
      BY LenProperties DEF Types, OpsType
    <2>3. w \in Waiting \/ w = Len(ops) + 1
      BY WaitingStep
    <2>. QED  BY <1>1, <2>1, <2>2, <2>3 DEF FreshInv
  <1>2. ASSUME NEW o, NEW from, NEW m, Sends(o, from, m), NEW i \in 1..m,
               r = NewRequest(o, from, i)
        PROVE  r.op # w
    <2>1. r.op = o /\ ops'[o].state = "sent"
      BY <1>2, NewRequests
    <2>. QED  BY <2>1 DEF Waiting
  <1>. QED  BY <1>1, <1>2, RequestedStep

LEMMA AwaitedStep ==
    ASSUME Types, RoomInv, RequestsInv, UploadInv, FreshInv, SpokenInv, AwaitedInv, [Next]_vars
    PROVE  AwaitedInv'
  <1> SUFFICES ASSUME upload' # None, ~upload'.broken,
                      NEW r \in Unserved', r.op = upload'.op
               PROVE  r \in pending'
    BY DEF AwaitedInv
  <1>1. ASSUME NEW o, NEW from, NEW m, Sends(o, from, m), NEW i \in 1..m,
               r = NewRequest(o, from, i)
        PROVE  r \in pending'
    BY <1>1, NewRequests
  <1>2. CASE r \in Unserved
    <2>1. ASSUME NEW o \in Waiting, upload'.op = o PROVE FALSE
      BY <1>2, <2>1, UnservedRequested DEF FreshInv
    <2>2. CASE upload # None /\ upload'.op = upload.op
      <3>1. CASE \E o, from, m : Sends(o, from, m) /\ o = upload.op
        <4>1. PICK o, from, m : Sends(o, from, m) /\ o = upload.op
          BY <3>1
        <4>2. pending \subseteq pending'
          BY <4>1, SendsEffect
        <4>3. upload \in Upload /\ upload.op \in DOMAIN ops
          BY <2>2, UploadTypes
        <4>4. Len(ops) + 1 \notin DOMAIN ops
          BY LenProperties DEF Types, OpsType
        <4>5. upload' = [upload EXCEPT !.next = from + m]
          BY <4>1, <4>3, <4>4 DEF Sends
        <4>6. ~upload.broken
          BY <4>3, <4>5 DEF Upload
        <4>. QED  BY <1>2, <2>2, <4>2, <4>6 DEF AwaitedInv
      <3>2. CASE Settles
        <4>. PICK rs \in SUBSET pending, ok \in BOOLEAN :
                  /\ Settle(rs, ok)
                  /\ ok => down # <<>> /\ rs = {q \in pending : q.id = Head(down).id}
          BY <3>2 DEF Settles
        <4>1. /\ pending' = pending \ rs
              /\ IF ~ok /\ \E q \in rs : q.op = upload.op
                 THEN upload' = [upload EXCEPT !.broken = TRUE]
                 ELSE upload' = upload
          BY <2>2 DEF Settle
        <4>2. ~(~ok /\ \E q \in rs : q.op = upload.op) /\ upload' = upload
          BY <2>2, <4>1, UploadTypes DEF Upload
        <4>3. r \in pending
          BY <1>2, <2>2, <4>2 DEF AwaitedInv
        <4>4. ASSUME r \in rs PROVE FALSE
          <5>1. ok /\ down # <<>> /\ r.id = Head(down).id
            BY <2>2, <4>2, <4>4
          <5>2. Head(down) = down[1] /\ 1 \in DOMAIN down
            BY <5>1, AnswersGood, LenProperties DEF Types, WireType
          <5>. QED  BY <1>2, <5>1, <5>2 DEF SpokenInv
        <4>. QED  BY <4>1, <4>3, <4>4
      <3>3. CASE upload' = upload /\ pending' = pending
        BY <1>2, <2>2, <3>3 DEF AwaitedInv
      <3>4. CASE SendWindow
        <4>1. CASE open
          <5>. PICK n \in 1..Parts : /\ upload.next + n <= Parts + 1
                                     /\ upload' = [upload EXCEPT !.next = upload.next + n]
                                     /\ Send(upload.op, [i \in 1..n |-> upload.next + i - 1])
            BY <3>4, <4>1, WindowEffect
          <5>1. upload.next \in 1..Parts /\ upload.op \in 1..MaxOps
            BY <3>4, <2>2, UploadTypes DEF SendWindow
          <5>2. Sends(upload.op, upload.next, n)
            BY <3>4, <2>2, <4>1, <5>1 DEF SendWindow, Sends
          <5>. QED  BY <3>1, <5>2
        <4>2. CASE ~open
          <5>1. upload' = [upload EXCEPT !.broken = TRUE]
            BY <3>4, <4>2 DEF SendWindow
          <5>. QED  BY <2>2, <5>1, UploadTypes DEF Upload
        <4>. QED  BY <4>1, <4>2
      <3>5. CASE Presses \/ HostStep \/ \E kind \in Kinds, from \in 0..MaxOps : Starts(kind, from)
        <4>1. upload' = upload
          BY <3>5, HostStepKeeps DEF Presses, Starts, Start, session
        <4>2. pending \subseteq pending'
          BY <3>5, HostStepKeeps DEF Presses, Starts, Start, Send, session
        <4>. QED  BY <1>2, <4>1, <4>2, <2>2 DEF AwaitedInv
      <3>6. ~EndUpload /\ ~\E o \in Waiting : StartUpload(o)
        BY <2>2 DEF EndUpload, StartUpload
      <3>. QED  BY <3>2, <3>4, <3>5, <3>6, StepKinds
    <2>3. ASSUME NEW o \in Waiting, upload' = [op |-> o, next |-> 1, broken |-> FALSE]
          PROVE  FALSE
      BY <2>1, <2>3
    <2>. QED  BY <2>2, <2>3, UploadKinds
  <1>. QED  BY <1>1, <1>2, UnservedStep

LEMMA LateStep ==
    ASSUME Types, RoomInv, RequestsInv, WaitingArePictures, UploadInv, SpokenInv, SingleInv,
           AwaitedInv, LateInv, [Next]_vars
    PROVE  LateInv'
  <1> SUFFICES ASSUME NEW r \in Unserved' PROVE ops'[r.op].state # "done"
    BY DEF LateInv
  <1>1. ASSUME NEW o, NEW from, NEW m, Sends(o, from, m), NEW i \in 1..m,
               r = NewRequest(o, from, i)
        PROVE  ops'[r.op].state # "done"
    BY <1>1, NewRequests
  <1>2. CASE r \in Unserved
    <2>1. r \in Requested /\ r.op \in DOMAIN ops /\ ops[r.op].state # "done"
      BY <1>2, UnservedRequested DEF LateInv, RequestsInv
    <2>2. CASE ops[r.op].kind # "picture"
      <3>1. ASSUME NEW rs \in SUBSET pending, NEW q \in rs, q.op = r.op,
                   down # <<>>, \A s \in rs : s.id = Head(down).id
            PROVE  FALSE
        <4>1. r.part = 0 /\ q \in Requested
          BY <2>1, <2>2 DEF RequestsInv, Requested
        <4>2. q = r
          BY <2>1, <3>1, <4>1 DEF SingleInv
        <4>3. Head(down) = down[1] /\ 1 \in DOMAIN down
          BY <3>1, AnswersGood, LenProperties DEF Types, WireType
        <4>. QED  BY <1>2, <3>1, <4>2, <4>3 DEF SpokenInv
      <3>2. ASSUME NEW rs \in SUBSET pending, NEW ok \in BOOLEAN,
                   \E q \in rs : q.op = r.op,
                   ops'[r.op].state = IF ok THEN "done" ELSE "failed",
                   ok => down # <<>> /\ \A s \in rs : s.id = Head(down).id
            PROVE  ops'[r.op].state # "done"
        BY <3>1, <3>2
      <3>. QED  BY <2>1, <2>2, <3>2, RequestEnds
    <2>3. CASE ops[r.op].kind = "picture"
      <3>. PICK p \in DOMAIN ops : p = r.op
        BY <2>1
      <3>1. ASSUME r.op \in Waiting, StartUpload(r.op) PROVE ops'[r.op].state # "done"
        <4>1. PICK state \in {"sent", "failed"} : ops' = [ops EXCEPT ![p].state = state]
          BY <3>1 DEF StartUpload, EndOp
        <4>2. state \in {"sent", "done", "failed"} /\ state # "done"
          OBVIOUS
        <4>3. ops'[p].state = IF p = p THEN state ELSE ops[p].state
          BY ONLY Types, <4>1, <4>2, EndOpEffect
        <4>. QED  BY <4>2, <4>3
      <3>2. ASSUME EndUpload, upload.op = r.op PROVE ops'[r.op].state # "done"
        <4>1. upload # None /\ \A q \in pending : q.op # upload.op
          BY <3>2 DEF EndUpload, WindowDone
        <4>2. upload.broken
          BY <1>2, <3>2, <4>1 DEF AwaitedInv
        <4>3. PICK state \in {"failed"} : ops' = [ops EXCEPT ![p].state = state]
          BY <3>2, <4>2 DEF EndUpload, EndOp, Uploaded
        <4>4. state \in {"sent", "done", "failed"} /\ state # "done"
          OBVIOUS
        <4>5. ops'[p].state = IF p = p THEN state ELSE ops[p].state
          BY ONLY Types, <4>3, <4>4, EndOpEffect
        <4>. QED  BY <4>4, <4>5
      <3>. QED  BY <2>1, <2>3, <3>1, <3>2, StateKept
    <2>. QED  BY <2>2, <2>3
  <1>. QED  BY <1>1, <1>2, UnservedStep

-----------------------------------------------------------------------------
(* The invariant *)

\* What the session has asked for, and what the Host has made of it
RequestedInv == /\ Types /\ RoomInv /\ sent <= MaxOps * Parts
                /\ RequestsInv /\ UploadInv /\ WorkInv /\ AnswersInv /\ WaitingArePictures

\* The order of parts and pictures
OrderInv == LineInv /\ BufferInv /\ SendInv /\ WaitInv /\ PassedInv /\ WorkedInv

\* The end of an operation
EndsInv == /\ LinedInv /\ TakenInv /\ SpokenInv /\ SingleInv
           /\ SentInv /\ FreshInv /\ AwaitedInv /\ LateInv

IInv == /\ RequestedInv /\ OrderInv /\ EndsInv
        /\ FromInv /\ OncePerPress /\ ReportedIsDone /\ WholePictures /\ PasteFollowsWrite

LEMMA EndsInit == Init => EndsInv
  <1> SUFFICES ASSUME Init PROVE EndsInv
    OBVIOUS
  <1>1. /\ ops = <<>> /\ up = <<>> /\ down = <<>> /\ work = None
        /\ upload = None /\ pending = {}
    BY DEF Init
  <1>2. DOMAIN ops = {} /\ DOMAIN up = {} /\ DOMAIN down = {}
    BY <1>1
  <1>3. Waiting = {} /\ Requested = {} /\ Unserved = {}
    BY <1>1, <1>2 DEF Waiting, Requested, Line, Unserved
  <1>. QED  BY <1>1, <1>2, <1>3
            DEF EndsInv, LinedInv, TakenInv, SpokenInv, SingleInv, SentInv, FreshInv,
                AwaitedInv, LateInv

LEMMA EndsStep ==
    ASSUME RequestedInv, EndsInv, [Next]_vars
    PROVE  EndsInv'
  <1>1. Types /\ RoomInv /\ RequestsInv /\ UploadInv /\ AnswersInv /\ WaitingArePictures
    BY DEF RequestedInv
  <1>2. /\ LinedInv /\ TakenInv /\ SpokenInv /\ SingleInv
        /\ SentInv /\ FreshInv /\ AwaitedInv /\ LateInv
    BY DEF EndsInv
  <1>3. LinedInv' /\ TakenInv' /\ SpokenInv'
    BY <1>1, <1>2, LinedStep, TakenStep, SpokenStep
  <1>4. SingleInv' /\ SentInv' /\ FreshInv'
    BY <1>1, <1>2, SingleStep, SentStep, FreshStep
  <1>5. AwaitedInv' /\ LateInv'
    BY <1>1, <1>2, AwaitedStep, LateStep
  <1>. QED  BY <1>3, <1>4, <1>5 DEF EndsInv

LEMMA IInvInit == Init => IInv
  <1> SUFFICES ASSUME Init PROVE IInv
    OBVIOUS
  <1>1. Types /\ RoomInv
    BY TypesInit
  <1>2. /\ ops = <<>> /\ up = <<>> /\ down = <<>> /\ buffer = <<>> /\ work = None
        /\ upload = None /\ pending = {} /\ put = {} /\ pasted = {} /\ sent = 0
    BY DEF Init
  <1>3. DOMAIN ops = {} /\ DOMAIN up = {} /\ DOMAIN down = {} /\ DOMAIN buffer = {}
    BY <1>2
  <1>4. Waiting = {} /\ Requested = {} /\ Passed = {}
    BY <1>2, <1>3 DEF Waiting, Requested, Line, Passed
  <1>5. sent <= MaxOps * Parts
    <2>1. MaxOps * Parts \in Nat
      OBVIOUS
    <2>. QED  BY <1>2, <2>1
  <1>6. RequestsInv /\ UploadInv /\ WorkInv /\ AnswersInv /\ WaitingArePictures
    BY <1>2, <1>3, <1>4 DEF RequestsInv, UploadInv, WorkInv, AnswersInv, WaitingArePictures
  <1>7. LineInv /\ BufferInv /\ SendInv /\ WaitInv /\ PassedInv /\ WorkedInv
    BY <1>2, <1>3, <1>4
       DEF LineInv, BufferInv, RunInv, BehindInv, PutInv, SendInv, WaitInv, PassedInv,
           WorkedInv, Complete
  <1>8. FromInv /\ OncePerPress /\ ReportedIsDone /\ WholePictures /\ PasteFollowsWrite
    BY <1>2, <1>3 DEF FromInv, OncePerPress, ReportedIsDone, WholePictures, PasteFollowsWrite
  <1>. QED  BY <1>1, <1>5, <1>6, <1>7, <1>8, EndsInit DEF IInv, RequestedInv, OrderInv

LEMMA IInvStep == IInv /\ [Next]_vars => IInv'
  <1> SUFFICES ASSUME IInv, [Next]_vars PROVE IInv'
    OBVIOUS
  <1>1. /\ Types /\ RoomInv /\ RequestsInv /\ UploadInv /\ WorkInv /\ AnswersInv
        /\ WaitingArePictures
    BY DEF IInv, RequestedInv
  <1>2. LineInv /\ BufferInv /\ SendInv /\ WaitInv /\ PassedInv /\ WorkedInv
    BY DEF IInv, OrderInv
  <1>3. FromInv /\ OncePerPress /\ ReportedIsDone /\ WholePictures /\ PasteFollowsWrite
    BY DEF IInv
  <1>4. Types' /\ RoomInv' /\ sent' <= MaxOps * Parts
    BY <1>1, TypesStep, RoomStep, SentBounded
  <1>5. RequestsInv' /\ UploadInv' /\ WorkInv'
    BY <1>1, RequestsStep, UploadStep, WorkStep
  <1>6. AnswersInv' /\ WaitingArePictures'
    BY <1>1, AnswersStep, WaitingPicturesStep
  <1>7. RequestedInv'
    BY <1>4, <1>5, <1>6 DEF RequestedInv
  <1>8. LineInv' /\ BufferInv' /\ SendInv'
    BY <1>1, <1>2, LineStep, BufferStep, SendStep
  <1>9. WaitInv' /\ PassedInv' /\ WorkedInv'
    BY <1>1, <1>2, WaitStep, OrderStep, WorkedStep
  <1>10. FromInv' /\ OncePerPress' /\ ReportedIsDone'
    BY <1>1, <1>3, PressStep, ReportedStep
  <1>11. WholePictures' /\ PasteFollowsWrite'
    BY <1>1, <1>2, <1>3, WholeStep, FollowsStep
  <1>12. EndsInv'
    BY EndsStep DEF IInv
  <1>. QED  BY <1>7, <1>8, <1>9, <1>10, <1>11, <1>12 DEF IInv, OrderInv

LEMMA TypesImply == IInv => TypeOK
  <1> SUFFICES ASSUME IInv PROVE TypeOK
    OBVIOUS
  <1>1. Types /\ RequestsInv /\ AnswersInv /\ sent <= MaxOps * Parts
    BY DEF IInv, RequestedInv
  <1>2. /\ {prefer, open} \subseteq BOOLEAN
        /\ attempt \in 0..MaxOps /\ handled \in 0..attempt /\ reads \subseteq 1..attempt
    BY <1>1 DEF Types, PageType
  <1>3. /\ ops \in Seq(Op) /\ Len(ops) <= MaxOps
        /\ upload \in Upload \cup {None} /\ (upload # None => upload.op \in DOMAIN ops)
    BY <1>1 DEF Types, OpsType, UploadType
  <1>4. sent \in 0..(MaxOps * Parts)
    <2>1. sent \in Nat /\ MaxOps * Parts \in Nat
      BY <1>1 DEF Types, WireType
    <2>. QED  BY <1>1, <2>1
  <1>5. pending \subseteq Request /\ \A r \in pending : r.id <= sent
    <2>1. ASSUME NEW r \in pending PROVE r.id <= sent
      <3>1. r \in Requested
        BY DEF Requested
      <3>2. r.id \in 1..sent /\ sent \in Nat
        BY <1>1, <3>1 DEF RequestsInv, Types, WireType
      <3>. QED  BY <3>2
    <2>. QED  BY <1>1, <2>1 DEF Types, WireType
  <1>6. up \in Seq(Request)
    BY <1>1 DEF Types, WireType
  <1>7. down \in Seq([id : 1..sent, ok : BOOLEAN])
    <2>1. down \in Seq(Answer) /\ DOMAIN down = 1..Len(down) /\ Len(down) \in Nat
      BY <1>1, LenProperties DEF Types, WireType
    <2>2. ASSUME NEW i \in 1..Len(down) PROVE down[i] \in [id : 1..sent, ok : BOOLEAN]
      <3>1. down[i] \in Answer /\ down[i].id \in 1..sent
        BY <1>1, <2>1, ElementOfSeq DEF AnswersInv
      <3>. QED  BY <3>1 DEF Answer
    <2>3. down = [i \in 1..Len(down) |-> down[i]]
      BY <2>1
    <2> DEFINE S == [id : 1..sent, ok : BOOLEAN]
    <2>4. \A i \in 1..Len(down) : down[i] \in S
      BY <2>2
    <2> HIDE DEF S
    <2>5. down \in [1..Len(down) -> S]
      BY <2>3, <2>4
    <2>6. down \in Seq(S)
      BY <2>1, <2>5
    <2>. QED  BY <2>6 DEF S
  <1>8. /\ buffer \in Seq(Part) /\ Len(buffer) <= MaxParts
        /\ work \in Work \cup {None}
        /\ clip \in {None, 0} \cup DOMAIN ops
        /\ pasted \subseteq DOMAIN ops
        /\ faults \in 0..MaxFaults
    BY <1>1 DEF Types, HostType
  <1>. QED  BY <1>2, <1>3, <1>4, <1>5, <1>6, <1>7, <1>8 DEF TypeOK

LEMMA Invariant == Spec => []IInv
  BY IInvInit, IInvStep, PTL DEF Spec

\* However many pictures, texts and refusals there are: the variables have their
\* types, a picture on the Host's clipboard is the one that was pasted, from its
\* first part to its last, and nothing is pasted in its place.
THEOREM WhatWasPasted == Spec => []ClipboardInv
  <1>1. IInv => ClipboardInv
    BY TypesImply DEF IInv, ClipboardInv
  <1>. QED  BY <1>1, Invariant, PTL

\* An operation the page reports as done has reached the clipboard, and has been
\* pasted if it was to be: a window that is answered in part, a request that times
\* out or the end of the session never count as success.
THEOREM ReportsAreTrue == Spec => []ReportedIsDone
  <1>1. IInv => ReportedIsDone
    BY DEF IInv
  <1>. QED  BY <1>1, Invariant, PTL

\* One press is delivered once, whichever of its sources answers, and however late.
THEOREM OnePastePerPress == Spec => []OncePerPress
  <1>1. IInv => OncePerPress
    BY DEF IInv
  <1>. QED  BY <1>1, Invariant, PTL

\* Pictures are pasted in the order in which their operations were started.
THEOREM PicturesKeepTheirOrder == Spec => PicturesInOrder
  <1>1. IInv /\ [Next]_vars => [InOrder]_vars
    BY InOrderStep DEF IInv, RequestedInv, OrderInv
  <1>. QED  BY <1>1, Invariant, PTL DEF Spec, PicturesInOrder, InOrder

-----------------------------------------------------------------------------
(* The promise *)

\* What is told of an operation
LEMMA ToldOf ==
    /\ DOMAIN Told = DOMAIN ops
    /\ \A o \in DOMAIN ops :
          /\ Told[o].kind = ops[o].kind /\ Told[o].from = ops[o].from
          /\ Told[o].told = IF ops[o].state \in {"waiting", "sent"} THEN "open" ELSE ops[o].state
  BY DEF Told

LEMMA SameTold ==
    ASSUME DOMAIN ops' = DOMAIN ops,
           \A o \in DOMAIN ops :
              /\ ops'[o].kind = ops[o].kind /\ ops'[o].from = ops[o].from
              /\ \/ ops'[o].state = ops[o].state
                 \/ {ops[o].state, ops'[o].state} \subseteq {"waiting", "sent"}
    PROVE  Told' = Told
  <1> DEFINE e(o) == [kind |-> ops[o].kind, from |-> ops[o].from,
                      told |-> IF ops[o].state \in {"waiting", "sent"} THEN "open"
                               ELSE ops[o].state]
  <1>1. ASSUME NEW o \in DOMAIN ops PROVE e(o)' = e(o)
    OBVIOUS
  <1>2. Told = [o \in DOMAIN ops |-> e(o)]
    BY DEF Told
  <1>3. Told' = [o \in DOMAIN ops' |-> e(o)']
    BY DEF Told
  <1> HIDE DEF e
  <1>. QED  BY <1>1, <1>2, <1>3

\* Some operations end: these, well or not.
LEMMA TellStep ==
    ASSUME Types, NEW os \in SUBSET DOMAIN ops, NEW ok \in BOOLEAN,
           ops' \in [DOMAIN ops -> Op],
           \A o \in DOMAIN ops :
              /\ ops'[o].kind = ops[o].kind /\ ops'[o].from = ops[o].from
              /\ IF o \in os THEN ops'[o].state = IF ok THEN "done" ELSE "failed"
                             ELSE ops'[o].state = ops[o].state,
           \A o \in os : ops[o].state \in {"waiting", "sent"} /\ (ok => OpDone(o)),
           put' = put, pasted' = pasted
    PROVE  Promise!Next
  <1>1. \A o \in os : Told[o].told = "open"
    BY ToldOf
  <1>2. ASSUME NEW o \in os, ok PROVE Promise!Did(o)
    BY <1>2, ToldOf DEF OpDone, OnClipboard, Promise!Did, Promise!Writing, Promise!Pasted, Written
  <1>3. Written' = Written
    BY DEF Written
  <1> DEFINE t(o) == IF o \in os THEN [Told[o] EXCEPT !.told = IF ok THEN "done" ELSE "failed"]
                     ELSE Told[o]
  <1>4. Told' = [o \in DOMAIN Told |-> t(o)]
    <2> DEFINE e(o) == [kind |-> ops[o].kind, from |-> ops[o].from,
                        told |-> IF ops[o].state \in {"waiting", "sent"} THEN "open"
                                 ELSE ops[o].state]
    <2>1. ASSUME NEW o \in DOMAIN ops PROVE e(o)' = t(o)
      <3>1. Told[o] = e(o)
        BY DEF Told
      <3>2. CASE o \in os
        BY <3>1, <3>2
      <3>3. CASE o \notin os
        BY <3>1, <3>3
      <3>. QED  BY <3>2, <3>3
    <2>2. DOMAIN ops' = DOMAIN ops /\ DOMAIN Told = DOMAIN ops
      BY ToldOf
    <2>3. Told' = [o \in DOMAIN ops' |-> e(o)']
      BY DEF Told
    <2> HIDE DEF e, t
    <2>. QED  BY <2>1, <2>2, <2>3
  <1>5. Promise!Tell(os, ok)
    BY <1>1, <1>2, <1>3, <1>4 DEF Promise!Tell
  <1>. QED  BY <1>5, ToldOf DEF Promise!Next

LEMMA UntoldStep ==
    ASSUME Told' = Told, put' = put, pasted' = pasted
    PROVE  UNCHANGED Promise!vars
  BY DEF Promise!vars, Written

LEMMA BeginStep ==
    ASSUME Types, FromInv, NEW kind \in Kinds, NEW from \in 0..MaxOps, Starts(kind, from)
    PROVE  Promise!Next
  <1>. PICK e \in Op :
            /\ e.kind = kind /\ e.from = from /\ e.state \in {"waiting", "sent", "failed"}
            /\ ops' = Append(ops, e) /\ Len(ops) < MaxOps /\ UNCHANGED host
    BY StartEffect DEF Starts
  <1>1. /\ DOMAIN ops = 1..Len(ops) /\ DOMAIN ops' = 1..(Len(ops) + 1) /\ Len(ops) \in Nat
        /\ ops'[Len(ops) + 1] = e /\ \A o \in DOMAIN ops : ops'[o] = ops[o]
    BY AppendOps, LenProperties DEF Types, OpsType
  <1> DEFINE T(x) == [kind |-> x.kind, from |-> x.from,
                      told |-> IF x.state \in {"waiting", "sent"} THEN "open" ELSE x.state]
             S == {T(ops[o]) : o \in 1..Len(ops)} \cup {T(e)}
  <1>2. Told = [o \in 1..Len(ops) |-> T(ops[o])]
    BY <1>1 DEF Told
  <1>3. Told' = [o \in 1..(Len(ops) + 1) |-> T(ops'[o])]
    BY <1>1 DEF Told
  <1>4. T(e) = [kind |-> kind, from |-> from, told |-> T(e).told]
        /\ T(e).told \in {"open", "failed"}
    OBVIOUS
  <1>5. /\ \A o \in 1..Len(ops) : T(ops[o]) \in S /\ T(ops'[o]) = T(ops[o])
        /\ T(e) \in S /\ T(ops'[Len(ops) + 1]) = T(e)
    BY <1>1
  <1>6. Told' = Append(Told, T(e))
    <2> HIDE DEF T, S
    <2>1. Told \in [1..Len(ops) -> S]
      BY <1>2, <1>5
    <2>2. Told \in Seq(S)
      BY <1>1, <2>1
    <2>3. Len(Told) = Len(ops)
      <3>1. DOMAIN Told = 1..Len(Told) /\ Len(Told) \in Nat
        BY <2>2, LenProperties
      <3>2. DOMAIN Told = 1..Len(ops)
        BY <1>2
      <3>. QED  BY <1>1, <3>1, <3>2, SameInterval
    <2>4. /\ Append(Told, T(e)) \in Seq(S)
          /\ Len(Append(Told, T(e))) = Len(Told) + 1
          /\ \A o \in 1..Len(Told) : Append(Told, T(e))[o] = Told[o]
          /\ Append(Told, T(e))[Len(Told) + 1] = T(e)
      BY <1>5, <2>2, AppendProperties
    <2>5. Append(Told, T(e)) \in [1..(Len(ops) + 1) -> S]
      BY <2>3, <2>4, LenProperties
    <2>6. ASSUME NEW o \in 1..(Len(ops) + 1) PROVE Told'[o] = Append(Told, T(e))[o]
      <3>1. CASE o \in 1..Len(ops)
        BY <1>2, <1>3, <1>5, <2>3, <2>4, <3>1
      <3>2. CASE o = Len(ops) + 1
        BY <1>3, <1>5, <2>3, <2>4, <3>2
      <3>3. o \in 1..Len(ops) \/ o = Len(ops) + 1
        BY ONLY <1>1
      <3>. QED  BY <3>1, <3>2, <3>3
    <2>. QED  BY <1>3, <2>5, <2>6
  <1>7. from # 0 => \A o \in DOMAIN Told : Told[o].from < from
    <2>1. ASSUME from # 0, NEW o \in DOMAIN ops PROVE ops[o].from < from
      <3>1. handled < from /\ ops[o].from <= handled /\ ops[o].from \in Nat /\ handled \in Nat
        BY <2>1, FromType DEF Starts, FromInv, Types, PageType
      <3>. QED  BY <3>1
    <2>. QED  BY <2>1, ToldOf
  <1>8. put' = put /\ pasted' = pasted /\ Written' = Written
    BY DEF host, Written
  <1> HIDE DEF T, S
  <1>9. \E told \in {"open", "failed"} :
           Told' = Append(Told, [kind |-> kind, from |-> from, told |-> told])
    BY <1>4, <1>6
  <1>10. Promise!Begin(kind, from)
    BY <1>7, <1>8, <1>9 DEF Promise!Begin
  <1>11. kind \in Promise!Writing \cup Promise!Pasted \cup {"read"}
    BY DEF Kinds, Promise!Writing, Promise!Pasted
  <1>. QED  BY <1>10, <1>11 DEF Promise!Next

\* An operation for which something is put on the clipboard is not over.
LEMMA ServeStep ==
    ASSUME Types, RequestsInv, WorkInv, WorkedInv, LateInv, Serves, ops' = ops
    PROVE  Promise!Next \/ UNCHANGED Promise!vars
  <1>1. Told' = Told
    BY DEF Told
  <1> PICK o \in DOMAIN ops : o = work.req.op
    BY DEF Serves
  <1>2. work # None /\ work.req \in Requested /\ work.req \in Unserved /\ o \in DOMAIN Told
    BY ToldOf DEF Serves, Unserved
  <1>3. ~Promise!Over(o)
    BY <1>2, ToldOf DEF LateInv, Promise!Over
  <1>4. work.req.part > 0 <=> ops[o].kind = "picture"
    BY <1>2, PartOfPicture
  <1>5. Parts > 0
    BY ONLY ClipboardBounds DEF ClipboardBounds
  <1>6. ASSUME NEW x, put' = put \cup {<<o, x>>}, pasted' = pasted, work.step = "put"
        PROVE  Promise!Next
    <2>1. ops[o].kind \in {"send", "text", "picture"}
      BY <1>2, <1>4, <1>5, <1>6 DEF WorkInv
    <2>2. Written' = Written \cup {o}
      <3>1. <<o, x>>[1] = o
        OBVIOUS
      <3> PICK p : p = <<o, x>>
        OBVIOUS
      <3>2. put' = put \cup {p} /\ p[1] = o
        BY <1>6, <3>1
      <3>. QED  BY ONLY <3>2 DEF Written
    <2>3. Promise!Write(o)
      BY <1>1, <1>3, <1>6, <2>1, <2>2, ToldOf DEF Promise!Write, Promise!Writing
    <2>. QED  BY <1>2, <2>3 DEF Promise!Next
  <1>7. ASSUME pasted' = pasted \cup {o}, put' = put, work.step = "paste"
        PROVE  Promise!Next
    <2>1. /\ ops[o].kind \in {"text", "paste", "picture"}
          /\ ops[o].kind \in {"text", "picture"} => o \in Written
      BY <1>2, <1>4, <1>5, <1>7 DEF WorkInv, OnClipboard, Written
    <2>2. ASSUME ops[o].kind = "picture" PROVE Promise!InTurn(o)
      <3>1. Complete
        BY <1>2, <1>4, <1>7, <2>2 DEF Complete
      <3>2. \A q \in pasted : ops[q].kind = "picture" => q < o
        BY <3>1 DEF WorkedInv, IsPicture
      <3>3. \A q \in pasted : Told[q].kind = ops[q].kind
        BY ToldOf DEF Types, HostType
      <3>. QED  BY <3>2, <3>3 DEF Promise!InTurn
    <2>3. Written' = Written
      BY <1>7 DEF Written
    <2>4. Promise!Paste(o)
      BY <1>1, <1>3, <1>7, <2>1, <2>2, <2>3, ToldOf
         DEF Promise!Paste, Promise!Writing, Promise!Pasted
    <2>. QED  BY <1>2, <2>4 DEF Promise!Next
  <1>8. CASE put' = put /\ pasted' = pasted
    BY <1>1, <1>8, UntoldStep
  <1>. QED  BY <1>6, <1>7, <1>8 DEF Serves

\* What is no picture ends with its request, as that does.
LEMMA SettleTells ==
    ASSUME Types, RequestsInv, AnswersInv, SentInv, Settles
    PROVE  Promise!Next
  <1>. PICK rs \in SUBSET pending, ok \in BOOLEAN :
            /\ Settle(rs, ok) /\ UNCHANGED host
            /\ ok => down # <<>> /\ rs = {r \in pending : r.id = Head(down).id} /\ Head(down).ok
    BY DEF Settles
  <1> DEFINE os == {o \in DOMAIN ops : ops[o].kind # "picture" /\ \E r \in rs : r.op = o}
  <1>1. /\ ops' \in [DOMAIN ops -> Op]
        /\ \A o \in DOMAIN ops : ops'[o].kind = ops[o].kind /\ ops'[o].from = ops[o].from
    BY ONLY Types, Settle(rs, ok), SettleEffect
  <1>2. ASSUME NEW o \in DOMAIN ops
        PROVE  IF o \in os THEN ops'[o].state = IF ok THEN "done" ELSE "failed"
                           ELSE ops'[o].state = ops[o].state
    <2>1. ops[o] \in Op
      BY ElementOfSeq, LenProperties DEF Types, OpsType
    <2>2. ops'[o] = IF o \in os THEN [ops[o] EXCEPT !.state = IF ok THEN "done" ELSE "failed"]
                    ELSE ops[o]
      BY DEF Settle
    <2> HIDE DEF os
    <2>. QED  BY ONLY <2>1, <2>2 DEF Op
  <1>3. ASSUME NEW o \in os PROVE ops[o].state = "sent" /\ (ok => OpDone(o))
    <2>. PICK r \in rs : r.op = o
      OBVIOUS
    <2>1. r.part = 0 /\ r \in pending
      BY DEF RequestsInv, Requested
    <2>2. ASSUME ok PROVE OpDone(o)
      <3>1. GoodAnswer(Head(down)) /\ Head(down).ok /\ r.id = Head(down).id
        BY <2>2, AnswersGood
      <3>. QED  BY <2>1, <3>1 DEF GoodAnswer, Done
    <2>. QED  BY <2>1, <2>2 DEF SentInv
  <1>4. put' = put /\ pasted' = pasted /\ os \in SUBSET DOMAIN ops
    BY DEF host
  <1> HIDE DEF os
  <1>. QED  BY <1>1, <1>2, <1>3, <1>4, TellStep

LEMMA UploadTells ==
    ASSUME Types, UploadInv, EndUpload
    PROVE  Promise!Next
  <1>1. upload # None /\ upload \in Upload /\ upload.op \in DOMAIN ops
    BY UploadTypes DEF EndUpload, WindowDone
  <1> PICK o \in DOMAIN ops : o = upload.op
    BY <1>1
  <1>2. PICK ok \in BOOLEAN :
           /\ ops' = [ops EXCEPT ![o].state = IF ok THEN "done" ELSE "failed"]
           /\ ok <=> ~upload.broken
    BY DEF EndUpload, EndOp, Uploaded
  <1>3. PICK state \in {"sent", "done", "failed"} : state = IF ok THEN "done" ELSE "failed"
    OBVIOUS
  <1>4. ops' = [ops EXCEPT ![o].state = state]
    BY <1>2, <1>3
  <1>5. /\ ops' \in [DOMAIN ops -> Op]
        /\ \A q \in DOMAIN ops :
              /\ ops'[q].kind = ops[q].kind /\ ops'[q].from = ops[q].from
              /\ ops'[q].state = IF q = o THEN state ELSE ops[q].state
    BY ONLY Types, <1>4, EndOpEffect
  <1>6. ops[o].state = "sent"
    BY <1>1 DEF UploadInv
  <1>7. ASSUME ok PROVE OpDone(o)
    <2>1. ~upload.broken /\ (upload.broken \/ upload.next > Parts)
      BY <1>2, <1>7 DEF EndUpload
    <2>2. upload.next = Parts + 1
      <3>1. Parts \in Nat
        BY ONLY ClipboardBounds DEF ClipboardBounds
      <3>2. upload.next \in 1..(Parts + 1)
        BY <1>1, UploadTypes
      <3>. QED  BY ONLY <2>1, <3>1, <3>2
    <2>3. \A r \in pending : r.op # upload.op
      BY DEF EndUpload, WindowDone
    <2>. QED  BY <1>1, <2>1, <2>2, <2>3 DEF UploadInv
  <1>8. put' = put /\ pasted' = pasted
    BY DEF EndUpload, host
  <1> DEFINE os == {o}
  <1>9. /\ os \in SUBSET DOMAIN ops
        /\ \A q \in os : ops[q].state \in {"waiting", "sent"} /\ (ok => OpDone(q))
    BY <1>6, <1>7
  <1>10. \A q \in DOMAIN ops :
            /\ ops'[q].kind = ops[q].kind /\ ops'[q].from = ops[q].from
            /\ IF q \in os THEN ops'[q].state = IF ok THEN "done" ELSE "failed"
                           ELSE ops'[q].state = ops[q].state
    BY <1>3, <1>5
  <1> HIDE DEF os
  <1>. QED  BY <1>5, <1>8, <1>9, <1>10, TellStep

\* A picture that waited is sent, or cannot be.
LEMMA UploadStarts ==
    ASSUME Types, NEW o \in Waiting, StartUpload(o)
    PROVE  Promise!Next \/ UNCHANGED Promise!vars
  <1>1. o \in DOMAIN ops /\ ops[o].state = "waiting" /\ put' = put /\ pasted' = pasted
    BY DEF Waiting, StartUpload, host
  <1>2. PICK state \in {"sent", "failed"} : ops' = [ops EXCEPT ![o].state = state]
    BY DEF StartUpload, EndOp
  <1>3. state \in {"sent", "done", "failed"}
    OBVIOUS
  <1>4. /\ ops' \in [DOMAIN ops -> Op]
        /\ \A q \in DOMAIN ops :
              /\ ops'[q].kind = ops[q].kind /\ ops'[q].from = ops[q].from
              /\ ops'[q].state = IF q = o THEN state ELSE ops[q].state
    BY ONLY Types, <1>1, <1>2, <1>3, EndOpEffect
  <1>5. CASE state = "sent"
    <2>1. DOMAIN ops' = DOMAIN ops
      BY <1>4
    <2>2. Told' = Told
      BY <1>1, <1>4, <1>5, <2>1, SameTold
    <2>. QED  BY <1>1, <2>2, UntoldStep
  <1>6. CASE state = "failed"
    <2> PICK ok \in BOOLEAN : ok = FALSE
      OBVIOUS
    <2> DEFINE os == {o}
    <2>1. /\ os \in SUBSET DOMAIN ops
          /\ \A q \in os : ops[q].state \in {"waiting", "sent"} /\ (ok => OpDone(q))
      BY <1>1
    <2>2. \A q \in DOMAIN ops :
             /\ ops'[q].kind = ops[q].kind /\ ops'[q].from = ops[q].from
             /\ IF q \in os THEN ops'[q].state = IF ok THEN "done" ELSE "failed"
                            ELSE ops'[q].state = ops[q].state
      BY <1>4, <1>6
    <2> HIDE DEF os
    <2>. QED  BY <1>1, <1>4, <2>1, <2>2, TellStep
  <1>. QED  BY <1>5, <1>6

LEMMA PromiseInit == Init => Promise!Init
  <1> SUFFICES ASSUME Init PROVE Promise!Init
    OBVIOUS
  <1>1. ops = <<>> /\ put = {} /\ pasted = {}
    BY DEF Init
  <1>2. DOMAIN Told = {}
    BY <1>1, ToldOf
  <1>3. Told = [o \in {} |-> 0]
    BY <1>1, <1>2 DEF Told
  <1>4. Told = <<>> /\ Written = {}
    BY <1>1, <1>3 DEF Written
  <1>. QED  BY <1>1, <1>4 DEF Promise!Init

\* Every step is one of the promise, or none.
LEMMA PromiseStep ==
    ASSUME RequestedInv, FromInv, WorkedInv, EndsInv, [Next]_vars
    PROVE  [Promise!Next]_(Promise!vars)
  <1>1. Types /\ RequestsInv /\ UploadInv /\ WorkInv /\ AnswersInv /\ SentInv /\ LateInv
    BY DEF RequestedInv, EndsInv
  <1>2. CASE Presses \/ SendWindow
    <2>1. ops' = ops /\ put' = put /\ pasted' = pasted
      BY <1>2 DEF Presses, SendWindow, session, host
    <2>2. Told' = Told
      BY <2>1 DEF Told
    <2>. QED  BY <2>1, <2>2, UntoldStep
  <1>3. CASE HostStep
    <2>1. ops' = ops
      BY <1>3, HostStepKeeps
    <2>2. CASE Serves
      BY <1>1, <2>1, <2>2, ServeStep
    <2>3. CASE Reply \/ EndService \/ \E good \in BOOLEAN : Take(good)
      <3>1. put' = put /\ pasted' = pasted
        BY <2>3 DEF Reply, EndService, Take, host
      <3>2. Told' = Told
        BY <2>1 DEF Told
      <3>. QED  BY <3>1, <3>2, UntoldStep
    <2>. QED  BY <1>1, <1>3, <2>2, <2>3, HostKinds
  <1>4. CASE Settles
    BY <1>1, <1>4, SettleTells
  <1>5. CASE EndUpload
    BY <1>1, <1>5, UploadTells
  <1>6. CASE \E o \in Waiting : StartUpload(o)
    BY <1>1, <1>6, UploadStarts
  <1>7. CASE \E kind \in Kinds, from \in 0..MaxOps : Starts(kind, from)
    BY <1>1, <1>7, BeginStep
  <1>. QED  BY <1>1, <1>2, <1>3, <1>4, <1>5, <1>6, <1>7, StepKinds

\* For any number of operations, parts and faults, the clipboard does what Pasting
\* promises: every step begins an operation for a press that is newer than all before,
\* writes or pastes one that is not told to be done, a picture in its turn, tells once
\* how operations have ended, as it was, or is none of the user's business.
THEOREM ClipboardKeepsItsPromise == Spec => ImplementsPasting
  <1>1. IInv /\ [Next]_vars => [Promise!Next]_(Promise!vars)
    BY PromiseStep DEF IInv, OrderInv
  <1>. QED  BY PromiseInit, <1>1, Invariant, PTL DEF Spec, ImplementsPasting, Promise!Spec
=============================================================================
