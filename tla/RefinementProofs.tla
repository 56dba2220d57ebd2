-------------------------- MODULE RefinementProofs --------------------------
(* Refinement for any desktops, inputs and changes: its types; that no     *)
(* sharp picture on view is older than the user's last button or wheel;    *)
(* that the canvas never finds the worker's messages out of order; that    *)
(* both agree on the baseline; and that a hidden picture comes back only   *)
(* near the desktop.                                                       *)
EXTENDS Refinement, SequenceTheorems, TLAPS

USE RefinementBounds DEF RefinementBounds

-----------------------------------------------------------------------------
(* Types *)

\* The browser's canvas as a whole.
Canvas == [pending  : Updates \cup {None},
           queue    : Seq(Updates),
           received : Nat,
           lastId   : Nat,
           base     : Desktops \cup {None, Corrupt},
           made     : Nat,
           visible  : Desktops \cup {None, Corrupt},
           closed   : BOOLEAN]

UserType    == /\ scene \in Desktops /\ changes \in 0..MaxChanges
               /\ stamp \in 0..MaxInputs /\ rejects \in 0..MaxRejects
               /\ wire \in Seq(1..MaxInputs)
SessionType == /\ latest \in 0..MaxInputs
               /\ window \in BOOLEAN /\ sampled \in BOOLEAN /\ slept \in BOOLEAN
CycleType   == /\ phase \in Phases
               /\ cycle \in [watermark : 0..MaxInputs, presentable : BOOLEAN,
                             animating : BOOLEAN]
               /\ update \in Updates \cup {None}
               /\ phase \in {"sending", "awaiting"} => update \in Updates
BaseType    == /\ previous \in Desktops \cup {None} /\ id \in Nat /\ committed \in Nat
               /\ certified \in Nat \cup {None} /\ evidence \in Nat
SharpType   == /\ shown \in BOOLEAN /\ mask \in (Nat \X Nat) \cup {None}
               /\ stable \in {"none", "since", "held"}
               /\ behind \in 0..MotionStreak /\ heavy \in BOOLEAN
ChannelType == down \in Seq(Messages) /\ acks \in Seq(Nat)

Types == /\ UserType /\ SessionType /\ CycleType /\ BaseType /\ SharpType
         /\ ChannelType /\ canvas \in Canvas

LEMMA TypesImply == Types => TypeOK
  BY DEF Types, UserType, SessionType, CycleType, BaseType, SharpType, ChannelType,
         Canvas, TypeOK

LEMMA HeadTail ==
    ASSUME NEW S, NEW q \in Seq(S), q # <<>>
    PROVE  Head(q) \in S /\ Tail(q) \in Seq(S)
  BY HeadTailProperties

LEMMA FreshCanvas == NewCanvas \in Canvas /\ \A c \in Canvas : Destroy(c) \in Canvas
  <1>1. <<>> \in Seq(Updates)
    OBVIOUS
  <1>2. NewCanvas \in Canvas /\ [NewCanvas EXCEPT !.closed = TRUE] \in Canvas
    BY <1>1 DEF NewCanvas, Canvas
  <1>. QED  BY <1>2 DEF Destroy

LEMMA TypesInit == Init => Types
  <1>1. First \in Desktops
    <2>1. \E d \in Desktops : TRUE
      <3> PICK s \in Sizes, l \in Layouts, c \in Carets : TRUE
        BY DesktopsAssumption
      <3>1. [size |-> s, layout |-> l, caret |-> c] \in Desktops
        BY DEF Desktops
      <3>. QED  BY <3>1
    <2>. QED  BY <2>1 DEF First
  <1> SUFFICES ASSUME Init PROVE Types
    OBVIOUS
  <1>2. UserType
    BY <1>1 DEF Init, UserType
  <1>3. SessionType
    <2>1. latest \in 0..MaxInputs
      BY DEF Init
    <2>2. window \in BOOLEAN /\ sampled \in BOOLEAN /\ slept \in BOOLEAN
      BY DEF Init
    <2>. QED  BY <2>1, <2>2 DEF SessionType
  <1>4. CycleType
    BY DEF Init, CycleType, NoCycle, Phases
  <1>5. BaseType
    BY DEF Init, BaseType
  <1>6. SharpType
    <2>1. shown \in BOOLEAN /\ heavy \in BOOLEAN
      BY DEF Init
    <2>2. mask \in (Nat \X Nat) \cup {None} /\ stable \in {"none", "since", "held"}
      BY DEF Init
    <2>3. behind \in 0..MotionStreak
      BY DEF Init, MotionStreak
    <2>. QED  BY <2>1, <2>2, <2>3 DEF SharpType
  <1>7. ChannelType
    BY DEF Init, ChannelType
  <1>. QED  BY <1>2, <1>3, <1>4, <1>5, <1>6, <1>7, FreshCanvas DEF Init, Types

LEMMA UserTypeStep == ASSUME Types, [Next]_vars PROVE UserType'
  <1>1. CASE SceneChanges
    BY <1>1 DEF SceneChanges, Types, UserType
  <1>2. CASE UserInput
    <2>1. stamp + 1 \in 1..MaxInputs
      BY <1>2 DEF UserInput, Types, UserType
    <2>. QED  BY <1>2, <2>1, AppendProperties DEF UserInput, Types, UserType
  <1>3. CASE Deliver
    <2>1. Tail(wire) \in Seq(1..MaxInputs)
      BY <1>3, HeadTailProperties DEF Deliver, Types, UserType
    <2>. QED  BY <1>3, <2>1 DEF Deliver, Types, UserType
  <1>4. CASE UNCHANGED user
    BY <1>4 DEF user, Types, UserType
  <1>5. CASE Next
    BY <1>1, <1>2, <1>3, <1>4, <1>5
       DEF Next, WindowCloses, Retired, Stop, Timeout, End, Sampling, Sample, Look,
           CaptureFails, StableElapses, SendDone, Cancel, Ack, Receive, Commit, Leaves,
           HostCloses
  <1>. QED  BY <1>4, <1>5 DEF vars

LEMMA SessionTypeStep == ASSUME Types, [Next]_vars PROVE SessionType'
  <1>1. CASE Deliver
    <2>1. wire \in Seq(1..MaxInputs) /\ wire # <<>>
      BY <1>1 DEF Deliver, Types, UserType
    <2>2. Head(wire) \in 1..MaxInputs
      BY <2>1, HeadTail
    <2>3. latest' \in 0..MaxInputs
      BY <1>1, <2>2 DEF Deliver, Types, SessionType
    <2>4. window' \in BOOLEAN /\ sampled' \in BOOLEAN /\ slept' \in BOOLEAN
      BY <1>1 DEF Deliver, Types, SessionType
    <2>. QED  BY <2>3, <2>4 DEF SessionType
  <1>2. CASE WindowCloses
    BY <1>2 DEF WindowCloses, Types, SessionType
  <1>3. CASE Sampling
    BY <1>3 DEF Sampling, Sample, Types, SessionType
  <1>4. CASE UNCHANGED session
    BY <1>4 DEF session, Types, SessionType
  <1>5. CASE Next
    BY <1>1, <1>2, <1>3, <1>4, <1>5
       DEF Next, SceneChanges, UserInput, Retired, Stop, Timeout, End, Look,
           CaptureFails, StableElapses, SendDone, Cancel, Ack, Receive, Commit, Leaves,
           HostCloses
  <1>. QED  BY <1>4, <1>5 DEF vars

\* What an update is made of.
LEMMA UpdateType ==
    ASSUME Types
    PROVE  /\ Capture \in Desktops
           /\ From(previous, Capture) \in Desktops \cup {None}
           /\ [id |-> id + 1, from |-> From(previous, Capture), to |-> Capture,
               made |-> latest] \in Updates
  <1>1. Capture \in Desktops /\ latest \in Nat /\ id + 1 \in Nat
    BY DEF Types, UserType, SessionType, BaseType, Capture
  <1>2. From(previous, Capture) \in Desktops \cup {None}
    BY DEF Types, BaseType, From
  <1>. QED  BY <1>1, <1>2 DEF Updates

LEMMA CycleTypeStep == ASSUME Types, [Next]_vars PROVE CycleType'
  <1> DEFINE Cycles == [watermark : 0..MaxInputs, presentable : BOOLEAN,
                        animating : BOOLEAN]
  <1>0. CycleType /\ latest \in 0..MaxInputs /\ window \in BOOLEAN
    BY DEF Types, SessionType
  <1>1. /\ NoCycle \in Cycles
        /\ \A w \in 0..MaxInputs : [NoCycle EXCEPT !.watermark = w] \in Cycles
    <2>1. NoCycle \in Cycles
      BY DEF NoCycle
    <2>2. ASSUME NEW w \in 0..MaxInputs
          PROVE  [NoCycle EXCEPT !.watermark = w] \in Cycles
      BY DEF NoCycle
    <2>. QED  BY <2>1, <2>2
  <1>2. cycle.watermark \in 0..MaxInputs
    BY <1>0 DEF CycleType
  <1>3. CASE End
    BY <1>1, <1>3 DEF End, CycleType, Phases
  <1>4. CASE Sampling
    <2>1. cycle' \in Cycles
      <3>1. \A a \in BOOLEAN, b \in BOOLEAN, w \in 0..MaxInputs :
               [watermark |-> w, presentable |-> a, animating |-> b] \in Cycles
        OBVIOUS
      <3>2. (~window) \in BOOLEAN /\ (behind >= MotionStreak) \in BOOLEAN
        OBVIOUS
      <3> PICK a : a = ~window
        OBVIOUS
      <3> PICK b : b = (behind >= MotionStreak)
        OBVIOUS
      <3>4. a \in BOOLEAN /\ b \in BOOLEAN
        BY <3>2
      <3>3. \/ cycle' = NoCycle
            \/ cycle' = [watermark |-> latest, presentable |-> a, animating |-> b]
        BY <1>4 DEF Sampling, Sample
      <3>5. [watermark |-> latest, presentable |-> a, animating |-> b] \in Cycles
        BY <1>0, <3>1, <3>4
      <3> HIDE DEF Cycles
      <3>. QED  BY <1>1, <3>3, <3>5
    <2>. QED  BY <1>0, <1>4, <2>1 DEF Sampling, Sample, CycleType, Phases
  <1>5. CASE Look
    <2>1. \/ /\ phase' = "tick" /\ cycle' = NoCycle /\ UNCHANGED update
          \/ /\ phase' = "sending"
             /\ cycle' = [NoCycle EXCEPT !.watermark = cycle.watermark]
             /\ update' \in Updates
      BY <1>5, UpdateType DEF Look, Unchanged, Differs
    <2>. QED  BY <1>0, <1>1, <1>2, <2>1 DEF CycleType, Phases
  <1>6. CASE SendDone
    BY <1>0, <1>6 DEF SendDone, CycleType, Phases
  <1>7. CASE Cancel
    BY <1>1, <1>7 DEF Cancel, CycleType, Phases
  <1>8. CASE Ack /\ ~End
    BY <1>1, <1>8 DEF Ack, CycleType, Phases
  <1>9. CASE UNCHANGED <<phase, cycle, update>>
    BY <1>0, <1>9 DEF CycleType
  <1>10. CASE Next
    BY <1>3, <1>4, <1>5, <1>6, <1>7, <1>8, <1>9, <1>10
       DEF Next, SceneChanges, UserInput, Deliver, WindowCloses, Retired, Stop, Timeout,
           CaptureFails, StableElapses, Receive, Commit, Leaves, HostCloses, worker
  <1>. QED  BY <1>9, <1>10 DEF vars, worker

LEMMA BaseTypeStep == ASSUME Types, [Next]_vars PROVE BaseType'
  <1>0. /\ BaseType /\ CycleType /\ latest \in Nat /\ cycle.watermark \in Nat
        /\ update \in Updates \cup {None}
    BY DEF Types, SessionType, CycleType
  <1>1. CASE End
    BY <1>1 DEF End, BaseType
  <1>2. CASE Look
    BY <1>0, <1>2 DEF Look, Unchanged, Differs, BaseType
  <1>3. CASE Ack /\ ~End
    <2>1. update \in Updates
      BY <1>0, <1>3 DEF Ack, CycleType
    <2>2. update.to \in Desktops /\ update.made \in Nat
      BY <2>1 DEF Updates
    <2>. QED  BY <1>0, <1>3, <2>2 DEF Ack, BaseType
  <1>4. CASE UNCHANGED baseline
    BY <1>0, <1>4 DEF baseline, BaseType
  <1>5. CASE Next
    BY <1>1, <1>2, <1>3, <1>4, <1>5
       DEF Next, SceneChanges, UserInput, Deliver, WindowCloses, Retired, Stop, Timeout,
           Sampling, Sample, CaptureFails, StableElapses, SendDone, Cancel, Receive,
           Commit, Leaves, HostCloses, worker
  <1>. QED  BY <1>4, <1>5 DEF vars, worker

LEMMA SharpTypeStep == ASSUME Types, [Next]_vars PROVE SharpType'
  <1>0. SharpType /\ committed \in Nat /\ cycle.watermark \in Nat
    BY DEF Types, BaseType, CycleType
  <1>1. CASE End
    <2>1. shown' \in BOOLEAN /\ mask' = None /\ stable' = "none"
      BY <1>1 DEF End
    <2>2. behind' \in 0..MotionStreak
      BY <1>1 DEF End, MotionStreak
    <2>3. heavy' \in BOOLEAN
      BY <1>1 DEF End
    <2>. QED  BY <2>1, <2>2, <2>3 DEF SharpType
  <1>2. CASE Sampling
    BY <1>0, <1>2 DEF Sampling, Sample, SharpType, sharp, motion
  <1>3. CASE Look
    <2>1. shown' \in BOOLEAN /\ mask' \in (Nat \X Nat) \cup {None}
      BY <1>0, <1>3 DEF Look, Present, SharpType
    <2>2. stable' \in {"none", "since", "held"}
      BY <1>0, <1>3 DEF Look, Unchanged, Differs, SharpType
    <2>3. behind' \in 0..MotionStreak
      BY <1>0, <1>3 DEF Look, Unchanged, Differs, Behind, SharpType, MotionStreak
    <2>4. heavy' \in BOOLEAN
      BY <1>0, <1>3 DEF Look, Unchanged, Differs, SharpType
    <2>. QED  BY <2>1, <2>2, <2>3, <2>4 DEF SharpType
  <1>4. CASE StableElapses
    BY <1>0, <1>4 DEF StableElapses, SharpType, motion
  <1>5. CASE Ack /\ ~End
    BY <1>0, <1>5 DEF Ack, SharpType, Large
  <1>6. CASE UNCHANGED <<sharp, motion>>
    BY <1>0, <1>6 DEF sharp, motion, SharpType
  <1>7. CASE Next
    BY <1>1, <1>2, <1>3, <1>4, <1>5, <1>6, <1>7
       DEF Next, SceneChanges, UserInput, Deliver, WindowCloses, Retired, Stop, Timeout,
           CaptureFails, SendDone, Cancel, Receive, Commit, Leaves, HostCloses, worker
  <1>. QED  BY <1>6, <1>7 DEF vars, worker

\* What the worker shows.
ShowMessage == [type |-> "show", id |-> committed, input |-> cycle.watermark,
                made |-> evidence, close |-> Near(previous, Capture)]

LEMMA ShowType ==
    ASSUME Types
    PROVE  /\ ShowMessage \in Messages
           /\ Show \in Seq(Messages)
           /\ Show = IF Presents THEN <<ShowMessage>> ELSE <<>>
  <1>1. committed \in Nat /\ cycle.watermark \in Nat /\ evidence \in Nat
    BY DEF Types, BaseType, CycleType
  <1>2. Near(previous, Capture) \in BOOLEAN
    BY DEF Near
  <1>3. ShowMessage \in Messages
    BY <1>1, <1>2 DEF ShowMessage, Messages
  <1>4. Show = IF Presents THEN <<ShowMessage>> ELSE <<>>
    BY DEF Show, ShowMessage
  <1>. QED  BY <1>3, <1>4

\* What a step adds to the channel: nothing, one message, or what is shown before it.
LEMMA SendsStep ==
    ASSUME Types, [Next]_vars
    PROVE  \/ UNCHANGED down
           \/ down # <<>> /\ down' = Tail(down) /\ Receive
           \/ down' = <<>>
           \/ \E m \in Messages : down' = Append(down, m) /\ m.type # "show"
           \/ down' = down \o Show
           \/ \E m \in Messages : down' = (down \o Show) \o <<m>> /\ m.type # "show"
  <1>0. id \in Nat /\ id + 1 \in Nat
    BY DEF Types, BaseType
  <1>1. /\ \A n \in Nat, t \in {"end", "cancel"} : [type |-> t, id |-> n] \in Messages
        /\ \A u \in Updates : [type |-> "begin", update |-> u] \in Messages
        /\ [type |-> "invalidate"] \in Messages
    BY DEF Messages
  <1>2. CASE Receive
    BY <1>2 DEF Receive
  <1>3. CASE Sampling
    BY <1>1, <1>3 DEF Sampling, Sample
  <1>4. CASE Look
    <2>1. CASE down' = down \o Show
      BY <2>1
    <2>2. ASSUME NEW u \in Updates,
                 down' = down \o Show \o <<[type |-> "begin", update |-> u]>>
          PROVE  \E m \in Messages : down' = (down \o Show) \o <<m>> /\ m.type # "show"
      BY <1>1, <2>2
    <2>. QED  BY <1>4, <2>1, <2>2, UpdateType DEF Look, Unchanged, Differs
  <1>5. CASE SendDone \/ Cancel
    BY <1>0, <1>1, <1>5 DEF SendDone, Cancel
  <1>6. CASE Leaves
    BY <1>6 DEF Leaves
  <1>7. CASE UNCHANGED down
    BY <1>7
  <1>8. CASE Next
    BY <1>2, <1>3, <1>4, <1>5, <1>6, <1>7, <1>8
       DEF Next, SceneChanges, UserInput, Deliver, WindowCloses, Retired, Stop, Timeout,
           End, CaptureFails, StableElapses, Ack, Commit, HostCloses, channel
  <1>. QED  BY <1>7, <1>8 DEF vars, channel

LEMMA ChannelTypeStep == ASSUME Types, [Next]_vars PROVE ChannelType'
  <1>0. down \in Seq(Messages) /\ acks \in Seq(Nat)
    BY DEF Types, ChannelType
  <1>1. down' \in Seq(Messages)
    <2>1. Show \in Seq(Messages)
      BY ShowType
    <2>2. down \o Show \in Seq(Messages)
      BY <1>0, <2>1, ConcatProperties
    <2>3. ASSUME NEW m \in Messages
          PROVE  Append(down, m) \in Seq(Messages) /\ (down \o Show) \o <<m>> \in Seq(Messages)
      <3>1. <<m>> \in Seq(Messages)
        OBVIOUS
      <3>. QED  BY <1>0, <2>2, <2>3, <3>1, AppendProperties, ConcatProperties
    <2>4. down # <<>> => Tail(down) \in Seq(Messages)
      BY <1>0, HeadTail
    <2>5. <<>> \in Seq(Messages)
      OBVIOUS
    <2>. QED  BY <1>0, <2>2, <2>3, <2>4, <2>5, SendsStep
  <1>2. acks' \in Seq(Nat)
    <2>1. CASE UNCHANGED acks
      BY <1>0, <2>1
    <2>2. CASE acks' = <<>>
      BY <2>2
    <2>3. CASE Ack /\ ~End
      <3>1. acks # <<>> /\ acks' = Tail(acks)
        BY <2>3 DEF Ack
      <3>. QED  BY <1>0, <3>1, HeadTail
    <2>4. CASE Commit
      <3>1. canvas \in Canvas /\ canvas.queue \in Seq(Updates)
        BY DEF Types, Canvas
      <3>2. Head(canvas.queue) \in Updates
        BY <2>4, <3>1, HeadTail DEF Commit
      <3> PICK n \in Nat : n = Head(canvas.queue).id
        BY <3>2 DEF Updates
      <3>3. acks' = acks \/ acks' = Append(acks, n)
        BY <2>4 DEF Commit
      <3>4. Append(acks, n) \in Seq(Nat)
        BY <1>0, AppendProperties
      <3>. QED  BY <1>0, <3>3, <3>4
    <2>5. CASE Next
      BY <2>1, <2>2, <2>3, <2>4, <2>5
         DEF Next, SceneChanges, UserInput, Deliver, WindowCloses, Retired, Stop,
             Timeout, End, Sampling, Sample, Look, CaptureFails, StableElapses, SendDone,
             Cancel, Receive, Leaves, HostCloses, channel
    <2>. QED  BY <2>1, <2>5 DEF vars, channel
  <1>. QED  BY <1>1, <1>2 DEF ChannelType

LEMMA CanvasTypeStep == ASSUME Types, [Next]_vars PROVE canvas' \in Canvas
  <1>0. canvas \in Canvas
    BY DEF Types
  <1>1. CASE UserInput
    BY <1>0, <1>1 DEF UserInput, Canvas
  <1>2. CASE Receive
    <2>1. Head(down) \in Messages
      BY <1>2, HeadTail DEF Receive, Types, ChannelType
    <2> PICK m \in Messages : m = Head(down)
      BY <2>1
    <2>2. CASE m.type = "show"
      <3>1. m.made \in Nat /\ canvas' = OnShow(canvas, m)
        BY <1>2, <2>2 DEF Receive, Messages
      <3>. QED  BY <1>0, <3>1 DEF OnShow, Canvas
    <2>3. CASE m.type = "invalidate"
      <3>1. canvas' = OnInvalidate(canvas)
        BY <1>2, <2>3 DEF Receive
      <3>. QED  BY <1>0, <3>1 DEF OnInvalidate, Canvas
    <2>4. CASE m.type = "cancel"
      <3>1. m.id \in Nat /\ canvas' = OnCancel(canvas, m)
        BY <1>2, <2>4 DEF Receive, Messages
      <3>. QED  BY <1>0, <3>1, FreshCanvas DEF OnCancel, Canvas
    <2>5. CASE m.type = "begin"
      <3>1. m.update \in Updates /\ canvas' = OnBegin(canvas, m)
        BY <1>2, <2>5 DEF Receive, Messages
      <3>. QED  BY <1>0, <3>1, FreshCanvas DEF OnBegin, Canvas
    <2>6. CASE m.type = "end"
      <3>1. m.id \in Nat /\ canvas' = OnEnd(canvas, m)
        BY <1>2, <2>6 DEF Receive, Messages
      <3>2. canvas.queue \in Seq(Updates) /\ canvas.pending \in Updates \cup {None}
        BY <1>0 DEF Canvas
      <3>3. canvas.pending # None => Append(canvas.queue, canvas.pending) \in Seq(Updates)
        BY <3>2, AppendProperties
      <3>. QED  BY <1>0, <3>1, <3>3, FreshCanvas DEF OnEnd, Canvas
    <2>7. m.type \in {"show", "invalidate", "cancel", "begin", "end"}
      BY DEF Messages
    <2>. QED  BY <2>2, <2>3, <2>4, <2>5, <2>6, <2>7
  <1>3. CASE Commit
    <2>1. canvas.queue \in Seq(Updates) /\ canvas.queue # <<>>
      BY <1>0, <1>3 DEF Canvas, Commit
    <2> PICK u \in Updates : u = Head(canvas.queue)
      BY <2>1, HeadTail
    <2>2. u.id \in Nat /\ u.to \in Desktops /\ Tail(canvas.queue) \in Seq(Updates)
      BY <2>1, HeadTail DEF Updates
    <2>3. Drawn(canvas, u) \in Desktops \cup {None, Corrupt}
      BY <2>2 DEF Drawn
    <2>4. \/ canvas' = Destroy(canvas)
          \/ canvas' = [canvas EXCEPT !.queue = Tail(@), !.lastId = u.id,
                                      !.base = Drawn(canvas, u)]
      BY <1>3 DEF Commit
    <2>. QED  BY <1>0, <2>2, <2>3, <2>4, FreshCanvas DEF Canvas
  <1>4. CASE Leaves \/ HostCloses
    BY <1>0, <1>4, FreshCanvas DEF Leaves, HostCloses
  <1>5. CASE UNCHANGED canvas
    BY <1>0, <1>5
  <1>6. CASE Next
    BY <1>1, <1>2, <1>3, <1>4, <1>5, <1>6
       DEF Next, SceneChanges, Deliver, WindowCloses, Retired, Stop, Timeout, End,
           Sampling, Sample, Look, CaptureFails, StableElapses, SendDone, Cancel, Ack
  <1>. QED  BY <1>5, <1>6 DEF vars

LEMMA TypesStep == ASSUME Types, [Next]_vars PROVE Types'
  BY UserTypeStep, SessionTypeStep, CycleTypeStep, BaseTypeStep, SharpTypeStep,
     ChannelTypeStep, CanvasTypeStep DEF Types

\* Worker, session, channel and canvas keep their types for any desktops and any
\* number of inputs and changes.
THEOREM TypeCorrect == Spec => []TypeOK
  <1>1. [](Types => TypeOK)
    BY TypesImply, PTL
  <1>. QED  BY TypesInit, TypesStep, <1>1, PTL DEF Spec

-----------------------------------------------------------------------------
(* No picture from before the user's last input *)

\* Whatever certifies a picture knows of no input that the capture behind it did not
\* know of.
WatermarksInv ==
    /\ evidence <= latest
    /\ cycle.watermark <= latest
    /\ certified # None => certified <= evidence
    /\ phase \in {"sending", "awaiting"} =>
          cycle.watermark <= update.made /\ update.made <= latest

\* What the worker announces is as new as the input it is announced for.
ShowsInv == \A i \in 1..Len(down) : down[i].type = "show" => down[i].input <= down[i].made

LEMMA EvidenceInit == Init => WatermarksInv /\ ShowsInv /\ NoPreInputPicture
  BY DEF Init, WatermarksInv, ShowsInv, NoCycle, NewCanvas, NoPreInputPicture

LEMMA WatermarksStep ==
    ASSUME Types, WatermarksInv, [Next]_vars
    PROVE  WatermarksInv'
  <1>0. /\ latest \in Nat /\ cycle.watermark \in Nat /\ evidence \in Nat
        /\ certified \in Nat \cup {None} /\ latest' \in Nat
    BY TypesStep DEF Types, SessionType, CycleType, BaseType
  <1>1. CASE Deliver
    <2>1. latest' >= latest /\ UNCHANGED worker
      <3>1. wire \in Seq(1..MaxInputs) /\ wire # <<>>
        BY <1>1 DEF Deliver, Types, UserType
      <3>2. Head(wire) \in Nat
        BY <3>1, HeadTail
      <3>. QED  BY <1>0, <1>1, <3>2 DEF Deliver
    <2>2. phase \in {"sending", "awaiting"} => update.made \in Nat
      BY DEF Types, CycleType, Updates
    <2>. QED  BY <1>0, <2>1, <2>2 DEF WatermarksInv, worker, baseline
  <1>2. CASE End
    BY <1>0, <1>2 DEF End, WatermarksInv, NoCycle, session
  <1>3. CASE Sampling
    BY <1>0, <1>3 DEF Sampling, Sample, WatermarksInv, NoCycle, baseline
  <1>4. CASE Look /\ Unchanged
    BY <1>0, <1>4 DEF Look, Unchanged, WatermarksInv, NoCycle, session
  <1>5. CASE Look /\ Differs
    <2>1. /\ UNCHANGED <<latest, certified, evidence>>
          /\ \/ /\ phase' = "sending" /\ update'.made = latest
                /\ cycle'.watermark = cycle.watermark
             \/ phase' = "tick" /\ cycle' = NoCycle
      BY <1>5 DEF Look, Differs, NoCycle, session
    <2>. QED  BY <1>0, <2>1 DEF WatermarksInv, NoCycle
  <1>6. CASE SendDone
    BY <1>6 DEF SendDone, WatermarksInv, baseline, session
  <1>7. CASE Cancel
    BY <1>0, <1>7 DEF Cancel, WatermarksInv, NoCycle, baseline, session
  <1>8. CASE Ack /\ ~End
    <2>1. update.made \in Nat
      BY <1>8 DEF Ack, Types, CycleType, Updates
    <2>2. /\ phase' = "tick" /\ cycle' = NoCycle /\ UNCHANGED latest
          /\ certified' = cycle.watermark /\ evidence' = update.made
          /\ phase = "awaiting"
      BY <1>8 DEF Ack, session
    <2>. QED  BY <1>0, <2>1, <2>2 DEF WatermarksInv, NoCycle
  <1>9. CASE UNCHANGED <<latest, phase, cycle, update, certified, evidence>>
    BY <1>9 DEF WatermarksInv
  <1>10. CASE Next
    BY <1>1, <1>2, <1>3, <1>4, <1>5, <1>6, <1>7, <1>8, <1>9, <1>10
       DEF Next, SceneChanges, UserInput, WindowCloses, Retired, Stop, Timeout,
           CaptureFails, StableElapses, Receive, Commit, Leaves, HostCloses, Look,
           worker, baseline, session
  <1>. QED  BY <1>9, <1>10 DEF vars, worker, baseline, session

LEMMA ShowsStep ==
    ASSUME Types, WatermarksInv, ShowsInv, [Next]_vars
    PROVE  ShowsInv'
  <1>0. down \in Seq(Messages) /\ Show \in Seq(Messages)
    BY ShowType DEF Types, ChannelType
  <1> DEFINE Fine(q) == \A i \in 1..Len(q) : q[i].type = "show" => q[i].input <= q[i].made
  <1>1. Fine(down)
    BY DEF ShowsInv
  <1>2. Fine(Show)
    <2>1. Presents => certified = cycle.watermark
      BY DEF Presents
    <2>2. Presents => cycle.watermark <= evidence
      <3>1. cycle.watermark \in Nat /\ cycle.watermark # None
        BY DesktopsAssumption DEF Types, CycleType, DesktopsAssumption
      <3>. QED  BY <2>1, <3>1 DEF WatermarksInv
    <2>. QED  BY <2>2, ShowType DEF ShowMessage
  <1>3. ASSUME NEW p \in Seq(Messages), NEW q \in Seq(Messages), Fine(p), Fine(q)
        PROVE  Fine(p \o q)
    <2>1. /\ Len(p \o q) = Len(p) + Len(q) /\ Len(p) \in Nat /\ Len(q) \in Nat
          /\ \A i \in 1..Len(p) : (p \o q)[i] = p[i]
          /\ \A i \in 1..Len(q) : (p \o q)[Len(p) + i] = q[i]
      BY <1>3, ConcatProperties
    <2>2. \A i \in 1..Len(p \o q) :
             \/ i \in 1..Len(p)
             \/ i - Len(p) \in 1..Len(q) /\ Len(p) + (i - Len(p)) = i
      BY ONLY <2>1
    <2> TAKE i \in 1..Len(p \o q)
    <2>3. CASE i \in 1..Len(p)
      BY <1>3, <2>1, <2>3
    <2>4. CASE i \notin 1..Len(p)
      <3> PICK j \in 1..Len(q) : j = i - Len(p) /\ Len(p) + j = i
        BY <2>2, <2>4
      <3>. QED  BY <1>3, <2>1
    <2>. QED  BY <2>3, <2>4
  <1>4. ASSUME NEW q \in Seq(Messages), Fine(q), NEW m \in Messages, m.type # "show"
        PROVE  Fine(Append(q, m)) /\ Fine(q \o <<m>>)
    <2>1. <<m>> \in Seq(Messages) /\ Fine(<<m>>)
      BY <1>4
    <2>2. Append(q, m) = q \o <<m>>
      BY AppendIsConcat
    <2>. QED  BY <1>3, <1>4, <2>1, <2>2
  <1>5. ASSUME NEW q \in Seq(Messages), Fine(q), q # <<>> PROVE Fine(Tail(q))
    <2>1. /\ Len(q) \in Nat /\ Len(Tail(q)) = Len(q) - 1
          /\ \A i \in 1..Len(Tail(q)) : Tail(q)[i] = q[i + 1]
      BY <1>5, HeadTailProperties
    <2>. QED  BY <1>5, <2>1
  <1>6. Fine(<<>>)
    OBVIOUS
  <1>7. down \o Show \in Seq(Messages)
    BY <1>0, ConcatProperties
  <1>8. \/ UNCHANGED down
        \/ down # <<>> /\ down' = Tail(down)
        \/ down' = <<>>
        \/ \E m \in Messages : down' = Append(down, m) /\ m.type # "show"
        \/ down' = down \o Show
        \/ \E m \in Messages : down' = (down \o Show) \o <<m>> /\ m.type # "show"
    BY SendsStep
  <1>9. Fine(down \o Show)
    BY <1>0, <1>1, <1>2, <1>3
  <1> HIDE DEF Fine
  <1>10. Fine(down')
    BY <1>0, <1>1, <1>4, <1>5, <1>6, <1>7, <1>8, <1>9
  <1>. QED  BY <1>10 DEF Fine, ShowsInv

LEMMA PictureStep ==
    ASSUME Types, ShowsInv, NoPreInputPicture, [Next]_vars
    PROVE  NoPreInputPicture'
  <1>0. canvas \in Canvas /\ stamp \in Nat
    BY DEF Types, UserType
  <1>1. NewCanvas.visible = None /\ Destroy(canvas).visible = None
    BY DEF NewCanvas, Destroy
  <1>2. CASE UserInput
    BY <1>0, <1>2 DEF UserInput, Canvas, NoPreInputPicture
  <1>3. CASE Receive
    <2>1. Head(down) = down[1] /\ 1 \in 1..Len(down) /\ Head(down) \in Messages
      BY <1>3, HeadTail DEF Receive, Types, ChannelType
    <2> PICK m \in Messages : m = Head(down)
      BY <2>1
    <2>2. m.type = "show" => m.input <= m.made
      BY <2>1 DEF ShowsInv
    <2>3. UNCHANGED stamp
      BY <1>3 DEF Receive, user
    <2>4. CASE m.type = "show"
      <3>1. canvas' = OnShow(canvas, m) /\ m.input \in Nat /\ m.made \in Nat
        BY <1>3, <2>4 DEF Receive, Messages
      <3>2. CASE m.id = canvas.lastId /\ m.input >= stamp
        <4>1. canvas'.made = m.made
          BY <1>0, <3>1, <3>2 DEF OnShow, Canvas
        <4>. QED  BY <1>0, <2>2, <2>3, <2>4, <3>1, <3>2, <4>1 DEF NoPreInputPicture
      <3>3. CASE ~(m.id = canvas.lastId /\ m.input >= stamp)
        BY <2>3, <3>1, <3>3 DEF OnShow, NoPreInputPicture
      <3>. QED  BY <3>2, <3>3
    <2>5. CASE m.type = "invalidate"
      <3>1. canvas' = OnInvalidate(canvas)
        BY <1>3, <2>5 DEF Receive
      <3>. QED  BY <1>0, <3>1 DEF OnInvalidate, Canvas, NoPreInputPicture
    <2>6. CASE m.type \in {"cancel", "begin", "end"}
      <3>1. \/ canvas' = Destroy(canvas)
            \/ canvas'.visible = canvas.visible /\ canvas'.made = canvas.made
        BY <1>0, <1>3, <2>6 DEF Receive, OnCancel, OnBegin, OnEnd, Canvas
      <3>. QED  BY <1>1, <2>3, <3>1 DEF NoPreInputPicture
    <2>7. m.type \in {"show", "invalidate", "cancel", "begin", "end"}
      BY DEF Messages
    <2>. QED  BY <2>4, <2>5, <2>6, <2>7
  <1>4. CASE Commit
    <2>1. \/ canvas' = Destroy(canvas)
          \/ canvas'.visible = canvas.visible /\ canvas'.made = canvas.made
      BY <1>0, <1>4 DEF Commit, Canvas
    <2>. QED  BY <1>1, <1>4, <2>1 DEF Commit, user, NoPreInputPicture
  <1>5. CASE Leaves \/ HostCloses
    BY <1>1, <1>5 DEF Leaves, HostCloses, NoPreInputPicture
  <1>6. CASE UNCHANGED <<canvas, stamp>>
    BY <1>6 DEF NoPreInputPicture
  <1>7. CASE Next
    BY <1>2, <1>3, <1>4, <1>5, <1>6, <1>7
       DEF Next, SceneChanges, Deliver, WindowCloses, Retired, Stop, Timeout, End,
           Sampling, Sample, Look, CaptureFails, StableElapses, SendDone, Cancel, Ack,
           user
  <1>. QED  BY <1>6, <1>7 DEF vars, user

\* The sharp picture never jumps back to before a click: whatever is captured, sent,
\* cancelled, acknowledged and shown meanwhile, a picture on view was captured after
\* the Host had seen the user's last button or wheel.
THEOREM PicturesAreNew == Spec => []NoPreInputPicture
  <1> DEFINE Inv == Types /\ WatermarksInv /\ ShowsInv /\ NoPreInputPicture
  <1>1. Init => Inv
    BY TypesInit, EvidenceInit
  <1>2. Inv /\ [Next]_vars => Inv'
    BY TypesStep, WatermarksStep, ShowsStep, PictureStep
  <1>. QED  BY <1>1, <1>2, PTL DEF Spec

-----------------------------------------------------------------------------
(* The messages about updates.  Begin n is followed by the end or the cancel *)
(* of n, and that by begin n + 1: their keys count up by one.                *)

IsProtocol(m) == m.type \in {"begin", "end", "cancel"}

Key(m) == IF m.type = "begin" THEN 2 * m.update.id ELSE 2 * m.id + 1

\* The queue q holds the keys from low + 1 to top, in order.
Ordered(q, low, top) ==
    /\ low <= top
    /\ \A i \in 1..Len(q) : IsProtocol(q[i]) => Key(q[i]) \in (low + 1)..top
    /\ \A i, j \in 1..Len(q) :
          i < j /\ IsProtocol(q[i]) /\ IsProtocol(q[j]) => Key(q[i]) < Key(q[j])
    /\ \A k \in (low + 1)..top :
          \E i \in 1..Len(q) : IsProtocol(q[i]) /\ Key(q[i]) = k

EndIds(q)  == {q[i].id : i \in {j \in 1..Len(q) : q[j].type = "end"}}
BegunIn(q) == {q[i].update : i \in {j \in 1..Len(q) : q[j].type = "begin"}}

LEMMA OrderedOther ==
    ASSUME NEW q \in Seq(Messages), NEW low \in Nat, NEW top \in Nat,
           Ordered(q, low, top), NEW m \in Messages, ~IsProtocol(m)
    PROVE  Ordered(Append(q, m), low, top)
  <1> PICK n : n = Len(q)
    OBVIOUS
  <1> PICK a : a = Append(q, m)
    OBVIOUS
  <1>1. /\ n \in Nat /\ Len(a) = n + 1 /\ a[n + 1] = m
        /\ \A i \in 1..n : a[i] = q[i]
    BY AppendProperties
  <1>2. \A i \in 1..Len(a) : IsProtocol(a[i]) => i \in 1..n
    BY <1>1
  <1>3. \A i \in 1..n : i \in 1..Len(a)
    BY <1>1
  <1>. QED  BY <1>1, <1>2, <1>3 DEF Ordered

LEMMA OrderedNext ==
    ASSUME NEW q \in Seq(Messages), NEW low \in Nat, NEW top \in Nat,
           Ordered(q, low, top), NEW m \in Messages, IsProtocol(m), Key(m) = top + 1
    PROVE  Ordered(Append(q, m), low, top + 1)
  <1> PICK n : n = Len(q)
    OBVIOUS
  <1> PICK a : a = Append(q, m)
    OBVIOUS
  <1>1. /\ n \in Nat /\ Len(a) = n + 1 /\ a[n + 1] = m
        /\ \A i \in 1..n : a[i] = q[i]
    BY AppendProperties
  <1>2. \A i \in 1..Len(a) : i \in 1..n \/ i = n + 1
    BY <1>1
  <1>3. /\ \A i \in 1..n : i \in 1..Len(a)
        /\ n + 1 \in 1..Len(a)
    BY <1>1
  <1>4. low <= top + 1
    BY DEF Ordered
  <1>5. \A i \in 1..Len(a) : IsProtocol(a[i]) => Key(a[i]) \in (low + 1)..(top + 1)
    BY <1>1, <1>2 DEF Ordered
  <1>6. ASSUME NEW i \in 1..Len(a), NEW j \in 1..Len(a), i < j,
               IsProtocol(a[i]), IsProtocol(a[j])
        PROVE  Key(a[i]) < Key(a[j])
    <2>1. i \in 1..n
      BY <1>1, <1>6
    <2>2. CASE j \in 1..n
      BY <1>1, <1>6, <2>1, <2>2 DEF Ordered
    <2>3. CASE j = n + 1
      <3>1. Key(a[i]) \in (low + 1)..top
        BY <1>1, <1>6, <2>1 DEF Ordered
      <3>. QED  BY <1>1, <2>3, <3>1
    <2>. QED  BY <1>2, <2>2, <2>3
  <1>7. ASSUME NEW k \in (low + 1)..(top + 1)
        PROVE  \E i \in 1..Len(a) : IsProtocol(a[i]) /\ Key(a[i]) = k
    <2>1. CASE k = top + 1
      BY <1>1, <1>3, <2>1
    <2>2. CASE k # top + 1
      <3>1. k \in (low + 1)..top
        BY <2>2
      <3>. QED  BY <1>1, <1>3, <3>1 DEF Ordered
    <2>. QED  BY <2>1, <2>2
  <1>. QED  BY <1>4, <1>5, <1>6, <1>7 DEF Ordered

LEMMA OrderedTail ==
    ASSUME NEW q \in Seq(Messages), NEW low \in Nat, NEW top \in Nat,
           Ordered(q, low, top), q # <<>>
    PROVE  IF IsProtocol(Head(q))
           THEN Key(Head(q)) = low + 1 /\ Ordered(Tail(q), low + 1, top)
           ELSE Ordered(Tail(q), low, top)
  <1> PICK n : n = Len(q)
    OBVIOUS
  <1> PICK t : t = Tail(q)
    OBVIOUS
  <1>1. /\ n \in Nat /\ n >= 1 /\ Len(t) = n - 1 /\ Head(q) = q[1]
        /\ \A i \in 1..Len(t) : t[i] = q[i + 1]
    BY HeadTailProperties, EmptySeq
  <1>2. /\ \A i \in 1..Len(t) : i + 1 \in 1..n
        /\ \A i \in 1..n : i = 1 \/ i - 1 \in 1..Len(t)
        /\ 1 \in 1..n
    BY <1>1
  <1>3. ASSUME NEW i \in 1..Len(t), NEW j \in 1..Len(t), i < j,
               IsProtocol(t[i]), IsProtocol(t[j])
        PROVE  Key(t[i]) < Key(t[j])
    BY <1>1, <1>2, <1>3 DEF Ordered
  <1>4. \A i \in 1..Len(t) : IsProtocol(t[i]) => Key(t[i]) \in (low + 1)..top
    BY <1>1, <1>2 DEF Ordered
  <1>5. ASSUME NEW k \in (low + 1)..top, ~(IsProtocol(q[1]) /\ Key(q[1]) = k)
        PROVE  \E i \in 1..Len(t) : IsProtocol(t[i]) /\ Key(t[i]) = k
    <2>1. PICK i \in 1..n : IsProtocol(q[i]) /\ Key(q[i]) = k
      BY DEF Ordered
    <2>2. i - 1 \in 1..Len(t) /\ t[i - 1] = q[i]
      BY <1>1, <1>2, <1>5, <2>1
    <2>. QED  BY <2>1, <2>2
  <1>6. CASE ~IsProtocol(q[1])
    BY <1>1, <1>3, <1>4, <1>5, <1>6 DEF Ordered
  <1>7. CASE IsProtocol(q[1])
    <2>1. Key(q[1]) \in (low + 1)..top
      BY <1>2, <1>7 DEF Ordered
    <2>2. Key(q[1]) = low + 1
      <3>1. low + 1 \in (low + 1)..top
        BY <2>1
      <3>2. PICK i \in 1..n : IsProtocol(q[i]) /\ Key(q[i]) = low + 1
        BY <3>1 DEF Ordered
      <3>3. CASE i = 1
        BY <3>2, <3>3
      <3>4. CASE i # 1
        <4>1. Key(q[1]) < low + 1
          BY <1>2, <1>7, <3>2, <3>4 DEF Ordered
        <4>. QED  BY <2>1, <4>1
      <3>. QED  BY <3>3, <3>4
    <2>3. \A i \in 1..Len(t) : IsProtocol(t[i]) => Key(t[i]) \in (low + 2)..top
      <3>1. ASSUME NEW i \in 1..Len(t), IsProtocol(t[i])
            PROVE  Key(t[i]) \in (low + 2)..top
        <4>1. Key(q[1]) < Key(t[i])
          BY <1>1, <1>2, <1>7, <3>1 DEF Ordered
        <4>. QED  BY <1>4, <2>2, <3>1, <4>1
      <3>. QED  BY <3>1
    <2>4. \A k \in (low + 2)..top :
             \E i \in 1..Len(t) : IsProtocol(t[i]) /\ Key(t[i]) = k
      BY <1>5, <2>2
    <2>5. (low + 1) + 1 = low + 2 /\ low + 1 <= top
      BY <2>1
    <2>. QED  BY <1>1, <1>3, <1>7, <2>2, <2>3, <2>4, <2>5 DEF Ordered
  <1>. QED  BY <1>6, <1>7

LEMMA OrderedParts ==
    ASSUME NEW q \in Seq(Messages), NEW low \in Nat, NEW top \in Nat,
           Ordered(q, low, top)
    PROVE  /\ \A e \in EndIds(q) : 2 * e + 1 \in (low + 1)..top
           /\ \A u \in BegunIn(q) : 2 * u.id \in (low + 1)..top
  BY DEF Ordered, EndIds, BegunIn, IsProtocol, Key

LEMMA AppendParts ==
    ASSUME NEW q \in Seq(Messages), NEW m \in Messages
    PROVE  /\ EndIds(Append(q, m)) = EndIds(q) \cup
                 (IF m.type = "end" THEN {m.id} ELSE {})
           /\ BegunIn(Append(q, m)) = BegunIn(q) \cup
                 (IF m.type = "begin" THEN {m.update} ELSE {})
  <1> PICK n : n = Len(q)
    OBVIOUS
  <1> PICK a : a = Append(q, m)
    OBVIOUS
  <1>1. /\ n \in Nat /\ Len(a) = n + 1 /\ a[n + 1] = m
        /\ \A i \in 1..n : a[i] = q[i]
        /\ 1..Len(a) = (1..n) \cup {n + 1}
    BY AppendProperties
  <1>2. EndIds(a) = EndIds(q) \cup (IF m.type = "end" THEN {m.id} ELSE {})
    BY <1>1 DEF EndIds
  <1>3. BegunIn(a) = BegunIn(q) \cup (IF m.type = "begin" THEN {m.update} ELSE {})
    BY <1>1 DEF BegunIn
  <1>. QED  BY <1>2, <1>3

LEMMA TailParts ==
    ASSUME NEW q \in Seq(Messages), q # <<>>
    PROVE  /\ EndIds(q) = EndIds(Tail(q)) \cup
                 (IF Head(q).type = "end" THEN {Head(q).id} ELSE {})
           /\ BegunIn(q) = BegunIn(Tail(q)) \cup
                 (IF Head(q).type = "begin" THEN {Head(q).update} ELSE {})
  <1> PICK n : n = Len(q)
    OBVIOUS
  <1> PICK t : t = Tail(q)
    OBVIOUS
  <1>1. /\ n \in Nat /\ n >= 1 /\ Len(t) = n - 1 /\ Head(q) = q[1]
        /\ \A i \in 1..Len(t) : t[i] = q[i + 1]
    BY HeadTailProperties, EmptySeq
  <1>2. /\ \A i \in 1..Len(t) : i + 1 \in 1..n
        /\ \A i \in 1..n : i = 1 \/ (i - 1 \in 1..Len(t) /\ t[i - 1] = q[i])
        /\ 1 \in 1..n
    BY <1>1
  <1>3. EndIds(q) = EndIds(t) \cup (IF q[1].type = "end" THEN {q[1].id} ELSE {})
    <2>1. ASSUME NEW x \in EndIds(q)
          PROVE  x \in EndIds(t) \/ (q[1].type = "end" /\ x = q[1].id)
      <3>1. PICK i \in 1..n : q[i].type = "end" /\ x = q[i].id
        BY DEF EndIds
      <3>2. CASE i = 1
        BY <3>1, <3>2
      <3>3. CASE i # 1
        <4>1. i - 1 \in 1..Len(t) /\ t[i - 1] = q[i]
          BY <1>2, <3>3
        <4>. QED  BY <3>1, <4>1 DEF EndIds
      <3>. QED  BY <3>2, <3>3
    <2>2. ASSUME NEW x \in EndIds(t) PROVE x \in EndIds(q)
      <3>1. PICK i \in 1..Len(t) : t[i].type = "end" /\ x = t[i].id
        BY DEF EndIds
      <3>2. i + 1 \in 1..n /\ q[i + 1] = t[i]
        BY <1>1, <1>2
      <3>. QED  BY <3>1, <3>2 DEF EndIds
    <2>3. q[1].type = "end" => q[1].id \in EndIds(q)
      BY <1>1, <1>2 DEF EndIds
    <2>. QED  BY <2>1, <2>2, <2>3
  <1>4. BegunIn(q) = BegunIn(t) \cup (IF q[1].type = "begin" THEN {q[1].update} ELSE {})
    <2>1. ASSUME NEW x \in BegunIn(q)
          PROVE  x \in BegunIn(t) \/ (q[1].type = "begin" /\ x = q[1].update)
      <3>1. PICK i \in 1..n : q[i].type = "begin" /\ x = q[i].update
        BY DEF BegunIn
      <3>2. CASE i = 1
        BY <3>1, <3>2
      <3>3. CASE i # 1
        <4>1. i - 1 \in 1..Len(t) /\ t[i - 1] = q[i]
          BY <1>2, <3>3
        <4>. QED  BY <3>1, <4>1 DEF BegunIn
      <3>. QED  BY <3>2, <3>3
    <2>2. ASSUME NEW x \in BegunIn(t) PROVE x \in BegunIn(q)
      <3>1. PICK i \in 1..Len(t) : t[i].type = "begin" /\ x = t[i].update
        BY DEF BegunIn
      <3>2. i + 1 \in 1..n /\ q[i + 1] = t[i]
        BY <1>1, <1>2
      <3>. QED  BY <3>1, <3>2 DEF BegunIn
    <2>3. q[1].type = "begin" => q[1].update \in BegunIn(q)
      BY <1>1, <1>2 DEF BegunIn
    <2>. QED  BY <2>1, <2>2, <2>3
  <1>. QED  BY <1>1, <1>3, <1>4

-----------------------------------------------------------------------------
(* The invariant *)

\* The key of the last message the canvas took, and of the last one sent.
CanvasKey == IF canvas.pending = None THEN 2 * canvas.received + 1
                                      ELSE 2 * canvas.pending.id
WorkerKey == IF phase = "sending" THEN 2 * id ELSE 2 * id + 1

\* The updates that began and were not ended yet, for the canvas.
OnItsWay == BegunIn(down) \cup ({canvas.pending} \ {None})

\* What the canvas holds is what the update is to be drawn on.
Fits(u) == u.from = From(canvas.base, u.to)

Busy == phase \in {"sending", "awaiting"}

WorkerOK ==
    /\ ~Busy => update = None
    /\ Busy => /\ update.id = id /\ committed < id
               /\ update.from = From(previous, update.to)
    /\ committed <= id
    /\ acks # <<>> => phase = "awaiting" /\ acks = <<id>>

\* The channel holds what the canvas has yet to hear of the worker's updates.
KeysOK ==
    /\ \E top \in Nat : /\ Ordered(down, CanvasKey, top)
                        /\ phase # "ended" => top = WorkerKey
    /\ canvas.pending # None => canvas.pending.id = canvas.received + 1

\* At most one update is sent and not drawn, and it can be drawn.
DrawOK ==
    /\ canvas.lastId = 0 => canvas.base = None
    /\ canvas.base # Corrupt
    /\ \A d, e \in EndIds(down) : d = e
    /\ \A e \in EndIds(down) : /\ canvas.queue = <<>>
                               /\ \A u \in OnItsWay : u.id = e => Fits(u)
    /\ canvas.queue = <<>> \/ \E u \in Updates : canvas.queue = <<u>>
    /\ \A u \in Updates : canvas.queue = <<u>> => Fits(u) /\ u.id # 0

AtRest == canvas.lastId = committed /\ canvas.base = previous

\* An update that was sent whole is on the channel, or waits to be drawn, or is drawn.
AgreeOK ==
    /\ phase \in {"tick", "look", "sending"} =>
          EndIds(down) = {} /\ canvas.queue = <<>> /\ AtRest
    /\ phase = "awaiting" =>
          \/ /\ EndIds(down) = {id} /\ canvas.queue = <<>> /\ acks = <<>> /\ AtRest
          \/ /\ EndIds(down) = {} /\ canvas.queue = <<update>> /\ acks = <<>> /\ AtRest
          \/ /\ EndIds(down) = {} /\ canvas.queue = <<>> /\ acks = <<id>>
             /\ canvas.lastId = id /\ canvas.base = update.to
    /\ Busy => \A u \in OnItsWay : u.id = id => u = update

ProtocolInv == WorkerOK /\ (~canvas.closed => KeysOK /\ DrawOK /\ AgreeOK)

\* What the invariant is about, of the canvas and of the worker.
Drawing == <<canvas.pending, canvas.queue, canvas.received, canvas.lastId, canvas.base,
             canvas.closed>>
Sending == <<phase, id, committed, previous, update, acks>>

LEMMA ProtocolTypes ==
    ASSUME Types
    PROVE  /\ CanvasKey \in Nat /\ WorkerKey \in Nat
           /\ down \in Seq(Messages) /\ acks \in Seq(Nat)
           /\ id \in Nat /\ committed \in Nat
           /\ canvas.pending \in Updates \cup {None} /\ canvas.queue \in Seq(Updates)
           /\ canvas.received \in Nat /\ canvas.lastId \in Nat
           /\ canvas.base \in Desktops \cup {None, Corrupt}
  BY DEF Types, ChannelType, BaseType, Canvas, CanvasKey, WorkerKey, Updates

LEMMA ProtocolInit == Init => ProtocolInv
  <1> SUFFICES ASSUME Init PROVE ProtocolInv
    OBVIOUS
  <1>1. /\ canvas.pending = None /\ canvas.queue = <<>> /\ canvas.received = 0
        /\ canvas.lastId = 0 /\ canvas.base = None
    BY DEF Init, NewCanvas
  <1>2. Len(down) = 0 /\ EndIds(down) = {} /\ BegunIn(down) = {}
    BY DEF Init, EndIds, BegunIn
  <1>3. Ordered(down, 1, 1)
    BY <1>2 DEF Ordered
  <1>4. CanvasKey = 1 /\ WorkerKey = 1
    BY <1>1 DEF CanvasKey, WorkerKey, Init
  <1>5. None # Corrupt
    BY DesktopsAssumption DEF DesktopsAssumption
  <1>6. KeysOK
    BY <1>1, <1>3, <1>4 DEF KeysOK
  <1>7. DrawOK
    BY <1>1, <1>2, <1>5 DEF DrawOK
  <1>8. AgreeOK
    BY <1>1, <1>2 DEF AgreeOK, AtRest, Init, Busy
  <1>9. WorkerOK
    BY DEF WorkerOK, Init, Busy
  <1>. QED  BY <1>6, <1>7, <1>8, <1>9 DEF ProtocolInv

-----------------------------------------------------------------------------
(* Steps *)

LEMMA QuietKeeps ==
    ASSUME ProtocolInv, UNCHANGED <<Drawing, Sending, down>>
    PROVE  ProtocolInv'
  <1>1. UNCHANGED <<CanvasKey, WorkerKey, OnItsWay, AtRest, Busy, EndIds(down)>>
    BY DEF CanvasKey, WorkerKey, OnItsWay, AtRest, Busy, Drawing, Sending
  <1>2. \A u : Fits(u)' = Fits(u)
    BY DEF Fits, Drawing
  <1>3. WorkerOK'
    BY <1>1 DEF ProtocolInv, WorkerOK, Sending
  <1>4. CASE ~canvas.closed
    <2>1. KeysOK /\ DrawOK /\ AgreeOK
      BY <1>4 DEF ProtocolInv
    <2>2. KeysOK'
      BY <1>1, <2>1 DEF KeysOK, Drawing, Sending
    <2>3. DrawOK'
      BY <1>1, <1>2, <2>1 DEF DrawOK, Drawing
    <2>4. AgreeOK'
      BY <1>1, <2>1 DEF AgreeOK, Drawing, Sending
    <2>. QED  BY <1>3, <2>2, <2>3, <2>4 DEF ProtocolInv
  <1>5. CASE canvas.closed
    BY <1>3, <1>5 DEF ProtocolInv, Drawing
  <1>. QED  BY <1>4, <1>5

\* A canvas that ended is no longer spoken of.
LEMMA ClosedKeeps ==
    ASSUME ProtocolInv, canvas'.closed, UNCHANGED Sending
    PROVE  ProtocolInv'
  BY DEF ProtocolInv, WorkerOK, Sending, Busy

LEMMA EndKeeps ==
    ASSUME Types, ProtocolInv, End
    PROVE  ProtocolInv'
  <1>1. /\ phase' = "ended" /\ update' = None /\ id' = 0 /\ committed' = 0 /\ acks' = <<>>
        /\ UNCHANGED <<down, canvas>>
    BY DEF End
  <1>2. WorkerOK'
    BY <1>1 DEF WorkerOK, Busy
  <1>3. CASE ~canvas.closed
    <2>1. KeysOK'
      BY <1>1, <1>3 DEF ProtocolInv, KeysOK, CanvasKey
    <2>2. DrawOK'
      BY <1>1, <1>3 DEF ProtocolInv, DrawOK, OnItsWay, Fits
    <2>3. AgreeOK'
      BY <1>1 DEF AgreeOK, Busy
    <2>. QED  BY <1>2, <2>1, <2>2, <2>3 DEF ProtocolInv
  <1>. QED  BY <1>1, <1>2, <1>3 DEF ProtocolInv

\* Where a step is not about updates, or forgets some that were cancelled, canvas and
\* worker still agree.
LEMMA PartsKeep ==
    ASSUME DrawOK, AgreeOK,
           EndIds(down)' = EndIds(down), OnItsWay' \subseteq OnItsWay,
           UNCHANGED <<canvas.queue, canvas.lastId, canvas.base, Sending>>
    PROVE  DrawOK' /\ AgreeOK'
  <1>1. \A u : Fits(u)' = Fits(u)
    BY DEF Fits
  <1>2. DrawOK'
    BY <1>1 DEF DrawOK
  <1>3. AgreeOK'
    BY DEF AgreeOK, AtRest, Busy, Sending
  <1>. QED  BY <1>2, <1>3

LEMMA Parity == ASSUME NEW a \in Nat, NEW b \in Nat PROVE 2 * a # (2 * b) + 1
  OBVIOUS

LEMMA ReceiveKeeps ==
    ASSUME Types, ProtocolInv, Receive
    PROVE  ProtocolInv' /\ ~canvas'.closed
  <1>1. /\ down # <<>> /\ ~canvas.closed /\ canvas \in Canvas
        /\ UNCHANGED Sending /\ down' = Tail(down)
    BY DEF Receive, worker, baseline, Sending, Types
  <1>2. KeysOK /\ DrawOK /\ AgreeOK /\ WorkerOK
    BY <1>1 DEF ProtocolInv
  <1>3. WorkerOK'
    BY <1>1, <1>2 DEF WorkerOK, Busy, Sending
  <1>4. /\ CanvasKey \in Nat /\ down \in Seq(Messages) /\ Tail(down) \in Seq(Messages)
        /\ canvas.pending \in Updates \cup {None} /\ canvas.received \in Nat
    BY <1>1, ProtocolTypes, HeadTail
  <1> PICK top \in Nat : /\ Ordered(down, CanvasKey, top)
                         /\ phase # "ended" => top = WorkerKey
    BY <1>2 DEF KeysOK
  <1> PICK m \in Messages : m = Head(down)
    BY <1>1, <1>4, HeadTail
  <1>5. IF IsProtocol(m)
        THEN Key(m) = CanvasKey + 1 /\ Ordered(down', CanvasKey + 1, top)
        ELSE Ordered(down', CanvasKey, top)
    BY <1>1, <1>4, OrderedTail
  <1>6. /\ EndIds(down) = EndIds(down)' \cup (IF m.type = "end" THEN {m.id} ELSE {})
        /\ BegunIn(down) = BegunIn(down)' \cup
              (IF m.type = "begin" THEN {m.update} ELSE {})
    BY <1>1, <1>4, TailParts
  <1>7. WorkerKey' = WorkerKey
    BY <1>1 DEF WorkerKey, Sending
  <1>8. CASE m.type \in {"show", "invalidate"}
    <2>1. canvas' = OnShow(canvas, m) \/ canvas' = OnInvalidate(canvas)
      BY <1>8 DEF Receive
    <2>2. UNCHANGED Drawing
      BY <1>1, <2>1 DEF OnShow, OnInvalidate, Drawing, Canvas
    <2>3. CanvasKey' = CanvasKey /\ Ordered(down', CanvasKey, top)
      BY <1>5, <1>8, <2>2 DEF CanvasKey, Drawing, IsProtocol
    <2>4. KeysOK'
      BY <1>1, <1>2, <1>7, <2>2, <2>3 DEF KeysOK, Drawing, Sending
    <2>5. EndIds(down)' = EndIds(down) /\ OnItsWay' \subseteq OnItsWay
      BY <1>6, <1>8, <2>2 DEF OnItsWay, Drawing
    <2>6. DrawOK' /\ AgreeOK'
      BY <1>1, <1>2, <2>2, <2>5, PartsKeep DEF Drawing
    <2>. QED  BY <1>1, <1>3, <2>2, <2>4, <2>6 DEF ProtocolInv, Drawing
  <1>9. CASE m.type = "begin"
    <2>1. m.update \in Updates /\ m.update.id \in Nat /\ m.update # None
      BY <1>9, NoUpdateAssumption DEF Messages, Updates, NoUpdateAssumption
    <2>2. 2 * m.update.id = CanvasKey + 1
      BY <1>5, <1>9 DEF Key, IsProtocol
    <2>3. canvas.pending = None /\ m.update.id = canvas.received + 1
      <3>1. canvas.pending # None => canvas.pending.id \in Nat
        BY <1>4 DEF Updates
      <3>2. canvas.pending = None
        BY <2>1, <2>2, <3>1, Parity DEF CanvasKey
      <3>3. 2 * m.update.id = (2 * canvas.received + 1) + 1
        BY <2>2, <3>2 DEF CanvasKey
      <3>4. \A i, r \in Nat : 2 * i = (2 * r + 1) + 1 => i = r + 1
        OBVIOUS
      <3>5. m.update.id \in Nat /\ canvas.received \in Nat
        BY <1>4, <2>1
      <3>6. m.update.id = canvas.received + 1
        BY <3>3, <3>4, <3>5, Zenon
      <3>. QED  BY <3>2, <3>6
    <2>4. Len(canvas.queue) < 8
      <3>1. Len(canvas.queue) = 0 \/ \E u \in Updates : canvas.queue = <<u>>
        BY <1>2 DEF DrawOK
      <3>2. CASE Len(canvas.queue) = 0
        BY ONLY <3>2
      <3>3. ASSUME NEW u, canvas.queue = <<u>> PROVE Len(canvas.queue) < 8
        <4>1. Len(<<u>>) < 8
          OBVIOUS
        <4>. QED  BY <3>3, <4>1, Zenon
      <3>. QED  BY <3>1, <3>2, <3>3, Zenon
    <2>5. canvas' = [canvas EXCEPT !.pending = m.update]
      BY <1>9, <2>3, <2>4 DEF Receive, OnBegin
    <2>6. /\ canvas'.pending = m.update /\ canvas'.received = canvas.received
          /\ canvas'.closed = canvas.closed
          /\ UNCHANGED <<canvas.queue, canvas.lastId, canvas.base>>
      BY <1>1, <2>5 DEF Canvas
    <2>7. CanvasKey' = CanvasKey + 1
      BY <2>1, <2>2, <2>6 DEF CanvasKey
    <2>8. KeysOK'
      BY <1>1, <1>5, <1>7, <1>9, <2>3, <2>6, <2>7 DEF KeysOK, IsProtocol, Sending
    <2>9. EndIds(down)' = EndIds(down) /\ OnItsWay' \subseteq OnItsWay
      BY <1>6, <1>9, <2>6 DEF OnItsWay
    <2>10. DrawOK' /\ AgreeOK'
      BY <1>1, <1>2, <2>6, <2>9, PartsKeep
    <2>. QED  BY <1>1, <1>3, <2>6, <2>8, <2>10 DEF ProtocolInv
  <1>10. ASSUME m.type \in {"end", "cancel"}
         PROVE  /\ m.id \in Nat /\ m.id = canvas.received + 1
                /\ canvas.pending \in Updates /\ canvas.pending # None
                /\ canvas.pending.id = m.id
                /\ 2 * m.id + 1 = CanvasKey + 1
    <2>1. m.id \in Nat /\ m.type # "begin"
      BY <1>10 DEF Messages
    <2>2. 2 * m.id + 1 = CanvasKey + 1
      BY <1>5, <1>10, <2>1 DEF Key, IsProtocol
    <2>3. canvas.pending # None
      <3> SUFFICES ASSUME canvas.pending = None PROVE FALSE
        OBVIOUS
      <3>1. 2 * m.id = 2 * canvas.received + 1
        BY ONLY <1>4, <2>1, <2>2, canvas.pending = None DEF CanvasKey
      <3>. QED  BY ONLY <1>4, <2>1, <3>1, Parity
    <2>4. canvas.pending \in Updates /\ canvas.pending.id \in Nat
      BY <1>4, <2>3 DEF Updates
    <2>5. canvas.pending.id = m.id
      BY <2>1, <2>2, <2>3, <2>4 DEF CanvasKey
    <2>. QED  BY <1>2, <2>1, <2>2, <2>3, <2>4, <2>5 DEF KeysOK
  <1>11. CASE m.type = "cancel"
    <2>1. canvas' = [canvas EXCEPT !.pending = None, !.received = m.id]
      BY <1>10, <1>11 DEF Receive, OnCancel
    <2>2. /\ canvas'.pending = None /\ canvas'.received = m.id
          /\ canvas'.closed = canvas.closed
          /\ UNCHANGED <<canvas.queue, canvas.lastId, canvas.base>>
      BY <1>1, <2>1 DEF Canvas
    <2>3. CanvasKey' = CanvasKey + 1
      BY <1>10, <1>11, <2>2 DEF CanvasKey
    <2>4. KeysOK'
      BY <1>1, <1>5, <1>7, <1>11, <2>2, <2>3 DEF KeysOK, IsProtocol, Sending
    <2>5. EndIds(down)' = EndIds(down) /\ OnItsWay' \subseteq OnItsWay
      BY <1>6, <1>11, <2>2 DEF OnItsWay
    <2>6. DrawOK' /\ AgreeOK'
      BY <1>1, <1>2, <2>2, <2>5, PartsKeep
    <2>. QED  BY <1>1, <1>3, <2>2, <2>4, <2>6 DEF ProtocolInv
  <1>12. CASE m.type = "end"
    <2> PICK p \in Updates : p = canvas.pending
      BY <1>10, <1>12
    <2>1. canvas' = [canvas EXCEPT !.pending = None, !.received = m.id,
                                   !.queue = Append(canvas.queue, p)]
      BY <1>1, <1>10, <1>12 DEF Receive, OnEnd, Canvas
    <2>2. m.id \in EndIds(down) /\ p \in OnItsWay /\ p.id = m.id /\ p.id # 0
      <3>1. m.id \in EndIds(down) /\ p.id = m.id
        BY <1>6, <1>10, <1>12
      <3>2. p \in OnItsWay
        BY <1>10, <1>12 DEF OnItsWay
      <3>3. m.id # 0
        <4>1. m.id = canvas.received + 1 /\ canvas.received \in Nat
          BY <1>4, <1>10, <1>12
        <4>. QED  BY <4>1
      <3>. QED  BY <3>1, <3>2, <3>3
    <2>3. canvas.queue = <<>> /\ Fits(p)
      BY <1>2, <2>2 DEF DrawOK
    <2>4. /\ canvas'.pending = None /\ canvas'.received = m.id
          /\ canvas'.closed = canvas.closed /\ canvas'.queue = <<p>>
          /\ UNCHANGED <<canvas.lastId, canvas.base>>
      BY <1>1, <2>1, <2>3 DEF Canvas
    <2>5. CanvasKey' = CanvasKey + 1
      BY <1>10, <1>12, <2>4 DEF CanvasKey
    <2>6. KeysOK'
      BY <1>1, <1>5, <1>7, <1>12, <2>4, <2>5 DEF KeysOK, IsProtocol, Sending
    <2>7. EndIds(down)' = {} /\ OnItsWay' \subseteq OnItsWay
      <3>1. \A e \in EndIds(down)' : e = m.id
        BY <1>2, <1>6, <2>2 DEF DrawOK
      <3>2. \A e \in EndIds(down)' : 2 * e + 1 \in ((CanvasKey + 1) + 1)..top
        <4> PICK t : t = Tail(down)
          OBVIOUS
        <4>1. t \in Seq(Messages) /\ Ordered(t, CanvasKey + 1, top)
          BY <1>1, <1>4, <1>5, <1>12 DEF IsProtocol
        <4>2. \A e \in EndIds(t) : 2 * e + 1 \in ((CanvasKey + 1) + 1)..top
          <5> PICK low \in Nat : low = CanvasKey + 1
            BY <1>4
          <5>1. \A e \in EndIds(t) : 2 * e + 1 \in (low + 1)..top
            BY <4>1, OrderedParts
          <5>. QED  BY <5>1
        <4>. QED  BY <1>1, <4>2 DEF EndIds
      <3>3. 2 * m.id + 1 = CanvasKey + 1
        BY <1>10, <1>12
      <3>4. EndIds(down)' = {}
        BY <1>4, <3>1, <3>2, <3>3
      <3>. QED  BY <1>6, <2>4, <3>4 DEF OnItsWay
    <2>8. \A u : Fits(u)' = Fits(u)
      BY <2>4 DEF Fits
    <2>9. DrawOK'
      <3>1. \A u : <<u>> = <<p>> => u = p
        OBVIOUS
      <3>. QED  BY <1>2, <2>2, <2>3, <2>4, <2>7, <2>8, <3>1 DEF DrawOK
    <2>10. phase = "awaiting" => m.id = id /\ p = update /\ acks = <<>> /\ AtRest
      <3>1. phase = "awaiting" => EndIds(down) = {id} /\ acks = <<>> /\ AtRest
        BY <1>2, <2>2 DEF AgreeOK
      <3>2. phase = "awaiting" => m.id = id
        BY <2>2, <3>1
      <3>. QED  BY <1>2, <2>2, <3>1, <3>2 DEF AgreeOK, Busy
    <2>11. AgreeOK'
      <3>1. phase \notin {"tick", "look", "sending"}
        BY <1>2, <2>2 DEF AgreeOK
      <3>. QED  BY <1>1, <1>2, <2>4, <2>7, <2>10, <3>1 DEF AgreeOK, AtRest, Busy, Sending
    <2>. QED  BY <1>1, <1>3, <2>4, <2>6, <2>9, <2>11 DEF ProtocolInv
  <1>13. m.type \in {"show", "invalidate", "cancel", "begin", "end"}
    BY DEF Messages
  <1>. QED  BY <1>8, <1>9, <1>11, <1>12, <1>13

LEMMA CommitKeeps ==
    ASSUME Types, ProtocolInv, Commit
    PROVE  ProtocolInv' /\ ~canvas'.closed
  <1>1. /\ canvas.queue # <<>> /\ ~canvas.closed /\ canvas \in Canvas
        /\ UNCHANGED <<down, phase, id, committed, previous, update>>
    BY DEF Commit, worker, baseline, Types
  <1>2. KeysOK /\ DrawOK /\ AgreeOK /\ WorkerOK
    BY <1>1 DEF ProtocolInv
  <1> PICK u \in Updates : canvas.queue = <<u>>
    BY <1>1, <1>2 DEF DrawOK
  <1>3. Head(canvas.queue) = u /\ Tail(canvas.queue) = <<>>
    OBVIOUS
  <1>4. u.from = From(canvas.base, u.to) /\ u.id # 0 /\ u.to \in Desktops
    BY <1>2 DEF DrawOK, Fits, Updates
  <1>5. (canvas.lastId = 0 \/ ~SameSize(canvas.base, u.to)) => u.from = None
    BY <1>2, <1>4 DEF DrawOK, From
  <1>6. Drawn(canvas, u) = u.to
    BY <1>4 DEF Drawn, From
  <1>7. /\ canvas' = [canvas EXCEPT !.queue = <<>>, !.lastId = u.id, !.base = u.to]
        /\ acks' = IF phase = "ended" THEN acks ELSE Append(acks, u.id)
    BY <1>3, <1>5, <1>6 DEF Commit
  <1>8. /\ canvas'.queue = <<>> /\ canvas'.lastId = u.id /\ canvas'.base = u.to
        /\ UNCHANGED <<canvas.pending, canvas.received, canvas.closed>>
    BY <1>1, <1>7 DEF Canvas
  <1>9. EndIds(down) = {} /\ EndIds(down)' = {}
    BY <1>1, <1>2 DEF DrawOK
  <1>10. phase \in {"awaiting", "ended"}
    BY <1>1, <1>2 DEF AgreeOK, Types, CycleType, Phases
  <1>11. phase = "awaiting" => u = update /\ acks = <<>> /\ u.id = id
    <2>1. phase = "awaiting" => <<u>> = <<update>> /\ acks = <<>>
      BY <1>1, <1>2 DEF AgreeOK
    <2>2. <<u>> = <<update>> => u = update
      OBVIOUS
    <2>. QED  BY <1>2, <2>1, <2>2 DEF WorkerOK, Busy
  <1>12. phase = "awaiting" => acks' = <<id>>
    BY <1>7, <1>11
  <1>13. WorkerOK'
    BY <1>1, <1>2, <1>7, <1>10, <1>12 DEF WorkerOK, Busy
  <1>14. KeysOK'
    BY <1>1, <1>2, <1>8 DEF KeysOK, CanvasKey, WorkerKey
  <1>15. DrawOK'
    <2>1. u.to # Corrupt
      BY <1>4, DesktopsAssumption DEF DesktopsAssumption
    <2>. QED  BY <1>4, <1>8, <1>9, <2>1 DEF DrawOK
  <1>16. AgreeOK'
    <2>1. OnItsWay' = OnItsWay
      BY <1>1, <1>8 DEF OnItsWay
    <2>. QED  BY <1>1, <1>2, <1>8, <1>9, <1>10, <1>11, <1>12, <2>1 DEF AgreeOK, Busy
  <1>. QED  BY <1>1, <1>8, <1>13, <1>14, <1>15, <1>16 DEF ProtocolInv

\* A message that is not about updates is added.
LEMMA OtherMessage ==
    ASSUME Types, KeysOK, NEW m \in Messages, ~IsProtocol(m)
    PROVE  LET q == Append(down, m) IN
           /\ q \in Seq(Messages) /\ EndIds(q) = EndIds(down) /\ BegunIn(q) = BegunIn(down)
           /\ \E top \in Nat : /\ Ordered(q, CanvasKey, top)
                               /\ phase # "ended" => top = WorkerKey
  <1>1. PICK top \in Nat : /\ Ordered(down, CanvasKey, top)
                           /\ phase # "ended" => top = WorkerKey
    BY DEF KeysOK
  <1>2. down \in Seq(Messages) /\ CanvasKey \in Nat
    BY ProtocolTypes
  <1>3. Ordered(Append(down, m), CanvasKey, top)
    BY <1>1, <1>2, OrderedOther
  <1>4. Append(down, m) \in Seq(Messages)
    BY <1>2, AppendProperties
  <1>5. m.type \notin {"begin", "end"}
    BY DEF IsProtocol
  <1>6. EndIds(Append(down, m)) = EndIds(down) /\ BegunIn(Append(down, m)) = BegunIn(down)
    BY <1>2, <1>5, AppendParts
  <1>. QED  BY <1>1, <1>3, <1>4, <1>6

LEMMA SampleKeeps ==
    ASSUME Types, ProtocolInv, Sampling
    PROVE  ProtocolInv'
  <1>1. /\ phase = "tick" /\ phase' \in {"tick", "look"} /\ ~canvas.closed
        /\ UNCHANGED <<update, id, committed, previous, acks, canvas>>
        /\ down' = down \/ down' = Append(down, [type |-> "invalidate"])
    BY DEF Sampling, Sample, baseline
  <1>2. KeysOK /\ DrawOK /\ AgreeOK /\ WorkerOK
    BY <1>1 DEF ProtocolInv
  <1>3. /\ EndIds(down)' = EndIds(down) /\ BegunIn(down)' = BegunIn(down)
        /\ \E top \in Nat : /\ Ordered(down', CanvasKey, top)
                            /\ phase # "ended" => top = WorkerKey
    <2>1. CASE down' = down
      BY <1>2, <2>1 DEF KeysOK
    <2>2. CASE down' = Append(down, [type |-> "invalidate"])
      <3> PICK m \in Messages : m = [type |-> "invalidate"]
        BY DEF Messages
      <3>1. ~IsProtocol(m)
        BY DEF IsProtocol
      <3> PICK q : q = Append(down, m)
        OBVIOUS
      <3>2. /\ EndIds(q) = EndIds(down) /\ BegunIn(q) = BegunIn(down)
            /\ \E top \in Nat : /\ Ordered(q, CanvasKey, top)
                                /\ phase # "ended" => top = WorkerKey
        BY <1>2, <3>1, OtherMessage
      <3>. QED  BY <2>2, <3>2 DEF EndIds, BegunIn
    <2>. QED  BY <1>1, <2>1, <2>2
  <1>4. WorkerOK'
    BY <1>1, <1>2 DEF WorkerOK, Busy
  <1>5. CanvasKey' = CanvasKey /\ WorkerKey' = WorkerKey /\ phase # "ended"
    BY <1>1 DEF CanvasKey, WorkerKey
  <1>6. KeysOK'
    BY <1>1, <1>2, <1>3, <1>5 DEF KeysOK
  <1>7. OnItsWay' = OnItsWay /\ \A u : Fits(u)' = Fits(u)
    BY <1>1, <1>3 DEF OnItsWay, Fits
  <1>8. DrawOK'
    BY <1>1, <1>2, <1>3, <1>7 DEF DrawOK
  <1>9. AgreeOK'
    BY <1>1, <1>2, <1>3 DEF AgreeOK, AtRest, Busy
  <1>. QED  BY <1>4, <1>6, <1>8, <1>9 DEF ProtocolInv

LEMMA SendDoneKeeps ==
    ASSUME Types, ProtocolInv, SendDone
    PROVE  ProtocolInv'
  <1> PICK n \in Nat : n = id
    BY ProtocolTypes
  <1> PICK m \in Messages : m = [type |-> "end", id |-> n]
    BY DEF Messages
  <1>1. /\ phase = "sending" /\ phase' = "awaiting" /\ ~canvas.closed
        /\ UNCHANGED <<update, id, committed, previous, acks, canvas>>
        /\ down' = Append(down, m)
    BY DEF SendDone, baseline
  <1>2. KeysOK /\ DrawOK /\ AgreeOK /\ WorkerOK
    BY <1>1 DEF ProtocolInv
  <1>3. down \in Seq(Messages) /\ CanvasKey \in Nat /\ WorkerKey = 2 * n
        /\ WorkerKey' = 2 * n + 1 /\ CanvasKey' = CanvasKey
    BY <1>1, ProtocolTypes DEF WorkerKey, CanvasKey
  <1>4. acks = <<>>
    BY <1>1, <1>2 DEF WorkerOK
  <1>5. EndIds(down) = {} /\ canvas.queue = <<>> /\ AtRest
    BY <1>1, <1>2 DEF AgreeOK
  <1>6. EndIds(down)' = {n} /\ BegunIn(down)' = BegunIn(down)
    <2> PICK q : q = Append(down, m)
      OBVIOUS
    <2>1. m.type = "end" /\ m.id = n
      OBVIOUS
    <2>2. /\ EndIds(q) = EndIds(down) \cup (IF m.type = "end" THEN {m.id} ELSE {})
          /\ BegunIn(q) = BegunIn(down) \cup
                (IF m.type = "begin" THEN {m.update} ELSE {})
      BY <1>3, AppendParts
    <2>3. EndIds(q) = EndIds(down) \cup {m.id}
      BY <2>1, <2>2
    <2>4. BegunIn(q) = BegunIn(down) \cup {}
      BY <2>1, <2>2
    <2>5. EndIds(q) = {n} /\ BegunIn(q) = BegunIn(down)
      BY <1>5, <2>1, <2>3, <2>4
    <2>6. q = down'
      BY <1>1
    <2>7. EndIds(q) = EndIds(down)' /\ BegunIn(q) = BegunIn(down)'
      BY ONLY <2>6 DEF EndIds, BegunIn
    <2>. QED  BY <2>5, <2>7
  <1>7. OnItsWay' = OnItsWay /\ \A u : Fits(u)' = Fits(u)
    BY <1>1, <1>6 DEF OnItsWay, Fits
  <1>8. WorkerOK'
    BY <1>1, <1>2, <1>4 DEF WorkerOK, Busy
  <1>9. KeysOK'
    <2>1. Ordered(down, CanvasKey, 2 * n)
      BY <1>1, <1>2, <1>3 DEF KeysOK
    <2>2. IsProtocol(m) /\ Key(m) = 2 * n + 1
      BY DEF IsProtocol, Key
    <2>3. Ordered(Append(down, m), CanvasKey, 2 * n + 1)
      BY <1>3, <2>1, <2>2, OrderedNext
    <2>. QED  BY <1>1, <1>2, <1>3, <2>3 DEF KeysOK
  <1>10. \A u \in OnItsWay : u.id = n => Fits(u)
    <2>1. \A u \in OnItsWay : u.id = n => u = update
      BY <1>1, <1>2 DEF AgreeOK, Busy
    <2>2. Fits(update)
      BY <1>1, <1>2, <1>5 DEF WorkerOK, Busy, Fits, AtRest
    <2>. QED  BY <2>1, <2>2
  <1>11. DrawOK'
    BY <1>1, <1>2, <1>5, <1>6, <1>7, <1>10 DEF DrawOK
  <1>12. AgreeOK'
    BY <1>1, <1>2, <1>4, <1>5, <1>6, <1>7 DEF AgreeOK, AtRest, Busy
  <1>. QED  BY <1>8, <1>9, <1>11, <1>12 DEF ProtocolInv

LEMMA CancelKeeps ==
    ASSUME Types, ProtocolInv, Cancel
    PROVE  ProtocolInv'
  <1> PICK n \in Nat : n = id
    BY ProtocolTypes
  <1> PICK m \in Messages : m = [type |-> "cancel", id |-> n]
    BY DEF Messages
  <1>1. /\ phase = "sending" /\ phase' = "tick" /\ ~canvas.closed /\ update' = None
        /\ UNCHANGED <<id, committed, previous, acks, canvas>>
        /\ down' = Append(down, m)
    BY DEF Cancel, baseline
  <1>2. KeysOK /\ DrawOK /\ AgreeOK /\ WorkerOK
    BY <1>1 DEF ProtocolInv
  <1>3. down \in Seq(Messages) /\ CanvasKey \in Nat /\ WorkerKey = 2 * n
        /\ WorkerKey' = 2 * n + 1 /\ CanvasKey' = CanvasKey
    BY <1>1, ProtocolTypes DEF WorkerKey, CanvasKey
  <1>4. EndIds(down) = {} /\ canvas.queue = <<>> /\ AtRest
    BY <1>1, <1>2 DEF AgreeOK
  <1>5. EndIds(down)' = {} /\ BegunIn(down)' = BegunIn(down)
    <2> PICK q : q = Append(down, m)
      OBVIOUS
    <2>1. m.type = "cancel"
      OBVIOUS
    <2>2. /\ EndIds(q) = EndIds(down) \cup (IF m.type = "end" THEN {m.id} ELSE {})
          /\ BegunIn(q) = BegunIn(down) \cup
                (IF m.type = "begin" THEN {m.update} ELSE {})
      BY <1>3, AppendParts
    <2>3. EndIds(q) = EndIds(down) /\ BegunIn(q) = BegunIn(down)
      <3>1. m.type # "end" /\ m.type # "begin"
        BY <2>1
      <3>2. \A S : S \cup {} = S
        OBVIOUS
      <3>3. EndIds(q) = EndIds(down) \cup {} /\ BegunIn(q) = BegunIn(down) \cup {}
        BY <2>2, <3>1
      <3>. QED  BY <3>2, <3>3
    <2>4. EndIds(down)' = EndIds(q) /\ BegunIn(down)' = BegunIn(q)
      BY <1>1 DEF EndIds, BegunIn
    <2>. QED  BY <1>4, <2>3, <2>4
  <1>6. WorkerOK'
    BY <1>1, <1>2, ProtocolTypes DEF WorkerOK, Busy
  <1>7. KeysOK'
    <2>1. Ordered(down, CanvasKey, 2 * n)
      BY <1>1, <1>2, <1>3 DEF KeysOK
    <2>2. IsProtocol(m) /\ Key(m) = 2 * n + 1
      BY DEF IsProtocol, Key
    <2>3. Ordered(Append(down, m), CanvasKey, 2 * n + 1)
      BY <1>3, <2>1, <2>2, OrderedNext
    <2>. QED  BY <1>1, <1>2, <1>3, <2>3 DEF KeysOK
  <1>8. DrawOK'
    BY <1>1, <1>2, <1>4, <1>5 DEF DrawOK
  <1>9. AgreeOK'
    BY <1>1, <1>4, <1>5 DEF AgreeOK, AtRest, Busy
  <1>. QED  BY <1>6, <1>7, <1>8, <1>9 DEF ProtocolInv

LEMMA AckKeeps ==
    ASSUME Types, ProtocolInv, Ack
    PROVE  ProtocolInv'
  <1>1. phase = "awaiting" /\ acks # <<>> /\ WorkerOK
    BY DEF Ack, ProtocolInv
  <1>2. acks = <<id>> /\ Head(acks) = id /\ Tail(acks) = <<>>
    <2>1. acks = <<id>>
      BY <1>1 DEF WorkerOK
    <2>2. \A x : Head(<<x>>) = x /\ Tail(<<x>>) = <<>>
      OBVIOUS
    <2>. QED  BY <2>1, <2>2
  <1>3. /\ phase' = "tick" /\ update' = None /\ previous' = update.to /\ committed' = id
        /\ acks' = <<>> /\ UNCHANGED <<id, down, canvas>>
    BY <1>1, <1>2 DEF Ack
  <1>4. WorkerOK'
    BY <1>3, ProtocolTypes DEF WorkerOK, Busy
  <1>5. CASE ~canvas.closed
    <2>1. KeysOK /\ DrawOK /\ AgreeOK
      BY <1>5 DEF ProtocolInv
    <2>2. /\ EndIds(down) = {} /\ canvas.queue = <<>>
          /\ canvas.lastId = id /\ canvas.base = update.to
      BY <1>1, <2>1 DEF AgreeOK
    <2>3. KeysOK'
      BY <1>1, <1>3, <2>1 DEF KeysOK, CanvasKey, WorkerKey
    <2>4. DrawOK'
      BY <1>3, <2>1 DEF DrawOK, OnItsWay, Fits
    <2>5. AgreeOK'
      BY <1>3, <2>2 DEF AgreeOK, AtRest, Busy
    <2>. QED  BY <1>4, <2>3, <2>4, <2>5 DEF ProtocolInv
  <1>. QED  BY <1>3, <1>4, <1>5 DEF ProtocolInv

LEMMA LookKeeps ==
    ASSUME Types, ProtocolInv, Look
    PROVE  ProtocolInv'
  <1> PICK n \in Nat : n = id
    BY ProtocolTypes
  <1> PICK u \in Updates : u = [id |-> n + 1, from |-> From(previous, Capture),
                               to |-> Capture, made |-> latest]
    BY UpdateType
  <1> PICK b \in Messages : b = [type |-> "begin", update |-> u]
    BY DEF Messages
  <1> PICK mid : mid = down \o Show
    OBVIOUS
  <1> DEFINE Shows  == /\ phase' = "tick" /\ down' = mid /\ UNCHANGED <<id, update>>
             Begins == /\ phase' = "sending" /\ down' = Append(mid, b)
                       /\ id' = n + 1 /\ update' = u
  <1>1. phase = "look" /\ UNCHANGED <<committed, previous, acks, canvas>>
    BY DEF Look, Unchanged, Differs
  <1>2. mid \in Seq(Messages)
    BY ShowType, ProtocolTypes, ConcatProperties
  <1>3. Shows \/ Begins
    <2>1. CASE Unchanged
      BY <2>1 DEF Unchanged
    <2>2. CASE Differs
      <3>1. mid \o <<b>> = Append(mid, b)
        BY <1>2
      <3>. QED  BY <2>2, <3>1 DEF Differs
    <2>. QED  BY <2>1, <2>2 DEF Look
  <1> HIDE DEF Shows, Begins
  <1>4. WorkerOK /\ acks = <<>> /\ update = None
    BY <1>1 DEF ProtocolInv, WorkerOK, Busy
  <1>5. WorkerOK'
    <2>1. CASE Shows
      BY <1>1, <1>4, <2>1 DEF Shows, WorkerOK, Busy
    <2>2. CASE Begins
      <3>1. u.id = n + 1 /\ u.from = From(previous, u.to)
        OBVIOUS
      <3>2. n + 1 \in Nat /\ committed < n + 1 /\ committed <= n + 1
        BY <1>4, ProtocolTypes DEF WorkerOK
      <3>. QED  BY <1>1, <1>4, <2>2, <3>1, <3>2 DEF Begins, WorkerOK, Busy
    <2>. QED  BY <1>3, <2>1, <2>2
  <1>6. ASSUME ~canvas.closed PROVE KeysOK' /\ DrawOK' /\ AgreeOK'
    <2>1. KeysOK /\ DrawOK /\ AgreeOK
      BY <1>6 DEF ProtocolInv
    <2>2. /\ EndIds(mid) = EndIds(down) /\ BegunIn(mid) = BegunIn(down)
          /\ Ordered(mid, CanvasKey, 2 * n + 1)
      <3> PICK m \in Messages : m = ShowMessage
        BY ShowType
      <3>1. ~IsProtocol(m)
        BY DEF IsProtocol, ShowMessage
      <3>2. CASE Presents
        <4>1. mid = Append(down, m)
          <5>1. Show = <<m>>
            BY <3>2, ShowType
          <5>. QED  BY <5>1, ProtocolTypes
        <4>2. /\ EndIds(mid) = EndIds(down) /\ BegunIn(mid) = BegunIn(down)
              /\ \E top \in Nat : /\ Ordered(mid, CanvasKey, top)
                                  /\ phase # "ended" => top = WorkerKey
          BY <2>1, <3>1, <4>1, OtherMessage
        <4>. QED  BY <1>1, <4>2 DEF WorkerKey
      <3>3. CASE ~Presents
        <4>1. mid = down
          <5>1. Show = <<>>
            BY <3>3, ShowType
          <5>. QED  BY <5>1, ProtocolTypes
        <4>. QED  BY <1>1, <2>1, <4>1 DEF KeysOK, WorkerKey
      <3>. QED  BY <3>2, <3>3
    <2>3. EndIds(down) = {} /\ canvas.queue = <<>> /\ AtRest
      BY <1>1, <2>1 DEF AgreeOK
    <2>4. CanvasKey' = CanvasKey /\ CanvasKey \in Nat
      BY <1>1, ProtocolTypes DEF CanvasKey
    <2>5. CASE Shows
      <3>1. EndIds(down)' = {} /\ OnItsWay' = OnItsWay /\ WorkerKey' = 2 * n + 1
        <4>1. EndIds(down)' = EndIds(mid) /\ BegunIn(down)' = BegunIn(mid)
          BY <2>5 DEF Shows, EndIds, BegunIn
        <4>2. EndIds(down)' = {} /\ OnItsWay' = OnItsWay
          BY <1>1, <2>2, <2>3, <4>1 DEF OnItsWay
        <4>3. WorkerKey' = 2 * n + 1
          BY <2>5 DEF Shows, WorkerKey
        <4>. QED  BY <4>2, <4>3
      <3>2. KeysOK'
        BY <1>1, <2>1, <2>2, <2>4, <2>5, <3>1 DEF Shows, KeysOK
      <3>3. DrawOK'
        BY <1>1, <2>1, <2>3, <3>1 DEF DrawOK, Fits
      <3>4. AgreeOK'
        BY <1>1, <2>3, <2>5, <3>1 DEF Shows, AgreeOK, AtRest, Busy
      <3>. QED  BY <3>2, <3>3, <3>4
    <2>6. CASE Begins
      <3> PICK q : q = Append(mid, b)
        OBVIOUS
      <3>1. b.type = "begin" /\ b.update = u /\ u.id = n + 1
        OBVIOUS
      <3>2. /\ EndIds(q) = EndIds(mid) \cup (IF b.type = "end" THEN {b.id} ELSE {})
            /\ BegunIn(q) = BegunIn(mid) \cup
                  (IF b.type = "begin" THEN {b.update} ELSE {})
        BY <1>2, AppendParts
      <3>3. EndIds(down)' = {} /\ BegunIn(down)' = BegunIn(down) \cup {u}
        <4>1. EndIds(q) = EndIds(down) /\ BegunIn(q) = BegunIn(down) \cup {u}
          <5>1. b.type # "end"
            BY <3>1
          <5>. QED  BY <2>2, <3>1, <3>2, <5>1
        <4>2. EndIds(down)' = EndIds(q) /\ BegunIn(down)' = BegunIn(q)
          BY <2>6 DEF Begins, EndIds, BegunIn
        <4>. QED  BY <2>3, <4>1, <4>2
      <3>4. KeysOK'
        <4>1. IsProtocol(b) /\ Key(b) = (2 * n + 1) + 1
          BY <3>1 DEF IsProtocol, Key
        <4>2. Ordered(q, CanvasKey, (2 * n + 1) + 1)
          <5> PICK top \in Nat : top = 2 * n + 1
            OBVIOUS
          <5>1. Ordered(mid, CanvasKey, top) /\ Key(b) = top + 1
            BY <2>2, <4>1
          <5>2. Ordered(q, CanvasKey, top + 1)
            BY <1>2, <2>4, <4>1, <5>1, OrderedNext
          <5>. QED  BY <5>2
        <4>3. WorkerKey' = (2 * n + 1) + 1 /\ (2 * n + 1) + 1 \in Nat
          BY <2>6 DEF Begins, WorkerKey
        <4>. QED  BY <1>1, <2>1, <2>4, <2>6, <4>2, <4>3 DEF Begins, KeysOK
      <3>5. DrawOK'
        BY <1>1, <2>1, <2>3, <3>3 DEF DrawOK, Fits
      <3>6. ASSUME NEW v \in OnItsWay PROVE v.id # n + 1
        <4>1. CASE v \in BegunIn(down)
          <5> PICK top \in Nat : top = 2 * n + 1
            OBVIOUS
          <5> PICK low \in Nat : low = CanvasKey
            BY <2>4
          <5>1. Ordered(mid, low, top) /\ v \in BegunIn(mid)
            BY <2>2, <4>1
          <5>2. 2 * v.id \in (low + 1)..top
            BY <1>2, <5>1, OrderedParts
          <5>3. v.id # n + 1
            BY <5>2
          <5>. QED  BY <5>3
        <4>2. CASE v = canvas.pending /\ v # None
          <5>1. v.id \in Nat /\ CanvasKey = 2 * v.id
            BY <4>2, ProtocolTypes DEF CanvasKey, Updates
          <5>2. CanvasKey <= 2 * n + 1
            BY <2>2 DEF Ordered
          <5>. QED  BY <5>1, <5>2
        <4>. QED  BY <4>1, <4>2 DEF OnItsWay
      <3>7. \A v \in OnItsWay' : v.id = n + 1 => v = u
        BY <1>1, <3>3, <3>6 DEF OnItsWay
      <3>8. AgreeOK'
        BY <1>1, <2>3, <2>6, <3>3, <3>7 DEF Begins, AgreeOK, AtRest, Busy
      <3>. QED  BY <3>4, <3>5, <3>8
    <2>. QED  BY <1>3, <2>5, <2>6
  <1>. QED  BY <1>1, <1>5, <1>6 DEF ProtocolInv

\* Every step of the system keeps the invariant.
LEMMA ProtocolStep ==
    ASSUME Types, ProtocolInv, [Next]_vars
    PROVE  ProtocolInv'
  <1>1. CASE Retired \/ Stop \/ Timeout \/ CaptureFails
    BY <1>1, EndKeeps DEF Retired, Stop, Timeout, CaptureFails
  <1>2. CASE Leaves \/ HostCloses
    <2>1. canvas'.closed /\ UNCHANGED Sending
      BY <1>2 DEF Leaves, HostCloses, Destroy, NewCanvas, worker, baseline, channel, Sending
    <2>. QED  BY <2>1, ClosedKeeps
  <1>3. CASE UserInput
    <2>1. canvas \in Canvas /\ UNCHANGED <<Sending, down>>
      BY <1>3 DEF UserInput, Types, worker, baseline, channel, Sending
    <2>2. UNCHANGED Drawing
      BY <1>3, <2>1 DEF UserInput, Canvas, Drawing
    <2>. QED  BY <2>1, <2>2, QuietKeeps
  <1>4. CASE SceneChanges \/ Deliver \/ WindowCloses \/ StableElapses \/ UNCHANGED vars
    <2>1. UNCHANGED <<Sending, canvas, down>>
      BY <1>4 DEF SceneChanges, Deliver, WindowCloses, StableElapses, vars, worker,
                  baseline, channel, Sending
    <2>2. UNCHANGED Drawing
      BY <2>1 DEF Drawing
    <2>. QED  BY <2>1, <2>2, QuietKeeps
  <1>. QED  BY <1>1, <1>2, <1>3, <1>4, SampleKeeps, LookKeeps, SendDoneKeeps, CancelKeeps,
               AckKeeps, ReceiveKeeps, CommitKeeps DEF Next

\* Of a worker or a canvas that ended nothing is left.
LeftOver ==
    /\ phase = "ended" => committed = 0
    /\ canvas.closed => canvas.base = None /\ canvas.lastId = 0

LEMMA LeftOverStep ==
    ASSUME Types, ProtocolInv, LeftOver, [Next]_vars
    PROVE  LeftOver'
  <1>1. phase' = "ended" => committed' = 0
    BY DEF LeftOver, Next, SceneChanges, UserInput, Deliver, WindowCloses, Retired, Stop,
           Timeout, End, Sampling, Sample, Look, Unchanged, Differs, CaptureFails,
           StableElapses, SendDone, Cancel, Ack, Receive, Commit, Leaves, HostCloses,
           vars, worker, baseline
  <1>2. canvas'.closed => canvas'.base = None /\ canvas'.lastId = 0
    <2>1. CASE Receive \/ Commit
      BY <2>1, ReceiveKeeps, CommitKeeps
    <2>2. CASE Leaves \/ HostCloses
      BY <2>2 DEF Leaves, HostCloses, Destroy, NewCanvas
    <2>3. CASE UserInput
      BY <2>3 DEF UserInput, LeftOver, Types, Canvas
    <2>4. CASE UNCHANGED canvas
      BY <2>4 DEF LeftOver
    <2>5. CASE Next
      BY <2>1, <2>2, <2>3, <2>4, <2>5
         DEF Next, SceneChanges, Deliver, WindowCloses, Retired, Stop, Timeout, End,
             Sampling, Sample, Look, CaptureFails, StableElapses, SendDone, Cancel, Ack
    <2>. QED  BY <2>4, <2>5 DEF vars
  <1>. QED  BY <1>1, <1>2 DEF LeftOver

LEMMA ProtocolAgrees ==
    ASSUME Types, ProtocolInv, LeftOver
    PROVE  DeltaIntegrity /\ AckMatches
  <1>1. /\ WorkerOK /\ committed \in Nat /\ id \in Nat
        /\ phase \in {"tick", "look", "sending", "awaiting", "ended"}
    BY DEF ProtocolInv, Types, BaseType, CycleType, Phases
  <1>2. update # None => Busy /\ update.id = id /\ id # committed /\ id # 0
    BY <1>1 DEF WorkerOK
  <1>3. DeltaIntegrity
    <2>1. CASE canvas.closed
      <3>1. canvas.base = None /\ canvas.lastId = 0 /\ None # Corrupt
        BY <2>1, DesktopsAssumption DEF LeftOver, DesktopsAssumption
      <3>. QED  BY <1>2, <3>1 DEF DeltaIntegrity
    <2>2. CASE ~canvas.closed
      <3>1. DrawOK /\ AgreeOK
        BY <2>2 DEF ProtocolInv
      <3>2. CASE phase \in {"tick", "look", "sending"}
        BY <1>2, <3>1, <3>2 DEF DeltaIntegrity, DrawOK, AgreeOK, AtRest
      <3>3. CASE phase = "awaiting"
        BY <1>1, <1>2, <3>1, <3>3 DEF DeltaIntegrity, DrawOK, AgreeOK, AtRest, WorkerOK,
                                      Busy
      <3>4. CASE phase = "ended"
        BY <1>2, <3>1, <3>4 DEF DeltaIntegrity, DrawOK, LeftOver, Busy
      <3>. QED  BY <1>1, <3>2, <3>3, <3>4
    <2>. QED  BY <2>1, <2>2
  <1>4. AckMatches
    <2>1. \A x : Head(<<x>>) = x
      OBVIOUS
    <2>. QED  BY <1>1, <2>1 DEF AckMatches, WorkerOK
  <1>. QED  BY <1>3, <1>4

LEMMA InvInit == Init => Types /\ ProtocolInv /\ LeftOver
  BY TypesInit, ProtocolInit DEF Init, LeftOver, NewCanvas

LEMMA InvStep ==
    Types /\ ProtocolInv /\ LeftOver /\ [Next]_vars
        => Types' /\ ProtocolInv' /\ LeftOver'
  BY TypesStep, ProtocolStep, LeftOverStep

-----------------------------------------------------------------------------
(* What follows *)

\* For any desktops and any user: whatever was cancelled, declined or replaced by
\* another size, the canvas holds the desktop the worker takes its next delta from,
\* or the update it awaits the acknowledgement of, and that is the one it gets.
THEOREM BaselinesAgree == Spec => []Agreement
  <1>1. Types /\ ProtocolInv /\ LeftOver => Agreement
    BY TypesImply, ProtocolAgrees DEF Agreement
  <1>. QED  BY InvInit, InvStep, <1>1, PTL DEF Spec

\* For any desktops and any user: no message of the worker and no update it sent
\* makes the canvas give up; it closes only because a peer left.
THEOREM CanvasNeverRefuses == Spec => ProtocolHolds
  <1> DEFINE Kept == ~canvas.closed /\ canvas'.closed => ~Receive /\ ~Commit
  <1>1. Types /\ ProtocolInv => [Kept]_vars
    BY ReceiveKeeps, CommitKeeps
  <1>. QED  BY InvInit, InvStep, <1>1, PTL DEF Spec, ProtocolHolds
-----------------------------------------------------------------------------
(* A hidden picture comes back only near the desktop *)

\* Inputs reach the Host in the order of their timestamps.
WireInv ==
    /\ latest <= stamp
    /\ \A i \in 1..Len(wire) : latest < wire[i] /\ wire[i] <= stamp
    /\ \A i, j \in 1..Len(wire) : i < j => wire[i] < wire[j]

\* An input is waiting for the worker to close its eyes.
Unseen == window /\ ~sampled

\* A cycle that began before the latest input ends before the worker saw its window.
CycleInv == phase = "look" /\ ~slept => (latest # cycle.watermark <=> Unseen)

\* What shows the picture: the canvas as it is, or the j-th message of q.
Shows(q, j, v, s) == IF j = 0 THEN v # None ELSE q[j].type = "show" /\ q[j].input >= s

\* The first n messages of q leave a canvas that had v on view with a picture on
\* view, if the user's last input has timestamp s.
Sharp(q, n, v, s) ==
    \E j \in 0..n : /\ Shows(q, j, v, s)
                    /\ \A k \in 1..n : k > j => q[k].type # "invalidate"

\* A picture too far from the desktop to reveal is only shown where one is on view,
\* or is too old for the canvas.
FarInv(q, v, s) ==
    \A i \in 1..Len(q) :
        q[i].type = "show" /\ ~q[i].close => q[i].input < s \/ Sharp(q, i - 1, v, s)

\* The pictures on the channel are the canvas's own, and of inputs up to top.
OwnInv(q, last, base, top) ==
    \A i \in 1..Len(q) :
        q[i].type = "show" => q[i].id = last /\ base # None /\ q[i].input <= top

\* Nothing is shown after the end of an update, until the canvas has drawn it.
EndsInv(q, queue) ==
    /\ queue # <<>> => \A i \in 1..Len(q) : q[i].type # "show"
    /\ \A i, j \in 1..Len(q) : i < j /\ q[i].type = "end" => q[j].type # "show"

\* While the worker believes its picture is on view it is, or soon will be: unless
\* an input hid it that the Host has not got, or the worker not yet noticed.
BeliefInv ==
    shown /\ ~slept =>
        latest < stamp \/ Unseen \/ Sharp(down, Len(down), canvas.visible, stamp)

\* What holds as long as the canvas is open.
OpenInv ==
    /\ OwnInv(down, canvas.lastId, canvas.base, latest)
    /\ EndsInv(down, canvas.queue)
    /\ ~slept => FarInv(down, canvas.visible, stamp)
    /\ BeliefInv

RevealInv == WireInv /\ CycleInv /\ (~canvas.closed => OpenInv)

LEMMA SharpLike ==
    ASSUME NEW p, NEW q, NEW n \in Nat, \A k \in 1..n : p[k] = q[k],
           NEW v, NEW w, v # None => w # None, NEW s, Sharp(q, n, v, s)
    PROVE  Sharp(p, n, w, s)
  <1>1. PICK j \in 0..n : /\ Shows(q, j, v, s)
                          /\ \A k \in 1..n : k > j => q[k].type # "invalidate"
    BY DEF Sharp
  <1>2. Shows(p, j, w, s)
    <2>1. j = 0 \/ j \in 1..n
      BY <1>1
    <2>. QED  BY <1>1, <2>1 DEF Shows
  <1>. QED  BY <1>1, <1>2 DEF Sharp

LEMMA SharpNext ==
    ASSUME NEW q, NEW n \in Nat, NEW v, NEW s, q[n + 1].type # "invalidate",
           Sharp(q, n, v, s) \/ (q[n + 1].type = "show" /\ q[n + 1].input >= s)
    PROVE  Sharp(q, n + 1, v, s)
  <1>1. \A k \in 1..(n + 1) : k \in 1..n \/ k = n + 1
    OBVIOUS
  <1>2. CASE Sharp(q, n, v, s)
    <2>1. PICK j \in 0..n : /\ Shows(q, j, v, s)
                            /\ \A k \in 1..n : k > j => q[k].type # "invalidate"
      BY <1>2 DEF Sharp
    <2>2. j \in 0..(n + 1)
      BY <2>1
    <2>. QED  BY <1>1, <2>1, <2>2 DEF Sharp
  <1>3. CASE q[n + 1].type = "show" /\ q[n + 1].input >= s
    <2>1. n + 1 \in 0..(n + 1) /\ n + 1 # 0
      OBVIOUS
    <2>2. \A k \in 1..(n + 1) : ~(k > n + 1)
      OBVIOUS
    <2>3. Shows(q, n + 1, v, s)
      BY <1>3, <2>1 DEF Shows
    <2>. QED  BY <2>1, <2>2, <2>3 DEF Sharp
  <1>. QED  BY <1>2, <1>3

LEMMA SharpTail ==
    ASSUME NEW q \in Seq(Messages), q # <<>>, NEW n \in Nat, n < Len(q),
           NEW v, NEW w, NEW s, Sharp(q, n + 1, v, s),
           Head(q).type # "invalidate" /\ v # None => w # None,
           Head(q).type = "show" /\ Head(q).input >= s => w # None
    PROVE  Sharp(Tail(q), n, w, s)
  <1> PICK t : t = Tail(q)
    OBVIOUS
  <1>1. /\ Head(q) = q[1] /\ Len(q) \in Nat /\ Len(t) = Len(q) - 1
        /\ \A k \in 1..Len(t) : t[k] = q[k + 1]
    BY HeadTailProperties
  <1>2. \A k \in 1..n : k + 1 \in 1..(n + 1) /\ t[k] = q[k + 1]
    BY <1>1
  <1>3. PICK j \in 0..(n + 1) : /\ Shows(q, j, v, s)
                                /\ \A k \in 1..(n + 1) : k > j => q[k].type # "invalidate"
    BY DEF Sharp
  <1>4. CASE j \in {0, 1}
    <2>1. 1 \in 1..(n + 1) /\ (j = 0 => 1 > j)
      OBVIOUS
    <2>2. w # None
      BY <1>1, <1>3, <1>4, <2>1 DEF Shows
    <2>3. \A k \in 1..n : k + 1 > j
      BY <1>4
    <2>4. \A k \in 1..n : t[k].type # "invalidate"
      BY <1>2, <1>3, <2>3
    <2>5. 0 \in 0..n /\ Shows(t, 0, w, s)
      BY <2>2 DEF Shows
    <2>. QED  BY <2>4, <2>5 DEF Sharp
  <1>5. CASE j \notin {0, 1}
    <2>1. j - 1 \in 1..n /\ j - 1 \in 0..n /\ (j - 1) + 1 = j /\ j - 1 # 0 /\ j # 0
      BY <1>5
    <2>2. t[j - 1] = q[j]
      BY <1>2, <2>1
    <2>3. Shows(t, j - 1, w, s)
      BY <1>3, <2>1, <2>2 DEF Shows
    <2>4. \A k \in 1..n : k > j - 1 => k + 1 > j
      OBVIOUS
    <2>5. \A k \in 1..n : k > j - 1 => t[k].type # "invalidate"
      BY <1>2, <1>3, <2>4
    <2>. QED  BY <2>1, <2>3, <2>5 DEF Sharp
  <1>. QED  BY <1>4, <1>5

LEMMA AppendSharp ==
    ASSUME NEW q \in Seq(Messages), NEW m \in Messages, NEW v, NEW s,
           m.type # "invalidate",
           Sharp(q, Len(q), v, s) \/ (m.type = "show" /\ m.input >= s),
           NEW a, a = Append(q, m)
    PROVE  Sharp(a, Len(a), v, s)
  <1> PICK n : n = Len(q)
    OBVIOUS
  <1>1. /\ n \in Nat /\ Len(a) = n + 1 /\ a[n + 1] = m
        /\ \A i \in 1..n : a[i] = q[i]
    BY AppendProperties
  <1>2. Sharp(q, n, v, s) => Sharp(a, n, v, s)
    BY <1>1, SharpLike
  <1>. QED  BY <1>1, <1>2, SharpNext

LEMMA AppendFar ==
    ASSUME NEW q \in Seq(Messages), NEW m \in Messages, NEW v, NEW s, FarInv(q, v, s),
           m.type = "show" /\ ~m.close => m.input < s \/ Sharp(q, Len(q), v, s)
    PROVE  FarInv(Append(q, m), v, s)
  <1> PICK n : n = Len(q)
    OBVIOUS
  <1> PICK a : a = Append(q, m)
    OBVIOUS
  <1>1. /\ n \in Nat /\ Len(a) = n + 1 /\ a[n + 1] = m
        /\ \A i \in 1..n : a[i] = q[i]
    BY AppendProperties
  <1>2. \A i \in 1..Len(a) : i \in 1..n \/ i = n + 1
    BY <1>1
  <1>3. \A i \in 0..n : Sharp(q, i, v, s) => Sharp(a, i, v, s)
    <2> TAKE i \in 0..n
    <2>1. i \in Nat /\ \A k \in 1..i : a[k] = q[k]
      BY <1>1
    <2>. QED  BY <2>1, SharpLike
  <1> SUFFICES ASSUME NEW i \in 1..Len(a), a[i].type = "show" /\ ~a[i].close
               PROVE  a[i].input < s \/ Sharp(a, i - 1, v, s)
    BY DEF FarInv
  <1>4. CASE i \in 1..n
    <2>1. q[i].input < s \/ Sharp(q, i - 1, v, s)
      BY <1>1, <1>4 DEF FarInv
    <2>2. i - 1 \in 0..n
      BY <1>4
    <2>. QED  BY <1>1, <1>3, <1>4, <2>1, <2>2
  <1>5. CASE i = n + 1
    <2>1. i - 1 = n /\ n \in 0..n
      BY <1>1, <1>5
    <2>. QED  BY <1>1, <1>3, <1>5, <2>1
  <1>. QED  BY <1>2, <1>4, <1>5

LEMMA TailReveals ==
    ASSUME NEW q \in Seq(Messages), q # <<>>, NEW v, NEW w, NEW s,
           Head(q).type # "invalidate" /\ v # None => w # None,
           Head(q).type = "show" /\ Head(q).input >= s => w # None
    PROVE  /\ FarInv(q, v, s) => FarInv(Tail(q), w, s)
           /\ Sharp(q, Len(q), v, s) => Sharp(Tail(q), Len(Tail(q)), w, s)
  <1> PICK t : t = Tail(q)
    OBVIOUS
  <1>1. /\ Len(q) \in Nat /\ Len(q) >= 1 /\ Len(t) = Len(q) - 1
        /\ \A k \in 1..Len(t) : t[k] = q[k + 1]
    BY HeadTailProperties, EmptySeq
  <1>2. ASSUME FarInv(q, v, s), NEW i \in 1..Len(t), t[i].type = "show" /\ ~t[i].close
        PROVE  t[i].input < s \/ Sharp(t, i - 1, w, s)
    <2>1. i + 1 \in 1..Len(q) /\ t[i] = q[i + 1] /\ (i + 1) - 1 = (i - 1) + 1
      BY <1>1
    <2>2. q[i + 1].input < s \/ Sharp(q, (i - 1) + 1, v, s)
      BY <1>2, <2>1 DEF FarInv
    <2>3. i - 1 \in Nat /\ i - 1 < Len(q)
      BY <1>1
    <2>4. Sharp(q, (i - 1) + 1, v, s) => Sharp(t, i - 1, w, s)
      BY <2>3, SharpTail
    <2>. QED  BY <2>1, <2>2, <2>4
  <1>3. Sharp(q, Len(q), v, s) => Sharp(t, Len(t), w, s)
    <2>1. Len(t) \in Nat /\ Len(t) < Len(q) /\ Len(t) + 1 = Len(q)
      BY <1>1
    <2>. QED  BY <2>1, SharpTail
  <1>. QED  BY <1>2, <1>3 DEF FarInv

LEMMA AppendOwn ==
    ASSUME NEW q \in Seq(Messages), NEW m \in Messages,
           NEW last, NEW base, NEW top, NEW queue
    PROVE  /\ OwnInv(q, last, base, top)
              /\ (m.type = "show" => m.id = last /\ base # None /\ m.input <= top)
                 => OwnInv(Append(q, m), last, base, top)
           /\ EndsInv(q, queue)
              /\ (m.type = "show" => queue = <<>> /\ EndIds(q) = {})
                 => EndsInv(Append(q, m), queue)
  <1> PICK n : n = Len(q)
    OBVIOUS
  <1> PICK a : a = Append(q, m)
    OBVIOUS
  <1>1. /\ n \in Nat /\ Len(a) = n + 1 /\ a[n + 1] = m
        /\ \A i \in 1..n : a[i] = q[i]
    BY AppendProperties
  <1>2. \A i \in 1..Len(a) : i \in 1..n \/ i = n + 1
    BY <1>1
  <1>3. \A i, j \in 1..Len(a) : i < j => i \in 1..n
    BY <1>1
  <1>4. EndIds(q) = {} => \A i \in 1..n : q[i].type # "end"
    BY DEF EndIds
  <1>5. ASSUME OwnInv(q, last, base, top),
               m.type = "show" => m.id = last /\ base # None /\ m.input <= top
        PROVE  OwnInv(a, last, base, top)
    BY <1>1, <1>2, <1>5 DEF OwnInv
  <1>6. ASSUME EndsInv(q, queue), m.type = "show" => queue = <<>> /\ EndIds(q) = {}
        PROVE  EndsInv(a, queue)
    <2>1. queue # <<>> => \A i \in 1..Len(a) : a[i].type # "show"
      BY <1>1, <1>2, <1>6 DEF EndsInv
    <2>2. ASSUME NEW i \in 1..Len(a), NEW j \in 1..Len(a), i < j, a[i].type = "end"
          PROVE  a[j].type # "show"
      <3>1. i \in 1..n /\ q[i].type = "end"
        BY <1>1, <1>3, <2>2
      <3>2. CASE j \in 1..n
        BY <1>1, <1>6, <2>2, <3>1, <3>2 DEF EndsInv
      <3>3. CASE j = n + 1
        BY <1>1, <1>4, <1>6, <3>1, <3>3
      <3>. QED  BY <1>2, <3>2, <3>3
    <2>. QED  BY <2>1, <2>2 DEF EndsInv
  <1>. QED  BY <1>5, <1>6

LEMMA TailOwn ==
    ASSUME NEW q \in Seq(Messages), q # <<>>, NEW last, NEW base, NEW top,
           NEW queue, NEW next
    PROVE  /\ OwnInv(q, last, base, top) => OwnInv(Tail(q), last, base, top)
           /\ EndsInv(q, queue) /\ (next = queue \/ Head(q).type = "end")
                 => EndsInv(Tail(q), next)
  <1> PICK t : t = Tail(q)
    OBVIOUS
  <1>1. /\ Len(q) \in Nat /\ Len(q) >= 1 /\ Len(t) = Len(q) - 1 /\ Head(q) = q[1]
        /\ \A k \in 1..Len(t) : t[k] = q[k + 1]
    BY HeadTailProperties, EmptySeq
  <1>2. /\ 1 \in 1..Len(q)
        /\ \A i \in 1..Len(t) : i + 1 \in 1..Len(q) /\ 1 < i + 1
        /\ \A i, j \in 1..Len(t) : i < j => i + 1 < j + 1
    BY <1>1
  <1>3. OwnInv(q, last, base, top) => OwnInv(t, last, base, top)
    BY <1>1, <1>2 DEF OwnInv
  <1>4. ASSUME EndsInv(q, queue), next = queue \/ q[1].type = "end"
        PROVE  EndsInv(t, next)
    <2>1. next # <<>> => \A i \in 1..Len(t) : t[i].type # "show"
      BY <1>1, <1>2, <1>4 DEF EndsInv
    <2>2. \A i, j \in 1..Len(t) : i < j /\ t[i].type = "end" => t[j].type # "show"
      BY <1>1, <1>2, <1>4 DEF EndsInv
    <2>. QED  BY <2>1, <2>2 DEF EndsInv
  <1>. QED  BY <1>1, <1>3, <1>4
LEMMA WireStep ==
    ASSUME Types, WireInv, [Next]_vars
    PROVE  WireInv'
  <1>0. /\ latest \in Nat /\ stamp \in Nat /\ wire \in Seq(1..MaxInputs)
        /\ latest <= stamp
    BY DEF Types, UserType, SessionType, WireInv
  <1> PICK n : n = Len(wire)
    OBVIOUS
  <1>1. CASE Deliver
    <2> PICK t : t = Tail(wire)
      OBVIOUS
    <2>1. /\ wire # <<>> /\ wire' = t /\ stamp' = stamp
          /\ latest' \in {latest, Head(wire)}
      BY <1>1 DEF Deliver
    <2>2. /\ n \in Nat /\ n >= 1 /\ Len(t) = n - 1 /\ Head(wire) = wire[1]
          /\ \A i \in 1..Len(t) : t[i] = wire[i + 1]
          /\ \A i \in 1..n : wire[i] \in Nat
      BY <1>0, <2>1, HeadTailProperties, EmptySeq
    <2>3. /\ 1 \in 1..n
          /\ \A i \in 1..Len(t) : i + 1 \in 1..n /\ 1 < i + 1
          /\ \A i, j \in 1..Len(t) : i < j => i + 1 < j + 1
      BY <2>2
    <2>4. latest < wire[1] /\ wire[1] <= stamp
      BY <2>3 DEF WireInv
    <2>5. latest' <= stamp'
      BY <1>0, <2>1, <2>2, <2>4
    <2>6. \A i \in 1..Len(t) : latest' < t[i] /\ t[i] <= stamp'
      <3> TAKE i \in 1..Len(t)
      <3>1. wire[1] < t[i] /\ latest < t[i] /\ t[i] <= stamp
        BY <2>2, <2>3 DEF WireInv
      <3>. QED  BY <2>1, <2>2, <3>1
    <2>7. \A i, j \in 1..Len(t) : i < j => t[i] < t[j]
      BY <2>2, <2>3 DEF WireInv
    <2>. QED  BY <2>1, <2>5, <2>6, <2>7 DEF WireInv
  <1>2. CASE UserInput
    <2> PICK a : a = Append(wire, stamp + 1)
      OBVIOUS
    <2>1. stamp' = stamp + 1 /\ wire' = a /\ latest' = latest
      BY <1>2 DEF UserInput, session
    <2>2. /\ n \in Nat /\ Len(a) = n + 1 /\ a[n + 1] = stamp + 1
          /\ \A i \in 1..n : a[i] = wire[i] /\ wire[i] \in Nat
      BY <1>0, AppendProperties
    <2>3. \A i \in 1..n : latest < a[i] /\ a[i] <= stamp
      BY <2>2 DEF WireInv
    <2>4. \A i \in 1..Len(a) : i \in 1..n \/ i = n + 1
      BY <2>2
    <2>5. \A i \in 1..Len(a) : latest' < a[i] /\ a[i] <= stamp'
      BY <1>0, <2>1, <2>2, <2>3, <2>4
    <2>6. ASSUME NEW i \in 1..Len(a), NEW j \in 1..Len(a), i < j
          PROVE  a[i] < a[j]
      <3>1. i \in 1..n
        BY <2>2, <2>6
      <3>2. CASE j \in 1..n
        BY <2>2, <2>6, <3>1, <3>2 DEF WireInv
      <3>3. CASE j = n + 1
        BY <1>0, <2>2, <2>3, <3>1, <3>3
      <3>. QED  BY <2>4, <3>2, <3>3
    <2>7. latest' <= stamp'
      BY <1>0, <2>1
    <2>. QED  BY <2>1, <2>5, <2>6, <2>7 DEF WireInv
  <1>3. CASE UNCHANGED <<latest, stamp, wire>>
    BY <1>3 DEF WireInv
  <1>4. CASE Next
    BY <1>1, <1>2, <1>3, <1>4
       DEF Next, SceneChanges, WindowCloses, Retired, Stop, Timeout, End, Sampling, Sample,
           Look, CaptureFails, StableElapses, SendDone, Cancel, Ack, Receive, Commit, Leaves,
           HostCloses, user, session
  <1>. QED  BY <1>3, <1>4 DEF vars, user, session

\* An input that is delivered is newer than all before it.
LEMMA DeliverRaises ==
    ASSUME Types, WireInv, Deliver
    PROVE  \/ UNCHANGED <<latest, window, sampled>>
           \/ latest' > latest /\ window' /\ ~sampled'
  <1>1. wire \in Seq(1..MaxInputs) /\ wire # <<>> /\ latest \in Nat
    BY DEF Types, UserType, SessionType, Deliver
  <1>2. Head(wire) = wire[1] /\ 1 \in 1..Len(wire) /\ wire[1] \in Nat
    BY <1>1, HeadTailProperties, EmptySeq
  <1>3. latest < Head(wire)
    BY <1>2 DEF WireInv
  <1>. QED  BY <1>1, <1>2, <1>3 DEF Deliver

LEMMA CycleStep ==
    ASSUME Types, WireInv, WatermarksInv, CycleInv, [Next]_vars
    PROVE  CycleInv'
  <1>0. /\ latest \in Nat /\ cycle.watermark \in Nat /\ cycle.watermark <= latest
        /\ latest' \in Nat
    BY TypesStep DEF Types, SessionType, CycleType, WatermarksInv
  <1>1. CASE Deliver
    <2>1. UNCHANGED <<phase, slept, cycle>>
      BY <1>1 DEF Deliver, worker
    <2>2. CASE UNCHANGED <<latest, window, sampled>>
      BY <2>1, <2>2 DEF CycleInv, Unseen
    <2>3. CASE latest' > latest /\ window' /\ ~sampled'
      <3>1. Unseen' /\ latest' # cycle'.watermark
        BY <1>0, <2>1, <2>3 DEF Unseen
      <3>. QED  BY <3>1 DEF CycleInv
    <2>. QED  BY <1>1, <2>2, <2>3, DeliverRaises
  <1>2. CASE WindowCloses
    BY <1>2 DEF WindowCloses, CycleInv, Unseen, worker
  <1>3. CASE Sampling
    BY <1>3 DEF Sampling, Sample, CycleInv, Unseen
  <1>4. CASE phase' # "look"
    BY <1>4 DEF CycleInv
  <1>5. CASE UNCHANGED <<phase, slept, latest, cycle, window, sampled>>
    BY <1>5 DEF CycleInv, Unseen
  <1>6. CASE Next
    BY <1>1, <1>2, <1>3, <1>4, <1>5, <1>6
       DEF Next, SceneChanges, UserInput, Retired, Stop, Timeout, End, Look, Unchanged,
           Differs, CaptureFails, StableElapses, SendDone, Cancel, Ack, Receive, Commit,
           Leaves, HostCloses, session, worker
  <1>. QED  BY <1>5, <1>6 DEF vars, session, worker

\* Whoever leaves the channel and the canvas alone, and lets the worker believe no more.
LEMMA OpenQuiet ==
    ASSUME OpenInv, UNCHANGED <<down, canvas, stamp>>, latest' = latest,
           slept => slept', shown' => shown, Unseen /\ ~slept' => Unseen'
    PROVE  OpenInv'
  BY DEF OpenInv, BeliefInv

LEMMA OpenUser ==
    ASSUME Types, WireInv, OpenInv, UserInput, ~canvas.closed
    PROVE  OpenInv'
  <1>1. /\ stamp' = stamp + 1 /\ canvas'.visible = None /\ canvas'.queue = canvas.queue
        /\ canvas'.lastId = canvas.lastId /\ canvas'.base = canvas.base
        /\ UNCHANGED <<down, latest, slept, shown>>
    BY DEF UserInput, Types, Canvas, session, worker, sharp, channel
  <1>2. latest \in Nat /\ stamp \in Nat /\ latest <= stamp /\ latest' < stamp'
    BY <1>1 DEF Types, UserType, SessionType, WireInv
  <1>3. \A i \in 1..Len(down) : down[i].type = "show" => down[i].input < stamp'
    <2>1. ASSUME NEW i \in 1..Len(down), down[i].type = "show"
          PROVE  down[i].input < stamp'
      <3>1. down[i] \in Messages
        BY DEF Types, ChannelType
      <3>2. down[i].input \in Nat
        BY <2>1, <3>1 DEF Messages
      <3>3. down[i].input <= latest
        BY <2>1 DEF OpenInv, OwnInv
      <3>. QED  BY <1>1, <1>2, <3>2, <3>3
    <2>. QED  BY <2>1
  <1>4. FarInv(down, canvas.visible, stamp)'
    BY <1>1, <1>3 DEF FarInv
  <1>5. BeliefInv'
    BY <1>2 DEF BeliefInv
  <1>6. OwnInv(down, canvas.lastId, canvas.base, latest)' /\ EndsInv(down, canvas.queue)'
    BY <1>1 DEF OpenInv, OwnInv, EndsInv
  <1>. QED  BY <1>4, <1>5, <1>6 DEF OpenInv

LEMMA OpenDeliver ==
    ASSUME Types, WireInv, OpenInv, Deliver
    PROVE  OpenInv'
  <1>1. UNCHANGED <<down, canvas, stamp, slept, shown>>
    BY DEF Deliver, worker, sharp, channel
  <1>2. CASE UNCHANGED <<latest, window, sampled>>
    BY <1>1, <1>2, OpenQuiet DEF Unseen
  <1>3. CASE latest' > latest /\ window' /\ ~sampled'
    <2>1. ASSUME NEW i \in 1..Len(down), down[i].type = "show"
          PROVE  down[i].input <= latest'
      <3>1. down[i] \in Messages
        BY DEF Types, ChannelType
      <3>2. down[i].input \in Nat
        BY <2>1, <3>1 DEF Messages
      <3>3. down[i].input <= latest /\ latest \in Nat /\ latest' \in Nat
        BY <2>1, TypesStep DEF OpenInv, OwnInv, Types, SessionType, Next
      <3>. QED  BY <1>3, <3>2, <3>3
    <2>2. OwnInv(down, canvas.lastId, canvas.base, latest)'
      BY <1>1, <2>1 DEF OpenInv, OwnInv
    <2>3. BeliefInv'
      BY <1>3 DEF BeliefInv, Unseen
    <2>. QED  BY <1>1, <2>2, <2>3 DEF OpenInv
  <1>. QED  BY <1>2, <1>3, DeliverRaises

\* Where the worker sends a message that shows nothing.
LEMMA OpenSends ==
    ASSUME Types, OpenInv, NEW m \in Messages, m.type # "show", down' = Append(down, m),
           UNCHANGED <<canvas, stamp, latest>>, slept' = slept, shown' => shown,
           shown' => m.type # "invalidate", Unseen /\ ~slept' /\ shown' => Unseen'
    PROVE  OpenInv'
  <1>1. down \in Seq(Messages)
    BY DEF Types, ChannelType
  <1>2. /\ OwnInv(down', canvas.lastId, canvas.base, latest)
        /\ EndsInv(down', canvas.queue)
    BY <1>1, AppendOwn DEF OpenInv
  <1>3. ~slept => FarInv(down', canvas.visible, stamp)
    BY <1>1, AppendFar DEF OpenInv
  <1>4. ASSUME m.type # "invalidate", Sharp(down, Len(down), canvas.visible, stamp)
        PROVE  Sharp(down', Len(down'), canvas.visible, stamp)
    BY <1>1, <1>4, AppendSharp
  <1>5. BeliefInv'
    BY <1>4 DEF OpenInv, BeliefInv
  <1>. QED  BY <1>2, <1>3, <1>5 DEF OpenInv
\* A worker that looks at its window retracts what it shows, or the window is closed.
LEMMA OpenSample ==
    ASSUME Types, OpenInv, Sampling
    PROVE  OpenInv'
  <1> DEFINE m == [type |-> "invalidate"]
  <1>1. /\ UNCHANGED <<canvas, stamp, latest, window, slept>>
        /\ \/ UNCHANGED <<down, shown>> /\ (~window \/ ~shown)
           \/ down' = Append(down, m) /\ ~shown'
           \/ UNCHANGED down /\ ~shown'
    BY DEF Sampling, Sample, sharp, user, Types, SharpType, SessionType
  <1>2. CASE UNCHANGED <<down, shown>> /\ (~window \/ ~shown)
    <2>1. BeliefInv'
      BY <1>1, <1>2 DEF OpenInv, BeliefInv, Unseen
    <2>. QED  BY <1>1, <1>2, <2>1 DEF OpenInv
  <1>3. CASE down' = Append(down, m) /\ ~shown'
    <2>1. m \in Messages /\ m.type # "show"
      BY DEF Messages
    <2>. QED  BY <1>1, <1>3, <2>1, OpenSends
  <1>4. CASE UNCHANGED down /\ ~shown'
    BY <1>1, <1>4 DEF OpenInv, BeliefInv
  <1>. QED  BY <1>1, <1>2, <1>3, <1>4

\* What the worker shows, is shown on the canvas that holds it.
LEMMA OpenLook ==
    ASSUME Types, WireInv, WatermarksInv, CycleInv, DrawOK, AgreeOK, OpenInv, Look
    PROVE  OpenInv'
  <1>1. /\ down \in Seq(Messages) /\ ShowMessage \in Messages
        /\ Show = IF Presents THEN <<ShowMessage>> ELSE <<>>
        /\ latest \in Nat /\ stamp \in Nat /\ latest <= stamp
        /\ cycle.watermark \in Nat /\ cycle.watermark <= latest
    BY ShowType DEF Types, ChannelType, SessionType, UserType, CycleType, WireInv,
                    WatermarksInv
  <1>2. /\ phase = "look" /\ UNCHANGED <<canvas, stamp, latest, window, sampled, slept>>
        /\ shown' = (shown \/ Presents)
    BY DEF Look, Present, user, session
  <1>3. EndIds(down) = {} /\ canvas.queue = <<>> /\ AtRest
    BY <1>2 DEF AgreeOK
  <1> PICK q : q = IF Presents THEN Append(down, ShowMessage) ELSE down
    OBVIOUS
  <1>4. q \in Seq(Messages) /\ down \o Show = q
    <2>1. down \o <<>> = down /\ down \o <<ShowMessage>> = Append(down, ShowMessage)
      BY <1>1, AppendIsConcat, ConcatEmptySeq
    <2>. QED  BY <1>1, <2>1, AppendProperties
  <1>5. ~slept => (latest # cycle.watermark <=> Unseen)
    BY <1>2 DEF CycleInv
  <1>6. ShowMessage.type = "show" /\ ShowMessage.id = committed
        /\ ShowMessage.input = cycle.watermark
        /\ ShowMessage.close = Near(previous, Capture)
    BY DEF ShowMessage
  <1>7. Presents => /\ previous # None
                    /\ shown \/ ShowMessage.close
    BY <1>6 DEF Presents, CanRestoreSnapshot
  <1>8. OwnInv(q, canvas.lastId, canvas.base, latest) /\ EndsInv(q, canvas.queue)
    <2>1. CASE Presents
      <3>1. /\ ShowMessage.id = canvas.lastId /\ canvas.base # None
            /\ ShowMessage.input <= latest
        BY <1>1, <1>3, <1>6, <1>7, <2>1 DEF AtRest
      <3>. QED  BY <1>1, <1>3, <2>1, <3>1, AppendOwn DEF OpenInv
    <2>2. CASE ~Presents
      BY <2>2 DEF OpenInv
    <2>. QED  BY <2>1, <2>2
  <1>9. ~slept => FarInv(q, canvas.visible, stamp)
    <2>1. ASSUME ~slept, Presents PROVE FarInv(q, canvas.visible, stamp)
      <3>1. FarInv(down, canvas.visible, stamp)
        BY <2>1 DEF OpenInv
      <3>2. ~ShowMessage.close =>
               \/ ShowMessage.input < stamp
               \/ Sharp(down, Len(down), canvas.visible, stamp)
        <4>1. CASE latest < stamp
          BY <1>1, <1>6, <4>1
        <4>2. CASE Unseen
          BY <1>1, <1>5, <1>6, <2>1, <4>2
        <4>3. CASE ~shown
          BY <1>7, <2>1, <4>3
        <4>. QED  BY <2>1, <4>1, <4>2, <4>3 DEF OpenInv, BeliefInv
      <3>. QED  BY <1>1, <2>1, <3>1, <3>2, AppendFar
    <2>2. CASE ~Presents
      BY <2>2 DEF OpenInv
    <2>. QED  BY <2>1, <2>2
  <1>10. shown' /\ ~slept =>
            latest < stamp \/ Unseen \/ Sharp(q, Len(q), canvas.visible, stamp)
    <2>1. ASSUME Presents, ~slept, latest >= stamp, ~Unseen
          PROVE  Sharp(q, Len(q), canvas.visible, stamp)
      <3>1. ShowMessage.input >= stamp
        BY <1>1, <1>5, <1>6, <2>1
      <3>2. ShowMessage.type = "show" /\ ShowMessage.type # "invalidate"
        BY <1>6
      <3>. QED  BY <1>1, <2>1, <3>1, <3>2, AppendSharp
    <2>2. CASE ~Presents
      BY <1>2, <2>2 DEF OpenInv, BeliefInv
    <2>. QED  BY <1>1, <2>1, <2>2
  <1>11. CASE down' = q
    BY <1>2, <1>8, <1>9, <1>10, <1>11 DEF OpenInv, BeliefInv, Unseen
  <1>12. ASSUME NEW m \in Messages, m.type = "begin", down' = Append(q, m)
         PROVE  OpenInv'
    <2>1. m.type # "show" /\ m.type # "invalidate"
      BY <1>12
    <2>2. /\ OwnInv(down', canvas.lastId, canvas.base, latest)
          /\ EndsInv(down', canvas.queue)
      BY <1>4, <1>8, <1>12, <2>1, AppendOwn
    <2>3. ~slept => FarInv(down', canvas.visible, stamp)
      BY <1>4, <1>9, <1>12, <2>1, AppendFar
    <2>4. Sharp(q, Len(q), canvas.visible, stamp)
          => Sharp(down', Len(down'), canvas.visible, stamp)
      BY <1>4, <1>12, <2>1, AppendSharp
    <2>5. BeliefInv'
      BY <1>2, <1>10, <2>4 DEF BeliefInv, Unseen
    <2>. QED  BY <1>2, <2>2, <2>3, <2>5 DEF OpenInv
  <1>13. down' = q \/ \E m \in Messages : m.type = "begin" /\ down' = Append(q, m)
    <2>1. \A u \in Updates : [type |-> "begin", update |-> u] \in Messages
      BY DEF Messages
    <2>2. ASSUME NEW u \in Updates,
                 down' = down \o Show \o <<[type |-> "begin", update |-> u]>>
          PROVE  \E m \in Messages : m.type = "begin" /\ down' = Append(q, m)
      <3> PICK m \in Messages : m = [type |-> "begin", update |-> u]
        BY <2>1
      <3>1. down' = q \o <<m>> /\ q \o <<m>> = Append(q, m)
        BY <1>4, <2>2, AppendIsConcat
      <3>. QED  BY <3>1
    <2>. QED  BY <1>4, <2>2, UpdateType DEF Look, Unchanged, Differs
  <1>. QED  BY <1>11, <1>12, <1>13

LEMMA OpenReceive ==
    ASSUME Types, DrawOK, OpenInv, Receive, ~canvas'.closed
    PROVE  OpenInv' /\ (Revealing /\ ~slept => Head(down).close)
  <1>1. /\ down # <<>> /\ down' = Tail(down) /\ canvas \in Canvas /\ down \in Seq(Messages)
        /\ UNCHANGED <<stamp, latest, window, sampled, slept, shown>>
    BY DEF Receive, Types, ChannelType, user, session, worker, sharp
  <1> PICK m \in Messages : m = Head(down)
    BY <1>1, HeadTail
  <1>2. /\ m.type \in {"show", "invalidate", "cancel", "begin", "end"}
        /\ canvas' = CASE m.type = "show"       -> OnShow(canvas, m)
                       [] m.type = "invalidate" -> OnInvalidate(canvas)
                       [] m.type = "cancel"     -> OnCancel(canvas, m)
                       [] m.type = "begin"      -> OnBegin(canvas, m)
                       [] m.type = "end"        -> OnEnd(canvas, m)
    BY DEF Receive, Messages
  <1>3. \A c \in Canvas : Destroy(c).closed
    BY DEF Destroy, NewCanvas
  <1>4. canvas'.lastId = canvas.lastId /\ canvas'.base = canvas.base
    BY <1>1, <1>2, <1>3
       DEF OnShow, OnInvalidate, OnCancel, OnBegin, OnEnd, Canvas
  <1>5. canvas'.queue = canvas.queue \/ m.type = "end"
    BY <1>1, <1>2, <1>3 DEF OnShow, OnInvalidate, OnCancel, OnBegin, Canvas
  <1>6. m.type \notin {"show", "invalidate"} => canvas'.visible = canvas.visible
    BY <1>1, <1>2, <1>3 DEF OnCancel, OnBegin, OnEnd, Canvas
  <1>7. 1 \in 1..Len(down) /\ down[1] = m
    BY <1>1, HeadTailProperties, EmptySeq
  <1>8. m.type = "show" => m.id = canvas.lastId /\ canvas.base # None
    BY <1>7 DEF OpenInv, OwnInv
  <1>9. m.type = "show" /\ m.input >= stamp => canvas'.visible # None
    BY <1>1, <1>2, <1>8 DEF OnShow, Canvas
  <1>10. m.type = "show" /\ ~(m.input >= stamp) => canvas'.visible = canvas.visible
    BY <1>2 DEF OnShow
  <1>11. m.type # "invalidate" /\ canvas.visible # None => canvas'.visible # None
    BY <1>6, <1>9, <1>10
  <1>12. m.type = "invalidate" => canvas'.visible = None
    BY <1>1, <1>2 DEF OnInvalidate, Canvas
  <1>13. OwnInv(down', canvas'.lastId, canvas'.base, latest')
    BY <1>1, <1>4, TailOwn DEF OpenInv
  <1>14. EndsInv(down', canvas'.queue)
    BY <1>1, <1>5, TailOwn DEF OpenInv
  <1>15. ~slept => FarInv(down', canvas'.visible, stamp)
    BY <1>1, <1>9, <1>11, TailReveals DEF OpenInv
  <1>16. Sharp(down, Len(down), canvas.visible, stamp)
         => Sharp(down', Len(down'), canvas'.visible, stamp)
    BY <1>1, <1>9, <1>11, TailReveals
  <1>17. BeliefInv'
    BY <1>1, <1>16 DEF OpenInv, BeliefInv, Unseen
  <1>18. ASSUME Revealing, ~slept PROVE m.close
    <2>1. m.type = "show" /\ m.input >= stamp /\ canvas.visible = None
      BY <1>2, <1>6, <1>10, <1>12, <1>18 DEF Revealing
    <2>2. m.input \in Nat /\ m.close \in BOOLEAN
      BY <2>1 DEF Messages
    <2>3. stamp \in Nat
      BY DEF Types, UserType
    <2>4. SUFFICES ASSUME ~m.close PROVE FALSE
      OBVIOUS
    <2>5. Sharp(down, 1 - 1, canvas.visible, stamp)
      BY <1>7, <1>18, <2>1, <2>2, <2>3, <2>4 DEF OpenInv, FarInv
    <2>. QED  BY <2>1, <2>5 DEF Sharp, Shows
  <1>. QED  BY <1>1, <1>13, <1>14, <1>15, <1>17, <1>18 DEF OpenInv

LEMMA OpenCommit ==
    ASSUME Types, DrawOK, OpenInv, Commit, ~canvas'.closed
    PROVE  OpenInv'
  <1>1. /\ canvas.queue # <<>> /\ canvas \in Canvas /\ down \in Seq(Messages)
        /\ UNCHANGED <<down, stamp, latest, window, sampled, slept, shown>>
    BY DEF Commit, Types, ChannelType, user, session, worker, sharp
  <1>2. canvas' = [canvas EXCEPT !.queue = Tail(@), !.lastId = Head(canvas.queue).id,
                                 !.base = Drawn(canvas, Head(canvas.queue))]
    BY DEF Commit, Destroy, NewCanvas
  <1>3. canvas'.visible = canvas.visible
    BY <1>1, <1>2 DEF Canvas
  <1>4. \A i \in 1..Len(down) : down[i].type # "show"
    BY <1>1 DEF OpenInv, EndsInv
  <1>5. OwnInv(down', canvas'.lastId, canvas'.base, latest')
    BY <1>1, <1>4 DEF OwnInv
  <1>6. EndsInv(down', canvas'.queue)
    BY <1>1, <1>4 DEF EndsInv
  <1>7. FarInv(down', canvas'.visible, stamp')
    BY <1>1, <1>4 DEF FarInv
  <1>8. BeliefInv'
    BY <1>1, <1>3 DEF OpenInv, BeliefInv, Unseen
  <1>. QED  BY <1>5, <1>6, <1>7, <1>8 DEF OpenInv
LEMMA OpenStep ==
    ASSUME Types, ProtocolInv, WatermarksInv, WireInv, CycleInv, OpenInv, ~canvas.closed,
           [Next]_vars, ~canvas'.closed
    PROVE  OpenInv'
  <1>0. DrawOK /\ AgreeOK /\ canvas \in Canvas /\ id \in Nat
    BY DEF ProtocolInv, Types, BaseType
  <1>1. CASE UNCHANGED <<down, canvas, stamp, latest, slept, window, sampled>>
             /\ (shown' => shown)
    BY <1>1, OpenQuiet DEF Unseen
  <1>2. CASE WindowCloses
    <2>1. UNCHANGED <<down, canvas, stamp, latest, shown, sampled>>
          /\ slept' = (slept \/ ~sampled)
      BY <1>2 DEF WindowCloses, user, worker, sharp, channel
    <2>2. (slept => slept') /\ (Unseen /\ ~slept' => Unseen')
      BY <2>1 DEF Unseen
    <2>. QED  BY <2>1, <2>2, OpenQuiet
  <1>3. CASE SendDone \/ Cancel
    <2>1. PICK m \in Messages : m.type # "show" /\ m.type # "invalidate"
                                /\ down' = Append(down, m)
      <3>1. \A t \in {"end", "cancel"} : [type |-> t, id |-> id] \in Messages
        BY <1>0 DEF Messages
      <3>. QED  BY <1>3, <3>1 DEF SendDone, Cancel
    <2>2. UNCHANGED <<canvas, stamp, latest, slept, shown, window, sampled>>
      BY <1>3 DEF SendDone, Cancel, user, session, sharp
    <2>. QED  BY <2>1, <2>2, OpenSends DEF Unseen
  <1>4. CASE Leaves \/ HostCloses
    BY <1>4 DEF Leaves, HostCloses, Destroy, NewCanvas
  <1>5. CASE End
    BY <1>1, <1>5 DEF End, user, session
  <1>6. CASE Ack /\ ~End
    BY <1>1, <1>6 DEF Ack, user, session
  <1>7. CASE SceneChanges \/ StableElapses
    BY <1>1, <1>7 DEF SceneChanges, StableElapses, user, session, worker, sharp, channel
  <1>8. CASE UNCHANGED vars
    BY <1>1, <1>8 DEF vars, user, session, worker, sharp, channel
  <1>9. CASE UserInput \/ Deliver \/ Sampling \/ Look \/ Receive \/ Commit
    BY <1>0, <1>9, OpenUser, OpenDeliver, OpenSample, OpenLook, OpenReceive, OpenCommit
  <1>. QED  BY <1>2, <1>3, <1>4, <1>5, <1>6, <1>7, <1>8, <1>9
            DEF Next, Retired, Stop, Timeout, CaptureFails

LEMMA RevealStep ==
    ASSUME Types, ProtocolInv, WatermarksInv, RevealInv, [Next]_vars
    PROVE  RevealInv'
  <1>1. WireInv' /\ CycleInv'
    BY WireStep, CycleStep DEF RevealInv
  <1>2. canvas.closed => canvas'.closed
    <2>1. CASE UserInput
      BY <2>1 DEF UserInput, Types, Canvas
    <2>2. CASE Leaves \/ HostCloses \/ Receive \/ Commit
      BY <2>2 DEF Leaves, HostCloses, Receive, Commit
    <2>3. CASE UNCHANGED canvas
      BY <2>3
    <2>4. CASE Next
      BY <2>1, <2>2, <2>3, <2>4
         DEF Next, SceneChanges, Deliver, WindowCloses, Retired, Stop, Timeout, End,
             Sampling, Sample, Look, CaptureFails, StableElapses, SendDone, Cancel, Ack
    <2>. QED  BY <2>3, <2>4 DEF vars
  <1>3. ~canvas'.closed => OpenInv'
    BY <1>2, OpenStep DEF RevealInv
  <1>. QED  BY <1>1, <1>3 DEF RevealInv

LEMMA RevealInit == Init => RevealInv
  BY DEF Init, RevealInv, OpenInv, WireInv, CycleInv, OwnInv, EndsInv, FarInv, BeliefInv, Unseen,
         NewCanvas

\* Only a message of the worker shows a picture.
LEMMA RevealClose ==
    ASSUME Types, ProtocolInv, RevealInv, [Next]_vars, Revealing, ~slept
    PROVE  Head(down).close
  <1>1. CASE Receive
    <2>1. ~canvas.closed /\ ~canvas'.closed
      BY <1>1, ReceiveKeeps DEF Receive
    <2>. QED  BY <1>1, <2>1, OpenReceive DEF RevealInv, ProtocolInv
  <1>2. canvas \in Canvas
    BY DEF Types
  <1>3. CASE UserInput \/ Commit \/ Leaves \/ HostCloses
    BY <1>2, <1>3 DEF UserInput, Commit, Leaves, HostCloses, Destroy, NewCanvas, Canvas,
                      Revealing
  <1>4. CASE UNCHANGED canvas
    BY <1>4 DEF Revealing
  <1>5. CASE Next
    BY <1>1, <1>3, <1>4, <1>5
       DEF Next, SceneChanges, Deliver, WindowCloses, Retired, Stop, Timeout, End,
           Sampling, Sample, Look, CaptureFails, StableElapses, SendDone, Cancel, Ack
  <1>. QED  BY <1>4, <1>5 DEF vars

\* For any desktops and any user: after an input, or after the worker hid it, the sharp
\* picture returns only if the desktop was near it in the capture that decided so, as
\* long as the worker saw every presentation window.
THEOREM PicturesReturnClose == Spec => RevealsAreClose
  <1> DEFINE Inv  == Types /\ ProtocolInv /\ LeftOver /\ WatermarksInv /\ RevealInv
             Close == Revealing /\ ~slept => Head(down).close
  <1>1. Init => Inv
    BY InvInit, EvidenceInit, RevealInit
  <1>2. Inv /\ [Next]_vars => Inv'
    BY InvStep, WatermarksStep, RevealStep
  <1>3. Inv /\ [Next]_vars => [Close]_vars
    BY RevealClose
  <1>. QED  BY <1>1, <1>2, <1>3, PTL DEF Spec, RevealsAreClose
=============================================================================
