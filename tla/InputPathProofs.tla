--------------------------- MODULE InputPathProofs ---------------------------
(***************************************************************************)
(* Proofs about InputPath, for any keys, buttons and releases missed, any  *)
(* number of packets and any interleaving of the three receivers.          *)
(***************************************************************************)
EXTENDS InputPath, FiniteSetTheorems, SequenceTheorems, TLAPS

-----------------------------------------------------------------------------
(* Types *)

LEMMA PacketTypes ==
    /\ \A k \in Inputs, down \in BOOLEAN, at \in Nat \ {0} : Transition(k, down, at) \in Packet
    /\ \A at \in Nat \ {0} : Move(at) \in Packet
  BY DEF Packet, Transition, Move

\* Whatever is sent, the queues hold packets.
LEMMA SendAllType ==
    ASSUME QueuesOK, NEW ps \in Seq(Packet), SendAll(ps), UNCHANGED fast
    PROVE  QueuesOK'
  <1>1. /\ reliable \in Seq(Packet) /\ reliable \o ps \in Seq(Packet)
        /\ control \in Seq(Packet) /\ control \o ps \in Seq(Packet)
    BY DEF QueuesOK
  <1>2. reliable' \in {reliable, reliable \o ps} /\ control' \in {control, control \o ps}
    BY DEF SendAll
  <1> QED
    BY <1>1, <1>2 DEF QueuesOK

LEMMA SendOneType ==
    ASSUME QueuesOK, NEW p \in Packet, SendAll(<<p>>), UNCHANGED fast
    PROVE  QueuesOK'
  <1>1. <<p>> \in Seq(Packet)
    OBVIOUS
  <1> QED
    BY <1>1, SendAllType

\* The release of every key: one packet per key, and none is pressed after.
LEMMA ReleaseAllType ==
    ASSUME BrowserOK, QueuesOK, ReleaseAll, UNCHANGED fast
    PROVE  QueuesOK' /\ clock' \in Nat /\ pressed' = {} /\ pasting' = FALSE
  <1>1. Cardinality(pressed) \in Nat
    BY KeysAssumption, FS_Subset, FS_CardinalityType DEF BrowserOK
  <1>2. clock' \in Nat /\ pressed' = {} /\ pasting' = FALSE
    BY <1>1 DEF ReleaseAll, BrowserOK
  <1>3. PICK order \in SetToSeqs(pressed) :
            SendAll([i \in DOMAIN order |-> Transition(order[i], FALSE, clock + i)])
    BY DEF ReleaseAll
  <1>4. order \in [1 .. Cardinality(pressed) -> pressed]
    BY <1>3 DEF SetToSeqs
  <1> DEFINE ps == [i \in DOMAIN order |-> Transition(order[i], FALSE, clock + i)]
  <1>5. \A i \in 1 .. Cardinality(pressed) :
            Transition(order[i], FALSE, clock + i) \in Packet
    <2> TAKE i \in 1 .. Cardinality(pressed)
    <2>1. order[i] \in Inputs
      BY <1>4 DEF BrowserOK, Inputs
    <2>2. clock + i \in Nat \ {0}
      BY <1>1 DEF BrowserOK
    <2> QED
      BY <2>1, <2>2, PacketTypes
  <1>6. DOMAIN order = 1 .. Cardinality(pressed)
    BY <1>4
  <1>7. ps \in [1 .. Cardinality(pressed) -> Packet]
    BY <1>5, <1>6
  <1>8. ps \in Seq(Packet)
    <2> HIDE DEF ps
    <2> QED
      BY ONLY <1>1, <1>7, SeqDef
  <1> QED
    BY <1>2, <1>3, <1>8, SendAllType

\* The parts that a step leaves alone.
LEMMA Kept ==
    ASSUME TypeOK
    PROVE  /\ UNCHANGED browser => BrowserOK'
           /\ UNCHANGED queues => QueuesOK'
           /\ UNCHANGED <<channels, session>> => SessionOK'
           /\ UNCHANGED worker => WorkerOK'
           /\ UNCHANGED desktop => DesktopOK'
  BY DEF TypeOK, BrowserOK, QueuesOK, SessionOK, WorkerOK, DesktopOK, browser,
         queues, session, desktop

LEMMA WorkerMoves ==
    ASSUME WorkerOK, NEW w \in Paths
    PROVE  /\ \A pc \in {"absent", "poll", "inject", "ended"} : To(w, pc) => WorkerOK'
           /\ \A p \in Packet : Holding(w, p) => WorkerOK'
  <1>1. Move(1) \in Packet
    BY PacketTypes
  <1>2. ASSUME NEW pc \in {"absent", "poll", "inject", "ended"}, To(w, pc) PROVE WorkerOK'
    BY <1>1, <1>2 DEF WorkerOK, To
  <1>3. ASSUME NEW p \in Packet, Holding(w, p) PROVE WorkerOK'
    BY <1>3 DEF WorkerOK, Holding
  <1> QED
    BY <1>2, <1>3

LEMMA InjectType ==
    ASSUME DesktopOK, NEW p \in Packet, NEW keys \in SUBSET Inputs, Inject(p, keys),
           usingControl' \in BOOLEAN
    PROVE  DesktopOK'
  <1>1. p.at \in Nat /\ p.down \in BOOLEAN /\ (~IsMove(p) => p.key \in Inputs)
    BY DEF Packet, IsMove
  <1>2. CASE StaleMove(p)
    BY <1>2 DEF Inject, DesktopOK
  <1>3. CASE ~StaleMove(p)
    <2>1. held' \subseteq Inputs
      BY <1>1, <1>3 DEF Inject
    <2>2. latest' \in Nat /\ cursor' \in Nat /\ clicked' \in Nat /\ transition' \in Nat
      BY <1>1, <1>3 DEF Inject, DesktopOK
    <2> QED
      BY <2>1, <2>2 DEF DesktopOK
  <1> QED
    BY <1>2, <1>3

LEMMA InitTypeOK == Init => TypeOK
  <1> SUFFICES ASSUME Init PROVE TypeOK
    OBVIOUS
  <1>1. BrowserOK /\ QueuesOK /\ DesktopOK
    <2>1. /\ fingers = {} /\ pressed = {} /\ pasting = FALSE
          /\ input = "none" /\ clock = 0 /\ closing = FALSE
      BY DEF Init
    <2>2. fast = {} /\ reliable = <<>> /\ control = <<>>
      BY DEF Init
    <2>3. /\ usingControl = FALSE /\ held = {}
          /\ latest = 0 /\ cursor = 0 /\ clicked = 0 /\ transition = 0
      BY DEF Init
    <2>4. BrowserOK
      BY <2>1 DEF BrowserOK
    <2>5. QueuesOK
      BY <2>2 DEF QueuesOK
    <2>6. DesktopOK
      BY <2>3 DEF DesktopOK
    <2> QED
      BY <2>4, <2>5, <2>6
  <1>2. SessionOK
    <2>1. /\ channels = "connecting"
          /\ active = FALSE /\ pauses = 0 /\ retired = FALSE /\ dropped = FALSE
          /\ lost = {}
      BY DEF Init
    <2>2. 0 \in 0 .. MaxPauses
      BY InputBounds
    <2> QED
      BY <2>1, <2>2 DEF SessionOK
  <1>3. WorkerOK
    <2>1. Move(1) \in Packet
      BY PacketTypes
    <2> QED
      BY <2>1 DEF Init, WorkerOK
  <1> QED
    BY <1>1, <1>2, <1>3 DEF TypeOK

\* The browser's steps keep the types.
LEMMA UserTypeOK ==
    ASSUME TypeOK, User
    PROVE  TypeOK'
<1> USE Kept
<1>0. BrowserOK /\ QueuesOK /\ SessionOK /\ WorkerOK /\ DesktopOK
  BY DEF TypeOK
<1>1. CASE StartInput
  <2>1. BrowserOK'
    BY <1>0, <1>1 DEF StartInput, BrowserOK
  <2> QED
    BY <1>1, <2>1 DEF StartInput, TypeOK
<1>2. CASE MovePointer
  <2>1. Move(clock + 1) \in Packet
    BY <1>0, PacketTypes DEF BrowserOK
  <2>2. BrowserOK'
    BY <1>0, <1>2 DEF MovePointer, BrowserOK
  <2>3. QueuesOK'
    <3>1. /\ fast' \in {fast, fast \cup {Move(clock + 1)}}
          /\ control' \in {control, Append(control, Move(clock + 1))}
          /\ reliable' = reliable
      BY <1>2 DEF MovePointer
    <3>2. Append(control, Move(clock + 1)) \in Seq(Packet)
      BY <1>0, <2>1 DEF QueuesOK
    <3> QED
      BY <1>0, <2>1, <3>1, <3>2 DEF QueuesOK
  <2> QED
    BY <1>2, <2>2, <2>3 DEF MovePointer, TypeOK
<1>3. CASE Wheel
  <2>1. Move(clock + 1) \in Packet
    BY <1>0, PacketTypes DEF BrowserOK
  <2>2. QueuesOK'
    BY <1>0, <1>3, <2>1, SendOneType DEF Wheel
  <2>3. BrowserOK'
    BY <1>0, <1>3 DEF Wheel, BrowserOK
  <2> QED
    BY <1>3, <2>2, <2>3 DEF Wheel, TypeOK
<1>4. CASE Blur
  <2>1. QueuesOK' /\ clock' \in Nat /\ pressed' = {} /\ pasting' = FALSE
    BY <1>0, <1>4, ReleaseAllType DEF Blur
  <2>2. BrowserOK'
    BY <1>0, <1>4, <2>1 DEF Blur, BrowserOK
  <2> QED
    BY <1>4, <2>1, <2>2 DEF Blur, TypeOK
<1>5. CASE FallbackInput
  <2>1. QueuesOK' /\ clock' \in Nat /\ pressed' = {} /\ pasting' = FALSE
    BY <1>0, <1>5, ReleaseAllType DEF FallbackInput
  <2>2. BrowserOK'
    BY <1>0, <1>5, <2>1 DEF FallbackInput, BrowserOK
  <2> QED
    BY <1>5, <2>1, <2>2 DEF FallbackInput, TypeOK
<1>6. CASE CloseSession
  <2>1. QueuesOK' /\ clock' \in Nat /\ pressed' = {} /\ pasting' = FALSE
    BY <1>0, <1>6, ReleaseAllType DEF CloseSession
  <2>2. BrowserOK' /\ SessionOK'
    BY <1>0, <1>6, <2>1 DEF CloseSession, BrowserOK, SessionOK, session
  <2> QED
    BY <1>6, <2>1, <2>2 DEF CloseSession, TypeOK
<1>7. ASSUME NEW k \in Inputs, Press(k) PROVE TypeOK'
  <2>0. clock + 1 \in Nat \ {0}
    BY <1>0 DEF BrowserOK
  <2>1. Transition(k, TRUE, clock + 1) \in Packet
    BY <2>0, PacketTypes
  <2>2. QueuesOK'
    <3>1. fast' = fast /\ (UNCHANGED <<reliable, control>> \/ SendAll(<<Transition(k, TRUE, clock + 1)>>))
      BY <1>7 DEF Press
    <3> QED
      BY <1>0, <2>1, <3>1, SendOneType DEF QueuesOK
  <2>3. BrowserOK'
    <3>1. /\ fingers' = fingers \cup {k} /\ input' = input /\ closing' = closing
          /\ pressed' \in {pressed, pressed \cup ({k} \cap Keys)}
          /\ clock' \in {clock, clock + 1} /\ pasting' \in {pasting, TRUE, FALSE}
      BY <1>7 DEF Press
    <3> QED
      BY <1>0, <2>0, <3>1 DEF BrowserOK
  <2> QED
    BY <1>7, <2>2, <2>3 DEF Press, TypeOK
<1>8. ASSUME NEW k \in Inputs, Release(k) PROVE TypeOK'
  <2>0. clock + 1 \in Nat \ {0}
    BY <1>0 DEF BrowserOK
  <2>1. Transition(k, FALSE, clock + 1) \in Packet
    BY <2>0, PacketTypes
  <2>2. QueuesOK'
    <3>1. fast' = fast /\ (UNCHANGED <<reliable, control>> \/ SendAll(<<Transition(k, FALSE, clock + 1)>>))
      BY <1>8 DEF Release
    <3> QED
      BY <1>0, <2>1, <3>1, SendOneType DEF QueuesOK
  <2>3. BrowserOK'
    <3>1. /\ fingers' = fingers \ {k} /\ input' = input /\ closing' = closing
          /\ pressed' \in {pressed, pressed \ {k}}
          /\ clock' \in {clock, clock + 1} /\ pasting' \in {pasting, TRUE, FALSE}
      BY <1>8 DEF Release
    <3> QED
      BY <1>0, <2>0, <3>1 DEF BrowserOK
  <2> QED
    BY <1>8, <2>2, <2>3 DEF Release, TypeOK
<1>9. ASSUME NEW k \in Inputs, MissedRelease(k) PROVE TypeOK'
  <2>1. BrowserOK'
    BY <1>0, <1>9 DEF MissedRelease, BrowserOK
  <2>2. SessionOK'
    BY <1>0, <1>9 DEF MissedRelease, SessionOK
  <2> QED
    BY <1>9, <2>1, <2>2 DEF MissedRelease, TypeOK
<1> QED
  BY <1>1, <1>2, <1>3, <1>4, <1>5, <1>6, <1>7, <1>8, <1>9 DEF User

\* So do the network's and the loop's.
LEMMA NetworkTypeOK ==
    ASSUME TypeOK, Network
    PROVE  TypeOK'
<1> USE Kept
<1>0. BrowserOK /\ QueuesOK /\ SessionOK /\ WorkerOK /\ DesktopOK
  BY DEF TypeOK
<1>1. CASE ChannelsOpen
  <2>1. SessionOK'
    BY <1>0, <1>1 DEF ChannelsOpen, SessionOK, session
  <2>2. WorkerOK'
    BY <1>0, <1>1 DEF ChannelsOpen, WorkerOK
  <2> QED
    BY <1>1, <2>1, <2>2 DEF ChannelsOpen, TypeOK
<1>2. CASE ChannelsClose
  <2>1. SessionOK'
    BY <1>0, <1>2 DEF ChannelsClose, SessionOK, session
  <2> QED
    BY <1>2, <2>1 DEF ChannelsClose, TypeOK
<1>3. CASE LoseRest
  <2>1. QueuesOK'
    BY <1>0, <1>3 DEF LoseRest, QueuesOK
  <2> QED
    BY <1>3, <2>1 DEF LoseRest, TypeOK
<1>4. CASE MediaConnected
  <2>1. SessionOK'
    BY <1>0, <1>4 DEF MediaConnected, SessionOK
  <2> QED
    BY <1>4, <2>1 DEF MediaConnected, TypeOK
<1>5. CASE MediaDisconnected
  <2>1. pauses + 1 \in 0 .. MaxPauses
    BY <1>0, <1>5, InputBounds DEF MediaDisconnected, SessionOK
  <2>2. SessionOK'
    BY <1>0, <1>5, <2>1 DEF MediaDisconnected, SessionOK
  <2> QED
    BY <1>5, <2>2 DEF MediaDisconnected, TypeOK
<1>6. CASE Retire
  <2>1. SessionOK'
    <3>1. 0 \in 0 .. MaxPauses
      BY InputBounds
    <3>2. /\ UNCHANGED <<channels, dropped, lost>>
          /\ retired' \in BOOLEAN /\ active' \in BOOLEAN /\ pauses' = 0
      BY <1>6 DEF Retire
    <3> QED
      BY <1>0, <3>1, <3>2 DEF SessionOK
  <2> QED
    BY <1>6, <2>1 DEF Retire, TypeOK
<1>7. CASE InputPeerCloses
  <2>1. SessionOK'
    BY <1>0, <1>7 DEF InputPeerCloses, SessionOK, session
  <2> QED
    BY <1>7, <2>1 DEF InputPeerCloses, TypeOK
<1>8. CASE DropSession
  <2>1. SessionOK'
    BY <1>0, <1>8 DEF DropSession, SessionOK
  <2> QED
    BY <1>8, <2>1 DEF DropSession, TypeOK
<1> QED
  BY <1>1, <1>2, <1>3, <1>4, <1>5, <1>6, <1>7, <1>8 DEF Network

\* So do the receivers'.
LEMMA ReceiversTypeOK ==
    ASSUME TypeOK, Receivers
    PROVE  TypeOK'
<1> USE Kept
<1>0. BrowserOK /\ QueuesOK /\ SessionOK /\ WorkerOK /\ DesktopOK
  BY DEF TypeOK
<1>a. \A w \in Paths : worker[w].packet \in Packet
  BY <1>0 DEF WorkerOK
<1>b. ReleaseHeld => DesktopOK'
  BY <1>0 DEF ReleaseHeld, DesktopOK
<1>1. CASE FastPoll
  <2>1. PICK p \in fast : /\ fast' = fast \ {p}
                          /\ To("fast", "ended") \/ Holding("fast", p)
    BY <1>1 DEF FastPoll
  <2>2. QueuesOK'
    BY <1>0, <1>1, <2>1 DEF FastPoll, QueuesOK
  <2>3. WorkerOK'
    BY <1>0, <2>1, WorkerMoves DEF QueuesOK, Paths
  <2> QED
    BY <1>1, <2>2, <2>3 DEF FastPoll, TypeOK
<1>2. CASE ReliablePoll \/ ReliableClosed
  <2>1. \/ /\ reliable # <<>> /\ Holding("reliable", Head(reliable))
           /\ reliable' = Tail(reliable) /\ UNCHANGED desktop
        \/ /\ To("reliable", "ended") /\ UNCHANGED reliable
           /\ ReleaseHeld \/ UNCHANGED desktop
    BY <1>2 DEF ReliablePoll, ReliableClosed, EndReliable
  <2>2. reliable # <<>> => Head(reliable) \in Packet /\ Tail(reliable) \in Seq(Packet)
    BY <1>0 DEF QueuesOK
  <2>3. QueuesOK'
    BY <1>0, <1>2, <2>1, <2>2 DEF ReliablePoll, ReliableClosed, QueuesOK
  <2>4. WorkerOK'
    BY <1>0, <2>1, <2>2, WorkerMoves DEF Paths
  <2>5. DesktopOK'
    BY <1>b, <2>1
  <2> QED
    BY <1>2, <2>3, <2>4, <2>5 DEF ReliablePoll, ReliableClosed, TypeOK
<1>3. CASE ControlRecv
  <2>1. \/ /\ control # <<>>
           /\ Holding("control", Head(control)) \/ UNCHANGED worker
           /\ control' = Tail(control) /\ UNCHANGED desktop
        \/ To("control", "ended") /\ UNCHANGED control /\ ReleaseHeld
    BY <1>3 DEF ControlRecv
  <2>2. control # <<>> => Head(control) \in Packet /\ Tail(control) \in Seq(Packet)
    BY <1>0 DEF QueuesOK
  <2>3. QueuesOK'
    BY <1>0, <1>3, <2>1, <2>2 DEF ControlRecv, QueuesOK
  <2>4. WorkerOK'
    BY <1>0, <2>1, <2>2, WorkerMoves DEF Paths
  <2>5. DesktopOK'
    BY <1>b, <2>1
  <2>6. SessionOK'
    <3>1. control # <<>> => ReleasedBy(Head(control)) \subseteq Inputs
      BY <2>2 DEF ReleasedBy, IsMove, Packet
    <3>2. CASE lost' = lost
      BY <1>0, <1>3, <3>2 DEF ControlRecv, SessionOK
    <3>3. CASE control # <<>> /\ lost' = lost \cup ReleasedBy(Head(control))
      BY <1>0, <1>3, <3>1, <3>3 DEF ControlRecv, SessionOK
    <3> QED
      BY <1>3, <3>2, <3>3 DEF ControlRecv
  <2> QED
    BY <1>3, <2>3, <2>4, <2>5, <2>6 DEF ControlRecv, TypeOK
<1>4. CASE ControlInject
  <2>1. (IF usingControl THEN held ELSE {}) \in SUBSET Inputs
    BY <1>0 DEF DesktopOK
  <2>2. DesktopOK'
    BY <1>0, <1>4, <1>a, <2>1, InjectType DEF ControlInject, Paths
  <2>3. WorkerOK'
    BY <1>0, <1>4, WorkerMoves DEF ControlInject, Paths
  <2> QED
    BY <1>4, <2>2, <2>3 DEF ControlInject, TypeOK
<1>5. ASSUME NEW w \in {"fast", "reliable"}, RtcInject(w) PROVE TypeOK'
  <2>1. w \in Paths /\ held \in SUBSET Inputs /\ usingControl \in BOOLEAN
    BY <1>0 DEF Paths, DesktopOK
  <2>2. DesktopOK'
    <3>1. CASE UNCHANGED desktop
      BY <3>1
    <3>2. CASE Inject(worker[w].packet, held) /\ UNCHANGED usingControl
      BY <1>0, <1>a, <2>1, <3>2, InjectType
    <3> QED
      BY <1>5, <3>1, <3>2 DEF RtcInject
  <2>3. WorkerOK'
    BY <1>0, <1>5, <2>1, WorkerMoves DEF RtcInject
  <2> QED
    BY <1>5, <2>2, <2>3 DEF RtcInject, TypeOK
<1> QED
  BY <1>1, <1>2, <1>3, <1>4, <1>5 DEF Receivers

\* Type correctness: every queue holds packets of the keys and buttons there
\* are, and what is held on the desktop is one of them, whatever the receivers
\* are doing.
THEOREM TypeCorrect == Spec => []TypeOK
<1>1. TypeOK /\ [Next]_vars => TypeOK'
  <2> SUFFICES ASSUME TypeOK, [Next]_vars PROVE TypeOK'
    OBVIOUS
  <2>1. CASE UNCHANGED vars
    BY <2>1, Kept DEF vars, TypeOK
  <2> QED
    BY <2>1, UserTypeOK, NetworkTypeOK, ReceiversTypeOK DEF Next
<1> QED
  BY <1>1, InitTypeOK, PTL DEF Spec

-----------------------------------------------------------------------------
(* Injection *)

\* One injection keeps the watermark and the cursor at or after the last click.
LEMMA InjectOrder ==
    ASSUME DesktopOK, MovesNeverUndoClicks, NEW p \in Packet, NEW keys, Inject(p, keys)
    PROVE  MovesNeverUndoClicks'
  <1>1. p.at \in Nat /\ (IsMove(p) <=> p.key \notin Inputs) /\ (IsMove(p) => HasPosition(p))
    BY KeysAssumption DEF Packet, IsMove, HasPosition, Inputs
  <1>2. CASE StaleMove(p)
    BY <1>2 DEF Inject, MovesNeverUndoClicks
  <1>3. CASE ~StaleMove(p) /\ p.key \in Buttons
    BY <1>1, <1>3 DEF Inject, MovesNeverUndoClicks, DesktopOK, HasPosition
  <1>4. CASE ~StaleMove(p) /\ IsMove(p)
    BY <1>1, <1>4 DEF Inject, MovesNeverUndoClicks, DesktopOK, StaleMove, Inputs
  <1>5. CASE ~StaleMove(p) /\ ~IsMove(p) /\ p.key \notin Buttons
    BY <1>1, <1>5 DEF Inject, MovesNeverUndoClicks, DesktopOK, HasPosition, IsMove
  <1> QED
    BY <1>2, <1>3, <1>4, <1>5

\* A move never undoes a click: whichever receiver injects it, however late,
\* the cursor and the watermark of is_stale_move stay at or after the last
\* button packet.
THEOREM ClicksStand == Spec => []MovesNeverUndoClicks
<1>1. Init => MovesNeverUndoClicks
  BY DEF Init, MovesNeverUndoClicks
<1>2. TypeOK /\ MovesNeverUndoClicks /\ [Next]_vars => MovesNeverUndoClicks'
  <2> SUFFICES ASSUME TypeOK, MovesNeverUndoClicks, [Next]_vars
               PROVE  MovesNeverUndoClicks'
    OBVIOUS
  <2>0. DesktopOK /\ \A w \in Paths : worker[w].packet \in Packet
    BY DEF TypeOK, WorkerOK
  <2>1. CASE UNCHANGED desktop \/ ReleaseHeld
    BY <2>1 DEF desktop, ReleaseHeld, MovesNeverUndoClicks
  <2>2. CASE User \/ Network \/ UNCHANGED vars
    BY <2>1, <2>2 DEF User, Network, vars, StartInput, MovePointer, Wheel, Blur,
       FallbackInput, CloseSession, Press, Release, MissedRelease, ChannelsOpen,
       ChannelsClose, LoseRest, MediaConnected, MediaDisconnected, Retire,
       InputPeerCloses, DropSession
  <2>3. CASE FastPoll \/ ReliablePoll \/ ReliableClosed \/ ControlRecv
    BY <2>1, <2>3 DEF FastPoll, ReliablePoll, ReliableClosed, EndReliable, ControlRecv
  <2>4. CASE ControlInject
    BY <2>0, <2>4, InjectOrder DEF ControlInject, Paths
  <2>5. ASSUME NEW w \in {"fast", "reliable"}, RtcInject(w) PROVE MovesNeverUndoClicks'
    <3>1. UNCHANGED desktop \/ Inject(worker[w].packet, held)
      BY <2>5 DEF RtcInject
    <3>2. w \in Paths
      BY DEF Paths
    <3> QED
      BY <2>0, <2>1, <3>1, <3>2, InjectOrder
  <2> QED
    BY <2>2, <2>3, <2>4, <2>5 DEF Next, Receivers
<1> QED
  BY <1>1, <1>2, TypeCorrect, PTL DEF Spec

\* The fallback's promise (input/mod.rs, inject_control): once the control
\* path has taken over, only its own receiver changes what is held.
THEOREM FallbackIsSafe == Spec => FallbackKeysSurvive
<1>1. TypeOK /\ [Next]_vars =>
        [usingControl /\ worker'["control"] = worker["control"] => held' = held]_vars
  <2> SUFFICES ASSUME TypeOK, [Next]_vars, usingControl,
                      worker'["control"] = worker["control"]
               PROVE  held' = held
    OBVIOUS
  <2>0. "control" \in Paths /\ worker \in [Paths -> [pc : {"absent", "poll", "inject", "ended"},
                                                     packet : Packet]]
    BY DEF TypeOK, WorkerOK, Paths
  <2>1. CASE UNCHANGED desktop
    BY <2>1 DEF desktop
  <2>2. CASE User \/ Network \/ UNCHANGED vars
    BY <2>1, <2>2 DEF User, Network, vars, StartInput, MovePointer, Wheel, Blur,
       FallbackInput, CloseSession, Press, Release, MissedRelease, ChannelsOpen,
       ChannelsClose, LoseRest, MediaConnected, MediaDisconnected, Retire,
       InputPeerCloses, DropSession
  <2>3. CASE FastPoll \/ ReliablePoll \/ ReliableClosed
    BY <2>1, <2>3 DEF FastPoll, ReliablePoll, ReliableClosed, EndReliable, RtcReleases
  <2>4. CASE ControlRecv
    <3>1. ASSUME To("control", "ended"), worker["control"].pc = "poll" PROVE FALSE
      BY <2>0, <3>1 DEF To
    <3> QED
      BY <2>1, <2>4, <3>1 DEF ControlRecv
  <2>5. CASE ControlInject
    <3>1. To("control", "poll") /\ worker["control"].pc = "inject"
      BY <2>5 DEF ControlInject
    <3> QED
      BY <2>0, <3>1 DEF To
  <2>6. ASSUME NEW w \in {"fast", "reliable"}, RtcInject(w) PROVE held' = held
    BY <2>1, <2>6 DEF RtcInject, Ignored
  <2> QED
    BY <2>2, <2>3, <2>4, <2>5, <2>6 DEF Next, Receivers
<1> QED
  BY <1>1, TypeCorrect, PTL DEF Spec, FallbackKeysSurvive

-----------------------------------------------------------------------------
(* Packets on their way: in a queue or with its receiver *)

Pending(q, r) == ToSet(q) \cup (IF r.pc = "inject" THEN {r.packet} ELSE {})

InReliable == Pending(reliable, worker["reliable"])
InControl  == Pending(control, worker["control"])

\* In the order of their timestamps
Rising(q) == \A i, j \in DOMAIN q : i < j => q[i].at < q[j].at

InOrder(q, r) == Rising(q) /\ (r.pc = "inject" => \A p \in ToSet(q) : r.packet.at < p.at)

LEMMA ElementsType == ASSUME NEW q \in Seq(Packet) PROVE ToSet(q) \subseteq Packet
  BY DEF ToSet

LEMMA ElementsOfNone == ToSet(<<>>) = {} /\ Rising(<<>>)
  BY DEF ToSet, Rising

LEMMA ElementsOfOne == ASSUME NEW p \in Packet PROVE ToSet(<<p>>) = {p} /\ Rising(<<p>>)
  <1>1. DOMAIN <<p>> = {1} /\ <<p>>[1] = p
    OBVIOUS
  <1>2. ToSet(<<p>>) = {p}
    BY <1>1 DEF ToSet
  <1>3. \A i, j \in {1} : ~(i < j)
    OBVIOUS
  <1>. QED  BY <1>1, <1>2, <1>3 DEF Rising

LEMMA ElementsOfBoth ==
    ASSUME NEW q \in Seq(Packet), NEW ps \in Seq(Packet)
    PROVE  /\ ToSet(q \o ps) = ToSet(q) \cup ToSet(ps)
           /\ Rising(q) /\ Rising(ps) /\ (\A p \in ToSet(q), o \in ToSet(ps) : p.at < o.at)
                 => Rising(q \o ps)
  <1> DEFINE s == q \o ps
  <1>1. /\ Len(q) \in Nat /\ Len(ps) \in Nat /\ DOMAIN q = 1..Len(q) /\ DOMAIN ps = 1..Len(ps)
        /\ DOMAIN s = 1..(Len(q) + Len(ps))
    BY ConcatProperties, LenProperties
  <1>2. \A i \in DOMAIN s : s[i] = IF i <= Len(q) THEN q[i] ELSE ps[i - Len(q)]
    BY <1>1, ConcatProperties
  <1> HIDE DEF s
  <1>3. \A i \in DOMAIN s : \/ i \in DOMAIN q /\ s[i] = q[i] /\ i <= Len(q)
                            \/ i - Len(q) \in DOMAIN ps /\ s[i] = ps[i - Len(q)] /\ i > Len(q)
    BY <1>1, <1>2
  <1>4. \A i \in DOMAIN q : i \in DOMAIN s /\ s[i] = q[i]
    BY <1>1, <1>2
  <1>5. ASSUME NEW i \in DOMAIN ps PROVE \E j \in DOMAIN s : s[j] = ps[i]
    <2>1. Len(q) + i \in DOMAIN s /\ ~(Len(q) + i <= Len(q)) /\ (Len(q) + i) - Len(q) = i
      BY <1>1
    <2>. QED  BY <1>2, <2>1
  <1>6. ToSet(s) = ToSet(q) \cup ToSet(ps)
    <2>1. ToSet(s) \subseteq ToSet(q) \cup ToSet(ps)
      BY <1>3 DEF ToSet
    <2>2. ToSet(q) \subseteq ToSet(s) /\ ToSet(ps) \subseteq ToSet(s)
      BY <1>4, <1>5 DEF ToSet
    <2>. QED  BY <2>1, <2>2
  <1>7. ASSUME Rising(q), Rising(ps), \A p \in ToSet(q), o \in ToSet(ps) : p.at < o.at
        PROVE  Rising(s)
    <2> SUFFICES ASSUME NEW i \in DOMAIN s, NEW j \in DOMAIN s, i < j PROVE s[i].at < s[j].at
      BY DEF Rising
    <2>1. CASE j <= Len(q)
      <3>1. i \in DOMAIN q /\ j \in DOMAIN q
        BY <1>1, <2>1
      <3>. QED  BY <1>4, <1>7, <3>1 DEF Rising
    <2>2. CASE i > Len(q)
      <3>1. /\ i - Len(q) \in DOMAIN ps /\ s[i] = ps[i - Len(q)]
            /\ j - Len(q) \in DOMAIN ps /\ s[j] = ps[j - Len(q)]
            /\ i - Len(q) < j - Len(q)
        BY <1>1, <1>3, <2>2
      <3>. QED  BY <1>7, <3>1 DEF Rising
    <2>3. CASE i <= Len(q) /\ j > Len(q)
      <3>1. s[i] \in ToSet(q)
        BY <1>1, <1>3, <2>3 DEF ToSet
      <3>2. s[j] \in ToSet(ps)
        BY <1>1, <1>3, <2>3 DEF ToSet
      <3>. QED  BY <1>7, <3>1, <3>2
    <2>. QED  BY <1>1, <2>1, <2>2, <2>3
  <1>. QED  BY <1>6, <1>7 DEF s

LEMMA ElementsOfTail ==
    ASSUME NEW q \in Seq(Packet), q # <<>>
    PROVE  /\ ToSet(q) = {Head(q)} \cup ToSet(Tail(q))
           /\ Rising(q) => Rising(Tail(q)) /\ \A p \in ToSet(Tail(q)) : Head(q).at < p.at
  <1> DEFINE t == Tail(q)
  <1>1. /\ Len(q) \in Nat /\ Len(q) > 0 /\ DOMAIN q = 1..Len(q)
        /\ t \in Seq(Packet) /\ Len(t) = Len(q) - 1 /\ Head(q) = q[1]
        /\ \A i \in 1..Len(t) : t[i] = q[i + 1]
    BY HeadTailProperties, LenProperties, EmptySeq
  <1>2. DOMAIN t = 1..(Len(q) - 1)
    BY <1>1, LenProperties
  <1> HIDE DEF t
  <1>3. \A i \in DOMAIN t : i + 1 \in DOMAIN q /\ t[i] = q[i + 1] /\ 1 < i + 1
    BY <1>1, <1>2
  <1>4. ASSUME NEW i \in DOMAIN q, i # 1 PROVE \E j \in DOMAIN t : q[i] = t[j]
    <2>1. i - 1 \in DOMAIN t /\ (i - 1) + 1 = i
      BY <1>1, <1>2, <1>4
    <2>. QED  BY <1>3, <2>1
  <1>5. 1 \in DOMAIN q
    BY <1>1
  <1>6. ToSet(q) = {Head(q)} \cup ToSet(t)
    <2>1. \A x \in ToSet(q) : x = Head(q) \/ x \in ToSet(t)
      BY <1>1, <1>4 DEF ToSet
    <2>2. Head(q) \in ToSet(q) /\ \A x \in ToSet(t) : x \in ToSet(q)
      BY <1>1, <1>3, <1>5 DEF ToSet
    <2>. QED  BY <2>1, <2>2
  <1>7. ASSUME Rising(q) PROVE Rising(t) /\ \A p \in ToSet(t) : Head(q).at < p.at
    <2>1. \A i, j \in DOMAIN t : i < j => i + 1 < j + 1
      BY <1>2
    <2>. QED  BY <1>1, <1>3, <1>5, <1>7, <2>1 DEF Rising, ToSet
  <1>. QED  BY <1>6, <1>7 DEF t

-----------------------------------------------------------------------------
(* The two paths are used one after the other, and each in order *)

ModeInv ==
    /\ closing => input = "none" /\ Over
    /\ input = "rtc" => channels # "connecting"
    /\ InControl # {} \/ usingControl => input = "control" \/ closing

\* input-fast carries moves only.
MovesInv == (\A p \in fast : IsMove(p)) /\ IsMove(worker["fast"].packet)

\* What is on its way comes after what was injected, and the control path's
\* packets after those of input-reliable.
OrderInv ==
    /\ InOrder(reliable, worker["reliable"]) /\ InOrder(control, worker["control"])
    /\ transition <= clock /\ \A p \in InReliable \cup InControl : p.at <= clock
    /\ \A p \in InReliable, q \in InControl : p.at < q.at
    /\ \A q \in InControl : transition < q.at
    /\ ~usingControl => \A p \in InReliable : transition < p.at

PathInv == TypeOK /\ ModeInv /\ MovesInv /\ OrderInv

\* What the browser's steps do to the queues
Sends(ps) == /\ ps \in Seq(Packet) /\ Rising(ps)
             /\ \A p \in ToSet(ps) : clock < p.at /\ p.at <= clock'
             /\ clock <= clock' /\ SendAll(ps)
             /\ UNCHANGED <<worker, desktop>>

SendsNothing == UNCHANGED <<reliable, control, clock, worker, desktop>>

LEMMA SendingNone == ASSUME TypeOK, SendsNothing PROVE Sends(<<>>)
  <1>1. reliable \o <<>> = reliable /\ control \o <<>> = control
    BY ConcatEmptySeq DEF TypeOK, QueuesOK
  <1>2. clock <= clock'
    BY DEF SendsNothing, TypeOK, BrowserOK
  <1>. QED  BY <1>1, <1>2, ElementsOfNone DEF SendsNothing, Sends, SendAll

LEMMA SendingOne ==
    ASSUME TypeOK, NEW p \in Packet, p.at = clock + 1, clock' = clock + 1,
           SendAll(<<p>>), UNCHANGED <<worker, desktop>>
    PROVE  Sends(<<p>>)
  <1>1. clock \in Nat
    BY DEF TypeOK, BrowserOK
  <1>2. <<p>> \in Seq(Packet)
    OBVIOUS
  <1>. QED  BY <1>1, <1>2, ElementsOfOne DEF Sends

\* The release of every key that passes for pressed: a packet for each of them
LEMMA SendingReleases ==
    ASSUME TypeOK, ReleaseAll, UNCHANGED <<worker, desktop>>
    PROVE  \E ps : /\ Sends(ps) /\ \A p \in ToSet(ps) : ~p.down
                   /\ \A k \in pressed : \E p \in ToSet(ps) : p.key = k
  <1> DEFINE n == Cardinality(pressed)
  <1>1. n \in Nat /\ IsFiniteSet(pressed) /\ clock \in Nat /\ pressed \subseteq Inputs
    BY KeysAssumption, FS_Subset, FS_CardinalityType DEF TypeOK, BrowserOK, Inputs
  <1>2. PICK order \in SetToSeqs(pressed) :
            SendAll([i \in DOMAIN order |-> Transition(order[i], FALSE, clock + i)])
    BY DEF ReleaseAll
  <1>3. order \in [1..n -> pressed] /\ \A i, j \in 1..n : i # j => order[i] # order[j]
    BY <1>2 DEF SetToSeqs
  <1>4. \A k \in pressed : \E i \in 1..n : order[i] = k
    <2>1. order \in Injection(1..n, pressed)
      BY <1>3 DEF Injection, IsInjective
    <2>2. Cardinality(1..n) = n
      BY <1>1, FS_Interval
    <2>3. order \in Surjection(1..n, pressed)
      BY <1>1, <2>1, <2>2, FS_Injection
    <2>. QED  BY <2>3 DEF Surjection
  <1>5. clock' = clock + n
    BY DEF ReleaseAll
  <1> HIDE DEF n
  <1> DEFINE ps == [i \in 1..n |-> Transition(order[i], FALSE, clock + i)]
  <1>6. SendAll(ps)
    BY <1>2, <1>3
  <1>7. \A i \in 1..n : clock + i \in Nat \ {0} /\ clock < clock + i /\ clock + i <= clock'
    BY <1>1, <1>5
  <1>8. \A i \in 1..n : ps[i] \in Packet
    BY <1>1, <1>3, <1>7, PacketTypes
  <1>9. ps \in [1..n -> Packet]
    BY <1>8
  <1>10. ps \in Seq(Packet) /\ DOMAIN ps = 1..n
    <2> HIDE DEF ps
    <2>. QED  BY ONLY <1>1, <1>9, SeqDef
  <1>11. \A i \in 1..n : ps[i].at = clock + i /\ ps[i].key = order[i] /\ ~ps[i].down
    BY DEF Transition
  <1> HIDE DEF ps
  <1>12. Rising(ps)
    BY <1>1, <1>10, <1>11 DEF Rising
  <1>13. \A p \in ToSet(ps) : clock < p.at /\ p.at <= clock' /\ ~p.down
    BY <1>7, <1>10, <1>11 DEF ToSet
  <1>14. \A k \in pressed : \E p \in ToSet(ps) : p.key = k
    BY <1>4, <1>10, <1>11 DEF ToSet
  <1>15. clock <= clock'
    BY <1>1, <1>5
  <1>. QED  BY <1>6, <1>10, <1>12, <1>13, <1>14, <1>15 DEF Sends

\* A queue that gets packets stays in order.
LEMMA OrderAppend ==
    ASSUME NEW q \in Seq(Packet), NEW r, InOrder(q, r), NEW c \in Nat,
           \A p \in Pending(q, r) : p.at <= c /\ p.at \in Nat,
           NEW ps \in Seq(Packet), Rising(ps), \A p \in ToSet(ps) : c < p.at
    PROVE  /\ InOrder(q \o ps, r)
           /\ Pending(q \o ps, r) = Pending(q, r) \cup ToSet(ps)
  <1>1. ToSet(q \o ps) = ToSet(q) \cup ToSet(ps)
    BY ElementsOfBoth
  <1>2. \A p \in Pending(q, r), o \in ToSet(ps) : p.at < o.at
    <2>1. \A o \in ToSet(ps) : o.at \in Nat
      BY ElementsType DEF Packet
    <2>. QED  BY <2>1
  <1>3. Rising(q \o ps)
    BY <1>2, ElementsOfBoth DEF InOrder, Pending
  <1>4. r.pc = "inject" => \A p \in ToSet(q) \cup ToSet(ps) : r.packet.at < p.at
    BY <1>2 DEF InOrder, Pending
  <1>. QED  BY <1>1, <1>3, <1>4 DEF InOrder, Pending

LEMMA PendingType ==
    ASSUME TypeOK
    PROVE  /\ reliable \in Seq(Packet) /\ control \in Seq(Packet) /\ clock \in Nat
           /\ transition \in Nat /\ usingControl \in BOOLEAN
           /\ \A w \in Paths : worker[w].packet \in Packet
           /\ \A p \in InReliable \cup InControl : p \in Packet /\ p.at \in Nat
  <1>1. /\ reliable \in Seq(Packet) /\ control \in Seq(Packet) /\ clock \in Nat
        /\ transition \in Nat /\ usingControl \in BOOLEAN
        /\ \A w \in Paths : worker[w].packet \in Packet
    BY DEF TypeOK, QueuesOK, BrowserOK, DesktopOK, WorkerOK
  <1>2. \A p \in InReliable \cup InControl : p \in Packet
    BY <1>1, ElementsType DEF InReliable, InControl, Pending, Paths
  <1>. QED  BY <1>1, <1>2 DEF Packet

LEMMA SendsEffect ==
    ASSUME PathInv, TypeOK', NEW ps, Sends(ps)
    PROVE  /\ \/ InReliable' = InReliable
              \/ input = "rtc" /\ channels \in {"open", "half"}
                 /\ InReliable' = InReliable \cup ToSet(ps)
           /\ \/ InControl' = InControl
              \/ input = "control" /\ InControl' = InControl \cup ToSet(ps)
           /\ input = "control" => InControl' = InControl \cup ToSet(ps)
           /\ input = "rtc" /\ channels = "open" => InReliable' = InReliable \cup ToSet(ps)
           /\ OrderInv'
  <1>1. /\ reliable \in Seq(Packet) /\ control \in Seq(Packet) /\ clock \in Nat
        /\ transition \in Nat
        /\ \A p \in InReliable \cup InControl : p.at <= clock /\ p.at \in Nat
    BY PendingType DEF PathInv, OrderInv
  <1>2. /\ ps \in Seq(Packet) /\ Rising(ps) /\ clock <= clock' /\ worker' = worker
        /\ \A p \in ToSet(ps) : clock < p.at /\ p.at <= clock' /\ p.at \in Nat
        /\ transition' = transition /\ usingControl' = usingControl
    BY ElementsType DEF Sends, desktop, Packet
  <1>5. InOrder(reliable, worker["reliable"]) /\ InOrder(control, worker["control"])
    BY DEF PathInv, OrderInv
  <1>3. /\ InOrder(reliable \o ps, worker["reliable"])
        /\ Pending(reliable \o ps, worker["reliable"]) = InReliable \cup ToSet(ps)
    <2>1. Pending(reliable, worker["reliable"]) = InReliable
      BY DEF InReliable
    <2>2. \A p \in Pending(reliable, worker["reliable"]) : p.at <= clock /\ p.at \in Nat
      BY ONLY <1>1, <2>1
    <2>3. \A p \in ToSet(ps) : clock < p.at
      BY ONLY <1>2
    <2>4. /\ InOrder(reliable, worker["reliable"]) /\ reliable \in Seq(Packet) /\ clock \in Nat
          /\ ps \in Seq(Packet) /\ Rising(ps)
      BY ONLY <1>1, <1>2, <1>5
    <2>. QED  BY ONLY <2>1, <2>2, <2>3, <2>4, OrderAppend
  <1>4. /\ InOrder(control \o ps, worker["control"])
        /\ Pending(control \o ps, worker["control"]) = InControl \cup ToSet(ps)
    <2>1. Pending(control, worker["control"]) = InControl
      BY DEF InControl
    <2>2. \A p \in Pending(control, worker["control"]) : p.at <= clock /\ p.at \in Nat
      BY ONLY <1>1, <2>1
    <2>3. \A p \in ToSet(ps) : clock < p.at
      BY ONLY <1>2
    <2>4. /\ InOrder(control, worker["control"]) /\ control \in Seq(Packet) /\ clock \in Nat
          /\ ps \in Seq(Packet) /\ Rising(ps)
      BY ONLY <1>1, <1>2, <1>5
    <2>. QED  BY ONLY <2>1, <2>2, <2>3, <2>4, OrderAppend
  <1>6. clock' \in Nat
    BY DEF TypeOK, BrowserOK
  <1>7. transition' <= clock'
    BY <1>1, <1>2, <1>6 DEF PathInv, OrderInv
  <1>8. /\ \A p \in InReliable, q \in InControl : p.at < q.at
        /\ \A q \in InControl : transition < q.at
        /\ ~usingControl => \A p \in InReliable : transition < p.at
    BY DEF PathInv, OrderInv
  <1>9. \A p \in ToSet(ps) : transition < p.at /\ p.at <= clock'
    BY <1>1, <1>2, <1>6 DEF PathInv, OrderInv
  <1>10. \A p \in InReliable \cup InControl : p.at <= clock'
    BY <1>1, <1>2, <1>6
  <1>11. CASE input = "control"
    <2>1. control' = control \o ps /\ reliable' = reliable
      BY <1>11 DEF Sends, SendAll
    <2>2. InReliable' = InReliable /\ InControl' = InControl \cup ToSet(ps)
      BY <1>2, <1>4, <2>1 DEF InReliable, InControl
    <2>3. \A p \in InReliable, q \in ToSet(ps) : p.at < q.at
      BY <1>1, <1>2
    <2>4. InOrder(reliable', worker'["reliable"]) /\ InOrder(control', worker'["control"])
      BY <1>2, <1>4, <1>5, <2>1
    <2>5. OrderInv'
      BY <1>2, <1>7, <1>8, <1>9, <1>10, <2>2, <2>3, <2>4 DEF OrderInv
    <2>. QED  BY <1>11, <2>2, <2>5
  <1>12. CASE input = "rtc" /\ channels \in {"open", "half"}
    <2>1. reliable' = reliable \o ps /\ control' = control
      BY <1>12 DEF Sends, SendAll
    <2>2. InControl' = InControl /\ InReliable' = InReliable \cup ToSet(ps)
      BY <1>2, <1>3, <2>1 DEF InReliable, InControl
    <2>3. InControl = {}
      BY <1>12 DEF PathInv, ModeInv
    <2>4. InOrder(reliable', worker'["reliable"]) /\ InOrder(control', worker'["control"])
      BY <1>2, <1>3, <1>5, <2>1
    <2>5. OrderInv'
      BY <1>2, <1>7, <1>8, <1>9, <1>10, <2>2, <2>3, <2>4 DEF OrderInv
    <2>. QED  BY <1>12, <2>2, <2>5
  <1>13. CASE input # "control" /\ ~(input = "rtc" /\ channels \in {"open", "half"})
    <2>1. reliable' = reliable /\ control' = control
      BY <1>13 DEF Sends, SendAll
    <2>2. InControl' = InControl /\ InReliable' = InReliable
      BY <1>2, <2>1 DEF InReliable, InControl
    <2>4. InOrder(reliable', worker'["reliable"]) /\ InOrder(control', worker'["control"])
      BY <1>2, <1>5, <2>1
    <2>5. OrderInv'
      BY <1>2, <1>7, <1>8, <1>10, <2>2, <2>4 DEF OrderInv
    <2>. QED  BY <1>13, <2>2, <2>5
  <1>. QED  BY <1>11, <1>12, <1>13

\* A key or button whose release is lost, or is still to come
Accounted(k) == k \in lost \/ k \in pressed \/ k \in fingers \cap Buttons

\* What is not accounted for after a step was not before it, or is released by it.
Accounts(ps) ==
    \A k \in Inputs :
        \/ Accounted(k)'
        \/ /\ \A p \in ToSet(ps) : p.key = k => ~p.down
           /\ Accounted(k) => \E p \in ToSet(ps) : p.key = k

LEMMA AccountsNone ==
    ASSUME \A k \in Inputs : Accounted(k) => Accounted(k)'
    PROVE  Accounts(<<>>)
  BY ElementsOfNone DEF Accounts

LEMMA AccountsOne ==
    ASSUME NEW p \in Packet,
           \A k \in Inputs : Accounted(k)' \/ (~Accounted(k) /\ p.key # k) \/ (p.key = k /\ ~p.down)
    PROVE  Accounts(<<p>>)
  BY ElementsOfOne DEF Accounts

\* Every step of the browser sends some packets, or none.
LEMMA UserSends ==
    ASSUME TypeOK, User
    PROVE  /\ \E ps : Sends(ps) /\ (input = "none" \/ closing' \/ Accounts(ps))
           /\ usingControl' = usingControl /\ worker' = worker
           /\ fast' = fast \/ \E at : fast' = fast \cup {Move(at)}
  <1>1. clock \in Nat /\ clock + 1 \in Nat \ {0}
    BY DEF TypeOK, BrowserOK
  <1>2. usingControl' = usingControl /\ worker' = worker
    BY DEF User, StartInput, MovePointer, Wheel, Blur, FallbackInput, CloseSession, Press,
           Release, MissedRelease, desktop
  <1>3. fast' = fast \/ \E at : fast' = fast \cup {Move(at)}
    BY DEF User, StartInput, MovePointer, Wheel, Blur, FallbackInput, CloseSession, Press,
           Release, MissedRelease, queues
  <1> SUFFICES \E ps : Sends(ps) /\ (input = "none" \/ closing' \/ Accounts(ps))
    BY <1>2, <1>3
  <1>4. CASE StartInput
    <2>1. input = "none" /\ SendsNothing
      BY <1>4 DEF StartInput, queues, SendsNothing
    <2>. QED  BY <2>1, SendingNone
  <1>5. ASSUME NEW k \in Inputs, MissedRelease(k)
        PROVE  \E ps : Sends(ps) /\ (input = "none" \/ closing' \/ Accounts(ps))
    <2>1. SendsNothing
      BY <1>5 DEF MissedRelease, queues, SendsNothing
    <2>2. \A j \in Inputs : Accounted(j) => Accounted(j)'
      BY <1>5 DEF MissedRelease, Accounted
    <2>. QED  BY <2>1, <2>2, SendingNone, AccountsNone
  <1>6. CASE Blur \/ FallbackInput \/ CloseSession
    <2>1. ReleaseAll /\ UNCHANGED <<worker, desktop>>
      BY <1>6 DEF Blur, FallbackInput, CloseSession
    <2> PICK ps : /\ Sends(ps) /\ \A p \in ToSet(ps) : ~p.down
                  /\ \A k \in pressed : \E p \in ToSet(ps) : p.key = k
      BY <2>1, SendingReleases
    <2>2. CASE CloseSession
      BY <2>2 DEF CloseSession
    <2>3. CASE Blur \/ FallbackInput
      <3>1. fingers \ Keys \subseteq fingers' /\ lost' = lost
        BY <2>3 DEF Blur, FallbackInput, session
      <3>2. \A k \in Inputs : Accounted(k) /\ ~Accounted(k)' => k \in pressed
        BY <3>1, KeysAssumption DEF Accounted, Inputs
      <3>3. Accounts(ps)
        BY <3>2 DEF Accounts
      <3>. QED  BY <3>3
    <2>. QED  BY <1>6, <2>2, <2>3
  <1>7. ASSUME NEW k \in Inputs, Press(k)
        PROVE  \E ps : Sends(ps) /\ (input = "none" \/ closing' \/ Accounts(ps))
    <2>1. /\ Transition(k, TRUE, clock + 1) \in Packet
          /\ Transition(k, TRUE, clock + 1).at = clock + 1
          /\ Transition(k, TRUE, clock + 1).key = k
      BY <1>1, PacketTypes DEF Transition
    <2>2. UNCHANGED <<worker, desktop, lost>> /\ fingers' = fingers \cup {k}
      BY <1>7 DEF Press, session
    <2>4. CASE pressed' = pressed /\ SendsNothing
      <3>1. \A j \in Inputs : Accounted(j) => Accounted(j)'
        BY <2>2, <2>4 DEF Accounted
      <3>. QED  BY <2>4, <3>1, SendingNone, AccountsNone
    <2>5. CASE /\ clock' = clock + 1 /\ SendAll(<<Transition(k, TRUE, clock + 1)>>)
               /\ pressed' = pressed \cup ({k} \cap Keys)
      <3>1. \A j \in Inputs : Accounted(j)' \/ (~Accounted(j) /\ k # j)
        BY <2>2, <2>5 DEF Accounted, Inputs
      <3>2. Accounts(<<Transition(k, TRUE, clock + 1)>>)
        BY <2>1, <3>1, AccountsOne
      <3>3. Sends(<<Transition(k, TRUE, clock + 1)>>)
        BY <2>1, <2>2, <2>5, SendingOne
      <3>. QED  BY <3>2, <3>3
    <2>. QED  BY <1>7, <2>4, <2>5 DEF Press, SendsNothing
  <1>8. ASSUME NEW k \in Inputs, Release(k)
        PROVE  \E ps : Sends(ps) /\ (input = "none" \/ closing' \/ Accounts(ps))
    <2>1. /\ Transition(k, FALSE, clock + 1) \in Packet
          /\ Transition(k, FALSE, clock + 1).at = clock + 1
          /\ Transition(k, FALSE, clock + 1).key = k /\ ~Transition(k, FALSE, clock + 1).down
      BY <1>1, PacketTypes DEF Transition
    <2>2. UNCHANGED <<worker, desktop, lost>> /\ fingers' = fingers \ {k}
      BY <1>8 DEF Release, session
    <2>3. CASE input = "none" /\ SendsNothing
      BY <2>3, SendingNone
    <2>5. CASE k \in Keys /\ pressed' = pressed /\ SendsNothing
      <3>1. \A j \in Inputs : Accounted(j) => Accounted(j)'
        BY <2>2, <2>5, KeysAssumption DEF Accounted
      <3>. QED  BY <2>5, <3>1, SendingNone, AccountsNone
    <2>4. CASE /\ clock' = clock + 1 /\ SendAll(<<Transition(k, FALSE, clock + 1)>>)
               /\ pressed' = pressed \ {k}
      <3>1. \A j \in Inputs : Accounted(j)' \/ ~Accounted(j) \/ k = j
        BY <2>2, <2>4 DEF Accounted
      <3>2. Accounts(<<Transition(k, FALSE, clock + 1)>>)
        BY <2>1, <3>1, AccountsOne
      <3>3. Sends(<<Transition(k, FALSE, clock + 1)>>)
        BY <2>1, <2>2, <2>4, SendingOne
      <3>. QED  BY <3>2, <3>3
    <2>. QED  BY <1>8, <2>3, <2>4, <2>5, PasteAssumption DEF Release, MayPaste, SendsNothing
  <1>9. /\ Move(clock + 1) \in Packet /\ Move(clock + 1).at = clock + 1
        /\ \A k \in Inputs : Move(clock + 1).key # k
    BY <1>1, PacketTypes, KeysAssumption DEF Move, Inputs
  <1>10. ASSUME Wheel \/ MovePointer PROVE \A k \in Inputs : Accounted(k)' <=> Accounted(k)
    BY <1>10 DEF Wheel, MovePointer, Accounted, session
  <1>11. CASE Wheel
    <2>1. Accounts(<<Move(clock + 1)>>)
      BY <1>9, <1>10, <1>11, AccountsOne
    <2>2. Sends(<<Move(clock + 1)>>)
      BY <1>9, <1>11, SendingOne DEF Wheel
    <2>. QED  BY <2>1, <2>2
  <1>12. CASE MovePointer
    <2>1. clock' = clock + 1 /\ UNCHANGED <<worker, desktop>> /\ reliable' = reliable
      BY <1>12 DEF MovePointer
    <2>2. CASE input = "control"
      <3>1. control' = control \o <<Move(clock + 1)>>
        BY <1>9, <1>12, <2>2, AppendIsConcat DEF MovePointer, TypeOK, QueuesOK
      <3>2. Accounts(<<Move(clock + 1)>>)
        BY <1>9, <1>10, <1>12, AccountsOne
      <3>3. Sends(<<Move(clock + 1)>>)
        BY <1>9, <2>1, <2>2, <3>1, SendingOne DEF SendAll
      <3>. QED  BY <3>2, <3>3
    <2>3. CASE input = "rtc" /\ control' = control
      <3>1. reliable \o <<>> = reliable
        BY ConcatEmptySeq DEF TypeOK, QueuesOK
      <3>2. SendAll(<<>>) /\ clock <= clock'
        BY <1>1, <2>1, <2>3, <3>1 DEF SendAll
      <3>3. Sends(<<>>)
        BY <2>1, <3>2, ElementsOfNone DEF Sends
      <3>4. Accounts(<<>>)
        BY <1>10, <1>12, AccountsNone
      <3>. QED  BY <3>3, <3>4
    <2>. QED  BY <1>12, <2>2, <2>3 DEF MovePointer
  <1>. QED  BY <1>4, <1>5, <1>6, <1>7, <1>8, <1>11, <1>12 DEF User

LEMMA UserPath ==
    ASSUME PathInv, TypeOK', User
    PROVE  ModeInv' /\ MovesInv' /\ OrderInv'
  <1> PICK ps : Sends(ps)
    BY UserSends DEF PathInv
  <1>1. MovesInv'
    <2>1. \A at : IsMove(Move(at))
      BY DEF IsMove, Move
    <2>2. worker' = worker /\ (fast' = fast \/ \E at : fast' = fast \cup {Move(at)})
      BY UserSends DEF PathInv
    <2>. QED  BY <2>1, <2>2 DEF PathInv, MovesInv
  <1>2. /\ InControl' # {} => InControl # {} \/ input = "control"
        /\ usingControl' = usingControl
    BY SendsEffect, UserSends DEF PathInv
  <1>3. ModeInv
    BY DEF PathInv
  <1>4. ASSUME StartInput PROVE ModeInv'
    BY <1>2, <1>3, <1>4 DEF StartInput, ModeInv
  <1>5. ASSUME CloseSession PROVE ModeInv'
    <2>1. closing' /\ input' = "none" /\ Over'
      BY <1>5 DEF CloseSession, Over
    <2>. QED  BY <2>1 DEF ModeInv
  <1>6. ASSUME FallbackInput PROVE ModeInv'
    <2>1. InControl' = {} /\ ~usingControl' /\ ~closing'
      BY <1>2, <1>3, <1>6, SendsEffect DEF FallbackInput, ModeInv
    <2>2. input' # "rtc"
      BY <1>6 DEF FallbackInput
    <2>. QED  BY <2>1, <2>2 DEF ModeInv
  <1>7. ASSUME UNCHANGED <<input, closing, channels>> PROVE ModeInv'
    BY <1>2, <1>3, <1>7 DEF ModeInv, Over
  <1>8. UNCHANGED <<input, closing, channels>> \/ StartInput \/ CloseSession \/ FallbackInput
    BY DEF User, MovePointer, Wheel, Blur, Press, Release, MissedRelease
  <1>. QED  BY <1>1, <1>4, <1>5, <1>6, <1>7, <1>8, SendsEffect

\* The network loses packets at most.
LEMMA NetworkEffect ==
    ASSUME PathInv, Network
    PROVE  /\ UNCHANGED <<browser, control, fast, desktop>>
           /\ reliable' \in {reliable, <<>>}
           /\ reliable' # reliable => Over'
           /\ channels' = channels \/ channels' # "connecting"
           /\ closing => channels' = channels
           /\ \/ worker' = worker
              \/ /\ channels = "connecting" /\ channels' = "open"
                 /\ worker' = [w \in Paths |->
                       IF w = "control" THEN worker[w] ELSE [worker[w] EXCEPT !.pc = "poll"]]
  BY DEF Network, ChannelsOpen, ChannelsClose, LoseRest, MediaConnected, MediaDisconnected, Retire,
         InputPeerCloses, DropSession, queues, PathInv, ModeInv, Over

LEMMA NetworkPath ==
    ASSUME PathInv, Network
    PROVE  /\ ModeInv' /\ MovesInv' /\ OrderInv'
           /\ InReliable' \subseteq InReliable /\ InControl' = InControl
  <1>1. /\ ToSet(reliable') \subseteq ToSet(reliable)
        /\ Rising(reliable) => Rising(reliable')
    BY NetworkEffect, ElementsOfNone
  <1>2. worker'["control"] = worker["control"]
    BY NetworkEffect DEF Paths
  <1>3. /\ worker'["reliable"].pc = "inject" => worker'["reliable"] = worker["reliable"]
        /\ worker'["fast"].packet = worker["fast"].packet
    <2>1. ASSUME NEW w \in {"reliable", "fast"},
                 worker' = [v \in Paths |-> IF v = "control" THEN worker[v]
                                           ELSE [worker[v] EXCEPT !.pc = "poll"]]
          PROVE  worker'[w].pc = "poll" /\ worker'[w].packet = worker[w].packet
      <3>1. worker[w] \in [pc : {"absent", "poll", "inject", "ended"}, packet : Packet]
        BY DEF PathInv, TypeOK, WorkerOK, Paths
      <3>2. worker'[w] = [worker[w] EXCEPT !.pc = "poll"]
        BY <2>1 DEF Paths
      <3>. QED  BY <3>1, <3>2
    <2>. QED  BY <2>1, NetworkEffect
  <1>4. InReliable' \subseteq InReliable
    BY <1>1, <1>3 DEF InReliable, Pending
  <1>5. InControl' = InControl
    BY <1>2, NetworkEffect DEF InControl
  <1>6. InOrder(reliable', worker'["reliable"]) /\ InOrder(control', worker'["control"])
    <2>1. InOrder(reliable, worker["reliable"]) /\ InOrder(control, worker["control"])
      BY DEF PathInv, OrderInv
    <2>2. InOrder(reliable', worker'["reliable"])
      BY <1>1, <1>3, <2>1 DEF InOrder
    <2>3. control' = control
      BY NetworkEffect
    <2>. QED  BY <1>2, <2>1, <2>2, <2>3
  <1>7. clock' = clock /\ transition' = transition /\ usingControl' = usingControl
    BY NetworkEffect DEF browser, desktop
  <1>8. OrderInv'
    BY <1>4, <1>5, <1>6, <1>7 DEF PathInv, OrderInv
  <1>9. MovesInv'
    BY <1>3, NetworkEffect DEF PathInv, MovesInv
  <1>10. ModeInv'
    <2>1. closing' = closing /\ input' = input
      BY NetworkEffect DEF browser
    <2>2. closing => channels' = channels
      BY NetworkEffect
    <2>3. channels' = channels \/ channels' # "connecting"
      BY NetworkEffect
    <2>. QED  BY <1>5, <1>7, <2>1, <2>2, <2>3 DEF PathInv, ModeInv, Over
  <1>. QED  BY <1>4, <1>5, <1>8, <1>9, <1>10

LEMMA WorkerSteps ==
    ASSUME TypeOK, NEW w \in Paths
    PROVE  /\ \A pc : To(w, pc) => /\ worker'[w].pc = pc /\ IsMove(worker'[w].packet)
                                   /\ \A v \in Paths \ {w} : worker'[v] = worker[v]
           /\ \A p : Holding(w, p) => /\ worker'[w].pc = "inject" /\ worker'[w].packet = p
                                      /\ \A v \in Paths \ {w} : worker'[v] = worker[v]
  <1>1. DOMAIN worker = Paths
    BY DEF TypeOK, WorkerOK
  <1>. QED  BY <1>1 DEF To, Holding, Move, IsMove

\* A receiver takes the oldest packet of its queue: what is on its way stays.
LEMMA TakesHead ==
    ASSUME NEW q \in Seq(Packet), q # <<>>, NEW r, NEW s, InOrder(q, r),
           r.pc = "poll", s.pc = "inject", s.packet = Head(q)
    PROVE  InOrder(Tail(q), s) /\ Pending(Tail(q), s) = Pending(q, r)
  BY ElementsOfTail DEF InOrder, Pending

\* Or drops it.
LEMMA DropsHead ==
    ASSUME NEW q \in Seq(Packet), q # <<>>, NEW r, InOrder(q, r), r.pc = "poll"
    PROVE  /\ InOrder(Tail(q), r)
           /\ Pending(q, r) = Pending(Tail(q), r) \cup {Head(q)}
           /\ \A p \in Pending(Tail(q), r) : Head(q).at < p.at
  BY ElementsOfTail DEF InOrder, Pending

\* It injects the one it holds, the oldest on its way.
LEMMA InjectsFirst ==
    ASSUME NEW q \in Seq(Packet), NEW r, NEW s, InOrder(q, r), r.pc = "inject", s.pc = "poll"
    PROVE  /\ InOrder(q, s)
           /\ Pending(q, r) = Pending(q, s) \cup {r.packet}
           /\ \A p \in Pending(q, s) : r.packet.at < p.at
  BY DEF InOrder, Pending

\* A receiver that ends takes nothing.
LEMMA EndsEmpty ==
    ASSUME NEW q, NEW r, NEW s, r.pc = "poll", s.pc = "ended"
    PROVE  (InOrder(q, r) => InOrder(q, s)) /\ Pending(q, s) = Pending(q, r)
  BY DEF InOrder, Pending

\* What the receivers of input-reliable and of input_control do
ReliableTakes == /\ ~retired /\ InReliable' = InReliable /\ InOrder(reliable', worker'["reliable"])
                 /\ worker'["reliable"].pc = "inject"
                 /\ UNCHANGED <<control, desktop, lost, worker["control"], worker["fast"]>>

ReliableEnds == /\ InReliable' = InReliable /\ InOrder(reliable', worker'["reliable"])
                /\ worker'["reliable"].pc = "ended"
                /\ ~usingControl => held' = {}
                /\ usingControl => held' = held
                /\ UNCHANGED <<control, lost, usingControl, transition, worker["control"],
                               worker["fast"]>>

LEMMA ReliablePollEffect ==
    ASSUME PathInv, ReliablePoll \/ ReliableClosed
    PROVE  ReliableTakes \/ ReliableEnds
  <1>1. reliable \in Seq(Packet) /\ InOrder(reliable, worker["reliable"])
        /\ worker["reliable"].pc = "poll" /\ "reliable" \in Paths /\ control' = control
        /\ "control" \in Paths \ {"reliable"} /\ "fast" \in Paths \ {"reliable"} /\ lost' = lost
    BY PendingType DEF PathInv, OrderInv, ReliablePoll, ReliableClosed, Paths, session
  <1>2. CASE /\ reliable # <<>> /\ ~retired
             /\ Holding("reliable", Head(reliable))
             /\ reliable' = Tail(reliable)
             /\ UNCHANGED desktop
    <2>1. /\ worker'["reliable"].pc = "inject" /\ worker'["reliable"].packet = Head(reliable)
          /\ \A v \in Paths \ {"reliable"} : worker'[v] = worker[v]
      BY <1>1, <1>2, WorkerSteps DEF PathInv
    <2>2. /\ InOrder(Tail(reliable), worker'["reliable"])
          /\ Pending(Tail(reliable), worker'["reliable"]) = Pending(reliable, worker["reliable"])
      BY <1>1, <1>2, <2>1, TakesHead
    <2>3. InReliable' = InReliable
      BY <1>2, <2>2 DEF InReliable
    <2>. QED  BY <1>1, <1>2, <2>1, <2>2, <2>3 DEF ReliableTakes
  <1>3. CASE /\ To("reliable", "ended") /\ reliable' = reliable
             /\ IF RtcReleases THEN ReleaseHeld ELSE UNCHANGED desktop
    <2>1. /\ worker'["reliable"].pc = "ended"
          /\ \A v \in Paths \ {"reliable"} : worker'[v] = worker[v]
      BY <1>1, <1>3, WorkerSteps DEF PathInv
    <2>2. /\ InOrder(reliable, worker'["reliable"])
          /\ Pending(reliable, worker'["reliable"]) = Pending(reliable, worker["reliable"])
      BY <1>1, <2>1, EndsEmpty
    <2>3. InReliable' = InReliable
      BY <1>3, <2>2 DEF InReliable
    <2>4. /\ ~usingControl => held' = {}
          /\ usingControl => held' = held
          /\ UNCHANGED <<usingControl, transition>>
      BY <1>3 DEF RtcReleases, ReleaseHeld, desktop
    <2>. QED  BY <1>1, <1>3, <2>1, <2>2, <2>3, <2>4 DEF ReliableEnds
  <1>. QED  BY <1>2, <1>3 DEF ReliablePoll, ReliableClosed, EndReliable

ControlTakes == /\ InControl' = InControl /\ InOrder(control', worker'["control"])
                /\ UNCHANGED <<reliable, desktop, lost, worker["reliable"], worker["fast"]>>

ControlDrops(p) == /\ p \in Packet /\ InControl = InControl' \cup {p} /\ lost' = lost \cup ReleasedBy(p)
                   /\ InOrder(control', worker'["control"])
                   /\ UNCHANGED <<reliable, desktop, worker["reliable"], worker["fast"]>>

ControlEnds == /\ InControl' = InControl /\ InOrder(control', worker'["control"]) /\ held' = {}
               /\ UNCHANGED <<reliable, lost, usingControl, transition, worker["reliable"],
                              worker["fast"]>>

LEMMA ControlRecvEffect ==
    ASSUME PathInv, ControlRecv
    PROVE  ControlTakes \/ ControlEnds \/ \E p : ControlDrops(p)
  <1>1. control \in Seq(Packet) /\ InOrder(control, worker["control"])
        /\ worker["control"].pc = "poll" /\ "control" \in Paths /\ reliable' = reliable
        /\ "reliable" \in Paths \ {"control"} /\ "fast" \in Paths \ {"control"}
    BY PendingType DEF PathInv, OrderInv, ControlRecv, Paths
  <1>2. CASE /\ control # <<>> /\ control' = Tail(control) /\ UNCHANGED <<desktop, lost>>
             /\ Holding("control", Head(control))
    <2>1. /\ worker'["control"].pc = "inject" /\ worker'["control"].packet = Head(control)
          /\ \A v \in Paths \ {"control"} : worker'[v] = worker[v]
      BY <1>1, <1>2, WorkerSteps DEF PathInv
    <2>2. /\ InOrder(Tail(control), worker'["control"])
          /\ Pending(Tail(control), worker'["control"]) = Pending(control, worker["control"])
      BY <1>1, <1>2, <2>1, TakesHead
    <2>3. InControl' = InControl
      BY <1>2, <2>2 DEF InControl
    <2>. QED  BY <1>1, <1>2, <2>1, <2>2, <2>3 DEF ControlTakes
  <1>3. CASE /\ control # <<>> /\ control' = Tail(control) /\ UNCHANGED <<desktop, worker>>
             /\ lost' = lost \cup ReleasedBy(Head(control))
    <2>1. /\ InOrder(Tail(control), worker["control"])
          /\ Pending(control, worker["control"])
                = Pending(Tail(control), worker["control"]) \cup {Head(control)}
          /\ Head(control) \in Packet
      BY <1>1, <1>3, DropsHead
    <2>2. InControl = InControl' \cup {Head(control)}
      BY <1>3, <2>1 DEF InControl
    <2>3. InOrder(control', worker'["control"])
      BY <1>3, <2>1
    <2>. QED  BY <1>1, <1>3, <2>1, <2>2, <2>3 DEF ControlDrops
  <1>4. CASE To("control", "ended") /\ ReleaseHeld /\ UNCHANGED <<control, lost>>
    <2>1. /\ worker'["control"].pc = "ended"
          /\ \A v \in Paths \ {"control"} : worker'[v] = worker[v]
      BY <1>1, <1>4, WorkerSteps DEF PathInv
    <2>2. /\ InOrder(control, worker'["control"])
          /\ Pending(control, worker'["control"]) = Pending(control, worker["control"])
      BY <1>1, <2>1, EndsEmpty
    <2>3. InControl' = InControl
      BY <1>4, <2>2 DEF InControl
    <2>. QED  BY <1>1, <1>4, <2>1, <2>2, <2>3 DEF ControlEnds, ReleaseHeld
  <1>. QED  BY <1>2, <1>3, <1>4 DEF ControlRecv

\* The receiver of input-fast moves the cursor at most.
FastMoves == UNCHANGED <<reliable, control, lost, usingControl, transition, held,
                         worker["reliable"], worker["control"]>>

ReliableInjects(p) ==
    /\ p \in Packet /\ InReliable = InReliable' \cup {p} /\ \A q \in InReliable' : p.at < q.at
    /\ InOrder(reliable', worker'["reliable"]) /\ worker'["reliable"].pc = "poll"
    /\ IF usingControl THEN UNCHANGED desktop ELSE Inject(p, held) /\ UNCHANGED usingControl
    /\ UNCHANGED <<reliable, control, lost, worker["control"], worker["fast"]>>

ControlInjects(p) ==
    /\ p \in Packet /\ InControl = InControl' \cup {p} /\ \A q \in InControl' : p.at < q.at
    /\ InOrder(control', worker'["control"])
    /\ usingControl' = TRUE /\ Inject(p, IF usingControl THEN held ELSE {})
    /\ UNCHANGED <<reliable, control, lost, worker["reliable"], worker["fast"]>>

LEMMA InjectEffect ==
    ASSUME PathInv
    PROVE  /\ RtcInject("fast") => FastMoves /\ IsMove(worker'["fast"].packet)
           /\ RtcInject("reliable") => ReliableInjects(worker["reliable"].packet)
           /\ ControlInject => ControlInjects(worker["control"].packet)
  <1>1. /\ reliable \in Seq(Packet) /\ control \in Seq(Packet)
        /\ InOrder(reliable, worker["reliable"]) /\ InOrder(control, worker["control"])
        /\ "control" \in Paths /\ "reliable" \in Paths /\ "fast" \in Paths
        /\ \A w \in Paths : worker[w].packet \in Packet
    BY PendingType DEF PathInv, OrderInv, Paths
  <1>2. ASSUME RtcInject("fast") PROVE FastMoves /\ IsMove(worker'["fast"].packet)
    <2>1. /\ IsMove(worker'["fast"].packet) /\ worker'["reliable"] = worker["reliable"]
          /\ worker'["control"] = worker["control"]
      BY <1>1, <1>2, WorkerSteps DEF PathInv, RtcInject
    <2>2. UNCHANGED <<usingControl, transition, held>>
      <3>1. IsMove(worker["fast"].packet)
        BY DEF PathInv, MovesInv
      <3>2. UNCHANGED desktop \/ (Inject(worker["fast"].packet, held) /\ UNCHANGED usingControl)
        BY <1>2 DEF RtcInject
      <3>. QED  BY <3>1, <3>2 DEF Inject, desktop
    <2>3. UNCHANGED <<reliable, control, lost>>
      BY <1>2 DEF RtcInject, queues, session
    <2>. QED  BY <2>1, <2>2, <2>3 DEF FastMoves
  <1>3. ASSUME RtcInject("reliable") PROVE ReliableInjects(worker["reliable"].packet)
    <2> DEFINE p == worker["reliable"].packet
    <2>1. /\ worker'["reliable"].pc = "poll" /\ worker["reliable"].pc = "inject"
          /\ worker'["fast"] = worker["fast"] /\ worker'["control"] = worker["control"]
      BY <1>1, <1>3, WorkerSteps DEF PathInv, RtcInject
    <2>2. /\ InOrder(reliable, worker'["reliable"])
          /\ Pending(reliable, worker["reliable"]) = Pending(reliable, worker'["reliable"]) \cup {p}
          /\ \A q \in Pending(reliable, worker'["reliable"]) : p.at < q.at
      BY <1>1, <2>1, InjectsFirst
    <2>3. UNCHANGED <<reliable, control, lost>>
      BY <1>3 DEF RtcInject, queues, session
    <2>4. IF usingControl THEN UNCHANGED desktop ELSE Inject(p, held) /\ UNCHANGED usingControl
      BY <1>3 DEF RtcInject, Ignored
    <2>5. InReliable = InReliable' \cup {p} /\ \A q \in InReliable' : p.at < q.at
      BY <2>2, <2>3 DEF InReliable
    <2>. QED  BY <1>1, <2>1, <2>2, <2>3, <2>4, <2>5 DEF ReliableInjects
  <1>4. ASSUME ControlInject PROVE ControlInjects(worker["control"].packet)
    <2> DEFINE p == worker["control"].packet
    <2>1. /\ worker'["control"].pc = "poll" /\ worker["control"].pc = "inject"
          /\ worker'["fast"] = worker["fast"] /\ worker'["reliable"] = worker["reliable"]
      BY <1>1, <1>4, WorkerSteps DEF PathInv, ControlInject
    <2>2. /\ InOrder(control, worker'["control"])
          /\ Pending(control, worker["control"]) = Pending(control, worker'["control"]) \cup {p}
          /\ \A q \in Pending(control, worker'["control"]) : p.at < q.at
      BY <1>1, <2>1, InjectsFirst
    <2>3. UNCHANGED <<reliable, control, lost>>
      BY <1>4 DEF ControlInject, queues, session
    <2>4. usingControl' = TRUE /\ Inject(p, IF usingControl THEN held ELSE {})
      BY <1>4 DEF ControlInject
    <2>5. InControl = InControl' \cup {p} /\ \A q \in InControl' : p.at < q.at
      BY <2>2, <2>3 DEF InControl
    <2>. QED  BY <1>1, <2>1, <2>2, <2>3, <2>4, <2>5 DEF ControlInjects
  <1>. QED  BY <1>2, <1>3, <1>4

\* The receivers' steps, by what they do to the queues and to what is held
LEMMA ReceiverSteps ==
    ASSUME PathInv, Receivers
    PROVE  /\ UNCHANGED <<browser, channels>>
           /\ \/ FastMoves
              \/ ReliableTakes \/ ReliableEnds \/ \E p : ReliableInjects(p)
              \/ ControlTakes \/ ControlEnds \/ \E p : ControlDrops(p) \/ ControlInjects(p)
  <1>1. UNCHANGED <<browser, channels>>
    BY DEF Receivers, FastPoll, ReliablePoll, ReliableClosed, ControlRecv, ControlInject,
           RtcInject
  <1>2. ASSUME FastPoll PROVE FastMoves
    <2>1. \E p : To("fast", "ended") \/ Holding("fast", p)
      BY <1>2 DEF FastPoll
    <2>2. worker'["reliable"] = worker["reliable"] /\ worker'["control"] = worker["control"]
      BY <2>1, WorkerSteps DEF PathInv, Paths
    <2>. QED  BY <1>2, <2>2 DEF FastPoll, session, desktop, FastMoves
  <1>. QED  BY <1>1, <1>2, ReliablePollEffect, ControlRecvEffect, InjectEffect DEF Receivers

LEMMA ReceiverMoves ==
    ASSUME PathInv, Receivers
    PROVE  MovesInv'
  <1>1. MovesInv /\ "fast" \in Paths
    BY DEF PathInv, Paths
  <1>2. CASE FastPoll
    <2> PICK p \in fast : fast' = fast \ {p} /\ (To("fast", "ended") \/ Holding("fast", p))
      BY <1>2 DEF FastPoll
    <2>1. IsMove(worker'["fast"].packet)
      BY <1>1, WorkerSteps DEF MovesInv, PathInv
    <2>. QED  BY <1>1, <2>1 DEF MovesInv
  <1>3. CASE RtcInject("fast")
    BY <1>1, <1>3, InjectEffect DEF MovesInv, RtcInject, queues
  <1>4. ASSUME fast' = fast, worker'["fast"] = worker["fast"] PROVE MovesInv'
    BY <1>1, <1>4 DEF MovesInv
  <1>5. CASE ReliablePoll \/ ReliableClosed
    <2>1. worker'["fast"] = worker["fast"]
      BY <1>5, ReliablePollEffect DEF ReliableTakes, ReliableEnds
    <2>. QED  BY <1>4, <1>5, <2>1 DEF ReliablePoll, ReliableClosed
  <1>6. CASE ControlRecv
    <2>1. worker'["fast"] = worker["fast"]
      BY <1>6, ControlRecvEffect DEF ControlTakes, ControlEnds, ControlDrops
    <2>. QED  BY <1>4, <1>6, <2>1 DEF ControlRecv
  <1>7. CASE RtcInject("reliable") \/ ControlInject
    <2>1. worker'["fast"] = worker["fast"] /\ fast' = fast
      BY <1>7, InjectEffect DEF ReliableInjects, ControlInjects, RtcInject, ControlInject, queues
    <2>. QED  BY <1>4, <2>1
  <1>. QED  BY <1>2, <1>3, <1>5, <1>6, <1>7 DEF Receivers

LEMMA InjectedTransition ==
    ASSUME NEW p, NEW keys, Inject(p, keys)
    PROVE  transition' = transition \/ transition' = p.at
  BY DEF Inject

LEMMA ReceiverPath ==
    ASSUME PathInv, TypeOK', Receivers
    PROVE  ModeInv' /\ OrderInv' /\ transition' >= transition
  <1>1. /\ clock' = clock /\ closing' = closing /\ input' = input /\ channels' = channels
        /\ clock \in Nat /\ transition \in Nat /\ usingControl \in BOOLEAN
        /\ \A p \in InReliable \cup InControl : p.at \in Nat
    BY ReceiverSteps, PendingType DEF browser, PathInv
  <1>2. ModeInv /\ OrderInv
    BY DEF PathInv
  <1>3. ASSUME InControl' \subseteq InControl, usingControl' => usingControl \/ InControl # {}
        PROVE  ModeInv'
    BY <1>1, <1>2, <1>3 DEF ModeInv, Over
  <1>4. ASSUME InReliable' = InReliable, InControl' \subseteq InControl,
               usingControl' = usingControl, transition' = transition,
               InOrder(reliable', worker'["reliable"]), InOrder(control', worker'["control"])
        PROVE  ModeInv' /\ OrderInv' /\ transition' >= transition
    <2>1. OrderInv'
      BY <1>1, <1>2, <1>4 DEF OrderInv
    <2>. QED  BY <1>1, <1>3, <1>4, <2>1
  <1>5. CASE FastMoves
    <2>1. InReliable' = InReliable /\ InControl' = InControl
      BY <1>5 DEF FastMoves, InReliable, InControl
    <2>2. InOrder(reliable', worker'["reliable"]) /\ InOrder(control', worker'["control"])
      BY <1>2, <1>5 DEF FastMoves, OrderInv
    <2>. QED  BY <1>4, <1>5, <2>1, <2>2 DEF FastMoves
  <1>6. CASE ReliableTakes \/ ReliableEnds
    <2>1. /\ InReliable' = InReliable /\ InOrder(reliable', worker'["reliable"])
          /\ control' = control /\ worker'["control"] = worker["control"]
          /\ usingControl' = usingControl /\ transition' = transition
      BY <1>6 DEF ReliableTakes, ReliableEnds, desktop
    <2>2. InControl' = InControl
      BY <2>1 DEF InControl
    <2>3. InOrder(control', worker'["control"])
      BY <1>2, <2>1 DEF OrderInv
    <2>. QED  BY <1>4, <2>1, <2>2, <2>3
  <1>7. CASE ControlTakes \/ ControlEnds \/ \E p : ControlDrops(p)
    <2>1. /\ InControl' \subseteq InControl /\ InOrder(control', worker'["control"])
          /\ reliable' = reliable /\ worker'["reliable"] = worker["reliable"]
          /\ usingControl' = usingControl /\ transition' = transition
      BY <1>7 DEF ControlTakes, ControlEnds, ControlDrops, desktop
    <2>2. InReliable' = InReliable
      BY <2>1 DEF InReliable
    <2>3. InOrder(reliable', worker'["reliable"])
      BY <1>2, <2>1 DEF OrderInv
    <2>. QED  BY <1>4, <2>1, <2>2, <2>3
  <1>8. ASSUME NEW p, ReliableInjects(p) PROVE ModeInv' /\ OrderInv' /\ transition' >= transition
    <2>1. /\ InReliable = InReliable' \cup {p} /\ \A q \in InReliable' : p.at < q.at
          /\ InOrder(reliable', worker'["reliable"])
          /\ control' = control /\ worker'["control"] = worker["control"]
          /\ usingControl' = usingControl
      BY <1>8 DEF ReliableInjects, desktop
    <2>2. InControl' = InControl
      BY <2>1 DEF InControl
    <2>3. InOrder(control', worker'["control"])
      BY <1>2, <2>1 DEF OrderInv
    <2>4. transition' = transition \/ (~usingControl /\ transition' = p.at)
      BY <1>8, InjectedTransition DEF ReliableInjects, desktop
    <2>5. p \in InReliable /\ p.at \in Nat
      BY <1>1, <2>1
    <2>6. /\ ~usingControl => transition < p.at
          /\ p.at <= clock /\ transition <= clock
          /\ \A q \in InControl : p.at < q.at /\ transition < q.at
          /\ \A q \in InReliable' : q.at <= clock /\ q \in InReliable
          /\ \A q \in InReliable', o \in InControl : q.at < o.at
          /\ \A q \in InControl : q.at <= clock
      BY <1>2, <2>1, <2>5 DEF OrderInv
    <2>7. transition' >= transition /\ transition' <= clock'
      BY <1>1, <2>4, <2>5, <2>6
    <2>8. \A q \in InControl' : transition' < q.at
      BY <2>2, <2>4, <2>6
    <2>9. ~usingControl' => \A q \in InReliable' : transition' < q.at
      BY <1>2, <2>1, <2>4, <2>6 DEF OrderInv
    <2>10. /\ \A q \in InReliable' \cup InControl' : q.at <= clock'
           /\ \A q \in InReliable', o \in InControl' : q.at < o.at
      BY <1>1, <2>2, <2>6
    <2>11. OrderInv'
      BY <2>1, <2>3, <2>7, <2>8, <2>9, <2>10 DEF OrderInv
    <2>12. ModeInv'
      BY <1>3, <2>1, <2>2
    <2>. QED  BY <2>7, <2>11, <2>12
  <1>9. ASSUME NEW p, ControlInjects(p) PROVE ModeInv' /\ OrderInv' /\ transition' >= transition
    <2>1. /\ InControl = InControl' \cup {p} /\ \A q \in InControl' : p.at < q.at
          /\ InOrder(control', worker'["control"])
          /\ reliable' = reliable /\ worker'["reliable"] = worker["reliable"]
          /\ usingControl' = TRUE
      BY <1>9 DEF ControlInjects
    <2>2. InReliable' = InReliable
      BY <2>1 DEF InReliable
    <2>3. InOrder(reliable', worker'["reliable"])
      BY <1>2, <2>1 DEF OrderInv
    <2>4. transition' = transition \/ transition' = p.at
      BY <1>9, InjectedTransition DEF ControlInjects
    <2>5. p \in InControl /\ p.at \in Nat
      BY <1>1, <2>1
    <2>6. /\ transition < p.at /\ p.at <= clock /\ transition <= clock
          /\ \A q \in InControl' : q.at <= clock /\ transition < q.at
          /\ \A q \in InReliable : q.at <= clock
          /\ \A q \in InReliable, o \in InControl' : q.at < o.at
      BY <1>2, <2>1, <2>5 DEF OrderInv
    <2>7. transition' >= transition /\ transition' <= clock'
      BY <1>1, <2>4, <2>5, <2>6
    <2>8. \A q \in InControl' : transition' < q.at
      BY <2>1, <2>4, <2>6
    <2>9. /\ \A q \in InReliable' \cup InControl' : q.at <= clock'
          /\ \A q \in InReliable', o \in InControl' : q.at < o.at
      BY <1>1, <2>2, <2>6
    <2>10. OrderInv'
      BY <2>1, <2>3, <2>7, <2>8, <2>9 DEF OrderInv
    <2>11. ModeInv'
      BY <1>3, <2>1, <2>5
    <2>. QED  BY <2>7, <2>10, <2>11
  <1>. QED  BY <1>5, <1>6, <1>7, <1>8, <1>9, ReceiverSteps

LEMMA PathInit == Init => PathInv
  <1> SUFFICES ASSUME Init PROVE PathInv
    OBVIOUS
  <1>1. TypeOK
    BY InitTypeOK
  <1>2. /\ worker["reliable"].pc = "absent" /\ worker["control"].pc = "poll"
        /\ worker["fast"].packet = Move(1)
    BY DEF Init, Paths
  <1>3. InReliable = {} /\ InControl = {}
    BY <1>2, ElementsOfNone DEF Init, InReliable, InControl, Pending
  <1>4. MovesInv /\ ModeInv
    BY <1>2, <1>3 DEF Init, MovesInv, ModeInv, IsMove, Move
  <1>5. InOrder(reliable, worker["reliable"]) /\ InOrder(control, worker["control"])
    BY <1>2, ElementsOfNone DEF Init, InOrder
  <1>6. OrderInv
    BY <1>3, <1>5 DEF Init, OrderInv
  <1>. QED  BY <1>1, <1>4, <1>6 DEF PathInv

LEMMA PathStep ==
    ASSUME PathInv, TypeOK', [Next]_vars
    PROVE  PathInv' /\ transition' >= transition
  <1>1. CASE UNCHANGED vars
    <2>1. /\ UNCHANGED <<browser, channels, fast, reliable, control, worker, transition, usingControl>>
          /\ transition \in Nat
      BY <1>1, PendingType DEF vars, queues, desktop, PathInv
    <2>2. InReliable' = InReliable /\ InControl' = InControl
      BY <2>1 DEF InReliable, InControl
    <2>3. ModeInv' /\ MovesInv'
      BY <2>1, <2>2 DEF PathInv, ModeInv, MovesInv, Over, browser
    <2>4. OrderInv'
      BY <2>1, <2>2 DEF PathInv, OrderInv, browser
    <2>. QED  BY <2>1, <2>3, <2>4 DEF PathInv
  <1>2. ASSUME transition' = transition PROVE transition' >= transition
    BY <1>2, PendingType DEF PathInv
  <1>3. CASE User
    <2>1. transition' = transition
      BY <1>3, UserSends DEF Sends, desktop, PathInv
    <2>. QED  BY <1>2, <1>3, <2>1, UserPath DEF PathInv
  <1>4. CASE Network
    <2>1. transition' = transition
      BY <1>4, NetworkEffect DEF desktop
    <2>. QED  BY <1>2, <1>4, <2>1, NetworkPath DEF PathInv
  <1>5. CASE Receivers
    BY <1>5, ReceiverPath, ReceiverMoves DEF PathInv
  <1>. QED  BY <1>1, <1>3, <1>4, <1>5 DEF Next

LEMMA PathInvariance == Spec => []PathInv
  <1>1. PathInv /\ TypeOK' /\ [Next]_vars => PathInv'
    BY PathStep
  <1>. QED  BY <1>1, PathInit, TypeCorrect, PTL DEF Spec

\* Keys and buttons are injected in the order the user made them, over the
\* data channel, the control path and the fallback between them, whatever is
\* dropped and however the receivers interleave: a packet of input-reliable that
\* comes late is not injected once the control path has taken over (inject).
THEOREM InjectedInOrder == Spec => TransitionsInOrder
  <1>1. PathInv /\ TypeOK' /\ [Next]_vars => [transition' >= transition]_vars
    BY PathStep
  <1>. QED  BY <1>1, PathInvariance, TypeCorrect, PTL DEF Spec, TransitionsInOrder

-----------------------------------------------------------------------------
(* What is held on the desktop is held by the user *)

\* Once ps are injected on top of the keys in base, k is up.
ComesUp(k, ps, base) ==
    /\ \A p \in ps : p.key = k /\ p.down => \E q \in ps : q.key = k /\ ~q.down /\ p.at < q.at
    /\ k \in base => \E q \in ps : q.key = k /\ ~q.down

\* What the control path starts from: its first packet releases what is held.
OnControl == IF usingControl THEN held ELSE {}

ControlHeld == input = "control" =>
                   \A k \in Inputs : Accounted(k) \/ ComesUp(k, InControl, OnControl)
RtcHeld     == input = "rtc" /\ channels = "open" =>
                   \A k \in Inputs : Accounted(k) \/ ComesUp(k, InReliable, held)
UnusedHeld  == channels \in {"connecting", "open"} /\ input # "rtc" =>
                   InReliable = {} /\ (~usingControl => held = {})
EndedHeld   == worker["reliable"].pc \in {"absent", "ended"} /\ ~usingControl => held = {}

HeldInv == ControlHeld /\ RtcHeld /\ UnusedHeld /\ EndedHeld

LEMMA ComesUpAfter ==
    ASSUME NEW k, NEW ps, NEW base, NEW more, ComesUp(k, ps, base),
           \A p \in more : p.key = k => ~p.down
    PROVE  ComesUp(k, ps \cup more, base)
  BY DEF ComesUp

LEMMA ComesUpReleased ==
    ASSUME NEW k, NEW ps, NEW base, NEW more, NEW q \in more, q.key = k, ~q.down,
           \A p \in more : p.key = k => ~p.down, \A p \in ps : p.at < q.at
    PROVE  ComesUp(k, ps \cup more, base)
  BY DEF ComesUp

LEMMA ComesUpLess ==
    ASSUME NEW k, NEW ps, NEW base, NEW less, ComesUp(k, ps, base), less \subseteq base
    PROVE  ComesUp(k, ps, less)
  BY DEF ComesUp

LEMMA ComesUpOfNothing == \A k : ComesUp(k, {}, {})
  BY DEF ComesUp

\* A dropped packet is a press, or its key is told lost.
LEMMA ComesUpDropped ==
    ASSUME NEW k, NEW ps, NEW base, NEW p, ComesUp(k, ps \cup {p}, base), p.key # k \/ p.down
    PROVE  ComesUp(k, ps, base)
  BY DEF ComesUp

LEMMA ComesUpInjected ==
    ASSUME DesktopOK, NEW k, NEW ps, NEW base, NEW p \in Packet, ComesUp(k, ps \cup {p}, base),
           \A q \in ps : p.at < q.at /\ q.at \in Nat, Inject(p, base), k \in Inputs
    PROVE  ComesUp(k, ps, held')
  <1>1. \/ held' = base /\ p.key # k
        \/ held' = base \cup {p.key} /\ p.down
        \/ held' = base \ {p.key} /\ ~p.down
    BY KeysAssumption DEF Inject, StaleMove, IsMove, Inputs
  <1>2. p.at \in Nat
    BY DEF Packet
  <1>3. \A o \in ps \cup {p}, q \in ps \cup {p} : o \in ps /\ o.at < q.at => q \in ps
    BY <1>2
  <1>4. ASSUME NEW o \in ps, o.key = k, o.down
        PROVE  \E q \in ps : q.key = k /\ ~q.down /\ o.at < q.at
    BY <1>3, <1>4 DEF ComesUp
  <1>5. ASSUME k \in held' PROVE \E q \in ps : q.key = k /\ ~q.down
    <2>1. CASE p.key = k /\ p.down
      <3>1. PICK q \in ps \cup {p} : q.key = k /\ ~q.down /\ p.at < q.at
        BY <2>1 DEF ComesUp
      <3>. QED  BY <2>1, <3>1
    <2>2. CASE k \in base /\ p.key # k
      <3>1. PICK q \in ps \cup {p} : q.key = k /\ ~q.down
        BY <2>2 DEF ComesUp
      <3>. QED  BY <2>2, <3>1
    <2>. QED  BY <1>1, <1>5, <2>1, <2>2
  <1>. QED  BY <1>4, <1>5 DEF ComesUp

LEMMA SentComesUp ==
    ASSUME NEW k \in Inputs, NEW ps, NEW base, NEW more,
           \A p \in ps, q \in ToSet(more) : p.at < q.at,
           Accounts(more), Accounted(k) \/ ComesUp(k, ps, base), ~Accounted(k)'
    PROVE  ComesUp(k, ps \cup ToSet(more), base)
  <1>1. /\ \A p \in ToSet(more) : p.key = k => ~p.down
        /\ Accounted(k) => \E p \in ToSet(more) : p.key = k
    BY DEF Accounts
  <1>2. CASE Accounted(k)
    <2> PICK q \in ToSet(more) : q.key = k
      BY <1>1, <1>2
    <2>. QED  BY <1>1, <1>2, ComesUpReleased
  <1>3. CASE ~Accounted(k)
    BY <1>1, <1>3, ComesUpAfter
  <1>. QED  BY <1>2, <1>3

LEMMA UserHeld ==
    ASSUME PathInv, HeldInv, TypeOK', User
    PROVE  HeldInv'
  <1> PICK ps : Sends(ps) /\ (input = "none" \/ closing' \/ Accounts(ps))
    BY UserSends DEF PathInv
  <1>1. worker' = worker /\ held' = held /\ usingControl' = usingControl
    BY DEF Sends, desktop
  <1>2. EndedHeld'
    BY <1>1 DEF HeldInv, EndedHeld
  <1>3. ASSUME NEW p \in InReliable \cup InControl, NEW q \in ToSet(ps) PROVE p.at < q.at
    <2>1. p.at \in Nat /\ p.at <= clock /\ clock \in Nat /\ clock < q.at
      BY PendingType DEF PathInv, OrderInv, Sends
    <2>2. q.at \in Nat
      BY ElementsType DEF Sends, Packet
    <2>. QED  BY <2>1, <2>2
  <1>4. ASSUME UNCHANGED <<input, channels>>, ~closing' PROVE HeldInv'
    <2>1. ControlHeld'
      <3> SUFFICES ASSUME input = "control", NEW k \in Inputs, ~Accounted(k)'
                   PROVE  ComesUp(k, InControl', OnControl')
        BY <1>4 DEF ControlHeld
      <3>1. InControl' = InControl \cup ToSet(ps) /\ OnControl' = OnControl
        BY <1>1, SendsEffect DEF OnControl
      <3>2. Accounts(ps) /\ (Accounted(k) \/ ComesUp(k, InControl, OnControl))
        BY <1>4 DEF HeldInv, ControlHeld
      <3>. QED  BY <1>3, <3>1, <3>2, SentComesUp
    <2>2. RtcHeld'
      <3> SUFFICES ASSUME input = "rtc", channels = "open", NEW k \in Inputs, ~Accounted(k)'
                   PROVE  ComesUp(k, InReliable', held')
        BY <1>4 DEF RtcHeld
      <3>1. InReliable' = InReliable \cup ToSet(ps)
        BY SendsEffect
      <3>2. Accounts(ps) /\ (Accounted(k) \/ ComesUp(k, InReliable, held))
        BY <1>4 DEF HeldInv, RtcHeld
      <3>. QED  BY <1>1, <1>3, <3>1, <3>2, SentComesUp
    <2>3. UnusedHeld'
      <3>1. input # "rtc" => InReliable' = InReliable
        BY SendsEffect
      <3>. QED  BY <1>1, <1>4, <3>1 DEF HeldInv, UnusedHeld
    <2>. QED  BY <1>2, <2>1, <2>2, <2>3 DEF HeldInv
  <1>5. ASSUME StartInput PROVE HeldInv'
    <2>1. InControl = {} /\ ~usingControl /\ input = "none"
      BY <1>5 DEF StartInput, PathInv, ModeInv
    <2>2. UNCHANGED <<reliable, control, channels>>
      BY <1>5 DEF StartInput, queues
    <2>3. InReliable' = InReliable /\ InControl' = InControl
      BY <1>1, <2>2 DEF InReliable, InControl
    <2>4. ControlHeld'
      <3>1. InControl' = {} /\ OnControl' = {}
        BY <1>1, <2>1, <2>3 DEF OnControl
      <3>. QED  BY <3>1, ComesUpOfNothing DEF ControlHeld
    <2>5. channels \in {"connecting", "open"} => InReliable' = {} /\ held' = {}
      BY <1>1, <2>1, <2>3 DEF HeldInv, UnusedHeld
    <2>6. RtcHeld'
      BY <2>2, <2>5, ComesUpOfNothing DEF RtcHeld
    <2>7. UnusedHeld'
      BY <2>2, <2>5 DEF UnusedHeld
    <2>. QED  BY <1>2, <2>4, <2>6, <2>7 DEF HeldInv
  <1>6. ASSUME FallbackInput PROVE HeldInv'
    <2>1. InControl' = {} /\ ~usingControl
      BY <1>6, SendsEffect DEF FallbackInput, PathInv, ModeInv
    <2>2. ControlHeld'
      <3>1. OnControl' = {}
        BY <1>1, <2>1 DEF OnControl
      <3>. QED  BY <2>1, <3>1, ComesUpOfNothing DEF ControlHeld
    <2>3. RtcHeld' /\ UnusedHeld'
      BY <1>6 DEF FallbackInput, Over, RtcHeld, UnusedHeld
    <2>. QED  BY <1>2, <2>2, <2>3 DEF HeldInv
  <1>7. ASSUME closing' PROVE HeldInv'
    <2>1. input' = "none" /\ channels' \notin {"connecting", "open"}
      BY <1>7, UserPath DEF ModeInv, Over
    <2>. QED  BY <1>2, <2>1 DEF HeldInv, ControlHeld, RtcHeld, UnusedHeld
  <1>8. UNCHANGED <<input, channels>> \/ StartInput \/ closing' \/ FallbackInput
    BY DEF User, CloseSession, MovePointer, Wheel, Blur, Press, Release, MissedRelease
  <1>. QED  BY <1>4, <1>5, <1>6, <1>7, <1>8

LEMMA NetworkHeld ==
    ASSUME PathInv, HeldInv, Network
    PROVE  HeldInv'
  <1>1. /\ UNCHANGED <<input, fingers, pressed, held, usingControl>>
        /\ InReliable' \subseteq InReliable /\ InControl' = InControl
    BY NetworkEffect, NetworkPath DEF browser, desktop
  <1>2. lost' = lost
    BY DEF Network, ChannelsOpen, ChannelsClose, LoseRest, MediaConnected, MediaDisconnected,
           Retire, InputPeerCloses, DropSession, session
  <1>3. \A k : Accounted(k)' <=> Accounted(k)
    BY <1>1, <1>2 DEF Accounted
  <1>4. ControlHeld'
    <2>1. OnControl' = OnControl
      BY <1>1 DEF OnControl
    <2>. QED  BY <1>1, <1>3, <2>1 DEF HeldInv, ControlHeld
  <1>5. CASE ChannelsOpen
    <2>1. channels = "connecting" /\ channels' = "open" /\ worker'["reliable"].pc = "poll"
      <3>1. worker["reliable"] \in [pc : {"absent", "poll", "inject", "ended"}, packet : Packet]
        BY DEF PathInv, TypeOK, WorkerOK, Paths
      <3>2. worker'["reliable"] = [worker["reliable"] EXCEPT !.pc = "poll"]
        BY <1>5 DEF ChannelsOpen, Paths
      <3>. QED  BY <1>5, <3>1, <3>2 DEF ChannelsOpen
    <2>2. input # "rtc"
      BY <2>1 DEF PathInv, ModeInv
    <2>3. UnusedHeld'
      BY <1>1, <2>1 DEF HeldInv, UnusedHeld
    <2>4. RtcHeld' /\ EndedHeld'
      BY <1>1, <2>1, <2>2 DEF RtcHeld, EndedHeld
    <2>. QED  BY <1>4, <2>3, <2>4 DEF HeldInv
  <1>6. CASE ~ChannelsOpen
    <2>1. worker' = worker /\ (channels' = channels \/ channels' \notin {"connecting", "open"})
      BY <1>6 DEF Network, ChannelsClose, LoseRest, MediaConnected, MediaDisconnected,
         Retire, InputPeerCloses, DropSession
    <2>2. channels' \in {"connecting", "open"} => channels' = channels /\ reliable' = reliable
      BY <2>1, NetworkEffect DEF Over
    <2>3. channels' \in {"connecting", "open"} => InReliable' = InReliable
      BY <2>1, <2>2 DEF InReliable
    <2>4. RtcHeld'
      BY <1>1, <1>3, <2>2, <2>3 DEF HeldInv, RtcHeld
    <2>5. UnusedHeld' /\ EndedHeld'
      BY <1>1, <2>1, <2>2, <2>3 DEF HeldInv, UnusedHeld, EndedHeld
    <2>. QED  BY <1>4, <2>4, <2>5 DEF HeldInv
  <1>. QED  BY <1>5, <1>6

LEMMA ReceiverHeld ==
    ASSUME PathInv, HeldInv, TypeOK', Receivers
    PROVE  HeldInv'
  <1>1. /\ UNCHANGED <<input, channels, fingers, pressed>>
        /\ DesktopOK /\ usingControl \in BOOLEAN
        /\ \A p \in InReliable \cup InControl : p \in Packet /\ p.at \in Nat
    BY ReceiverSteps, PendingType DEF browser, PathInv, TypeOK
  <1>2. ControlHeld /\ RtcHeld /\ UnusedHeld /\ EndedHeld
    BY DEF HeldInv
  <1>3. ASSUME lost \subseteq lost' PROVE \A k : Accounted(k) => Accounted(k)'
    BY <1>1, <1>3 DEF Accounted
  <1>4. ASSUME InReliable' = InReliable, InControl' = InControl, lost' = lost,
               usingControl' = usingControl, held' \subseteq held,
               worker'["reliable"].pc \in {"absent", "ended"} /\ ~usingControl' => held' = {}
        PROVE  HeldInv'
    <2>1. \A k : Accounted(k) => Accounted(k)'
      BY <1>3, <1>4
    <2>2. OnControl' \subseteq OnControl
      BY <1>4 DEF OnControl
    <2>3. ControlHeld'
      BY <1>1, <1>2, <1>4, <2>1, <2>2, ComesUpLess DEF ControlHeld
    <2>4. RtcHeld'
      BY <1>1, <1>2, <1>4, <2>1, ComesUpLess DEF RtcHeld
    <2>5. UnusedHeld' /\ EndedHeld'
      BY <1>1, <1>2, <1>4 DEF UnusedHeld, EndedHeld
    <2>. QED  BY <2>3, <2>4, <2>5 DEF HeldInv
  <1>5. CASE FastMoves
    <2>1. InReliable' = InReliable /\ InControl' = InControl
      BY <1>5 DEF FastMoves, InReliable, InControl
    <2>. QED  BY <1>2, <1>4, <1>5, <2>1 DEF FastMoves, EndedHeld
  <1>6. CASE ReliableTakes \/ ReliableEnds
    <2>1. /\ InReliable' = InReliable /\ control' = control /\ lost' = lost
          /\ worker'["control"] = worker["control"] /\ usingControl' = usingControl
          /\ held' = held \/ held' = {}
          /\ \/ worker'["reliable"].pc = "inject"
             \/ ~usingControl => held' = {}
      BY <1>6 DEF ReliableTakes, ReliableEnds, desktop
    <2>2. InControl' = InControl
      BY <2>1 DEF InControl
    <2>. QED  BY <1>4, <2>1, <2>2
  <1>7. CASE ControlTakes \/ ControlEnds
    <2>1. /\ InControl' = InControl /\ reliable' = reliable /\ lost' = lost
          /\ worker'["reliable"] = worker["reliable"] /\ usingControl' = usingControl
          /\ held' = held \/ held' = {}
      BY <1>7 DEF ControlTakes, ControlEnds, desktop
    <2>2. InReliable' = InReliable
      BY <2>1 DEF InReliable
    <2>. QED  BY <1>2, <1>4, <2>1, <2>2 DEF EndedHeld
  <1>8. ASSUME NEW p, ControlDrops(p) PROVE HeldInv'
    <2>1. /\ p \in Packet /\ InControl = InControl' \cup {p} /\ lost' = lost \cup ReleasedBy(p)
          /\ reliable' = reliable /\ worker'["reliable"] = worker["reliable"]
          /\ held' = held /\ usingControl' = usingControl
      BY <1>8 DEF ControlDrops, desktop
    <2>2. InReliable' = InReliable /\ OnControl' = OnControl
      BY <2>1 DEF InReliable, OnControl
    <2>3. \A k : Accounted(k) => Accounted(k)'
      BY <1>3, <2>1
    <2>4. ControlHeld'
      <3> SUFFICES ASSUME input = "control", NEW k \in Inputs, ~Accounted(k)'
                   PROVE  ComesUp(k, InControl', OnControl)
        BY <1>1, <2>2 DEF ControlHeld
      <3>1. ComesUp(k, InControl' \cup {p}, OnControl)
        BY <1>2, <2>1, <2>3 DEF ControlHeld
      <3>2. p.key # k \/ p.down
        <4>1. k \notin ReleasedBy(p)
          BY <2>1 DEF Accounted
        <4>2. k # None
          BY KeysAssumption DEF Inputs
        <4>. QED  BY <4>1, <4>2 DEF ReleasedBy, IsMove
      <3>. QED  BY <3>1, <3>2, ComesUpDropped
    <2>5. RtcHeld' /\ UnusedHeld' /\ EndedHeld'
      BY <1>1, <1>2, <2>1, <2>2, <2>3 DEF RtcHeld, UnusedHeld, EndedHeld
    <2>. QED  BY <2>4, <2>5 DEF HeldInv
  <1>9. ASSUME NEW p, ReliableInjects(p) PROVE HeldInv'
    <2>1. /\ p \in Packet /\ InReliable = InReliable' \cup {p} /\ \A q \in InReliable' : p.at < q.at
          /\ control' = control /\ worker'["control"] = worker["control"] /\ lost' = lost
          /\ worker'["reliable"].pc = "poll" /\ usingControl' = usingControl
      BY <1>9 DEF ReliableInjects, desktop
    <2>2. InControl' = InControl
      BY <2>1 DEF InControl
    <2>3. \A k : Accounted(k) => Accounted(k)'
      BY <1>3, <2>1
    <2>4. ControlHeld'
      <3>1. OnControl' = OnControl
        BY <1>9, <2>1 DEF ReliableInjects, OnControl, desktop
      <3>. QED  BY <1>1, <1>2, <2>2, <2>3, <3>1 DEF ControlHeld
    <2>5. RtcHeld'
      <3> SUFFICES ASSUME input = "rtc", channels = "open", NEW k \in Inputs, ~Accounted(k)'
                   PROVE  ComesUp(k, InReliable', held')
        BY <1>1 DEF RtcHeld
      <3>1. ~usingControl
        BY DEF PathInv, ModeInv
      <3>2. Inject(p, held)
        BY <1>9, <3>1 DEF ReliableInjects
      <3>3. ComesUp(k, InReliable' \cup {p}, held)
        BY <1>2, <2>1, <2>3 DEF RtcHeld
      <3>4. \A q \in InReliable' : p.at < q.at /\ q.at \in Nat
        BY <1>1, <2>1
      <3>. QED  BY <1>1, <2>1, <3>2, <3>3, <3>4, ComesUpInjected
    <2>6. UnusedHeld' /\ EndedHeld'
      <3>1. InReliable # {}
        BY <2>1
      <3>. QED  BY <1>1, <1>2, <2>1, <3>1 DEF UnusedHeld, EndedHeld
    <2>. QED  BY <2>4, <2>5, <2>6 DEF HeldInv
  <1>10. ASSUME NEW p, ControlInjects(p) PROVE HeldInv'
    <2>1. /\ p \in Packet /\ InControl = InControl' \cup {p} /\ \A q \in InControl' : p.at < q.at
          /\ reliable' = reliable /\ worker'["reliable"] = worker["reliable"] /\ lost' = lost
          /\ usingControl' = TRUE /\ Inject(p, OnControl)
      BY <1>10 DEF ControlInjects, OnControl
    <2>2. InReliable' = InReliable
      BY <2>1 DEF InReliable
    <2>3. \A k : Accounted(k) => Accounted(k)'
      BY <1>3, <2>1
    <2>4. ControlHeld'
      <3> SUFFICES ASSUME input = "control", NEW k \in Inputs, ~Accounted(k)'
                   PROVE  ComesUp(k, InControl', held')
        BY <1>1, <2>1 DEF ControlHeld, OnControl
      <3>1. ComesUp(k, InControl' \cup {p}, OnControl)
        BY <1>2, <2>1, <2>3 DEF ControlHeld
      <3>2. \A q \in InControl' : p.at < q.at /\ q.at \in Nat
        BY <1>1, <2>1
      <3>. QED  BY <1>1, <2>1, <3>1, <3>2, ComesUpInjected
    <2>5. RtcHeld'
      <3>1. input # "rtc"
        <4>1. InControl # {}
          BY <2>1
        <4>. QED  BY <4>1 DEF PathInv, ModeInv
      <3>. QED  BY <1>1, <3>1 DEF RtcHeld
    <2>6. UnusedHeld' /\ EndedHeld'
      BY <1>1, <1>2, <2>1, <2>2 DEF UnusedHeld, EndedHeld
    <2>. QED  BY <2>4, <2>5, <2>6 DEF HeldInv
  <1>. QED  BY <1>5, <1>6, <1>7, <1>8, <1>9, <1>10, ReceiverSteps

LEMMA HeldInit == Init => HeldInv
  <1> SUFFICES ASSUME Init PROVE HeldInv
    OBVIOUS
  <1>1. worker["reliable"].pc = "absent"
    BY DEF Init, Paths
  <1>2. InReliable = {}
    BY <1>1, ElementsOfNone DEF Init, InReliable, Pending
  <1>3. input = "none" /\ held = {}
    BY DEF Init
  <1>. QED  BY <1>2, <1>3 DEF HeldInv, ControlHeld, RtcHeld, UnusedHeld, EndedHeld

LEMMA HeldStep == ASSUME PathInv, TypeOK', HeldInv, [Next]_vars PROVE HeldInv'
  <1>1. CASE UNCHANGED vars
    <2>1. UNCHANGED <<input, fingers, pressed, channels, reliable, control, lost, worker,
                      usingControl, held>>
      BY <1>1 DEF vars, browser, queues, session, desktop
    <2>2. InReliable' = InReliable /\ InControl' = InControl /\ OnControl' = OnControl
      BY <2>1 DEF InReliable, InControl, OnControl
    <2>3. \A k : Accounted(k)' <=> Accounted(k)
      BY <2>1 DEF Accounted
    <2>. QED  BY <2>1, <2>2, <2>3 DEF HeldInv, ControlHeld, RtcHeld, UnusedHeld, EndedHeld
  <1>. QED  BY <1>1, UserHeld, NetworkHeld, ReceiverHeld DEF Next

\* What passes for pressed is held down, or is one of the keys that may be up
\* without the page knowing; a controller that goes has released it.
PressedInv ==
    /\ input = "none" => pressed = {}
    /\ pressed \subseteq fingers \cup LeftPressed

LEMMA PressedStep == ASSUME TypeOK, PressedInv, [Next]_vars PROVE PressedInv'
  <1>1. /\ input = "none" => pressed = {}
        /\ \A k \in pressed : k \in fingers \cup Misses \cup PasteKeys
    BY DEF PressedInv, LeftPressed
  <1> SUFFICES /\ input' = "none" => pressed' = {}
               /\ \A k \in pressed' : k \in fingers' \cup Misses \cup PasteKeys
    BY DEF PressedInv, LeftPressed
  <1>2. CASE UNCHANGED <<input, pressed, fingers>>
    BY <1>1, <1>2
  <1>3. CASE Network \/ Receivers \/ UNCHANGED vars
    BY <1>2, <1>3 DEF Network, Receivers, vars, browser, ChannelsOpen, ChannelsClose, LoseRest,
       MediaConnected, MediaDisconnected, Retire, InputPeerCloses, DropSession, FastPoll,
       ReliablePoll, ReliableClosed, ControlRecv, ControlInject, RtcInject
  <1>4. CASE StartInput \/ MovePointer \/ Wheel
    BY <1>1, <1>4 DEF StartInput, MovePointer, Wheel
  <1>5. CASE Blur \/ FallbackInput \/ CloseSession
    BY <1>5 DEF Blur, FallbackInput, CloseSession, ReleaseAll
  <1>6. ASSUME NEW k \in Inputs, Press(k) \/ Release(k) \/ MissedRelease(k)
        PROVE  /\ input' = "none" => pressed' = {}
               /\ \A j \in pressed' : j \in fingers' \cup Misses \cup PasteKeys
    BY <1>1, <1>6 DEF Press, Release, MissedRelease, MayPaste
  <1>. QED  BY <1>3, <1>4, <1>5, <1>6 DEF Next, User

LEMMA PressedInvariance == Spec => []PressedInv
  <1>1. Init => PressedInv
    BY DEF Init, PressedInv
  <1>2. TypeOK /\ PressedInv /\ [Next]_vars => PressedInv'
    BY PressedStep
  <1>. QED  BY <1>1, <1>2, TypeCorrect, PTL DEF Spec

LEMMA HeldIsAccounted == TypeOK /\ PathInv /\ HeldInv /\ PressedInv => NoStuckInput
  <1> SUFFICES ASSUME TypeOK, PathInv, HeldInv, PressedInv, Settled, NEW k \in held
               PROVE  k \in fingers \cup LeftPressed \cup lost
    BY DEF NoStuckInput
  <1>1. k \in Inputs
    BY DEF TypeOK, DesktopOK
  <1>2. InReliable = {} /\ InControl = {}
    BY ElementsOfNone DEF Settled, InReliable, InControl, Pending
  <1>3. \A base : ComesUp(k, {}, base) => k \notin base
    BY DEF ComesUp
  <1>4. Accounted(k) => k \in fingers \cup LeftPressed \cup lost
    BY DEF Accounted, PressedInv
  <1>5. CASE input = "rtc" /\ channels = "open"
    BY <1>1, <1>2, <1>3, <1>4, <1>5 DEF HeldInv, RtcHeld
  <1>6. CASE input = "control" /\ usingControl
    BY <1>1, <1>2, <1>3, <1>4, <1>6 DEF HeldInv, ControlHeld, OnControl
  <1>7. CASE ~usingControl /\ worker["reliable"].pc \in {"absent", "ended"}
    BY <1>7 DEF HeldInv, EndedHeld
  <1>. QED  BY <1>5, <1>6, <1>7 DEF Settled

\* No key or button stays held on the desktop that the user does not hold, once
\* what was sent is dealt with: across lost focus, the fallback to the control
\* path and packets dropped while the media peer is away. It leaves out the
\* releases the Host dropped, those of buttons outside the picture, and the
\* keys the page counts as pressed because it did not see them go up or took
\* that for the paste shortcut, until the page releases them.
THEOREM NothingSticks == Spec => []NoStuckInput
  <1>1. PathInv /\ TypeOK' /\ HeldInv /\ [Next]_vars => HeldInv'
    BY HeldStep
  <1>2. Spec => []HeldInv
    BY <1>1, HeldInit, PathInvariance, TypeCorrect, PTL DEF Spec
  <1>. QED  BY <1>2, HeldIsAccounted, PressedInvariance, PathInvariance, TypeCorrect, PTL
=============================================================================
