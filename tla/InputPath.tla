------------------------------ MODULE InputPath ------------------------------
(***************************************************************************)
(* The way of the browser's keys, buttons and moves to the Host's desktop: *)
(* the input controller and its fallback (web/src/input.ts, rtc.ts,        *)
(* control-input.ts), the three transports, and the Host's receivers with  *)
(* the state they share, SessionInput (host/src/input/mod.rs, rtc/mod.rs). *)
(*                                                                         *)
(* A packet is one of: a key going down or up, a button going down or up   *)
(* with its position, a move. Positions are told apart by the timestamp of *)
(* the packet that carries them. A fast packet that is lost is one that is *)
(* never polled. SendInput is taken to succeed.                            *)
(***************************************************************************)
EXTENDS Integers, Sequences, FiniteSets, SequencesExt

CONSTANTS
    Keys,         \* keys of the browser's keyboard
    Buttons,      \* buttons of its pointer
    Misses,       \* inputs with a release the page may not see: a button that goes
                  \* up outside the picture, a key that does in the toolbar
    PasteKeys,    \* the key of the paste shortcut, V, if it is one of Keys
    MaxPackets,   \* bound: timestamps given to the user's events
    MaxPauses,    \* bound: how often the media peer is disconnected
    None          \* no key: a packet that is a move

ASSUME KeysAssumption ==
    IsFiniteSet(Keys) /\ Keys \cap Buttons = {} /\ None \notin Keys \cup Buttons
ASSUME MissesAssumption == Misses \subseteq Keys \cup Buttons
ASSUME PasteAssumption == PasteKeys \subseteq Keys
ASSUME InputBounds == MaxPackets \in Nat /\ MaxPauses \in Nat

VARIABLES
    fingers,      \* keys and buttons the user holds down
    input,        \* the InputController: none, or its transport
    pressed,      \* InputController.#pressed
    pasting,      \* ClipboardShortcutRouter.pasteActive
    clock,        \* lastTimestamp
    closing,      \* RemoteSession.#closing
    channels,     \* the WebRTC input channels, as the browser sees them;
                  \* "severed" once the Host itself has closed their peer
    fast,         \* packets on input-fast: unordered and unreliable
    reliable,     \* packets on input-reliable
    control,      \* packets on the control path, up to the Host's worker
    active,       \* the session's media_active
    pauses,       \* how often it was cleared, as long as the session is not retired
    retired,      \* the session's retired flag
    dropped,      \* the loop dropped the session's input_control sender
    lost,         \* inputs with a release the Host dropped, buttons with one the page
                  \* missed
    worker,       \* the three receivers: their step and packet
    usingControl, \* SessionInput.using_control
    held,         \* SessionInput.held
    latest,       \* SessionInput.latest_position
    cursor,       \* where the desktop's cursor is: the packet that put it there
    clicked,      \* the last button packet injected
    transition    \* the last key or button packet injected

browser == <<fingers, input, pressed, pasting, clock, closing>>
queues == <<fast, reliable, control>>
session == <<active, pauses, retired, dropped, lost>>
desktop == <<usingControl, held, latest, cursor, clicked, transition>>
vars == <<browser, channels, queues, session, worker, desktop>>

-----------------------------------------------------------------------------
(* Packets and types *)

Inputs == Keys \cup Buttons

Packet == [at : Nat \ {0}, key : Inputs \cup {None}, down : BOOLEAN]

Transition(k, down, at) == [at |-> at, key |-> k, down |-> down]
Move(at) == [at |-> at, key |-> None, down |-> FALSE]

IsMove(p) == p.key = None
HasPosition(p) == p.key \in Buttons \cup {None}

Paths == {"fast", "reliable", "control"}

BrowserOK ==
    /\ fingers \subseteq Inputs /\ pressed \subseteq Keys /\ pasting \in BOOLEAN
    /\ input \in {"none", "rtc", "control"} /\ clock \in Nat /\ closing \in BOOLEAN

QueuesOK == fast \subseteq Packet /\ reliable \in Seq(Packet) /\ control \in Seq(Packet)

SessionOK ==
    /\ channels \in {"connecting", "open", "half", "closed", "severed"}
    /\ active \in BOOLEAN /\ pauses \in 0 .. MaxPauses
    /\ retired \in BOOLEAN /\ dropped \in BOOLEAN /\ lost \subseteq Inputs

WorkerOK ==
    worker \in [Paths -> [pc : {"absent", "poll", "inject", "ended"}, packet : Packet]]

DesktopOK ==
    /\ usingControl \in BOOLEAN /\ held \subseteq Inputs
    /\ latest \in Nat /\ cursor \in Nat /\ clicked \in Nat /\ transition \in Nat

TypeOK == BrowserOK /\ QueuesOK /\ SessionOK /\ WorkerOK /\ DesktopOK

Init ==
    /\ fingers = {} /\ pressed = {} /\ pasting = FALSE
    /\ input = "none" /\ clock = 0 /\ closing = FALSE
    /\ channels = "connecting"
    /\ fast = {} /\ reliable = <<>> /\ control = <<>>
    /\ active = FALSE /\ pauses = 0 /\ retired = FALSE /\ dropped = FALSE
    /\ lost = {}
    /\ worker = [w \in Paths |->
                    [pc |-> IF w = "control" THEN "poll" ELSE "absent", packet |-> Move(1)]]
    /\ usingControl = FALSE /\ held = {}
    /\ latest = 0 /\ cursor = 0 /\ clicked = 0 /\ transition = 0

-----------------------------------------------------------------------------
(* The browser *)

\* #sendReliable: on the control path, or on a channel that is open.
SendAll(ps) ==
    CASE input = "control" -> control' = control \o ps /\ UNCHANGED reliable
      [] input = "rtc" /\ channels \in {"open", "half"} ->
            reliable' = reliable \o ps /\ UNCHANGED control
      [] OTHER -> UNCHANGED <<reliable, control>>

\* #startInput: when the channels open, when the peer connects, or 1.5 s later.
StartInput ==
    /\ input = "none"
    /\ ~closing
    /\ input' = IF channels = "open" THEN "rtc" ELSE "control"
    /\ UNCHANGED <<fingers, pressed, pasting, clock, closing, channels, queues,
                   session, worker, desktop>>

\* #keyboard takes a V for the paste shortcut, and sends nothing, when the event
\* says that Ctrl or Meta is down, which is so for any event, whether the page
\* saw that key go down or not, and until the V that began a paste is up.
MayPaste(k) == k \in PasteKeys
MaySend(k)  == ~(k \in PasteKeys /\ pasting)

\* A key or a button goes down; without a controller nothing is sent, nor by one
\* for a button outside the picture or a key in the toolbar.
Press(k) ==
    /\ clock < MaxPackets
    /\ ~closing
    /\ k \notin fingers
    /\ fingers' = fingers \cup {k}
    /\ \/ /\ input = "none" \/ k \in Misses \/ (k \in pressed /\ MaySend(k))
          /\ UNCHANGED <<pressed, pasting, clock, reliable, control>>
       \/ /\ input # "none" /\ MayPaste(k)
          /\ pasting' = TRUE
          /\ UNCHANGED <<pressed, clock, reliable, control>>
       \/ /\ input # "none" /\ k \notin pressed /\ MaySend(k)
          /\ pressed' = pressed \cup ({k} \cap Keys)
          /\ clock' = clock + 1
          /\ SendAll(<<Transition(k, TRUE, clock + 1)>>)
          /\ UNCHANGED pasting
    /\ UNCHANGED <<input, closing, channels, fast, session, worker, desktop>>

\* It goes up again. A V that went down as a key of its own and comes up with
\* Ctrl or Meta down stays pressed.
Release(k) ==
    /\ k \in fingers
    /\ fingers' = fingers \ {k}
    /\ \/ /\ input = "none"
          /\ UNCHANGED <<pressed, pasting, clock, reliable, control>>
       \/ /\ input # "none" /\ MayPaste(k)
          /\ pasting' = FALSE
          /\ UNCHANGED <<pressed, clock, reliable, control>>
       \/ /\ input # "none" /\ MaySend(k)
          /\ pressed' = pressed \ {k}
          /\ clock' = clock + 1
          /\ SendAll(<<Transition(k, FALSE, clock + 1)>>)
          /\ UNCHANGED pasting
    /\ UNCHANGED <<input, closing, channels, fast, session, worker, desktop>>

\* The controller's #pointerButton returns early outside the picture, #keyboard for
\* the toolbar: a key stays pressed for the page, which keeps no account of buttons.
MissedRelease(k) ==
    /\ k \in fingers \cap Misses
    /\ input # "none"
    /\ fingers' = fingers \ {k}
    /\ lost' = lost \cup ({k} \cap Buttons)
    /\ UNCHANGED <<input, pressed, pasting, clock, closing, channels, queues, active,
                   pauses, retired, dropped, worker, desktop>>

\* #sendFastMove: on input-fast, or in order on the control path.
MovePointer ==
    /\ clock < MaxPackets
    /\ clock' = clock + 1
    /\ \/ /\ input = "rtc" /\ channels = "open"
          /\ fast' = fast \cup {Move(clock + 1)}
          /\ UNCHANGED control
       \/ /\ input = "control"
          /\ control' = Append(control, Move(clock + 1))
          /\ UNCHANGED fast
    /\ UNCHANGED <<fingers, input, pressed, pasting, closing, channels, reliable,
                   session, worker, desktop>>

\* #wheel: the pointer's position first, on the path of the wheel packet.
Wheel ==
    /\ clock < MaxPackets
    /\ input # "none"
    /\ clock' = clock + 1
    /\ SendAll(<<Move(clock + 1)>>)
    /\ UNCHANGED <<fingers, input, pressed, pasting, closing, channels, fast, session,
                   worker, desktop>>

\* #releaseAll: every key that passes for pressed goes up, in any order, and a
\* paste under way is forgotten.
ReleaseAll ==
    /\ \E order \in SetToSeqs(pressed) :
          SendAll([i \in DOMAIN order |-> Transition(order[i], FALSE, clock + i)])
    /\ clock' = clock + Cardinality(pressed)
    /\ pressed' = {}
    /\ pasting' = FALSE

\* The window loses the focus, and the keyboard with it.
Blur ==
    /\ input # "none"
    /\ pressed # {} \/ pasting
    /\ ReleaseAll
    /\ fingers' = fingers \ Keys
    /\ UNCHANGED <<input, closing, channels, fast, session, worker, desktop>>

\* The channels are of no more use.
Over == channels \in {"closed", "severed"}

\* fallbackInput: the controller is destroyed and one on the control path
\* takes over, now or when the media peer is connected again.
FallbackInput ==
    /\ input = "rtc"
    /\ channels = "half" \/ Over
    /\ ~closing
    /\ ReleaseAll
    /\ input' \in {"none", "control"}
    /\ UNCHANGED <<fingers, closing, channels, fast, session, worker, desktop>>

\* close(): keys are released before the peers and the session are closed.
CloseSession ==
    /\ ~closing
    /\ closing' = TRUE
    /\ ReleaseAll
    /\ input' = "none"
    /\ channels' = IF channels = "severed" THEN channels ELSE "closed"
    /\ fingers' = {}
    /\ UNCHANGED <<fast, session, worker, desktop>>

-----------------------------------------------------------------------------
(* The network and the session's owner *)

\* The data channels open; the Host gives each its receiver.
ChannelsOpen ==
    /\ channels = "connecting"
    /\ channels' = "open"
    /\ worker' = [w \in Paths |->
                    IF w = "control" THEN worker[w] ELSE [worker[w] EXCEPT !.pc = "poll"]]
    /\ UNCHANGED <<browser, queues, session, desktop>>

\* One of them closes, or both.
ChannelsClose ==
    /\ channels \in {"open", "half"}
    /\ channels' \in {"half", "closed"} \ {channels}
    /\ UNCHANGED <<browser, queues, session, worker, desktop>>

\* What a closed association had not delivered is lost.
LoseRest ==
    /\ Over
    /\ reliable # <<>>
    /\ reliable' = <<>>
    /\ UNCHANGED <<browser, channels, fast, control, session, worker, desktop>>

\* The media peer is connected.
MediaConnected ==
    /\ ~active /\ ~retired
    /\ active' = TRUE
    /\ UNCHANGED <<browser, channels, queues, pauses, retired, dropped, lost, worker, desktop>>

\* It is disconnected, for a while.
MediaDisconnected ==
    /\ active
    /\ pauses < MaxPauses
    /\ active' = FALSE
    /\ pauses' = pauses + 1
    /\ UNCHANGED <<browser, channels, queues, retired, dropped, lost, worker, desktop>>

\* stop_media, from the Host's loop.
Retire ==
    /\ ~retired
    /\ retired' = TRUE
    /\ active' = FALSE
    /\ pauses' = 0
    /\ UNCHANGED <<browser, channels, queues, dropped, lost, worker, desktop>>

\* stop_media has the input peer closed by a task of its own. The driver ends
\* with it, and no receiver is told of the end of its channel.
InputPeerCloses ==
    /\ retired
    /\ ~Over
    /\ channels' = "severed"
    /\ UNCHANGED <<browser, queues, session, worker, desktop>>

\* The loop is done closing the peer and drops the session.
DropSession ==
    /\ retired /\ ~dropped
    /\ dropped' = TRUE
    /\ UNCHANGED <<browser, channels, queues, active, pauses, retired, lost, worker, desktop>>

-----------------------------------------------------------------------------
(* The Host's receivers *)

To(w, pc) == worker' = [worker EXCEPT ![w] = [pc |-> pc, packet |-> Move(1)]]
Holding(w, p) == worker' = [worker EXCEPT ![w] = [pc |-> "inject", packet |-> p]]

\* release_all: every key and button that is held goes up.
ReleaseHeld == held' = {} /\ UNCHANGED <<usingControl, latest, cursor, clicked, transition>>

\* Mutants: the end of input-reliable releases always, or never.
RtcAlwaysReleases == TRUE
RtcNeverReleases == FALSE

\* release_rtc: the end of input-reliable releases nothing of the control path.
RtcReleases == ~usingControl

\* A mutant: inject does not look at using_control.
IgnoredNever(w) == FALSE

\* inject_control switches the session over for good; inject is then deaf.
Ignored(w) == w # "control" /\ usingControl

\* A mutant: no move is stale.
StaleNever(p) == FALSE

\* is_stale_move.
StaleMove(p) == IsMove(p) /\ p.at <= latest

\* inject_ordered and observe, on top of the keys held.
Inject(p, keys) ==
    IF StaleMove(p) THEN held' = keys /\ UNCHANGED <<latest, cursor, clicked, transition>>
    ELSE /\ held' = IF IsMove(p) THEN keys
                    ELSE IF p.down THEN keys \cup {p.key} ELSE keys \ {p.key}
         /\ latest' = IF HasPosition(p) /\ p.at > latest THEN p.at ELSE latest
         /\ cursor' = IF HasPosition(p) THEN p.at ELSE cursor
         /\ clicked' = IF p.key \in Buttons THEN p.at ELSE clicked
         /\ transition' = IF IsMove(p) THEN transition ELSE p.at

\* The receiver of input-fast polls a packet, any of them.
FastPoll ==
    /\ worker["fast"].pc = "poll"
    /\ \E p \in fast :
          /\ fast' = fast \ {p}
          /\ IF retired THEN To("fast", "ended") ELSE Holding("fast", p)
    /\ UNCHANGED <<browser, channels, reliable, control, session, desktop>>

\* The receiver of input-reliable ends.
EndReliable ==
    /\ To("reliable", "ended")
    /\ IF RtcReleases THEN ReleaseHeld ELSE UNCHANGED desktop
    /\ UNCHANGED reliable

\* It polls a packet, with a look at retired ...
ReliablePoll ==
    /\ worker["reliable"].pc = "poll"
    /\ reliable # <<>>
    /\ \/ /\ ~retired
          /\ Holding("reliable", Head(reliable))
          /\ reliable' = Tail(reliable)
          /\ UNCHANGED desktop
       \/ retired /\ EndReliable
    /\ UNCHANGED <<browser, channels, fast, control, session>>

\* ... or OnClose, which follows what was delivered when the other side closed
\* the channel, and may not come at all.
ReliableClosed ==
    /\ worker["reliable"].pc = "poll"
    /\ reliable = <<>>
    /\ channels = "closed"
    /\ EndReliable
    /\ UNCHANGED <<browser, channels, fast, control, session>>

\* inject, under the lock of the session's input state.
RtcInject(w) ==
    /\ worker[w].pc = "inject"
    /\ To(w, "poll")
    /\ IF Ignored(w) THEN UNCHANGED desktop
       ELSE Inject(worker[w].packet, held) /\ UNCHANGED usingControl
    /\ UNCHANGED <<browser, channels, queues, session>>

ReleasedBy(p) == IF IsMove(p) \/ p.down THEN {} ELSE {p.key}

\* The receiver of input_control: a packet is dropped while media is not active.
ControlRecv ==
    /\ worker["control"].pc = "poll"
    /\ \/ /\ control # <<>> /\ ~retired
          /\ control' = Tail(control)
          /\ IF active THEN Holding("control", Head(control)) /\ UNCHANGED lost
                       ELSE UNCHANGED worker /\ lost' = lost \cup ReleasedBy(Head(control))
          /\ UNCHANGED desktop
       \/ /\ retired /\ (dropped \/ control # <<>>)
          /\ To("control", "ended")
          /\ ReleaseHeld
          /\ UNCHANGED <<control, lost>>
    /\ UNCHANGED <<browser, channels, fast, reliable, active, pauses, retired, dropped>>

\* inject_control: the first packet releases what the channels hold.
ControlInject ==
    /\ worker["control"].pc = "inject"
    /\ To("control", "poll")
    /\ usingControl' = TRUE
    /\ Inject(worker["control"].packet, IF usingControl THEN held ELSE {})
    /\ UNCHANGED <<browser, channels, queues, session>>

-----------------------------------------------------------------------------
(* The specification *)

User ==
    \/ StartInput \/ MovePointer \/ Wheel \/ Blur \/ FallbackInput \/ CloseSession
    \/ \E k \in Inputs : Press(k) \/ Release(k) \/ MissedRelease(k)

Network ==
    \/ ChannelsOpen \/ ChannelsClose \/ LoseRest
    \/ MediaConnected \/ MediaDisconnected \/ Retire
    \/ InputPeerCloses \/ DropSession

Receivers ==
    \/ FastPoll \/ ReliablePoll \/ ReliableClosed \/ ControlRecv \/ ControlInject
    \/ \E w \in {"fast", "reliable"} : RtcInject(w)

Next == User \/ Network \/ Receivers

Spec == Init /\ [][Next]_vars

\* The workers deal with what is in their queues, and the loop finishes what
\* stop_media began. The browser and the network need not do anything, and no
\* receiver needs to hear of the end of a channel. The subscripts name what each
\* of these steps changes.
Fairness ==
    /\ WF_worker(ReliablePoll \/ RtcInject("reliable"))
    /\ WF_<<control, worker>>(ControlRecv \/ ControlInject)
    /\ WF_dropped(DropSession)

FairSpec == Spec /\ Fairness

-----------------------------------------------------------------------------
(* Properties *)

\* A move that arrives late never takes the cursor back to before a click: the
\* watermark of is_stale_move covers the positions of buttons and of all paths.
MovesNeverUndoClicks == cursor >= clicked /\ latest >= clicked

\* Keys and buttons are injected in the order the user made them, over both
\* paths and across the fallback from one to the other.
TransitionsInOrder == [][transition' >= transition]_vars

\* Once the control path has taken over, late RTC messages and the end of the
\* RTC channels do not touch the keys held on it.
FallbackKeysSurvive ==
    [][usingControl /\ worker'["control"] = worker["control"] => held' = held]_vars

\* The receiver of input-reliable waits for a packet that may never come.
ReliableWaits == worker["reliable"].pc = "poll" /\ reliable = <<>>

\* Nothing stays held down on the desktop of a session that is over, but for one
\* key or button: the receiver of input-reliable had it in hand when the session
\* was retired, injected it after input_control released the rest (rtc/mod.rs,
\* between the look at retired and inject), and waits.
HeldInputsEnd ==
    <>[](retired => \/ held = {}
                    \/ ReliableWaits /\ ~usingControl /\ Cardinality(held) = 1)

\* The path in use is up, and all that was sent on it has been dealt with.
Settled ==
    /\ reliable = <<>> /\ control = <<>>
    /\ \A w \in {"reliable", "control"} : worker[w].pc # "inject"
    /\ \/ input = "rtc" /\ channels = "open"
       \/ input = "control" /\ (usingControl \/ worker["reliable"].pc \in {"absent", "ended"})

\* Keys that may be up although the page counts them as pressed, since it did not
\* see them go up or took that for the paste shortcut. It releases them when it
\* loses the focus or its controller goes.
LeftPressed == pressed \cap (Misses \cup PasteKeys)

\* No key or button is held on the desktop that the user does not hold, but for
\* keys the page still has to release, buttons that went up outside the picture
\* and what the Host dropped the release of.
NoStuckInput == Settled => held \subseteq fingers \cup LeftPressed \cup lost
=============================================================================
