----------------------------- MODULE HostSession -----------------------------
(***************************************************************************)
(* The Host's sessions: the main loop (host/src/main.rs) that replaces and *)
(* closes them, the state callback of every peer connection, the video and *)
(* audio supervisors it wakes (host/src/rtc/mod.rs), and the status the    *)
(* control panel reads (host/src/control.rs).                              *)
(*                                                                         *)
(* The loop, each callback and each supervisor are concurrent; what they   *)
(* share is two atomic flags and a watch channel per session, so there is  *)
(* one step per load, store or notification.                               *)
(***************************************************************************)
EXTENDS Integers, FiniteSets

CONSTANTS
    Sessions,     \* the sessions the browsers open
    Sources,      \* the supervisors of a session: "video", "audio" or both
    Faults,       \* where accept_offer may fail: "offer", "answered", "spawned"
    TileEligible, \* the sessions may use the refinement channel (accept_offer)
    MaxFlaps,     \* bound: Disconnected events of one peer
    None          \* no session

ASSUME SourcesAssumption == Sources \subseteq {"video", "audio"}
ASSUME FaultsAssumption == Faults \subseteq {"offer", "answered", "spawned"}
ASSUME TilesAssumption == TileEligible \in BOOLEAN
ASSUME FlapsAssumption == MaxFlaps \in Nat
ASSUME NoneAssumption == None \notin Sessions

VARIABLES
    retired,      \* AcceptedSession::retired
    active,       \* AcceptedSession::media_active
    media,        \* the value of the watch channel media_state
    fresh,        \* the sources that have not seen that value
    mode,         \* the value of the watch channel tile_mode
    peer,         \* the last connection state delivered to the handler
    aborted,      \* peers whose driver close() has aborted
    flaps,        \* how often the peer was disconnected
    callback,     \* the handler's next step in on_connection_state_change
    supervisor,   \* the next step of each source's supervisor
    hybrid,       \* the mode the video source was started with
    table,        \* the keys of the main loop's session map
    offered,      \* sessions whose offer the loop has taken
    loop,         \* the main loop: its step and the sessions it works on
    snapshot,     \* ControlStatus: the session shown and capture_active
    closeSent     \* sessions whose handler sent a SessionClose

gate == <<retired, active, media, fresh>>
peers == <<peer, aborted, flaps, callback>>
sources == <<mode, supervisor, hybrid>>
host == <<table, offered, loop>>
vars == <<gate, peers, sources, host, snapshot, closeSent>>

-----------------------------------------------------------------------------
(* Types *)

MediaStates == {"WAITING", "RUNNING", "STOPPED"}
Modes == {"unset", "tiles", "plain"}
PeerStates == {"none", "unanswered", "new", "connected", "disconnected",
               "failed", "closed", "gone"}

ConnectedSteps == {"checked", "opened", "running", "report"}
RefuseSteps == {"refused", "refusing"}
LossSteps == {"pause", "pausing", "lost", "fail", "failing", "failed", "giveup"}
CallbackSteps == {"idle"} \cup ConnectedSteps \cup RefuseSteps \cup LossSteps

SupervisorSteps == {"unborn", "wait", "parked", "mode", "gate", "stream",
                    "backoff", "ended"}

RetireSteps == {"next", "retire", "shut", "stop", "close"}
AcceptSteps == {"prepare", "accept", "answered", "spawned"}
LoopSteps == {"idle", "status"} \cup RetireSteps \cup AcceptSteps

SessionOrNone == Sessions \cup {None}

LoopStates ==
    [pc : LoopSteps, offer : SessionOrNone, id : SessionOrNone,
     old : SessionOrNone, rest : SUBSET Sessions]

GateOK ==
    /\ retired \in [Sessions -> BOOLEAN]
    /\ active \in [Sessions -> BOOLEAN]
    /\ media \in [Sessions -> MediaStates]
    /\ fresh \in [Sessions -> SUBSET Sources]

PeersOK ==
    /\ peer \in [Sessions -> PeerStates]
    /\ aborted \in SUBSET Sessions
    /\ flaps \in [Sessions -> 0 .. MaxFlaps]
    /\ callback \in [Sessions -> CallbackSteps]

SourcesOK ==
    /\ mode \in [Sessions -> Modes]
    /\ supervisor \in [Sessions -> [Sources -> SupervisorSteps]]
    /\ hybrid \in [Sessions -> {"tiles", "plain"}]

HostOK ==
    /\ table \in SUBSET Sessions
    /\ offered \in SUBSET Sessions
    /\ loop \in LoopStates

\* A "connected" status names a session.
StatusOK ==
    /\ snapshot \in [session : SessionOrNone, capture : BOOLEAN]
    /\ snapshot.capture => snapshot.session # None

TypeOK ==
    /\ GateOK /\ PeersOK /\ SourcesOK /\ HostOK /\ StatusOK
    /\ closeSent \in SUBSET Sessions

Idle == [pc |-> "idle", offer |-> None, id |-> None, old |-> None, rest |-> {}]

Init ==
    /\ retired = [s \in Sessions |-> FALSE]
    /\ active = [s \in Sessions |-> FALSE]
    /\ media = [s \in Sessions |-> "WAITING"]
    /\ fresh = [s \in Sessions |-> {}]
    /\ mode = [s \in Sessions |-> IF TileEligible THEN "unset" ELSE "plain"]
    /\ peer = [s \in Sessions |-> "none"]
    /\ aborted = {}
    /\ flaps = [s \in Sessions |-> 0]
    /\ callback = [s \in Sessions |-> "idle"]
    /\ supervisor = [s \in Sessions |-> [src \in Sources |-> "unborn"]]
    /\ hybrid = [s \in Sessions |-> "plain"]
    /\ table = {}
    /\ offered = {}
    /\ loop = Idle
    /\ snapshot = [session |-> None, capture |-> FALSE]
    /\ closeSent = {}

-----------------------------------------------------------------------------
(* The media gate and the status *)

\* Mutant: only a start and its end are worth a notification.
PublishStarts(s, m) ==
    /\ media' = [media EXCEPT ![s] = m]
    /\ fresh' = IF (m = "RUNNING") # (media[s] = "RUNNING")
                THEN [fresh EXCEPT ![s] = Sources]
                ELSE fresh

\* media_state.send_replace: every receiver is notified, changed or not.
Publish(s, m) ==
    /\ media' = [media EXCEPT ![s] = m]
    /\ fresh' = [fresh EXCEPT ![s] = Sources]

SetActive(s, open) == active' = [active EXCEPT ![s] = open]

\* control.preparing
Preparing(s) == snapshot' = [session |-> s, capture |-> FALSE]

\* Mutant: an update is applied whatever session is shown.
ShownAny(s) == s \in Sessions

\* Whether update_for_session applies an update of session s.
Shown(s) == snapshot.session = s

\* control.connected
Connected(s) ==
    snapshot' = IF Shown(s) THEN [snapshot EXCEPT !.capture = TRUE] ELSE snapshot

\* control.disconnected
Disconnected(s) ==
    snapshot' = IF Shown(s) THEN [session |-> None, capture |-> FALSE] ELSE snapshot

-----------------------------------------------------------------------------
(* The main loop *)

Goto(pc) == loop' = [loop EXCEPT !.pc = pc]

\* Mutant: only a session of the same browser tab is replaced.
ReplacedNone(s) == table \cap {s}

\* The sessions an offer replaces: all of them.
ReplacedBy(s) == table

\* A WebrtcOffer: the map is drained and every session in it retired first.
TakeOffer(s) ==
    /\ loop.pc = "idle"
    /\ s \notin offered
    /\ offered' = offered \cup {s}
    /\ table' = {}
    /\ loop' = [Idle EXCEPT !.pc = "next", !.offer = s, !.rest = ReplacedBy(s)]
    /\ UNCHANGED <<gate, peers, sources, snapshot, closeSent>>

\* A SessionClosed, which may name a session the Host does not have.
TakeClosed(s) ==
    /\ loop.pc = "idle"
    /\ s \in offered
    /\ table' = table \ {s}
    /\ loop' = [Idle EXCEPT !.pc = "next", !.id = s, !.rest = table \cap {s}]
    /\ UNCHANGED <<gate, peers, sources, offered, snapshot, closeSent>>

NextToRetire(s) ==
    /\ loop.pc = "next"
    /\ s \in loop.rest
    /\ loop' = [loop EXCEPT !.pc = "retire", !.old = s, !.rest = @ \ {s}]
    /\ UNCHANGED <<gate, peers, sources, table, offered, snapshot, closeSent>>

AllRetired ==
    /\ loop.pc = "next"
    /\ loop.rest = {}
    /\ Goto(IF loop.offer # None THEN "prepare" ELSE "status")
    /\ UNCHANGED <<gate, peers, sources, table, offered, snapshot, closeSent>>

\* stop_media: retirement first, then the gate, then the notification.
Retire(s) ==
    /\ loop.pc = "retire"
    /\ loop.old = s
    /\ retired' = [retired EXCEPT ![s] = TRUE]
    /\ Goto("shut")
    /\ UNCHANGED <<active, media, fresh, peers, sources, table, offered,
                   snapshot, closeSent>>

RetireShut(s) ==
    /\ loop.pc = "shut"
    /\ loop.old = s
    /\ SetActive(s, FALSE)
    /\ Goto("stop")
    /\ UNCHANGED <<retired, media, fresh, peers, sources, table, offered,
                   snapshot, closeSent>>

RetireStop(s) ==
    /\ loop.pc = "stop"
    /\ loop.old = s
    /\ Publish(s, "STOPPED")
    /\ Goto("close")
    /\ UNCHANGED <<retired, active, peers, sources, table, offered, snapshot,
                   closeSent>>

\* peer.close aborts the driver, which ends at its next await; the callback
\* it is in goes on until then. The loop's own watch sender is dropped, but
\* not the last: the peer connection and its transceivers hold each other, and
\* with them the handler and its senders.
RetireClose(s) ==
    /\ loop.pc = "close"
    /\ loop.old = s
    /\ aborted' = aborted \cup {s}
    /\ loop' = [loop EXCEPT !.pc = "next", !.old = None]
    /\ UNCHANGED <<gate, peer, flaps, callback, sources, table, offered,
                   snapshot, closeSent>>

\* The end of a SessionClosed.
StatusClosed ==
    /\ loop.pc = "status"
    /\ Disconnected(loop.id)
    /\ loop' = Idle
    /\ UNCHANGED <<gate, peers, sources, table, offered, closeSent>>

Prepare ==
    /\ loop.pc = "prepare"
    /\ Preparing(loop.offer)
    /\ Goto("accept")
    /\ UNCHANGED <<gate, peers, sources, table, offered, closeSent>>

\* accept_offer up to the Answer: from here the peer can connect.
Answer(s) ==
    /\ loop.pc = "accept"
    /\ loop.offer = s
    /\ peer' = [peer EXCEPT ![s] = "new"]
    /\ Goto("answered")
    /\ UNCHANGED <<gate, aborted, flaps, callback, sources, table, offered,
                   snapshot, closeSent>>

\* An error before the Answer: the error is only logged. If the driver was
\* started it runs on detached, and its checks can only fail.
OfferFails(s) ==
    /\ "offer" \in Faults
    /\ loop.pc = "accept"
    /\ loop.offer = s
    /\ \E p \in {"none", "unanswered"} : peer' = [peer EXCEPT ![s] = p]
    /\ loop' = Idle
    /\ UNCHANGED <<gate, aborted, flaps, callback, sources, table, offered,
                   snapshot, closeSent>>

\* No negotiated payload type, or no input thread: the session's handle is
\* dropped, which neither closes the peer nor stops what was spawned.
AcceptFails ==
    /\ loop.pc \in Faults \cap {"answered", "spawned"}
    /\ loop' = Idle
    /\ UNCHANGED <<gate, peers, sources, table, offered, snapshot, closeSent>>

Spawn(s) ==
    /\ loop.pc = "answered"
    /\ loop.offer = s
    /\ supervisor' = [supervisor EXCEPT ![s] = [src \in Sources |-> "wait"]]
    /\ Goto("spawned")
    /\ UNCHANGED <<gate, peers, mode, hybrid, table, offered, snapshot,
                   closeSent>>

Insert(s) ==
    /\ loop.pc = "spawned"
    /\ loop.offer = s
    /\ table' = table \cup {s}
    /\ loop' = Idle
    /\ UNCHANGED <<gate, peers, sources, offered, snapshot, closeSent>>

LoopStep ==
    \/ AllRetired \/ StatusClosed \/ Prepare
    \/ \E s \in Sessions : NextToRetire(s) \/ Retire(s) \/ RetireShut(s)
                        \/ RetireStop(s) \/ RetireClose(s)
                        \/ Answer(s) \/ OfferFails(s) \/ Spawn(s) \/ Insert(s)
    \/ AcceptFails

-----------------------------------------------------------------------------
(* on_connection_state_change. The driver awaits it, so the callbacks of   *)
(* one peer never overlap.                                                 *)

\* How the connection of a peer changes (external: the WebRTC library).
Follows(p) ==
    CASE p = "new" -> {"connected", "failed", "closed"}
      [] p = "unanswered" -> {"failed"}
      [] p = "connected" -> {"disconnected", "failed", "closed"}
      [] p = "disconnected" -> {"connected", "failed", "closed"}
      [] p = "failed" -> {"closed"}
      [] OTHER -> {}

\* A change of state is delivered while no callback of the peer runs.
Deliver(s, p) ==
    /\ callback[s] = "idle"
    /\ p \in Follows(peer[s])
    /\ peer' = [peer EXCEPT ![s] = p]

Proceed(s, step) == callback' = [callback EXCEPT ![s] = step]

\* Connected, with the first look at retired.
OnConnected(s) ==
    /\ Deliver(s, "connected")
    /\ Proceed(s, IF retired[s] THEN "refused" ELSE "checked")
    /\ UNCHANGED <<gate, aborted, flaps, sources, host, snapshot, closeSent>>

OnDisconnected(s) ==
    /\ flaps[s] < MaxFlaps
    /\ Deliver(s, "disconnected")
    /\ Proceed(s, "pause")
    /\ flaps' = [flaps EXCEPT ![s] = @ + 1]
    /\ UNCHANGED <<gate, aborted, sources, host, snapshot, closeSent>>

OnLost(s) ==
    /\ \E p \in {"failed", "closed"} : Deliver(s, p)
    /\ Proceed(s, "fail")
    /\ UNCHANGED <<gate, aborted, flaps, sources, host, snapshot, closeSent>>

Open(s) ==
    /\ callback[s] = "checked"
    /\ SetActive(s, TRUE)
    /\ Proceed(s, "opened")
    /\ UNCHANGED <<retired, media, fresh, peer, aborted, flaps, sources, host,
                   snapshot, closeSent>>

Run(s) ==
    /\ callback[s] = "opened"
    /\ Publish(s, "RUNNING")
    /\ Proceed(s, "running")
    /\ UNCHANGED <<retired, active, peer, aborted, flaps, sources, host,
                   snapshot, closeSent>>

\* Mutant: no second look.
NeverRefused(s) == "report"

\* The second look at retired, after both writes.
AfterRecheck(s) == IF retired[s] THEN "refused" ELSE "report"

Recheck(s) ==
    /\ callback[s] = "running"
    /\ Proceed(s, AfterRecheck(s))
    /\ UNCHANGED <<gate, peer, aborted, flaps, sources, host, snapshot, closeSent>>

Report(s) ==
    /\ callback[s] = "report"
    /\ Connected(s)
    /\ Proceed(s, "idle")
    /\ UNCHANGED <<gate, peer, aborted, flaps, sources, host, closeSent>>

\* Every path that closes the gate clears the flag, then tells the sources.
Shut(s) ==
    /\ \/ callback[s] = "refused" /\ Proceed(s, "refusing")
       \/ callback[s] = "pause" /\ Proceed(s, "pausing")
       \/ callback[s] = "fail" /\ Proceed(s, "failing")
    /\ SetActive(s, FALSE)
    /\ UNCHANGED <<retired, media, fresh, peer, aborted, flaps, sources, host,
                   snapshot, closeSent>>

\* Mutant: the sources are stopped for good.
PausedForGood == "STOPPED"

\* What a lost connection tells the sources; a pause can be resumed.
Paused == "WAITING"

Tell(s) ==
    /\ \/ callback[s] = "refusing" /\ Publish(s, "STOPPED") /\ Proceed(s, "idle")
       \/ callback[s] = "pausing" /\ Publish(s, Paused) /\ Proceed(s, "lost")
       \/ callback[s] = "failing" /\ Publish(s, "STOPPED") /\ Proceed(s, "failed")
    /\ UNCHANGED <<retired, active, peer, aborted, flaps, sources, host,
                   snapshot, closeSent>>

ReportLost(s) ==
    /\ \/ callback[s] = "lost" /\ Proceed(s, "idle")
       \/ callback[s] = "failed" /\ Proceed(s, "giveup")
    /\ Disconnected(s)
    /\ UNCHANGED <<gate, peer, aborted, flaps, sources, host, closeSent>>

\* A failed session that nobody retired is closed at the signaling server.
GiveUp(s) ==
    /\ callback[s] = "giveup"
    /\ closeSent' = IF retired[s] THEN closeSent ELSE closeSent \cup {s}
    /\ Proceed(s, "idle")
    /\ UNCHANGED <<gate, peer, aborted, flaps, sources, host, snapshot>>

\* The driver ends at an await after close() aborted it: between callbacks or
\* in the send of SessionClose. No callback follows.
AtAwait(s) == callback[s] \in {"idle", "giveup"}

DriverEnds(s) ==
    /\ s \in aborted
    /\ peer[s] # "gone"
    /\ AtAwait(s)
    /\ peer' = [peer EXCEPT ![s] = "gone"]
    /\ Proceed(s, "idle")
    /\ UNCHANGED <<gate, aborted, flaps, sources, host, snapshot, closeSent>>

CallbackStep(s) ==
    \/ Open(s) \/ Run(s) \/ Recheck(s) \/ Report(s)
    \/ Shut(s) \/ Tell(s) \/ ReportLost(s) \/ GiveUp(s)

PeerEvent(s) == OnConnected(s) \/ OnDisconnected(s) \/ OnLost(s)

-----------------------------------------------------------------------------
(* supervise_video and supervise_audio *)

\* The refinement channel: "start" asks for tiles, its end for plain video.
\* Its task is detached and outlives the driver.
TileMode(s) ==
    /\ peer[s] # "none"
    /\ \/ mode[s] = "unset" /\ mode' = [mode EXCEPT ![s] = "tiles"]
       \/ mode[s] = "tiles" /\ mode' = [mode EXCEPT ![s] = "plain"]
    /\ UNCHANGED <<gate, peers, supervisor, hybrid, host, snapshot, closeSent>>

Advance(s, src, step) ==
    supervisor' = [supervisor EXCEPT ![s] = [@ EXCEPT ![src] = step]]

\* borrow_and_update or a changed() that resolves.
MarkSeen(s, src) == fresh' = [fresh EXCEPT ![s] = @ \ {src}]

\* wait_until_running reads the state ...
AfterWait(s, src) ==
    CASE media[s] = "STOPPED" -> "ended"
      [] media[s] = "WAITING" -> "parked"
      [] OTHER -> IF src = "video" THEN "mode" ELSE "stream"

Wait(s, src) ==
    /\ supervisor[s][src] = "wait"
    /\ MarkSeen(s, src)
    /\ Advance(s, src, AfterWait(s, src))
    /\ UNCHANGED <<retired, active, media, peers, mode, hybrid, host, snapshot,
                   closeSent>>

\* ... and changed() resolves once for a value not seen yet. It would fail
\* without a sender, but the handler and its senders are never dropped.
Changed(s, src, from) ==
    /\ supervisor[s][src] = from
    /\ src \in fresh[s]
    /\ MarkSeen(s, src)
    /\ Advance(s, src, "wait")
    /\ UNCHANGED <<retired, active, media, peers, mode, hybrid, host, snapshot,
                   closeSent>>

\* resolved_video_mode, or plain video after five seconds without a mode.
ChooseMode(s, src) ==
    /\ supervisor[s][src] = "mode"
    /\ hybrid' = [hybrid EXCEPT ![s] = IF mode[s] = "tiles" THEN "tiles" ELSE "plain"]
    /\ Advance(s, src, "gate")
    /\ UNCHANGED <<gate, peers, mode, host, snapshot, closeSent>>

CheckGate(s, src) ==
    /\ supervisor[s][src] = "gate"
    /\ Advance(s, src, IF active[s] THEN "stream" ELSE "wait")
    /\ UNCHANGED <<gate, peers, mode, hybrid, host, snapshot, closeSent>>

\* Mutant: the streams watch for the stop and not for the flag.
StopSeen(s) == media[s] = "STOPPED"

\* Both streams look at the flag before every sample.
GateShut(s) == ~active[s]

\* The stream notices that the gate is shut.
StreamEnds(s, src) ==
    /\ supervisor[s][src] = "stream"
    /\ GateShut(s)
    /\ Advance(s, src, "backoff")
    /\ UNCHANGED <<gate, peers, mode, hybrid, host, snapshot, closeSent>>

\* The display or the playback device changed, or the encoder failed.
StreamFails(s, src) ==
    /\ supervisor[s][src] = "stream"
    /\ active[s]
    /\ Advance(s, src, "backoff")
    /\ UNCHANGED <<gate, peers, mode, hybrid, host, snapshot, closeSent>>

\* Mutant: only the first choice of a mode is noticed.
FirstMode(s) == mode[s] = "tiles" /\ hybrid[s] = "plain"

\* The value resolved_video_mode returns differs from the stream's.
OtherMode(s) == mode[s] # "unset" /\ mode[s] # hybrid[s]

\* changed_video_mode: a stream of the other mode is dropped.
ModeChanges(s, src) ==
    /\ src = "video"
    /\ supervisor[s][src] = "stream"
    /\ OtherMode(s)
    /\ Advance(s, src, "wait")
    /\ UNCHANGED <<gate, peers, mode, hybrid, host, snapshot, closeSent>>

\* The delay before a stream is opened again.
Backoff(s, src) ==
    /\ supervisor[s][src] = "backoff"
    /\ Advance(s, src, "wait")
    /\ UNCHANGED <<gate, peers, mode, hybrid, host, snapshot, closeSent>>

\* Only audio leaves its stream at any notification.
SourceStep(s, src) ==
    \/ Wait(s, src) \/ Changed(s, src, "parked") \/ Changed(s, src, "backoff")
    \/ src = "audio" /\ Changed(s, src, "stream")
    \/ ChooseMode(s, src) \/ CheckGate(s, src)
    \/ StreamEnds(s, src) \/ ModeChanges(s, src) \/ Backoff(s, src)

-----------------------------------------------------------------------------
Next ==
    \/ \E s \in Sessions : TakeOffer(s) \/ TakeClosed(s)
    \/ LoopStep
    \/ \E s \in Sessions : \/ PeerEvent(s) \/ CallbackStep(s)
                           \/ DriverEnds(s) \/ TileMode(s)
    \/ \E s \in Sessions, src \in Sources : SourceStep(s, src) \/ StreamFails(s, src)

Spec == Init /\ [][Next]_vars

(* Threads and tasks that can go on do; peers, browsers and devices need   *)
(* not do anything.                                                        *)
FairSpec ==
    /\ Spec
    /\ WF_vars(LoopStep)
    /\ \A s \in Sessions : WF_vars(CallbackStep(s)) /\ WF_vars(DriverEnds(s))
    /\ \A s \in Sessions, src \in Sources : WF_vars(SourceStep(s, src))

-----------------------------------------------------------------------------
(* Safety *)

\* stop_media of s is over.
Stopped(s) == retired[s] /\ ~(loop.old = s /\ loop.pc \in {"shut", "stop"})

\* Retirement wins (rtc/mod.rs, Connected): whatever the interleaving of a
\* callback with stop_media, once both are over the gate of the session is
\* shut and its sources are not told to run.
RetirementWins ==
    \A s \in Sessions :
        Stopped(s) /\ callback[s] = "idle" => ~active[s] /\ media[s] # "RUNNING"

\* What the status file claims (control.rs): between the loop's signals a
\* "connected" status names a session that is not retired, and whose gate is
\* open unless a callback is just shutting it. A late callback of an older
\* session never passes for the current one.
ConnectedStatusIsCurrent ==
    snapshot.capture /\ loop.pc = "idle" =>
        LET s == snapshot.session IN
        /\ s # None
        /\ ~retired[s]
        /\ callback[s] \notin LossSteps => active[s] /\ media[s] = "RUNNING"

\* Session s has a supervisor that was started and has not ended.
Supervised(s) == \E src \in Sources : supervisor[s][src] \notin {"unborn", "ended"}

\* A peer the Host no longer has was told to close (main.rs, WebrtcOffer): a
\* session is in the map, or in the loop's hands, or retired, unless
\* accept_offer failed before it was spawned. Its sources never outlive
\* every handle that could stop them.
SourcesHaveAnOwner ==
    \A s \in Sessions :
        Supervised(s) =>
            \/ s \in table \cup loop.rest \cup {loop.offer, loop.old}
            \/ retired[s] /\ s \in aborted

\* The single-controller rule (main.rs, WebrtcOffer: "hardware encoders cannot
\* accumulate"): outside a callback, at most one session has its gate open
\* and a supervisor behind it.
Capturing(s) ==
    /\ active[s]
    /\ callback[s] = "idle"
    /\ Supervised(s)

OneCapture == \A s, t \in Sessions : Capturing(s) /\ Capturing(t) => s = t

\* What captures can be stopped by somebody, and is alone.
SourcesAreControlled == SourcesHaveAnOwner /\ OneCapture

(* Why they hold: the inductive invariant *)

\* The loop's bookkeeping: a retired session is in nobody's hands but those of
\* the step that retires it, and the session being accepted is not retired.
LoopInv ==
    /\ table \subseteq offered
    /\ loop.rest \subseteq offered \ table
    /\ loop.pc = "idle" => loop.old = None /\ loop.rest = {}
    /\ loop.old # None <=> loop.pc \in RetireSteps \ {"next"}
    /\ loop.pc \in {"shut", "stop", "close"} => retired[loop.old]
    /\ loop.pc \in AcceptSteps => loop.offer # None
    /\ loop.pc = "status" => loop.offer = None
    /\ loop.offer = None => loop.rest \cup {loop.old} \subseteq {loop.id, None}
    /\ loop.offer # None => loop.offer \in offered
    /\ \A s \in Sessions :
          /\ retired[s] => s \in offered /\ s \notin table \cup loop.rest
          /\ retired[s] => s # loop.offer
          /\ loop.offer = s => s \notin table \cup loop.rest \cup {loop.old}
          /\ loop.old = s => s \in offered /\ s \notin table \cup loop.rest

\* A retired session's gate is open only before the store that shuts it, and
\* its sources are told to run only before the notification that stops them.
GateInv ==
    \A s \in Sessions :
        /\ retired[s] /\ active[s] =>
              \/ loop.old = s /\ loop.pc = "shut"
              \/ callback[s] \in {"opened", "running", "refused"}
        /\ retired[s] /\ media[s] = "RUNNING" =>
              \/ loop.old = s /\ loop.pc \in {"shut", "stop"}
              \/ callback[s] \in {"running", "refused", "refusing"}
        /\ callback[s] \in RefuseSteps => retired[s]
        /\ callback[s] \in {"opened", "running", "report"} /\ ~retired[s] => active[s]
        /\ callback[s] \in {"running", "report"} /\ ~retired[s] => media[s] = "RUNNING"

\* A retired session is shown only until the loop ends what retired it; a
\* "connected" status lasts as long as the gate it stands for.
StatusInv ==
    LET s == snapshot.session IN
    /\ s \in Sessions /\ retired[s] =>
          /\ loop.pc \in RetireSteps \cup {"prepare", "status"}
          /\ loop.offer # None \/ loop.id = s
    /\ snapshot.capture =>
          \/ retired[s]
          \/ callback[s] \in LossSteps \ {"giveup"}
          \/ active[s] /\ media[s] = "RUNNING"

HostInv == LoopInv /\ GateInv /\ StatusInv

\* The sessions the loop could still retire.
InHand == (table \cup loop.rest \cup {loop.old}) \ {None}

\* At most one session is in hand, none while another is being accepted. One
\* with supervisors is in hand, or spawned and not inserted yet, or was closed.
\* Holds unless accept_offer fails after it spawned them.
OwnerInv ==
    /\ loop.pc = "idle" => loop.offer = None
    /\ loop.pc \notin RetireSteps => loop.rest = {}
    /\ loop.offer # None => table = {}
    /\ \A s, t \in InHand : s = t
    /\ \A s \in Sessions : Supervised(s) =>
          \/ s \in InHand
          \/ s = loop.offer /\ loop.pc = "spawned"
          \/ retired[s] /\ s \in aborted

(* Liveness *)

\* A supervisor that does nothing any more. One that waits for its session to
\* resume is where a Disconnected callback that overwrote STOPPED leaves it.
Quiet(s, src) ==
    \/ supervisor[s][src] \in {"unborn", "ended"}
    \/ supervisor[s][src] = "parked" /\ media[s] = "WAITING"

\* A retired session's supervisors end (stop_media; wait_until_running): none
\* misses the stop in its back-off, its choice of a mode or its stream, and
\* none captures again. Only WAITING stored over STOPPED keeps one, for good.
SupervisorsEnd ==
    \A s \in Sessions, src \in Sources : <>[](retired[s] => Quiet(s, src))

\* Sources restart on demand (rtc/mod.rs, Disconnected): while the gate stays
\* open each source is streaming again and again, whatever fails between.
Serving(s) == active[s] /\ media[s] = "RUNNING" /\ s \in table

SourcesResume ==
    \A s \in Sessions, src \in Sources :
        <>[]Serving(s) => []<>(supervisor[s][src] = "stream")

\* A stream in the mode the browser settled on replaces any other.
VideoModeSettles ==
    \A s \in Sessions :
        "video" \in Sources /\ <>[](Serving(s) /\ mode[s] = "plain")
            => <>[](supervisor[s]["video"] = "stream" => hybrid[s] = "plain")

\* Capture stops while the gate is shut (rtc/mod.rs, Disconnected).
CaptureStops ==
    \A s \in Sessions, src \in Sources :
        <>[](~active[s]) => <>[](supervisor[s][src] # "stream")

(* What the README says *)

\* "whether the capture pipeline is idle" (README.md:87): when nothing is in
\* progress, an open gate shows as a connected status.
OpenGateIsShown ==
    loop.pc = "idle" =>
        \A s \in table : Serving(s) /\ callback[s] = "idle" => snapshot.capture
=============================================================================
