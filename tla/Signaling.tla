------------------------------ MODULE Signaling ------------------------------
(***************************************************************************)
(* The signaling server: the device registry, the session registry and the *)
(* message routing of signaling/src/state.rs, and the per-socket handler   *)
(* of signaling/src/websocket.rs.                                          *)
(*                                                                         *)
(* Every WebSocket has a reader task that runs one handler at a time, a    *)
(* bounded queue of outgoing signals and a writer task that drains it.     *)
(* Every POST /api/sessions runs create_session in a task of its own.  A   *)
(* step of a task here is what it does between two await points: one       *)
(* acquisition of a lock, or one send on a queue, which waits for room.    *)
(*                                                                         *)
(* Payloads (SDP, candidates, input bytes) are left out.  A session id is  *)
(* a number; the secret token of a session is known to be presented        *)
(* rightly or not.  The fields `replaced' and `from' are history: which    *)
(* records an insertion evicted, and which socket submitted a signal.      *)
(***************************************************************************)
EXTENDS Naturals, Sequences, FiniteSets

CONSTANTS
    Users,          \* the account names; from_env configures one of them
    Devices,        \* device ids
    Conns,          \* WebSockets that may ever be opened
    Subject,        \* Subject[c]: the principal the socket's ticket was for
    Creators,       \* HTTP tasks that run create_session
    None,           \* Rust's Option::None
    QueueCap,       \* capacity of a socket's outgoing queue (64 in the code)
    MaxSessions,    \* bound: sessions ever created
    MaxSignals,     \* bound: signals the sockets ever submit
    Submitted,      \* bound: the types of signals they submit
    ClientMayAbort  \* whether an HTTP client may give up a pending request

ClientSignals == {"WebrtcOffer", "WebrtcAnswer", "WebrtcIce", "SessionClosed",
                  "InputPacket", "InputAck", "Notice"}

ASSUME SignalingAssumption ==
    /\ Users \cap Devices = {}
    /\ Subject \in [Conns -> Users \cup Devices]
    /\ None \notin Users \cup Devices \cup Conns \cup Creators
    /\ QueueCap \in Nat \ {0}
    /\ MaxSessions \in Nat
    /\ MaxSignals \in Nat
    /\ Submitted \subseteq ClientSignals
    /\ ClientMayAbort \in BOOLEAN

UserConns   == {c \in Conns : Subject[c] \in Users}
DeviceConns == {c \in Conns : Subject[c] \in Devices}
SessionIds  == 1..MaxSessions

VARIABLES
    deviceSender,  \* devices: the socket registered for a device, or None
    sessions,      \* the fields of every session record ever inserted
    live,          \* the ids in the sessions map now
    created,       \* how many ids have been handed out
    granted,       \* the sessions whose id and token an HTTP client was given
    creationLock,  \* session_creation: the task that holds the mutex
    creation,      \* progress of each HTTP task
    link,          \* life of a socket, and of its writer task
    task,          \* progress of each socket's reader task
    queue,         \* the bounded outgoing queue of each socket
    inbox,         \* what the writer has delivered to a device's socket
    signals        \* how many signals have been submitted

registry == <<deviceSender, sessions, live, created>>
http     == <<granted, creationLock, creation>>
sockets  == <<link, task, queue, inbox, signals>>
vars     == <<registry, http, sockets>>
-----------------------------------------------------------------------------
(* Types *)

Record == [owner    : Users \cup {None},
           device   : Devices \cup {None},
           token    : BOOLEAN,               \* session_token is Some
           browser  : Conns \cup {None},     \* browser_sender
           replaced : SUBSET SessionIds]

ToDevice  == {"SessionRequested", "WebrtcOffer", "WebrtcIce", "InputPacket",
              "SessionClosed"}
ToBrowser == {"WebrtcAnswer", "WebrtcIce", "InputAck", "SessionClosed"}
Notice    == "Notice"      \* Ready, Pong and Error, which name no session

Signal == [type    : ToDevice \cup ToBrowser \cup {Notice},
           session : SessionIds \cup {0},
           from    : Conns \cup {None}]

Task == [pc     : {"idle", "register", "session", "device", "send", "remove",
                   "reply"},
         msg    : Signal,
         target : Conns \cup {None}]

Creation == [pc     : {"idle", "insert", "close", "notify", "undo"},
             owner  : Users \cup {None},
             device : Devices \cup {None},
             sender : Conns \cup {None},
             id     : SessionIds \cup {0},
             todo   : SUBSET SessionIds]

Unused      == [owner |-> None, device |-> None, token |-> FALSE,
                browser |-> None, replaced |-> {}]
NoSignal    == [type |-> Notice, session |-> 0, from |-> None]
Idle        == [pc |-> "idle", msg |-> NoSignal, target |-> None]
NotCreating == [pc |-> "idle", owner |-> None, device |-> None,
                sender |-> None, id |-> 0, todo |-> {}]

\* What a record, a request or a handler under way refers to exists.
RecordsOK   == \A s \in 1..created : sessions[s].device \in Devices
CreationsOK ==
    \A r \in Creators :
       /\ creation[r].pc # "idle" => /\ creation[r].owner \in Users
                                     /\ creation[r].device \in Devices
                                     /\ creation[r].sender \in Conns
       /\ creation[r].pc \in {"close", "notify", "undo"}
             => creation[r].id \in 1..created
TasksOK ==
    \A c \in Conns :
       /\ task[c].pc \in {"session", "device", "send", "remove"}
             => task[c].msg.session \in 1..created
       /\ task[c].pc = "send" => task[c].target \in Conns

TypeOK ==
    /\ deviceSender \in [Devices -> Conns \cup {None}]
    /\ sessions \in [SessionIds -> Record]
    /\ created \in 0..MaxSessions
    /\ live \subseteq 1..created
    /\ granted \subseteq 1..created
    /\ creationLock \in Creators \cup {None}
    /\ creation \in [Creators -> Creation]
    /\ link \in [Conns -> {"fresh", "open", "broken", "closed"}]
    /\ task \in [Conns -> Task]
    /\ queue \in [Conns -> Seq(Signal)]
    /\ inbox \in [DeviceConns -> Seq(Signal)]
    /\ signals \in 0..MaxSignals
    /\ RecordsOK
    /\ CreationsOK
    /\ TasksOK
-----------------------------------------------------------------------------
(* Queues.  `Sender::send' waits while the queue is full and fails once    *)
(* the receiving half, which the writer task owns, has been dropped.       *)

CanSend(c)    == link[c] = "open" /\ Len(queue[c]) < QueueCap
Enqueue(c, m) == queue' = [queue EXCEPT ![c] = Append(@, m)]

\* Mutant: the writer ends and leaves the receiving half alive.
NeverFails(c) == FALSE

SendFails(c) == link[c] \in {"broken", "closed"}

ClosedSignal(s, c) == [type |-> "SessionClosed", session |-> s, from |-> c]
-----------------------------------------------------------------------------
(* create_session *)

\* Mutant: the handoff is not serialized.
MayRun(r) == creation[r].pc = "idle"

MayLock(r) == creationLock = None /\ creation[r].pc = "idle"

\* The lock, then the device's sender: without one the request ends at once.
CreateLookup(r, u, d) ==
    /\ MayLock(r)
    /\ created < MaxSessions
    /\ deviceSender[d] # None
    /\ creationLock' = r
    /\ creation' = [creation EXCEPT ![r] =
           [NotCreating EXCEPT !.pc = "insert", !.owner = u, !.device = d,
                               !.sender = deviceSender[d]]]
    /\ UNCHANGED <<registry, granted, sockets>>

\* Mutant: only the sessions some browser has claimed are evicted.
ReplacedClaimed(d) ==
    {s \in live : sessions[s].device = d /\ sessions[s].browser # None}

Replaced(d) == {s \in live : sessions[s].device = d}

\* Under the sessions lock: drop every record of the device, insert the new one.
CreateInsert(r) ==
    LET id  == created + 1
        old == Replaced(creation[r].device)
    IN  /\ creation[r].pc = "insert"
        /\ created < MaxSessions
        /\ created' = id
        /\ live' = (live \ old) \cup {id}
        /\ sessions' = [sessions EXCEPT ![id] =
               [owner |-> creation[r].owner, device |-> creation[r].device,
                token |-> TRUE, browser |-> None, replaced |-> old]]
        /\ creation' = [creation EXCEPT ![r].pc = "close", ![r].id = id,
                                        ![r].todo = old]
        /\ UNCHANGED <<deviceSender, granted, creationLock, sockets>>

\* One SessionClosed per evicted record, in the map's order, each awaiting room.
CreateSendClose(r) ==
    /\ creation[r].pc = "close"
    /\ \E o \in creation[r].todo :
          \/ /\ CanSend(creation[r].sender)
             /\ Enqueue(creation[r].sender, ClosedSignal(o, None))
             /\ creation' = [creation EXCEPT ![r].todo = @ \ {o}]
          \/ /\ SendFails(creation[r].sender)
             /\ creation' = [creation EXCEPT ![r].pc = "undo"]
             /\ UNCHANGED queue
    /\ UNCHANGED <<registry, granted, creationLock, link, task, inbox, signals>>

RequestDue(r) == creation[r].pc = "close" /\ creation[r].todo = {}

CreateSendRequest(r) ==
    LET m == [type |-> "SessionRequested", session |-> creation[r].id,
              from |-> None]
    IN  /\ RequestDue(r)
        /\ \/ /\ CanSend(creation[r].sender)
              /\ Enqueue(creation[r].sender, m)
              /\ creation' = [creation EXCEPT ![r].pc = "notify"]
           \/ /\ SendFails(creation[r].sender)
              /\ creation' = [creation EXCEPT ![r].pc = "undo"]
              /\ UNCHANGED queue
        /\ UNCHANGED <<registry, granted, creationLock, link, task, inbox,
                       signals>>

\* try_send to the browsers bound to the evicted records (a full queue drops
\* the notice), then the response, and the lock is released.
Told(c, olds) == {o \in olds : sessions[o].browser = c}

CreateNotify(r) ==
    LET olds == sessions[creation[r].id].replaced
    IN  /\ creation[r].pc = "notify"
        /\ queue' = [c \in Conns |->
               IF CanSend(c) /\ Told(c, olds) # {}
               THEN Append(queue[c],
                           ClosedSignal(CHOOSE o \in Told(c, olds) : TRUE, None))
               ELSE queue[c]]
        /\ granted' = granted \cup {creation[r].id}
        /\ creation' = [creation EXCEPT ![r] = NotCreating]
        /\ creationLock' = None
        /\ UNCHANGED <<registry, link, task, inbox, signals>>

\* The Host's queue is gone: remove_session_if_current, answer Offline.
CreateUndo(r) ==
    /\ creation[r].pc = "undo"
    /\ live' = live \ {creation[r].id}
    /\ creation' = [creation EXCEPT ![r] = NotCreating]
    /\ creationLock' = None
    /\ UNCHANGED <<deviceSender, sessions, created, granted, sockets>>

\* The HTTP connection goes away: the server drops the handler's future at
\* whatever await point it has reached, and with it the lock guard.
CreateAbort(r) ==
    /\ ClientMayAbort
    /\ creation[r].pc \in {"insert", "close", "undo"}
    /\ creation' = [creation EXCEPT ![r] = NotCreating]
    /\ creationLock' = None
    /\ UNCHANGED <<registry, granted, sockets>>
-----------------------------------------------------------------------------
(* Sockets *)

\* The upgrade: the writer is spawned and Ready is queued before the first read.
Connect(c) ==
    /\ link[c] = "fresh"
    /\ link' = [link EXCEPT ![c] = "open"]
    /\ Enqueue(c, NoSignal)
    /\ task' = [task EXCEPT ![c].pc =
                    IF c \in DeviceConns THEN "register" ELSE "idle"]
    /\ UNCHANGED <<registry, http, inbox, signals>>

\* The first signal of a Host's socket; it takes the device over from any
\* socket registered before.
DeviceRegister(c) ==
    /\ c \in DeviceConns
    /\ task[c].pc = "register"
    /\ deviceSender' = [deviceSender EXCEPT ![Subject[c]] = c]
    /\ task' = [task EXCEPT ![c].pc = "idle"]
    /\ UNCHANGED <<sessions, live, created, http, link, queue, inbox, signals>>

\* The writer task: one queued signal onto the wire, in order ...
WriterSend(c) ==
    /\ link[c] = "open"
    /\ queue[c] # <<>>
    /\ queue' = [queue EXCEPT ![c] = Tail(@)]
    /\ inbox' = IF c \in DeviceConns
                THEN [inbox EXCEPT ![c] = Append(@, Head(queue[c]))]
                ELSE inbox
    /\ UNCHANGED <<registry, http, link, task, signals>>

\* ... until a write fails, which ends the task and drops what is queued.
WriterFail(c) ==
    /\ link[c] = "open"
    /\ link' = [link EXCEPT ![c] = "broken"]
    /\ queue' = [queue EXCEPT ![c] = <<>>]
    /\ UNCHANGED <<registry, http, task, inbox, signals>>

\* Mutant: the comparison of the two senders is inverted.
OfflineOthers(c) ==
    IF c \in DeviceConns /\ deviceSender[Subject[c]] # c
    THEN [deviceSender EXCEPT ![Subject[c]] = None]
    ELSE deviceSender

\* A device's socket takes the device offline, whichever socket it has now.
Offline(c) == IF c \in DeviceConns
              THEN [deviceSender EXCEPT ![Subject[c]] = None]
              ELSE deviceSender

\* The reader sees the socket end between two handlers: the device
\* goes offline, then the writer is aborted.
Disconnect(c) ==
    /\ link[c] \in {"open", "broken"}
    /\ task[c].pc \in {"idle", "register"}
    /\ deviceSender' = Offline(c)
    /\ link' = [link EXCEPT ![c] = "closed"]
    /\ queue' = [queue EXCEPT ![c] = <<>>]
    /\ task' = [task EXCEPT ![c] = Idle]
    /\ UNCHANGED <<sessions, live, created, http, inbox, signals>>
-----------------------------------------------------------------------------
(* handle_signal.  A handler starts on an idle reader of a socket that the *)
(* peer can still write to, and may answer on the socket's own queue.      *)

Starts(c, type) ==
    /\ type \in Submitted
    /\ link[c] \in {"open", "broken"}
    /\ task[c].pc = "idle"
    /\ signals < MaxSignals
    /\ signals' = signals + 1

Continue(c, pc, m) ==
    task' = [task EXCEPT ![c] = [pc |-> pc, msg |-> m, target |-> None]]

Answer(c, m) == Continue(c, "reply", m)

Message(type, s, c) == [type |-> type, session |-> s, from |-> c]

\* Mutant: the offer of an evicted session is still accepted.
AuthorizesEvicted(c, s, ok) ==
    sessions[s].owner = Subject[c] /\ sessions[s].token /\ ok

\* WebrtcOffer: authorize_offer consumes the token and binds the socket.  `ok'
\* is whether the presented token is the one create_session returned.
Authorizes(c, s, ok) ==
    /\ s \in live
    /\ sessions[s].owner = Subject[c]
    /\ sessions[s].token
    /\ ok

WebrtcOffer(c, s, ok) ==
    /\ c \in UserConns
    /\ Starts(c, "WebrtcOffer")
    /\ ok => s \in granted
    /\ \/ /\ Authorizes(c, s, ok)
          /\ sessions' = [sessions EXCEPT ![s].token = FALSE, ![s].browser = c]
          /\ Continue(c, "session", Message("WebrtcOffer", s, c))
       \/ /\ ~Authorizes(c, s, ok)
          /\ Answer(c, ClosedSignal(s, None))
          /\ UNCHANGED sessions
    /\ UNCHANGED <<deviceSender, live, created, http, link, queue, inbox>>

\* WebrtcIce and SessionClose of a browser; WebrtcAnswer, WebrtcIce and
\* SessionClose of a Host: routed with no check before the route's own.
Routed(c, type, s) ==
    /\ Starts(c, type)
    /\ type \in (IF c \in UserConns
                 THEN {"WebrtcIce", "SessionClosed"}
                 ELSE {"WebrtcAnswer", "WebrtcIce", "SessionClosed"})
    /\ Continue(c, "session", Message(type, s, c))
    /\ UNCHANGED <<registry, http, link, queue, inbox>>

\* Mutant: any socket of the session's user may inject.
OwnedBy(c, s) == s \in live /\ sessions[s].owner = Subject[c]

\* InputPacket: only the socket bound to a live session may inject.
BoundTo(c, s) ==
    /\ s \in live
    /\ sessions[s].owner = Subject[c]
    /\ sessions[s].browser = c

InputPacket(c, s) ==
    /\ c \in UserConns
    /\ Starts(c, "InputPacket")
    /\ IF BoundTo(c, s)
       THEN Continue(c, "session", Message("InputPacket", s, c))
       ELSE Answer(c, NoSignal)
    /\ UNCHANGED <<registry, http, link, queue, inbox>>

\* InputAck: only the socket now registered for the device may acknowledge.
InputAck(c, s) ==
    /\ c \in DeviceConns
    /\ Starts(c, "InputAck")
    /\ IF deviceSender[Subject[c]] = c
       THEN Continue(c, "session", Message("InputAck", s, c))
       ELSE Answer(c, NoSignal)
    /\ UNCHANGED <<registry, http, link, queue, inbox>>

\* Ping, a malformed message, or a signal the principal's role may not send.
OtherSignal(c) ==
    /\ Starts(c, Notice)
    /\ Answer(c, NoSignal)
    /\ UNCHANGED <<registry, http, link, queue, inbox>>

\* Where a Host's signal goes: the socket that claimed the session.
ReplySocket(s) == sessions[s].browser

\* route_to_device and route_to_browser: the session's record ...
RouteSession(c) ==
    LET s == task[c].msg.session
        admitted == /\ s \in live
                    /\ \/ c \in UserConns /\ sessions[s].owner = Subject[c]
                       \/ c \in DeviceConns /\ sessions[s].device = Subject[c]
    IN  /\ task[c].pc = "session"
        /\ \/ /\ admitted
              /\ c \in UserConns
              /\ task' = [task EXCEPT ![c].pc = "device"]
           \/ /\ admitted
              /\ c \in DeviceConns
              /\ ReplySocket(s) # None
              /\ task' = [task EXCEPT ![c].pc = "send",
                                      ![c].target = ReplySocket(s)]
           \/ /\ \/ ~admitted
                 \/ c \in DeviceConns /\ ReplySocket(s) = None
              /\ Answer(c, NoSignal)
        /\ UNCHANGED <<registry, http, link, queue, inbox, signals>>

\* ... then, for a browser's signal, the device's sender ...
RouteDevice(c) ==
    LET tx == deviceSender[sessions[task[c].msg.session].device]
    IN  /\ task[c].pc = "device"
        /\ IF tx # None
           THEN task' = [task EXCEPT ![c].pc = "send", ![c].target = tx]
           ELSE Answer(c, NoSignal)
        /\ UNCHANGED <<registry, http, link, queue, inbox, signals>>

\* ... and the send, with no lock held and however much later.
RouteSend(c) ==
    LET m == task[c].msg
        t == task[c].target
    IN  /\ task[c].pc = "send"
        /\ \/ /\ CanSend(t)
              /\ Enqueue(t, m)
              /\ task' = IF m.type = "SessionClosed"
                         THEN [task EXCEPT ![c].pc = "remove"]
                         ELSE [task EXCEPT ![c] = Idle]
           \/ /\ SendFails(t)
              /\ Answer(c, NoSignal)
              /\ UNCHANGED queue
        /\ UNCHANGED <<registry, http, link, inbox, signals>>

\* A SessionClose that was routed removes the record.
RemoveSession(c) ==
    /\ task[c].pc = "remove"
    /\ live' = live \ {task[c].msg.session}
    /\ task' = [task EXCEPT ![c] = Idle]
    /\ UNCHANGED <<deviceSender, sessions, created, http, link, queue, inbox,
                   signals>>

\* The handler's answer on its own queue; a failed send is ignored.
Reply(c) ==
    /\ task[c].pc = "reply"
    /\ \/ CanSend(c) /\ Enqueue(c, task[c].msg)
       \/ SendFails(c) /\ UNCHANGED queue
    /\ task' = [task EXCEPT ![c] = Idle]
    /\ UNCHANGED <<registry, http, link, inbox, signals>>
-----------------------------------------------------------------------------
Init ==
    /\ deviceSender = [d \in Devices |-> None]
    /\ sessions = [s \in SessionIds |-> Unused]
    /\ live = {}
    /\ created = 0
    /\ granted = {}
    /\ creationLock = None
    /\ creation = [r \in Creators |-> NotCreating]
    /\ link = [c \in Conns |-> "fresh"]
    /\ task = [c \in Conns |-> Idle]
    /\ queue = [c \in Conns |-> <<>>]
    /\ inbox = [c \in DeviceConns |-> <<>>]
    /\ signals = 0

\* What a task does by itself once it has been started.
CreateStep(r) ==
    \/ CreateInsert(r)
    \/ CreateSendClose(r)
    \/ CreateSendRequest(r)
    \/ CreateNotify(r)
    \/ CreateUndo(r)

HandlerStep(c) ==
    \/ DeviceRegister(c)
    \/ RouteSession(c)
    \/ RouteDevice(c)
    \/ RouteSend(c)
    \/ RemoveSession(c)
    \/ Reply(c)

\* What clients and the network decide.
ClientStep(c) ==
    \/ Connect(c)
    \/ Disconnect(c)
    \/ WriterFail(c)
    \/ OtherSignal(c)
    \/ \E s \in 1..created :
          \/ \E ok \in BOOLEAN : WebrtcOffer(c, s, ok)
          \/ \E type \in ClientSignals : Routed(c, type, s)
          \/ InputPacket(c, s)
          \/ InputAck(c, s)

Next ==
    \/ \E r \in Creators :
          \/ \E u \in Users, d \in Devices : CreateLookup(r, u, d)
          \/ CreateStep(r)
          \/ CreateAbort(r)
    \/ \E c \in Conns :
          \/ HandlerStep(c)
          \/ WriterSend(c)
          \/ ClientStep(c)

Spec == Init /\ [][Next]_vars

(* The runtime keeps polling a task that can move.  Nothing is asked of a  *)
(* writer: its send has no time-out, its heartbeat is in the same task,    *)
(* and TCP never gives up on a peer that answers and reads nothing.        *)
(* Clients owe nothing either.                                             *)
FairSpec ==
    /\ Spec
    /\ \A r \in Creators : WF_vars(CreateStep(r))
    /\ \A c \in Conns : WF_vars(HandlerStep(c))
-----------------------------------------------------------------------------
(* Properties *)

\* The insertion evicts whatever the device had: however browsers race, fail
\* or give up, the sessions map never holds two records of one device.
OneSessionPerDevice ==
    \A s, t \in live : sessions[s].device = sessions[t].device => s = t

\* Host replies are bound to the exact WebSocket that submitted the offer: a
\* session is claimed at most once, and an evicted one never comes back.
ClaimedOnce ==
    [][\A s \in 1..created :
          /\ s \notin live => s \notin live'
          /\ sessions[s].browser # None =>
                sessions'[s].browser = sessions[s].browser]_vars

\* What a browser's socket is sent about a session by the Host reaches the
\* socket whose offer claimed that session, and no other of the same user.
RepliesReachClaimant ==
    \A c \in UserConns : \A i \in DOMAIN queue[c] :
       queue[c][i].from # None => sessions[queue[c][i].session].browser = c

\* Every signal a device's socket was or will be sent, in order.
DeviceLog(c) == inbox[c] \o queue[c]

\* Input reaches the Host only from the socket that claimed the session,
\* although the check and the send are steps of their own.
InputOnlyFromClaimant ==
    \A c \in DeviceConns : \A i \in DOMAIN DeviceLog(c) :
       LET m == DeviceLog(c)[i]
       IN  m.type = "InputPacket" => sessions[m.session].browser = m.from

Before(c, i, type, s) ==
    \E j \in 1..(i - 1) : /\ DeviceLog(c)[j].type = type
                          /\ DeviceLog(c)[j].session = s

\* The Host sees every old close before the new request on the same channel.
ClosesPrecedeRequest ==
    \A c \in DeviceConns : \A i \in DOMAIN DeviceLog(c) :
       LET m == DeviceLog(c)[i]
       IN  m.type = "SessionRequested" =>
              \A o \in sessions[m.session].replaced :
                 Before(c, i, "SessionClosed", o)

\* Two browsers racing to connect cannot reorder their SessionRequested
\* messages after ownership has changed: ids are handed out by insertion.
RequestsInOwnershipOrder ==
    \A c \in DeviceConns : \A i, j \in DOMAIN DeviceLog(c) :
       /\ DeviceLog(c)[i].type = "SessionRequested"
       /\ DeviceLog(c)[j].type = "SessionRequested"
       /\ i < j
       => DeviceLog(c)[i].session < DeviceLog(c)[j].session

\* A Host is told of evictions and creations in the order they happened.
ToldInOrder == ClosesPrecedeRequest /\ RequestsInOwnershipOrder

\* A session's input and answers pass between the Host and the one socket that
\* claimed it, although what was checked may be old when a signal is queued.
OnlyTheClaimant == InputOnlyFromClaimant /\ RepliesReachClaimant

\* A session evicted by a newer browser is permanently retired: once the Host
\* is told to close it, no offer for it follows.
NoOfferAfterClose ==
    \A c \in DeviceConns : \A i \in DOMAIN DeviceLog(c) :
       LET m == DeviceLog(c)[i]
       IN  m.type = "WebrtcOffer" => ~Before(c, i, "SessionClosed", m.session)

\* A registered sender belongs to a socket whose handler still runs: routing
\* and create_session never pick a socket that was already torn down, in
\* whatever order an old and a new socket of the Host register and end.
RegisteredSocketRuns ==
    \A d \in Devices :
       deviceSender[d] # None => link[deviceSender[d]] \in {"open", "broken"}

\* A live socket whose writer takes nothing off its full queue: the one thing a
\* task of the server can wait for.
Full(c) == c \in Conns /\ link[c] = "open" /\ Len(queue[c]) = QueueCap

\* The mutex over the whole handoff is released again by whoever took it, unless
\* the queue of the Host it sends to stays full for good.
CreationFinishes ==
    \A r \in Creators :
       []<>~Full(creation[r].sender) =>
          (creationLock = r) ~> (creationLock # r)

\* So is every handler done with, unless the queue it answers on, its own
\* socket's or the one it routes to, stays full for good.
Awaits(c) == CASE task[c].pc = "send"  -> task[c].target
               [] task[c].pc = "reply" -> c
               [] OTHER                -> None

HandlerFinishes ==
    \A c \in Conns :
       []<>~Full(Awaits(c)) => (task[c].pc # "idle") ~> (task[c].pc = "idle")

\* No task of the server waits for good, with the mutex or without it, for a
\* lock, another task or a socket that broke or closed while it waited: only a
\* peer that stays connected and stops reading can hold it up.
TasksFinish == CreationFinishes /\ HandlerFinishes
-----------------------------------------------------------------------------
(* Refinement *)

\* The session that owns a device: the one record the map holds for it.
OnlyOf(records) == IF records = {} THEN 0 ELSE CHOOSE s \in records : TRUE

Owner == [d \in Devices |-> OnlyOf(Replaced(d))]

Ownership == INSTANCE SessionOwnership WITH
                taken <- created,
                owner <- Owner,
                claim <- [s \in SessionIds |-> sessions[s].browser]

\* Seen through the map alone, the tasks, locks and queues of the server do
\* what SessionOwnership promises: every step takes, claims or releases a
\* device, or changes nothing there.
ImplementsOwnership == Ownership!Spec
=============================================================================
