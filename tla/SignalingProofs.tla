--------------------------- MODULE SignalingProofs ---------------------------
(* Theorems about Signaling, for every set of sockets, every number of     *)
(* sessions and every queue capacity: who owns a device, and that the      *)
(* server implements SessionOwnership; routing never picks a socket that   *)
(* was torn down; what passes between a Host and a browser about a session *)
(* passes through the socket that claimed it; and what a Host is told in a *)
(* handoff, and in which order, although requests are given up and sockets *)
(* break half-way.                                                         *)
EXTENDS Signaling, SequenceTheorems, TLAPS

USE SignalingAssumption

\* The signals and the task states that the actions build are well typed.
LEMMA SignalTypes ==
    /\ NoSignal \in Signal
    /\ Idle \in Task
    /\ NotCreating \in Creation
    /\ Unused \in Record
    /\ \A s \in SessionIds, c \in Conns \cup {None} : ClosedSignal(s, c) \in Signal
    /\ \A s \in SessionIds, c \in Conns, t \in ClientSignals :
          Message(t, s, c) \in Signal
  BY DEF NoSignal, Idle, NotCreating, Unused, ClosedSignal, Message, Signal, Task,
         Creation, Record, ToDevice, ToBrowser, Notice, ClientSignals, SessionIds

\* Queueing a signal keeps the queues typed.
LEMMA EnqueueType ==
    ASSUME queue \in [Conns -> Seq(Signal)],
           NEW c \in Conns, NEW m \in Signal, Enqueue(c, m)
    PROVE  queue' \in [Conns -> Seq(Signal)]
  BY DEF Enqueue

LEMMA TypeInit == Init => TypeOK
  BY SignalTypes
     DEF Init, TypeOK, Idle, NotCreating, RecordsOK, CreationsOK, TasksOK

\* The conjuncts about requests and tasks depend only on what they mention.
LEMMA TasksUnchanged ==
    ASSUME TypeOK, UNCHANGED task, created' \in Nat, created' >= created
    PROVE  TasksOK'
  BY DEF TypeOK, TasksOK

LEMMA CreationMoves ==
    ASSUME TypeOK, NEW r \in Creators, NEW new \in Creation,
           created' \in Nat, created' >= created,
           new.pc # "idle" => /\ new.owner \in Users
                              /\ new.device \in Devices
                              /\ new.sender \in Conns,
           new.pc \in {"close", "notify", "undo"} => new.id \in 1..created',
           creation' = [creation EXCEPT ![r] = new]
    PROVE  creation' \in [Creators -> Creation] /\ CreationsOK'
  BY DEF TypeOK, CreationsOK

LEMMA CreationIdles ==
    ASSUME TypeOK, NEW r \in Creators, UNCHANGED created,
           creation' = [creation EXCEPT ![r] = NotCreating]
    PROVE  creation' \in [Creators -> Creation] /\ CreationsOK'
  BY SignalTypes DEF TypeOK, CreationsOK, NotCreating

\* The handoff moves on with the same session: only `pc' and `todo' change.
LEMMA HandoffMoves ==
    ASSUME TypeOK, NEW r \in Creators, UNCHANGED created,
           creation[r].pc = "close",
           NEW pc \in {"close", "notify", "undo"},
           NEW todo \in SUBSET SessionIds,
           creation' = [creation EXCEPT ![r].pc = pc, ![r].todo = todo]
    PROVE  creation' \in [Creators -> Creation] /\ CreationsOK'
  <1> DEFINE new == [creation[r] EXCEPT !.pc = pc, !.todo = todo]
  <1>1. creation[r] \in Creation
    BY DEF TypeOK
  <1>2. /\ new \in Creation
        /\ new.owner = creation[r].owner /\ new.device = creation[r].device
        /\ new.sender = creation[r].sender /\ new.id = creation[r].id
    BY <1>1 DEF Creation
  <1>3. creation' = [creation EXCEPT ![r] = new]
    BY DEF TypeOK
  <1>4. /\ creation[r].owner \in Users /\ creation[r].device \in Devices
        /\ creation[r].sender \in Conns /\ creation[r].id \in 1..created
    BY DEF TypeOK, CreationsOK
  <1>5. created' \in Nat /\ created' >= created
    BY DEF TypeOK
  <1> HIDE DEF new
  <1>. QED  BY <1>2, <1>3, <1>4, <1>5, CreationMoves

\* A step of an HTTP task keeps everything typed.
LEMMA TypeCreate ==
    ASSUME TypeOK, NEW r \in Creators,
           \/ \E u \in Users, d \in Devices : CreateLookup(r, u, d)
           \/ CreateStep(r)
           \/ CreateAbort(r)
    PROVE  TypeOK'
  <1> USE DEF TypeOK
  <1>1. ASSUME NEW u \in Users, NEW d \in Devices, CreateLookup(r, u, d)
        PROVE  TypeOK'
    <2> DEFINE new == [NotCreating EXCEPT !.pc = "insert", !.owner = u,
                         !.device = d, !.sender = deviceSender[d]]
    <2>1. /\ new \in Creation
          /\ new.pc = "insert" /\ new.owner = u /\ new.device = d
          /\ new.sender \in Conns
      BY <1>1, SignalTypes DEF CreateLookup, MayLock, Creation, NotCreating
    <2>2. creation' = [creation EXCEPT ![r] = new]
      BY <1>1 DEF CreateLookup
    <2> HIDE DEF new
    <2>3. creation' \in [Creators -> Creation]
      BY <2>1, <2>2
    <2>4. UNCHANGED <<created, sessions, task>>
      BY <1>1 DEF CreateLookup, registry, sockets
    <2>5. CreationsOK'
      BY <2>1, <2>2, <2>4 DEF CreationsOK
    <2>6. RecordsOK' /\ TasksOK'
      BY <2>4 DEF RecordsOK, TasksOK
    <2>. QED  BY <1>1, <2>3, <2>5, <2>6 DEF CreateLookup, registry, sockets
  <1>2. ASSUME CreateInsert(r) PROVE TypeOK'
    <2> DEFINE id == created + 1
               old == Replaced(creation[r].device)
               rec == [owner |-> creation[r].owner, device |-> creation[r].device,
                       token |-> TRUE, browser |-> None, replaced |-> old]
    <2>1. id \in SessionIds /\ id \in 1..created' /\ created' = id
      BY <1>2 DEF CreateInsert, SessionIds
    <2>2. old \subseteq 1..created /\ old \subseteq SessionIds
      <3>1. 1..created \subseteq SessionIds
        BY DEF SessionIds
      <3>. QED  BY <3>1 DEF Replaced
    <2>3. rec \in Record /\ rec.device \in Devices
      BY <1>2, <2>2 DEF Record, Creation, CreateInsert, CreationsOK
    <2>4. sessions' = [sessions EXCEPT ![id] = rec]
      BY <1>2 DEF CreateInsert
    <2>5. sessions' \in [SessionIds -> Record] /\ RecordsOK'
      <3> HIDE DEF rec
      <3>. QED  BY <2>1, <2>3, <2>4 DEF SessionIds, RecordsOK
    <2>6. creation[r].pc = "insert" /\ creation[r] \in Creation
      BY <1>2 DEF CreateInsert
    <2>7. creation' \in [Creators -> Creation] /\ CreationsOK'
      <3> DEFINE new == [creation[r] EXCEPT !.pc = "close", !.id = id, !.todo = old]
      <3>1. /\ new \in Creation /\ new.id = id
            /\ new.owner = creation[r].owner /\ new.device = creation[r].device
            /\ new.sender = creation[r].sender
        <4> HIDE DEF old
        <4>. QED  BY <2>1, <2>2, <2>6 DEF Creation
      <3>2. creation' = [creation EXCEPT ![r] = new]
        BY <1>2 DEF CreateInsert
      <3>3. /\ creation[r].owner \in Users /\ creation[r].device \in Devices
            /\ creation[r].sender \in Conns
        BY <2>6 DEF CreationsOK
      <3>4. created' \in Nat /\ created' >= created /\ new.id \in 1..created'
        BY <2>1, <3>1
      <3> HIDE DEF new
      <3>. QED  BY <3>1, <3>2, <3>3, <3>4, CreationMoves
    <2>8. live' \subseteq 1..created' /\ granted' \subseteq 1..created'
      BY <1>2, <2>1 DEF CreateInsert
    <2>9. TasksOK'
      BY <1>2, <2>1, TasksUnchanged DEF CreateInsert, sockets
    <2>. QED
      BY <1>2, <2>1, <2>5, <2>7, <2>8, <2>9 DEF CreateInsert, sockets, SessionIds
  <1>3. ASSUME CreateSendClose(r) PROVE TypeOK'
    <2>1. PICK o \in creation[r].todo :
             \/ /\ Enqueue(creation[r].sender, ClosedSignal(o, None))
                /\ creation' = [creation EXCEPT ![r].todo = @ \ {o}]
             \/ /\ creation' = [creation EXCEPT ![r].pc = "undo"]
                /\ UNCHANGED queue
      BY <1>3 DEF CreateSendClose
    <2>2. UNCHANGED <<created, sessions, task>> /\ creation[r].pc = "close"
      BY <1>3 DEF CreateSendClose, registry
    <2>3. /\ ClosedSignal(o, None) \in Signal /\ creation[r].sender \in Conns
          /\ creation[r].todo \in SUBSET SessionIds
      BY <2>2, SignalTypes DEF Creation, CreationsOK
    <2>4. queue' \in [Conns -> Seq(Signal)]
      BY <2>1, <2>3, EnqueueType
    <2> DEFINE moved(pc, todo) ==
                 creation' = [creation EXCEPT ![r].pc = pc, ![r].todo = todo]
    <2>5. \/ moved("close", creation[r].todo \ {o})
          \/ moved("undo", creation[r].todo)
      <3>1. creation[r] = [creation[r] EXCEPT !.pc = "close"]
        BY <2>2 DEF Creation
      <3>2. [creation[r] EXCEPT !.pc = "undo"]
               = [creation[r] EXCEPT !.pc = "undo", !.todo = creation[r].todo]
        BY DEF Creation
      <3>. QED  BY <2>1, <3>1, <3>2
    <2>6. creation' \in [Creators -> Creation] /\ CreationsOK'
      <3>1. CASE moved("close", creation[r].todo \ {o})
        <4>1. creation[r].todo \ {o} \in SUBSET SessionIds
          BY <2>3
        <4>. QED  BY <2>2, <3>1, <4>1, HandoffMoves, ZenonT(30)
      <3>2. CASE moved("undo", creation[r].todo)
        BY <2>2, <2>3, <3>2, HandoffMoves
      <3>. QED  BY <2>5, <3>1, <3>2
    <2>7. RecordsOK' /\ TasksOK'
      BY <2>2 DEF RecordsOK, TasksOK
    <2>. QED  BY <1>3, <2>4, <2>6, <2>7 DEF CreateSendClose, registry
  <1>4. ASSUME CreateSendRequest(r) PROVE TypeOK'
    <2> DEFINE m == [type |-> "SessionRequested", session |-> creation[r].id,
                     from |-> None]
    <2>1. \/ creation' = [creation EXCEPT ![r].pc = "notify"]
          \/ creation' = [creation EXCEPT ![r].pc = "undo"]
      BY <1>4 DEF CreateSendRequest, RequestDue
    <2>2. UNCHANGED <<created, sessions, task>> /\ creation[r].pc = "close"
      BY <1>4 DEF CreateSendRequest, RequestDue, registry
    <2>3. /\ m \in Signal /\ creation[r].sender \in Conns
          /\ creation[r].todo \in SUBSET SessionIds
      BY <2>2 DEF Signal, Creation, ToDevice, CreationsOK
    <2>4. Enqueue(creation[r].sender, m) \/ UNCHANGED queue
      BY <1>4 DEF CreateSendRequest, RequestDue
    <2>5. queue' \in [Conns -> Seq(Signal)]
      <3> HIDE DEF m
      <3>. QED  BY <2>3, <2>4, EnqueueType
    <2>6. PICK pc \in {"notify", "undo"} :
             creation' = [creation EXCEPT ![r].pc = pc, ![r].todo = creation[r].todo]
      <3>1. \A pc \in {"notify", "undo"} :
               [creation[r] EXCEPT !.pc = pc]
                  = [creation[r] EXCEPT !.pc = pc, !.todo = creation[r].todo]
        BY DEF Creation
      <3>. QED  BY <2>1, <3>1
    <2>7. creation' \in [Creators -> Creation] /\ CreationsOK'
      BY <2>2, <2>3, <2>6, HandoffMoves
    <2>8. RecordsOK' /\ TasksOK'
      BY <2>2 DEF RecordsOK, TasksOK
    <2>. QED  BY <1>4, <2>5, <2>7, <2>8 DEF CreateSendRequest, registry
  <1>5. ASSUME CreateNotify(r) PROVE TypeOK'
    <2> DEFINE olds == sessions[creation[r].id].replaced
    <2>1. creation[r].id \in 1..created /\ creation[r].id \in SessionIds
      BY <1>5 DEF CreateNotify, CreationsOK, SessionIds
    <2>2. olds \subseteq SessionIds
      BY <2>1 DEF Record
    <2>3. \A c \in Conns : Told(c, olds) # {} =>
             ClosedSignal(CHOOSE o \in Told(c, olds) : TRUE, None) \in Signal
      BY <2>2, SignalTypes DEF Told
    <2>4. queue' = [c \in Conns |->
               IF CanSend(c) /\ Told(c, olds) # {}
               THEN Append(queue[c],
                           ClosedSignal(CHOOSE o \in Told(c, olds) : TRUE, None))
               ELSE queue[c]]
      BY <1>5 DEF CreateNotify
    <2>5. queue' \in [Conns -> Seq(Signal)]
      <3> HIDE DEF olds
      <3>. QED  BY <2>3, <2>4
    <2>6. RecordsOK' /\ TasksOK'
      BY <1>5 DEF CreateNotify, registry, RecordsOK, TasksOK
    <2>. QED
      BY <1>5, <2>1, <2>5, <2>6, CreationIdles DEF CreateNotify, registry
  <1>6. ASSUME CreateUndo(r) PROVE TypeOK'
    <2>1. RecordsOK' /\ TasksOK'
      BY <1>6 DEF CreateUndo, sockets, RecordsOK, TasksOK
    <2>. QED  BY <1>6, <2>1, CreationIdles DEF CreateUndo, sockets
  <1>7. ASSUME CreateAbort(r) PROVE TypeOK'
    <2>1. RecordsOK' /\ TasksOK'
      BY <1>7 DEF CreateAbort, registry, sockets, RecordsOK, TasksOK
    <2>. QED  BY <1>7, <2>1, CreationIdles DEF CreateAbort, registry, sockets
  <1>. QED  BY <1>1, <1>2, <1>3, <1>4, <1>5, <1>6, <1>7 DEF CreateStep

\* A reader task that moves to a well-typed state keeps the tasks typed.
LEMMA TaskMoves ==
    ASSUME TypeOK, NEW c \in Conns, NEW new \in Task, UNCHANGED created,
           new.pc \in {"session", "device", "send", "remove"}
              => new.msg.session \in 1..created,
           new.pc = "send" => new.target \in Conns,
           task' = [task EXCEPT ![c] = new]
    PROVE  task' \in [Conns -> Task] /\ TasksOK'
  BY DEF TypeOK, TasksOK

LEMMA TaskIdles ==
    ASSUME TypeOK, NEW c \in Conns, UNCHANGED created, task' = [task EXCEPT ![c] = Idle]
    PROVE  task' \in [Conns -> Task] /\ TasksOK'
  <1>1. Idle.pc = "idle"
    BY DEF Idle
  <1>. QED  BY <1>1, SignalTypes, TaskMoves

\* Continue starts or ends a handler.
LEMMA ContinueType ==
    ASSUME TypeOK, NEW c \in Conns, NEW m \in Signal, UNCHANGED created,
           NEW pc \in {"session", "reply"}, Continue(c, pc, m),
           pc = "session" => m.session \in 1..created
    PROVE  task' \in [Conns -> Task] /\ TasksOK'
  <1> DEFINE new == [pc |-> pc, msg |-> m, target |-> None]
  <1>1. new \in Task /\ new.pc = pc /\ new.msg = m
    BY DEF Task
  <1>2. task' = [task EXCEPT ![c] = new]
    BY DEF Continue
  <1> HIDE DEF new
  <1>. QED  BY <1>1, <1>2, TaskMoves

LEMMA AnswerType ==
    ASSUME TypeOK, NEW c \in Conns, NEW m \in Signal, UNCHANGED created, Answer(c, m)
    PROVE  task' \in [Conns -> Task] /\ TasksOK'
  BY ContinueType DEF Answer

\* Changing the progress of a task.
LEMMA TaskFields ==
    ASSUME NEW t \in Task
    PROVE  t.msg \in Signal /\ t.target \in Conns \cup {None}
  BY DEF Task

LEMMA TaskPc ==
    ASSUME NEW t \in Task, NEW pc \in {"device", "remove", "idle"}
    PROVE  [t EXCEPT !.pc = pc] = [t EXCEPT !.pc = pc, !.target = t.target]
  BY DEF Task

\* A handler moves on with the same message.
LEMMA RouteMoves ==
    ASSUME TypeOK, NEW c \in Conns, UNCHANGED created,
           NEW pc \in {"device", "send", "remove", "idle"},
           NEW target \in Conns \cup {None},
           pc # "idle" => task[c].pc \in {"session", "device", "send"},
           pc = "send" => target \in Conns,
           task' = [task EXCEPT ![c].pc = pc, ![c].target = target]
    PROVE  task' \in [Conns -> Task] /\ TasksOK'
  <1> DEFINE new == [task[c] EXCEPT !.pc = pc, !.target = target]
  <1>1. task[c] \in Task
    BY DEF TypeOK
  <1>2. /\ new \in Task
        /\ new.pc = pc /\ new.msg = task[c].msg /\ new.target = target
    BY <1>1 DEF Task
  <1>3. task' = [task EXCEPT ![c] = new]
    BY DEF TypeOK
  <1>4. pc # "idle" => task[c].msg.session \in 1..created
    BY DEF TypeOK, TasksOK
  <1> HIDE DEF new
  <1>. QED  BY <1>2, <1>3, <1>4, TaskMoves

LEMMA PcMoves ==
    ASSUME TypeOK, NEW c \in Conns, UNCHANGED created,
           NEW pc \in {"device", "remove", "idle"},
           pc # "idle" => task[c].pc \in {"session", "device", "send"},
           task' = [task EXCEPT ![c].pc = pc]
    PROVE  task' \in [Conns -> Task] /\ TasksOK'
  <1>1. task[c] \in Task
    BY DEF TypeOK
  <1>2. task[c].target \in Conns \cup {None}
    BY <1>1, TaskFields
  <1>3. [task[c] EXCEPT !.pc = pc]
           = [task[c] EXCEPT !.pc = pc, !.target = task[c].target]
    BY <1>1, TaskPc
  <1>4. task' = [task EXCEPT ![c].pc = pc, ![c].target = task[c].target]
    BY <1>3 DEF TypeOK
  <1>. QED  BY <1>2, <1>4, RouteMoves

\* The step leaves the requests and the records alone.
LEMMA RestUnchanged ==
    ASSUME TypeOK, UNCHANGED <<created, creation>>,
           \A s \in 1..created : sessions'[s].device = sessions[s].device
    PROVE  CreationsOK' /\ RecordsOK'
  BY DEF TypeOK, CreationsOK, RecordsOK

\* A step a socket's reader takes by itself keeps everything typed.
LEMMA TypeHandler ==
    ASSUME TypeOK, NEW c \in Conns, HandlerStep(c)
    PROVE  TypeOK'
  <1>0. task[c] \in Task
    BY DEF TypeOK
  <1>1. ASSUME DeviceRegister(c) PROVE TypeOK'
    <2>1. task' \in [Conns -> Task] /\ TasksOK'
      BY <1>1, PcMoves DEF DeviceRegister
    <2>2. deviceSender' \in [Devices -> Conns \cup {None}]
      BY <1>1 DEF DeviceRegister, TypeOK
    <2>3. CreationsOK' /\ RecordsOK'
      BY <1>1, RestUnchanged DEF DeviceRegister, http
    <2>. QED  BY <1>1, <2>1, <2>2, <2>3 DEF DeviceRegister, http, TypeOK
  <1>2. ASSUME RouteSession(c) PROVE TypeOK'
    <2> DEFINE s == task[c].msg.session
    <2>1. UNCHANGED <<created, creation, sessions>> /\ task[c].pc = "session"
      BY <1>2 DEF RouteSession, registry, http
    <2>2. s \in 1..created /\ s \in SessionIds
      BY <2>1 DEF TypeOK, TasksOK, SessionIds
    <2>3. sessions[s].browser \in Conns \cup {None}
      <3>1. sessions[s] \in Record
        BY <2>2 DEF TypeOK
      <3>. QED  BY <3>1 DEF Record
    <2>7. task' \in [Conns -> Task] /\ TasksOK'
      <3>1. CASE Answer(c, NoSignal)
        BY <2>1, <3>1, SignalTypes, AnswerType
      <3>2. CASE task' = [task EXCEPT ![c].pc = "device"]
        BY <2>1, <3>2, PcMoves
      <3>3. CASE sessions[s].browser # None
                 /\ task' = [task EXCEPT ![c].pc = "send",
                                         ![c].target = sessions[s].browser]
        BY <2>1, <2>3, <3>3, RouteMoves
      <3>. QED  BY <1>2, <3>1, <3>2, <3>3 DEF RouteSession, ReplySocket
    <2>8. CreationsOK' /\ RecordsOK'
      BY <2>1, RestUnchanged
    <2>. QED  BY <1>2, <2>7, <2>8 DEF RouteSession, registry, http, TypeOK
  <1>3. ASSUME RouteDevice(c) PROVE TypeOK'
    <2> DEFINE tx == deviceSender[sessions[task[c].msg.session].device]
    <2>1. UNCHANGED <<created, creation, sessions>> /\ task[c].pc = "device"
      BY <1>3 DEF RouteDevice, registry, http
    <2>2. tx \in Conns \cup {None}
      BY <2>1 DEF TypeOK, TasksOK, RecordsOK
    <2>5. task' \in [Conns -> Task] /\ TasksOK'
      <3>1. CASE Answer(c, NoSignal)
        BY <2>1, <3>1, SignalTypes, AnswerType
      <3>2. CASE tx # None /\ task' = [task EXCEPT ![c].pc = "send", ![c].target = tx]
        <4> HIDE DEF tx
        <4>. QED  BY <2>1, <2>2, <3>2, RouteMoves
      <3>. QED  BY <1>3, <3>1, <3>2 DEF RouteDevice
    <2>6. CreationsOK' /\ RecordsOK'
      BY <2>1, RestUnchanged
    <2>. QED  BY <1>3, <2>5, <2>6 DEF RouteDevice, registry, http, TypeOK
  <1>4. ASSUME RouteSend(c) PROVE TypeOK'
    <2>1. UNCHANGED <<created, creation, sessions>> /\ task[c].pc = "send"
      BY <1>4 DEF RouteSend, registry, http
    <2>2. task[c].target \in Conns /\ task[c].msg \in Signal
      BY <2>1, <1>0, TaskFields DEF TypeOK, TasksOK
    <2>6. task' \in [Conns -> Task] /\ TasksOK'
      <3>1. CASE Answer(c, NoSignal)
        BY <2>1, <3>1, SignalTypes, AnswerType
      <3>2. CASE task' = [task EXCEPT ![c] = Idle]
        BY <2>1, <3>2, TaskIdles
      <3>3. CASE task' = [task EXCEPT ![c].pc = "remove"]
        BY <2>1, <3>3, PcMoves
      <3>. QED  BY <1>4, <3>1, <3>2, <3>3 DEF RouteSend
    <2>7. queue' \in [Conns -> Seq(Signal)]
      BY <1>4, <2>2, EnqueueType DEF RouteSend, TypeOK
    <2>8. CreationsOK' /\ RecordsOK'
      BY <2>1, RestUnchanged
    <2>. QED  BY <1>4, <2>6, <2>7, <2>8 DEF RouteSend, registry, http, TypeOK
  <1>5. ASSUME RemoveSession(c) PROVE TypeOK'
    <2>1. task' \in [Conns -> Task] /\ TasksOK'
      BY <1>5, TaskIdles DEF RemoveSession
    <2>2. CreationsOK' /\ RecordsOK'
      BY <1>5, RestUnchanged DEF RemoveSession, http
    <2>. QED  BY <1>5, <2>1, <2>2 DEF RemoveSession, http, TypeOK
  <1>6. ASSUME Reply(c) PROVE TypeOK'
    <2>1. UNCHANGED <<created, creation, sessions>>
      BY <1>6 DEF Reply, registry, http
    <2>2. task' \in [Conns -> Task] /\ TasksOK'
      BY <1>6, <2>1, TaskIdles DEF Reply
    <2>3. queue' \in [Conns -> Seq(Signal)]
      <3>1. task[c].msg \in Signal /\ queue \in [Conns -> Seq(Signal)]
        BY <1>0, TaskFields DEF TypeOK
      <3>. QED  BY <1>6, <3>1, EnqueueType DEF Reply
    <2>4. CreationsOK' /\ RecordsOK'
      BY <2>1, RestUnchanged
    <2>. QED  BY <1>6, <2>2, <2>3, <2>4 DEF Reply, registry, http, TypeOK
  <1>. QED  BY <1>1, <1>2, <1>3, <1>4, <1>5, <1>6 DEF HandlerStep

\* A signal that starts a handler and changes no record.
LEMMA TypeStart ==
    ASSUME TypeOK, NEW c \in Conns, NEW type, Starts(c, type),
           task' \in [Conns -> Task] /\ TasksOK',
           UNCHANGED <<registry, http, link, queue, inbox>>
    PROVE  TypeOK'
  <1>1. CreationsOK' /\ RecordsOK'
    BY RestUnchanged DEF registry, http
  <1>. QED  BY <1>1 DEF TypeOK, Starts, registry, http

\* What a client or the network does keeps everything typed.
LEMMA TypeClient ==
    ASSUME TypeOK, NEW c \in Conns, ClientStep(c) \/ WriterSend(c)
    PROVE  TypeOK'
  <1>0. task[c] \in Task /\ 1..created \subseteq SessionIds
    BY DEF TypeOK, SessionIds
  <1>1. ASSUME Connect(c) PROVE TypeOK'
    <2> DEFINE pc == IF c \in DeviceConns THEN "register" ELSE "idle"
               new == [task[c] EXCEPT !.pc = pc]
    <2>1. new \in Task /\ new.pc \in {"register", "idle"}
      BY <1>0 DEF Task
    <2>2. task' = [task EXCEPT ![c] = new] /\ UNCHANGED created
      BY <1>1 DEF Connect, registry
    <2>3. task' \in [Conns -> Task] /\ TasksOK'
      <3> HIDE DEF new
      <3>. QED  BY <2>1, <2>2, TaskMoves
    <2>4. CreationsOK' /\ RecordsOK'
      BY <1>1, RestUnchanged DEF Connect, registry, http
    <2>5. link' \in [Conns -> {"fresh", "open", "broken", "closed"}]
      BY <1>1 DEF Connect, TypeOK
    <2>6. queue' \in [Conns -> Seq(Signal)]
      BY <1>1, SignalTypes, EnqueueType DEF Connect, TypeOK
    <2>. QED  BY <1>1, <2>3, <2>4, <2>5, <2>6 DEF Connect, registry, http, TypeOK
  <1>2. ASSUME WriterSend(c) PROVE TypeOK'
    <2>1. UNCHANGED <<created, creation, sessions, task>>
      BY <1>2 DEF WriterSend, registry, http
    <2>2. queue[c] \in Seq(Signal) /\ queue[c] # <<>>
      BY <1>2 DEF WriterSend, TypeOK
    <2>3. Head(queue[c]) \in Signal /\ Tail(queue[c]) \in Seq(Signal)
      BY <2>2
    <2>4. queue' \in [Conns -> Seq(Signal)] /\ inbox' \in [DeviceConns -> Seq(Signal)]
      BY <1>2, <2>3 DEF WriterSend, TypeOK
    <2>5. CreationsOK' /\ RecordsOK' /\ TasksOK'
      BY <2>1, RestUnchanged DEF TypeOK, TasksOK
    <2>. QED  BY <1>2, <2>4, <2>5 DEF WriterSend, registry, http, TypeOK
  <1>3. ASSUME WriterFail(c) PROVE TypeOK'
    <2>1. UNCHANGED <<created, creation, sessions, task>>
      BY <1>3 DEF WriterFail, registry, http
    <2>2. CreationsOK' /\ RecordsOK' /\ TasksOK'
      BY <2>1, RestUnchanged DEF TypeOK, TasksOK
    <2>. QED  BY <1>3, <2>2 DEF WriterFail, registry, http, TypeOK
  <1>4. ASSUME Disconnect(c) PROVE TypeOK'
    <2>1. task' \in [Conns -> Task] /\ TasksOK'
      BY <1>4, TaskIdles DEF Disconnect
    <2>2. CreationsOK' /\ RecordsOK'
      BY <1>4, RestUnchanged DEF Disconnect, http
    <2>3. deviceSender' \in [Devices -> Conns \cup {None}]
      BY <1>4 DEF Disconnect, Offline, TypeOK
    <2>4. /\ link' \in [Conns -> {"fresh", "open", "broken", "closed"}]
          /\ queue' \in [Conns -> Seq(Signal)]
      BY <1>4 DEF Disconnect, TypeOK
    <2>. QED  BY <1>4, <2>1, <2>2, <2>3, <2>4 DEF Disconnect, http, TypeOK
  <1>5. ASSUME OtherSignal(c) PROVE TypeOK'
    <2>1. task' \in [Conns -> Task] /\ TasksOK'
      BY <1>5, SignalTypes, AnswerType DEF OtherSignal, registry
    <2>. QED  BY <1>5, <2>1, TypeStart DEF OtherSignal
  <1>6. ASSUME NEW s \in 1..created, NEW ok \in BOOLEAN, WebrtcOffer(c, s, ok)
        PROVE  TypeOK'
    <2>1. /\ Message("WebrtcOffer", s, c) \in Signal
          /\ Message("WebrtcOffer", s, c).session = s
          /\ ClosedSignal(s, None) \in Signal
          /\ UNCHANGED created
      BY <1>0, <1>6, SignalTypes DEF ClientSignals, Message, WebrtcOffer
    <2>2. task' \in [Conns -> Task] /\ TasksOK'
      BY <1>6, <2>1, ContinueType, AnswerType DEF WebrtcOffer
    <2>3. \/ sessions' = [sessions EXCEPT ![s].token = FALSE, ![s].browser = c]
          \/ UNCHANGED sessions
      BY <1>6 DEF WebrtcOffer
    <2>4. sessions' \in [SessionIds -> Record]
      <3>1. sessions[s] \in Record /\ s \in SessionIds
        BY <1>0 DEF TypeOK
      <3>2. [sessions[s] EXCEPT !.token = FALSE, !.browser = c] \in Record
        BY <3>1 DEF Record
      <3>. QED  BY <2>3, <3>1, <3>2 DEF TypeOK
    <2>5. \A t \in 1..created : sessions'[t].device = sessions[t].device
      <3> DEFINE rec == [sessions[s] EXCEPT !.token = FALSE, !.browser = c]
      <3>1. rec.device = sessions[s].device
        <4>1. sessions[s] \in Record
          BY <1>0 DEF TypeOK
        <4>. QED  BY <4>1 DEF Record
      <3>2. sessions' = [sessions EXCEPT ![s] = rec] \/ UNCHANGED sessions
        BY <2>3
      <3> HIDE DEF rec
      <3>. QED  BY <1>0, <3>1, <3>2 DEF TypeOK
    <2>6. CreationsOK' /\ RecordsOK'
      BY <1>6, <2>5, RestUnchanged DEF WebrtcOffer, http
    <2>. QED  BY <1>6, <2>2, <2>4, <2>6 DEF WebrtcOffer, Starts, http, TypeOK
  <1>7. ASSUME NEW s \in 1..created, NEW type \in ClientSignals, Routed(c, type, s)
        PROVE  TypeOK'
    <2>1. Message(type, s, c) \in Signal /\ Message(type, s, c).session = s
      BY <1>0, SignalTypes DEF Message
    <2>2. task' \in [Conns -> Task] /\ TasksOK'
      BY <1>7, <2>1, ContinueType DEF Routed, registry
    <2>. QED  BY <1>7, <2>2, TypeStart DEF Routed
  <1>8. ASSUME NEW s \in 1..created, InputPacket(c, s) \/ InputAck(c, s)
        PROVE  TypeOK'
    <2>1. \A type \in {"InputPacket", "InputAck"} :
             Message(type, s, c) \in Signal /\ Message(type, s, c).session = s
      BY <1>0, SignalTypes DEF Message, ClientSignals
    <2>2. task' \in [Conns -> Task] /\ TasksOK'
      <3>1. UNCHANGED created
        BY <1>8 DEF InputPacket, InputAck, registry
      <3>2. CASE Answer(c, NoSignal)
        BY <3>1, <3>2, SignalTypes, AnswerType
      <3>3. ASSUME NEW type \in {"InputPacket", "InputAck"},
                   Continue(c, "session", Message(type, s, c))
            PROVE  task' \in [Conns -> Task] /\ TasksOK'
        BY <2>1, <3>1, <3>3, ContinueType
      <3>. QED  BY <1>8, <3>2, <3>3 DEF InputPacket, InputAck
    <2>. QED  BY <1>8, <2>2, TypeStart DEF InputPacket, InputAck
  <1>. QED
    BY <1>1, <1>2, <1>3, <1>4, <1>5, <1>6, <1>7, <1>8 DEF ClientStep

LEMMA TypeStep == TypeOK /\ [Next]_vars => TypeOK'
  <1> SUFFICES ASSUME TypeOK, [Next]_vars PROVE TypeOK'
    OBVIOUS
  <1>1. CASE UNCHANGED vars
    BY <1>1 DEF vars, registry, http, sockets, TypeOK, RecordsOK, CreationsOK,
                TasksOK
  <1>2. CASE Next
    BY <1>2, TypeCreate, TypeHandler, TypeClient DEF Next
  <1>. QED  BY <1>1, <1>2

\* Every variable keeps its type, and what a request, a handler or a record
\* refers to exists, in every reachable state of the signaling server.
THEOREM TypeCorrect == Spec => []TypeOK
  BY TypeInit, TypeStep, PTL DEF Spec
-----------------------------------------------------------------------------
(* The sessions map.  Whatever the tasks are doing, a step does one of four *)
(* things to it; the theorems below look at these four alone.               *)

Insertion(r) ==
    LET id  == created + 1
        old == Replaced(creation[r].device)
        rec == [owner |-> creation[r].owner, device |-> creation[r].device,
                token |-> TRUE, browser |-> None, replaced |-> old]
    IN  /\ created < MaxSessions
        /\ creation[r].device \in Devices
        /\ created' = id
        /\ live' = (live \ old) \cup {id}
        /\ sessions' = [sessions EXCEPT ![id] = rec]

Claiming(s, c) ==
    /\ s \in live
    /\ sessions[s].token
    /\ sessions' = [sessions EXCEPT ![s].token = FALSE, ![s].browser = c]
    /\ UNCHANGED <<live, created>>

Removal(s) == live' = live \ {s} /\ UNCHANGED <<sessions, created>>

LEMMA RegistryStep ==
    ASSUME TypeOK, [Next]_vars
    PROVE  \/ UNCHANGED <<sessions, live, created>>
           \/ \E r \in Creators : Insertion(r)
           \/ \E s \in live, c \in Conns : Claiming(s, c)
           \/ \E s : Removal(s)
  <1> DEFINE Goal == \/ UNCHANGED <<sessions, live, created>>
                     \/ \E r \in Creators : Insertion(r)
                     \/ \E s \in live, c \in Conns : Claiming(s, c)
                     \/ \E s : Removal(s)
  <1> SUFFICES Goal
    OBVIOUS
  <1>1. CASE UNCHANGED vars
    BY <1>1 DEF vars, registry
  <1>2. ASSUME NEW r \in Creators, CreateInsert(r) PROVE Goal
    <2>1. creation[r].device \in Devices
      BY <1>2 DEF CreateInsert, TypeOK, CreationsOK
    <2>2. Insertion(r)
      BY <1>2, <2>1 DEF CreateInsert, Insertion
    <2>. QED  BY <2>2
  <1>3. ASSUME NEW r \in Creators, CreateUndo(r) PROVE Goal
    <2>1. Removal(creation[r].id)
      BY <1>3 DEF CreateUndo, Removal
    <2>. QED  BY <2>1
  <1>4. ASSUME NEW r \in Creators,
               \/ \E u \in Users, d \in Devices : CreateLookup(r, u, d)
               \/ CreateSendClose(r) \/ CreateSendRequest(r)
               \/ CreateNotify(r) \/ CreateAbort(r)
        PROVE  Goal
    BY <1>4 DEF CreateLookup, CreateSendClose, CreateSendRequest, CreateNotify,
                CreateAbort, registry
  <1>5. ASSUME NEW c \in Conns, RemoveSession(c) PROVE Goal
    <2>1. Removal(task[c].msg.session)
      BY <1>5 DEF RemoveSession, Removal
    <2>. QED  BY <2>1
  <1>6. ASSUME NEW c \in Conns, HandlerStep(c), ~RemoveSession(c) PROVE Goal
    BY <1>6 DEF HandlerStep, DeviceRegister, RouteSession, RouteDevice, RouteSend,
                Reply, registry
  <1>7. ASSUME NEW c \in Conns, NEW s \in 1..created, NEW ok \in BOOLEAN,
               WebrtcOffer(c, s, ok)
        PROVE  Goal
    <2>1. Claiming(s, c) \/ UNCHANGED <<sessions, live, created>>
      BY <1>7 DEF WebrtcOffer, Claiming, Authorizes
    <2>2. Claiming(s, c) => s \in live
      BY DEF Claiming
    <2>. QED  BY <2>1, <2>2
  <1>8. ASSUME NEW c \in Conns, ClientStep(c) \/ WriterSend(c),
               ~ \E s \in 1..created, ok \in BOOLEAN : WebrtcOffer(c, s, ok)
        PROVE  Goal
    BY <1>8 DEF ClientStep, Connect, Disconnect, WriterFail, WriterSend, OtherSignal,
                Routed, InputPacket, InputAck, registry
  <1>9. CASE Next
    BY <1>2, <1>3, <1>4, <1>5, <1>6, <1>7, <1>8, <1>9 DEF Next, CreateStep
  <1>. QED  BY <1>1, <1>9

\* An unclaimed session still has its token, a claimed one never again.
ClaimState ==
    \A s \in SessionIds :
       /\ sessions[s].token => sessions[s].browser = None
       /\ s > created => sessions[s].browser = None

RegistryInv == OneSessionPerDevice /\ ClaimState

LEMMA RegistryInit == Init => RegistryInv
  BY DEF Init, RegistryInv, OneSessionPerDevice, ClaimState, Unused, SessionIds

\* What each of the four steps leaves of the records.
LEMMA InsertionRecords ==
    ASSUME TypeOK, NEW r \in Creators, Insertion(r)
    PROVE  /\ created + 1 \in SessionIds
           /\ sessions'[created + 1].device = creation[r].device
           /\ sessions'[created + 1].browser = None
           /\ \A s \in SessionIds : s # created + 1 => sessions'[s] = sessions[s]
           /\ \A s \in live : s \in SessionIds /\ s # created + 1
  <1>1. created + 1 \in SessionIds
    BY DEF TypeOK, Insertion, SessionIds
  <1>2. \A s \in live : s \in SessionIds /\ s # created + 1
    BY DEF TypeOK, SessionIds
  <1>. QED  BY <1>1, <1>2 DEF TypeOK, Insertion

LEMMA ClaimingRecords ==
    ASSUME TypeOK, NEW s \in live, NEW c \in Conns, Claiming(s, c)
    PROVE  /\ s \in SessionIds
           /\ sessions'[s].device = sessions[s].device
           /\ sessions'[s].browser = c
           /\ ~ sessions'[s].token
           /\ \A t \in SessionIds : t # s => sessions'[t] = sessions[t]
  <1> DEFINE rec == [sessions[s] EXCEPT !.token = FALSE, !.browser = c]
  <1>1. s \in SessionIds /\ sessions[s] \in Record
    BY DEF TypeOK, SessionIds
  <1>2. /\ rec.device = sessions[s].device
        /\ rec.browser = c /\ ~ rec.token
    BY <1>1 DEF Record
  <1>3. sessions' = [sessions EXCEPT ![s] = rec]
    BY DEF Claiming
  <1> HIDE DEF rec
  <1>. QED  BY <1>1, <1>2, <1>3 DEF TypeOK

LEMMA RegistryInvStep ==
    ASSUME TypeOK, RegistryInv, [Next]_vars
    PROVE  RegistryInv'
  <1> USE DEF RegistryInv, OneSessionPerDevice, ClaimState
  <1>0. created \in Nat /\ \A s \in live : s \in SessionIds
    BY DEF TypeOK, SessionIds
  <1>1. CASE UNCHANGED <<sessions, live, created>>
    BY <1>1
  <1>2. ASSUME NEW r \in Creators, Insertion(r) PROVE RegistryInv'
    <2>1. \A s \in live' : \/ s = created + 1
                           \/ s \in live /\ sessions[s].device # creation[r].device
      BY <1>2 DEF Insertion, Replaced
    <2>2. OneSessionPerDevice'
      BY <1>2, <2>1, InsertionRecords
    <2>3. ClaimState'
      BY <1>0, <1>2, InsertionRecords DEF Insertion, SessionIds
    <2>. QED  BY <2>2, <2>3
  <1>3. ASSUME NEW s \in live, NEW c \in Conns, Claiming(s, c) PROVE RegistryInv'
    <2>1. live' = live /\ created' = created /\ s \in 1..created
      BY <1>3 DEF Claiming, TypeOK
    <2>2. \A t \in SessionIds : sessions'[t].device = sessions[t].device
      BY <1>3, ClaimingRecords
    <2>3. OneSessionPerDevice'
      BY <1>0, <2>1, <2>2
    <2>4. ClaimState'
      BY <1>0, <1>3, <2>1, ClaimingRecords
    <2>. QED  BY <2>3, <2>4
  <1>4. ASSUME NEW s, Removal(s) PROVE RegistryInv'
    BY <1>4 DEF Removal
  <1>. QED  BY <1>1, <1>2, <1>3, <1>4, RegistryStep

LEMMA RegistryCorrect == Spec => [](TypeOK /\ RegistryInv)
  <1>1. Init => TypeOK /\ RegistryInv
    BY TypeInit, RegistryInit
  <1>2. (TypeOK /\ RegistryInv) /\ [Next]_vars => (TypeOK /\ RegistryInv)'
    BY TypeStep, RegistryInvStep
  <1>. QED  BY <1>1, <1>2, PTL DEF Spec

\* However requests race, fail or are given up, a device never has two records.
THEOREM OneSession == Spec => []OneSessionPerDevice
  <1>1. TypeOK /\ RegistryInv => OneSessionPerDevice
    BY DEF RegistryInv
  <1>. QED  BY <1>1, RegistryCorrect, PTL

\* A session is bound to one WebSocket for good, and once it has left the map
\* it never returns.
THEOREM ClaimOnce == Spec => ClaimedOnce
  <1> DEFINE Kept == \A s \in 1..created :
                        /\ s \notin live => s \notin live'
                        /\ sessions[s].browser # None =>
                              sessions'[s].browser = sessions[s].browser
  <1>1. ASSUME TypeOK, RegistryInv, [Next]_vars
        PROVE  Kept
    <2>0. created \in Nat /\ \A s \in 1..created : s \in SessionIds
      BY <1>1 DEF TypeOK, SessionIds
    <2>1. CASE UNCHANGED <<sessions, live, created>>
      BY <2>1
    <2>2. ASSUME NEW r \in Creators, Insertion(r) PROVE Kept
      BY <1>1, <2>0, <2>2, InsertionRecords DEF Insertion
    <2>3. ASSUME NEW s \in live, NEW c \in Conns, Claiming(s, c) PROVE Kept
      <3>1. s \in SessionIds /\ sessions[s].browser = None
        BY <1>1, <2>3, ClaimingRecords DEF Claiming, RegistryInv, ClaimState
      <3>. QED  BY <1>1, <2>0, <2>3, <3>1, ClaimingRecords DEF Claiming
    <2>4. ASSUME NEW s, Removal(s) PROVE Kept
      BY <2>4 DEF Removal
    <2>. QED  BY <1>1, <2>1, <2>2, <2>3, <2>4, RegistryStep
  <1>2. TypeOK /\ RegistryInv /\ [Next]_vars => [Kept]_vars
    BY <1>1
  <1>. QED  BY <1>2, RegistryCorrect, PTL DEF Spec, ClaimedOnce
-----------------------------------------------------------------------------
(* Refinement of SessionOwnership *)

\* With one record per device, Owner names it.
Records(d) == {s \in live : sessions[s].device = d}

LEMMA OwnerFunction ==
    /\ Owner = [d \in Devices |-> OnlyOf(Records(d))]
    /\ Owner' = [d \in Devices |-> OnlyOf(Records(d)')]
  BY DEF Owner, Replaced, Records

LEMMA OnlyOfNone == OnlyOf({}) = 0
  BY DEF OnlyOf

LEMMA OnlyOfOne == ASSUME NEW s PROVE OnlyOf({s}) = s
  BY DEF OnlyOf

LEMMA OwnerIs ==
    ASSUME TypeOK, OneSessionPerDevice, NEW s \in live, sessions[s].device \in Devices
    PROVE  Owner[sessions[s].device] = s
  <1>1. Records(sessions[s].device) = {s}
    BY DEF Records, OneSessionPerDevice
  <1>. QED  BY <1>1, OnlyOfOne, OwnerFunction

LEMMA OwnershipInit == Init => Ownership!Init
  <1> SUFFICES ASSUME Init PROVE Ownership!Init
    OBVIOUS
  <1>1. \A d \in Devices : Records(d) = {}
    BY DEF Init, Records
  <1>2. Owner = [d \in Devices |-> 0]
    BY <1>1, OwnerFunction, OnlyOfNone
  <1>. QED  BY <1>2 DEF Init, Ownership!Init, Unused, SessionIds

\* The owner of a device changes only if the records of the device do.
LEMMA OwnerMoves ==
    ASSUME NEW d \in Devices, NEW v,
           \A e \in Devices : e # d => Records(e)' = Records(e),
           OnlyOf(Records(d)') = v
    PROVE  Owner' = [Owner EXCEPT ![d] = v]
  <1> DEFINE before(e) == OnlyOf(Records(e))
             after(e)  == OnlyOf(Records(e)')
  <1>1. \A e \in Devices : e # d => after(e) = before(e)
    OBVIOUS
  <1>2. Owner = [e \in Devices |-> before(e)] /\ Owner' = [e \in Devices |-> after(e)]
    BY OwnerFunction
  <1>3. after(d) = v
    OBVIOUS
  <1> HIDE DEF before, after
  <1>. QED  BY <1>1, <1>2, <1>3

LEMMA OwnerKept ==
    ASSUME \A e \in Devices : Records(e)' = Records(e)
    PROVE  Owner' = Owner
  <1> DEFINE before(e) == OnlyOf(Records(e))
             after(e)  == OnlyOf(Records(e)')
  <1>1. \A e \in Devices : after(e) = before(e)
    OBVIOUS
  <1>2. Owner = [e \in Devices |-> before(e)] /\ Owner' = [e \in Devices |-> after(e)]
    BY OwnerFunction
  <1> HIDE DEF before, after
  <1>. QED  BY <1>1, <1>2

Claims == [s \in SessionIds |-> sessions[s].browser]

\* An insertion takes the device.
LEMMA InsertionTakes ==
    ASSUME TypeOK, ClaimState, NEW r \in Creators, Insertion(r),
           NEW d \in Devices, d = creation[r].device
    PROVE  Ownership!Take(d)
  <1>1. d \in Devices /\ created < MaxSessions /\ created' = created + 1
    BY DEF Insertion
  <1>2. live' = (live \ {s \in live : sessions[s].device = d}) \cup {created + 1}
    BY DEF Insertion, Replaced
  <1>3. \A e \in Devices : e # d => Records(e)' = Records(e)
    BY <1>2, InsertionRecords DEF Records
  <1>4. Records(d)' = {created + 1}
    BY <1>2, InsertionRecords DEF Records
  <1>5. OnlyOf(Records(d)') = created + 1
    BY <1>4, OnlyOfOne
  <1>6. Owner' = [Owner EXCEPT ![d] = created + 1]
    BY <1>1, <1>3, <1>5, OwnerMoves
  <1>7. sessions[created + 1].browser = None
    BY InsertionRecords DEF ClaimState, TypeOK
  <1>8. \A s \in SessionIds : sessions'[s].browser = sessions[s].browser
    BY <1>7, InsertionRecords
  <1>9. Claims' = Claims
    BY <1>8 DEF Claims
  <1>. QED  BY <1>1, <1>6, <1>9 DEF Ownership!Take, Claims

\* An accepted offer claims the owner of a device.
LEMMA ClaimingClaims ==
    ASSUME TypeOK, RegistryInv, NEW s \in live, NEW c \in Conns, Claiming(s, c),
           NEW d \in Devices, d = sessions[s].device
    PROVE  Ownership!Claim(d, c)
  <1>1. s \in SessionIds /\ s # 0
    BY DEF TypeOK, SessionIds
  <1>2. Owner[d] = s
    BY <1>1, OwnerIs DEF RegistryInv
  <1>3. Claims[s] = None
    BY <1>1 DEF Claiming, RegistryInv, ClaimState, Claims
  <1>4. live' = live /\ live \subseteq SessionIds
    BY DEF Claiming, TypeOK, SessionIds
  <1>5. \A t \in SessionIds : sessions'[t].device = sessions[t].device
    BY ClaimingRecords
  <1>6. \A e \in Devices : Records(e)' = Records(e)
    BY <1>4, <1>5 DEF Records
  <1>7. Owner' = Owner
    BY <1>6, OwnerKept
  <1>8. Claims' = [Claims EXCEPT ![s] = c]
    <2> DEFINE before(t) == sessions[t].browser
               after(t)  == sessions'[t].browser
    <2>1. after(s) = c /\ \A t \in SessionIds : t # s => after(t) = before(t)
      BY ClaimingRecords
    <2>2. /\ Claims = [t \in SessionIds |-> before(t)]
          /\ Claims' = [t \in SessionIds |-> after(t)]
      BY DEF Claims, SessionIds
    <2> HIDE DEF before, after
    <2>. QED  BY <1>1, <2>1, <2>2
  <1>9. created' = created
    BY DEF Claiming
  <1>. QED  BY <1>1, <1>2, <1>3, <1>7, <1>8, <1>9 DEF Ownership!Claim, Claims

\* A removal releases the device, or finds nothing to remove.
LEMMA RemovalReleases ==
    ASSUME TypeOK, RegistryInv, NEW s, Removal(s)
    PROVE  [Ownership!Next]_(Ownership!vars)
  <1>0. sessions' = sessions /\ created' = created /\ Claims' = Claims
    BY DEF Removal, Claims
  <1>1. CASE s \notin live
    <2>1. live' = live
      BY <1>1 DEF Removal
    <2>2. Owner' = Owner
      BY <1>0, <2>1, OwnerKept DEF Records
    <2>. QED  BY <1>0, <2>2 DEF Ownership!vars, Claims
  <1>2. CASE s \in live
    <2>0. sessions[s].device \in Devices /\ s # 0
      BY <1>2 DEF TypeOK, RecordsOK, SessionIds
    <2> PICK d \in Devices : d = sessions[s].device
      BY <2>0
    <2>1. d \in Devices /\ s # 0
      BY <2>0
    <2>2. Owner[d] = s
      BY <1>2, <2>1, OwnerIs DEF RegistryInv
    <2>3. live' = live \ {s}
      BY DEF Removal
    <2>4. \A e \in Devices : e # d => Records(e)' = Records(e)
      BY <1>0, <2>3 DEF Records
    <2>5. Records(d)' = {}
      BY <1>0, <1>2, <2>3 DEF Records, RegistryInv, OneSessionPerDevice
    <2>6. OnlyOf(Records(d)') = 0
      BY <2>5, OnlyOfNone
    <2>7. Owner' = [Owner EXCEPT ![d] = 0]
      BY <2>1, <2>4, <2>6, OwnerMoves
    <2>8. Ownership!Release(d)
      BY <1>0, <2>1, <2>2, <2>7 DEF Ownership!Release, Claims
    <2>. QED  BY <2>1, <2>8 DEF Ownership!Next
  <1>. QED  BY <1>1, <1>2

LEMMA OwnershipStep ==
    ASSUME TypeOK, RegistryInv, [Next]_vars
    PROVE  [Ownership!Next]_(Ownership!vars)
  <1>1. CASE UNCHANGED <<sessions, live, created>>
    <2>1. Owner' = Owner
      BY <1>1, OwnerKept DEF Records
    <2>2. Claims' = Claims
      BY <1>1 DEF Claims
    <2>. QED  BY <1>1, <2>1, <2>2 DEF Ownership!vars, Claims
  <1>2. ASSUME NEW r \in Creators, Insertion(r)
        PROVE  [Ownership!Next]_(Ownership!vars)
    <2>1. PICK d \in Devices : d = creation[r].device
      BY <1>2 DEF Insertion
    <2>. QED  BY <1>2, <2>1, InsertionTakes DEF Ownership!Next, RegistryInv
  <1>3. ASSUME NEW s \in live, NEW c \in Conns, Claiming(s, c)
        PROVE  [Ownership!Next]_(Ownership!vars)
    <2>1. PICK d \in Devices : d = sessions[s].device
      BY DEF TypeOK, RecordsOK
    <2>. QED  BY <1>3, <2>1, ClaimingClaims DEF Ownership!Next
  <1>4. ASSUME NEW s, Removal(s) PROVE [Ownership!Next]_(Ownership!vars)
    BY <1>4, RemovalReleases
  <1>. QED  BY <1>1, <1>2, <1>3, <1>4, RegistryStep

\* The server, with its tasks, locks and queues, implements SessionOwnership.
THEOREM Implements == Spec => ImplementsOwnership
  <1>1. Init => Ownership!Init
    BY OwnershipInit
  <1>2. TypeOK /\ RegistryInv /\ [Next]_vars => [Ownership!Next]_(Ownership!vars)
    BY OwnershipStep
  <1>. QED  BY <1>1, <1>2, RegistryCorrect, PTL DEF Spec, ImplementsOwnership, Ownership!Spec

-----------------------------------------------------------------------------
(* Registered sockets run *)

Runs(c) == link[c] \in {"open", "broken"}

\* A reader that is at work has a socket; the one registered for a device is one
\* of that device's, and its own end takes it out.
TasksRun == \A c \in Conns : task[c].pc # "idle" => Runs(c)

SendersRun ==
    \A d \in Devices : deviceSender[d] # None => /\ Subject[deviceSender[d]] = d
                                                 /\ Runs(deviceSender[d])

RunInv == TasksRun /\ SendersRun

LEMMA RunInit == Init => RunInv
  BY DEF Init, RunInv, TasksRun, SendersRun, Idle

\* Where a step leaves the registered sockets and every link alone, a task that
\* is at work afterwards needs its socket.
LEMMA RunKept ==
    ASSUME TypeOK, RunInv, UNCHANGED <<deviceSender, link>>,
           \A c \in Conns : task'[c].pc # "idle" => task[c].pc # "idle" \/ Runs(c)
    PROVE  RunInv'
  BY DEF RunInv, TasksRun, SendersRun, Runs

LEMMA HandlerRuns ==
    ASSUME TypeOK, RunInv, NEW c \in Conns, HandlerStep(c)
    PROVE  RunInv'
  <1>1. CASE DeviceRegister(c)
    <2>1. Subject[c] \in Devices /\ Runs(c) /\ UNCHANGED link
      BY <1>1 DEF DeviceRegister, DeviceConns, RunInv, TasksRun
    <2>2. deviceSender' = [deviceSender EXCEPT ![Subject[c]] = c]
      BY <1>1 DEF DeviceRegister
    <2>3. SendersRun'
      BY <2>1, <2>2 DEF TypeOK, RunInv, SendersRun, Runs
    <2>4. TasksRun'
      BY <1>1, <2>1 DEF DeviceRegister, TypeOK, RunInv, TasksRun, Runs
    <2>. QED  BY <2>3, <2>4 DEF RunInv
  <1>2. CASE ~DeviceRegister(c)
    <2>1. UNCHANGED <<deviceSender, link>> /\ task[c].pc # "idle"
      BY <1>2 DEF HandlerStep, RouteSession, RouteDevice, RouteSend, RemoveSession,
                  Reply, registry
    <2>2. \A e \in Conns : e # c => task'[e] = task[e]
      BY <1>2 DEF HandlerStep, RouteSession, RouteDevice, RouteSend, RemoveSession,
                  Reply, Answer, Continue, TypeOK
    <2>. QED  BY <2>1, <2>2, RunKept
  <1>. QED  BY <1>1, <1>2

LEMMA ClientRuns ==
    ASSUME TypeOK, RunInv, NEW c \in Conns, ClientStep(c) \/ WriterSend(c)
    PROVE  RunInv'
  <1> USE DEF RunInv, TasksRun, SendersRun, Runs
  <1>1. CASE Connect(c)
    BY <1>1 DEF Connect, registry, TypeOK
  <1>2. CASE Disconnect(c)
    <2>1. /\ link' = [link EXCEPT ![c] = "closed"]
          /\ task' = [task EXCEPT ![c] = Idle]
      BY <1>2 DEF Disconnect
    <2>2. TasksRun'
      BY <2>1 DEF TypeOK, Idle
    <2>3. \A d \in Devices : deviceSender'[d] # None =>
             deviceSender'[d] = deviceSender[d] /\ deviceSender[d] # c
      BY <1>2 DEF Disconnect, Offline, DeviceConns, TypeOK
    <2>4. SendersRun'
      BY <2>1, <2>3 DEF TypeOK
    <2>. QED  BY <2>2, <2>4
  <1>3. CASE WriterFail(c)
    BY <1>3 DEF WriterFail, registry, TypeOK
  <1>4. CASE WriterSend(c)
    BY <1>4 DEF WriterSend, registry
  <1>5. ASSUME NEW type, Starts(c, type), UNCHANGED <<deviceSender, link>>,
               NEW pc, NEW m, Continue(c, pc, m)
        PROVE  RunInv'
    <2>1. Runs(c) /\ \A e \in Conns : e # c => task'[e] = task[e]
      BY <1>5 DEF Starts, Continue, TypeOK
    <2>. QED  BY <1>5, <2>1, RunKept
  <1>6. CASE OtherSignal(c)
    BY <1>5, <1>6 DEF OtherSignal, Answer, registry
  <1>7. ASSUME NEW s \in 1..created, NEW ok \in BOOLEAN, WebrtcOffer(c, s, ok)
        PROVE  RunInv'
    BY <1>5, <1>7 DEF WebrtcOffer, Answer
  <1>8. ASSUME NEW s \in 1..created, NEW type \in ClientSignals, Routed(c, type, s)
        PROVE  RunInv'
    BY <1>5, <1>8 DEF Routed, registry
  <1>9. ASSUME NEW s \in 1..created, InputPacket(c, s) \/ InputAck(c, s)
        PROVE  RunInv'
    BY <1>5, <1>9 DEF InputPacket, InputAck, Answer, registry
  <1>. QED
    BY <1>1, <1>2, <1>3, <1>4, <1>6, <1>7, <1>8, <1>9 DEF ClientStep

LEMMA RunStep ==
    ASSUME TypeOK, RunInv, [Next]_vars
    PROVE  RunInv'
  <1>1. CASE UNCHANGED <<deviceSender, link, task>>
    BY <1>1 DEF RunInv, TasksRun, SendersRun, Runs
  <1>2. ASSUME NEW r \in Creators,
               \/ \E u \in Users, d \in Devices : CreateLookup(r, u, d)
               \/ CreateStep(r)
               \/ CreateAbort(r)
        PROVE  UNCHANGED <<deviceSender, link, task>>
    BY <1>2 DEF CreateLookup, CreateStep, CreateInsert, CreateSendClose,
                CreateSendRequest, CreateNotify, CreateUndo, CreateAbort, registry,
                sockets
  <1>3. CASE UNCHANGED vars
    BY <1>1, <1>3 DEF vars, registry, sockets
  <1>4. CASE Next
    BY <1>1, <1>2, <1>4, HandlerRuns, ClientRuns DEF Next
  <1>. QED  BY <1>3, <1>4

\* In whatever order an old and a new socket of a Host register and end, routing
\* and create_session pick a socket that was not torn down.
THEOREM RegisteredRuns == Spec => []RegisteredSocketRuns
  <1>1. Init => TypeOK /\ RunInv
    BY TypeInit, RunInit
  <1>2. (TypeOK /\ RunInv) /\ [Next]_vars => (TypeOK /\ RunInv)'
    BY TypeStep, RunStep
  <1>3. RunInv => RegisteredSocketRuns
    BY DEF RunInv, SendersRun, Runs, RegisteredSocketRuns
  <1>. QED  BY <1>1, <1>2, <1>3, PTL DEF Spec
-----------------------------------------------------------------------------
(* Only the claimant *)

\* The session was claimed by that socket; it stays so (ClaimOnce).
Binds(s, c) == s \in SessionIds /\ c # None /\ sessions[s].browser = c

LEMMA BindsStays ==
    ASSUME TypeOK, RegistryInv, [Next]_vars, NEW s, NEW c, Binds(s, c)
    PROVE  Binds(s, c)'
  <1> SUFFICES sessions'[s].browser = sessions[s].browser
    BY DEF Binds
  <1>1. CASE UNCHANGED <<sessions, live, created>>
    BY <1>1
  <1>2. ASSUME NEW r \in Creators, Insertion(r)
        PROVE  sessions'[s].browser = sessions[s].browser
    <2>1. s # created + 1
      BY DEF Binds, RegistryInv, ClaimState, TypeOK
    <2>. QED  BY <1>2, <2>1, InsertionRecords DEF Binds
  <1>3. ASSUME NEW t \in live, NEW e \in Conns, Claiming(t, e)
        PROVE  sessions'[s].browser = sessions[s].browser
    <2>1. t \in SessionIds /\ sessions[t].browser = None
      BY <1>3, ClaimingRecords DEF Claiming, RegistryInv, ClaimState
    <2>2. s # t
      BY <2>1 DEF Binds
    <2>. QED  BY <1>3, <2>2, ClaimingRecords DEF Binds
  <1>4. ASSUME NEW t, Removal(t) PROVE sessions'[s].browser = sessions[s].browser
    BY <1>4 DEF Removal
  <1>. QED  BY <1>1, <1>2, <1>3, <1>4, RegistryStep

\* An input packet names the socket its session is bound to; a signal of the
\* server's own names no socket.
InputBound(m) == m.type = "InputPacket" => Binds(m.session, m.from)

Bare(m) == m.from = None /\ m.type # "InputPacket"

\* What a handler holds between its check and its send.
TaskClaims(c) ==
    /\ task[c].pc \in {"session", "device", "send"} => InputBound(task[c].msg)
    /\ task[c].pc = "send" => IF c \in DeviceConns
                              THEN Binds(task[c].msg.session, task[c].target)
                              ELSE task[c].target \in DeviceConns
    /\ task[c].pc = "device" => c \notin DeviceConns
    /\ task[c].pc = "reply" => Bare(task[c].msg)

Queued(c)    == {queue[c][i] : i \in DOMAIN queue[c]}
Delivered(c) == {inbox[c][i] : i \in DOMAIN inbox[c]}

ClaimantInv ==
    /\ \A c \in Conns : TaskClaims(c)
    /\ \A c \in UserConns : \A m \in Queued(c) : m.from # None => Binds(m.session, c)
    /\ \A c \in DeviceConns : \A m \in Queued(c) \cup Delivered(c) : InputBound(m)

LEMMA ClaimantInit == Init => ClaimantInv
  <1> SUFFICES ASSUME Init PROVE ClaimantInv
    OBVIOUS
  <1>1. \A c \in Conns : TaskClaims(c)
    BY DEF Init, TaskClaims, Idle
  <1>2. \A c \in Conns : Queued(c) = {}
    BY DEF Init, Queued
  <1>3. \A c \in DeviceConns : c \in Conns /\ Delivered(c) = {}
    BY DEF Init, Delivered, DeviceConns
  <1>. QED  BY <1>1, <1>2, <1>3 DEF ClaimantInv, UserConns

\* Queueing adds one signal, and taking the first leaves the others.
LEMMA EnqueueAdds ==
    ASSUME TypeOK, NEW c \in Conns, NEW m, Enqueue(c, m), NEW e \in Conns
    PROVE  Queued(e)' \subseteq Queued(e) \cup (IF e = c THEN {m} ELSE {})
  <1>1. queue' = [queue EXCEPT ![c] = Append(queue[c], m)]
    BY DEF Enqueue
  <1>2. CASE e # c
    BY <1>1, <1>2 DEF TypeOK, Queued
  <1>3. CASE e = c
    <2>1. queue'[c] = Append(queue[c], m)
      BY <1>1 DEF TypeOK
    <2>2. PICK S : queue[c] \in Seq(S) /\ m \in S
      <3>1. queue[c] \in Seq(Signal \cup {m})
        BY DEF TypeOK
      <3>. QED  BY <3>1
    <2>3. \A i \in DOMAIN queue'[c] : \/ queue'[c][i] = m
                                      \/ i \in DOMAIN queue[c] /\ queue'[c][i] = queue[c][i]
      BY <2>1, <2>2
    <2>. QED  BY <1>3, <2>3 DEF Queued
  <1>. QED  BY <1>2, <1>3

LEMMA TailElements ==
    ASSUME NEW S, NEW q \in Seq(S), q # <<>>
    PROVE  \A i \in DOMAIN Tail(q) : i + 1 \in DOMAIN q /\ Tail(q)[i] = q[i + 1]
  <1>1. Len(q) > 0 /\ DOMAIN q = 1..Len(q)
    OBVIOUS
  <1>2. Len(Tail(q)) = Len(q) - 1 /\ DOMAIN Tail(q) = 1..(Len(q) - 1)
    OBVIOUS
  <1>. QED  BY <1>1, <1>2

\* What is queued after a step was queued before it, or is an answer or a notice
\* of the server, or was sent by a handler that had chosen this socket.
LEMMA QueueStep ==
    ASSUME TypeOK, ClaimantInv, [Next]_vars, NEW c \in Conns, NEW m \in Queued(c)'
    PROVE  \/ m \in Queued(c)
           \/ Bare(m)
           \/ \E x \in Conns : /\ task[x].pc = "send" /\ task[x].target = c
                               /\ m = task[x].msg
  <1> DEFINE Goal == \/ m \in Queued(c)
                     \/ Bare(m)
                     \/ \E x \in Conns : /\ task[x].pc = "send" /\ task[x].target = c
                                         /\ m = task[x].msg
  <1> SUFFICES Goal
    OBVIOUS
  <1>1. CASE UNCHANGED queue
    BY <1>1 DEF Queued
  <1>2. ASSUME NEW e \in Conns, NEW n, Enqueue(e, n), Bare(n) PROVE Goal
    BY <1>2, EnqueueAdds
  <1>3. ASSUME NEW r \in Creators, CreateSendClose(r) PROVE Goal
    <2>1. creation[r].sender \in Conns
      BY <1>3 DEF CreateSendClose, TypeOK, CreationsOK
    <2>2. \A o : Bare(ClosedSignal(o, None))
      BY DEF Bare, ClosedSignal
    <2>. QED  BY <1>1, <1>2, <1>3, <2>1, <2>2 DEF CreateSendClose
  <1>4. ASSUME NEW r \in Creators, CreateSendRequest(r) PROVE Goal
    <2> DEFINE n == [type |-> "SessionRequested", session |-> creation[r].id,
                     from |-> None]
    <2>1. creation[r].sender \in Conns
      BY <1>4 DEF CreateSendRequest, RequestDue, TypeOK, CreationsOK
    <2>2. Bare(n)
      BY DEF Bare
    <2>3. Enqueue(creation[r].sender, n) \/ UNCHANGED queue
      BY <1>4 DEF CreateSendRequest
    <2> HIDE DEF n
    <2>. QED  BY <1>1, <1>2, <2>1, <2>2, <2>3
  <1>5. ASSUME NEW r \in Creators, CreateNotify(r) PROVE Goal
    <2> DEFINE told == Told(c, sessions[creation[r].id].replaced)
               n == ClosedSignal(CHOOSE o \in told : TRUE, None)
    <2>1. queue'[c] = queue[c] \/ queue'[c] = Append(queue[c], n)
      BY <1>5 DEF CreateNotify
    <2>2. Bare(n)
      BY DEF Bare, ClosedSignal
    <2> HIDE DEF n
    <2>3. CASE queue'[c] = Append(queue[c], n)
      <3>1. queue[c] \in Seq(Signal \cup {n})
        BY DEF TypeOK
      <3>2. \A i \in DOMAIN queue'[c] :
               \/ queue'[c][i] = n
               \/ i \in DOMAIN queue[c] /\ queue'[c][i] = queue[c][i]
        BY <2>3, <3>1
      <3>. QED  BY <2>2, <3>2 DEF Queued
    <2>. QED  BY <2>1, <2>3 DEF Queued
  <1>6. ASSUME NEW r \in Creators,
               \/ \E u \in Users, d \in Devices : CreateLookup(r, u, d)
               \/ CreateInsert(r) \/ CreateUndo(r) \/ CreateAbort(r)
        PROVE  Goal
    BY <1>1, <1>6 DEF CreateLookup, CreateInsert, CreateUndo, CreateAbort, sockets
  <1>7. ASSUME NEW x \in Conns, RouteSend(x) PROVE Goal
    <2>1. CASE UNCHANGED queue
      BY <1>1, <2>1
    <2>2. CASE Enqueue(task[x].target, task[x].msg)
      <3>1. task[x].pc = "send" /\ task[x].target \in Conns
        BY <1>7 DEF RouteSend, TypeOK, TasksOK
      <3>. QED  BY <2>2, <3>1, EnqueueAdds
    <2>. QED  BY <1>7, <2>1, <2>2 DEF RouteSend
  <1>8. ASSUME NEW x \in Conns, Reply(x) PROVE Goal
    <2>1. Bare(task[x].msg)
      BY <1>8 DEF Reply, ClaimantInv, TaskClaims
    <2>. QED  BY <1>1, <1>2, <1>8, <2>1 DEF Reply
  <1>9. ASSUME NEW x \in Conns, HandlerStep(x), ~RouteSend(x), ~Reply(x) PROVE Goal
    BY <1>1, <1>9 DEF HandlerStep, DeviceRegister, RouteSession, RouteDevice,
                      RemoveSession
  <1>10. ASSUME NEW x \in Conns, WriterSend(x) PROVE Goal
    <2>1. queue[x] \in Seq(Signal) /\ queue[x] # <<>>
          /\ queue' = [queue EXCEPT ![x] = Tail(queue[x])]
      BY <1>10 DEF WriterSend, TypeOK
    <2>2. CASE x # c
      BY <2>1, <2>2 DEF Queued, TypeOK
    <2>3. CASE x = c
      <3>1. queue'[c] = Tail(queue[c])
        BY <2>1, <2>3 DEF TypeOK
      <3>2. \A i \in DOMAIN queue'[c] :
               i + 1 \in DOMAIN queue[c] /\ queue'[c][i] = queue[c][i + 1]
        BY <2>1, <2>3, <3>1, TailElements
      <3>. QED  BY <3>2 DEF Queued
    <2>. QED  BY <2>2, <2>3
  <1>11. ASSUME NEW x \in Conns, WriterFail(x) \/ Disconnect(x) PROVE Goal
    <2>1. queue' = [queue EXCEPT ![x] = <<>>]
      BY <1>11 DEF WriterFail, Disconnect
    <2>. QED  BY <2>1 DEF Queued, TypeOK
  <1>12. ASSUME NEW x \in Conns, Connect(x) PROVE Goal
    <2>1. Bare(NoSignal)
      BY DEF Bare, NoSignal, Notice
    <2>. QED  BY <1>2, <1>12, <2>1 DEF Connect
  <1>13. ASSUME NEW x \in Conns, ClientStep(x),
                ~Connect(x), ~Disconnect(x), ~WriterFail(x)
         PROVE  Goal
    BY <1>1, <1>13 DEF ClientStep, OtherSignal, WebrtcOffer, Routed, InputPacket,
                       InputAck
  <1>14. CASE Next
    BY <1>3, <1>4, <1>5, <1>6, <1>7, <1>8, <1>9, <1>10, <1>11, <1>12, <1>13, <1>14
       DEF Next, CreateStep
  <1>. QED  BY <1>1, <1>14 DEF vars, sockets

\* A device is delivered what was queued for it.
LEMMA InboxStep ==
    ASSUME TypeOK, [Next]_vars, NEW c \in DeviceConns
    PROVE  Delivered(c)' \subseteq Delivered(c) \cup Queued(c)
  <1>1. CASE UNCHANGED inbox
    BY <1>1 DEF Delivered
  <1>2. ASSUME NEW x \in Conns, WriterSend(x)
        PROVE  Delivered(c)' \subseteq Delivered(c) \cup Queued(c)
    <2>1. CASE x # c \/ UNCHANGED inbox
      BY <1>2, <2>1 DEF WriterSend, Delivered, TypeOK
    <2>2. CASE x = c
      <3>1. inbox[c] \in Seq(Signal) /\ queue[c] \in Seq(Signal) /\ queue[c] # <<>>
        BY <1>2, <2>2 DEF WriterSend, TypeOK, DeviceConns
      <3>2. inbox'[c] = Append(inbox[c], Head(queue[c]))
        BY <1>2, <2>2 DEF WriterSend, TypeOK
      <3>3. 1 \in DOMAIN queue[c] /\ Head(queue[c]) = queue[c][1] /\ queue[c][1] \in Signal
        BY <3>1
      <3>4. \A i \in DOMAIN inbox'[c] :
               \/ inbox'[c][i] = Head(queue[c])
               \/ i \in DOMAIN inbox[c] /\ inbox'[c][i] = inbox[c][i]
        BY <3>1, <3>2, <3>3
      <3>. QED  BY <3>3, <3>4 DEF Delivered, Queued
    <2>. QED  BY <2>1, <2>2
  <1>3. ASSUME NEW r \in Creators,
               \/ \E u \in Users, d \in Devices : CreateLookup(r, u, d)
               \/ CreateStep(r)
               \/ CreateAbort(r)
        PROVE  UNCHANGED inbox
    BY <1>3 DEF CreateLookup, CreateStep, CreateInsert, CreateSendClose,
                CreateSendRequest, CreateNotify, CreateUndo, CreateAbort, sockets
  <1>4. ASSUME NEW x \in Conns, HandlerStep(x) PROVE UNCHANGED inbox
    BY <1>4 DEF HandlerStep, DeviceRegister, RouteSession, RouteDevice, RouteSend,
                RemoveSession, Reply
  <1>5. ASSUME NEW x \in Conns, ClientStep(x) PROVE UNCHANGED inbox
    BY <1>5 DEF ClientStep, Connect, Disconnect, WriterFail, OtherSignal, WebrtcOffer,
                Routed, InputPacket, InputAck
  <1>6. CASE Next
    BY <1>1, <1>2, <1>3, <1>4, <1>5, <1>6 DEF Next
  <1>. QED  BY <1>1, <1>6 DEF vars, sockets

LEMMA Roles == \A c \in UserConns : c \notin DeviceConns
  BY DEF UserConns, DeviceConns

LEMMA TaskKept ==
    ASSUME TypeOK, RegistryInv, ClaimantInv, [Next]_vars, NEW c \in Conns,
           task'[c] = task[c]
    PROVE  TaskClaims(c)'
  <1>1. TaskClaims(c)
    BY DEF ClaimantInv
  <1>. QED  BY <1>1, BindsStays DEF TaskClaims, InputBound, Bare

\* A handler starts with what it has checked, or with an answer.
LEMMA ContinueClaims ==
    ASSUME TypeOK, NEW c \in Conns, NEW pc \in {"session", "reply"}, NEW m,
           Continue(c, pc, m), InputBound(m)', pc = "reply" => Bare(m)
    PROVE  TaskClaims(c)'
  <1>1. task'[c] = [pc |-> pc, msg |-> m, target |-> None]
    BY DEF Continue, TypeOK
  <1>. QED  BY <1>1 DEF TaskClaims, InputBound, Bare

LEMMA AnswerClaims ==
    ASSUME TypeOK, NEW c \in Conns, NEW m, Answer(c, m), Bare(m)
    PROVE  TaskClaims(c)'
  BY ContinueClaims DEF Answer, Bare, InputBound

LEMMA BareSignals == Bare(NoSignal) /\ \A s : Bare(ClosedSignal(s, None))
  BY DEF Bare, NoSignal, ClosedSignal, Notice

\* A handler's own step keeps what it holds true.
LEMMA HandlerClaims ==
    ASSUME TypeOK, RunInv, RegistryInv, ClaimantInv, [Next]_vars,
           NEW c \in Conns, HandlerStep(c)
    PROVE  TaskClaims(c)'
  <1>0. task[c] \in Task /\ TaskClaims(c)
    BY DEF TypeOK, ClaimantInv
  <1>1. ASSUME task'[c].pc \in {"idle", "remove"} PROVE TaskClaims(c)'
    BY <1>1 DEF TaskClaims
  <1>2. CASE Answer(c, NoSignal)
    BY <1>2, AnswerClaims, BareSignals
  <1>3. CASE DeviceRegister(c) \/ RemoveSession(c) \/ Reply(c)
    <2>1. task'[c].pc = "idle"
      BY <1>0, <1>3 DEF DeviceRegister, RemoveSession, Reply, Idle, TypeOK, Task
    <2>. QED  BY <1>1, <2>1
  <1>4. CASE RouteSend(c)
    <2>1. \/ Answer(c, NoSignal)
          \/ task' = [task EXCEPT ![c].pc = "remove"]
          \/ task' = [task EXCEPT ![c] = Idle]
      BY <1>4 DEF RouteSend
    <2>2. Answer(c, NoSignal) \/ task'[c].pc \in {"idle", "remove"}
      BY <1>0, <2>1 DEF Idle, TypeOK, Task
    <2>. QED  BY <1>1, <1>2, <2>2
  <1>5. CASE RouteSession(c) /\ ~Answer(c, NoSignal)
    <2>1. PICK m, b : m = task[c].msg /\ b = sessions[m.session].browser
      OBVIOUS
    <2>2. /\ task[c].pc = "session" /\ UNCHANGED sessions
          /\ \/ c \in UserConns /\ task' = [task EXCEPT ![c].pc = "device"]
             \/ /\ c \in DeviceConns /\ b # None
                /\ task' = [task EXCEPT ![c].pc = "send", ![c].target = b]
      BY <1>5, <2>1 DEF RouteSession, ReplySocket, registry
    <2>3. m.session \in SessionIds
      BY <2>1, <2>2 DEF TypeOK, TasksOK, SessionIds
    <2>4. InputBound(m)'
      BY <1>0, <2>1, <2>2, BindsStays DEF TaskClaims, InputBound
    <2>5. CASE c \in UserConns /\ task' = [task EXCEPT ![c].pc = "device"]
      <3>1. task'[c].pc = "device" /\ task'[c].msg = m
        BY <1>0, <2>1, <2>5 DEF TypeOK, Task
      <3>. QED  BY <2>4, <2>5, <3>1, Roles DEF TaskClaims, InputBound
    <2>6. CASE c \in DeviceConns /\ b # None
               /\ task' = [task EXCEPT ![c].pc = "send", ![c].target = b]
      <3>1. task'[c].pc = "send" /\ task'[c].msg = m /\ task'[c].target = b
        BY <1>0, <2>1, <2>6 DEF TypeOK, Task
      <3>2. Binds(m.session, b)'
        BY <2>1, <2>2, <2>3, <2>6 DEF Binds
      <3>. QED  BY <2>4, <2>6, <3>1, <3>2 DEF TaskClaims, InputBound, Binds
    <2>. QED  BY <2>2, <2>5, <2>6
  <1>6. CASE RouteDevice(c) /\ ~Answer(c, NoSignal)
    <2>1. PICK m, d : m = task[c].msg /\ d = sessions[m.session].device
      OBVIOUS
    <2>2. /\ task[c].pc = "device" /\ deviceSender[d] # None
          /\ task' = [task EXCEPT ![c].pc = "send", ![c].target = deviceSender[d]]
      BY <1>6, <2>1 DEF RouteDevice
    <2>3. d \in Devices
      BY <2>1, <2>2 DEF TypeOK, TasksOK, RecordsOK
    <2>4. deviceSender[d] \in DeviceConns
      BY <2>2, <2>3 DEF TypeOK, RunInv, SendersRun, DeviceConns
    <2>5. InputBound(m)' /\ c \notin DeviceConns
      BY <1>0, <2>1, <2>2, BindsStays DEF TaskClaims, InputBound
    <2>6. /\ task'[c].pc = "send" /\ task'[c].msg = m
          /\ task'[c].target = deviceSender[d]
      BY <1>0, <2>1, <2>2 DEF TypeOK, Task
    <2>. QED  BY <2>4, <2>5, <2>6 DEF TaskClaims, InputBound
  <1>. QED  BY <1>2, <1>3, <1>4, <1>5, <1>6 DEF HandlerStep

\* What a client submits is checked, or never is input.
LEMMA ClientClaims ==
    ASSUME TypeOK, RegistryInv, ClaimantInv, [Next]_vars,
           NEW c \in Conns, ClientStep(c)
    PROVE  TaskClaims(c)'
  <1>1. CASE Connect(c) \/ Disconnect(c)
    <2>1. task'[c].pc \in {"idle", "register"}
      <3>1. task[c] \in Task
        BY DEF TypeOK
      <3>. QED  BY <1>1, <3>1 DEF Connect, Disconnect, Idle, TypeOK, Task
    <2>. QED  BY <2>1 DEF TaskClaims
  <1>2. CASE WriterFail(c)
    BY <1>2, TaskKept DEF WriterFail
  <1>3. CASE OtherSignal(c)
    BY <1>3, AnswerClaims, BareSignals DEF OtherSignal
  <1>4. ASSUME NEW s \in 1..created, NEW type, type # "InputPacket",
               Continue(c, "session", Message(type, s, c))
        PROVE  TaskClaims(c)'
    BY <1>4, ContinueClaims DEF InputBound, Message
  <1>5. ASSUME NEW s \in 1..created, NEW ok \in BOOLEAN, WebrtcOffer(c, s, ok)
        PROVE  TaskClaims(c)'
    <2>1. \/ Continue(c, "session", Message("WebrtcOffer", s, c))
          \/ Answer(c, ClosedSignal(s, None))
      BY <1>5 DEF WebrtcOffer
    <2>. QED  BY <1>4, <2>1, AnswerClaims, BareSignals
  <1>6. ASSUME NEW s \in 1..created, NEW type \in ClientSignals, Routed(c, type, s)
        PROVE  TaskClaims(c)'
    BY <1>4, <1>6 DEF Routed
  <1>7. ASSUME NEW s \in 1..created, InputAck(c, s) PROVE TaskClaims(c)'
    BY <1>4, <1>7, AnswerClaims, BareSignals DEF InputAck
  <1>8. ASSUME NEW s \in 1..created, InputPacket(c, s) PROVE TaskClaims(c)'
    <2>1. CASE BoundTo(c, s)
      <3> DEFINE m == Message("InputPacket", s, c)
      <3>1. Continue(c, "session", m) /\ UNCHANGED sessions
        BY <1>8, <2>1 DEF InputPacket, registry
      <3>2. s \in SessionIds /\ c # None
        BY DEF TypeOK, SessionIds
      <3>3. InputBound(m)'
        BY <2>1, <3>1, <3>2 DEF BoundTo, InputBound, Binds, Message
      <3> HIDE DEF m
      <3>. QED  BY <3>1, <3>3, ContinueClaims
    <2>2. CASE ~BoundTo(c, s)
      BY <1>8, <2>2, AnswerClaims, BareSignals DEF InputPacket
    <2>. QED  BY <2>1, <2>2
  <1>. QED
    BY <1>1, <1>2, <1>3, <1>5, <1>6, <1>7, <1>8 DEF ClientStep

\* A step moves the tasks of one socket at most.
LEMMA TaskStep ==
    ASSUME TypeOK, RunInv, RegistryInv, ClaimantInv, [Next]_vars, NEW c \in Conns
    PROVE  TaskClaims(c)'
  <1>1. CASE UNCHANGED task
    BY <1>1, TaskKept
  <1>2. ASSUME NEW r \in Creators,
               \/ \E u \in Users, d \in Devices : CreateLookup(r, u, d)
               \/ CreateStep(r)
               \/ CreateAbort(r)
        PROVE  UNCHANGED task
    BY <1>2 DEF CreateLookup, CreateStep, CreateInsert, CreateSendClose,
                CreateSendRequest, CreateNotify, CreateUndo, CreateAbort, sockets
  <1>3. ASSUME NEW x \in Conns, x # c, HandlerStep(x) PROVE task'[c] = task[c]
    BY <1>3 DEF HandlerStep, DeviceRegister, RouteSession, RouteDevice, RouteSend,
                RemoveSession, Reply, Answer, Continue, TypeOK
  <1>4. ASSUME NEW x \in Conns, x # c, ClientStep(x) PROVE task'[c] = task[c]
    BY <1>4 DEF ClientStep, Connect, Disconnect, WriterFail, OtherSignal, WebrtcOffer,
                Routed, InputPacket, InputAck, Answer, Continue, TypeOK
  <1>5. ASSUME NEW x \in Conns, WriterSend(x) PROVE UNCHANGED task
    BY <1>5 DEF WriterSend
  <1>6. CASE Next
    BY <1>1, <1>2, <1>3, <1>4, <1>5, <1>6, TaskKept, HandlerClaims, ClientClaims DEF Next
  <1>. QED  BY <1>1, <1>6 DEF vars, sockets

LEMMA ClaimantStep ==
    ASSUME TypeOK, RunInv, RegistryInv, ClaimantInv, [Next]_vars
    PROVE  ClaimantInv'
  <1>1. \A c \in Conns : TaskClaims(c)'
    BY TaskStep
  <1>2. ASSUME NEW c \in UserConns, NEW m \in Queued(c)', m.from # None
        PROVE  Binds(m.session, c)'
    <2>1. c \in Conns /\ c \notin DeviceConns
      BY Roles DEF UserConns
    <2>2. CASE m \in Queued(c)
      BY <1>2, <2>2, BindsStays DEF ClaimantInv
    <2>3. CASE Bare(m)
      BY <1>2, <2>3 DEF Bare
    <2>4. ASSUME NEW x \in Conns, task[x].pc = "send", task[x].target = c,
                 m = task[x].msg
          PROVE  Binds(m.session, c)'
      <3>1. Binds(m.session, c)
        BY <2>1, <2>4 DEF ClaimantInv, TaskClaims
      <3>. QED  BY <3>1, BindsStays
    <2>. QED  BY <2>1, <2>2, <2>3, <2>4, QueueStep
  <1>3. ASSUME NEW c \in DeviceConns, NEW m \in Queued(c)' \cup Delivered(c)'
        PROVE  InputBound(m)'
    <2>1. c \in Conns
      BY DEF DeviceConns
    <2>2. ASSUME InputBound(m) PROVE InputBound(m)'
      BY <2>2, BindsStays DEF InputBound
    <2>3. CASE m \in Queued(c) \cup Delivered(c)
      BY <2>2, <2>3 DEF ClaimantInv
    <2>4. CASE Bare(m)
      BY <2>4 DEF Bare, InputBound
    <2>5. ASSUME NEW x \in Conns, task[x].pc = "send", m = task[x].msg
          PROVE  InputBound(m)
      BY <2>5 DEF ClaimantInv, TaskClaims
    <2>. QED  BY <1>3, <2>1, <2>2, <2>3, <2>4, <2>5, QueueStep, InboxStep
  <1>. QED  BY <1>1, <1>2, <1>3 DEF ClaimantInv

\* The device's log is what was delivered and what is queued.
LEMMA LogElements ==
    ASSUME TypeOK, NEW c \in DeviceConns, NEW i \in DOMAIN DeviceLog(c)
    PROVE  DeviceLog(c)[i] \in Queued(c) \cup Delivered(c)
  <1>1. inbox[c] \in Seq(Signal) /\ queue[c] \in Seq(Signal)
    BY DEF TypeOK, DeviceConns
  <1> DEFINE a == inbox[c]
             b == queue[c]
  <1>2. /\ DOMAIN a = 1..Len(a) /\ DOMAIN b = 1..Len(b) /\ Len(a) \in Nat /\ Len(b) \in Nat
        /\ DOMAIN (a \o b) = 1..(Len(a) + Len(b))
    BY <1>1
  <1>3. i \in 1..(Len(a) + Len(b))
    BY <1>2 DEF DeviceLog
  <1>4. CASE i <= Len(a)
    <2>1. i \in DOMAIN a /\ DeviceLog(c)[i] = a[i]
      BY <1>1, <1>2, <1>3, <1>4 DEF DeviceLog
    <2>. QED  BY <2>1 DEF Delivered
  <1>5. CASE i > Len(a)
    <2>1. i - Len(a) \in DOMAIN b
      <3> HIDE DEF a, b
      <3>1. i \in Int /\ i - Len(a) \in 1..Len(b)
        BY <1>2, <1>3, <1>5
      <3>. QED  BY <1>2, <3>1
    <2>2. (a \o b)[i] = b[i - Len(a)]
      BY <1>1, <1>2, <1>3, <1>5, ConcatProperties
    <2>. QED  BY <2>1, <2>2 DEF Queued, DeviceLog
  <1>. QED  BY <1>2, <1>3, <1>4, <1>5

LEMMA ClaimantImplies ==
    ASSUME TypeOK, ClaimantInv
    PROVE  OnlyTheClaimant
  <1>1. InputOnlyFromClaimant
    <2> SUFFICES ASSUME NEW c \in DeviceConns, NEW i \in DOMAIN DeviceLog(c),
                        DeviceLog(c)[i].type = "InputPacket"
                 PROVE  sessions[DeviceLog(c)[i].session].browser = DeviceLog(c)[i].from
      BY DEF InputOnlyFromClaimant
    <2>1. InputBound(DeviceLog(c)[i])
      BY LogElements DEF ClaimantInv
    <2>. QED  BY <2>1 DEF InputBound, Binds
  <1>2. RepliesReachClaimant
    BY DEF ClaimantInv, Queued, Binds, RepliesReachClaimant
  <1>. QED  BY <1>1, <1>2 DEF OnlyTheClaimant

\* Although a handler's check may be old when its signal is queued, and sockets,
\* sessions and registrations come and go in between: the Host gets a session's
\* input from the socket that claimed it, and its answers go nowhere else.
THEOREM ClaimantAlone == Spec => []OnlyTheClaimant
  <1> DEFINE Inv == TypeOK /\ RunInv /\ RegistryInv /\ ClaimantInv
  <1>1. Init => Inv
    BY TypeInit, RunInit, RegistryInit, ClaimantInit
  <1>2. Inv /\ [Next]_vars => Inv'
    BY TypeStep, RunStep, RegistryInvStep, ClaimantStep
  <1>3. Inv => OnlyTheClaimant
    BY ClaimantImplies
  <1>. QED  BY <1>1, <1>2, <1>3, PTL DEF Spec

-----------------------------------------------------------------------------
(* The mutex *)

\* One request at a time is under way, for the session inserted last, and sends to
\* a socket a device had registered.
LockInv ==
    \A r \in Creators : creation[r].pc # "idle" =>
       /\ creationLock = r
       /\ creation[r].sender \in DeviceConns
       /\ link[creation[r].sender] # "fresh"
       /\ creation[r].pc # "insert" => creation[r].id = created

LEMMA LockInit == Init => LockInv
  BY DEF Init, LockInv, NotCreating

\* A socket that broke stays so.
LEMMA LinkStep ==
    ASSUME TypeOK, [Next]_vars, NEW c \in Conns, link[c] # "fresh"
    PROVE  link'[c] # "fresh" /\ (link'[c] = "open" => link[c] = "open")
  <1>1. CASE UNCHANGED link
    BY <1>1
  <1>2. ASSUME NEW x \in Conns, Connect(x) \/ Disconnect(x) \/ WriterFail(x)
        PROVE  link'[c] # "fresh" /\ (link'[c] = "open" => link[c] = "open")
    BY <1>2 DEF Connect, Disconnect, WriterFail, TypeOK
  <1>3. ASSUME NEW r \in Creators,
               \/ \E u \in Users, d \in Devices : CreateLookup(r, u, d)
               \/ CreateStep(r)
               \/ CreateAbort(r)
        PROVE  UNCHANGED link
    BY <1>3 DEF CreateLookup, CreateStep, CreateInsert, CreateSendClose,
                CreateSendRequest, CreateNotify, CreateUndo, CreateAbort, sockets
  <1>4. ASSUME NEW x \in Conns, HandlerStep(x) \/ WriterSend(x) PROVE UNCHANGED link
    BY <1>4 DEF HandlerStep, DeviceRegister, RouteSession, RouteDevice, RouteSend,
                RemoveSession, Reply, WriterSend
  <1>5. ASSUME NEW x \in Conns, ClientStep(x),
               ~Connect(x), ~Disconnect(x), ~WriterFail(x)
        PROVE  UNCHANGED link
    BY <1>5 DEF ClientStep, OtherSignal, WebrtcOffer, Routed, InputPacket, InputAck
  <1>6. CASE Next
    BY <1>1, <1>2, <1>3, <1>4, <1>5, <1>6 DEF Next
  <1>. QED  BY <1>1, <1>6 DEF vars, sockets

\* Sockets and handlers leave the requests alone.
LEMMA SocketsFrame ==
    ASSUME NEW c \in Conns, HandlerStep(c) \/ WriterSend(c) \/ ClientStep(c)
    PROVE  UNCHANGED <<creation, creationLock, created>>
  BY DEF HandlerStep, DeviceRegister, RouteSession, RouteDevice, RouteSend,
         RemoveSession, Reply, WriterSend, ClientStep, Connect, Disconnect, WriterFail,
         OtherSignal, WebrtcOffer, Routed, InputPacket, InputAck, registry, http

\* A request leaves the others alone.
LEMMA RequestFrame ==
    ASSUME TypeOK, NEW r \in Creators,
           \/ \E u \in Users, d \in Devices : CreateLookup(r, u, d)
           \/ CreateStep(r)
           \/ CreateAbort(r)
    PROVE  \A q \in Creators : q # r => creation'[q] = creation[q]
  BY DEF CreateLookup, CreateStep, CreateInsert, CreateSendClose, CreateSendRequest,
         RequestDue, CreateNotify, CreateUndo, CreateAbort, TypeOK

LEMMA LockStep ==
    ASSUME TypeOK, RunInv, LockInv, [Next]_vars
    PROVE  LockInv'
  <1>0. \A c \in DeviceConns : link[c] # "fresh" => link'[c] # "fresh"
    BY LinkStep DEF DeviceConns
  <1>1. CASE UNCHANGED <<creation, creationLock, created>>
    BY <1>0, <1>1 DEF LockInv
  <1>2. ASSUME NEW r \in Creators,
               \/ \E u \in Users, d \in Devices : CreateLookup(r, u, d)
               \/ CreateStep(r)
               \/ CreateAbort(r)
        PROVE  LockInv'
    <2>1. \A q \in Creators : q # r => creation'[q] = creation[q]
      BY <1>2, RequestFrame
    <2>2. \A q \in Creators : q # r => creation[q].pc = "idle"
      BY <1>2 DEF LockInv, CreateLookup, MayLock, CreateStep, CreateInsert,
                  CreateSendClose, CreateSendRequest, RequestDue, CreateNotify,
                  CreateUndo, CreateAbort
    <2> SUFFICES ASSUME creation'[r].pc # "idle"
                 PROVE  /\ creationLock' = r
                        /\ creation'[r].sender \in DeviceConns
                        /\ link'[creation'[r].sender] # "fresh"
                        /\ creation'[r].pc # "insert" => creation'[r].id = created'
      BY <2>1, <2>2 DEF LockInv
    <2>3. ASSUME NEW u \in Users, NEW d \in Devices, CreateLookup(r, u, d)
          PROVE  /\ creationLock' = r /\ creation'[r].pc = "insert"
                 /\ creation'[r].sender \in DeviceConns
                 /\ link'[creation'[r].sender] # "fresh"
      <3>1. /\ creationLock' = r /\ deviceSender[d] # None
            /\ creation'[r] = [NotCreating EXCEPT !.pc = "insert", !.owner = u,
                                 !.device = d, !.sender = deviceSender[d]]
        BY <2>3 DEF CreateLookup, TypeOK
      <3>2. deviceSender[d] \in DeviceConns /\ link[deviceSender[d]] # "fresh"
        <4>1. Runs(deviceSender[d]) /\ Subject[deviceSender[d]] = d
          BY <3>1 DEF RunInv, SendersRun
        <4>2. deviceSender[d] \in Conns
          BY <3>1 DEF TypeOK
        <4>. QED  BY <4>1, <4>2 DEF Runs, DeviceConns
      <3>. QED  BY <1>0, <3>1, <3>2 DEF NotCreating
    <2>4. CASE CreateInsert(r)
      <3>1. creation[r] \in Creation /\ creation[r].pc = "insert"
        BY <2>4 DEF CreateInsert, TypeOK
      <3>2. /\ creation'[r].sender = creation[r].sender
            /\ creation'[r].id = created + 1 /\ created' = created + 1
            /\ creationLock' = creationLock
        BY <2>4, <3>1 DEF CreateInsert, TypeOK, Creation
      <3>. QED  BY <1>0, <3>1, <3>2 DEF LockInv
    <2>5. CASE CreateSendClose(r) \/ CreateSendRequest(r)
      <3>1. creation[r] \in Creation /\ creation[r].pc = "close"
        BY <2>5 DEF CreateSendClose, CreateSendRequest, RequestDue, TypeOK
      <3>2. /\ creation'[r].sender = creation[r].sender
            /\ creation'[r].id = creation[r].id
            /\ UNCHANGED <<creationLock, created>>
        BY <2>5, <3>1 DEF CreateSendClose, CreateSendRequest, RequestDue, TypeOK,
                          Creation, registry
      <3>. QED  BY <1>0, <3>1, <3>2 DEF LockInv
    <2>6. CASE CreateNotify(r) \/ CreateUndo(r) \/ CreateAbort(r)
      <3>1. creation'[r] = NotCreating
        BY <2>6 DEF CreateNotify, CreateUndo, CreateAbort, TypeOK
      <3>. QED  BY <3>1 DEF NotCreating
    <2>. QED  BY <1>2, <2>3, <2>4, <2>5, <2>6 DEF CreateStep
  <1>3. CASE UNCHANGED vars
    BY <1>1, <1>3 DEF vars, registry, http
  <1>4. CASE Next
    BY <1>1, <1>2, <1>4, SocketsFrame DEF Next
  <1>. QED  BY <1>3, <1>4

-----------------------------------------------------------------------------
(* What a device is sent *)

\* No handler sends a request for a session.
NoRequests == \A c \in Conns : task[c].msg.type # "SessionRequested"

LEMMA NoRequestsInit == Init => NoRequests
  BY DEF Init, NoRequests, Idle, NoSignal, Notice

LEMMA NoRequestsStep ==
    ASSUME TypeOK, NoRequests, [Next]_vars
    PROVE  NoRequests'
  <1>1. CASE UNCHANGED task
    BY <1>1 DEF NoRequests
  <1>2. ASSUME NEW r \in Creators,
               \/ \E u \in Users, d \in Devices : CreateLookup(r, u, d)
               \/ CreateStep(r)
               \/ CreateAbort(r)
        PROVE  UNCHANGED task
    BY <1>2 DEF CreateLookup, CreateStep, CreateInsert, CreateSendClose,
                CreateSendRequest, CreateNotify, CreateUndo, CreateAbort, sockets
  <1>3. ASSUME NEW c \in Conns, NEW pc, NEW m, Continue(c, pc, m),
               m.type # "SessionRequested"
        PROVE  NoRequests'
    BY <1>3 DEF Continue, NoRequests, TypeOK
  <1>4. ASSUME NEW c \in Conns, Answer(c, NoSignal) PROVE NoRequests'
    BY <1>3, <1>4 DEF Answer, NoSignal, Notice
  <1>5. ASSUME NEW c \in Conns, NEW t, task' = [task EXCEPT ![c] = t],
               t.msg.type # "SessionRequested"
        PROVE  NoRequests'
    BY <1>5 DEF NoRequests, TypeOK
  <1>6. ASSUME NEW c \in Conns, HandlerStep(c), ~Answer(c, NoSignal) PROVE NoRequests'
    <2>1. task[c] \in Task /\ task[c].msg.type # "SessionRequested"
      BY DEF TypeOK, NoRequests
    <2>2. \/ task' = [task EXCEPT ![c] = Idle]
          \/ \E pc : task' = [task EXCEPT ![c].pc = pc]
          \/ \E pc, x : task' = [task EXCEPT ![c].pc = pc, ![c].target = x]
      BY <1>6 DEF HandlerStep, DeviceRegister, RouteSession, RouteDevice, RouteSend,
                  RemoveSession, Reply
    <2>3. /\ \A pc : [task[c] EXCEPT !.pc = pc].msg = task[c].msg
          /\ \A pc, x : [task[c] EXCEPT !.pc = pc, !.target = x].msg = task[c].msg
          /\ Idle.msg.type # "SessionRequested"
      BY <2>1 DEF Task, Idle, NoSignal, Notice
    <2>4. ASSUME NEW pc, task' = [task EXCEPT ![c].pc = pc] PROVE NoRequests'
      <3>1. task' = [task EXCEPT ![c] = [task[c] EXCEPT !.pc = pc]]
        BY <2>4
      <3>. QED  BY <1>5, <2>1, <2>3, <3>1
    <2>5. ASSUME NEW pc, NEW x, task' = [task EXCEPT ![c].pc = pc, ![c].target = x]
          PROVE  NoRequests'
      <3>1. task' = [task EXCEPT ![c] = [task[c] EXCEPT !.pc = pc, !.target = x]]
        BY <2>5 DEF TypeOK
      <3>. QED  BY <1>5, <2>1, <2>3, <3>1
    <2>. QED  BY <1>5, <2>2, <2>3, <2>4, <2>5
  <1>7. ASSUME NEW c \in Conns, WriterSend(c) \/ WriterFail(c) PROVE UNCHANGED task
    BY <1>7 DEF WriterSend, WriterFail
  <1>8. ASSUME NEW c \in Conns, Connect(c) \/ Disconnect(c) PROVE NoRequests'
    <2>1. task[c] \in Task /\ task[c].msg.type # "SessionRequested"
      BY DEF TypeOK, NoRequests
    <2>2. \/ task' = [task EXCEPT ![c] = Idle]
          \/ \E pc : task' = [task EXCEPT ![c] = [task[c] EXCEPT !.pc = pc]]
      BY <1>8 DEF Connect, Disconnect
    <2>3. /\ \A pc : [task[c] EXCEPT !.pc = pc].msg = task[c].msg
          /\ Idle.msg.type # "SessionRequested"
      BY <2>1 DEF Task, Idle, NoSignal, Notice
    <2>. QED  BY <1>5, <2>1, <2>2, <2>3
  <1>9. ASSUME NEW c \in Conns, NEW s \in 1..created, NEW type \in ClientSignals
        PROVE  Message(type, s, c).type # "SessionRequested"
    BY DEF Message, ClientSignals, Notice
  <1>10. ASSUME NEW c \in Conns, OtherSignal(c) PROVE NoRequests'
    BY <1>4, <1>10 DEF OtherSignal
  <1>11. ASSUME NEW c \in Conns, NEW s \in 1..created,
                \/ \E ok \in BOOLEAN : WebrtcOffer(c, s, ok)
                \/ \E type \in ClientSignals : Routed(c, type, s)
                \/ InputPacket(c, s) \/ InputAck(c, s)
         PROVE  NoRequests'
    <2>1. \/ Answer(c, NoSignal) \/ Answer(c, ClosedSignal(s, None))
          \/ \E type \in ClientSignals : Continue(c, "session", Message(type, s, c))
      BY <1>11 DEF WebrtcOffer, Routed, InputPacket, InputAck, ClientSignals
    <2>2. ASSUME NEW type \in ClientSignals, Continue(c, "session", Message(type, s, c))
          PROVE  NoRequests'
      BY <1>3, <1>9, <2>2
    <2>3. CASE Answer(c, ClosedSignal(s, None))
      <3>1. ClosedSignal(s, None).type # "SessionRequested"
        BY DEF ClosedSignal
      <3>. QED  BY <1>3, <2>3, <3>1 DEF Answer
    <2>. QED  BY <1>4, <2>1, <2>2, <2>3
  <1>12. CASE Next
    BY <1>1, <1>2, <1>4, <1>6, <1>7, <1>8, <1>10, <1>11, <1>12 DEF Next, ClientStep
  <1>. QED  BY <1>1, <1>12 DEF vars, sockets

-----------------------------------------------------------------------------
(* A device's log *)

LEMMA AppendConcat ==
    ASSUME NEW S, NEW a \in Seq(S), NEW b \in Seq(S), NEW m \in S
    PROVE  a \o Append(b, m) = Append(a \o b, m)
  <1>1. /\ Append(b, m) = b \o <<m>>
        /\ a \o b \in Seq(S)
        /\ <<m>> \in Seq(S)
    BY AppendIsConcat, ConcatProperties
  <1>2. Append(a \o b, m) = (a \o b) \o <<m>>
    BY <1>1, AppendIsConcat
  <1>. QED  BY <1>1, <1>2, ConcatAssociative

LEMMA HeadMoves ==
    ASSUME NEW S, NEW a \in Seq(S), NEW b \in Seq(S), b # <<>>
    PROVE  Append(a, Head(b)) \o Tail(b) = a \o b
  <1>1. /\ Head(b) \in S /\ Tail(b) \in Seq(S) /\ Len(Tail(b)) = Len(b) - 1
        /\ \A i \in 1..Len(Tail(b)) : Tail(b)[i] = b[i + 1]
    BY HeadTailProperties
  <1>2. /\ <<Head(b)>> \in Seq(S) /\ Append(a, Head(b)) = a \o <<Head(b)>>
    BY <1>1, AppendIsConcat
  <1>3. <<Head(b)>> \o Tail(b) = b
    BY <1>1
  <1>. QED  BY <1>1, <1>2, <1>3, ConcatAssociative

LEMMA LogType ==
    ASSUME TypeOK, NEW c \in DeviceConns
    PROVE  /\ c \in Conns /\ inbox[c] \in Seq(Signal) /\ queue[c] \in Seq(Signal)
           /\ DeviceLog(c) \in Seq(Signal) /\ Len(DeviceLog(c)) \in Nat
           /\ DOMAIN DeviceLog(c) = 1..Len(DeviceLog(c))
  <1>1. c \in Conns /\ inbox[c] \in Seq(Signal) /\ queue[c] \in Seq(Signal)
    BY DEF TypeOK, DeviceConns
  <1>2. DeviceLog(c) \in Seq(Signal)
    BY <1>1, ConcatProperties DEF DeviceLog
  <1>. QED  BY <1>1, <1>2

LEMMA LogAppend ==
    ASSUME TypeOK, NEW c \in DeviceConns, NEW m \in Signal
    PROVE  inbox[c] \o Append(queue[c], m) = Append(DeviceLog(c), m)
  <1> DEFINE a == inbox[c]
             b == queue[c]
  <1>1. a \in Seq(Signal) /\ b \in Seq(Signal)
    BY LogType
  <1>2. DeviceLog(c) = a \o b
    BY DEF DeviceLog
  <1> HIDE DEF a, b
  <1>3. a \o Append(b, m) = Append(a \o b, m)
    BY <1>1, AppendConcat
  <1>. QED  BY <1>2, <1>3 DEF a, b

LEMMA LogShifts ==
    ASSUME TypeOK, NEW c \in DeviceConns, queue[c] # <<>>
    PROVE  Append(inbox[c], Head(queue[c])) \o Tail(queue[c]) = DeviceLog(c)
  <1> DEFINE a == inbox[c]
             b == queue[c]
  <1>1. a \in Seq(Signal) /\ b \in Seq(Signal) /\ b # <<>>
    BY LogType
  <1>2. DeviceLog(c) = a \o b
    BY DEF DeviceLog
  <1> HIDE DEF a, b
  <1>3. Append(a, Head(b)) \o Tail(b) = a \o b
    BY <1>1, HeadMoves
  <1>. QED  BY <1>2, <1>3 DEF a, b

LEMMA LogStarts ==
    ASSUME TypeOK, NEW c \in DeviceConns
    PROVE  /\ inbox[c] \in Seq(Signal) /\ Len(inbox[c]) <= Len(DeviceLog(c))
           /\ \A i \in 1..Len(inbox[c]) : inbox[c][i] = DeviceLog(c)[i]
  <1> DEFINE a == inbox[c]
             b == queue[c]
  <1>1. a \in Seq(Signal) /\ b \in Seq(Signal)
    BY LogType
  <1>2. DeviceLog(c) = a \o b
    BY DEF DeviceLog
  <1> HIDE DEF a, b
  <1>3. /\ Len(a) \in Nat /\ Len(b) \in Nat /\ Len(a \o b) = Len(a) + Len(b)
        /\ \A i \in 1..(Len(a) + Len(b)) : (a \o b)[i] = IF i <= Len(a) THEN a[i]
                                                       ELSE b[i - Len(a)]
    BY <1>1, ConcatProperties
  <1>4. Len(a) <= Len(a \o b) /\ \A i \in 1..Len(a) : a[i] = (a \o b)[i]
    BY <1>3
  <1>. QED  BY <1>1, <1>2, <1>4 DEF a, b

\* The three things a step does to a log: nothing, to drop what was not delivered,
\* to add a signal.
Cut(c) ==
    /\ link'[c] # "open"
    /\ DeviceLog(c)' \in Seq(Signal)
    /\ Len(DeviceLog(c)') <= Len(DeviceLog(c))
    /\ \A i \in 1..Len(DeviceLog(c)') : DeviceLog(c)'[i] = DeviceLog(c)[i]

Added(c, m) ==
    /\ DeviceLog(c)' = Append(DeviceLog(c), m)
    /\ m \in Signal
    /\ m.type = "SessionRequested" =>
          \E r \in Creators : /\ CreateSendRequest(r)
                              /\ CanSend(c) /\ creation[r].sender = c
                              /\ creation'[r].pc = "notify"
                              /\ m.session = creation[r].id

LEMMA EnqueueLog ==
    ASSUME TypeOK, NEW c \in DeviceConns, NEW e \in Conns, NEW m \in Signal,
           Enqueue(e, m), UNCHANGED inbox
    PROVE  IF e = c THEN DeviceLog(c)' = Append(DeviceLog(c), m)
                    ELSE DeviceLog(c)' = DeviceLog(c)
  <1>1. CASE e # c
    BY <1>1, LogType DEF Enqueue, DeviceLog, TypeOK
  <1>2. CASE e = c
    <2>1. queue'[c] = Append(queue[c], m)
      BY <1>2 DEF Enqueue, TypeOK
    <2>2. DeviceLog(c)' = inbox[c] \o Append(queue[c], m)
      BY <2>1 DEF DeviceLog
    <2>. QED  BY <1>2, <2>2, LogAppend
  <1>. QED  BY <1>1, <1>2

LEMMA LogStep ==
    ASSUME TypeOK, NoRequests, [Next]_vars, NEW c \in DeviceConns
    PROVE  \/ DeviceLog(c)' = DeviceLog(c)
           \/ Cut(c)
           \/ \E m : Added(c, m)
  <1> DEFINE Goal == \/ DeviceLog(c)' = DeviceLog(c)
                     \/ Cut(c)
                     \/ \E m : Added(c, m)
  <1> SUFFICES Goal
    OBVIOUS
  <1>1. CASE UNCHANGED <<queue, inbox>>
    BY <1>1 DEF DeviceLog
  <1>2. ASSUME NEW e \in Conns, NEW m \in Signal, Enqueue(e, m), UNCHANGED inbox,
               m.type # "SessionRequested"
        PROVE  Goal
    BY <1>2, EnqueueLog DEF Added
  <1>3. ASSUME NEW r \in Creators, CreateSendClose(r) PROVE Goal
    <2>1. creation[r].sender \in Conns /\ creation[r].todo \subseteq SessionIds
      BY <1>3 DEF CreateSendClose, TypeOK, CreationsOK, Creation
    <2>2. \A o : ClosedSignal(o, None).type # "SessionRequested"
      BY DEF ClosedSignal
    <2>3. \A o \in creation[r].todo : ClosedSignal(o, None) \in Signal
      BY <2>1, SignalTypes
    <2>4. /\ UNCHANGED inbox
          /\ \/ UNCHANGED queue
             \/ \E o \in creation[r].todo :
                   Enqueue(creation[r].sender, ClosedSignal(o, None))
      BY <1>3 DEF CreateSendClose
    <2>. QED  BY <1>1, <1>2, <2>1, <2>2, <2>3, <2>4
  <1>4. ASSUME NEW r \in Creators, CreateSendRequest(r) PROVE Goal
    <2> DEFINE n == [type |-> "SessionRequested", session |-> creation[r].id,
                     from |-> None]
    <2>1. creation[r].sender \in Conns /\ creation[r] \in Creation
      BY <1>4 DEF CreateSendRequest, RequestDue, TypeOK, CreationsOK
    <2>2. n \in Signal /\ n.session = creation[r].id
      BY <2>1 DEF Signal, ToDevice, Creation
    <2>3. /\ UNCHANGED inbox
          /\ \/ UNCHANGED queue
             \/ /\ Enqueue(creation[r].sender, n)
                /\ CanSend(creation[r].sender)
                /\ creation'[r].pc = "notify"
      BY <1>4, <2>1 DEF CreateSendRequest, TypeOK, Creation
    <2> HIDE DEF n
    <2>4. CASE Enqueue(creation[r].sender, n) /\ ~UNCHANGED queue
      <3>1. CASE creation[r].sender = c
        <4>1. Added(c, n)
          BY <1>4, <2>1, <2>2, <2>3, <2>4, <3>1, EnqueueLog DEF Added
        <4>. QED  BY <4>1
      <3>2. CASE creation[r].sender # c
        BY <2>1, <2>2, <2>3, <2>4, <3>2, EnqueueLog
      <3>. QED  BY <3>1, <3>2
    <2>. QED  BY <1>1, <2>3, <2>4
  <1>5. ASSUME NEW r \in Creators, CreateNotify(r) PROVE Goal
    <2> DEFINE told == Told(c, sessions[creation[r].id].replaced)
               n == ClosedSignal(CHOOSE o \in told : TRUE, None)
    <2>1. /\ UNCHANGED inbox
          /\ queue'[c] = queue[c] \/ (told # {} /\ queue'[c] = Append(queue[c], n))
      BY <1>5, LogType DEF CreateNotify
    <2>2. n.type # "SessionRequested"
      BY DEF ClosedSignal
    <2>3. told # {} => n \in Signal
      <3>1. creation[r].id \in SessionIds
        BY <1>5 DEF CreateNotify, TypeOK, CreationsOK, SessionIds
      <3>2. told \subseteq SessionIds
        BY <3>1 DEF Told, TypeOK, Record
      <3> HIDE DEF told
      <3>. QED  BY <3>2, SignalTypes
    <2> HIDE DEF n
    <2>4. CASE told # {} /\ queue'[c] = Append(queue[c], n)
      <3>1. DeviceLog(c)' = inbox[c] \o Append(queue[c], n)
        BY <2>1, <2>4 DEF DeviceLog
      <3>2. DeviceLog(c)' = Append(DeviceLog(c), n)
        BY <2>3, <2>4, <3>1, LogAppend
      <3>. QED  BY <2>2, <2>3, <2>4, <3>2 DEF Added
    <2>5. CASE queue'[c] = queue[c]
      BY <2>1, <2>5 DEF DeviceLog
    <2>. QED  BY <2>1, <2>4, <2>5
  <1>6. ASSUME NEW r \in Creators,
               \/ \E u \in Users, d \in Devices : CreateLookup(r, u, d)
               \/ CreateInsert(r) \/ CreateUndo(r) \/ CreateAbort(r)
        PROVE  Goal
    BY <1>1, <1>6 DEF CreateLookup, CreateInsert, CreateUndo, CreateAbort, sockets
  <1>7. ASSUME NEW x \in Conns, RouteSend(x) \/ Reply(x) PROVE Goal
    <2>1. task[x].msg \in Signal /\ task[x].msg.type # "SessionRequested"
      BY DEF TypeOK, Task, NoRequests
    <2>2. RouteSend(x) => task[x].target \in Conns
      BY DEF RouteSend, TypeOK, TasksOK
    <2>3. /\ UNCHANGED inbox
          /\ \/ UNCHANGED queue
             \/ \E e \in Conns : Enqueue(e, task[x].msg)
      BY <1>7, <2>2 DEF RouteSend, Reply
    <2>. QED  BY <1>1, <1>2, <2>1, <2>3
  <1>8. ASSUME NEW x \in Conns, HandlerStep(x), ~RouteSend(x), ~Reply(x) PROVE Goal
    BY <1>1, <1>8 DEF HandlerStep, DeviceRegister, RouteSession, RouteDevice,
                      RemoveSession
  <1>9. ASSUME NEW x \in Conns, WriterSend(x) PROVE Goal
    <2>1. CASE x # c
      BY <1>9, <2>1, LogType DEF WriterSend, DeviceLog, TypeOK
    <2>2. CASE x = c
      <3>1. /\ queue[c] # <<>>
            /\ queue'[c] = Tail(queue[c])
            /\ inbox'[c] = Append(inbox[c], Head(queue[c]))
        BY <1>9, <2>2, LogType DEF WriterSend, TypeOK
      <3>2. DeviceLog(c)' = Append(inbox[c], Head(queue[c])) \o Tail(queue[c])
        BY <3>1 DEF DeviceLog
      <3>. QED  BY <3>1, <3>2, LogShifts
    <2>. QED  BY <2>1, <2>2
  <1>10. ASSUME NEW x \in Conns, WriterFail(x) \/ Disconnect(x) PROVE Goal
    <2>1. CASE x # c
      BY <1>10, <2>1, LogType DEF WriterFail, Disconnect, DeviceLog, TypeOK
    <2>2. CASE x = c
      <3>1. link'[c] # "open" /\ queue'[c] = <<>> /\ inbox' = inbox
        BY <1>10, <2>2, LogType DEF WriterFail, Disconnect, TypeOK
      <3>2. DeviceLog(c)' = inbox[c]
        BY <3>1, LogType, ConcatEmptySeq DEF DeviceLog
      <3>. QED  BY <3>1, <3>2, LogStarts DEF Cut
    <2>. QED  BY <2>1, <2>2
  <1>11. ASSUME NEW x \in Conns, Connect(x) PROVE Goal
    <2>1. NoSignal.type # "SessionRequested"
      BY DEF NoSignal, Notice
    <2>. QED  BY <1>2, <1>11, <2>1, SignalTypes DEF Connect
  <1>12. ASSUME NEW x \in Conns, ClientStep(x),
                ~Connect(x), ~Disconnect(x), ~WriterFail(x)
         PROVE  Goal
    BY <1>1, <1>12 DEF ClientStep, OtherSignal, WebrtcOffer, Routed, InputPacket,
                       InputAck
  <1>13. CASE Next
    BY <1>3, <1>4, <1>5, <1>6, <1>7, <1>8, <1>9, <1>10, <1>11, <1>12, <1>13
       DEF Next, CreateStep
  <1>. QED  BY <1>1, <1>13 DEF vars, sockets

-----------------------------------------------------------------------------
(* The order of what a device is told *)

\* What a session evicted is fixed when it is inserted.
LEMMA ReplacedStays ==
    ASSUME TypeOK, [Next]_vars, NEW s \in 1..created
    PROVE  s \in 1..created' /\ sessions'[s].replaced = sessions[s].replaced
  <1>0. s \in SessionIds /\ created \in Nat
    BY DEF TypeOK, SessionIds
  <1>1. CASE UNCHANGED <<sessions, live, created>>
    BY <1>1
  <1>2. ASSUME NEW r \in Creators, Insertion(r)
        PROVE  s \in 1..created' /\ sessions'[s].replaced = sessions[s].replaced
    BY <1>0, <1>2, InsertionRecords DEF Insertion
  <1>3. ASSUME NEW t \in live, NEW e \in Conns, Claiming(t, e)
        PROVE  s \in 1..created' /\ sessions'[s].replaced = sessions[s].replaced
    <2>1. sessions[t] \in Record
      BY <1>3, ClaimingRecords DEF TypeOK
    <2>2. [sessions[t] EXCEPT !.token = FALSE, !.browser = e].replaced
             = sessions[t].replaced
      BY <2>1 DEF Record
    <2>3. /\ created' = created
          /\ sessions' = [sessions EXCEPT ![t] = [sessions[t] EXCEPT !.token = FALSE,
                                                                     !.browser = e]]
      BY <1>3 DEF Claiming
    <2>. QED  BY <1>0, <2>2, <2>3 DEF TypeOK
  <1>4. ASSUME NEW t, Removal(t)
        PROVE  s \in 1..created' /\ sessions'[s].replaced = sessions[s].replaced
    BY <1>4 DEF Removal
  <1>. QED  BY <1>1, <1>2, <1>3, <1>4, RegistryStep

\* Whom the session inserted last replaced was closed, or is yet to be.
SentCloses(r) ==
    creation[r].pc = "close" /\ link[creation[r].sender] = "open" =>
       \A o \in sessions[creation[r].id].replaced \ creation[r].todo :
          Before(creation[r].sender, Len(DeviceLog(creation[r].sender)) + 1,
                 "SessionClosed", o)

\* A request in a log follows the closes of what it replaced and all older requests.
\* The one of the session inserted last is not yet there.
LogOK(c) ==
    \A i \in 1..Len(DeviceLog(c)) :
       LET s == DeviceLog(c)[i].session
       IN  DeviceLog(c)[i].type = "SessionRequested" =>
              /\ s \in 1..created
              /\ \A r \in Creators : creation[r].pc = "close" => s # created
              /\ \A o \in sessions[s].replaced : Before(c, i, "SessionClosed", o)
              /\ \A j \in 1..(i - 1) : DeviceLog(c)[j].type = "SessionRequested" =>
                                          DeviceLog(c)[j].session < s

HandoffInv == /\ \A r \in Creators : SentCloses(r)
              /\ \A c \in DeviceConns : LogOK(c)

LEMMA HandoffInit == Init => HandoffInv
  <1> SUFFICES ASSUME Init PROVE HandoffInv
    OBVIOUS
  <1>1. \A r \in Creators : creation[r].pc # "close"
    BY DEF Init, NotCreating
  <1>2. \A c \in DeviceConns : c \in Conns /\ Len(DeviceLog(c)) = 0
    BY DEF Init, DeviceLog, DeviceConns
  <1>. QED  BY <1>1, <1>2 DEF HandoffInv, SentCloses, LogOK

\* A signal at a place the step left alone is still before the ones after it.
LEMMA BeforeStays ==
    ASSUME NEW c, NEW i \in Nat, NEW type, NEW s, Before(c, i, type, s),
           \A j \in 1..(i - 1) : DeviceLog(c)'[j] = DeviceLog(c)[j]
    PROVE  Before(c, i, type, s)'
  BY DEF Before

LEMMA AppendKeeps ==
    ASSUME TypeOK, NEW c \in DeviceConns, NEW m, Added(c, m)
    PROVE  /\ Len(DeviceLog(c)) \in Nat
           /\ Len(DeviceLog(c)') = Len(DeviceLog(c)) + 1
           /\ DeviceLog(c)'[Len(DeviceLog(c)) + 1] = m
           /\ \A i \in 1..Len(DeviceLog(c)) : DeviceLog(c)'[i] = DeviceLog(c)[i]
  <1>1. DeviceLog(c) \in Seq(Signal) /\ m \in Signal
        /\ DeviceLog(c)' = Append(DeviceLog(c), m)
    BY LogType DEF Added
  <1> PICK a : a = DeviceLog(c)
    OBVIOUS
  <1>2. a \in Seq(Signal) /\ DeviceLog(c)' = Append(a, m)
    BY <1>1
  <1>. QED  BY <1>1, <1>2, AppendProperties

\* The session a request is about, once it was sent, is not the next one's.
LEMMA ClosingLater ==
    ASSUME TypeOK, LockInv, [Next]_vars, NEW s \in 1..created,
           \A r \in Creators : creation[r].pc = "close" => s # created
    PROVE  \A r \in Creators : creation'[r].pc = "close" => s # created'
  <1>0. created \in Nat
    BY DEF TypeOK
  <1>1. CASE UNCHANGED <<creation, created>>
    BY <1>1
  <1>2. ASSUME NEW q \in Creators, CreateInsert(q)
        PROVE  s # created'
    BY <1>0, <1>2 DEF CreateInsert
  <1>3. ASSUME NEW q \in Creators, CreateSendClose(q) \/ CreateSendRequest(q)
        PROVE  s # created'
    BY <1>3 DEF CreateSendClose, CreateSendRequest, RequestDue, registry
  <1>4. ASSUME NEW q \in Creators,
               \/ \E u \in Users, d \in Devices : CreateLookup(q, u, d)
               \/ CreateNotify(q) \/ CreateUndo(q) \/ CreateAbort(q)
        PROVE  \A r \in Creators : creation'[r].pc = "close" => s # created'
    <2>1. created' = created /\ creation'[q].pc # "close"
      <3>1. ASSUME NEW u \in Users, NEW d \in Devices, CreateLookup(q, u, d)
            PROVE  created' = created /\ creation'[q].pc = "insert"
        <4>1. /\ created' = created
              /\ creation'[q] = [NotCreating EXCEPT !.pc = "insert", !.owner = u,
                                    !.device = d, !.sender = deviceSender[d]]
          BY <3>1 DEF CreateLookup, TypeOK, registry
        <4>. QED  BY <4>1 DEF NotCreating
      <3>2. CASE CreateNotify(q) \/ CreateUndo(q) \/ CreateAbort(q)
        <4>1. created' = created /\ creation'[q] = NotCreating
          BY <3>2 DEF CreateNotify, CreateUndo, CreateAbort, TypeOK, registry
        <4>. QED  BY <4>1 DEF NotCreating
      <3>. QED  BY <1>4, <3>1, <3>2
    <2>2. \A r \in Creators : r # q => creation'[r] = creation[r]
      BY <1>4, RequestFrame DEF CreateStep
    <2>. QED  BY <2>1, <2>2
  <1>5. CASE Next
    BY <1>1, <1>2, <1>3, <1>4, <1>5, SocketsFrame DEF Next, CreateStep
  <1>. QED  BY <1>1, <1>5 DEF vars, registry, http

LEMMA LogOKStep ==
    ASSUME TypeOK, LockInv, NoRequests, HandoffInv, [Next]_vars, NEW c \in DeviceConns
    PROVE  LogOK(c)'
  <1>0. LogOK(c) /\ Len(DeviceLog(c)) \in Nat
    BY LogType DEF HandoffInv
  <1>1. ASSUME NEW i \in 1..Len(DeviceLog(c)), NEW s, s = DeviceLog(c)[i].session,
               \A j \in 1..i : DeviceLog(c)'[j] = DeviceLog(c)[j],
               DeviceLog(c)'[i].type = "SessionRequested"
        PROVE  /\ s \in 1..created'
               /\ \A r \in Creators : creation'[r].pc = "close" => s # created'
               /\ \A o \in sessions'[s].replaced : Before(c, i, "SessionClosed", o)'
               /\ \A j \in 1..(i - 1) : DeviceLog(c)'[j].type = "SessionRequested" =>
                                           DeviceLog(c)'[j].session < s
    <2>1. i \in Nat /\ i \in 1..i /\ \A j \in 1..(i - 1) : j \in 1..i
      BY <1>0
    <2>2. /\ s \in 1..created
          /\ \A r \in Creators : creation[r].pc = "close" => s # created
          /\ \A o \in sessions[s].replaced : Before(c, i, "SessionClosed", o)
          /\ \A j \in 1..(i - 1) : DeviceLog(c)[j].type = "SessionRequested" =>
                                      DeviceLog(c)[j].session < s
      BY <1>0, <1>1, <2>1 DEF LogOK
    <2>3. s \in 1..created' /\ sessions'[s].replaced = sessions[s].replaced
      BY <2>2, ReplacedStays
    <2>4. \A r \in Creators : creation'[r].pc = "close" => s # created'
      BY <2>2, ClosingLater
    <2>5. \A o \in sessions'[s].replaced : Before(c, i, "SessionClosed", o)'
      BY <1>1, <2>1, <2>2, <2>3, BeforeStays
    <2>. QED  BY <1>1, <2>1, <2>2, <2>3, <2>4, <2>5
  <1>2. CASE DeviceLog(c)' = DeviceLog(c)
    BY <1>0, <1>1, <1>2 DEF LogOK
  <1>3. CASE Cut(c)
    <2>1. /\ Len(DeviceLog(c)') <= Len(DeviceLog(c)) /\ Len(DeviceLog(c)') \in Nat
          /\ \A i \in 1..Len(DeviceLog(c)') : DeviceLog(c)'[i] = DeviceLog(c)[i]
      <3>1. \A q \in Seq(Signal) : Len(q) \in Nat
        OBVIOUS
      <3>. QED  BY <1>3, <3>1 DEF Cut
    <2>2. \A i \in 1..Len(DeviceLog(c)') : /\ i \in 1..Len(DeviceLog(c))
                                           /\ \A j \in 1..i : j \in 1..Len(DeviceLog(c)')
      BY <1>0, <2>1
    <2>. QED  BY <1>1, <2>1, <2>2 DEF LogOK
  <1>4. ASSUME NEW m, Added(c, m) PROVE LogOK(c)'
    <2> PICK n : n = Len(DeviceLog(c))
      OBVIOUS
    <2>1. /\ n \in Nat /\ Len(DeviceLog(c)') = n + 1 /\ DeviceLog(c)'[n + 1] = m
          /\ \A i \in 1..n : DeviceLog(c)'[i] = DeviceLog(c)[i]
      BY <1>4, AppendKeeps
    <2>2. \A i \in 1..n : \A j \in 1..i : DeviceLog(c)'[j] = DeviceLog(c)[j]
      BY <2>1
    <2>3. ASSUME m.type = "SessionRequested", NEW s, s = m.session
          PROVE  /\ s \in 1..created'
                 /\ \A r \in Creators : creation'[r].pc = "close" => s # created'
                 /\ \A o \in sessions'[s].replaced : Before(c, n + 1, "SessionClosed", o)'
                 /\ \A j \in 1..n : DeviceLog(c)'[j].type = "SessionRequested" =>
                                       DeviceLog(c)'[j].session < s
      <3>1. PICK r \in Creators : /\ CreateSendRequest(r)
                                  /\ CanSend(c) /\ creation[r].sender = c
                                  /\ creation'[r].pc = "notify"
                                  /\ s = creation[r].id
        BY <1>4, <2>3 DEF Added
      <3>2. /\ creation[r].pc = "close" /\ creation[r].todo = {} /\ link[c] = "open"
            /\ created' = created
        BY <3>1 DEF CreateSendRequest, RequestDue, CanSend, registry
      <3>3. s = created /\ s \in 1..created /\ created \in Nat
        <4>1. created \in Nat
          BY DEF TypeOK
        <4>2. creation[r].id \in 1..created
          BY <3>2 DEF TypeOK, CreationsOK
        <4>3. creation[r].id = created
          BY <3>2 DEF LockInv
        <4>. QED  BY <3>1, <4>1, <4>2, <4>3
      <3>4. \A q \in Creators : creation'[q].pc # "close"
        <4>1. \A q \in Creators : q # r => creation[q].pc = "idle"
          BY <3>2 DEF LockInv
        <4>2. \A q \in Creators : q # r => creation'[q] = creation[q]
          BY <3>1, RequestFrame DEF CreateStep
        <4>. QED  BY <3>1, <4>1, <4>2
      <3>5. \A o \in sessions[s].replaced : Before(c, n + 1, "SessionClosed", o)
        BY <3>1, <3>2 DEF HandoffInv, SentCloses
      <3>6. s \in 1..created' /\ sessions'[s].replaced = sessions[s].replaced
        BY <3>3, ReplacedStays
      <3>7. \A o \in sessions'[s].replaced : Before(c, n + 1, "SessionClosed", o)'
        <4>1. n + 1 \in Nat /\ \A j \in 1..((n + 1) - 1) : j \in 1..n
          BY <2>1
        <4>. QED  BY <2>1, <3>5, <3>6, <4>1, BeforeStays
      <3>8. \A j \in 1..n : DeviceLog(c)[j].type = "SessionRequested" =>
               DeviceLog(c)[j].session < s
        <4>1. ASSUME NEW j \in 1..n, DeviceLog(c)[j].type = "SessionRequested"
              PROVE  DeviceLog(c)[j].session < s
          <5>1. DeviceLog(c)[j].session \in 1..created /\ DeviceLog(c)[j].session # created
            BY <1>0, <3>2, <4>1 DEF LogOK
          <5>. QED  BY <3>3, <5>1
        <4>. QED  BY <4>1
      <3>. QED  BY <2>1, <3>4, <3>6, <3>7, <3>8
    <2>4. ASSUME NEW i \in 1..(n + 1), DeviceLog(c)'[i].type = "SessionRequested",
                 NEW s, s = DeviceLog(c)'[i].session
          PROVE  /\ s \in 1..created'
                 /\ \A r \in Creators : creation'[r].pc = "close" => s # created'
                 /\ \A o \in sessions'[s].replaced : Before(c, i, "SessionClosed", o)'
                 /\ \A j \in 1..(i - 1) : DeviceLog(c)'[j].type = "SessionRequested" =>
                                             DeviceLog(c)'[j].session < s
      <3>1. CASE i \in 1..n
        BY <1>1, <2>1, <2>2, <2>4, <3>1
      <3>2. CASE i = n + 1
        <4>1. (n + 1) - 1 = n
          BY <2>1
        <4>. QED  BY <2>1, <2>3, <2>4, <3>2, <4>1
      <3>. QED  BY <2>1, <3>1, <3>2
    <2>. QED  BY <2>1, <2>4 DEF LogOK
  <1>. QED  BY <1>2, <1>3, <1>4, LogStep

\* What was before the end of an open socket's log still is.
LEMMA LogGrows ==
    ASSUME TypeOK, LockInv, NoRequests, [Next]_vars, NEW c \in DeviceConns,
           link'[c] = "open", NEW type, NEW o,
           Before(c, Len(DeviceLog(c)) + 1, type, o)
    PROVE  Before(c, Len(DeviceLog(c)) + 1, type, o)'
  <1> PICK n : n = Len(DeviceLog(c))
    OBVIOUS
  <1>0. n \in Nat
    BY LogType
  <1>1. PICK j \in 1..n : DeviceLog(c)[j].type = type /\ DeviceLog(c)[j].session = o
    BY <1>0 DEF Before
  <1>2. CASE DeviceLog(c)' = DeviceLog(c)
    BY <1>2 DEF Before
  <1>3. ASSUME NEW m, Added(c, m) PROVE Before(c, Len(DeviceLog(c)) + 1, type, o)'
    <2>1. Len(DeviceLog(c)') = n + 1 /\ DeviceLog(c)'[j] = DeviceLog(c)[j]
      BY <1>1, <1>3, AppendKeeps
    <2>2. j \in 1..((Len(DeviceLog(c)') + 1) - 1)
      BY <1>0, <1>1, <2>1
    <2>. QED  BY <1>1, <2>1, <2>2 DEF Before
  <1>. QED  BY <1>2, <1>3, LogStep DEF Cut

\* Another actor's step keeps what was sent for a request.
LEMMA SentClosesKeeps ==
    ASSUME TypeOK, LockInv, NoRequests, HandoffInv, [Next]_vars, NEW r \in Creators,
           creation'[r] = creation[r]
    PROVE  SentCloses(r)'
  <1> PICK c, s, todo : /\ c = creation[r].sender /\ s = creation[r].id
                        /\ todo = creation[r].todo
    OBVIOUS
  <1> SUFFICES ASSUME creation[r].pc = "close", link'[c] = "open",
                      NEW o, o \in sessions'[s].replaced \ todo
               PROVE  Before(c, Len(DeviceLog(c)) + 1, "SessionClosed", o)'
    BY DEF SentCloses
  <1>1. c \in DeviceConns /\ link[c] # "fresh"
    BY DEF LockInv
  <1>2. link[c] = "open"
    BY <1>1, LinkStep DEF DeviceConns
  <1>3. sessions'[s].replaced = sessions[s].replaced
    <2>1. s \in 1..created
      BY DEF TypeOK, CreationsOK
    <2>. QED  BY <2>1, ReplacedStays
  <1>4. Before(c, Len(DeviceLog(c)) + 1, "SessionClosed", o)
    BY <1>2, <1>3 DEF HandoffInv, SentCloses
  <1>. QED  BY <1>1, <1>2, <1>3, <1>4, LogGrows

LEMMA SentClosesStep ==
    ASSUME TypeOK, LockInv, NoRequests, HandoffInv, [Next]_vars, NEW r \in Creators
    PROVE  SentCloses(r)'
  <1>0. creation[r] \in Creation /\ creation \in [Creators -> Creation]
    BY DEF TypeOK
  <1>1. CASE creation'[r] = creation[r]
    BY <1>1, SentClosesKeeps
  <1>2. CASE creation'[r].pc # "close"
    BY <1>2 DEF SentCloses
  <1>3. CASE CreateInsert(r)
    <2> DEFINE id  == created + 1
               old == Replaced(creation[r].device)
    <2>1. creation'[r].id = id /\ creation'[r].todo = old
      BY <1>0, <1>3 DEF CreateInsert, Creation
    <2>2. sessions'[id].replaced = old
      <3>1. id \in SessionIds
        BY <1>3 DEF CreateInsert, TypeOK, SessionIds
      <3>. QED  BY <1>3, <3>1 DEF CreateInsert, TypeOK
    <2> HIDE DEF id, old
    <2>. QED  BY <2>1, <2>2 DEF SentCloses
  <1>4. ASSUME NEW a \in creation[r].todo, CreateSendClose(r),
               CanSend(creation[r].sender),
               Enqueue(creation[r].sender, ClosedSignal(a, None)),
               creation' = [creation EXCEPT ![r].todo = @ \ {a}]
        PROVE  SentCloses(r)'
    <2> PICK c, s, todo : /\ c = creation[r].sender /\ s = creation[r].id
                          /\ todo = creation[r].todo
      OBVIOUS
    <2>1. creation[r].pc = "close" /\ link[c] = "open" /\ UNCHANGED <<sessions, inbox>>
      BY <1>4 DEF CreateSendClose, CanSend, registry
    <2>2. /\ creation'[r].sender = c /\ creation'[r].id = s
          /\ creation'[r].todo = todo \ {a}
      BY <1>0, <1>4 DEF Creation
    <2>3. c \in DeviceConns /\ c \in Conns
      BY <2>1 DEF LockInv, DeviceConns
    <2>4. a \in SessionIds
      BY <1>0, <1>4 DEF Creation
    <2>5. /\ ClosedSignal(a, None) \in Signal
          /\ ClosedSignal(a, None).type = "SessionClosed"
          /\ ClosedSignal(a, None).session = a
      BY <2>4, SignalTypes DEF ClosedSignal
    <2>6. Added(c, ClosedSignal(a, None))
      <3>1. DeviceLog(c)' = Append(DeviceLog(c), ClosedSignal(a, None))
        BY <1>4, <2>1, <2>3, <2>5, EnqueueLog
      <3>. QED  BY <2>5, <3>1 DEF Added
    <2> PICK n : n = Len(DeviceLog(c))
      OBVIOUS
    <2>7. /\ n \in Nat /\ Len(DeviceLog(c)') = n + 1
          /\ DeviceLog(c)'[n + 1] = ClosedSignal(a, None)
          /\ \A i \in 1..n : DeviceLog(c)'[i] = DeviceLog(c)[i]
      BY <2>3, <2>6, AppendKeeps
    <2>8. ASSUME NEW o \in sessions[s].replaced, o \notin todo \ {a}
          PROVE  Before(c, n + 2, "SessionClosed", o)'
      <3>1. CASE o = a
        <4>1. n + 1 \in 1..((n + 2) - 1)
          BY <2>7
        <4>. QED  BY <2>5, <2>7, <3>1, <4>1 DEF Before
      <3>2. CASE o # a
        <4>1. Before(c, n + 1, "SessionClosed", o)
          BY <2>1, <2>8, <3>2 DEF HandoffInv, SentCloses
        <4>2. PICK j \in 1..n : /\ DeviceLog(c)[j].type = "SessionClosed"
                                /\ DeviceLog(c)[j].session = o
          BY <2>7, <4>1 DEF Before
        <4>3. j \in 1..((n + 2) - 1)
          BY <2>7, <4>2
        <4>. QED  BY <2>7, <4>2, <4>3 DEF Before
      <3>. QED  BY <3>1, <3>2
    <2>9. Len(DeviceLog(c)') + 1 = n + 2
      BY <2>7
    <2>. QED  BY <2>1, <2>2, <2>8, <2>9 DEF SentCloses
  <1>5. CASE CreateSendClose(r) \/ CreateSendRequest(r)
    <2>1. \/ creation'[r].pc # "close"
          \/ \E a \in creation[r].todo :
                /\ CreateSendClose(r)
                /\ CanSend(creation[r].sender)
                /\ Enqueue(creation[r].sender, ClosedSignal(a, None))
                /\ creation' = [creation EXCEPT ![r].todo = @ \ {a}]
      BY <1>0, <1>5 DEF CreateSendClose, CreateSendRequest, Creation
    <2>. QED  BY <1>2, <1>4, <2>1
  <1>6. ASSUME NEW u \in Users, NEW d \in Devices, CreateLookup(r, u, d)
        PROVE  creation'[r].pc = "insert"
    <2>1. creation'[r] = [NotCreating EXCEPT !.pc = "insert", !.owner = u,
                            !.device = d, !.sender = deviceSender[d]]
      BY <1>0, <1>6 DEF CreateLookup
    <2>. QED  BY <2>1 DEF NotCreating
  <1>7. CASE CreateNotify(r) \/ CreateUndo(r) \/ CreateAbort(r)
    <2>1. creation'[r] = NotCreating
      BY <1>0, <1>7 DEF CreateNotify, CreateUndo, CreateAbort
    <2>. QED  BY <1>2, <2>1 DEF NotCreating
  <1>8. ASSUME NEW q \in Creators, q # r,
               \/ \E u \in Users, d \in Devices : CreateLookup(q, u, d)
               \/ CreateStep(q)
               \/ CreateAbort(q)
        PROVE  creation'[r] = creation[r]
    BY <1>8, RequestFrame
  <1>9. CASE Next
    BY <1>1, <1>2, <1>3, <1>5, <1>6, <1>7, <1>8, <1>9, SocketsFrame
       DEF Next, CreateStep
  <1>. QED  BY <1>1, <1>9 DEF vars, http

LEMMA HandoffStep ==
    ASSUME TypeOK, LockInv, NoRequests, HandoffInv, [Next]_vars
    PROVE  HandoffInv'
  BY LogOKStep, SentClosesStep DEF HandoffInv

LEMMA HandoffImplies ==
    ASSUME TypeOK, HandoffInv
    PROVE  ToldInOrder
  <1>1. ASSUME NEW c \in DeviceConns
        PROVE  LogOK(c) /\ DOMAIN DeviceLog(c) = 1..Len(DeviceLog(c))
    BY <1>1, LogType DEF HandoffInv
  <1>2. ClosesPrecedeRequest
    BY <1>1 DEF ClosesPrecedeRequest, LogOK
  <1>3. RequestsInOwnershipOrder
    <2> SUFFICES ASSUME NEW c \in DeviceConns,
                        NEW i \in 1..Len(DeviceLog(c)), NEW j \in 1..Len(DeviceLog(c)),
                        DeviceLog(c)[i].type = "SessionRequested",
                        DeviceLog(c)[j].type = "SessionRequested",
                        i < j
                 PROVE  DeviceLog(c)[i].session < DeviceLog(c)[j].session
      BY <1>1 DEF RequestsInOwnershipOrder
    <2>1. i \in 1..(j - 1)
      BY LogType
    <2>. QED  BY <1>1, <2>1 DEF LogOK
  <1>. QED  BY <1>2, <1>3 DEF ToldInOrder

\* A Host's socket carries the close of every session a request evicted before the
\* request itself, and the requests in the order in which the devices changed hands,
\* for any number of browsers, Hosts and requests given up half-way.
THEOREM HostToldInOrder == Spec => []ToldInOrder
  <1> DEFINE Inv == TypeOK /\ RunInv /\ LockInv /\ NoRequests /\ HandoffInv
  <1>1. Init => Inv
    BY TypeInit, RunInit, LockInit, NoRequestsInit, HandoffInit
  <1>2. Inv /\ [Next]_vars => Inv'
    BY TypeStep, RunStep, LockStep, NoRequestsStep, HandoffStep
  <1>3. Inv => ToldInOrder
    BY HandoffImplies
  <1>. QED  BY <1>1, <1>2, <1>3, PTL DEF Spec
=============================================================================
