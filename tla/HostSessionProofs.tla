-------------------------- MODULE HostSessionProofs --------------------------
(***************************************************************************)
(* Proofs about HostSession, for any number of sessions, any sources, any  *)
(* place where accept_offer may fail and any number of disconnections.     *)
(***************************************************************************)
EXTENDS HostVideo, TLAPS

-----------------------------------------------------------------------------
(* Types, part by part: each lemma takes one kind of change of one part. *)

LEMMA InitTypeOK == Init => TypeOK
  <1> SUFFICES ASSUME Init PROVE TypeOK
    OBVIOUS
  <1>1. GateOK /\ PeersOK
    BY FlapsAssumption DEF Init, GateOK, PeersOK, MediaStates, PeerStates, CallbackSteps
  <1>2. SourcesOK
    BY TilesAssumption DEF Init, SourcesOK, Modes, SupervisorSteps
  <1>3. HostOK
    BY DEF Init, HostOK, LoopStates, Idle, LoopSteps, SessionOrNone
  <1>4. StatusOK /\ closeSent \in SUBSET Sessions
    BY DEF Init, StatusOK, SessionOrNone
  <1> QED
    BY <1>1, <1>2, <1>3, <1>4 DEF TypeOK

\* Parts that do not change keep their type.
LEMMA Kept ==
    ASSUME TypeOK
    PROVE  /\ UNCHANGED gate => GateOK'
           /\ UNCHANGED peers => PeersOK'
           /\ UNCHANGED sources => SourcesOK'
           /\ UNCHANGED host => HostOK'
           /\ UNCHANGED snapshot => StatusOK'
  BY DEF TypeOK, GateOK, PeersOK, SourcesOK, HostOK, StatusOK, gate, peers, sources, host

\* The steps of the loop, with their fields.
LEMMA IdleType == Idle \in LoopStates
  BY DEF Idle, LoopStates, LoopSteps, SessionOrNone

LEMMA GotoType ==
    ASSUME loop \in LoopStates, NEW pc \in LoopSteps, Goto(pc)
    PROVE  loop' \in LoopStates
  BY DEF Goto, LoopStates

LEMMA StepNames ==
    /\ RetireSteps \subseteq LoopSteps /\ AcceptSteps \subseteq LoopSteps
    /\ {"idle", "status"} \subseteq LoopSteps
    /\ {"next", "retire", "shut", "stop", "close"} = RetireSteps
    /\ {"prepare", "accept", "answered", "spawned"} = AcceptSteps
  BY DEF LoopSteps, RetireSteps, AcceptSteps

\* The gate after a store or a notification.
LEMMA GateWrites ==
    ASSUME GateOK, NEW s \in Sessions
    PROVE  /\ \A open \in BOOLEAN :
                 SetActive(s, open) /\ UNCHANGED <<retired, media, fresh>> => GateOK'
           /\ \A m \in MediaStates :
                 Publish(s, m) /\ UNCHANGED <<retired, active>> => GateOK'
           /\ retired' = [retired EXCEPT ![s] = TRUE]
                 /\ UNCHANGED <<active, media, fresh>> => GateOK'
           /\ \A src \in Sources :
                 MarkSeen(s, src) /\ UNCHANGED <<retired, active, media>> => GateOK'
  <1>1. ASSUME NEW open \in BOOLEAN, SetActive(s, open),
               UNCHANGED <<retired, media, fresh>>
        PROVE GateOK'
    BY <1>1 DEF GateOK, SetActive
  <1>2. ASSUME NEW m \in MediaStates, Publish(s, m), UNCHANGED <<retired, active>>
        PROVE GateOK'
    BY <1>2 DEF GateOK, Publish
  <1>3. ASSUME NEW src \in Sources, MarkSeen(s, src),
               UNCHANGED <<retired, active, media>>
        PROVE GateOK'
    BY <1>3 DEF GateOK, MarkSeen
  <1>4. ASSUME retired' = [retired EXCEPT ![s] = TRUE],
               UNCHANGED <<active, media, fresh>>
        PROVE GateOK'
    BY <1>4 DEF GateOK
  <1> QED
    BY <1>1, <1>2, <1>3, <1>4

\* The status after each of its updates.
LEMMA StatusWrites ==
    ASSUME StatusOK, NEW s \in SessionOrNone
    PROVE  /\ Preparing(s) => StatusOK'
           /\ s \in Sessions /\ Connected(s) => StatusOK'
           /\ Disconnected(s) => StatusOK'
  <1>1. Preparing(s) => StatusOK'
    BY DEF StatusOK, Preparing, SessionOrNone
  <1>2. s \in Sessions /\ Connected(s) => StatusOK'
    BY NoneAssumption DEF StatusOK, Connected, Shown, SessionOrNone
  <1>3. Disconnected(s) => StatusOK'
    BY DEF StatusOK, Disconnected, Shown, SessionOrNone
  <1> QED
    BY <1>1, <1>2, <1>3

\* The callback's next step and the connection state.
LEMMA CallbackMoves ==
    ASSUME PeersOK, NEW s \in Sessions
    PROVE  /\ \A step \in CallbackSteps :
                 Proceed(s, step) /\ UNCHANGED <<peer, aborted, flaps>> => PeersOK'
           /\ \A step \in CallbackSteps, p \in PeerStates :
                 Proceed(s, step) /\ peer' = [peer EXCEPT ![s] = p]
                     /\ UNCHANGED <<aborted, flaps>> => PeersOK'
  BY DEF PeersOK, Proceed

LEMMA SupervisorMoves ==
    ASSUME SourcesOK, NEW s \in Sessions, NEW src \in Sources
    PROVE  \A step \in SupervisorSteps :
              Advance(s, src, step) /\ UNCHANGED <<mode, hybrid>> => SourcesOK'
  BY DEF SourcesOK, Advance

-----------------------------------------------------------------------------
\* The main loop keeps the types.
LEMMA LoopTypeOK ==
    ASSUME TypeOK, LoopStep \/ \E s \in Sessions : TakeOffer(s) \/ TakeClosed(s)
    PROVE  TypeOK'
<1> USE Kept, StepNames
<1>0. GateOK /\ PeersOK /\ SourcesOK /\ HostOK /\ StatusOK /\ closeSent \in SUBSET Sessions
  BY DEF TypeOK
<1>a. ASSUME NEW s \in Sessions, TakeOffer(s) \/ TakeClosed(s) PROVE TypeOK'
  <2>1. table \in SUBSET Sessions /\ s \in SessionOrNone /\ None \in SessionOrNone
        /\ "next" \in LoopSteps
    BY <1>0 DEF HostOK, SessionOrNone
  <2>2. TakeOffer(s) => loop' \in LoopStates
    BY <2>1 DEF TakeOffer, Idle, ReplacedBy, LoopStates
  <2>3. TakeClosed(s) => loop' \in LoopStates
    BY <2>1 DEF TakeClosed, Idle, LoopStates
  <2>4. loop' \in LoopStates
    BY <1>a, <2>2, <2>3
  <2> QED
    BY <1>0, <1>a, <2>4 DEF TypeOK, TakeOffer, TakeClosed, HostOK
<1>b. CASE AllRetired \/ AcceptFails
  <2>1. loop' \in LoopStates
    BY <1>0, <1>b, IdleType, GotoType DEF AllRetired, AcceptFails, HostOK
  <2> QED
    BY <1>0, <1>b, <2>1 DEF TypeOK, AllRetired, AcceptFails, HostOK
<1>c. CASE StatusClosed
  BY <1>0, <1>c, IdleType, StatusWrites DEF TypeOK, StatusClosed, HostOK, LoopStates
<1>d. CASE Prepare
  BY <1>0, <1>d, GotoType, StatusWrites DEF TypeOK, Prepare, HostOK, LoopStates
<1>e. ASSUME NEW s \in Sessions, NextToRetire(s) \/ RetireClose(s) PROVE TypeOK'
  <2>0. loop \in LoopStates /\ loop.rest \in SUBSET Sessions
    BY <1>0 DEF HostOK, LoopStates
  <2>1. NextToRetire(s) => loop' \in LoopStates
    <3>1. "retire" \in LoopSteps /\ s \in SessionOrNone /\ loop.rest \ {s} \in SUBSET Sessions
      BY <2>0 DEF SessionOrNone
    <3> QED
      BY <2>0, <3>1 DEF NextToRetire, LoopStates
  <2>2. RetireClose(s) => loop' \in LoopStates
    BY <2>0 DEF RetireClose, LoopStates, SessionOrNone
  <2>3. loop' \in LoopStates
    BY <1>e, <2>1, <2>2
  <2> QED
    BY <1>0, <1>e, <2>3 DEF TypeOK, NextToRetire, RetireClose, HostOK, PeersOK
<1>f. ASSUME NEW s \in Sessions, Retire(s) \/ RetireShut(s) \/ RetireStop(s) PROVE TypeOK'
  <2>1. loop' \in LoopStates
    BY <1>0, <1>f, GotoType DEF Retire, RetireShut, RetireStop, HostOK
  <2>2. GateOK'
    BY <1>0, <1>f, GateWrites DEF Retire, RetireShut, RetireStop, MediaStates
  <2> QED
    BY <1>0, <1>f, <2>1, <2>2 DEF TypeOK, Retire, RetireShut, RetireStop, HostOK
<1>g. ASSUME NEW s \in Sessions, Answer(s) \/ OfferFails(s) PROVE TypeOK'
  <2>1. loop' \in LoopStates
    BY <1>0, <1>g, GotoType, IdleType DEF Answer, OfferFails, HostOK
  <2>2. PeersOK'
    BY <1>0, <1>g DEF Answer, OfferFails, PeersOK, PeerStates
  <2> QED
    BY <1>0, <1>g, <2>1, <2>2 DEF TypeOK, Answer, OfferFails, HostOK
<1>h. ASSUME NEW s \in Sessions, Spawn(s) \/ Insert(s) PROVE TypeOK'
  <2>1. loop' \in LoopStates
    BY <1>0, <1>h, GotoType, IdleType DEF Spawn, Insert, HostOK
  <2>2. SourcesOK'
    BY <1>0, <1>h DEF Spawn, Insert, SourcesOK, SupervisorSteps, sources
  <2> QED
    BY <1>0, <1>h, <2>1, <2>2 DEF TypeOK, Spawn, Insert, HostOK
<1> QED
  BY <1>a, <1>b, <1>c, <1>d, <1>e, <1>f, <1>g, <1>h DEF LoopStep

\* The callbacks keep the types.
LEMMA CallbackTypeOK ==
    ASSUME TypeOK, NEW s \in Sessions,
           PeerEvent(s) \/ CallbackStep(s) \/ DriverEnds(s)
    PROVE  TypeOK'
<1> USE Kept
<1>0. GateOK /\ PeersOK /\ SourcesOK /\ HostOK /\ StatusOK /\ closeSent \in SUBSET Sessions
  BY DEF TypeOK
<1>1. /\ "idle" \in CallbackSteps /\ ConnectedSteps \subseteq CallbackSteps
      /\ RefuseSteps \subseteq CallbackSteps /\ LossSteps \subseteq CallbackSteps
      /\ {"checked", "opened", "running", "report"} = ConnectedSteps
      /\ {"refused", "refusing"} = RefuseSteps
      /\ {"pause", "pausing", "lost", "fail", "failing", "failed", "giveup"} = LossSteps
      /\ {"connected", "disconnected", "failed", "closed", "gone"} \subseteq PeerStates
  BY DEF CallbackSteps, ConnectedSteps, RefuseSteps, LossSteps, PeerStates
<1>a. CASE OnConnected(s) \/ OnLost(s)
  <2>1. PeersOK'
    BY <1>0, <1>1, <1>a, CallbackMoves DEF OnConnected, OnLost, Deliver
  <2> QED
    BY <1>0, <1>a, <2>1 DEF TypeOK, OnConnected, OnLost
<1>b. CASE OnDisconnected(s)
  <2>1. PeersOK'
    BY <1>0, <1>1, <1>b, FlapsAssumption DEF OnDisconnected, Deliver, Proceed, PeersOK
  <2> QED
    BY <1>0, <1>b, <2>1 DEF TypeOK, OnDisconnected
<1>c. CASE Open(s) \/ Run(s) \/ Shut(s) \/ Tell(s)
  <2>1. PeersOK'
    BY <1>0, <1>1, <1>c, CallbackMoves DEF Open, Run, Shut, Tell
  <2>2. GateOK'
    BY <1>0, <1>c, GateWrites DEF Open, Run, Shut, Tell, Paused, MediaStates
  <2> QED
    BY <1>0, <1>c, <2>1, <2>2 DEF TypeOK, Open, Run, Shut, Tell
<1>d. CASE Recheck(s) \/ GiveUp(s) \/ DriverEnds(s)
  <2>1. PeersOK'
    BY <1>0, <1>1, <1>d, CallbackMoves DEF Recheck, AfterRecheck, GiveUp, DriverEnds
  <2> QED
    BY <1>0, <1>d, <2>1 DEF TypeOK, Recheck, GiveUp, DriverEnds
<1>e. CASE Report(s) \/ ReportLost(s)
  <2>1. PeersOK'
    BY <1>0, <1>1, <1>e, CallbackMoves DEF Report, ReportLost
  <2>2. StatusOK'
    BY <1>0, <1>e, StatusWrites DEF Report, ReportLost, SessionOrNone
  <2> QED
    BY <1>0, <1>e, <2>1, <2>2 DEF TypeOK, Report, ReportLost
<1> QED
  BY <1>a, <1>b, <1>c, <1>d, <1>e DEF PeerEvent, CallbackStep

\* The supervisors and the refinement channel keep the types.
LEMMA SourceTypeOK ==
    ASSUME TypeOK, NEW s \in Sessions,
           TileMode(s) \/ \E src \in Sources : SourceStep(s, src) \/ StreamFails(s, src)
    PROVE  TypeOK'
<1> USE Kept
<1>0. GateOK /\ PeersOK /\ SourcesOK /\ HostOK /\ StatusOK /\ closeSent \in SUBSET Sessions
  BY DEF TypeOK
<1>a. CASE TileMode(s)
  <2>1. SourcesOK'
    BY <1>0, <1>a DEF TileMode, SourcesOK, Modes
  <2> QED
    BY <1>0, <1>a, <2>1 DEF TypeOK, TileMode
<1>b. ASSUME NEW src \in Sources, SourceStep(s, src) \/ StreamFails(s, src)
      PROVE TypeOK'
  <2>1. /\ AfterWait(s, src) \in SupervisorSteps
        /\ {"wait", "ended", "gate", "stream", "backoff"} \subseteq SupervisorSteps
    BY DEF AfterWait, SupervisorSteps
  <2>2. CASE Wait(s, src)
    <3>1. SourcesOK' /\ GateOK'
      BY <1>0, <2>1, <2>2, SupervisorMoves, GateWrites DEF Wait
    <3> QED
      BY <1>0, <2>2, <3>1 DEF TypeOK, Wait
  <2>3. ASSUME NEW from \in {"parked", "backoff", "stream"}, Changed(s, src, from)
        PROVE TypeOK'
    <3>1. SourcesOK'
      BY <1>0, <2>1, <2>3, SupervisorMoves DEF Changed
    <3>2. GateOK'
      BY <1>0, <2>3, GateWrites DEF Changed, GateOK
    <3> QED
      BY <1>0, <2>3, <3>1, <3>2 DEF TypeOK, Changed
  <2>4. CASE ChooseMode(s, src)
    <3>1. SourcesOK'
      BY <1>0, <2>1, <2>4 DEF ChooseMode, SourcesOK, Advance
    <3> QED
      BY <1>0, <2>4, <3>1 DEF TypeOK, ChooseMode
  <2>5. CASE CheckGate(s, src) \/ StreamEnds(s, src)
             \/ StreamFails(s, src) \/ ModeChanges(s, src) \/ Backoff(s, src)
    <3>1. SourcesOK'
      BY <1>0, <2>1, <2>5, SupervisorMoves
         DEF CheckGate, StreamEnds, StreamFails, ModeChanges, Backoff
    <3> QED
      BY <1>0, <2>5, <3>1
         DEF TypeOK, CheckGate, StreamEnds, StreamFails, ModeChanges, Backoff
  <2> QED
    BY <1>b, <2>2, <2>3, <2>4, <2>5 DEF SourceStep
<1> QED
  BY <1>a, <1>b

LEMMA NextTypeOK == TypeOK /\ [Next]_vars => TypeOK'
<1> SUFFICES ASSUME TypeOK, [Next]_vars
             PROVE TypeOK'
  OBVIOUS
<1>1. CASE UNCHANGED vars
  BY <1>1, Kept DEF TypeOK, vars
<1> QED
  BY <1>1, LoopTypeOK, CallbackTypeOK, SourceTypeOK DEF Next

\* Every reachable state is well typed, and a "connected" status names a
\* session (ControlStatus::connected applies only to the session shown).
THEOREM TypeCorrect == Spec => []TypeOK
  BY InitTypeOK, NextTypeOK, PTL DEF Spec

-----------------------------------------------------------------------------
(* The bookkeeping of the loop. *)

LEMMA LoopInvKept == LoopInv /\ UNCHANGED <<retired, host>> => LoopInv'
  BY DEF LoopInv, host

LEMMA LoopInvStep ==
    ASSUME TypeOK, LoopInv,
           LoopStep \/ \E s \in Sessions : TakeOffer(s) \/ TakeClosed(s)
    PROVE  LoopInv'
<1> USE NoneAssumption DEF RetireSteps, AcceptSteps
<1>0. /\ loop \in LoopStates /\ retired \in [Sessions -> BOOLEAN]
      /\ table \subseteq Sessions /\ loop.old \in Sessions \cup {None}
      /\ loop.offer \in Sessions \cup {None} /\ loop.rest \subseteq Sessions
  BY DEF TypeOK, HostOK, GateOK, LoopStates, SessionOrNone
<1>1. ASSUME NEW s \in Sessions, TakeOffer(s) PROVE LoopInv'
  <2>1. /\ loop.pc = "idle" /\ s \notin offered
        /\ loop'.pc = "next" /\ loop'.old = None /\ loop'.rest = table
        /\ loop'.offer = s /\ table' = {} /\ offered' = offered \cup {s}
        /\ UNCHANGED retired
    BY <1>1 DEF TakeOffer, ReplacedBy, Idle, gate
  <2>2. \A t \in Sessions :
          /\ retired'[t] => t \in offered' /\ t \notin table' \cup loop'.rest
          /\ retired'[t] => t # loop'.offer
          /\ loop'.offer = t => t \notin table' \cup loop'.rest \cup {loop'.old}
          /\ loop'.old = t => t \in offered' /\ t \notin table' \cup loop'.rest
    BY <2>1 DEF LoopInv
  <2> QED
    BY <1>0, <2>1, <2>2 DEF LoopInv
<1>2. ASSUME NEW s \in Sessions, TakeClosed(s) PROVE LoopInv'
  <2>1. /\ loop.pc = "idle" /\ s \in offered
        /\ loop'.pc = "next" /\ loop'.old = None /\ loop'.rest = table \cap {s}
        /\ loop'.offer = None /\ loop'.id = s
        /\ table' = table \ {s} /\ UNCHANGED <<offered, retired>>
    BY <1>2 DEF TakeClosed, Idle, gate
  <2>2. \A t \in Sessions :
          /\ retired'[t] => t \in offered' /\ t \notin table' \cup loop'.rest
          /\ retired'[t] => t # loop'.offer
          /\ loop'.offer = t => t \notin table' \cup loop'.rest \cup {loop'.old}
          /\ loop'.old = t => t \in offered' /\ t \notin table' \cup loop'.rest
    BY <2>1 DEF LoopInv
  <2> QED
    BY <1>0, <2>1, <2>2 DEF LoopInv
<1>3. ASSUME NEW s \in Sessions, NextToRetire(s) PROVE LoopInv'
  <2>1. /\ loop'.pc = "retire" /\ loop'.old = s /\ loop'.rest = loop.rest \ {s}
        /\ loop'.offer = loop.offer /\ loop'.id = loop.id
        /\ UNCHANGED <<retired, table, offered>>
    BY <1>0, <1>3 DEF NextToRetire, LoopStates, gate
  <2>2. loop.pc = "next" /\ loop.old = None /\ s \in loop.rest
    BY <1>3 DEF LoopInv, NextToRetire
  <2>3. \A t \in Sessions :
          /\ retired'[t] => t \in offered' /\ t \notin table' \cup loop'.rest
          /\ retired'[t] => t # loop'.offer
          /\ loop'.offer = t => t \notin table' \cup loop'.rest \cup {loop'.old}
          /\ loop'.old = t => t \in offered' /\ t \notin table' \cup loop'.rest
    BY <1>0, <2>1, <2>2 DEF LoopInv
  <2> QED
    BY <1>0, <2>1, <2>2, <2>3 DEF LoopInv
<1>4. ASSUME NEW s \in Sessions, Retire(s) PROVE LoopInv'
  <2>1. /\ loop.pc = "retire" /\ loop.old = s
        /\ loop'.pc = "shut" /\ loop'.old = s /\ loop'.rest = loop.rest
        /\ loop'.offer = loop.offer /\ loop'.id = loop.id
        /\ retired' = [retired EXCEPT ![s] = TRUE]
        /\ UNCHANGED <<table, offered>>
    BY <1>0, <1>4 DEF Retire, Goto, LoopStates
  <2>2. s # loop.offer /\ s \in offered /\ s \notin table \cup loop.rest
    BY <2>1 DEF LoopInv
  <2>3. \A t \in Sessions : retired'[t] => t = s \/ retired[t]
    BY <1>0, <2>1
  <2>4. retired'[s]
    BY <1>0, <2>1
  <2>5. \A t \in Sessions :
          /\ retired'[t] => t \in offered' /\ t \notin table' \cup loop'.rest
          /\ retired'[t] => t # loop'.offer
          /\ loop'.offer = t => t \notin table' \cup loop'.rest \cup {loop'.old}
          /\ loop'.old = t => t \in offered' /\ t \notin table' \cup loop'.rest
    BY <2>1, <2>2, <2>3 DEF LoopInv
  <2>6. table' \subseteq offered' /\ loop'.rest \subseteq offered' \ table'
    BY <2>1 DEF LoopInv
  <2>7. /\ loop'.pc = "idle" => loop'.old = None /\ loop'.rest = {}
        /\ loop'.old # None <=> loop'.pc \in RetireSteps \ {"next"}
        /\ loop'.pc \in {"shut", "stop", "close"} => retired'[loop'.old]
        /\ loop'.pc \in AcceptSteps => loop'.offer # None
        /\ loop'.pc = "status" => loop'.offer = None
    BY <2>1, <2>4
  <2>8. /\ loop'.offer = None => loop'.rest \cup {loop'.old} \subseteq {loop'.id, None}
        /\ loop'.offer # None => loop'.offer \in offered'
    BY <2>1 DEF LoopInv
  <2> QED
    BY <2>5, <2>6, <2>7, <2>8 DEF LoopInv
<1>5. ASSUME NEW s \in Sessions, RetireShut(s) \/ RetireStop(s) PROVE LoopInv'
  <2>1. /\ loop.pc \in {"shut", "stop"} /\ loop'.pc \in {"stop", "close"}
        /\ loop'.old = loop.old /\ loop'.rest = loop.rest
        /\ loop'.offer = loop.offer /\ loop'.id = loop.id
        /\ UNCHANGED <<retired, table, offered>>
    BY <1>0, <1>5 DEF RetireShut, RetireStop, Goto, LoopStates
  <2> QED
    BY <2>1 DEF LoopInv
<1>6. ASSUME NEW s \in Sessions, RetireClose(s) PROVE LoopInv'
  <2>1. /\ loop'.pc = "next" /\ loop'.old = None /\ loop'.rest = loop.rest
        /\ loop'.offer = loop.offer /\ loop'.id = loop.id
        /\ UNCHANGED <<retired, table, offered>>
    BY <1>0, <1>6 DEF RetireClose, LoopStates, gate
  <2> QED
    BY <1>0, <1>6, <2>1 DEF LoopInv
<1>7. ASSUME AllRetired \/ Prepare PROVE LoopInv'
  BY <1>0, <1>7 DEF LoopInv, AllRetired, Prepare, Goto, LoopStates, gate
<1>8. ASSUME StatusClosed \/ AcceptFails PROVE LoopInv'
  BY <1>0, <1>8 DEF LoopInv, StatusClosed, AcceptFails, Idle, gate
<1>9. ASSUME NEW s \in Sessions, Answer(s) \/ Spawn(s) PROVE LoopInv'
  BY <1>0, <1>9 DEF LoopInv, Answer, Spawn, Goto, LoopStates, gate
<1>10. ASSUME NEW s \in Sessions, OfferFails(s) \/ Insert(s) PROVE LoopInv'
  BY <1>0, <1>10 DEF LoopInv, OfferFails, Insert, Idle, gate
<1> QED
  BY <1>1, <1>2, <1>3, <1>4, <1>5, <1>6, <1>7, <1>8, <1>9, <1>10 DEF LoopStep

-----------------------------------------------------------------------------
(* The gate. *)

LEMMA GateInvKept ==
    GateInv /\ UNCHANGED <<retired, active, media, callback, loop>> => GateInv'
  BY DEF GateInv

\* A step of the loop that touches neither the flags nor the channel, and
\* leaves no retirement half done.
LEMMA GateInvLoop ==
    ASSUME GateInv, UNCHANGED <<retired, active, media, callback>>,
           loop.pc \notin {"shut", "stop"}
    PROVE  GateInv'
  BY DEF GateInv

LEMMA GateInvStep ==
    ASSUME TypeOK, LoopInv, GateInv,
           LoopStep \/ \E s \in Sessions : TakeOffer(s) \/ TakeClosed(s)
    PROVE  GateInv'
<1>0. /\ loop \in LoopStates /\ retired \in [Sessions -> BOOLEAN]
      /\ active \in [Sessions -> BOOLEAN] /\ media \in [Sessions -> MediaStates]
  BY DEF TypeOK, HostOK, GateOK
<1>1. ASSUME NEW s \in Sessions, Retire(s) PROVE GateInv'
  BY <1>0, <1>1 DEF GateInv, Retire, Goto, LoopStates, peers
<1>2. ASSUME NEW s \in Sessions, RetireShut(s) PROVE GateInv'
  BY <1>0, <1>2 DEF GateInv, RetireShut, SetActive, Goto, LoopStates, peers, LoopInv
<1>3. ASSUME NEW s \in Sessions, RetireStop(s) PROVE GateInv'
  BY <1>0, <1>3 DEF GateInv, RetireStop, Publish, Goto, LoopStates, peers, LoopInv
<1>4. CASE \E s \in Sessions : \/ TakeOffer(s) \/ TakeClosed(s) \/ NextToRetire(s)
                               \/ RetireClose(s) \/ Answer(s) \/ OfferFails(s)
                               \/ Spawn(s) \/ Insert(s)
  BY <1>4, GateInvLoop
     DEF TakeOffer, TakeClosed, NextToRetire, RetireClose, Answer, OfferFails, Spawn,
         Insert, gate, peers
<1>5. CASE AllRetired \/ Prepare \/ StatusClosed \/ AcceptFails
  BY <1>5, GateInvLoop
     DEF AllRetired, Prepare, StatusClosed, AcceptFails, gate, peers
<1> QED
  BY <1>1, <1>2, <1>3, <1>4, <1>5 DEF LoopStep

\* The callbacks: what Connected opens it looks at again.
LEMMA GateInvCallback ==
    ASSUME TypeOK, LoopInv, GateInv, NEW s \in Sessions,
           PeerEvent(s) \/ CallbackStep(s) \/ DriverEnds(s)
    PROVE  GateInv'
<1> USE DEF RefuseSteps, Proceed
<1>0. /\ retired \in [Sessions -> BOOLEAN] /\ callback \in [Sessions -> CallbackSteps]
      /\ active \in [Sessions -> BOOLEAN] /\ media \in [Sessions -> MediaStates]
  BY DEF TypeOK, PeersOK, GateOK
<1>1. CASE PeerEvent(s)
  BY <1>0, <1>1 DEF GateInv, PeerEvent, OnConnected, OnDisconnected, OnLost, Deliver,
                    gate, host
<1>2. CASE Open(s)
  BY <1>0, <1>2 DEF GateInv, Open, SetActive, host
<1>3. CASE Run(s)
  BY <1>0, <1>3 DEF GateInv, Run, Publish, host
<1>4. CASE Recheck(s)
  BY <1>0, <1>4 DEF GateInv, Recheck, AfterRecheck, gate, host
<1>5. CASE Shut(s)
  BY <1>0, <1>5 DEF GateInv, Shut, SetActive, host
<1>6. CASE Tell(s)
  BY <1>0, <1>6 DEF GateInv, Tell, Publish, Paused, host
<1>7. CASE Report(s) \/ ReportLost(s) \/ GiveUp(s) \/ DriverEnds(s)
  BY <1>0, <1>7 DEF GateInv, Report, ReportLost, GiveUp, DriverEnds, AtAwait, gate, host
<1> QED
  BY <1>1, <1>2, <1>3, <1>4, <1>5, <1>6, <1>7 DEF CallbackStep

-----------------------------------------------------------------------------
(* The status. *)

LEMMA StatusInvKept ==
    StatusInv /\ UNCHANGED <<retired, active, media, callback, loop, snapshot>>
        => StatusInv'
  BY DEF StatusInv

LEMMA StatusInvStep ==
    ASSUME TypeOK, LoopInv, StatusInv,
           LoopStep \/ \E s \in Sessions : TakeOffer(s) \/ TakeClosed(s)
    PROVE  StatusInv'
<1> USE NoneAssumption DEF RetireSteps, AcceptSteps
<1>0. /\ loop \in LoopStates /\ retired \in [Sessions -> BOOLEAN]
      /\ active \in [Sessions -> BOOLEAN] /\ media \in [Sessions -> MediaStates]
      /\ loop.offer \in Sessions \cup {None} /\ loop.id \in Sessions \cup {None}
      /\ snapshot \in [session : SessionOrNone, capture : BOOLEAN]
      /\ snapshot.capture => snapshot.session \in Sessions
  BY DEF TypeOK, HostOK, GateOK, StatusOK, LoopStates, SessionOrNone
<1>1. ASSUME NEW s \in Sessions, TakeOffer(s) \/ TakeClosed(s) PROVE StatusInv'
  BY <1>0, <1>1 DEF StatusInv, TakeOffer, TakeClosed, Idle, gate, peers
<1>2. ASSUME NEW s \in Sessions, NextToRetire(s) \/ RetireClose(s) PROVE StatusInv'
  <2>1. /\ loop.pc \in {"next", "close"} /\ loop'.pc \in {"retire", "next"}
        /\ loop'.offer = loop.offer /\ loop'.id = loop.id
        /\ UNCHANGED <<retired, active, media, callback, snapshot>>
    BY <1>0, <1>2 DEF NextToRetire, RetireClose, LoopStates, gate, peers
  <2> QED
    BY <2>1 DEF StatusInv
<1>3. ASSUME NEW s \in Sessions, Retire(s) PROVE StatusInv'
  BY <1>0, <1>3 DEF StatusInv, LoopInv, Retire, Goto, LoopStates, peers
<1>4. ASSUME NEW s \in Sessions, RetireShut(s) PROVE StatusInv'
  BY <1>0, <1>4 DEF StatusInv, LoopInv, RetireShut, SetActive, Goto, LoopStates, peers
<1>5. ASSUME NEW s \in Sessions, RetireStop(s) PROVE StatusInv'
  BY <1>0, <1>5 DEF StatusInv, LoopInv, RetireStop, Publish, Goto, LoopStates, peers
<1>6. CASE AllRetired
  BY <1>0, <1>6 DEF StatusInv, AllRetired, Goto, LoopStates, gate, peers
<1>7. CASE Prepare
  BY <1>0, <1>7 DEF StatusInv, LoopInv, Prepare, Preparing, Goto, LoopStates, gate, peers
<1>8. CASE StatusClosed
  BY <1>0, <1>8 DEF StatusInv, LoopInv, StatusClosed, Disconnected, Shown, Idle, gate, peers
<1>9. ASSUME NEW s \in Sessions,
             Answer(s) \/ OfferFails(s) \/ Spawn(s) \/ Insert(s) \/ AcceptFails
      PROVE StatusInv'
  BY <1>0, <1>9, FaultsAssumption
     DEF StatusInv, Answer, OfferFails, Spawn, Insert, AcceptFails, Goto, Idle,
         LoopStates, gate, peers
<1>10. CASE AcceptFails
  BY <1>0, <1>10 DEF StatusInv, AcceptFails, Idle, gate, peers
<1> QED
  BY <1>1, <1>2, <1>3, <1>4, <1>5, <1>6, <1>7, <1>8, <1>9, <1>10 DEF LoopStep

LEMMA StatusInvCallback ==
    ASSUME TypeOK, LoopInv, GateInv, StatusInv, NEW s \in Sessions,
           PeerEvent(s) \/ CallbackStep(s) \/ DriverEnds(s)
    PROVE  StatusInv'
<1> USE NoneAssumption DEF RefuseSteps, LossSteps, Proceed
<1>0. /\ retired \in [Sessions -> BOOLEAN] /\ callback \in [Sessions -> CallbackSteps]
      /\ active \in [Sessions -> BOOLEAN] /\ media \in [Sessions -> MediaStates]
      /\ snapshot \in [session : SessionOrNone, capture : BOOLEAN]
      /\ snapshot.capture => snapshot.session \in Sessions
  BY DEF TypeOK, PeersOK, GateOK, StatusOK, SessionOrNone
<1>1. CASE PeerEvent(s)
  BY <1>0, <1>1 DEF StatusInv, PeerEvent, OnConnected, OnDisconnected, OnLost, Deliver,
                    gate, host
<1>2. CASE Open(s)
  BY <1>0, <1>2 DEF StatusInv, Open, SetActive, host
<1>3. CASE Run(s)
  BY <1>0, <1>3 DEF StatusInv, Run, Publish, host
<1>4. CASE Recheck(s)
  BY <1>0, <1>4 DEF StatusInv, Recheck, AfterRecheck, gate, host
<1>5. CASE Report(s)
  BY <1>0, <1>5 DEF StatusInv, GateInv, Report, Connected, Shown, gate, host
<1>6. CASE Shut(s)
  BY <1>0, <1>6 DEF StatusInv, GateInv, Shut, SetActive, host
<1>7. CASE Tell(s)
  BY <1>0, <1>7 DEF StatusInv, GateInv, Tell, Publish, Paused, host
<1>8. CASE ReportLost(s)
  BY <1>0, <1>8 DEF StatusInv, ReportLost, Disconnected, Shown, gate, host
<1>9. CASE GiveUp(s) \/ DriverEnds(s)
  BY <1>0, <1>9 DEF StatusInv, GiveUp, DriverEnds, AtAwait, gate, host
<1> QED
  BY <1>1, <1>2, <1>3, <1>4, <1>5, <1>6, <1>7, <1>8, <1>9 DEF CallbackStep

-----------------------------------------------------------------------------
(* The invariant, and what follows from it. *)

LEMMA InitHostInv == Init => HostInv
<1> SUFFICES ASSUME Init PROVE HostInv
  OBVIOUS
<1>1. LoopInv
  BY NoneAssumption DEF Init, LoopInv, Idle, RetireSteps, AcceptSteps
<1>2. GateInv
  BY DEF Init, GateInv, RefuseSteps
<1>3. StatusInv
  BY NoneAssumption DEF Init, StatusInv
<1> QED
  BY <1>1, <1>2, <1>3 DEF HostInv

\* The sources and the refinement channel leave alone what HostInv is about.
LEMMA SourcesLeave ==
    ASSUME NEW s \in Sessions,
           TileMode(s) \/ \E src \in Sources : SourceStep(s, src) \/ StreamFails(s, src)
    PROVE  UNCHANGED <<retired, active, media, callback, host, snapshot>>
  BY DEF TileMode, SourceStep, StreamFails, Wait, Changed, ChooseMode,
         CheckGate, StreamEnds, ModeChanges, Backoff, gate, peers

LEMMA HostInvStep == TypeOK /\ HostInv /\ [Next]_vars => HostInv'
<1> SUFFICES ASSUME TypeOK, HostInv, [Next]_vars
             PROVE HostInv'
  OBVIOUS
<1>0. LoopInv /\ GateInv /\ StatusInv
  BY DEF HostInv
<1>1. CASE LoopStep \/ \E s \in Sessions : TakeOffer(s) \/ TakeClosed(s)
  BY <1>0, <1>1, LoopInvStep, GateInvStep, StatusInvStep DEF HostInv
<1>2. ASSUME NEW s \in Sessions, PeerEvent(s) \/ CallbackStep(s) \/ DriverEnds(s)
      PROVE HostInv'
  <2>1. UNCHANGED <<retired, host>>
    BY <1>2 DEF PeerEvent, CallbackStep, OnConnected, OnDisconnected, OnLost, Open, Run,
                Recheck, Report, Shut, Tell, ReportLost, GiveUp, DriverEnds, gate
  <2> QED
    BY <1>0, <1>2, <2>1, LoopInvKept, GateInvCallback, StatusInvCallback DEF HostInv
<1>3. CASE \/ UNCHANGED vars
           \/ \E s \in Sessions :
                 \/ TileMode(s)
                 \/ \E src \in Sources : SourceStep(s, src) \/ StreamFails(s, src)
  <2>1. UNCHANGED <<retired, active, media, callback, host, snapshot>>
    BY <1>3, SourcesLeave DEF vars, gate, peers
  <2>2. UNCHANGED loop
    BY <2>1 DEF host
  <2> QED
    BY <1>0, <2>1, <2>2, LoopInvKept, GateInvKept, StatusInvKept DEF HostInv
<1> QED
  BY <1>1, <1>2, <1>3 DEF Next

THEOREM HostInvariant == Spec => []HostInv
<1>1. Init => TypeOK /\ HostInv
  BY InitTypeOK, InitHostInv
<1>2. TypeOK /\ HostInv /\ [Next]_vars => (TypeOK /\ HostInv)'
  BY NextTypeOK, HostInvStep
<1> QED
  BY <1>1, <1>2, PTL DEF Spec

\* Retirement always wins over a concurrent Connected callback: once both are
\* over, the retired session's gate is shut and its sources are not running.
THEOREM RetirementAlwaysWins == Spec => []RetirementWins
<1>1. HostInv => RetirementWins
  BY DEF HostInv, GateInv, RetirementWins, Stopped
<1> QED
  BY <1>1, HostInvariant, PTL

\* A "connected" status is never that of an older, retired session, and
\* outlives the gate it stands for only while a callback is shutting it.
THEOREM StatusIsCurrent == Spec => []ConnectedStatusIsCurrent
<1>1. TypeOK /\ HostInv => ConnectedStatusIsCurrent
  BY DEF TypeOK, StatusOK, SessionOrNone, HostInv, StatusInv, ConnectedStatusIsCurrent,
         RetireSteps
<1> QED
  BY <1>1, TypeCorrect, HostInvariant, PTL
-----------------------------------------------------------------------------
(* The owner of the sources. *)

\* Whoever leaves the supervisors and the loop alone, and un-retires and
\* un-closes nobody, leaves the owners alone.
LEMMA OwnerInvKept ==
    OwnerInv /\ UNCHANGED <<retired, aborted, supervisor, table, loop>> => OwnerInv'
  BY DEF OwnerInv, InHand, Supervised

\* No supervisor starts again.
LEMMA NoneStarts ==
    ASSUME TypeOK, NEW s \in Sessions, NEW src \in Sources,
           SourceStep(s, src) \/ StreamFails(s, src), NEW t \in Sessions, Supervised(t)'
    PROVE  Supervised(t)
<1>1. /\ supervisor \in [Sessions -> [Sources -> SupervisorSteps]]
      /\ \E step \in SupervisorSteps : Advance(s, src, step)
      /\ supervisor[s][src] \notin {"unborn", "ended"}
  <2>1. AfterWait(s, src) \in SupervisorSteps
    BY DEF AfterWait, SupervisorSteps
  <2> QED
    BY <2>1 DEF TypeOK, SourcesOK, SourceStep, StreamFails, Wait, Changed, ChooseMode,
              CheckGate, StreamEnds, ModeChanges, Backoff, SupervisorSteps
<1>2. CASE t = s
  BY <1>1, <1>2 DEF Supervised
<1>3. CASE t # s
  BY <1>1, <1>3 DEF Supervised, Advance
<1> QED
  BY <1>2, <1>3

LEMMA OwnerInvSources ==
    ASSUME TypeOK, OwnerInv, NEW s \in Sessions, NEW src \in Sources,
           SourceStep(s, src) \/ StreamFails(s, src)
    PROVE  OwnerInv'
<1>1. UNCHANGED <<retired, aborted, table, loop>>
  BY DEF SourceStep, StreamFails, Wait, Changed, ChooseMode, CheckGate,
         StreamEnds, ModeChanges, Backoff, gate, peers, host
<1>2. \A t \in Sessions : Supervised(t)' => Supervised(t)
  BY NoneStarts
<1> QED
  BY <1>1, <1>2 DEF OwnerInv, InHand

\* The steps that hand a session on.
LEMMA OwnerInvStep ==
    ASSUME TypeOK, LoopInv, OwnerInv, "spawned" \notin Faults,
           LoopStep \/ \E s \in Sessions : TakeOffer(s) \/ TakeClosed(s)
    PROVE  OwnerInv'
<1> USE NoneAssumption DEF RetireSteps, AcceptSteps
<1>0. /\ loop \in LoopStates /\ retired \in [Sessions -> BOOLEAN]
      /\ supervisor \in [Sessions -> [Sources -> SupervisorSteps]]
      /\ table \subseteq Sessions /\ loop.old \in Sessions \cup {None}
      /\ loop.offer \in Sessions \cup {None} /\ loop.rest \subseteq Sessions
  BY DEF TypeOK, HostOK, GateOK, SourcesOK, LoopStates, SessionOrNone
<1>1. ASSUME NEW s \in Sessions, TakeOffer(s) PROVE OwnerInv'
  <2>1. /\ loop.pc = "idle" /\ loop.offer = None /\ loop.old = None /\ loop.rest = {}
        /\ loop'.pc = "next" /\ loop'.old = None /\ loop'.rest = table /\ table' = {}
        /\ UNCHANGED <<retired, aborted, supervisor>>
    BY <1>1 DEF TakeOffer, ReplacedBy, Idle, OwnerInv, LoopInv, gate, peers, sources
  <2>2. InHand' = InHand
    BY <2>1 DEF InHand
  <2> QED
    BY <1>0, <2>1, <2>2 DEF OwnerInv, Supervised
<1>2. ASSUME NEW s \in Sessions, TakeClosed(s) PROVE OwnerInv'
  <2>1. /\ loop.pc = "idle" /\ loop.offer = None /\ loop.old = None /\ loop.rest = {}
        /\ loop'.pc = "next" /\ loop'.offer = None /\ loop'.old = None
        /\ loop'.rest = table \cap {s} /\ table' = table \ {s}
        /\ UNCHANGED <<retired, aborted, supervisor>>
    BY <1>2 DEF TakeClosed, Idle, OwnerInv, LoopInv, gate, peers, sources
  <2>2. InHand' = InHand
    BY <2>1 DEF InHand
  <2> QED
    BY <1>0, <2>1, <2>2 DEF OwnerInv, Supervised
<1>3. ASSUME NEW s \in Sessions, NextToRetire(s) PROVE OwnerInv'
  <2>1. /\ loop.pc = "next" /\ loop.old = None /\ s \in loop.rest
        /\ loop'.pc = "retire" /\ loop'.old = s /\ loop'.rest = loop.rest \ {s}
        /\ loop'.offer = loop.offer
        /\ UNCHANGED <<retired, aborted, supervisor, table>>
    BY <1>0, <1>3 DEF NextToRetire, LoopInv, LoopStates, gate, peers, sources
  <2>2. InHand' = InHand
    BY <2>1 DEF InHand
  <2> QED
    BY <1>0, <2>1, <2>2 DEF OwnerInv, Supervised
<1>4. ASSUME NEW s \in Sessions, Retire(s) \/ RetireShut(s) \/ RetireStop(s)
      PROVE OwnerInv'
  <2>1. /\ loop.pc \in {"retire", "shut", "stop"} /\ loop'.pc \in {"shut", "stop", "close"}
        /\ loop' = [loop EXCEPT !.pc = loop'.pc]
        /\ UNCHANGED <<aborted, supervisor, table>>
        /\ \A t \in Sessions : retired[t] => retired'[t]
    BY <1>0, <1>4 DEF Retire, RetireShut, RetireStop, Goto, LoopStates, peers, sources
  <2>2. InHand' = InHand
    BY <1>0, <2>1 DEF InHand, LoopStates
  <2> QED
    BY <1>0, <2>1, <2>2 DEF OwnerInv, Supervised, LoopStates
<1>5. ASSUME NEW s \in Sessions, RetireClose(s) PROVE OwnerInv'
  <2>1. /\ loop.pc = "close" /\ loop.old = s /\ loop'.pc = "next" /\ loop'.old = None
        /\ loop'.rest = loop.rest /\ loop'.offer = loop.offer
        /\ aborted' = aborted \cup {s}
        /\ UNCHANGED <<retired, supervisor, table>>
    BY <1>0, <1>5 DEF RetireClose, LoopStates, gate, sources
  <2>2. retired[s]
    BY <2>1 DEF LoopInv
  <2>3. InHand' \subseteq InHand /\ InHand \subseteq InHand' \cup {s}
    BY <2>1 DEF InHand
  <2> QED
    BY <1>0, <2>1, <2>2, <2>3 DEF OwnerInv, Supervised
<1>6. ASSUME AllRetired \/ Prepare PROVE OwnerInv'
  <2>1. /\ loop.pc \in {"next", "prepare"} /\ loop'.pc \in {"prepare", "status", "accept"}
        /\ loop.rest = {} /\ loop' = [loop EXCEPT !.pc = loop'.pc]
        /\ UNCHANGED <<retired, aborted, supervisor, table>>
    BY <1>0, <1>6 DEF AllRetired, Prepare, OwnerInv, Goto, LoopStates, gate, peers, sources
  <2>2. InHand' = InHand
    BY <1>0, <2>1 DEF InHand, LoopStates
  <2> QED
    BY <1>0, <2>1, <2>2 DEF OwnerInv, Supervised, LoopStates
<1>7. ASSUME NEW s \in Sessions, OfferFails(s) PROVE OwnerInv'
  <2>1. /\ loop.pc = "accept" /\ loop' = Idle
        /\ UNCHANGED <<retired, aborted, supervisor, table>>
    BY <1>7 DEF OfferFails, gate, sources
  <2>2. loop.rest = {} /\ loop.old = None
    BY <2>1 DEF OwnerInv, LoopInv
  <2>3. InHand' = InHand
    BY <2>1, <2>2 DEF InHand, Idle
  <2> QED
    BY <1>0, <2>1, <2>3 DEF OwnerInv, Supervised, Idle
<1>8. ASSUME AcceptFails PROVE OwnerInv'
  <2>1. /\ loop.pc = "answered" /\ loop' = Idle
        /\ UNCHANGED <<retired, aborted, supervisor, table>>
    BY <1>8 DEF AcceptFails, gate, peers, sources
  <2>2. loop.rest = {} /\ loop.old = None
    BY <2>1 DEF OwnerInv, LoopInv
  <2>3. InHand' = InHand
    BY <2>1, <2>2 DEF InHand, Idle
  <2> QED
    BY <1>0, <2>1, <2>3 DEF OwnerInv, Supervised, Idle
<1>9. ASSUME StatusClosed PROVE OwnerInv'
  <2>1. /\ loop.pc = "status" /\ loop' = Idle
        /\ UNCHANGED <<retired, aborted, supervisor, table>>
    BY <1>9 DEF StatusClosed, gate, peers, sources
  <2>2. loop.rest = {} /\ loop.old = None
    BY <2>1 DEF OwnerInv, LoopInv
  <2>3. InHand' = InHand
    BY <2>1, <2>2 DEF InHand, Idle
  <2> QED
    BY <1>0, <2>1, <2>3 DEF OwnerInv, Supervised, Idle
<1>10. ASSUME NEW s \in Sessions, Answer(s) PROVE OwnerInv'
  <2>1. /\ loop.pc = "accept" /\ loop'.pc = "answered"
        /\ loop' = [loop EXCEPT !.pc = loop'.pc]
        /\ UNCHANGED <<retired, aborted, supervisor, table>>
    BY <1>0, <1>10 DEF Answer, Goto, LoopStates, gate, sources
  <2>2. InHand' = InHand
    BY <1>0, <2>1 DEF InHand, LoopStates
  <2> QED
    BY <1>0, <2>1, <2>2 DEF OwnerInv, Supervised, LoopStates
<1>11. ASSUME NEW s \in Sessions, Spawn(s) PROVE OwnerInv'
  <2>1. /\ loop.pc = "answered" /\ loop'.pc = "spawned" /\ loop.offer = s
        /\ loop' = [loop EXCEPT !.pc = loop'.pc]
        /\ UNCHANGED <<retired, aborted, table>>
    BY <1>0, <1>11 DEF Spawn, Goto, LoopStates, gate, peers
  <2>2. InHand' = InHand /\ loop'.offer = s /\ loop'.rest = loop.rest
    BY <1>0, <2>1 DEF InHand, LoopStates
  <2>3. \A t \in Sessions : Supervised(t)' => t = s \/ Supervised(t)
    BY <1>0, <1>11 DEF Spawn, Supervised
  <2> QED
    BY <1>0, <2>1, <2>2, <2>3 DEF OwnerInv
<1>12. ASSUME NEW s \in Sessions, Insert(s) PROVE OwnerInv'
  <2>1. /\ loop.pc = "spawned" /\ loop.offer = s /\ loop' = Idle
        /\ table' = table \cup {s}
        /\ UNCHANGED <<retired, aborted, supervisor>>
    BY <1>12 DEF Insert, gate, peers, sources
  <2>2. loop.rest = {} /\ loop.old = None /\ table = {}
    BY <2>1 DEF OwnerInv, LoopInv
  <2>3. InHand = {} /\ InHand' = {s}
    BY <2>1, <2>2 DEF InHand, Idle
  <2> QED
    BY <1>0, <2>1, <2>3 DEF OwnerInv, Supervised, Idle
<1> QED
  BY <1>1, <1>2, <1>3, <1>4, <1>5, <1>6, <1>7, <1>8, <1>9, <1>10, <1>11,
     <1>12
     DEF LoopStep

LEMMA OwnerInvNext ==
    ASSUME TypeOK, LoopInv, OwnerInv, "spawned" \notin Faults, [Next]_vars
    PROVE  OwnerInv'
<1>1. CASE LoopStep \/ \E s \in Sessions : TakeOffer(s) \/ TakeClosed(s)
  BY <1>1, OwnerInvStep
<1>2. CASE \E s \in Sessions, src \in Sources : SourceStep(s, src) \/ StreamFails(s, src)
  BY <1>2, OwnerInvSources
<1>3. CASE \/ UNCHANGED vars
           \/ \E s \in Sessions :
                 PeerEvent(s) \/ CallbackStep(s) \/ DriverEnds(s) \/ TileMode(s)
  <2>1. UNCHANGED <<retired, aborted, supervisor, table, loop>>
    BY <1>3 DEF PeerEvent, CallbackStep, OnConnected, OnDisconnected, OnLost, Open, Run,
                Recheck, Report, Shut, Tell, ReportLost, GiveUp, DriverEnds, TileMode,
                vars, gate, peers, sources, host
  <2> QED
    BY <2>1, OwnerInvKept
<1> QED
  BY <1>1, <1>2, <1>3 DEF Next

\* The gate of a session in nobody's hands is shut, and of the others only one
\* has supervisors.
LEMMA OwnersControl ==
    ASSUME TypeOK, LoopInv, GateInv, OwnerInv
    PROVE  SourcesAreControlled
<1> USE NoneAssumption
<1>1. SourcesHaveAnOwner
  BY DEF OwnerInv, SourcesHaveAnOwner, InHand
<1>2. ASSUME NEW s \in Sessions, Capturing(s)
      PROVE  \/ s \in InHand
             \/ s = loop.offer /\ loop.pc = "spawned"
  <2>1. CASE retired[s]
    <3>1. loop.old = s
      BY <1>2, <2>1 DEF GateInv, Capturing
    <3> QED
      BY <3>1 DEF InHand
  <2>2. CASE ~retired[s]
    BY <1>2, <2>2 DEF OwnerInv, Capturing
  <2> QED
    BY <2>1, <2>2
<1>3. loop.pc = "spawned" => InHand = {}
  BY DEF OwnerInv, LoopInv, InHand, RetireSteps, AcceptSteps
<1>4. OneCapture
  BY <1>2, <1>3 DEF OneCapture, OwnerInv
<1> QED
  BY <1>1, <1>4 DEF SourcesAreControlled

\* Unless the input thread cannot start (accept_offer then fails after it
\* spawned the supervisors), every session with supervisors is in the loop's
\* hands or was closed, and no two sessions capture at the same time.
THEOREM CaptureIsControlled ==
    "spawned" \notin Faults => (Spec => []SourcesAreControlled)
<1> SUFFICES ASSUME "spawned" \notin Faults
             PROVE  Spec => []SourcesAreControlled
  OBVIOUS
<1> DEFINE IInv == TypeOK /\ HostInv /\ OwnerInv
<1>1. Init => IInv
  <2> SUFFICES ASSUME Init PROVE OwnerInv
    BY InitTypeOK, InitHostInv
  <2> QED
    BY DEF Init, OwnerInv, Idle, InHand, Supervised
<1>2. IInv /\ [Next]_vars => IInv'
  BY NextTypeOK, HostInvStep, OwnerInvNext DEF HostInv
<1>3. IInv => SourcesAreControlled
  BY OwnersControl DEF HostInv
<1> HIDE DEF IInv
<1> QED
  BY <1>1, <1>2, <1>3, PTL DEF Spec

-----------------------------------------------------------------------------
(* The size of a session's video *)

Positive == Nat \ {0}

LEMMA DivBounds ==
    ASSUME NEW a \in Int, NEW b \in Positive
    PROVE  a \div b \in Int /\ b * (a \div b) <= a /\ a < b * (a \div b) + b
  BY DEF Positive

LEMMA ModIsZero ==
    ASSUME NEW a \in Int, NEW b \in Positive
    PROVE  a % b = 0 <=> a = b * (a \div b)
  BY DEF Positive

LEMMA Evens ==
    ASSUME NEW n \in Int
    PROVE  /\ EvenBelow(n) \in Int /\ EvenBelow(n) % 2 = 0
           /\ EvenBelow(n) <= n /\ n <= EvenBelow(n) + 1
  BY DEF EvenBelow

\* A size that is to be even, and at least two
LEMMA EvenSize ==
    ASSUME NEW n \in Int
    PROVE  /\ Even(n) \in Nat /\ Even(n) % 2 = 0 /\ Even(n) >= 2 /\ Even(n) + 1 >= n
           /\ Even(n) <= More(2, n)
           /\ Even(n) > 2 => Even(n) <= n
  BY DEF Even, More

\* Ratios are ordered.
Ratio == [n : Positive, d : Positive]

LEMMA Smallest ==
    ASSUME NEW a \in Ratio, NEW b \in Ratio, NEW c \in Ratio, NEW d \in Ratio, NEW e \in Ratio
    PROVE  LET ratios == {a, b, c, d, e}
           IN \E r \in ratios : \A q \in ratios : AtMost(r, q)
  <1>1. \A p, q \in Ratio : AtMost(p, q) \/ AtMost(q, p)
    BY DEF AtMost, Ratio, Positive
  <1>2. ASSUME NEW p \in Ratio, NEW q \in Ratio, NEW r \in Ratio, AtMost(p, q), AtMost(q, r)
        PROVE  AtMost(p, r)
    <2>1. p.n * q.d <= q.n * p.d /\ q.n * r.d <= r.n * q.d
      BY <1>2 DEF AtMost
    <2> DEFINE pn == p.n  pd == p.d  qn == q.n  qd == q.d  rn == r.n  rd == r.d
    <2>2. pn \in Positive /\ pd \in Positive /\ qn \in Positive /\ qd \in Positive /\ rn \in Positive /\ rd \in Positive
      BY DEF Ratio
    <2>3. pn * qd <= qn * pd /\ qn * rd <= rn * qd
      BY <2>1
    <2> HIDE DEF pn, pd, qn, qd, rn, rd
    <2>4. pn * qd * rd <= qn * pd * rd /\ qn * rd * pd <= rn * qd * pd
      BY <2>2, <2>3 DEF Positive
    <2>5. (pn * rd) * qd <= (rn * pd) * qd
      BY <2>2, <2>4 DEF Positive
    <2>6. pn * rd <= rn * pd
      BY <2>2, <2>5 DEF Positive
    <2>. QED  BY <2>6 DEF AtMost, pn, pd, rn, rd
  <1>3. \A p \in Ratio : AtMost(p, p)
    BY <1>1
  <1> HIDE DEF AtMost
  <1>4. PICK x \in {a, b} : AtMost(x, a) /\ AtMost(x, b)
    BY <1>1, <1>3
  <1>5. PICK y \in {x, c} : AtMost(y, x) /\ AtMost(y, c)
    BY <1>1, <1>3, <1>4
  <1>6. PICK z \in {y, d} : AtMost(z, y) /\ AtMost(z, d)
    BY <1>1, <1>3, <1>4, <1>5
  <1>7. PICK w \in {z, e} : AtMost(w, z) /\ AtMost(w, e)
    BY <1>1, <1>3, <1>4, <1>5, <1>6
  <1>8. x \in Ratio /\ y \in Ratio /\ z \in Ratio /\ w \in Ratio
    BY <1>4, <1>5, <1>6, <1>7
  <1>9. AtMost(w, y) /\ AtMost(w, x)
    BY <1>2, <1>5, <1>6, <1>7, <1>8
  <1>10. AtMost(w, a) /\ AtMost(w, b) /\ AtMost(w, c) /\ AtMost(w, d) /\ AtMost(w, e)
    BY <1>2, <1>4, <1>5, <1>6, <1>7, <1>8, <1>9
  <1>. QED  BY <1>4, <1>5, <1>6, <1>7, <1>10

\* A scaled size: the floor of the product, or one less where that is exact.
LEMMA FloorBounds ==
    ASSUME NEW s \in Positive, NEW r \in Ratio, NEW f \in Floors(s, r)
    PROVE  /\ f \in Int /\ f * r.d <= s * r.n /\ s * r.n < (f + 2) * r.d
           /\ s * r.n <= (f + 1) * r.d
  <1> DEFINE n == r.n  d == r.d  q == (s * n) \div d
  <1>1. n \in Positive /\ d \in Positive
    BY DEF Ratio
  <1>2. f = q \/ (f = q - 1 /\ (s * n) % d = 0)
    BY DEF Floors
  <1> HIDE DEF n, d
  <1>3. s * n \in Int
    BY <1>1 DEF Positive
  <1>4. q \in Int /\ d * q <= s * n /\ s * n < d * q + d
    BY <1>1, <1>3, DivBounds
  <1>5. (s * n) % d = 0 => s * n = d * q
    BY <1>1, <1>3, ModIsZero
  <1> HIDE DEF q
  <1>6. ASSUME f = q
        PROVE  f \in Int /\ f * d <= s * n /\ s * n < (f + 2) * d /\ s * n <= (f + 1) * d
    <2>1. f * d = d * q /\ (f + 1) * d = d * q + d /\ (f + 2) * d = d * q + 2 * d
      BY <1>1, <1>4, <1>6 DEF Positive
    <2>2. d * q \in Int
      BY <1>1, <1>4 DEF Positive
    <2>. QED  BY <1>1, <1>3, <1>4, <1>6, <2>1, <2>2 DEF Positive
  <1>7. ASSUME f = q - 1, s * n = d * q
        PROVE  f \in Int /\ f * d <= s * n /\ s * n < (f + 2) * d /\ s * n <= (f + 1) * d
    <2>1. f * d = s * n - d /\ (f + 1) * d = s * n /\ (f + 2) * d = s * n + d
      BY <1>1, <1>4, <1>7 DEF Positive
    <2>. QED  BY <1>1, <1>3, <1>4, <1>7, <2>1 DEF Positive
  <1>8. f \in Int /\ f * d <= s * n /\ s * n < (f + 2) * d /\ s * n <= (f + 1) * d
    BY <1>2, <1>5, <1>6, <1>7
  <1>. QED  BY <1>8 DEF n, d

-----------------------------------------------------------------------------
(* for_viewport *)

\* What a configuration is: a ceiling that is the display, or below it.
IsConfig(c) ==
    /\ c \in [w : Positive, h : Positive, cw : Positive, ch : Positive, bitrate : Positive]
    /\ c.bitrate = Bitrate

LEMMA ScaleIsSmallest ==
    ASSUME NEW c, IsConfig(c), NEW v \in [w : Positive, h : Positive]
    PROVE  LET scale == Scale(c, v)
               ratios == {[n |-> v.w, d |-> c.cw], [n |-> v.h, d |-> c.ch],
                          [n |-> c.w, d |-> c.cw], [n |-> c.h, d |-> c.ch], [n |-> 1, d |-> 1]}
           IN scale \in Ratio /\ scale \in ratios /\ \A q \in ratios : AtMost(scale, q)
  <1> DEFINE ratios == {[n |-> v.w, d |-> c.cw], [n |-> v.h, d |-> c.ch],
                        [n |-> c.w, d |-> c.cw], [n |-> c.h, d |-> c.ch], [n |-> 1, d |-> 1]}
             Least(r) == \A q \in ratios : AtMost(r, q)
  <1>1. /\ [n |-> v.w, d |-> c.cw] \in Ratio /\ [n |-> v.h, d |-> c.ch] \in Ratio
        /\ [n |-> c.w, d |-> c.cw] \in Ratio /\ [n |-> c.h, d |-> c.ch] \in Ratio
        /\ [n |-> 1, d |-> 1] \in Ratio
    BY DEF IsConfig, Ratio, Positive
  <1>2. \E r \in ratios : Least(r)
    BY <1>1, Smallest
  <1>3. Scale(c, v) = CHOOSE r \in ratios : Least(r)
    BY DEF Scale
  <1>4. ratios \subseteq Ratio
    BY <1>1
  <1> HIDE DEF ratios, Least
  <1>5. Scale(c, v) \in ratios /\ Least(Scale(c, v))
    BY <1>2, <1>3
  <1>6. Scale(c, v) \in Ratio
    BY <1>4, <1>5
  <1>. QED  BY <1>5, <1>6 DEF ratios, Least

\* One side of the stream: n/d is the scale, s what is captured, m the ceiling and
\* v the viewport.
LEMMA SideFits ==
    ASSUME NEW s \in Positive, NEW m \in Positive, NEW v \in Positive, NEW r \in Ratio,
           AtMost(r, [n |-> v, d |-> s]), AtMost(r, [n |-> m, d |-> s]),
           AtMost(r, [n |-> 1, d |-> 1]),
           NEW f \in Floors(s, r)
    PROVE  Even(f) <= More(2, Less(v, Less(m, s)))
  <1> DEFINE n == r.n  d == r.d
  <1>1. n \in Positive /\ d \in Positive /\ n * s <= v * d /\ n * s <= m * d /\ n <= d
    BY DEF AtMost, Ratio, Positive
  <1>2. f \in Int /\ f * d <= s * n
    BY FloorBounds
  <1> HIDE DEF n, d
  <1>3. s * n <= s * d
    BY <1>1 DEF Positive
  <1>4. f * d <= v * d /\ f * d <= m * d /\ f * d <= s * d
    BY <1>1, <1>2, <1>3 DEF Positive
  <1>5. f <= v /\ f <= m /\ f <= s
    BY <1>1, <1>2, <1>4 DEF Positive
  <1>6. Even(f) <= More(2, f)
    BY <1>2, EvenSize
  <1>. QED  BY <1>2, <1>5, <1>6, EvenSize DEF More, Less, Positive

\* The side that decides the scale is used up.
LEMMA SideIsUsed ==
    ASSUME NEW s \in Positive, NEW b \in Positive, NEW f \in Floors(s, [n |-> b, d |-> s])
    PROVE  Even(f) + 4 > b
  <1>1. [n |-> b, d |-> s] \in Ratio
    BY DEF Ratio
  <1>2. f \in Int /\ s * b <= (f + 1) * s
    BY <1>1, FloorBounds
  <1>3. b <= f + 1
    BY <1>2 DEF Positive
  <1>4. Even(f) \in Nat /\ Even(f) + 1 >= f
    BY <1>2, EvenSize
  <1>. QED  BY <1>2, <1>3, <1>4 DEF Positive

LEMMA WholeIsUsed ==
    ASSUME NEW s \in Positive, NEW f \in Floors(s, [n |-> 1, d |-> 1])
    PROVE  Even(f) + 4 > s
  <1>1. [n |-> 1, d |-> 1] \in Ratio
    BY DEF Ratio, Positive
  <1>2. f \in Int /\ s * 1 <= (f + 1) * 1
    BY <1>1, FloorBounds
  <1>4. Even(f) \in Nat /\ Even(f) + 1 >= f
    BY <1>2, EvenSize
  <1>. QED  BY <1>2, <1>4 DEF Positive

\* Neither side is longer, against the other, than rounding makes it.
LEMMA AspectKept ==
    ASSUME NEW s \in Positive, NEW t \in Positive, NEW r \in Ratio,
           NEW f \in Floors(s, r), NEW g \in Floors(t, r), Even(f) > 2
    PROVE  Even(f) * t <= (Even(g) + 3) * s
  <1> DEFINE n == r.n  d == r.d  e == Even(f)  k == Even(g)
  <1>1. n \in Positive /\ d \in Positive
    BY DEF Ratio
  <1>2. f \in Int /\ g \in Int /\ f * d <= s * n /\ t * n <= (g + 1) * d
    BY FloorBounds
  <1>3. e \in Nat /\ e <= f /\ k \in Nat /\ g <= k + 1
    BY <1>2, EvenSize
  <1> HIDE DEF n, d, e, k
  <1>4. e * d <= s * n
    <2>1. e * d <= f * d
      BY <1>1, <1>2, <1>3 DEF Positive
    <2>. QED  BY <1>1, <1>2, <1>3, <2>1 DEF Positive
  <1>5. t * n <= (k + 3) * d
    <2>1. (g + 1) * d <= (k + 3) * d
      BY <1>1, <1>2, <1>3 DEF Positive
    <2>. QED  BY <1>1, <1>2, <1>3, <2>1 DEF Positive
  <1>6. (e * d) * t <= (s * n) * t
    BY <1>1, <1>3, <1>4 DEF Positive
  <1>7. (t * n) * s <= ((k + 3) * d) * s
    BY <1>1, <1>3, <1>5 DEF Positive
  <1>8. (e * t) * d <= ((k + 3) * s) * d
    <2>1. (s * n) * t = (t * n) * s /\ (e * d) * t = (e * t) * d
          /\ ((k + 3) * d) * s = ((k + 3) * s) * d
      BY <1>1, <1>3 DEF Positive
    <2>2. (e * d) * t \in Int /\ (t * n) * s \in Int /\ ((k + 3) * d) * s \in Int
      BY <1>1, <1>3 DEF Positive
    <2>. QED  BY <1>6, <1>7, <2>1, <2>2
  <1>9. e * t <= (k + 3) * s
    BY <1>1, <1>3, <1>8 DEF Positive
  <1>. QED  BY <1>9 DEF e, k

LEMMA SessionFits ==
    ASSUME NEW c, IsConfig(c), NEW v \in [w : Positive, h : Positive], NEW s \in ForViewport(c, v)
    PROVE  /\ s \in [w : Nat, h : Nat, cw : Positive, ch : Positive, bitrate : Positive]
           /\ Fits(s, c, v)
  <1> DEFINE r == Scale(c, v)
  <1>1. /\ r \in Ratio
        /\ r \in {[n |-> v.w, d |-> c.cw], [n |-> v.h, d |-> c.ch],
                  [n |-> c.w, d |-> c.cw], [n |-> c.h, d |-> c.ch], [n |-> 1, d |-> 1]}
        /\ AtMost(r, [n |-> v.w, d |-> c.cw]) /\ AtMost(r, [n |-> v.h, d |-> c.ch])
        /\ AtMost(r, [n |-> c.w, d |-> c.cw]) /\ AtMost(r, [n |-> c.h, d |-> c.ch])
        /\ AtMost(r, [n |-> 1, d |-> 1])
    BY ScaleIsSmallest
  <1>2. v.w \in Positive /\ v.h \in Positive /\ c.w \in Positive /\ c.h \in Positive
        /\ c.cw \in Positive /\ c.ch \in Positive /\ c.bitrate = Bitrate /\ Bitrate \in Positive
        /\ LeastBitrate \in Positive
    BY VideoAssumption DEF IsConfig, Positive
  <1>3. PICK f \in Floors(c.cw, r), g \in Floors(c.ch, r) :
           s = Resized(c, Even(f), Even(g))
    <2>1. ~(v.w = 0 \/ v.h = 0)
      BY <1>2 DEF Positive
    <2>. QED  BY <2>1 DEF ForViewport
  <1> HIDE DEF r
  <1>4. f \in Int /\ g \in Int
    BY <1>1, <1>2, FloorBounds
  <1> DEFINE b == BitrateFor(c, Even(f), Even(g))
  <1>5. b \in Less(Bitrate, LeastBitrate)..Bitrate /\ b \in Positive
    <2> DEFINE x == CeilDiv(c.bitrate * Even(f) * Even(g), c.w * c.h)
    <2>1. Even(f) \in Nat /\ Even(g) \in Nat
      BY <1>4, EvenSize
    <2>2. c.w * c.h \in Positive /\ c.bitrate * Even(f) * Even(g) \in Int
      BY <1>2, <2>1 DEF Positive
    <2>3. x \in Int
      <3>1. c.bitrate * Even(f) * Even(g) + c.w * c.h - 1 \in Int
        BY <2>2 DEF Positive
      <3>. QED  BY <2>2, <3>1, DivBounds DEF CeilDiv
    <2>4. b = Less(More(x, Less(Bitrate, LeastBitrate)), Bitrate)
      BY <1>2 DEF BitrateFor
    <2> HIDE DEF x, b
    <2>. QED  BY <1>2, <2>3, <2>4 DEF Less, More, Positive
  <1> HIDE DEF b
  <1>6. s.w = Even(f) /\ s.h = Even(g) /\ s.bitrate = b /\ s.cw = c.cw /\ s.ch = c.ch
        /\ s \in [w : Nat, h : Nat, cw : Positive, ch : Positive, bitrate : Positive]
    BY <1>2, <1>3, <1>4, <1>5, EvenSize DEF IsConfig, Resized, b
  <1>7. s.w \in Nat /\ s.w % 2 = 0 /\ s.w >= 2 /\ s.h \in Nat /\ s.h % 2 = 0 /\ s.h >= 2
    BY <1>4, <1>6, EvenSize
  <1>8. s.w <= More(2, Less(v.w, Less(c.w, c.cw))) /\ s.h <= More(2, Less(v.h, Less(c.h, c.ch)))
    BY <1>1, <1>2, <1>3, <1>6, SideFits
  <1>9. s.w + 4 > Less(v.w, Less(c.w, c.cw)) \/ s.h + 4 > Less(v.h, Less(c.h, c.ch))
    <2>1. CASE r = [n |-> v.w, d |-> c.cw]
      <3>1. s.w + 4 > v.w
        BY <1>2, <1>3, <1>6, <2>1, SideIsUsed
      <3>. QED  BY <1>2, <1>7, <3>1 DEF Less, Positive
    <2>2. CASE r = [n |-> c.w, d |-> c.cw]
      <3>1. s.w + 4 > c.w
        BY <1>2, <1>3, <1>6, <2>2, SideIsUsed
      <3>. QED  BY <1>2, <1>7, <3>1 DEF Less, Positive
    <2>3. CASE r = [n |-> v.h, d |-> c.ch]
      <3>1. s.h + 4 > v.h
        BY <1>2, <1>3, <1>6, <2>3, SideIsUsed
      <3>. QED  BY <1>2, <1>7, <3>1 DEF Less, Positive
    <2>4. CASE r = [n |-> c.h, d |-> c.ch]
      <3>1. s.h + 4 > c.h
        BY <1>2, <1>3, <1>6, <2>4, SideIsUsed
      <3>. QED  BY <1>2, <1>7, <3>1 DEF Less, Positive
    <2>5. CASE r = [n |-> 1, d |-> 1]
      <3>1. s.w + 4 > c.cw
        BY <1>2, <1>3, <1>6, <2>5, WholeIsUsed
      <3>. QED  BY <1>2, <1>7, <3>1 DEF Less, Positive
    <2>. QED  BY <1>1, <2>1, <2>2, <2>3, <2>4, <2>5
  <1>10. s.w > 2 => s.w * c.ch <= (s.h + 3) * c.cw
    BY <1>1, <1>2, <1>3, <1>6, AspectKept
  <1>11. s.h > 2 => s.h * c.cw <= (s.w + 3) * c.ch
    BY <1>1, <1>2, <1>3, <1>6, AspectKept
  <1>12. /\ {s.w % 2, s.h % 2} = {0}
         /\ s.w \in 2..More(2, Less(v.w, Less(c.w, c.cw)))
         /\ s.h \in 2..More(2, Less(v.h, Less(c.h, c.ch)))
         /\ s.bitrate \in Less(Bitrate, LeastBitrate)..Bitrate
    <2>1. More(2, Less(v.w, Less(c.w, c.cw))) \in Int /\ More(2, Less(v.h, Less(c.h, c.ch))) \in Int
      BY <1>2 DEF More, Less, Positive
    <2>. QED  BY <1>5, <1>6, <1>7, <1>8, <2>1
  <1>. QED  BY <1>6, <1>9, <1>10, <1>11, <1>12 DEF Fits

LEMMA ConfigsAreConfigs == \A c \in Configs : IsConfig(c)
  <1>1. Edges \subseteq Positive /\ MaxWidths \subseteq Positive /\ Bitrate \in Positive
    BY VideoAssumption DEF Positive
  <1>2. ASSUME NEW display \in Displays, NEW limit \in MaxWidths \cup {0}
        PROVE  LET size == StreamDimensions(display, limit)
               IN size.w \in Nat /\ size.h \in Nat
    <2>1. display.w \in Positive /\ display.h \in Positive /\ limit \in Nat
      <3>1. display.w \in Edges /\ display.h \in Edges
        BY DEF Displays
      <3>2. limit \in Positive \/ limit = 0
        BY <1>1
      <3>3. limit \in Nat
        BY <3>2 DEF Positive
      <3>. QED  BY <1>1, <3>1, <3>3
    <2>2. CASE limit = 0 \/ display.w <= limit
      BY <2>1, <2>2 DEF StreamDimensions, Positive
    <2>3. CASE ~(limit = 0 \/ display.w <= limit)
      <3> DEFINE x == (display.h * limit) \div display.w
      <3>1. x \in Int
        BY <2>1, DivBounds DEF Positive
      <3>2. StreamDimensions(display, limit) = [w |-> EvenBelow(limit), h |-> EvenBelow(More(2, x))]
        BY <2>3 DEF StreamDimensions
      <3> HIDE DEF x
      <3>3. EvenBelow(limit) \in Nat /\ EvenBelow(More(2, x)) \in Nat
        BY <2>1, <3>1 DEF EvenBelow, More
      <3>. QED  BY <3>2, <3>3
    <2>. QED  BY <2>2, <2>3
  <1>3. ASSUME NEW display \in Displays, NEW limit \in MaxWidths \cup {0},
               Loads(Config(StreamDimensions(display, limit), display))
        PROVE  IsConfig(Config(StreamDimensions(display, limit), display))
    <2>1. display.w \in Positive /\ display.h \in Positive
      BY <1>1 DEF Displays
    <2>. QED  BY <1>1, <1>2, <1>3, <2>1 DEF Config, Loads, IsConfig, Positive
  <1>4. ASSUME NEW c, IsConfig(c), NEW display \in Displays
        PROVE  IsConfig(WithDisplaySize(c, display))
    <2>1. display.w \in Positive /\ display.h \in Positive
      BY <1>1 DEF Displays
    <2>2. CASE display.w < 2 \/ display.h < 2
      BY <1>4, <2>2 DEF WithDisplaySize
    <2>3. CASE ~(display.w < 2 \/ display.h < 2)
      <3>1. EvenBelow(display.w) \in Positive /\ EvenBelow(display.h) \in Positive
        BY <2>1, <2>3 DEF EvenBelow, Positive
      <3>. QED  BY <1>4, <2>1, <2>3, <3>1 DEF WithDisplaySize, IsConfig
    <2>. QED  BY <2>2, <2>3
  <1>. QED  BY <1>3, <1>4 DEF Configs

LEMMA DisplaysArePositive == Displays \subseteq [w : Positive, h : Positive]
  BY VideoAssumption DEF Displays, Positive

\* Every stream fits, whatever the display, the limit and the viewport.
LEMMA ViewportsAlwaysFit == ViewportsFit
  BY ConfigsAreConfigs, DisplaysArePositive, SessionFits DEF ViewportsFit, AllSessionsFit

-----------------------------------------------------------------------------
(* interaction_video *)

LEMMA LimitBounds ==
    ASSUME NEW side \in Positive, NEW longest \in Positive, NEW limit \in Nat, side <= longest,
           limit >= 2, limit < longest
    PROVE  LET i == ToLimit(side, longest, limit)
           IN /\ i \in Nat /\ i % 2 = 0 /\ i >= 2 /\ i <= limit /\ i <= More(side, 2)
              /\ i > 2 => i * longest <= side * limit
              /\ side * limit <= (i + 2) * longest
  <1> DEFINE q == (side * limit) \div longest  e == EvenBelow(q)  i == ToLimit(side, longest, limit)
  <1>1. side * limit \in Int
    BY DEF Positive
  <1>2. q \in Int /\ longest * q <= side * limit /\ side * limit < longest * q + longest
    BY <1>1, DivBounds
  <1> HIDE DEF q
  <1>3. e \in Int /\ e % 2 = 0 /\ e <= q /\ q <= e + 1
    BY <1>2, Evens
  <1>4. i = More(e, 2)
    BY DEF ToLimit, q
  <1> HIDE DEF e, i
  <1>5. q <= limit
    <2>1. side * limit <= longest * limit
      BY DEF Positive
    <2>2. longest * q <= longest * limit
      BY <1>1, <1>2, <2>1 DEF Positive
    <2>. QED  BY <1>2, <2>2 DEF Positive
  <1>6. q <= side
    <2>1. side * limit <= longest * side
      BY DEF Positive
    <2>2. longest * q <= longest * side
      BY <1>1, <1>2, <2>1 DEF Positive
    <2>. QED  BY <1>2, <2>2 DEF Positive
  <1>7. i \in Nat /\ i % 2 = 0 /\ i >= 2 /\ i <= limit /\ i <= More(side, 2)
    BY <1>2, <1>3, <1>4, <1>5, <1>6 DEF More, Positive
  <1>8. i > 2 => i * longest <= side * limit
    <2>1. ASSUME i > 2 PROVE i * longest <= longest * q
      BY <1>2, <1>3, <1>4, <2>1 DEF More, Positive
    <2>. QED  BY <1>1, <1>2, <1>7, <2>1 DEF Positive
  <1>9. side * limit <= (i + 2) * longest
    <2>1. q + 1 <= i + 2
      BY <1>2, <1>3, <1>4 DEF More
    <2>2. (q + 1) * longest <= (i + 2) * longest
      BY <1>2, <1>7, <2>1 DEF Positive
    <2>3. (q + 1) * longest = longest * q + longest
      BY <1>2 DEF Positive
    <2>. QED  BY <1>1, <1>2, <1>7, <2>2, <2>3 DEF Positive
  <1>. QED  BY <1>7, <1>8, <1>9 DEF i

\* The aspect after the reduction
LEMMA ReducedAspect ==
    ASSUME NEW a \in Positive, NEW b \in Positive, NEW longest \in Positive, NEW limit \in Nat,
           NEW i \in Nat, NEW k \in Nat,
           i * longest <= a * limit, b * limit <= (k + 2) * longest
    PROVE  i * b <= (k + 2) * a
  <1>1. (i * longest) * b <= (a * limit) * b
    BY DEF Positive
  <1>2. (b * limit) * a <= ((k + 2) * longest) * a
    BY DEF Positive
  <1>3. (i * longest) * b = (i * b) * longest /\ (a * limit) * b = (b * limit) * a
        /\ ((k + 2) * longest) * a = ((k + 2) * a) * longest
    BY DEF Positive
  <1>4. (i * b) * longest <= ((k + 2) * a) * longest
    <2>1. (i * longest) * b \in Int /\ (b * limit) * a \in Int /\ ((k + 2) * longest) * a \in Int
      BY DEF Positive
    <2>. QED  BY <1>1, <1>2, <1>3, <2>1
  <1>. QED  BY <1>4 DEF Positive

Session == [w : Nat, h : Nat, cw : Positive, ch : Positive, bitrate : Positive]

LEMMA ReductionFits ==
    ASSUME NEW s \in Session, s.w % 2 = 0, s.w >= 2, s.h % 2 = 0, s.h >= 2,
           NEW limit \in InteractionEdges
    PROVE  Reduced(InteractionVideo(s, limit), s, limit)
  <1> DEFINE i == InteractionVideo(s, limit)  longest == More(s.w, s.h)
  <1>1. limit \in Nat /\ limit >= 2 /\ InteractionBitrate \in Positive
    BY VideoAssumption DEF Positive
  <1>2. s.w \in Positive /\ s.h \in Positive /\ longest \in Positive /\ s.w <= longest
        /\ s.h <= longest /\ (longest = s.w \/ longest = s.h) /\ s.bitrate \in Positive
    BY DEF Session, More, Positive
  <1>3. Less(s.bitrate, InteractionBitrate) \in Positive
        /\ Less(s.bitrate, InteractionBitrate) <= InteractionBitrate
        /\ Less(Less(s.bitrate, InteractionBitrate), InteractionBitrate)
              = Less(s.bitrate, InteractionBitrate)
    BY <1>1, <1>2 DEF Less, Positive
  <1>4. ASSUME NEW t \in Session, t.w <= limit, t.h <= limit,
               t.bitrate = Less(s.bitrate, InteractionBitrate)
        PROVE  InteractionVideo(t, limit) = t
    <2>1. ~(More(t.w, t.h) > limit)
      BY <1>1, <1>4 DEF Session, More
    <2>. QED  BY <1>3, <1>4, <2>1 DEF InteractionVideo, Session
  <1>5. CASE longest > limit
    <2> DEFINE a == ToLimit(s.w, longest, limit)  b == ToLimit(s.h, longest, limit)
    <2>1. /\ a \in Nat /\ a % 2 = 0 /\ a >= 2 /\ a <= limit /\ a <= More(s.w, 2)
          /\ a > 2 => a * longest <= s.w * limit
          /\ s.w * limit <= (a + 2) * longest
      BY <1>1, <1>2, <1>5, LimitBounds
    <2>2. /\ b \in Nat /\ b % 2 = 0 /\ b >= 2 /\ b <= limit /\ b <= More(s.h, 2)
          /\ b > 2 => b * longest <= s.h * limit
          /\ s.h * limit <= (b + 2) * longest
      BY <1>1, <1>2, <1>5, LimitBounds
    <2>3. i = [[[s EXCEPT !.w = a] EXCEPT !.h = b]
                  EXCEPT !.bitrate = Less(s.bitrate, InteractionBitrate)]
      BY <1>5 DEF InteractionVideo, Session
    <2> HIDE DEF a, b, longest, i
    <2>4. i \in Session /\ i.w = a /\ i.h = b /\ i.bitrate = Less(s.bitrate, InteractionBitrate)
      BY <1>3, <2>1, <2>2, <2>3 DEF Session
    <2>5. a <= s.w /\ b <= s.h
      BY <1>2, <2>1, <2>2 DEF More, Positive
    <2>6. a > 2 => a * s.h <= (b + 2) * s.w
      BY <1>1, <1>2, <2>1, <2>2, ReducedAspect
    <2>7. b > 2 => b * s.w <= (a + 2) * s.h
      BY <1>1, <1>2, <2>1, <2>2, ReducedAspect
    <2>8. InteractionVideo(i, limit) = i
      BY <1>4, <2>1, <2>2, <2>4
    <2>9. Reduced(i, s, limit)
      BY <1>3, <2>1, <2>2, <2>4, <2>5, <2>6, <2>7, <2>8 DEF Reduced
    <2>. QED  BY <2>9 DEF i
  <1>6. CASE ~(longest > limit)
    <2>1. i = [s EXCEPT !.bitrate = Less(s.bitrate, InteractionBitrate)]
      BY <1>6 DEF InteractionVideo
    <2>2. s.w <= limit /\ s.h <= limit
      BY <1>1, <1>2, <1>6 DEF Positive
    <2> HIDE DEF i, longest
    <2>3. i \in Session /\ i.w = s.w /\ i.h = s.h /\ i.bitrate = Less(s.bitrate, InteractionBitrate)
      BY <1>3, <2>1 DEF Session
    <2>4. InteractionVideo(i, limit) = i
      BY <1>4, <2>2, <2>3
    <2>5. s.w * s.h <= (s.h + 2) * s.w /\ s.h * s.w <= (s.w + 2) * s.h
      BY <1>2 DEF Positive
    <2>6. Reduced(i, s, limit)
      BY <1>2, <1>3, <2>2, <2>3, <2>4, <2>5 DEF Reduced, Positive
    <2>. QED  BY <2>6 DEF i
  <1>. QED  BY <1>5, <1>6

LEMMA ReductionsAlwaysFit == ReductionsFit
  <1> SUFFICES ASSUME NEW c \in Configs, NEW v \in Displays, NEW limit \in InteractionEdges,
                      NEW s \in ForViewport(c, v)
               PROVE  Reduced(InteractionVideo(s, limit), s, limit)
    BY DEF ReductionsFit, AllInteractionFits
  <1>1. s \in Session /\ Fits(s, c, v)
    BY ConfigsAreConfigs, DisplaysArePositive, SessionFits DEF Session
  <1>2. s.w % 2 = 0 /\ s.h % 2 = 0 /\ s.w >= 2 /\ s.h >= 2
    BY <1>1 DEF Fits
  <1>. QED  BY <1>1, <1>2, ReductionFits

\* For every size of display and viewport, every limit and bitrate, and whichever
\* way a scaled size is rounded: the stream of a session fits, and so does the
\* reduced one (for_viewport, interaction_video).
THEOREM StreamsAlwaysFit == Spec => []StreamsFit
<1>1. StreamsFit
  BY ViewportsAlwaysFit, ReductionsAlwaysFit DEF StreamsFit
<1> QED
  BY <1>1, PTL
=============================================================================
