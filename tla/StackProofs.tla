------------------------------ MODULE StackProofs ------------------------------
(* Stack for any number of launchers, panels and faults: one launcher runs *)
(* services, a stop ends what ran when it began, and the panel closes only *)
(* when nothing is left.                                                   *)
EXTENDS Stack, FiniteSetTheorems, SequenceTheorems, TLAPS

-----------------------------------------------------------------------------
(* Steps of a launcher *)

LEMMA OrderFacts ==
    /\ Services \subseteq {"turn", "signaling", "host"} /\ "host" \in Services
    /\ Len(Order) \in Nat /\ Len(Order) > 0
    /\ \A n \in 1..Len(Order) : Order[n] \in Services
    /\ Order[1] \in Services
  <1>1. Order \in Seq({"turn", "signaling", "host"}) /\ Len(Order) > 0
        /\ Order[Len(Order)] = "host"
    BY StackBounds DEF StackBounds
  <1>2. Len(Order) \in Nat /\ \A n \in 1..Len(Order) : Order[n] \in {"turn", "signaling", "host"}
    BY <1>1, LenProperties, ElementOfSeq
  <1>3. Len(Order) \in 1..Len(Order) /\ 1 \in 1..Len(Order)
    BY <1>1, <1>2
  <1>. QED  BY <1>1, <1>2, <1>3 DEF Services

LEMMA Bounds ==
    /\ MaxLaunchers \in Nat /\ MaxPanels \in Nat /\ MaxFaults \in Nat
    /\ None \notin Nat /\ Launchers \subseteq Nat /\ None \notin Launchers
  BY StackBounds DEF StackBounds, Launchers

\* Before a launcher is published, and while its services may run
Stopping == {"waiting", "killing", "ending"}
Running == Services \cup {"opening", "watching", "supervising", "stopping"}

LEMMA StepNames ==
    /\ Published = Running \cup {"probing"} /\ Running \subseteq Published
    /\ Published \subseteq Steps /\ Ended \subseteq Steps
    /\ \A s \in Published : s \notin Ended \cup Stopping \cup {"reading", "publishing"}
    /\ \A s \in Running : s # "probing"
    /\ Stopping \cup {"reading", "publishing"} \subseteq Steps
    /\ \A s \in Stopping \cup {"reading", "publishing"} : s \notin Ended
    /\ \A s \in Running : s \in Services \/ s \in {"opening", "watching", "supervising", "stopping"}
  <1>1. \A s \in Services : s \in {"turn", "signaling", "host"}
    BY OrderFacts
  <1>. QED  BY <1>1 DEF Published, Running, Steps, Ended, Stopping

-----------------------------------------------------------------------------
(* Types *)

Panel == [number : 0..MaxPanels, state : {"none", "up", "closing"},
          helper : Launchers \cup {None}, children : SUBSET Launchers]

CountType    == started \in 0..MaxLaunchers /\ faults \in 0..MaxFaults
LauncherType == pc \in [Launchers -> Steps] /\ kind \in [Launchers -> Kinds]
HeldType     == /\ target \in [Launchers -> Launchers \cup {None}]
                /\ handles \in [Launchers -> SUBSET (Launchers \X Services)]
                /\ found \in [Launchers -> SUBSET Launchers]
                /\ watched \in [Launchers -> 0..MaxPanels]
ServiceType  == service \in [Launchers -> [Services -> {"none", "starting", "up"}]]
FileType     == marker \in SUBSET Launchers /\ {supervisor, status} \subseteq Launchers \cup {None}
PanelType    == panel \in Panel /\ (panel.state = "closing" <=> panel.helper # None)

LEMMA TypeParts ==
    TypeOK <=> /\ CountType /\ LauncherType /\ HeldType /\ ServiceType /\ FileType /\ PanelType
               /\ overlapped \in BOOLEAN
  BY DEF TypeOK, CountType, LauncherType, HeldType, ServiceType, FileType, PanelType, Panel

LEMMA NextTypes ==
    CountType' /\ LauncherType' /\ HeldType' /\ ServiceType' /\ FileType' /\ PanelType'
        /\ overlapped' \in BOOLEAN => TypeOK'
  BY DEF TypeOK, CountType, LauncherType, HeldType, ServiceType, FileType, PanelType, Panel

LEMMA TypeInit == Init => TypeOK
  <1> SUFFICES ASSUME Init PROVE TypeOK
    OBVIOUS
  <1>1. CountType
    BY Bounds DEF Init, CountType
  <1>2. LauncherType
    BY DEF Init, LauncherType, Steps, Ended, Kinds
  <1>3. HeldType
    BY Bounds DEF Init, HeldType
  <1>4. ServiceType
    BY DEF Init, ServiceType, NoService
  <1>5. FileType /\ PanelType
    BY Bounds DEF Init, FileType, PanelType, Panel
  <1>. QED  BY <1>1, <1>2, <1>3, <1>4, <1>5, TypeParts DEF Init

LEMMA GoType == ASSUME TypeOK, NEW l, NEW step \in Steps, Go(l, step)
                PROVE  pc' \in [Launchers -> Steps]
  BY DEF TypeOK, Go

LEMMA NextLauncher ==
    ASSUME TypeOK, NEW k \in Kinds, Launch(k)
    PROVE  /\ started + 1 \in Launchers /\ started' = started + 1
           /\ started' \in 0..MaxLaunchers /\ LauncherType'
  <1>1. started + 1 \in Launchers /\ started' = started + 1 /\ started' \in 0..MaxLaunchers
    BY Bounds DEF TypeOK, Launch, Launchers
  <1>2. pc' \in [Launchers -> Steps]
    BY StepNames, GoType DEF Launch
  <1>3. kind' \in [Launchers -> Kinds]
    BY DEF Launch, TypeOK
  <1>. QED  BY <1>1, <1>2, <1>3 DEF LauncherType

\* What most steps change
LEMMA FrameTypes ==
    ASSUME TypeOK
    PROVE  /\ UNCHANGED <<started, faults>> => CountType'
           /\ UNCHANGED <<started, faults, kind>> /\ pc' \in [Launchers -> Steps]
                 => CountType' /\ LauncherType'
           /\ UNCHANGED <<held, watched>> => HeldType'
           /\ UNCHANGED service => ServiceType'
           /\ UNCHANGED files => FileType'
           /\ UNCHANGED panel => PanelType'
           /\ UNCHANGED overlapped => overlapped' \in BOOLEAN
           /\ \A f : Fault(f) /\ UNCHANGED started => CountType'
  BY Bounds, TypeParts DEF CountType, LauncherType, HeldType, ServiceType, FileType, PanelType,
                          held, files, Fault

LEMMA ServiceTypes ==
    ASSUME TypeOK, NEW l, NEW s
    PROVE  /\ Spawn(l, s) => ServiceType'
           /\ service' = [service EXCEPT ![l] = NoService] => ServiceType'
           /\ \A v \in {"none", "starting", "up"} :
                 service' = [service EXCEPT ![l][s] = v] => ServiceType'
  <1>1. NoService \in [Services -> {"none", "starting", "up"}]
    BY DEF NoService
  <1>. QED  BY <1>1, TypeParts DEF ServiceType, Spawn

LEMMA ReadTypes == ASSUME TypeOK, NEW l \in Launchers, Read(l) PROVE TypeOK'
  <1>1. OpenLauncher(l) \in Launchers \cup {None}
    BY DEF OpenLauncher, Open, TypeOK
  <1>2. pc' \in [Launchers -> Steps]
    <2>1. \A step \in {"waiting", "killing"} : step \in Steps
      BY StepNames DEF Stopping
    <2>. QED  BY <2>1, GoType DEF Read
  <1>3. HeldType'
    <2>1. target' \in [Launchers -> Launchers \cup {None}]
      BY <1>1, TypeParts DEF Read, HeldType
    <2>2. handles' \in [Launchers -> SUBSET (Launchers \X Services)]
      <3> DEFINE h == {x \in {status} \X Services : x[1] \notin {None, l} /\ Runs(x[1], x[2])}
      <3>1. h \subseteq Launchers \X Services
        BY DEF TypeOK
      <3>2. handles' = [handles EXCEPT ![l] = h]
        BY DEF Read
      <3> HIDE DEF h
      <3>. QED  BY <3>1, <3>2, TypeParts DEF HeldType
    <2>3. found' \in [Launchers -> SUBSET Launchers]
      BY TypeParts DEF Read, HeldType
    <2>. QED  BY <2>1, <2>2, <2>3, TypeParts DEF Read, HeldType
  <1>4. FileType'
    <2>1. marker' = marker \/ (marker' = marker \cup {supervisor} /\ supervisor # None)
      BY DEF Read
    <2>. QED  BY <2>1, TypeParts DEF Read, FileType
  <1>5. overlapped' \in BOOLEAN
    BY DEF Read, TypeOK
  <1>. QED  BY <1>2, <1>3, <1>4, <1>5, FrameTypes, NextTypes DEF Read

LEMMA StopTypes ==
    ASSUME TypeOK, NEW l \in Launchers,
           Wait(l) \/ KillServices(l) \/ StopFails(l) \/ EndLauncher(l)
    PROVE  TypeOK'
  <1>1. CASE Wait(l)
    <2>1. pc' \in [Launchers -> Steps]
      <3>1. /\ pc \in [Launchers -> Steps] /\ {"killing", "failed"} \subseteq Steps
        BY StepNames DEF TypeOK, Stopping, Ended
      <3>2. \/ pc' = [pc EXCEPT ![l] = "killing", ![target[l]] = "failed"]
            \/ pc' = [pc EXCEPT ![l] = "killing"]
        BY <1>1 DEF Wait, Go
      <3>. QED  BY ONLY <3>1, <3>2
    <2>2. ServiceType'
      BY <1>1, ServiceTypes, FrameTypes DEF Wait
    <2>. QED  BY <1>1, <2>1, <2>2, FrameTypes, NextTypes DEF Wait
  <1>2. CASE KillServices(l)
    <2>1. pc' \in [Launchers -> Steps]
      BY <1>2, StepNames, GoType DEF KillServices, Stopping
    <2>2. ServiceType'
      BY <1>2, TypeParts DEF KillServices, ServiceType
    <2>. QED  BY <1>2, <2>1, <2>2, FrameTypes, NextTypes DEF KillServices
  <1>3. CASE StopFails(l)
    <2>1. pc' \in [Launchers -> Steps]
      BY <1>3, StepNames, GoType DEF StopFails, Ended
    <2>2. LauncherType'
      BY <1>3, <2>1, TypeParts DEF StopFails, LauncherType
    <2>. QED  BY <1>3, <2>2, FrameTypes, NextTypes DEF StopFails
  <1>4. CASE EndLauncher(l)
    <2>1. pc' \in [Launchers -> Steps]
      <3>1. AfterStop(l) \in Steps /\ "failed" \in Steps
        BY StepNames DEF AfterStop, Ended
      <3>. QED  BY <1>4, <3>1 DEF EndLauncher, TypeOK
    <2>2. ServiceType'
      BY <1>4, TypeParts DEF EndLauncher, ServiceType, NoService
    <2>3. HeldType'
      BY <1>4, TypeParts DEF EndLauncher, HeldType
    <2>4. FileType'
      BY <1>4, TypeParts DEF EndLauncher, FileType
    <2>5. PanelType'
      BY <1>4, TypeParts DEF EndLauncher, PanelType, Panel
    <2>. QED  BY <1>4, <2>1, <2>2, <2>3, <2>4, <2>5, FrameTypes, NextTypes DEF EndLauncher
  <1>. QED  BY <1>1, <1>2, <1>3, <1>4

\* The steps between publishing and the end
Inner(l) == \/ Cancelled(l) \/ Probe(l) \/ \E n \in 1..(Len(Order) - 1) : ServiceReady(l, n)
            \/ HostReady(l) \/ StartFails(l) \/ OpenPanel(l) \/ WatchPanel(l) \/ Supervise(l)

LEMMA InnerSteps ==
    ASSUME TypeOK, NEW l \in Launchers, Inner(l)
    PROVE  /\ pc[l] \in Published
           /\ \E step \in Running : Go(l, step)
           /\ service' = service \/ \E s \in Services : Spawn(l, s)
           /\ UNCHANGED <<started, faults, kind, held, supervisor, marker, overlapped>>
  <1>1. /\ "stopping" \in Running /\ "opening" \in Running /\ "watching" \in Running
        /\ "supervising" \in Running
        /\ Order[1] \in Services /\ Services \subseteq Running /\ "host" \in Services
    BY OrderFacts DEF Running
  <1>2. \A n \in 1..(Len(Order) - 1) : Order[n] \in Services /\ Order[n + 1] \in Services
    BY OrderFacts
  <1>3. Services \subseteq Published /\ "probing" \in Published /\ Running \subseteq Published
    BY <1>1, StepNames
  <1>4. CASE Cancelled(l) \/ StartFails(l) \/ Supervise(l)
    BY <1>1, <1>3, <1>4 DEF Cancelled, StartFails, Supervise, files
  <1>5. CASE Probe(l)
    BY <1>1, <1>3, <1>5 DEF Probe, files
  <1>6. ASSUME NEW n \in 1..(Len(Order) - 1), ServiceReady(l, n)
        PROVE  /\ pc[l] \in Published
               /\ \E step \in Running : Go(l, step)
               /\ \E s \in Services : Spawn(l, s)
               /\ UNCHANGED <<started, faults, kind, held, supervisor, marker, overlapped>>
    BY <1>1, <1>2, <1>3, <1>6 DEF ServiceReady, files
  <1>7. CASE HostReady(l) \/ OpenPanel(l) \/ WatchPanel(l)
    BY <1>1, <1>3, <1>7 DEF HostReady, OpenPanel, WatchPanel, files
  <1>. QED  BY <1>4, <1>5, <1>6, <1>7 DEF Inner

LEMMA InnerTypes == ASSUME TypeOK, NEW l \in Launchers, Inner(l) PROVE TypeOK'
  <1>1. pc' \in [Launchers -> Steps]
    BY InnerSteps, StepNames, GoType
  <1>2. ServiceType'
    BY InnerSteps, ServiceTypes, FrameTypes
  <1>3. HeldType'
    <2>1. UNCHANGED held /\ (UNCHANGED watched \/ WatchPanel(l))
      BY InnerSteps
         DEF Inner, Cancelled, Probe, ServiceReady, HostReady, StartFails, OpenPanel, Supervise
    <2>2. panel.number \in 0..MaxPanels
      BY TypeParts DEF PanelType, Panel
    <2>. QED  BY <2>1, <2>2, TypeParts DEF WatchPanel, HeldType, held
  <1>4. FileType'
    <2>1. UNCHANGED <<marker, supervisor>> /\ status' \in {status, l}
      BY InnerSteps
         DEF Inner, Cancelled, Probe, ServiceReady, HostReady, StartFails, OpenPanel, WatchPanel,
             Supervise, files
    <2>. QED  BY <2>1, TypeParts DEF FileType
  <1>5. PanelType'
    <2>1. UNCHANGED panel \/ OpenPanel(l)
      BY DEF Inner, Cancelled, Probe, ServiceReady, HostReady, StartFails, WatchPanel, Supervise
    <2>2. CASE OpenPanel(l)
      BY <2>2, Bounds, TypeParts DEF OpenPanel, PanelType, Panel
    <2>. QED  BY <2>1, <2>2, FrameTypes
  <1>. QED  BY <1>1, <1>2, <1>3, <1>4, <1>5, InnerSteps, FrameTypes, NextTypes

LEMMA OtherTypes ==
    ASSUME TypeOK, NEW l \in Launchers,
           \/ Publish(l) \/ StopJob(l) \/ LauncherKilled(l)
           \/ \E s \in Services : ServiceStarts(l, s) \/ ServiceExits(l, s)
    PROVE  TypeOK'
  <1>1. CASE Publish(l)
    <2>1. pc' \in [Launchers -> Steps]
      BY <1>1, StepNames, GoType DEF Publish
    <2>2. HeldType'
      BY <1>1, TypeParts DEF Publish, HeldType
    <2>3. FileType'
      BY <1>1, TypeParts DEF Publish, FileType
    <2>. QED  BY <1>1, <2>1, <2>2, <2>3, FrameTypes, NextTypes DEF Publish
  <1>2. CASE StopJob(l)
    <2>1. pc' \in [Launchers -> Steps]
      BY <1>2, StepNames, GoType DEF StopJob, Gone, Ended
    <2>2. ServiceType'
      BY <1>2, ServiceTypes DEF StopJob, Gone
    <2>3. FileType'
      BY <1>2, TypeParts DEF StopJob, FileType
    <2>. QED  BY <1>2, <2>1, <2>2, <2>3, FrameTypes, NextTypes DEF StopJob
  <1>3. CASE LauncherKilled(l)
    <2>1. pc' \in [Launchers -> Steps]
      BY <1>3, StepNames, GoType DEF LauncherKilled, Gone, Ended
    <2>2. ServiceType'
      BY <1>3, ServiceTypes DEF LauncherKilled, Gone
    <2>3. LauncherType'
      BY <1>3, <2>1, TypeParts DEF LauncherKilled, LauncherType
    <2>. QED  BY <1>3, <2>2, <2>3, FrameTypes, NextTypes DEF LauncherKilled
  <1>4. ASSUME NEW s \in Services, ServiceStarts(l, s) \/ ServiceExits(l, s) PROVE TypeOK'
    <2>1. ServiceType'
      BY <1>4, ServiceTypes DEF ServiceStarts, ServiceExits
    <2>2. UNCHANGED <<pc, kind>> => LauncherType'
      BY TypeParts DEF LauncherType
    <2>. QED  BY <1>4, <2>1, <2>2, FrameTypes, NextTypes DEF ServiceStarts, ServiceExits
  <1>. QED  BY <1>1, <1>2, <1>3, <1>4

LEMMA PanelTypes ==
    ASSUME TypeOK,
           \/ \E k \in {"start", "uninstall"} : UserLaunches(k)
           \/ \E k \in {"start", "stop"} : PanelStarts(k)
           \/ BeginShutdown \/ PollShutdown \/ PanelKilled
    PROVE  TypeOK'
  <1>0. {"start", "stop", "uninstall"} \subseteq Kinds
    BY DEF Kinds
  <1>1. ASSUME NEW k \in {"start", "uninstall"}, UserLaunches(k) PROVE TypeOK'
    <2>1. started' \in 0..MaxLaunchers /\ LauncherType'
      BY <1>0, <1>1, NextLauncher DEF UserLaunches
    <2>2. CountType'
      BY <1>1, <2>1, TypeParts DEF UserLaunches, CountType
    <2>. QED  BY <1>1, <2>1, <2>2, FrameTypes, NextTypes DEF UserLaunches
  <1>2. ASSUME NEW k \in {"start", "stop"}, PanelStarts(k) PROVE TypeOK'
    <2>1. started + 1 \in Launchers /\ started' \in 0..MaxLaunchers /\ LauncherType'
      BY <1>0, <1>2, NextLauncher DEF PanelStarts
    <2>2. CountType'
      BY <1>2, <2>1, TypeParts DEF PanelStarts, CountType
    <2>3. PanelType'
      BY <1>2, <2>1, TypeParts DEF PanelStarts, PanelType, Panel
    <2>. QED  BY <1>2, <2>1, <2>2, <2>3, FrameTypes, NextTypes DEF PanelStarts
  <1>3. CASE BeginShutdown
    <2>1. started + 1 \in Launchers /\ started' \in 0..MaxLaunchers /\ LauncherType'
      BY <1>0, <1>3, NextLauncher DEF BeginShutdown
    <2>2. CountType'
      BY <1>3, <2>1, TypeParts DEF BeginShutdown, CountType
    <2>3. Kept \in SUBSET Launchers
      BY TypeParts DEF Kept, PanelType, Panel
    <2>4. PanelType'
      BY <1>3, <2>1, <2>3, Bounds, TypeParts DEF BeginShutdown, PanelType, Panel
    <2>5. FileType'
      BY <1>3, <2>3, TypeParts DEF BeginShutdown, FileType
    <2>. QED  BY <1>3, <2>1, <2>2, <2>4, <2>5, FrameTypes, NextTypes DEF BeginShutdown
  <1>4. CASE PollShutdown \/ PanelKilled
    <2>1. PanelType'
      BY <1>4, Bounds, TypeParts DEF PollShutdown, Reopen, PanelKilled, PanelType, Panel
    <2>2. UNCHANGED <<pc, kind>> => LauncherType'
      BY TypeParts DEF LauncherType
    <2>. QED  BY <1>4, <2>1, <2>2, FrameTypes, NextTypes DEF PollShutdown, PanelKilled
  <1>. QED  BY <1>1, <1>2, <1>3, <1>4

LEMMA LauncherSteps ==
    ASSUME NEW l \in Launchers, LauncherStep(l)
    PROVE  \/ Read(l) \/ Wait(l) \/ KillServices(l) \/ EndLauncher(l)
           \/ Publish(l) \/ Inner(l) \/ StopJob(l)
  BY DEF LauncherStep, Inner

LEMMA TypeStep == ASSUME TypeOK, [Next]_vars PROVE TypeOK'
  <1>1. CASE UNCHANGED vars
    BY <1>1 DEF vars, held, files, TypeOK, Alive
  <1>2. ASSUME NEW l \in Launchers, LauncherStep(l) PROVE TypeOK'
    BY <1>2, LauncherSteps, ReadTypes, StopTypes, InnerTypes, OtherTypes
  <1>. QED  BY <1>1, <1>2, StopTypes, OtherTypes, PanelTypes DEF Next

-----------------------------------------------------------------------------
(* Kinds of steps *)

\* A launcher is started.
Launches == /\ \E k \in Kinds : Launch(k)
            /\ UNCHANGED <<held, service, supervisor, overlapped>>

\* A published one goes on.
Moves(l) == /\ pc[l] \in Published /\ \E step \in Running : Go(l, step)
            /\ service' = service \/ \E s \in Services : Spawn(l, s)
            /\ UNCHANGED <<started, kind, held, supervisor, overlapped>>

\* One ends: by itself when it is published, or with a fault.
Leaves(l) == /\ Alive(l)
             /\ Go(l, "failed") \/ (Go(l, "done") /\ pc[l] \in Published)
             /\ \/ service' = [service EXCEPT ![l] = NoService]
                \/ service' = service /\ pc[l] \notin Running
             /\ UNCHANGED <<started, kind, held, supervisor, overlapped>>

\* No launcher moves, and none has another service.
Rests == /\ UNCHANGED <<started, pc, kind, held, supervisor, overlapped>>
         /\ \A x \in Launchers, s \in Services : Runs(x, s)' => Runs(x, s)

LEMMA StepKinds ==
    ASSUME TypeOK, [Next]_vars
    PROVE  \/ Launches \/ Rests
           \/ \E l \in Launchers : \/ Read(l) \/ Wait(l) \/ KillServices(l) \/ EndLauncher(l)
                                   \/ Publish(l) \/ Moves(l) \/ Leaves(l)
  <1>1. ASSUME UNCHANGED vars \/ PollShutdown \/ PanelKilled PROVE Rests
    BY <1>1 DEF vars, PollShutdown, PanelKilled, files, held, Rests, Runs
  <1>2. ASSUME NEW l \in Launchers, NEW s \in Services, ServiceStarts(l, s) \/ ServiceExits(l, s)
        PROVE  Rests
    <2>1. ASSUME NEW x \in Launchers, NEW t \in Services, Runs(x, t)' PROVE Runs(x, t)
      <3>1. Runs(l, s)
        BY <1>2 DEF ServiceStarts, ServiceExits, Runs
      <3> PICK v : service' = [service EXCEPT ![l][s] = v]
        BY <1>2 DEF ServiceStarts, ServiceExits
      <3>2. service'[x][t] = service[x][t] \/ (x = l /\ t = s)
        BY TypeParts DEF ServiceType
      <3>. QED  BY <2>1, <3>1, <3>2 DEF Runs
    <2>. QED  BY <1>2, <2>1 DEF ServiceStarts, ServiceExits, files, Rests
  <1>3. ASSUME NEW l \in Launchers, Inner(l) PROVE Moves(l)
    BY <1>3, InnerSteps DEF Moves
  <1>4. ASSUME NEW l \in Launchers, StopJob(l) \/ LauncherKilled(l) \/ StopFails(l)
        PROVE  Leaves(l)
    <2>1. Alive(l)
      BY <1>4, StepNames DEF StopJob, LauncherKilled, StopFails, Alive, Running, Stopping
    <2>2. StopFails(l) => pc[l] \notin Running
      BY StepNames DEF StopFails, Stopping
    <2>3. StopJob(l) => pc[l] \in Published
      BY StepNames DEF StopJob, Running
    <2>. QED  BY <1>4, <2>1, <2>2, <2>3
              DEF StopJob, LauncherKilled, StopFails, Gone, Leaves, files
  <1>5. ASSUME \/ \E k \in {"start", "uninstall"} : UserLaunches(k)
               \/ \E k \in {"start", "stop"} : PanelStarts(k)
               \/ BeginShutdown
        PROVE  Launches
    BY <1>5 DEF UserLaunches, PanelStarts, BeginShutdown, files, Kinds, Launches
  <1>. QED  BY <1>1, <1>2, <1>3, <1>4, <1>5, LauncherSteps DEF Next

-----------------------------------------------------------------------------
(* The invariant *)

LaunchInv == \A l \in Launchers : /\ pc[l] = "unused" <=> l > started
                                  /\ pc[l] = "publishing" => kind[l] = "start"

ServiceInv == \A l \in Launchers : pc[l] \notin Running => NoServices(l)

FoundInv == \A l \in Launchers : /\ l \notin found[l]
                                 /\ \A x \in found[l] : pc[x] # "unused"
                                 /\ pc[l] \in Published => found[l] = {}

\* A start that stops the old stack, or has and is not published yet
Busy(l) == kind[l] = "start" /\ pc[l] \in Stopping \cup {"publishing"}

PublishedIsNamed == \A x \in Launchers : pc[x] \in Published => x = supervisor
OneStart         == \A l, x \in Launchers : Busy(l) /\ Busy(x) => l = x
AllFound         == \A l, x \in Launchers : Busy(l) /\ pc[x] \in Published => x \in found[l]
FoundIsTarget    == \A l \in Launchers : pc[l] \in Stopping => found[l] \subseteq {target[l]}
FoundIsEnded     == \A l \in Launchers : pc[l] \in {"publishing", "done"} =>
                       \A x \in found[l] : pc[x] \in {"done", "failed"}

AloneInv == PublishedIsNamed /\ OneStart /\ AllFound /\ FoundIsTarget /\ FoundIsEnded

IInv == TypeOK /\ LaunchInv /\ ServiceInv /\ FoundInv /\ (overlapped \/ AloneInv)

LEMMA InvInit == Init => IInv
  <1> SUFFICES ASSUME Init PROVE IInv
    OBVIOUS
  <1>1. \A l \in Launchers : pc[l] = "unused" /\ l > 0 /\ found[l] = {} /\ service[l] = NoService
    BY StackBounds DEF Init, StackBounds, Launchers
  <1>2. "unused" \notin Published \cup Stopping \cup {"publishing", "done"}
    BY StepNames DEF Ended, Stopping
  <1>3. LaunchInv /\ FoundInv
    BY <1>1, <1>2 DEF Init, LaunchInv, FoundInv
  <1>4. ServiceInv
    BY <1>1 DEF ServiceInv, NoServices, Runs, NoService
  <1>5. AloneInv
    BY <1>1, <1>2
       DEF AloneInv, PublishedIsNamed, OneStart, AllFound, FoundIsTarget, FoundIsEnded, Busy
  <1>. QED  BY <1>3, <1>4, <1>5, TypeInit DEF IInv

-----------------------------------------------------------------------------
(* Steps that publish and stop nothing *)

Onward(x) == \/ pc'[x] = pc[x]
             \/ pc[x] \in Published /\ pc'[x] \in Published \cup {"done"}
             \/ Alive(x) /\ pc'[x] = "failed"
             \/ pc[x] = "waiting" /\ pc'[x] = "killing"
             \/ pc[x] = "killing" /\ pc'[x] = "ending"

Begins(x) == pc[x] = "unused" /\ pc'[x] = "reading"

\* A launcher is published, stops or has stopped only if it did before.
LEMMA OnwardFacts ==
    ASSUME NEW x, Onward(x) \/ Begins(x)
    PROVE  /\ pc'[x] \in Published => pc[x] \in Published
           /\ pc[x] \in {"done", "failed"} => pc'[x] = pc[x]
           /\ pc'[x] \in Stopping => pc[x] \in Stopping
           /\ pc'[x] = "publishing" => pc[x] = "publishing"
           /\ pc'[x] = "done" => pc[x] = "done" \/ pc[x] \in Published
           /\ pc'[x] = "unused" => pc[x] = "unused"
           /\ Onward(x) /\ pc[x] = "unused" => pc'[x] = "unused"
  <1>1. \A s \in Published : s \notin {"unused", "done", "failed", "waiting", "killing", "ending",
                                       "reading", "publishing"}
    BY StepNames DEF Ended, Stopping
  <1>. QED  BY <1>1 DEF Onward, Begins, Alive, Ended, Stopping

Advances == /\ UNCHANGED <<held, supervisor, overlapped>>
            /\ \A x \in Launchers : (Onward(x) /\ kind'[x] = kind[x]) \/ Begins(x)

LEMMA AdvanceFound == ASSUME FoundInv, TypeOK, Advances PROVE FoundInv'
  <1> SUFFICES ASSUME NEW l \in Launchers
               PROVE  (/\ l \notin found[l]
                       /\ \A x \in found[l] : pc[x] # "unused"
                       /\ pc[l] \in Published => found[l] = {})'
    BY DEF FoundInv
  <1>1. found' = found /\ found[l] \subseteq Launchers
    BY DEF Advances, held, TypeOK
  <1>2. l \notin found[l] /\ (pc[l] \in Published => found[l] = {})
        /\ \A x \in found[l] : pc[x] # "unused"
    BY DEF FoundInv
  <1>3. pc'[l] \in Published => pc[l] \in Published
    BY OnwardFacts DEF Advances
  <1>4. \A x \in Launchers : pc'[x] = "unused" => pc[x] = "unused"
    BY OnwardFacts DEF Advances
  <1>. QED  BY <1>1, <1>2, <1>3, <1>4

LEMMA AdvanceAlone == ASSUME AloneInv, FoundInv, TypeOK, Advances PROVE AloneInv'
  <1>1. found' = found /\ target' = target /\ supervisor' = supervisor
    BY DEF Advances, held
  <1>2. \A x \in Launchers : pc'[x] \in Published => pc[x] \in Published
    BY OnwardFacts DEF Advances
  <1>3. \A x \in Launchers : pc'[x] \in Stopping => pc[x] \in Stopping
    BY OnwardFacts DEF Advances
  <1>4. \A x \in Launchers : Busy(x)' => Busy(x)
    <2> SUFFICES ASSUME NEW x \in Launchers, Busy(x)' PROVE Busy(x)
      OBVIOUS
    <2>1. kind'[x] = "start" /\ pc'[x] \in Stopping \cup {"publishing"}
      BY DEF Busy
    <2>2. pc[x] \in Stopping \cup {"publishing"}
      BY <2>1, OnwardFacts DEF Advances
    <2>3. pc[x] # "unused"
      BY <2>2, StepNames DEF Ended
    <2>4. kind'[x] = kind[x]
      BY <2>3 DEF Advances, Begins
    <2>. QED  BY <2>1, <2>2, <2>4 DEF Busy
  <1>5. PublishedIsNamed' /\ FoundIsTarget'
    BY <1>1, <1>2, <1>3 DEF AloneInv, PublishedIsNamed, FoundIsTarget
  <1>6. OneStart' /\ AllFound'
    BY <1>1, <1>2, <1>4 DEF AloneInv, OneStart, AllFound
  <1>7. FoundIsEnded'
    <2> SUFFICES ASSUME NEW l \in Launchers, pc'[l] \in {"publishing", "done"}, NEW x \in found[l]
                 PROVE  pc'[x] \in {"done", "failed"}
      BY <1>1 DEF FoundIsEnded
    <2>1. x \in Launchers
      BY DEF TypeOK
    <2>2. pc[l] \in {"publishing", "done"} \/ pc[l] \in Published
      BY OnwardFacts DEF Advances
    <2>3. pc[l] \in {"publishing", "done"}
      BY <2>2 DEF FoundInv
    <2>4. pc[x] \in {"done", "failed"}
      BY <2>3 DEF AloneInv, FoundIsEnded
    <2>. QED  BY <2>1, <2>4, OnwardFacts DEF Advances
  <1>. QED  BY <1>5, <1>6, <1>7 DEF AloneInv

LEMMA AdvanceKinds ==
    ASSUME IInv, \/ Launches \/ Rests
                 \/ \E l \in Launchers : Wait(l) \/ KillServices(l) \/ Moves(l) \/ Leaves(l)
    PROVE  Advances
  <1>0. pc \in [Launchers -> Steps] /\ kind \in [Launchers -> Kinds]
    BY DEF IInv, TypeOK
  <1>1. CASE Launches
    <2> PICK k \in Kinds : Launch(k)
      BY <1>1 DEF Launches
    <2>1. started + 1 \in Launchers /\ started + 1 > started
      BY NextLauncher, Bounds DEF IInv, TypeOK
    <2>2. pc[started + 1] = "unused"
      BY <2>1 DEF IInv, LaunchInv
    <2>3. \A x \in Launchers : x = started + 1 \/ (pc'[x] = pc[x] /\ kind'[x] = kind[x])
      BY <1>0 DEF Launch, Go
    <2>4. pc'[started + 1] = "reading"
      BY <1>0, <2>1 DEF Launch, Go
    <2>. QED  BY <1>1, <2>2, <2>3, <2>4 DEF Launches, Advances, Onward, Begins
  <1>2. CASE Rests
    BY <1>2 DEF Rests, Advances, Onward
  <1>3. ASSUME NEW l \in Launchers, Wait(l) PROVE Advances
    <2>1. \A x \in Launchers : pc'[x] = pc[x] \/ (Alive(x) /\ pc'[x] = "failed")
                               \/ (pc[x] = "waiting" /\ pc'[x] = "killing")
      <3>1. CASE Alive(target[l])
        BY <1>0, <1>3, <3>1 DEF Wait
      <3>2. CASE ~Alive(target[l])
        BY <1>0, <1>3, <3>2 DEF Wait, Go
      <3>. QED  BY <3>1, <3>2
    <2>2. UNCHANGED <<held, supervisor, overlapped>> /\ kind' = kind
      BY <1>3 DEF Wait, files
    <2>. QED  BY <2>1, <2>2 DEF Advances, Onward
  <1>4. ASSUME NEW l \in Launchers, KillServices(l) PROVE Advances
    BY <1>0, <1>4 DEF KillServices, Go, files, Advances, Onward
  <1>5. ASSUME NEW l \in Launchers, Moves(l) PROVE Advances
    BY <1>0, <1>5, StepNames DEF Moves, Go, Advances, Onward
  <1>6. ASSUME NEW l \in Launchers, Leaves(l) PROVE Advances
    BY <1>0, <1>6 DEF Leaves, Go, Advances, Onward
  <1>. QED  BY <1>1, <1>2, <1>3, <1>4, <1>5, <1>6

LEMMA AdvanceLaunches ==
    ASSUME IInv, \/ Launches \/ Rests
                 \/ \E l \in Launchers : Wait(l) \/ KillServices(l) \/ Moves(l) \/ Leaves(l)
    PROVE  LaunchInv'
  <1>1. Advances
    BY AdvanceKinds
  <1>2. \A x \in Launchers : pc[x] = "publishing" => kind[x] = "start"
    BY DEF IInv, LaunchInv
  <1>3. ASSUME NEW x \in Launchers, pc'[x] = "publishing" PROVE kind'[x] = "start"
    <2>1. pc[x] = "publishing"
      BY <1>1, <1>3, OnwardFacts DEF Advances
    <2>2. kind'[x] = kind[x]
      BY <1>1, <2>1 DEF Advances, Begins
    <2>. QED  BY <1>2, <2>1, <2>2
  <1>4. CASE Launches
    <2> PICK k \in Kinds : Launch(k)
      BY <1>4 DEF Launches
    <2>1. started + 1 \in Launchers /\ started' = started + 1 /\ started \in Nat
      BY NextLauncher, Bounds DEF IInv, TypeOK
    <2>2. pc' = [pc EXCEPT ![started + 1] = "reading"] /\ pc \in [Launchers -> Steps]
      BY DEF Launch, Go, IInv, TypeOK
    <2>3. ASSUME NEW x \in Launchers PROVE pc'[x] = "unused" <=> x > started'
      <3>1. x \in Nat /\ (pc[x] = "unused" <=> x > started)
        BY Bounds DEF IInv, LaunchInv
      <3>2. CASE x = started + 1
        BY <2>1, <2>2, <3>1, <3>2
      <3>3. CASE x # started + 1
        <4>1. pc'[x] = pc[x]
          BY <2>2, <3>3
        <4>2. x > started <=> x > started'
          BY <2>1, <3>1, <3>3
        <4>. QED  BY <3>1, <4>1, <4>2
      <3>. QED  BY <3>2, <3>3
    <2>. QED  BY <1>3, <2>3 DEF LaunchInv
  <1>5. CASE ~Launches
    <2>1. started' = started /\ \A x \in Launchers : pc[x] = "unused" => ~Begins(x)
      <3>1. CASE Rests
        BY <3>1 DEF Rests, Begins
      <3>2. ASSUME NEW l \in Launchers, Wait(l) \/ KillServices(l) \/ Moves(l) \/ Leaves(l)
            PROVE  started' = started /\ \A x \in Launchers : pc'[x] # "reading" \/ pc'[x] = pc[x]
        <4>0. pc \in [Launchers -> Steps] /\ "reading" \notin Running
          BY StepNames DEF IInv, TypeOK
        <4>1. CASE Wait(l)
          BY <4>0, <4>1 DEF Wait, Go
        <4>2. CASE KillServices(l)
          BY <4>0, <4>2 DEF KillServices, Go
        <4>3. CASE Moves(l)
          BY <4>0, <4>3 DEF Moves, Go
        <4>4. CASE Leaves(l)
          BY <4>0, <4>4 DEF Leaves, Go
        <4>. QED  BY <3>2, <4>1, <4>2, <4>3, <4>4
      <3>. QED  BY <1>5, <3>1, <3>2 DEF Begins
    <2>2. \A x \in Launchers : pc'[x] = "unused" <=> pc[x] = "unused"
      BY <1>1, <2>1, OnwardFacts DEF Advances
    <2>. QED  BY <1>3, <2>1, <2>2 DEF IInv, LaunchInv
  <1>. QED  BY <1>4, <1>5

-----------------------------------------------------------------------------
(* Steps that read, end the old stack and publish *)

LEMMA ReadStep ==
    ASSUME IInv, NEW l \in Launchers, Read(l)
    PROVE  LaunchInv' /\ FoundInv' /\ (overlapped' \/ AloneInv')
  <1> DEFINE before == {x \in Launchers \ {l} : pc[x] \in Published}
  <1>0. /\ pc \in [Launchers -> Steps] /\ found \in [Launchers -> SUBSET Launchers]
        /\ target \in [Launchers -> Launchers \cup {None}]
    BY DEF IInv, TypeOK
  <1>1. /\ pc[l] = "reading" /\ pc'[l] \in Stopping
        /\ found'[l] = before /\ target'[l] = OpenLauncher(l)
        /\ UNCHANGED <<started, kind, supervisor>>
    BY <1>0 DEF Read, Go, Stopping
  <1>2. \A x \in Launchers \ {l} : pc'[x] = pc[x] /\ found'[x] = found[x] /\ target'[x] = target[x]
    BY <1>0 DEF Read, Go
  <1>3. /\ "reading" \notin Published \cup Stopping \cup {"publishing", "done", "failed", "unused"}
        /\ \A s \in Stopping : s \notin Published \cup {"publishing", "done", "failed", "unused"}
        /\ "unused" \notin Published
    BY StepNames DEF Stopping, Ended
  <1> HIDE DEF before
  <1>4. LaunchInv'
    BY <1>1, <1>2, <1>3 DEF IInv, LaunchInv
  <1>5. FoundInv'
    <2> SUFFICES ASSUME NEW x \in Launchers
                 PROVE  (/\ x \notin found[x]
                         /\ \A y \in found[x] : pc[y] # "unused"
                         /\ pc[x] \in Published => found[x] = {})'
      BY DEF FoundInv
    <2>1. CASE x = l
      BY <1>1, <1>2, <1>3, <2>1 DEF before
    <2>2. CASE x # l
      <3>1. \A y \in Launchers : pc[y] # "unused" => pc'[y] # "unused"
        BY <1>1, <1>2, <1>3
      <3>. QED  BY <1>0, <1>2, <2>2, <3>1 DEF IInv, FoundInv
    <2>. QED  BY <2>1, <2>2
  <1>6. ASSUME ~overlapped' PROVE AloneInv'
    <2>1. /\ AloneInv
          /\ kind[l] = "start" => \A x \in Launchers \ {l} : ~Busy(x)
      BY <1>6 DEF Read, IInv, Busy, Stopping
    <2>2. \A x \in Launchers \ {l} : Busy(x)' <=> Busy(x)
      BY <1>1, <1>2 DEF Busy
    <2>3. \A x \in Launchers : pc'[x] \in Published <=> pc[x] \in Published
      BY <1>1, <1>2, <1>3
    <2>4. PublishedIsNamed'
      BY <1>1, <2>1, <2>3 DEF AloneInv, PublishedIsNamed
    <2>5. Busy(l)' => kind[l] = "start"
      BY <1>1 DEF Busy
    <2>6. OneStart'
      <3> SUFFICES ASSUME NEW x \in Launchers, NEW y \in Launchers, Busy(x)', Busy(y)'
                   PROVE  x = y
        BY DEF OneStart
      <3>. QED  BY <2>1, <2>2, <2>5 DEF AloneInv, OneStart
    <2>7. AllFound'
      <3> SUFFICES ASSUME NEW x \in Launchers, NEW y \in Launchers, Busy(x)', pc'[y] \in Published
                   PROVE  y \in found'[x]
        BY DEF AllFound
      <3>1. CASE x = l
        BY <1>1, <1>3, <2>3, <3>1 DEF before
      <3>2. CASE x # l
        BY <1>2, <2>1, <2>2, <2>3, <3>2 DEF AloneInv, AllFound
      <3>. QED  BY <3>1, <3>2
    <2>8. FoundIsTarget'
      <3> SUFFICES ASSUME NEW x \in Launchers, pc'[x] \in Stopping PROVE found'[x] \subseteq {target'[x]}
        BY DEF FoundIsTarget
      <3>1. CASE x = l
        <4> SUFFICES ASSUME NEW y \in before PROVE y = OpenLauncher(l)
          BY <1>1, <3>1
        <4>1. y \in Launchers /\ y # l /\ pc[y] \in Published
          BY DEF before
        <4>2. y = supervisor /\ y # None /\ Alive(y)
          BY <2>1, <4>1, Bounds, StepNames DEF AloneInv, PublishedIsNamed, Alive
        <4>. QED  BY <4>1, <4>2 DEF OpenLauncher, Open
      <3>2. CASE x # l
        BY <1>2, <2>1, <3>2 DEF AloneInv, FoundIsTarget
      <3>. QED  BY <3>1, <3>2
    <2>9. FoundIsEnded'
      <3> SUFFICES ASSUME NEW x \in Launchers, pc'[x] \in {"publishing", "done"}, NEW y \in found'[x]
                   PROVE  pc'[y] \in {"done", "failed"}
        BY DEF FoundIsEnded
      <3>1. x # l
        BY <1>1, <1>3
      <3>2. y \in found[x] /\ pc[x] \in {"publishing", "done"}
        BY <1>2, <3>1
      <3>3. y \in Launchers /\ pc[y] \in {"done", "failed"}
        BY <1>0, <2>1, <3>2 DEF AloneInv, FoundIsEnded
      <3>. QED  BY <1>1, <1>2, <3>3
    <2>. QED  BY <2>4, <2>6, <2>7, <2>8, <2>9 DEF AloneInv
  <1>. QED  BY <1>4, <1>5, <1>6

LEMMA PublishStep ==
    ASSUME IInv, NEW l \in Launchers, Publish(l)
    PROVE  LaunchInv' /\ FoundInv' /\ (overlapped' \/ AloneInv')
  <1>0. /\ pc \in [Launchers -> Steps] /\ found \in [Launchers -> SUBSET Launchers]
        /\ target \in [Launchers -> Launchers \cup {None}]
    BY DEF IInv, TypeOK
  <1>1. /\ pc[l] = "publishing" /\ pc'[l] = "probing" /\ found'[l] = {} /\ supervisor' = l
        /\ UNCHANGED <<started, kind, target, overlapped>>
    BY <1>0 DEF Publish, Go
  <1>2. \A x \in Launchers \ {l} : pc'[x] = pc[x] /\ found'[x] = found[x]
    BY <1>0 DEF Publish, Go
  <1>3. /\ "publishing" \notin Published \cup Stopping
        /\ "probing" \notin Stopping /\ "unused" \notin Published
        /\ \A s \in Published : s \notin {"done", "failed"}
    BY StepNames DEF Stopping, Ended
  <1>4. LaunchInv'
    BY <1>1, <1>2 DEF IInv, LaunchInv
  <1>5. FoundInv'
    <2>1. \A y \in Launchers : pc[y] # "unused" => pc'[y] # "unused"
      BY <1>1, <1>2
    <2> SUFFICES ASSUME NEW x \in Launchers
                 PROVE  (/\ x \notin found[x]
                         /\ \A y \in found[x] : pc[y] # "unused"
                         /\ pc[x] \in Published => found[x] = {})'
      BY DEF FoundInv
    <2>. QED  BY <1>0, <1>1, <1>2, <2>1 DEF IInv, FoundInv
  <1>6. ASSUME ~overlapped' PROVE AloneInv'
    <2>1. AloneInv /\ Busy(l)
      BY <1>1, <1>6 DEF IInv, LaunchInv, Busy
    <2>2. \A x \in Launchers : pc[x] \notin Published
      <3> SUFFICES ASSUME NEW x \in Launchers, pc[x] \in Published PROVE FALSE
        OBVIOUS
      <3>1. x \in found[l]
        BY <2>1 DEF AloneInv, AllFound
      <3>2. pc[x] \in {"done", "failed"}
        BY <1>1, <2>1, <3>1 DEF AloneInv, FoundIsEnded
      <3>. QED  BY <1>3, <3>2
    <2>3. PublishedIsNamed'
      BY <1>1, <1>2, <2>2 DEF PublishedIsNamed
    <2>4. \A x \in Launchers : ~Busy(x)'
      <3> SUFFICES ASSUME NEW x \in Launchers, Busy(x)' PROVE FALSE
        OBVIOUS
      <3>1. x # l
        BY <1>1, <1>3 DEF Busy
      <3>2. Busy(x)
        BY <1>1, <1>2, <3>1 DEF Busy
      <3>. QED  BY <2>1, <3>1, <3>2 DEF AloneInv, OneStart
    <2>5. OneStart' /\ AllFound'
      BY <2>4 DEF OneStart, AllFound
    <2>6. FoundIsTarget'
      BY <1>1, <1>2, <1>3, <2>1 DEF AloneInv, FoundIsTarget
    <2>7. FoundIsEnded'
      <3> SUFFICES ASSUME NEW x \in Launchers, pc'[x] \in {"publishing", "done"}, NEW y \in found'[x]
                   PROVE  pc'[y] \in {"done", "failed"}
        BY DEF FoundIsEnded
      <3>1. x # l /\ y \in found[x] /\ y \in Launchers
        BY <1>0, <1>1, <1>2
      <3>2. pc[y] \in {"done", "failed"}
        BY <1>2, <2>1, <3>1 DEF AloneInv, FoundIsEnded
      <3>. QED  BY <1>1, <1>2, <3>1, <3>2
    <2>. QED  BY <2>3, <2>5, <2>6, <2>7 DEF AloneInv
  <1>. QED  BY <1>4, <1>5, <1>6

LEMMA EndEffect ==
    ASSUME IInv, NEW l \in Launchers, EndLauncher(l)
    PROVE  /\ pc[l] = "ending" /\ pc'[l] = AfterStop(l)
           /\ \A x \in Launchers \ {l} :
                 \/ pc'[x] = pc[x]
                 \/ Alive(x) /\ pc'[x] = "failed" /\ service'[x] = NoService
           /\ \A x \in Launchers : service'[x] = service[x] \/ service'[x] = NoService
           /\ target[l] \in Launchers \ {l} =>
                 /\ \/ pc'[target[l]] = pc[target[l]] /\ pc[target[l]] \in Ended
                    \/ pc'[target[l]] = "failed"
                 /\ service'[target[l]] = NoService
           /\ \A x \in Launchers \ {l} : target'[x] = target[x]
           /\ UNCHANGED <<started, kind, found, supervisor, overlapped>>
  <1>0. target \in [Launchers -> Launchers \cup {None}]
    BY DEF IInv, TypeOK
  <1> DEFINE tree == IF kind[l] = "uninstall" THEN (Kept \cup {panel.helper}) \ {l, None} ELSE {}
             dead == (IF target[l] = None THEN {} ELSE {target[l]}) \cup tree
  <1>1. /\ pc[l] = "ending"
        /\ pc' = [x \in Launchers |-> IF x = l THEN AfterStop(l)
                                     ELSE IF x \in dead /\ Alive(x) THEN "failed" ELSE pc[x]]
        /\ service' = [x \in Launchers |-> IF x \in dead THEN NoService ELSE service[x]]
    BY DEF EndLauncher
  <1>2. UNCHANGED <<started, kind, found, supervisor, overlapped>>
        /\ target' = [target EXCEPT ![l] = None]
    BY DEF EndLauncher
  <1>3. target[l] \in Launchers \ {l} => target[l] \in dead
    BY Bounds
  <1> HIDE DEF dead
  <1>4. \A x \in Launchers \ {l} :
           \/ pc'[x] = pc[x]
           \/ Alive(x) /\ pc'[x] = "failed" /\ service'[x] = NoService
    BY <1>1
  <1>5. target[l] \in Launchers \ {l} =>
           /\ \/ pc'[target[l]] = pc[target[l]] /\ pc[target[l]] \in Ended
              \/ pc'[target[l]] = "failed"
           /\ service'[target[l]] = NoService
    BY <1>1, <1>3 DEF Alive
  <1>. QED  BY <1>0, <1>1, <1>2, <1>4, <1>5

LEMMA EndStep ==
    ASSUME IInv, NEW l \in Launchers, EndLauncher(l)
    PROVE  LaunchInv' /\ FoundInv' /\ (overlapped' \/ AloneInv')
  <1>0. found \in [Launchers -> SUBSET Launchers]
    BY DEF IInv, TypeOK
  <1>1. /\ pc[l] = "ending" /\ pc'[l] \in {"publishing", "done"}
        /\ pc'[l] = "publishing" => kind[l] = "start"
        /\ UNCHANGED <<started, kind, found, supervisor, overlapped>>
        /\ \A x \in Launchers \ {l} : target'[x] = target[x]
    BY EndEffect DEF AfterStop
  <1>2. \A x \in Launchers \ {l} : pc'[x] = pc[x] \/ (Alive(x) /\ pc'[x] = "failed")
    BY EndEffect
  <1>3. /\ "ending" \notin Published \cup {"publishing", "done", "failed", "unused"}
        /\ "ending" \in Stopping /\ "unused" \notin Published
        /\ \A s \in Published \cup Stopping : s \notin {"publishing", "done", "failed"}
    BY StepNames DEF Stopping, Ended
  <1>4. \A x \in Launchers : pc'[x] \in Published => x # l /\ pc[x] \in Published
    BY <1>1, <1>2, <1>3
  <1>5. \A x \in Launchers : pc'[x] = "unused" <=> pc[x] = "unused"
    BY <1>1, <1>2, <1>3 DEF Alive, Ended
  <1>6. \A x \in Launchers \ {l} : pc'[x] = "publishing" => pc[x] = "publishing"
    BY <1>2
  <1>7. LaunchInv'
    BY <1>1, <1>5, <1>6 DEF IInv, LaunchInv
  <1>8. FoundInv'
    BY <1>0, <1>1, <1>4, <1>5 DEF IInv, FoundInv
  <1>9. ASSUME ~overlapped' PROVE AloneInv'
    <2>1. AloneInv
      BY <1>1, <1>9 DEF IInv
    <2>2. \A x \in Launchers \ {l} : pc'[x] \in Stopping => pc[x] \in Stopping
      BY <1>2, <1>3
    <2>3. \A x \in Launchers : Busy(x)' => Busy(x)
      <3>1. Busy(l)' => Busy(l)
        BY <1>1, <1>3 DEF Busy
      <3>2. \A x \in Launchers \ {l} : Busy(x)' => Busy(x)
        BY <1>1, <1>6, <2>2 DEF Busy
      <3>. QED  BY <3>1, <3>2
    <2>4. PublishedIsNamed' /\ OneStart' /\ AllFound'
      BY <1>1, <1>4, <2>1, <2>3 DEF AloneInv, PublishedIsNamed, OneStart, AllFound
    <2>5. FoundIsTarget'
      BY <1>1, <1>3, <2>1, <2>2 DEF AloneInv, FoundIsTarget
    <2>6. FoundIsEnded'
      <3> SUFFICES ASSUME NEW x \in Launchers, pc'[x] \in {"publishing", "done"}, NEW y \in found[x]
                   PROVE  pc'[y] \in {"done", "failed"}
        BY <1>1 DEF FoundIsEnded
      <3>1. y \in Launchers /\ y # x /\ pc[y] # "unused"
        BY <1>0 DEF IInv, FoundInv
      <3>2. CASE x = l
        <4>1. y = target[l]
          BY <1>1, <1>3, <2>1, <3>2 DEF AloneInv, FoundIsTarget
        <4>2. (pc'[y] = pc[y] /\ pc[y] \in Ended) \/ pc'[y] = "failed"
          BY <3>1, <3>2, <4>1, EndEffect
        <4>. QED  BY <3>1, <4>2 DEF Ended
      <3>3. CASE x # l
        <4>1. pc[x] \in {"publishing", "done"}
          BY <1>2, <3>3
        <4>2. pc[y] \in {"done", "failed"}
          BY <2>1, <4>1 DEF AloneInv, FoundIsEnded
        <4>3. y # l
          BY <1>1, <4>2
        <4>. QED  BY <1>2, <3>1, <4>2, <4>3
      <3>. QED  BY <3>2, <3>3
    <2>. QED  BY <2>4, <2>5, <2>6 DEF AloneInv
  <1>. QED  BY <1>7, <1>8, <1>9

-----------------------------------------------------------------------------
(* Services run in the job of a launcher *)

LEMMA Keeps ==
    ASSUME ServiceInv, NEW x \in Launchers,
           \/ pc'[x] \in Running
           \/ service'[x] = NoService
           \/ /\ pc[x] \notin Running
              /\ \A s \in Services : Runs(x, s)' => Runs(x, s)
    PROVE  (pc[x] \notin Running => NoServices(x))'
  <1>1. service'[x] = NoService => \A s \in Services : ~Runs(x, s)'
    BY DEF NoService, Runs
  <1>2. pc[x] \notin Running => \A s \in Services : ~Runs(x, s)
    BY DEF ServiceInv, NoServices
  <1>. QED  BY <1>1, <1>2 DEF NoServices

LEMMA ServiceStep == ASSUME IInv, [Next]_vars PROVE ServiceInv'
  <1>0. /\ pc \in [Launchers -> Steps] /\ ServiceInv /\ Running \subseteq Published
        /\ service \in [Launchers -> [Services -> {"none", "starting", "up"}]]
    BY StepNames DEF IInv, TypeOK
  <1> SUFFICES ASSUME NEW x \in Launchers
               PROVE  \/ pc'[x] \in Running
                      \/ service'[x] = NoService
                      \/ /\ pc[x] \notin Running
                         /\ \A s \in Services : Runs(x, s)' => Runs(x, s)
    BY <1>0, Keeps DEF ServiceInv
  <1>1. service'[x] = service[x] => \A s \in Services : Runs(x, s)' => Runs(x, s)
    BY DEF Runs
  <1>2. CASE Launches
    <2> PICK k \in Kinds : Launch(k)
      BY <1>2 DEF Launches
    <2>1. started + 1 \in Launchers /\ started + 1 > started
      BY NextLauncher, Bounds DEF IInv, TypeOK
    <2>2. pc[started + 1] = "unused" /\ "unused" \notin Running
      BY <2>1, StepNames DEF IInv, LaunchInv, Ended
    <2>3. pc'[x] = pc[x] \/ pc[x] = "unused"
      BY <1>0, <2>2 DEF Launch, Go
    <2>. QED  BY <1>1, <1>2, <2>2, <2>3 DEF Launches
  <1>3. CASE Rests
    BY <1>3 DEF Rests
  <1>4. ASSUME NEW l \in Launchers, Moves(l)
        PROVE  \/ pc'[x] \in Running
               \/ pc[x] \notin Running /\ service'[x] = service[x]
    <2>1. pc'[x] = pc[x] \/ pc'[x] \in Running
      BY <1>0, <1>4 DEF Moves, Go
    <2>2. x = l => pc'[x] \in Running
      BY <1>0, <1>4 DEF Moves, Go
    <2>3. x # l => service'[x] = service[x]
      BY <1>0, <1>4 DEF Moves, Spawn
    <2>. QED  BY <2>1, <2>2, <2>3
  <1>5. ASSUME NEW l \in Launchers, Leaves(l)
        PROVE  \/ pc'[x] \in Running \/ service'[x] = NoService
               \/ pc[x] \notin Running /\ service'[x] = service[x]
    <2>1. CASE x = l
      BY <1>0, <1>5, <2>1 DEF Leaves
    <2>2. CASE x # l
      BY <1>0, <1>5, <2>2 DEF Leaves, Go
    <2>. QED  BY <2>1, <2>2
  <1>6. ASSUME NEW l \in Launchers, Wait(l)
        PROVE  \/ pc'[x] \in Running \/ service'[x] = NoService
               \/ pc[x] \notin Running /\ service'[x] = service[x]
    <2>0. "waiting" \notin Running
      BY StepNames DEF Stopping
    <2>1. CASE Alive(target[l])
      <3>1. x = target[l] => service'[x] = NoService
        BY <1>0, <1>6, <2>1 DEF Wait
      <3>2. x # target[l] => service'[x] = service[x]
        BY <1>0, <1>6, <2>1 DEF Wait
      <3>3. x # target[l] => pc'[x] = pc[x] \/ pc[x] = "waiting"
        BY <1>0, <1>6, <2>1 DEF Wait
      <3>. QED  BY <2>0, <3>1, <3>2, <3>3
    <2>2. CASE ~Alive(target[l])
      BY <1>0, <1>6, <2>0, <2>2 DEF Wait, Go
    <2>. QED  BY <2>1, <2>2
  <1>7. ASSUME NEW l \in Launchers, KillServices(l)
        PROVE  \/ pc'[x] \in Running
               \/ pc[x] \notin Running /\ \A s \in Services : Runs(x, s)' => Runs(x, s)
    <2>1. pc'[x] = pc[x] \/ pc[x] = "killing"
      BY <1>0, <1>7 DEF KillServices, Go
    <2>2. "killing" \notin Running
      BY StepNames DEF Stopping
    <2>3. \A s \in Services : service'[x][s] \in {"none", service[x][s]}
      BY <1>7 DEF KillServices
    <2>. QED  BY <2>1, <2>2, <2>3 DEF Runs
  <1>8. ASSUME NEW l \in Launchers, EndLauncher(l)
        PROVE  \/ pc'[x] \in Running \/ service'[x] = NoService
               \/ pc[x] \notin Running /\ service'[x] = service[x]
    <2>1. x # l => pc'[x] = pc[x] \/ service'[x] = NoService
      BY <1>8, EndEffect
    <2>2. x = l => pc[x] = "ending" /\ "ending" \notin Running
      BY <1>8, EndEffect, StepNames DEF Stopping
    <2>. QED  BY <1>8, <2>1, <2>2, EndEffect
  <1>9. ASSUME NEW l \in Launchers, Read(l) \/ Publish(l)
        PROVE  pc'[x] \in Running \/ (pc[x] \notin Running /\ service'[x] = service[x])
    <2>1. pc'[x] = pc[x] \/ pc[x] \in {"reading", "publishing"}
      BY <1>0, <1>9 DEF Read, Publish, Go
    <2>2. "reading" \notin Running /\ "publishing" \notin Running
      BY StepNames
    <2>3. service' = service
      BY <1>9 DEF Read, Publish
    <2>. QED  BY <2>1, <2>2, <2>3
  <1>. QED  BY <1>1, <1>2, <1>3, <1>4, <1>5, <1>6, <1>7, <1>8, <1>9, StepKinds DEF IInv

LEMMA InvStep == ASSUME IInv, [Next]_vars PROVE IInv'
  <1>1. TypeOK' /\ ServiceInv'
    BY TypeStep, ServiceStep DEF IInv
  <1>2. ASSUME \/ Launches \/ Rests
               \/ \E l \in Launchers : Wait(l) \/ KillServices(l) \/ Moves(l) \/ Leaves(l)
        PROVE  LaunchInv' /\ FoundInv' /\ (overlapped' \/ AloneInv')
    <2>1. LaunchInv' /\ Advances
      BY <1>2, AdvanceLaunches, AdvanceKinds
    <2>2. FoundInv'
      BY <2>1, AdvanceFound DEF IInv
    <2>3. CASE overlapped = TRUE
      BY <2>1, <2>2, <2>3 DEF Advances
    <2>4. CASE overlapped = FALSE
      BY <2>1, <2>2, <2>4, AdvanceAlone DEF IInv
    <2>5. overlapped = TRUE \/ overlapped = FALSE
      BY DEF IInv, TypeOK
    <2>. QED  BY <2>3, <2>4, <2>5
  <1>3. ASSUME NEW l \in Launchers, Read(l) \/ EndLauncher(l) \/ Publish(l)
        PROVE  LaunchInv' /\ FoundInv' /\ (overlapped' \/ AloneInv')
    BY <1>3, ReadStep, EndStep, PublishStep
  <1>4. LaunchInv' /\ FoundInv' /\ (overlapped' \/ AloneInv')
    BY <1>2, <1>3, StepKinds DEF IInv
  <1>. QED  BY <1>1, <1>4 DEF IInv

LEMMA Invariance == Spec => []IInv
  BY InvInit, InvStep, PTL DEF Spec

-----------------------------------------------------------------------------
(* Results *)

LEMMA InvMeansOneStack == IInv => StackInv
  <1> SUFFICES ASSUME IInv PROVE StackInv
    OBVIOUS
  <1> DEFINE published == {l \in Launchers : pc[l] \in Published}
  <1>1. ASSUME AloneInv PROVE Cardinality(published) <= 1
    <2>1. published \subseteq {supervisor}
      BY <1>1 DEF AloneInv, PublishedIsNamed
    <2>2. IsFiniteSet({supervisor}) /\ Cardinality({supervisor}) = 1
      BY FS_Singleton
    <2> HIDE DEF published
    <2>. QED  BY <2>1, <2>2, FS_Subset
  <1>. QED  BY <1>1 DEF IInv, StackInv, OneStack

\* At most one launcher is published and runs services, however many start,
\* restart, stop and fail and wherever they are interrupted, unless two starts
\* stopped the old stack at the same time (stop_existing_stack, run).
THEOREM OneStackRuns == Spec => []StackInv
  BY Invariance, InvMeansOneStack, PTL

\* A launcher leaves "ending" with what it is to do next by ending its target only.
LEMMA EndsByEnding ==
    ASSUME IInv, [Next]_vars, NEW l \in Launchers,
           pc[l] = "ending", pc'[l] \in {"publishing", "done"}
    PROVE  EndLauncher(l)
  <1>0. pc \in [Launchers -> Steps]
    BY DEF IInv, TypeOK
  <1>1. "ending" \notin Published \cup {"unused", "reading", "waiting", "killing", "publishing"}
    BY StepNames DEF Stopping, Ended
  <1>2. ASSUME Advances PROVE FALSE
    BY <1>1, <1>2 DEF Advances, Onward, Begins
  <1>3. ASSUME NEW x \in Launchers, Read(x) \/ Publish(x) PROVE FALSE
    BY <1>0, <1>1, <1>3 DEF Read, Publish, Go
  <1>4. ASSUME NEW x \in Launchers, EndLauncher(x) PROVE x = l
    BY <1>4, EndEffect
  <1>5. ASSUME \/ Launches \/ Rests
               \/ \E x \in Launchers : Wait(x) \/ KillServices(x) \/ Moves(x) \/ Leaves(x)
        PROVE  FALSE
    BY <1>2, <1>5, AdvanceKinds
  <1>. QED  BY <1>3, <1>4, <1>5, StepKinds DEF IInv

LEMMA StopsStep == IInv /\ [Next]_vars => overlapped \/ \A l \in Launchers : Stops(l)
  <1> SUFFICES ASSUME IInv, [Next]_vars, ~overlapped, NEW l \in Launchers,
                      pc[l] = "ending", pc'[l] \in {"publishing", "done"},
                      NEW x \in found[l]
               PROVE  pc'[x] \in Ended /\ \A s \in Services : service'[x][s] = "none"
    BY DEF Stops
  <1>1. EndLauncher(l)
    BY EndsByEnding
  <1>2. x \in Launchers \ {l} /\ x = target[l]
    BY DEF IInv, TypeOK, FoundInv, AloneInv, FoundIsTarget, Stopping
  <1>3. pc'[x] \in Ended /\ service'[x] = NoService
    BY <1>1, <1>2, EndEffect DEF Ended
  <1>. QED  BY <1>3 DEF NoService

\* Every launcher that had published itself when a stop or a restart began has
\* ended, with its services, when that one reports done or goes on to publish
\* itself: the process it opened from the files is the right one, whatever starts
\* and fails in between (stop_existing_stack).
THEOREM WhatRanIsStopped == Spec => StopStops
  <1>1. IInv /\ [Next]_vars => [overlapped \/ \A l \in Launchers : Stops(l)]_vars
    BY StopsStep
  <1>. QED  BY <1>1, Invariance, PTL DEF StopStops, Spec

LEMMA EndedRunNothing ==
    ASSUME IInv, NEW x \in Launchers, pc[x] \in Ended
    PROVE  ~Alive(x) /\ NoServices(x)
  BY StepNames DEF IInv, ServiceInv, Alive

LEMMA CloseStep == IInv /\ [Next]_vars => overlapped \/ LeavesNothing
  <1> SUFFICES ASSUME IInv, ~overlapped, Closes, NEW x \in panel.children \cup found[panel.helper]
               PROVE  ~Alive(x) /\ NoServices(x)
    BY DEF LeavesNothing
  <1>1. panel.helper \in Launchers /\ panel.children \subseteq Launchers
        /\ found \in [Launchers -> SUBSET Launchers]
    BY DEF IInv, TypeOK, Closes
  <1>2. panel'.state = "none" /\ PollShutdown
    BY DEF Closes
  <1>3. ~Reopen
    <2>1. panel \in Panel
      BY TypeParts DEF IInv, PanelType
    <2>. QED  BY <1>2, <2>1 DEF Reopen, Panel
  <1>4. pc[panel.helper] = "done" /\ Kept = {}
    BY <1>2, <1>3 DEF PollShutdown, AllStopped
  <1>5. x \in panel.children => pc[x] \in Ended
    BY <1>4 DEF Kept, Alive
  <1>6. x \in found[panel.helper] => pc[x] \in Ended
    BY <1>1, <1>4 DEF IInv, AloneInv, FoundIsEnded, Ended
  <1>. QED  BY <1>1, <1>5, <1>6, EndedRunNothing

\* When the panel closes, every launcher it started and every one that ran when
\* it began to close has ended and none of their services runs (poll_shutdown,
\* begin_shutdown), also when launchers are started or killed meanwhile.
THEOREM NothingIsLeft == Spec => CloseIsClean
  <1>1. IInv /\ [Next]_vars => [overlapped \/ LeavesNothing]_vars
    BY CloseStep
  <1>. QED  BY <1>1, Invariance, PTL DEF CloseIsClean, Spec
=============================================================================
