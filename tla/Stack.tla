-------------------------------- MODULE Stack --------------------------------
(***************************************************************************)
(* Who runs the services: launchers that start, restart and stop them      *)
(* (launcher/src/main.rs), the job that holds a launcher's services        *)
(* (launcher/src/process_tree.rs) and the control panel that starts and    *)
(* cancels launchers and closes only once all is stopped                   *)
(* (control-panel/src/main.rs).                                            *)
(*                                                                         *)
(* They meet in files: supervisor-state.json and status.json name a        *)
(* launcher and its services, shutdown-<pid>.requested asks one to end,    *)
(* panel-state.json names the panel. A process id is never given twice.    *)
(* A service that is started finds its port free or, while another         *)
(* launcher's holds it, exits; the Host has no port.                       *)
(***************************************************************************)
EXTENDS Integers, FiniteSets, Sequences

CONSTANTS
    MaxLaunchers, \* bound: launchers started
    MaxPanels,    \* bound: panels started
    MaxFaults,    \* bound: processes that are killed or exit by themselves
    Faults,       \* which: "launcher", "service", "panel"; "stop" is a stop that fails
    Order,        \* the services in the order they start: TURN, signaling, host
    None          \* no launcher

Launchers == 1..MaxLaunchers

ASSUME StackBounds ==
    /\ MaxLaunchers \in Nat /\ MaxPanels \in Nat /\ MaxFaults \in Nat
    /\ None \notin Nat
    /\ Order \in Seq({"turn", "signaling", "host"})
    /\ Len(Order) > 0 /\ Order[Len(Order)] = "host"

VARIABLES
    started,    \* how many launchers there were; their ids
    faults,     \* how many processes were killed
    pc,         \* where each launcher is
    kind,       \* what it was started for
    target,     \* the launcher it found running, whose handle it holds
    handles,    \* the services it found running, of the launcher status.json names
    watched,    \* the panel it watches
    service,    \* its services
    marker,     \* shutdown-<pid>.requested
    supervisor, \* supervisor-state.json
    status,     \* status.json
    panel,      \* the panel: which one, what it does, its stop helper and children
    overlapped, \* two starts stopped the old stack at the same time
    found       \* the launchers that had published themselves when it began to stop

files == <<marker, supervisor, status>>
held == <<target, handles, found>>
vars == <<started, faults, pc, kind, held, watched, service, files, panel, overlapped>>

-----------------------------------------------------------------------------
(* Processes *)

Services == {Order[n] : n \in 1..Len(Order)}

Ended == {"unused", "done", "failed"}

\* What follows once the launcher published itself as the supervisor.
Published == {"probing", "opening", "watching", "supervising", "stopping"} \cup Services

Steps == Ended \cup Published \cup {"reading", "waiting", "killing", "ending", "publishing"}

Kinds == {"start", "stop", "uninstall"}

Alive(l) == pc[l] \notin Ended

Runs(l, s) == service[l][s] \in {"starting", "up"}

NoServices(l) == \A s \in Services : ~Runs(l, s)

Listens(s) == \E l \in Launchers : service[l][s] = "up"

NoService == [s \in Services |-> "none"]

Kept == {c \in panel.children : Alive(c)}

TypeOK ==
    /\ started \in 0..MaxLaunchers /\ faults \in 0..MaxFaults
    /\ pc \in [Launchers -> Steps] /\ kind \in [Launchers -> Kinds]
    /\ target \in [Launchers -> Launchers \cup {None}]
    /\ handles \in [Launchers -> SUBSET (Launchers \X Services)]
    /\ found \in [Launchers -> SUBSET Launchers]
    /\ watched \in [Launchers -> 0..MaxPanels]
    /\ service \in [Launchers -> [Services -> {"none", "starting", "up"}]]
    /\ marker \in SUBSET Launchers
    /\ {supervisor, status} \subseteq Launchers \cup {None}
    /\ panel \in [number : 0..MaxPanels, state : {"none", "up", "closing"},
                  helper : Launchers \cup {None}, children : SUBSET Launchers]
    /\ panel.state = "closing" <=> panel.helper # None
    /\ overlapped \in BOOLEAN

Init ==
    /\ started = 0 /\ faults = 0
    /\ pc = [l \in Launchers |-> "unused"] /\ kind = [l \in Launchers |-> "start"]
    /\ target = [l \in Launchers |-> None] /\ handles = [l \in Launchers |-> {}]
    /\ found = [l \in Launchers |-> {}]
    /\ watched = [l \in Launchers |-> 0]
    /\ service = [l \in Launchers |-> NoService]
    /\ marker = {} /\ supervisor = None /\ status = None
    /\ panel = [number |-> 0, state |-> "none", helper |-> None, children |-> {}]
    /\ overlapped = FALSE

Go(l, step) == pc' = [pc EXCEPT ![l] = step]

\* Windows closes the job of a launcher that is gone, and with it its services.
Gone(l, step) ==
    /\ Go(l, step)
    /\ service' = [service EXCEPT ![l] = NoService]

Fault(f) ==
    /\ f \in Faults
    /\ faults < MaxFaults /\ faults' = faults + 1

Launch(k) ==
    LET l == started + 1
    IN /\ started < MaxLaunchers
       /\ started' = l
       /\ Go(l, "reading")
       /\ kind' = [kind EXCEPT ![l] = k]

\* From its shortcut or an installer.
UserLaunches(k) ==
    /\ Launch(k)
    /\ UNCHANGED <<faults, held, watched, service, files, panel, overlapped>>

-----------------------------------------------------------------------------
(* Stopping what runs: stop_existing_stack *)

\* The process a file names, if it runs and is another one.
Open(l, p) == IF p # None /\ p # l /\ Alive(p) THEN p ELSE None

\* A mutant: only a launcher whose services are published is stopped.
OpenByStatus(l) == Open(l, status)

OpenLauncher(l) ==
    IF Open(l, supervisor) # None THEN supervisor ELSE Open(l, status)

Read(l) ==
    LET managed == OpenLauncher(l) # None /\ OpenLauncher(l) = supervisor
    IN /\ pc[l] = "reading"
       /\ target' = [target EXCEPT ![l] = OpenLauncher(l)]
       /\ handles' = [handles EXCEPT ![l] =
             {h \in {status} \X Services : h[1] \notin {None, l} /\ Runs(h[1], h[2])}]
       /\ found' = [found EXCEPT ![l] = {x \in Launchers \ {l} : pc[x] \in Published}]
       /\ marker' = IF managed THEN marker \cup {supervisor} ELSE marker
       /\ Go(l, IF managed THEN "waiting" ELSE "killing")
       /\ overlapped' = (overlapped \/
             (kind[l] = "start" /\ \E x \in Launchers \ {l} :
                 kind[x] = "start" /\ pc[x] \in {"waiting", "killing", "ending", "publishing"}))
       /\ UNCHANGED <<started, faults, kind, watched, service, supervisor, status, panel>>

\* The target exits, or is terminated after 30 s.
Wait(l) ==
    /\ pc[l] = "waiting"
    /\ IF Alive(target[l])
       THEN /\ pc' = [pc EXCEPT ![l] = "killing", ![target[l]] = "failed"]
            /\ service' = [service EXCEPT ![target[l]] = NoService]
       ELSE Go(l, "killing") /\ UNCHANGED service
    /\ UNCHANGED <<started, faults, kind, held, watched, files, panel, overlapped>>

\* The services that still run are killed with their descendants.
KillServices(l) ==
    /\ pc[l] = "killing"
    /\ service' = [x \in Launchers |-> [s \in Services |->
           IF <<x, s>> \in handles[l] THEN "none" ELSE service[x][s]]]
    /\ Go(l, "ending")
    /\ UNCHANGED <<started, faults, kind, held, watched, files, panel, overlapped>>

\* Access is denied, or a process does not end in time.
StopFails(l) ==
    /\ pc[l] \in {"reading", "waiting", "killing", "ending"} /\ Fault("stop")
    /\ Go(l, "failed")
    /\ UNCHANGED <<started, kind, held, watched, service, files, panel, overlapped>>

AfterStop(l) == IF kind[l] = "start" THEN "publishing" ELSE "done"

\* The launcher is terminated if it still runs. A stop is then complete; an
\* uninstall has the panel killed, with the launchers it started.
EndLauncher(l) ==
    LET t == target[l]
        tree == IF kind[l] = "uninstall" THEN (Kept \cup {panel.helper}) \ {l, None} ELSE {}
        dead == (IF t = None THEN {} ELSE {t}) \cup tree
    IN /\ pc[l] = "ending"
       /\ pc' = [x \in Launchers |-> IF x = l THEN AfterStop(l)
                                    ELSE IF x \in dead /\ Alive(x) THEN "failed" ELSE pc[x]]
       /\ service' = [x \in Launchers |-> IF x \in dead THEN NoService ELSE service[x]]
       /\ marker' = (marker \ {t}) \ (IF kind[l] = "start" THEN {} ELSE {l})
       /\ panel' = IF kind[l] = "uninstall"
                   THEN [panel EXCEPT !.state = "none", !.helper = None, !.children = {}]
                   ELSE panel
       /\ target' = [target EXCEPT ![l] = None]
       /\ handles' = [handles EXCEPT ![l] = {}]
       /\ UNCHANGED <<started, faults, kind, found, watched, supervisor, status, overlapped>>

-----------------------------------------------------------------------------
(* Starting the services: run, run_services *)

\* A mutant: the supervisor is published by its status only.
PublishStatusOnly(l) ==
    /\ pc[l] = "publishing"
    /\ found' = [found EXCEPT ![l] = {}]
    /\ Go(l, "probing")
    /\ UNCHANGED <<started, faults, kind, target, handles, watched, service, files, panel,
                   overlapped>>

Publish(l) ==
    /\ pc[l] = "publishing"
    /\ supervisor' = l
    /\ found' = [found EXCEPT ![l] = {}]
    /\ Go(l, "probing")
    /\ UNCHANGED <<started, faults, kind, target, handles, watched, service, marker, status, panel,
                   overlapped>>

\* A mutant: the marker is looked for while the services start only.
CancelledAtStart(l) ==
    /\ pc[l] \in Published \ {"supervising", "stopping"}
    /\ l \in marker
    /\ Go(l, "stopping")
    /\ UNCHANGED <<started, faults, kind, held, watched, service, files, panel, overlapped>>

\* The marker is looked for in every loop and between the steps.
Cancelled(l) ==
    /\ pc[l] \in Published \ {"stopping"}
    /\ l \in marker
    /\ Go(l, "stopping")
    /\ UNCHANGED <<started, faults, kind, held, watched, service, files, panel, overlapped>>

Spawn(l, s) == service' = [service EXCEPT ![l][s] = "starting"]

\* The video pipeline is probed up to three times, each time in a job of its
\* own. Once a probe succeeds, configuration and firewall are written and the
\* first service starts.
Probe(l) ==
    /\ pc[l] = "probing" /\ l \notin marker
    /\ \/ Go(l, Order[1]) /\ Spawn(l, Order[1])
       \/ Go(l, "stopping") /\ UNCHANGED service
    /\ UNCHANGED <<started, faults, kind, held, watched, files, panel, overlapped>>

\* A service comes up, or exits because its port is taken.
ServiceStarts(l, s) ==
    /\ service[l][s] = "starting"
    /\ service' = [service EXCEPT ![l][s] = IF s # "host" /\ Listens(s) THEN "none" ELSE "up"]
    /\ UNCHANGED <<started, faults, pc, kind, held, watched, files, panel, overlapped>>

\* wait_for_tcp_listener, wait_for_health, wait_for_device: the launcher's own
\* child still runs and the address answers, whoever it is that answers; the
\* Host answers through signaling.
Answers(l, s) ==
    /\ Runs(l, s) /\ Listens(s)
    /\ s = "host" => \A t \in Services : t = "signaling" => Listens(t)

ServiceReady(l, n) ==
    /\ pc[l] = Order[n] /\ l \notin marker /\ Answers(l, Order[n])
    /\ Go(l, Order[n + 1]) /\ Spawn(l, Order[n + 1])
    /\ UNCHANGED <<started, faults, kind, held, watched, files, panel, overlapped>>

HostReady(l) ==
    /\ pc[l] = "host" /\ l \notin marker /\ Answers(l, "host")
    /\ Go(l, "opening")
    /\ status' = l
    /\ UNCHANGED <<started, faults, kind, held, watched, service, marker, supervisor,
                   panel, overlapped>>

\* The step failed: a child exited, nothing answered in time, the panel did not
\* come up.
StartFails(l) ==
    /\ \/ pc[l] \in Services /\ (~Runs(l, pc[l]) \/ ~Answers(l, pc[l]))
       \/ pc[l] = "watching" /\ panel.state = "none"
    /\ Go(l, "stopping")
    /\ UNCHANGED <<started, faults, kind, held, watched, service, files, panel, overlapped>>

\* The panel is started; one that runs already is brought to the front.
OpenPanel(l) ==
    /\ pc[l] = "opening" /\ l \notin marker
    /\ Go(l, "watching")
    /\ \/ panel.state # "none" /\ UNCHANGED panel
       \/ /\ panel.state = "none" /\ panel.number < MaxPanels
          /\ panel' = [number |-> panel.number + 1, state |-> "up", helper |-> None,
                       children |-> {}]
       \/ panel.state = "none" /\ panel.number = MaxPanels /\ UNCHANGED panel
    /\ UNCHANGED <<started, faults, kind, held, watched, service, files, overlapped>>

\* wait_for_control_panel holds a handle of the panel.
WatchPanel(l) ==
    /\ pc[l] = "watching" /\ l \notin marker /\ panel.state # "none"
    /\ watched' = [watched EXCEPT ![l] = panel.number]
    /\ Go(l, "supervising")
    /\ UNCHANGED <<started, faults, kind, held, service, files, panel, overlapped>>

PanelExited(l) == panel.state = "none" \/ panel.number # watched[l]

\* A mutant: the supervisor does not watch the panel.
SuperviseServices(l) ==
    /\ pc[l] = "supervising"
    /\ \E s \in Services : ~Runs(l, s)
    /\ Go(l, "stopping")
    /\ UNCHANGED <<started, faults, kind, held, watched, service, files, panel, overlapped>>

\* The supervisor's loop ends.
Supervise(l) ==
    /\ pc[l] = "supervising"
    /\ PanelExited(l) \/ \E s \in Services : ~Runs(l, s)
    /\ Go(l, "stopping")
    /\ UNCHANGED <<started, faults, kind, held, watched, service, files, panel, overlapped>>

\* job.stop, and the marker is taken away.
StopJob(l) ==
    /\ pc[l] = "stopping"
    /\ Gone(l, "done")
    /\ marker' = marker \ {l}
    /\ UNCHANGED <<started, faults, kind, held, watched, supervisor, status, panel,
                   overlapped>>

-----------------------------------------------------------------------------
(* The control panel *)

\* The Start and Restart buttons, and a change of the login.
PanelStarts(k) ==
    /\ panel.state = "up"
    /\ Launch(k)
    /\ panel' = [panel EXCEPT !.children = @ \cup {started + 1}]
    /\ UNCHANGED <<faults, held, watched, service, files, overlapped>>

\* begin_shutdown: what the panel started is cancelled, and a helper stops the
\* rest.
BeginShutdown ==
    /\ panel.state = "up"
    /\ Launch("stop")
    /\ marker' = marker \cup Kept
    /\ panel' = [panel EXCEPT !.state = "closing", !.helper = started + 1,
                              !.children = Kept]
    /\ UNCHANGED <<faults, held, watched, service, supervisor, status, overlapped>>

StatusRuns == status # None /\ (Alive(status) \/ ~NoServices(status))

\* A mutant: the panel closes once its helper is done.
NothingAwaited == TRUE

\* Nothing the panel started or status.json names runs any more.
AllStopped == ~StatusRuns /\ Kept = {}

Reopen == panel' = [panel EXCEPT !.state = "up", !.helper = None]

\* poll_shutdown, after 45 s at the latest.
PollShutdown ==
    /\ panel.state = "closing" /\ ~Alive(panel.helper)
    /\ IF pc[panel.helper] = "done" /\ AllStopped
       THEN panel' = [panel EXCEPT !.state = "none", !.helper = None, !.children = {}]
       ELSE Reopen
    /\ UNCHANGED <<started, faults, pc, kind, held, watched, service, files, overlapped>>

-----------------------------------------------------------------------------
(* Faults *)

LauncherKilled(l) ==
    /\ Alive(l) /\ Fault("launcher")
    /\ Gone(l, "failed")
    /\ UNCHANGED <<started, kind, held, watched, files, panel, overlapped>>

ServiceExits(l, s) ==
    /\ Runs(l, s) /\ Fault("service")
    /\ service' = [service EXCEPT ![l][s] = "none"]
    /\ UNCHANGED <<started, pc, kind, held, watched, files, panel, overlapped>>

PanelKilled ==
    /\ panel.state # "none" /\ Fault("panel")
    /\ panel' = [panel EXCEPT !.state = "none", !.helper = None, !.children = {}]
    /\ UNCHANGED <<started, pc, kind, held, watched, service, files, overlapped>>

-----------------------------------------------------------------------------

LauncherStep(l) ==
    \/ Read(l) \/ Wait(l) \/ KillServices(l) \/ EndLauncher(l)
    \/ Publish(l) \/ Cancelled(l) \/ Probe(l)
    \/ \E n \in 1..(Len(Order) - 1) : ServiceReady(l, n)
    \/ HostReady(l) \/ StartFails(l)
    \/ OpenPanel(l) \/ WatchPanel(l) \/ Supervise(l) \/ StopJob(l)

Next ==
    \/ \E k \in {"start", "uninstall"} : UserLaunches(k)
    \/ \E k \in {"start", "stop"} : PanelStarts(k)
    \/ BeginShutdown \/ PollShutdown \/ PanelKilled
    \/ \E l \in Launchers :
        \/ LauncherStep(l) \/ StopFails(l) \/ LauncherKilled(l)
        \/ \E s \in Services : ServiceStarts(l, s) \/ ServiceExits(l, s)

Spec == Init /\ [][Next]_vars

\* Every process goes on; a service comes up or exits.
FairSpec ==
    /\ Spec
    /\ \A l \in Launchers :
        /\ WF_vars(LauncherStep(l))
        /\ \A s \in Services : WF_vars(ServiceStarts(l, s))
    /\ WF_vars(PollShutdown)

-----------------------------------------------------------------------------
(* Properties *)

\* At most one launcher runs services, or is about to: unless two starts were
\* stopping the old one at the same time, each launcher finds and stops the one
\* before it.
OneStack ==
    overlapped \/ Cardinality({l \in Launchers : pc[l] \in Published}) <= 1

\* Launchers, services and files are in states they can be in, with one stack.
StackInv == TypeOK /\ OneStack

\* A launcher that was there when a stop or a restart began, is gone with its
\* services when it goes on: the id that supervisor-state.json or status.json
\* names is the right one, though starts and faults come in between.
Stops(l) ==
    pc[l] = "ending" /\ pc'[l] \in {"publishing", "done"}
        => \A x \in found[l] : pc'[x] \in Ended /\ \A s \in Services : service'[x][s] = "none"

StopStops == [][overlapped \/ \A l \in Launchers : Stops(l)]_vars

\* The panel closes only once what it started, and what ran when it began to
\* close, has ended with its services (README.md:89-91).
Closes == panel.state = "closing" /\ PollShutdown /\ panel'.state = "none"

LeavesNothing ==
    Closes => \A x \in panel.children \cup found[panel.helper] : ~Alive(x) /\ NoServices(x)

CloseIsClean == [][overlapped \/ LeavesNothing]_vars

\* No service outlives the panel for good, even one that was killed: its
\* supervisor ends, or another panel was opened (README.md:95-96).
PanelGoneServicesGone ==
    panel.state = "none"
        ~> panel.state # "none" \/ \A l \in Launchers : NoServices(l)

\* A launcher that was asked to end does, wherever it is in its start.
CancelledEnds ==
    \A l \in Launchers : (l \in marker /\ Alive(l)) ~> ~Alive(l)

\* The panel does not stay disabled: it closes or comes back with an error.
CloseEnds == panel.state = "closing" ~> panel.state # "closing"

\* What was asked to end does, also the panel's close.
StopsEnd == CancelledEnds /\ CloseEnds
=============================================================================
