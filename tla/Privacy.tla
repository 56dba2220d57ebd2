------------------------------- MODULE Privacy -------------------------------
(***************************************************************************)
(* The privacy screen of the control panel                                 *)
(* (control-panel/src/main.rs, privacy.rs): while a client is connected an *)
(* overlay covers the desktop of the Host, and once it has disconnected    *)
(* the overlay stays until somebody touches the Host's own keyboard or     *)
(* mouse.                                                                  *)
(*                                                                         *)
(* The panel's one thread handles messages: the 500 ms timer, clicks, a    *)
(* posted physical input and window events. A posted message is handled    *)
(* before the timer and clicks. The hooks run in a thread of their own and *)
(* share only LOCAL_INPUT_ARMED with it. What the Host and other processes *)
(* say is read from files that fs::write first empties: a refresh between  *)
(* the two finds nothing and goes on with the defaults.                    *)
(***************************************************************************)
CONSTANT
    None \* no refresh is running; a file is being written

ASSUME NoneAssumption == None \notin [connected : BOOLEAN, settings : BOOLEAN]

VARIABLES
    conn,      \* a client is connected and the desktop is captured
    status,    \* host-state.json
    disk,      \* the privacy setting in control-settings.json
    pending,   \* the setting a second process is writing
    read,      \* what the running refresh read from the files
    settings,  \* self.settings.privacy_screen_on_connect
    connected, \* self.client_connected
    supported, \* self.privacy_supported
    latched,   \* self.privacy_latched
    visible,   \* self.privacy_visible, the overlay
    popup,     \* another window is above the overlay
    armed,     \* LOCAL_INPUT_ARMED
    failing,   \* a hook could not post and has not armed again
    posted,    \* WM_LOCAL_PHYSICAL_INPUT is in the queue
    window,    \* the panel
    noticed,   \* a refresh saw the client that is connected
    touched,   \* a physical input was made since a refresh last saw a client
    misread    \* a refresh found an empty file

host == <<conn, status>>
policy == <<disk, pending>>
overlay == <<latched, visible, popup>>
hook == <<armed, failing, posted>>
ghosts == <<noticed, touched, misread>>
panel == <<read, settings, connected, supported, window>>
vars == <<host, policy, panel, overlay, hook, ghosts>>

TypeOK ==
    /\ {conn, settings, connected, supported, latched, visible, popup, armed, failing, posted,
     noticed, touched, misread} \subseteq BOOLEAN
    /\ status \in {"connected", "idle", None}
    /\ {disk, pending} \subseteq BOOLEAN \cup {None}
    /\ read \in [connected : BOOLEAN, settings : BOOLEAN] \cup {None}
    /\ window \in {"open", "closing", "gone"}
    /\ visible => latched /\ supported
    /\ window = "gone" => ~visible

Init ==
    /\ conn = FALSE /\ status = "idle" /\ noticed = FALSE /\ touched = FALSE /\ misread = FALSE
    /\ disk = FALSE /\ pending = None /\ settings = FALSE
    /\ read = None /\ connected = FALSE /\ supported \in BOOLEAN
    /\ latched = FALSE /\ visible = FALSE /\ popup = FALSE
    /\ armed = FALSE /\ failing = FALSE /\ posted = FALSE
    /\ window = "open"

-----------------------------------------------------------------------------
(* The Host and its status file *)

StatusOf(c) == IF c THEN "connected" ELSE "idle"

\* The file is written with each change, and once more when a session that was
\* replaced ends.
HostWrites(c) ==
    /\ conn' = c
    /\ status' = None
    /\ noticed' = (noticed /\ conn /\ c)
    /\ UNCHANGED <<policy, panel, overlay, hook, touched, misread>>

HostWritten ==
    /\ status = None
    /\ status' = StatusOf(conn)
    /\ UNCHANGED <<conn, policy, panel, overlay, hook, ghosts>>

-----------------------------------------------------------------------------
(* refresh *)

Free == read = None

\* Both files are read, the setting as d; an empty one is the default.
ReadFiles(d) ==
    /\ read' = [connected |-> status = "connected", settings |-> IF d = None THEN FALSE ELSE d]
    /\ misread' = (misread \/ status = None \/ d = None)

\* WM_TIMER
BeginRefresh ==
    /\ Free /\ window = "open" /\ ~posted
    /\ ReadFiles(disk)
    /\ UNCHANGED <<host, policy, settings, connected, supported, window, overlay, hook,
                   noticed, touched>>

\* next_privacy_latch
NextPrivacyLatch(l, c, s, enabled) == s /\ enabled /\ (c \/ l)

\* A mutant: the order is repaired when the overlay is shown only.
ShownOnTop(v) ==
    /\ visible' = v
    /\ popup' = IF v /\ ~visible THEN FALSE ELSE popup

\* set_privacy_visible: whatever is above a visible overlay is passed.
SetVisible(v) ==
    /\ visible' = v
    /\ popup' = IF v THEN FALSE ELSE popup

\* A mutant: the hooks are armed by the refresh that sees the disconnect only.
ArmedOnce(shown, c) == shown /\ ~c /\ connected

ArmedFor(shown, c) == shown /\ ~c

EndRefresh ==
    LET c == read.connected
        s == read.settings
    IN /\ read # None
       /\ read' = None /\ connected' = c /\ settings' = s
       /\ latched' = NextPrivacyLatch(latched, c, supported, s)
       /\ SetVisible(latched')
       /\ armed' = ArmedFor(latched', c)
       /\ noticed' = (conn /\ (c \/ noticed))
       /\ touched' = (touched /\ ~c)
       /\ UNCHANGED <<host, policy, supported, failing, posted, window, misread>>

-----------------------------------------------------------------------------
(* The local user *)

\* A mutant: remote input counts.
AnyInput(injected) == TRUE

\* keyboard_input_is_physical, mouse_input_is_physical
IsPhysical(injected) == ~injected

\* notify_local_physical_input
Input(injected) ==
    /\ armed /\ IsPhysical(injected)
    /\ armed' = FALSE /\ posted' = TRUE
    /\ touched' = (touched \/ ~injected)
    /\ UNCHANGED <<host, policy, panel, overlay, failing, noticed, misread>>

\* PostMessageW fails; the hook arms again.
PostFails ==
    /\ armed /\ ~failing
    /\ armed' = FALSE /\ failing' = TRUE
    /\ UNCHANGED <<host, policy, panel, overlay, posted, ghosts>>

Rearm ==
    /\ failing
    /\ failing' = FALSE /\ armed' = TRUE
    /\ UNCHANGED <<host, policy, panel, overlay, posted, ghosts>>

\* A mutant: the input is not compared with what the panel learned since.
ReleaseLatched ==
    /\ Free /\ posted
    /\ posted' = FALSE /\ armed' = FALSE
    /\ latched' = FALSE /\ SetVisible(FALSE)
    /\ UNCHANGED <<host, policy, panel, failing, ghosts>>

\* WM_LOCAL_PHYSICAL_INPUT, release_privacy_from_local_input
Release ==
    /\ Free /\ posted
    /\ posted' = FALSE /\ armed' = FALSE
    /\ IF latched /\ ~connected
       THEN latched' = FALSE /\ SetVisible(FALSE)
       ELSE UNCHANGED overlay
    /\ UNCHANGED <<host, policy, panel, failing, ghosts>>

\* A mutant: the next refresh finds the setting unchanged.
ToggleUnrefreshed(new) ==
    /\ Free /\ window = "open" /\ ~posted
    /\ settings' = new /\ disk' = new
    /\ UNCHANGED <<host, pending, read, connected, supported, window, overlay, hook, ghosts>>

\* A click: the settings are written as the panel knows them and everything is
\* refreshed.
Toggle(new) ==
    /\ Free /\ window = "open" /\ ~posted
    /\ settings' = new /\ disk' = new
    /\ ReadFiles(new)
    /\ UNCHANGED <<host, pending, connected, supported, window, overlay, hook, noticed,
                   touched>>

TogglePrivacy == supported /\ Toggle(~settings)

ToggleMute == Toggle(settings)

\* A second process of the panel, --set-privacy or --set-host-mute.
CommandSets(value) ==
    /\ pending = None
    /\ disk' = None /\ pending' = value
    /\ UNCHANGED <<host, panel, overlay, hook, ghosts>>

CommandWritten ==
    /\ pending # None
    /\ disk' = pending /\ pending' = None
    /\ UNCHANGED <<host, panel, overlay, hook, ghosts>>

-----------------------------------------------------------------------------
(* Other windows and the end of the panel *)

WindowAbove ==
    /\ visible /\ ~popup /\ popup' = TRUE
    /\ UNCHANGED <<host, policy, panel, latched, visible, hook, ghosts>>

\* on_window_event, keep_above_popups; Windows may not report every window.
OnWindowEvent ==
    /\ Free /\ visible /\ popup
    /\ popup' = FALSE
    /\ UNCHANGED <<host, policy, panel, latched, visible, hook, ghosts>>

\* begin_shutdown: clicks and the timer's refresh are ignored from now on.
Close ==
    /\ Free /\ window = "open" /\ ~posted
    /\ window' = "closing"
    /\ UNCHANGED <<host, policy, read, settings, connected, supported, overlay, hook, ghosts>>

\* poll_shutdown: the panel is usable again, or destroyed with its overlay.
CloseFails ==
    /\ Free /\ window = "closing" /\ ~posted
    /\ window' = "open"
    /\ UNCHANGED <<host, policy, read, settings, connected, supported, overlay, hook, ghosts>>

Destroy ==
    /\ Free /\ window = "closing" /\ ~posted
    /\ window' = "gone"
    /\ SetVisible(FALSE)
    /\ armed' = FALSE /\ failing' = FALSE
    /\ UNCHANGED <<host, policy, read, settings, connected, supported, latched, posted,
                   ghosts>>

-----------------------------------------------------------------------------

\* The panel's thread
Pump == BeginRefresh \/ EndRefresh \/ Release

\* The model ends with the panel.
Next ==
    /\ window # "gone"
    /\ \/ \E c \in BOOLEAN : HostWrites(c)
       \/ HostWritten
       \/ Pump
       \/ \E i \in BOOLEAN : Input(i)
       \/ PostFails \/ Rearm
       \/ TogglePrivacy \/ ToggleMute
       \/ \E v \in BOOLEAN : CommandSets(v)
       \/ CommandWritten
       \/ WindowAbove \/ OnWindowEvent
       \/ Close \/ CloseFails \/ Destroy

Spec == Init /\ [][Next]_vars

\* The panel's thread handles its messages, the hooks run, a close ends, and the
\* user closes it less often than twice a second; a local user who wants the
\* screen back goes on trying.
FairSpec ==
    /\ Spec
    /\ SF_vars(Pump) /\ WF_vars(Rearm)
    /\ WF_vars(CloseFails \/ Destroy)
    /\ SF_vars(Input(FALSE))

-----------------------------------------------------------------------------
(* Properties *)

\* While the panel knows of a client it covers the desktop, whatever inputs,
\* clicks and writes came between two refreshes.
KnownClientIsCovered ==
    connected /\ settings /\ supported /\ read = None /\ window # "gone" => visible

\* The overlay goes only because somebody touched the Host since the client was
\* last seen, because the setting was turned off or its file found empty, or
\* with the panel (README.md:114-116).
LiftedByUser ==
    [][visible /\ ~visible' => touched \/ ~settings' \/ window' = "gone"]_vars

\* An input does not lift it from a client the panel has already seen
\* (README.md:105-106), unless a refresh found an empty file.
Lifted == visible /\ ~visible' /\ window' # "gone" /\ settings'

LiftedWhileIdle == [][Lifted /\ ~misread => ~(conn /\ noticed)]_vars

\* A client that stays is covered, and again when another window came above the
\* overlay, if a refresh finds the files whole.
Wanted == disk # None /\ disk

ClientIsCovered ==
    conn /\ Wanted /\ supported
        ~> (visible /\ ~popup) \/ ~conn \/ ~Wanted \/ window # "open" \/ misread

\* A local user who goes on trying gets the screen back.
ScreenComesBack == visible /\ ~conn ~> ~visible \/ conn

(* Why they hold: the inductive invariant *)

\* A posted input that would be obeyed, or is while a refresh runs, was made
\* since a refresh saw a client.
InputIsNew == posted /\ (read # None \/ ~connected) => touched

FileIsTrue == status # None => status = StatusOf(conn)

\* A client that a refresh has seen is known, to the panel and to the refresh
\* that is running.
NoticedIsKnown ==
    conn /\ noticed /\ ~misread => connected /\ (read # None => read.connected)

\* What the panel shows and what it knows fit what there is to know.
PrivacyInv == TypeOK /\ KnownClientIsCovered /\ InputIsNew /\ FileIsTrue /\ NoticedIsKnown
=============================================================================
