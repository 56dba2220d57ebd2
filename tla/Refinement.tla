------------------------------ MODULE Refinement ------------------------------
(***************************************************************************)
(* The lossless picture over the video: the Host's refinement worker       *)
(* (host/src/desktop_tiles.rs, serve), the presentation window its session *)
(* input keeps (host/src/input/mod.rs), the ordered data channel, and the  *)
(* browser's canvas (web/src/desktop-tiles.ts).                            *)
(*                                                                         *)
(* A desktop is a size, a layout and a caret: two desktops of one size and *)
(* layout differ by at most 512 pixels. Inputs are the buttons and wheels, *)
(* told apart by their timestamps; keys and moves touch nothing here and   *)
(* are among the causes of a change of the scene. Times are taken away:    *)
(* what elapses may elapse at any moment its code is awaiting it. How many *)
(* tiles or bytes a change of layout costs, and how long its cycle takes,  *)
(* is any choice; a caret is never large.                                  *)
(***************************************************************************)
EXTENDS Integers, Sequences, FiniteSets

CONSTANTS
    Sizes,        \* desktop sizes
    Layouts,      \* what the desktop shows, up to a caret
    Carets,       \* where its caret is
    MaxInputs,    \* bound: buttons and wheels of the user
    MaxRejects,   \* bound: inputs SendInput rejects
    MaxChanges,   \* bound: changes of the desktop
    None,         \* no desktop, no mask, no input
    Corrupt       \* the canvas holds no desktop that ever was

Desktops == [size : Sizes, layout : Layouts, caret : Carets]

ASSUME DesktopsAssumption ==
    /\ Sizes # {} /\ Layouts # {} /\ Carets # {}
    /\ None \notin Desktops \cup Nat \cup (Nat \X Nat)
    /\ Corrupt \notin Desktops \cup {None}
ASSUME RefinementBounds ==
    MaxInputs \in Nat /\ MaxRejects \in Nat /\ MaxChanges \in Nat

VARIABLES
    scene,        \* the desktop as it is
    changes,      \* how often it changed
    stamp,        \* the last timestamp of a button or wheel; dataset.latestInput
    rejects,      \* how many were rejected
    wire,         \* inputs on their way to the Host
    latest,       \* SessionInput.latest_input
    window,       \* its presentation window is open
    sampled,      \* the worker looked at it since it opened
    slept,        \* a window opened and closed unseen by the worker
    phase,        \* where the worker awaits
    cycle,        \* this cycle's watermark, presentable and animating
    update,       \* the update being sent
    previous,     \* previous, the delta baseline
    id,           \* id and committed
    committed,
    certified,    \* committed_input
    evidence,     \* the newest input state a capture equal to previous was made in
    shown,        \* shown
    mask,         \* last_mask
    stable,       \* stable_since: "none", "since", "held" once it is long enough
    behind,       \* behind, up to MotionStreak
    heavy,        \* last_cycle and last_tiles were those of motion
    down,         \* messages on the channel to the browser
    acks,         \* and back
    canvas        \* the browser's DesktopTiles

user == <<scene, changes, stamp, rejects, wire>>
session == <<latest, window, sampled, slept>>
baseline == <<previous, id, committed, certified, evidence>>
sharp == <<shown, mask, stable>>
motion == <<behind, heavy>>
worker == <<phase, cycle, update, baseline, sharp, motion>>
channel == <<down, acks>>
vars == <<user, session, worker, channel, canvas>>

-----------------------------------------------------------------------------
(* Desktops and types *)

MotionStreak == 3

SameSize(a, b) == a.size = b.size

\* At most 512 pixels apart.
Near(a, b) == SameSize(a, b) /\ a.layout = b.layout

\* changed_tiles compares with a baseline of the same size or with nothing.
From(p, d) == IF p # None /\ SameSize(p, d) THEN p ELSE None

Large(from, d) == ~(from # None /\ Near(from, d))

\* A mutant: a baseline of the right size is near enough.
CanRestoreAnySnapshot(p, d) == SameSize(p, d)

CanRestoreSnapshot(p, d) == SameSize(p, d) /\ (shown \/ Near(p, d))

\* Outside a cycle its locals mean nothing.
NoCycle == [watermark |-> 0, presentable |-> FALSE, animating |-> FALSE]

Phases == {"tick", "look", "sending", "awaiting", "ended"}

Updates == [id : Nat, from : Desktops \cup {None}, to : Desktops, made : Nat]

\* What stands for no update is none.
ASSUME NoUpdateAssumption == None \notin Updates

Messages ==
    [type : {"begin"}, update : Updates] \cup
    [type : {"end", "cancel"}, id : Nat] \cup
    [type : {"show"}, id : Nat, input : Nat, made : Nat, close : BOOLEAN] \cup
    [type : {"invalidate"}]

TypeOK ==
    /\ scene \in Desktops /\ changes \in 0..MaxChanges
    /\ stamp \in 0..MaxInputs /\ rejects \in 0..MaxRejects /\ wire \in Seq(1..MaxInputs)
    /\ latest \in 0..MaxInputs /\ {window, sampled, slept} \subseteq BOOLEAN
    /\ phase \in Phases
    /\ cycle \in [watermark : 0..MaxInputs, presentable : BOOLEAN, animating : BOOLEAN]
    /\ update \in Updates \cup {None}
    /\ previous \in Desktops \cup {None} /\ {id, committed} \subseteq Nat
    /\ certified \in Nat \cup {None} /\ evidence \in Nat
    /\ shown \in BOOLEAN /\ mask \in (Nat \X Nat) \cup {None}
    /\ stable \in {"none", "since", "held"}
    /\ behind \in 0..MotionStreak /\ heavy \in BOOLEAN
    /\ down \in Seq(Messages) /\ acks \in Seq(Nat)
    /\ canvas.pending \in Updates \cup {None} /\ canvas.queue \in Seq(Updates)
    /\ {canvas.received, canvas.lastId, canvas.made} \subseteq Nat
    /\ canvas.base \in Desktops \cup {None, Corrupt}
    /\ canvas.visible \in Desktops \cup {None, Corrupt}
    /\ canvas.closed \in BOOLEAN

NewCanvas == [pending |-> None, queue |-> <<>>, received |-> 0, lastId |-> 0,
              base |-> None, made |-> 0, visible |-> None, closed |-> FALSE]

\* Which of its names the first desktop has means nothing.
First == CHOOSE d \in Desktops : TRUE

Init ==
    /\ scene = First /\ changes = 0 /\ stamp = 0 /\ rejects = 0 /\ wire = <<>>
    /\ latest = 0 /\ window = FALSE /\ sampled = FALSE /\ slept = FALSE
    /\ phase = "tick" /\ update = None
    /\ cycle = NoCycle
    /\ previous = None /\ id = 0 /\ committed = 0 /\ certified = None /\ evidence = 0
    /\ shown = FALSE /\ mask = None /\ stable = "none"
    /\ behind = 0 /\ heavy = FALSE
    /\ down = <<>> /\ acks = <<>>
    /\ canvas = NewCanvas

-----------------------------------------------------------------------------
(* The desktop, the user and the session *)

SceneChanges ==
    /\ changes < MaxChanges
    /\ changes' = changes + 1
    /\ scene' \in Desktops \ {scene}
    /\ UNCHANGED <<stamp, rejects, wire, session, worker, channel, canvas>>

\* #notifyInput: the sharp layer is hidden before the packet is sent.
UserInput ==
    /\ stamp < MaxInputs
    /\ stamp' = stamp + 1
    /\ wire' = Append(wire, stamp + 1)
    /\ canvas' = [canvas EXCEPT !.visible = None]
    /\ UNCHANGED <<scene, changes, rejects, session, worker, channel>>

\* inject_ordered: what SendInput rejects is not observed.
Deliver ==
    /\ wire # <<>>
    /\ wire' = Tail(wire)
    /\ \/ /\ latest' = IF latest > Head(wire) THEN latest ELSE Head(wire)
          /\ window' = TRUE /\ sampled' = FALSE
          /\ UNCHANGED rejects
       \/ /\ rejects < MaxRejects
          /\ rejects' = rejects + 1
          /\ UNCHANGED <<latest, window, sampled>>
    /\ UNCHANGED <<scene, changes, stamp, slept, worker, channel, canvas>>

\* 200 ms, or 220 after a wheel. The worker, which looks every 16 ms, sleeps
\* through it while it sends an update or awaits its acknowledgement, and, at
\* the top of its loop, while the media peer is disconnected.
WindowCloses ==
    /\ window
    /\ window' = FALSE
    /\ slept' = (slept \/ ~sampled)
    /\ UNCHANGED <<user, latest, sampled, worker, channel, canvas>>

-----------------------------------------------------------------------------
(* The refinement worker *)

\* serve returns and its locals are gone; its caller closes the channel.
End ==
    /\ phase' = "ended"
    /\ cycle' = NoCycle /\ update' = None
    /\ previous' = None /\ id' = 0 /\ committed' = 0 /\ certified' = None /\ evidence' = 0
    /\ shown' = FALSE /\ mask' = None /\ stable' = "none"
    /\ behind' = 0 /\ heavy' = FALSE
    /\ acks' = <<>>
    /\ UNCHANGED <<user, session, down, canvas>>

\* The session's retired flag, read at the top of the loop and for each chunk.
Retired == phase \in {"tick", "sending"} /\ End

\* The browser closed the channel.
Stop ==
    /\ canvas.closed
    /\ phase \in {"tick", "sending"} \/ (phase = "awaiting" /\ acks = <<>>)
    /\ End

\* 30 s for an update, 10 s for its acknowledgement.
Timeout == phase \in {"sending", "awaiting"} /\ End

\* The top of the loop: it goes on to a capture once the interval elapsed. That
\* it does not get here while media_active is cleared is a delay.
Sample(due) ==
    LET animating == behind >= MotionStreak
        presentable == ~window
        retract == ~presentable \/ animating
    IN /\ phase = "tick" /\ ~canvas.closed
       /\ cycle' = IF due
                   THEN [watermark |-> latest, presentable |-> presentable,
                         animating |-> animating]
                   ELSE NoCycle
       /\ sampled' = TRUE
       /\ IF retract
          THEN /\ down' = IF shown THEN Append(down, [type |-> "invalidate"]) ELSE down
               /\ shown' = FALSE /\ mask' = None /\ stable' = "none"
          ELSE UNCHANGED <<down, sharp>>
       /\ phase' = IF due THEN "look" ELSE "tick"
       /\ UNCHANGED <<user, latest, window, slept, update, baseline, motion, acks, canvas>>

\* The desktop as the blocking worker finds it, pixel by pixel.
Capture == scene

\* The capture may be presented: the baseline is certified for the input state
\* this cycle began with.
Presents ==
    /\ previous # None
    /\ cycle.presentable /\ ~cycle.animating
    /\ certified = cycle.watermark
    /\ CanRestoreSnapshot(previous, Capture)
    /\ mask # <<committed, cycle.watermark>>

Show ==
    IF Presents
    THEN <<[type |-> "show", id |-> committed, input |-> cycle.watermark,
            made |-> evidence, close |-> Near(previous, Capture)]>>
    ELSE <<>>

Present ==
    /\ mask' = IF Presents THEN <<committed, cycle.watermark>> ELSE mask
    /\ shown' = (shown \/ Presents)

\* A mutant: a scene once found to be moving is never still again.
UnchangedKeepsBehind ==
    /\ Capture = previous
    /\ heavy' = FALSE
    /\ stable' = IF stable = "none" THEN "since" ELSE stable
    /\ certified' = IF stable = "held" THEN cycle.watermark ELSE certified
    /\ evidence' = latest
    /\ phase' = "tick" /\ cycle' = NoCycle
    /\ down' = down \o Show
    /\ UNCHANGED <<update, previous, id, committed, behind>>

\* The capture equals the baseline.
Unchanged ==
    /\ Capture = previous
    /\ behind' = 0 /\ heavy' = FALSE
    /\ stable' = IF stable = "none" THEN "since" ELSE stable
    /\ certified' = IF stable = "held" THEN cycle.watermark ELSE certified
    /\ evidence' = latest
    /\ phase' = "tick" /\ cycle' = NoCycle
    /\ down' = down \o Show
    /\ UNCHANGED <<update, previous, id, committed>>

\* The update committed last was slow and large, and is out of date again.
Behind(n) == IF heavy /\ n < MotionStreak THEN n + 1 ELSE n

\* The capture differs: an update is sent, or declined while the user
\* interacts and it is too large to compete with the video.
Differs ==
    /\ Capture # previous
    /\ behind' = Behind(behind)
    /\ stable' = "none"
    /\ \/ LET u == [id |-> id + 1, from |-> From(previous, Capture), to |-> Capture, made |-> latest]
          IN /\ id' = id + 1 /\ update' = u /\ phase' = "sending"
             /\ cycle' = [NoCycle EXCEPT !.watermark = cycle.watermark]
             /\ down' = down \o Show \o <<[type |-> "begin", update |-> u]>>
       \/ /\ ~cycle.presentable /\ previous # None
          /\ Large(From(previous, Capture), Capture)
          /\ phase' = "tick" /\ cycle' = NoCycle /\ down' = down \o Show
          /\ UNCHANGED <<id, update>>
    /\ UNCHANGED <<previous, committed, certified, evidence, heavy>>

\* Capture, then what the code does with it up to its next wait.
Look ==
    /\ phase = "look"
    /\ Present
    /\ Unchanged \/ Differs
    /\ UNCHANGED <<user, session, acks, canvas>>

\* The desktop cannot be captured, or has dimensions no canvas takes.
CaptureFails == phase = "look" /\ End

StableElapses ==
    /\ stable = "since"
    /\ stable' = "held"
    /\ UNCHANGED <<user, session, phase, cycle, update, baseline, shown, mask, motion,
                   channel, canvas>>

SendDone ==
    /\ phase = "sending" /\ ~canvas.closed
    /\ phase' = "awaiting"
    /\ down' = Append(down, [type |-> "end", id |-> id])
    /\ UNCHANGED <<user, session, cycle, update, baseline, sharp, motion, acks, canvas>>

\* A mutant: a cancelled update becomes the baseline of the next.
CancelCommits ==
    /\ phase = "sending" /\ ~canvas.closed
    /\ latest # cycle.watermark
    /\ Large(update.from, update.to)
    /\ phase' = "tick" /\ cycle' = NoCycle
    /\ update' = None
    /\ previous' = update.to
    /\ down' = Append(down, [type |-> "cancel", id |-> id])
    /\ UNCHANGED <<user, session, id, committed, certified, evidence, sharp, motion,
                   acks, canvas>>

\* New input while more than 256 KiB are unsent.
Cancel ==
    /\ phase = "sending" /\ ~canvas.closed
    /\ latest # cycle.watermark
    /\ Large(update.from, update.to)
    /\ phase' = "tick" /\ cycle' = NoCycle
    /\ update' = None
    /\ down' = Append(down, [type |-> "cancel", id |-> id])
    /\ UNCHANGED <<user, session, baseline, sharp, motion, acks, canvas>>

\* A mutant: the commit certifies the input state of its acknowledgement.
AckCertifiesNow ==
    /\ phase = "awaiting" /\ acks # <<>>
    /\ IF Head(acks) # id
       THEN End
       ELSE /\ acks' = Tail(acks)
            /\ phase' = "tick" /\ cycle' = NoCycle
            /\ previous' = update.to /\ committed' = id
            /\ certified' = latest /\ evidence' = update.made
            /\ update' = None /\ mask' = None
            /\ heavy' \in {FALSE, Large(update.from, update.to)}
            /\ UNCHANGED <<user, session, id, shown, stable, behind, down, canvas>>

\* The browser's acknowledgement commits the update.
Ack ==
    /\ phase = "awaiting" /\ acks # <<>>
    /\ IF Head(acks) # id
       THEN End
       ELSE /\ acks' = Tail(acks)
            /\ phase' = "tick" /\ cycle' = NoCycle
            /\ previous' = update.to /\ committed' = id
            /\ certified' = cycle.watermark /\ evidence' = update.made
            /\ update' = None /\ mask' = None
            /\ heavy' \in {FALSE, Large(update.from, update.to)}
            /\ UNCHANGED <<user, session, id, shown, stable, behind, down, canvas>>

-----------------------------------------------------------------------------
(* The browser's canvas *)

\* Nothing of it is left but its end.
Destroy(c) == [NewCanvas EXCEPT !.closed = TRUE]

OnShow(c, m) ==
    IF m.id = c.lastId /\ m.input >= stamp
    THEN [c EXCEPT !.visible = c.base, !.made = m.made]
    ELSE c

OnInvalidate(c) == [c EXCEPT !.visible = None]

\* A mutant: the number of a cancelled update is not taken.
OnCancelForgets(c, m) ==
    IF c.pending = None \/ c.pending.id # m.id THEN Destroy(c)
    ELSE [c EXCEPT !.pending = None]

OnCancel(c, m) ==
    IF c.pending = None \/ c.pending.id # m.id THEN Destroy(c)
    ELSE [c EXCEPT !.pending = None, !.received = m.id]

OnBegin(c, m) ==
    IF c.pending # None \/ Len(c.queue) >= 8 \/ m.update.id # c.received + 1 THEN Destroy(c)
    ELSE [c EXCEPT !.pending = m.update]

OnEnd(c, m) ==
    IF c.pending = None \/ c.pending.id # m.id THEN Destroy(c)
    ELSE [c EXCEPT !.pending = None, !.received = m.id, !.queue = Append(@, c.pending)]

\* A message of the channel.
Receive ==
    /\ down # <<>> /\ ~canvas.closed
    /\ down' = Tail(down)
    /\ LET m == Head(down) IN
       canvas' = CASE m.type = "show"       -> OnShow(canvas, m)
                   [] m.type = "invalidate" -> OnInvalidate(canvas)
                   [] m.type = "cancel"     -> OnCancel(canvas, m)
                   [] m.type = "begin"      -> OnBegin(canvas, m)
                   [] m.type = "end"        -> OnEnd(canvas, m)
    /\ UNCHANGED <<user, session, worker, acks>>

\* What the canvas holds once the update is drawn on it.
Drawn(c, u) ==
    IF u.from = None THEN u.to
    ELSE IF c.base = u.from THEN u.to
    ELSE Corrupt

\* #commit: the first picture, or one of another size, must be complete.
Commit ==
    /\ canvas.queue # <<>> /\ ~canvas.closed
    /\ LET u == Head(canvas.queue)
           fresh == canvas.lastId = 0 \/ ~SameSize(canvas.base, u.to)
       IN IF fresh /\ u.from # None
          THEN canvas' = Destroy(canvas) /\ UNCHANGED acks
          ELSE /\ canvas' = [canvas EXCEPT !.queue = Tail(@), !.lastId = u.id,
                                           !.base = Drawn(canvas, u)]
               /\ acks' = IF phase = "ended" THEN acks ELSE Append(acks, u.id)
    /\ UNCHANGED <<user, session, worker, down>>

\* The user leaves the session, or a tile cannot be decoded.
Leaves ==
    /\ ~canvas.closed
    /\ canvas' = Destroy(canvas)
    /\ down' = <<>>
    /\ UNCHANGED <<user, session, worker, acks>>

\* The Host closed the channel, after what it had sent.
HostCloses ==
    /\ phase = "ended" /\ ~canvas.closed
    /\ canvas' = Destroy(canvas)
    /\ UNCHANGED <<user, session, worker, channel>>

-----------------------------------------------------------------------------

Sampling == Sample(TRUE) \/ Sample(FALSE)

Next ==
    \/ SceneChanges \/ UserInput \/ Deliver \/ WindowCloses
    \/ Retired \/ Stop \/ Timeout \/ Sampling \/ Look \/ CaptureFails \/ StableElapses
    \/ SendDone \/ Cancel \/ Ack
    \/ Receive \/ Commit \/ Leaves \/ HostCloses

Spec == Init /\ [][Next]_vars

\* The worker's loop, the channel and the browser's handlers run on: a peer that
\* is disconnected returns or has its session retired. The user, the desktop and
\* the timeouts do as they like.
FairSpec ==
    /\ Spec
    /\ WF_vars(Deliver) /\ WF_vars(WindowCloses) /\ WF_vars(StableElapses)
    /\ WF_vars(Sample(TRUE)) /\ WF_vars(Look) /\ WF_vars(SendDone) /\ WF_vars(Ack)
    /\ WF_vars(Stop) /\ WF_vars(Receive) /\ WF_vars(Commit) /\ WF_vars(HostCloses)

-----------------------------------------------------------------------------
(* Properties *)

\* A sharp picture is on view only if the desktop looked like that in a capture
\* taken after the user's last button or wheel reached it: the picture never
\* jumps back to before the click.
NoPreInputPicture == canvas.visible # None => canvas.made >= stamp

\* The canvas and the worker agree on the baseline of the next delta, whatever
\* updates were cancelled, declined or replaced by another size.
DeltaIntegrity ==
    /\ canvas.base # Corrupt
    /\ committed # 0 /\ canvas.lastId = committed => canvas.base = previous
    /\ update # None /\ canvas.lastId = update.id => canvas.base = update.to

\* The acknowledgement a worker awaits is that of the update it sent, also when
\* others were cancelled before.
AckMatches == phase = "awaiting" /\ acks # <<>> => Head(acks) = id

\* Worker and canvas are well formed and agree, on what a delta is taken from and
\* on what is acknowledged.
Agreement == TypeOK /\ DeltaIntegrity /\ AckMatches

\* The canvas never finds the worker's messages out of order, nor an update it
\* cannot apply: it closes only when the user leaves or after the worker ended.
ProtocolHolds == [][~canvas.closed /\ canvas'.closed => ~Receive /\ ~Commit]_vars

Revealing == canvas.visible = None /\ canvas'.visible # None

\* A hidden picture comes back only if the desktop still had its layout in the
\* capture that decided so, as long as the worker saw every presentation window.
RevealsAreClose == [][Revealing /\ ~slept => Head(down).close]_vars

\* Once the user and the desktop are still, the canvas shows the desktop as it
\* is, unless the worker ended or the user's last input was rejected.
SharpReturns ==
    <>[](canvas.visible = scene \/ phase = "ended" \/ canvas.closed \/ latest # stamp)
=============================================================================
