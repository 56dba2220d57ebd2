# super-remote in TLA+

super-remote is a remote desktop. A browser controls a Windows machine (the
*Host*) over WebRTC; a *signaling server* introduces the two to each other and
carries the input when no data channel works. These modules model the parts of
the program whose correctness depends on the order of events, TLC checks them
on small instances, and TLAPS proves the properties that matter most for every
value of the constants.

Contents: the [system](#the-system), the [modules](#the-modules), the
[runs](#the-runs), [fairness](#fairness), what is [proved](#what-is-proved),
what the checks [found](#findings), what is [left out](#what-is-left-out), and
the [plan](#plan).

## The system

```
 browser (web/)                signaling server (signaling/)             Host (host/)
 ──────────────                ─────────────────────────────             ────────────
 page, RemoteSession ──HTTP──▶ POST /api/sessions: create_session
        │                       │ devices, sessions (state.rs)
        └──── WebSocket ──────▶ reader + queue + writer per socket ────▶ main loop
                                (websocket.rs)                            │ map of sessions
   media PeerConnection  ◀════════════ video, audio, refinement ════════▶ │ supervisors
   input PeerConnection  ◀════════════ input-fast, input-reliable ══════▶ │ receivers
        │                                                                 └ control-status.json
   InputController                        launcher ─ starts and stops all   │
                                          control panel ◀── polls ──────────┘
```

| component | state it keeps | operations | what is hard, and what makes it correct |
| --- | --- | --- | --- |
| **signaling: registries** `signaling/src/state.rs` | a sender per device, session records (owner, device, one-shot token, the socket that claimed it), a mutex around session creation, one-shot tickets | `create_session`, `authorize_offer`, `route_to_device`, `route_to_browser`, `remove_session_if_current`, `device_online/offline` | Requests of several browsers interleave at each lock and each full queue, and may be dropped there. One session per device; a session belongs to one socket; the Host learns of changes in the order they happened. |
| **signaling: WebSocket handler** `signaling/src/websocket.rs` | per socket: a reader that runs one handler at a time, a queue of 64, a writer | the upgrade, `register`, every arm of `handle_signal`, the teardown | A check and the send it allows are separate steps; a Host reconnects while its old socket ends. Input only from the claimant; replies only to the claimant; no handler waits forever. |
| **signaling: HTTP routes, auth** `main.rs`, `auth.rs` | configuration, keys | login, tickets, `/api/sessions`, ICE servers | A pending request is dropped when its client goes away. |
| **signaling: TURN multiplexer** `turn_mux.rs` | sockets being peeked at, tunnels (at most 128), a 3 s limit | accept, peek, tunnel | Slow peers fill the bounded set. |
| **signaling: local clipboard** `local_clipboard.rs` | none | read and write the clipboard of a local browser | one platform call each. |
| **host: main loop, session media** `host/src/main.rs`, `rtc/mod.rs` | the map of sessions; per session two atomic flags (`retired`, `media_active`), watch channels `media_state` and `tile_mode`, two peers | offer, candidate, close, input packet; `stop_media`, `accept_offer`; the connection-state callback; the video and audio supervisors | Callbacks race with the replacement of their session, notifications can be missed, `accept_offer` fails half-way. Retirement wins; one session captures; sources follow the gate. |
| **host: input** `input/mod.rs`, `input/windows_input.rs` | `SessionInput`: keys held, the watermark of positions, whether the control path took over | `inject`, `inject_control`, `release_rtc`, `release_all` | Three receivers share the state; channels reorder and lose. No stale move, no key out of order, nothing held after the end. |
| **host: control status** `control.rs` | the snapshot the panel reads | `preparing`, `connected`, `disconnected`, `online`, `offline` | Callbacks of an old session must not pass for the new one. |
| **host: signaling client** `signaling.rs` | two tasks and two queues | read, write | the process ends with the connection. |
| **host: desktop refinement** `desktop_tiles.rs` | watermark of inputs, baseline of the next delta, update ids, chunks in flight, what the browser shows, whether the scene is animating | capture, compare, send, cancel, acknowledge, show, hide | An acknowledgement meets the next update; a baseline is stale when it is shown; Host and canvas must agree on the baseline after every cancellation. |
| **host: video and audio capture** `video.rs`, `audio.rs` | an FFmpeg process or an audio client, a reader thread | open, sample, fail | A device changes under a stream; processes must not accumulate. |
| **host: cursor, display power, clipboard** `rtc/mod.rs` (`serve_clipboard`), `clipboard*.rs` | last cursor, a power request, the parts of an image | poll, set, collect parts, put on the clipboard, paste | A bad part while its successors are under way; the clipboard is busy; the page gave up on a request that is still served. |
| **host: configuration, layout, statistics** `config.rs` | none | `for_viewport`, `interaction_video`, `refresh_display` | Rounding: even sizes that fit, in the right aspect, never zero. |
| **protocol** `protocol/src/` | none | signals, input events, clipboard messages | – |
| **web: session** `rtc.ts`, `signaling.ts`, `session-close.ts` | two peers, candidates held until the offer is sent, the input path, pending clipboard requests, the queue of images | `start`, `#startInput`, `fallbackInput`, clipboard requests, `close` | Candidates before the offer; the fallback in the middle of a drag; a late answer after its time-out; every operation ends. |
| **web: input controller** `input.ts`, `control-input.ts`, ... | pressed keys, the pointer, the unsent move | keyboard, pointer, wheel, paste, blur | Every press has its release; one paste from three sources. |
| **web: page, canvas, helpers** `main.ts`, `desktop-tiles.ts`, ... | the page; the canvas: updates being received, its baseline, what is visible | connect, take over, draw | The canvas closes on any message out of order, so the Host must never send one. |
| **launcher** `launcher/src/` | the job of service processes, `supervisor-state.json`, `status.json`, a stop marker per launcher | start, restart, stop, uninstall, watch the panel | Launchers stop each other while starting; a stop meets a start; processes are killed at any point. One stack; no service without a supervisor. |
| **control panel** `control-panel/src/` | settings, what it knows of the client, the privacy overlay and its latch, its children | poll the status, start and stop the stack, cover the desktop, close | The latch follows files that are old or half written; an input races with a refresh; a close waits for processes that may not end. |
| **TURN server, scripts, vendored WebRTC** | – | – | third-party or packaging. |

The components interact by HTTP and WebSocket messages (browser, signaling,
Host), by WebRTC (browser, Host), by callbacks and shared flags inside the Host
and by files (Host, panel, launcher). The hazards of this code, each at its line
with the properties that watch it, are listed in `PROJECT.json` under
`hazards`; those without a property yet say why.

## The modules

| module | lines | what it is |
| --- | --- | --- |
| `SessionOwnership` | 47 | abstract: who owns a device and who claimed a session |
| `Signaling` | 633 | the registries, `create_session`, sockets and handlers |
| `SignalingProofs` | 2444 | its theorems: types, ownership, the refinement, that a session stays with its claimant, what a Host is told when a device changes hands |
| `HostSession` | 696 | the main loop, the gate, the callbacks, the supervisors, the status |
| `VideoSize` | 147 | the size and bitrate of a session's video, as functions |
| `HostVideo` | 10 | the two together: what is said of the video of a session |
| `HostSessionProofs` | 1392 | the theorems of both: retirement, the status, who controls a source, the size of a stream |
| `InputPath` | 480 | the browser's controller, three transports, three receivers |
| `InputPathProofs` | 1957 | its theorems: clicks, the order of keys, nothing that sticks |
| `Refinement` | 491 | the lossless picture: worker, channel, canvas |
| `RefinementProofs` | 2517 | its theorems: what a picture may show, that the canvas and the worker agree and the canvas never refuses |
| `TileDiff` | 140 | the tiles and copies of one update, as functions |
| `RefinementTiles` | 11 | the two together: what is said of an update |
| `TileDiffProofs` | 361 | its theorem: every update arrives |
| `Pasting` | 66 | abstract: what the clipboard of a session promises its user |
| `Clipboard` | 402 | pastes and pictures: page, channel, `serve_clipboard`, Windows clipboard |
| `ClipboardProofs` | 4792 | its theorems: what is pasted, what the page reports, the refinement |
| `Stack` | 444 | launchers, their services, the control panel's start and close |
| `StackProofs` | 1117 | its theorems: one stack, what a stop ends, what a close leaves |
| `Privacy` | 314 | the privacy overlay of the control panel |
| `PrivacyProofs` | 290 | its theorems |
| `MC...` | | instances for TLC |

Every definition of code has its lines in `PROJECT.json` under `map`. A
definition whose comment says *mutant* is a plausible bug; no action uses it.

### Signaling

A step is what a task does between two `await` points: one acquisition of a
lock, or one send on a queue, which waits for room and fails once the receiving
half is gone.

* `CreateLookup`, `CreateInsert`, `CreateSendClose`, `CreateSendRequest`,
  `CreateNotify`, `CreateUndo` are `create_session` in order; `creationLock` is
  the mutex `session_creation`. `CreateAbort` is the HTTP server dropping the
  handler's future.
* `Connect`, `DeviceRegister`, `WriterSend`, `WriterFail`, `Disconnect` are the
  life of a socket. `link` tells apart a socket whose writer has ended while its
  reader goes on (`broken`) from one that was torn down (`closed`).
* `WebrtcOffer`, `Routed`, `InputPacket`, `InputAck`, `OtherSignal` are the arms
  of `handle_signal`; `RouteSession`, `RouteDevice`, `RouteSend`,
  `RemoveSession`, `Reply` are what each does next. The check of an input packet
  and its routing are separate steps, as in the code.
* A session id is a number handed out by insertion. Whether a presented token is
  right is a choice of the client, restricted to sessions an HTTP client was
  given. Payloads are left out. `from` (who submitted a signal) and `replaced`
  (what an insertion evicted) are history.

`SessionOwnership` has three actions: *take* a device (with a new, newer
session), *claim* the session that owns it (once), *release* it.
`ImplementsOwnership` says that `Signaling`, seen through the sessions map,
does nothing else.

### HostSession

One step per load, store or notification of what is shared, since nothing else
orders the loop, the callbacks and the supervisors.

* `loop` is the main loop: `TakeOffer` drains the map, then every session in it
  goes through `Retire`, `RetireShut`, `RetireStop` (the three writes of
  `stop_media`) and `RetireClose` (`peer.close()`); then `Prepare`, `Answer`,
  `Spawn`, `Insert` are `accept_offer`. `OfferFails` and `AcceptFails` are its
  error paths, chosen by `Faults`. `TakeClosed` and `StatusClosed` are
  `SessionClosed`.
* `callback` is the handler's `on_connection_state_change`: first look at
  `retired`, two writes, second look, report (`Connected`); the paths of a
  disconnected and of a failed peer. The driver of the WebRTC library awaits the
  handler, so callbacks of one peer do not overlap, and `close()` aborts the
  driver, which takes effect at its next `await` (`DriverEnds`). It does not drop
  the handler, with which the library's transceivers keep each other alive; so the
  senders of `media_state` and `tile_mode` last, and `changed()` never fails. What the
  library may deliver, `Follows`, is external and taken from how the Host uses
  it.
* `supervisor` is the program counter of `supervise_video` and
  `supervise_audio`. `fresh` says which receivers have a value they have not
  seen, which is what `changed()` waits for. `mode` is the `tile_mode` channel,
  `hybrid` the mode a stream was started with.
* `snapshot` is the status: the session shown and `capture_active`.
* `VideoSize` has no state. `StreamDimensions` is what the launcher writes into
  the configuration, `WithDisplaySize` and `ForViewport` are what an offer makes
  of it, `InteractionVideo` the smaller stream shown during input. A scaled size
  is a *set*: where the exact product is a whole number, an `f64` may come out
  just below it.

Left to `InputPath`: the input peer, which `stop_media` has closed by a task of
its own.

### InputPath

* The browser: `StartInput`, `Press`, `Release`, `MissedRelease`, `MovePointer`,
  `Wheel`, `Blur`, `FallbackInput`, `CloseSession`. `fingers` is what the user
  holds, `pressed` what the controller believes. `MissedRelease` is an event
  that `input.ts` drops: a pointer released outside the picture, a key released
  in the toolbar, which stays `pressed`. `lost` remembers the button, and the
  releases that the control path drops while the media peer is disconnected.
* The paste shortcut: an event of V is not sent when it says that Ctrl or Meta is
  down, nor while a paste is under way (`pasting`). Whether it says so is a choice
  at each event of a key of `PasteKeys`, since the modifier may have gone down or up in
  another window or in the toolbar; so the model lets V go down as a key and come
  up as a part of the shortcut, and the reverse. What is then pasted is `Clipboard`'s.
* The network: `fast` is a set, since the channel is unordered and a lost packet
  is one that is never polled; `reliable` and `control` are sequences.
  `MediaDisconnected` clears `media_active`, `Retire` is `stop_media`, and
  `InputPeerCloses` the task it spawns: the channels are then `severed`. A channel
  that the other side closed tells its receiver so in the end (`ReliableClosed`,
  which may also never come); one that the Host closed does not, since the library's
  driver ends without a word and `poll` only waits for its queue.
* The receivers: `FastPoll`, `ReliablePoll`, `ControlRecv` look at the flags;
  `RtcInject`, `ControlInject` run later, under the lock of the session's state.
  `usingControl`, `held` and `latest` are `SessionInput`; `cursor`, `clicked` and
  `transition` are what the desktop shows of it.

Positions are told apart by the timestamp of the packet that carries them. It is
the order of the browser's events (`lastTimestamp` in `input.ts` never repeats a
value).

### Refinement and TileDiff

* The worker, `serve`, is a loop with four places where it awaits: `tick`,
  `look` (the capture), `sending`, `awaiting` (the acknowledgement). `Sample`
  reads the session's presentation window and takes the watermark; `Look`
  captures and decides: show what the canvas holds (`Show`), nothing new
  (`Unchanged`), an update (`Differs`). `Cancel`, `SendDone`, `Ack`, `Timeout`
  are the ends of an update.
* `window`, `latest`, `sampled`, `slept` are what `SessionInput` tells the worker
  of the user's buttons and wheels. `slept` is history.
* The canvas is `Receive` (one action per message, in order) and `Commit`, the
  queued drawing. It destroys itself on a message it does not expect, and ends
  (`Leaves`) when the user leaves or a tile cannot be decoded; the channel closes
  with it and the worker stops.
* A desktop is a size, a layout and a caret; two desktops of one layout differ
  by less than the 512 pixels of `can_restore_snapshot`. What a change costs in
  tiles and time is a choice.
* `TileDiff` is what an update is made of: `ChangedTiles` (tiles, copies),
  `ScrollOffsets`, what the browser's parser `Accepts` and what it `Draw`s, over
  *all* desktops of a few pixels.

### Clipboard

* `PressForHost`, `PressForBrowser`, `PasteEvent`, `ReadAnswers`, `ReadFails`,
  `Copy`, `Blur`, `Toolbar` are the page; what is delivered becomes an operation
  (`ops`). A picture waits for the one before it, is sent in windows of parts,
  and fails as a whole.
* `pending` holds requests with a timer: `TimeOut` settles one while the Host may
  still serve it, and a late answer is ignored. `Close` rejects them all.
* `Take`, `PutPicture`, `PutText`, `Paste`, `Read`, `Reply` are one request in
  `serve_clipboard`; each may fail. `buffer` is `image_upload`. `put` (what was
  put on the Windows clipboard) and `pasted` are history.

`Pasting` knows no requests, parts, timers or buffers. Its operations *begin*, for a
press that is newer than those before it; they are *written* and *pasted*, pictures
in turn, until they are reported as done; the user is *told* once how they ended,
and what he is told is done has been done. `ImplementsPasting` says that `Clipboard`,
seen through what the user is told (`Told`) and what reached the Host's clipboard
(`Written`), does nothing else. What is told to have failed may still be under way:
after a time-out the Host goes on.

### Stack

* A launcher's `pc` follows `main.rs`: `Read` finds the stack to replace through
  `supervisor-state.json` or `status.json` and opens it, `Wait`, `KillServices`
  and `EndLauncher` end it, `Publish` names the launcher itself, then `Probe`,
  `Spawn` and the readiness of TURN, signaling and Host in order, `OpenPanel`,
  `WatchPanel`, `Supervise`. Every check for the stop marker is a guard.
* A service lives in its launcher's job: `Gone` ends both. `Fault` kills a
  launcher, a service or the panel, or makes a stop fail.
* The panel starts and stops through launchers of its own (`PanelStarts`),
  `BeginShutdown` marks and asks, `PollShutdown` closes or comes back with an
  error. `found` and `overlapped` are history: who had published itself when a
  launcher began to stop the old stack, and whether two did so at once.

### Privacy

* The panel's thread: `BeginRefresh` reads the two files, `EndRefresh` computes
  the latch, shows or hides the overlay and arms the hooks; `Release` handles a
  posted input; `TogglePrivacy`, `ToggleMute`, `Close`, `CloseFails`, `Destroy`.
  A posted message goes before the timer.
* The hook thread: `Input`, `PostFails`, `Rearm`. It shares `armed` only.
* Files are written in two steps, as `fs::write` does: `HostWrites` empties
  `host-state.json` and `HostWritten` fills it, and likewise for the settings
  that a second process of the panel writes. A refresh between the two finds the
  defaults; `misread` remembers that one did.

## The runs

Every instance is the smallest in which the races the properties are about can
happen.

| run | checks | bounds, and why they are enough |
| --- | --- | --- |
| `session_safety` | `OneSessionPerDevice`, `ToldInOrder`, `OnlyTheClaimant`, `ImplementsOwnership` | Two HTTP requests, which their clients may give up, two sockets of one user, one socket of the Host, queues of two slots so that a send may wait, two sessions so that one evicts the other, two signals: an offer and a use of what it claimed. |
| `session_liveness` | `RegisteredSocketRuns`, `TasksFinish` | Two sockets of the Host, so that the old one ends before and after the new one registers; one browser socket, which may also close its session; one session; queues of one slot, which the greeting fills. |
| `host_safety` | `RetirementWins`, `ConnectedStatusIsCurrent`, `SourcesAreControlled`, `StreamsFit` | Two sessions, one replacing the other, each with a supervisor; offers fail before and after the answer. No disconnection: `host_liveness` has it, and `RetirementWins` and `ConnectedStatusIsCurrent` are proved for any number. Displays and viewports of all pairs of seven odd and even edges, three limits of the width: each minimum of `for_viewport` decides for some, and thin ones reach the smallest size. |
| `host_liveness` | `SupervisorsEnd`, `SourcesResume`, `VideoModeSettles`, `CaptureStops` | One session with both supervisors on one watch channel, one disconnection, mode changes, failing streams. |
| `input` | `MovesNeverUndoClicks`, `NoStuckInput`, `TransitionsInOrder`, `FallbackKeysSurvive`, `HeldInputsEnd` | A key, which is V, and a button, two packets with their positions, over either path and across the fallback; the page misses a release of the button and may take either event of V for the paste shortcut, the media peer is disconnected once. |
| `refinement` | `NoPreInputPicture`, `Agreement`, `UpdatesArrive`, `ProtocolHolds`, `RevealsAreClose`, `SharpReturns` | Two sizes and two layouts, so that a delta, a first picture and a change of size all occur; two clicks, one of which the Host may reject, and two changes of the desktop: the second meets the update of the first in every phase, and a third update follows. Desktops of 1×5 and 3×2 pixels in tiles of two: tiles that are cut, copies that overlap, up to the limit of copies. |
| `stack_safety` | `StackInv`, `StopStops`, `CloseIsClean` | Three launchers, so that two meet the one before them; one panel that starts, stops and closes; two services; one fault of each kind. |
| `stack_liveness` | `PanelGoneServicesGone`, `StopsEnd` | The same with the Host as the only service and a killed launcher. |
| `privacy` | `PrivacyInv`, `LiftedByUser`, `LiftedWhileIdle`, `ClientIsCovered`, `ScreenComesBack` | None is needed: the state is finite. |
| `clipboard` | `ClipboardInv`, `ReportedIsDone`, `ImplementsPasting`, `PicturesInOrder`, `OperationsEnd` | Two operations of any kind, pictures of four parts in windows of two: a refused part has successors under way in its window and in none. One refusal, any number of time-outs. |
| `late_offer`, `status_after_flap` | one property each, violated | see [findings](#findings). |

What the properties say:

* `ToldInOrder` (`ClosesPrecedeRequest` and `RequestsInOwnershipOrder`): a Host's socket gets the
  close of every session an insertion evicted before the request for the new
  one, and requests in the order of insertion. The mutex over the whole hand-off
  is what this needs; without it the run fails.
* `OnlyTheClaimant` (`InputOnlyFromClaimant` and `RepliesReachClaimant`): the checks of `websocket.rs`
  are stale by the time the signal is queued, and it does not matter, because a
  session is claimed once and for good (`ClaimedOnce`, which is proved).
* `RegisteredSocketRuns`: whatever the order in which two sockets of a Host
  register and end, the registered sender is never that of a torn-down socket.
  (That the end of the old socket takes a reconnected Host offline is what the
  code does: it removes whatever is registered.)
* `RetirementWins`: a session's gate is shut when both `stop_media` and a
  callback that raced with it are over. Without the second look at `retired` it
  fails. Between the callback's writes and its second look the gate of a retired
  session *is* open for a moment and a supervisor may open a stream, which the
  second look stops.
* `SourcesAreControlled` (`SourcesHaveAnOwner` and `OneCapture`): what was started can be stopped by
  someone, and two sessions never capture at once. `OneCapture` leaves out the
  instants in which a callback is under way.
* `SourcesResume`, `CaptureStops`, `SupervisorsEnd`, `VideoModeSettles`: no
  supervisor misses its last notification, although notifications are consumed
  by the back-off and by the audio stream. `SupervisorsEnd` leaves one case: where
  `WAITING` was stored over `STOPPED`, a retired session's supervisor is parked for
  good (see the findings); it never captures again.
* `TasksFinish` (`CreationFinishes` and `HandlerFinishes`): unless the queue it waits for
  stays full for good, a creation ends and gives up the mutex, and a handler ends.
  So nothing but a writer that is stuck keeps a task waiting: no failed send, no
  eviction, no teardown in between, and no task waits for another one's lock. What a stuck
  writer does is in the findings.
* `MovesNeverUndoClicks`: the watermark makes a late move harmless on either
  path. `TransitionsInOrder`, `FallbackKeysSurvive`: late messages and the end of
  the data channels change nothing once the control path took over.
* `NoStuckInput`: when all that was sent has been handled, nothing is held on
  the Host that the user does not hold, but for what the program itself leaves:
  buttons released outside the picture and releases the Host dropped (`lost`), and
  keys the page still counts as pressed, until it loses the focus or the session ends
  (`LeftPressed`: those released in the toolbar, and a V whose release was taken for
  the paste shortcut; see the findings). `HeldInputsEnd`: nothing stays held when the
  session is over, those included, but for one key or button whose press was in the hands
  of the receiver of `input-reliable` when the session was retired, and only if that
  receiver then waits for good (see the findings).
* `StreamsFit` (`ViewportsFit` and `ReductionsFit`): the stream fits the viewport, the display and
  the encoder's ceiling, no side could grow by more than the rounding, the
  aspect is that of what is captured, the bitrate is within its limits; the
  reduced stream likewise, and reducing it again changes nothing. They hold of
  functions and are looked at once an offer was taken.
* `NoPreInputPicture`: a sharp picture on view was captured after the user's last
  button or wheel, although captures, transfers, acknowledgements and clicks
  interleave. `Agreement` (`DeltaIntegrity`, `AckMatches` and the
  types) and `ProtocolHolds`: the canvas applies
  a delta to the baseline it was taken from, the worker takes no acknowledgement
  for another's, the canvas never has to give up: no message it receives and no drawing destroys
  it. `RevealsAreClose`: a hidden
  picture comes back only if the desktop had its layout in the capture that
  decided so. `SharpReturns`: when user and desktop rest, the picture is sharp.
* `UpdatesArrive`: whatever two desktops an update is
  between, the browser's parser accepts it and its drawing makes the second of
  the first.
* `ClipboardInv` (`WholePictures`, `PasteFollowsWrite` and the types) and
  `ReportedIsDone`: no picture is put
  together from parts of two or with one missing, nothing else is pasted in its
  place, and the page says done only of what was done. `ImplementsPasting`,
  `PicturesInOrder`: three sources and one asynchronous answer make one paste per
  press, in order; an operation ends once, and once it is reported as done the Host
  does nothing more for it. `OperationsEnd`: every operation ends for the user.
* `StackInv` (`OneStack` and the types), `StopStops`: launchers find and stop the one before them, through
  files that are written at different times; `CloseIsClean`: the panel closes
  only when what it started and found is gone. All three leave out the case that
  two launchers stop the old stack at the same time (`overlapped`; see the
  findings). `PanelGoneServicesGone`, `StopsEnd` (`CancelledEnds` and `CloseEnds`):
  when a launcher is killed or the panel ends, no service stays behind for good, a stop
  ends a launcher wherever it is, and the panel closes or becomes usable again.
* `PrivacyInv` (`KnownClientIsCovered`, the types and what the panel knows),
  `LiftedByUser`, `LiftedWhileIdle`: the overlay covers a
  client the panel knows of, and goes only by the setting, by the panel's end or
  by an input that is newer than the panel's last look at a client.
  `ClientIsCovered`, `ScreenComesBack`: a client that stays is covered, also
  after another window came above the overlay; a local user gets the screen back.

The type invariants of all these modules are proved, some as part of a larger
invariant.

Each property has a mutant in `PROJECT.json`: a definition of the model with a
plausible bug, under which TLC finds that property violated in the same
instance. `CHECK_DEADLOCK` is off everywhere: clients, peers and users may stop,
and every bound on them is a guard; that nobody *waits* forever is what the
liveness properties say.

Symmetry is used in the runs without liveness only: the requests, the sockets of
one user and the sessions are interchangeable there.

## Fairness

* `Signaling!FairSpec`: weak fairness of the tasks (`CreateStep`, `HandlerStep`),
  since Tokio keeps polling a task that can move. *Nothing* is asked of the
  writers: a peer that stays connected and stops reading keeps its writer in `send`
  for as long as it likes, since neither `websocket.rs:38` nor TCP gives up on it. The
  properties name the queue that must not stay full instead. No client has to send,
  connect or give up.
* `HostSession!FairSpec`: weak fairness of the loop, of a callback under way, of
  the end of an aborted driver and of the supervisors' own steps. Connection
  events, mode messages and failures of streams need not happen.
* `InputPath!FairSpec`: weak fairness of the receiver of `input-reliable`, of the
  one of the control path while there is something for it to receive, and of the
  loop's drop of the session (`DropSession`), which ends the control path's. The
  receivers of the channels need not hear of the end of theirs (`ReliableClosed`), nor
  does the input peer have to be closed. `input-fast` needs nothing. User and network
  need not act.
* `Refinement!FairSpec`: the worker's loop, the delivery of inputs, the channel
  and the browser's handlers. The desktop, the user, a rejected input and every
  time-out are left to chance; `SharpReturns` is about behaviours in which the
  bounded clicks and changes are over.
* `Clipboard!FairSpec`: the page's tasks and timers only. *Nothing* is asked of
  the Host: it may stop at any point, and every operation still ends.
* `Stack!FairSpec`: each launcher's own steps and the start-up of a service,
  which comes up or exits, and the panel's poll. Users and faults are free.
* `Privacy!FairSpec`: strong fairness of the panel's thread, since a user who
  closes the panel disables it again and again, though less often than its timer
  ticks; weak fairness of the hook's second arming and of a close's end; strong
  fairness of physical inputs, the premise of `ScreenComesBack`: the local user
  goes on trying.

## What is proved

Every theorem holds for all values of the constants that satisfy the named
assumptions: any sets of sockets, requests, sessions, sources, faults, keys,
buttons and desktops and any bounds. In `SignalingAssumption`, users and devices are disjoint
(the principal's role tells them apart in the code) and a queue has at least one
slot; `KeysAssumption` makes the keyboard finite; `StackBounds` says that services
are started in some order that ends with the Host; `ClipboardBounds`, that a picture
has no more parts than the Host collects. `DesktopsAssumption` says that there is a
desktop. `VideoAssumption` makes edges, limits and bitrates positive, as the launcher
writes them, and the edge of a reduced stream at least 2, which the Host checks
(`config.rs:129`); `TileAssumption` makes sides and the tile size positive and scroll
offsets whole numbers. `NoneAssumption` of several modules and `NoUpdateAssumption` say
that what stands for nothing is not something. One theorem has a hypothesis of its own:
`CaptureIsControlled` needs `"spawned" \notin Faults`, since a Host whose input thread
cannot start does what finding 4 describes.

| theorem | property | argument |
| --- | --- | --- |
| `SignalingProofs!TypeCorrect` | `TypeOK` | Typing alone is not inductive: a handler indexes `sessions` with the id of its message. `RecordsOK`, `CreationsOK` and `TasksOK` say that what a record, a request or a handler refers to exists, and are part of it. |
| `OneSession` | `OneSessionPerDevice` | `RegistryStep` classifies the steps: each leaves the registry alone, inserts, claims or removes. Each kind keeps `RegistryInv`, one record per device and a token until a claim. |
| `ClaimOnce` | `ClaimedOnce` | from the same classification: only an insertion adds to the map, with a new id; only a claim binds, and it needs the token that `RegistryInv` ties to an unbound record. |
| `Implements` | `ImplementsOwnership` | an insertion maps to *take*, a claim to *claim*, a removal to *release* or a stutter. `OneSession` makes the owner of a device well defined. |
| `RegisteredRuns` | `RegisteredSocketRuns` | `RunInv`: a handler under way belongs to a socket that was not torn down, and a registered sender to such a socket of that device. Only a socket's own handler registers it, and its end takes the device offline. |
| `ClaimantAlone` | `OnlyTheClaimant` | `ClaimantInv`: a signal is from the claimant of its session wherever it is, in a handler, on its way to a queue or in one. A session bound to a socket stays bound to it (`BindsStays`), so a check stays true after its lock is released. |
| `HostToldInOrder` | `ToldInOrder` | `LockInv`: one request at a time is under way, for the session inserted last. `HandoffInv`: for an open socket, what the request evicted has been closed or is still in `todo`, and the request itself is not in the log. `LogStep`: a step leaves a device's log alone, adds one signal, or cuts it as the socket ends. |
| `HostSessionProofs!TypeCorrect` | `TypeOK` | part by part; a step that leaves a part's variables alone keeps it (`Kept`). |
| `HostInvariant` | `HostInv` | `LoopInv`: a retired session is in nobody's hands but those of the step that retires it. `GateInv`: where a retired session's gate can still be open, and who is about to shut it. `StatusInv`: how long a status outlives what it shows. |
| `RetirementAlwaysWins` | `RetirementWins` | `GateInv`, at the moment neither the loop nor a callback is left to shut the gate. |
| `StatusIsCurrent` | `ConnectedStatusIsCurrent` | `StatusInv`. |
| `CaptureIsControlled` | `SourcesAreControlled` | `OwnerInv`, besides `HostInv`: what has a supervisor is in the loop's hands (`InHand`), or spawned and about to be inserted, or retired with its driver ended. At most one session is in hand, none while another is accepted; so two that capture are the same. |
| `StreamsAlwaysFit` | `StreamsFit` | A scaled size is the floor of its quotient or, where that is exact, one less (`FloorBounds`). The ratios are totally ordered, so `Scale` is the least of them (`ScaleIsSmallest`) and some bound is met by it. From that, side by side: what fits (`SideFits`), what is used up to the rounding (`SideIsUsed`), the aspect (`AspectKept`). `ReductionFits` does the same for `interaction_video`, twice. |
| `InputPathProofs!TypeCorrect` | `TypeOK` | part by part; the release of every key is a sequence of packets because the keys pressed are finitely many. |
| `ClicksStand` | `MovesNeverUndoClicks` | `InjectOrder`: one injection keeps the watermark at or after the last click, whichever receiver makes it. |
| `FallbackIsSafe` | `FallbackKeysSurvive` | by cases of the step: what is not the control path's receiver is deaf once `usingControl` is set. |
| `InjectedInOrder` | `TransitionsInOrder` | `OrderInv`: the packets of each path, those in a receiver's hands included, are in the order of their timestamps and later than what was injected, and those of the control path later than all of `input-reliable`. `ModeInv`: a path that was left carries nothing new. |
| `NothingSticks` | `NoStuckInput` | `PressedInv`: a key that the user does not hold and that the page counts as pressed is one whose release it may not see or may take for the paste shortcut. `HeldInv`: each key that is neither held by the user, nor pressed for the page, and whose release was not dropped, comes up (`ComesUp`): what is on its way, injected on top of what is held now, ends with its release. One part for each path, one for the change between them (the control path's first packet releases what the other left) and one for the end of the session. Built on `OrderInv`. |
| `RefinementProofs!TypeCorrect` | part of `Agreement` | part by part; an update under way is an update, since only `Differs` and the ends of an update change it. |
| `PicturesAreNew` | `NoPreInputPicture` | `WatermarksInv`: what certifies a baseline knows of no input that the capture behind it did not know of, from the watermark of the cycle over the update to the commit. `ShowsInv`: the same of every message under way that shows it. The canvas compares with the newest input of the user. |
| `PicturesReturnClose` | `RevealsAreClose` | `BeliefInv`: while the worker thinks that its picture is on view, it is or soon will be (`Sharp`), unless an input hid it that is on its way or unseen. `FarInv`: so a far picture is announced only where one is on view or is too old for the canvas. `CycleInv` ties the watermark of a cycle to the presentation window, `WireInv` orders the inputs. |
| `BaselinesAgree` | `Agreement` | `KeysOK`: the messages about updates, each given a key, count up by one from what the canvas took last to what the worker sent last (`Ordered`, kept by the three lemmas about a message added or taken). `DrawOK`: at most one update is sent whole and not drawn, and it can be drawn on what the canvas holds. `AgreeOK`: where that update is in each phase of the worker. |
| `CanvasNeverRefuses` | `ProtocolHolds` | from the same invariant, in `ReceiveKeeps` and `CommitKeeps`: by `KeysOK` the next message is the one the canvas expects, by `DrawOK` the next update fits. |
| `TileDiffProofs!UpdatesAlwaysArrive` | `UpdatesArrive` | The tiles cover the desktop (`PixelInTile`) and lie within it (`TilesFit`), so the parser accepts (`UpdateAccepted`). Pixel by pixel, what a drawing leaves is the new desktop: in a damaged tile it is drawn, in any other it is what the copies make of the old desktop there, which is what that tile was compared with (`UndamagedPixel`). |
| `ClipboardProofs!WhatWasPasted` | `ClipboardInv` | `OrderInv`: parts are in the line, and in the buffer, in their order and without a gap (`Ahead`), and what is sent next belongs behind all of them; so a buffer that is put on the clipboard ends with the last part and, if it is whole, starts with the first. `RoomInv`: no request without a number left. |
| `ReportsAreTrue` | `ReportedIsDone` | `WorkInv`, `AnswersInv`, `UploadInv`: an answer that says yes is of a request that was served, from the Host's work over the channel to the window that waits for it; `RequestsInv`: no two requests share a number. |
| `OnePastePerPress` | `OncePerPress` | `FromInv`: what was started is from a press that is handled, and a press is handled once. |
| `PicturesKeepTheirOrder` | `PicturesInOrder` | `PassedInv`: what is sent or waits is behind every picture that was pasted or is about to be; `WaitInv`: the queue is in the order of the operations. |
| `ClipboardKeepsItsPromise` | `ImplementsPasting` | `EndsInv`: a request is in one place, on its way, served or answered (`LinedInv`, `TakenInv`, `SpokenInv`); what is no picture is one request (`SingleInv`), open while the page waits for its answer (`SentInv`); for a picture, nothing is sent while it waits (`FreshInv`) and the page waits for all that was sent until it misses a part (`AwaitedInv`). So the Host does nothing for an operation that is reported as done (`LateInv`). `TellStep`: answers, time-outs, the end of an upload and of the session map to *tell*; `BeginStep`, `ServeStep`: the others to *begin*, *write*, *paste* or a stutter. |
| `StackProofs!OneStackRuns` | `StackInv` | `AloneInv`, until two starts overlap: what is published is named in the file, one start is busy, and it has found all that is published. `ServiceInv`: services run from the first one to the stop only. |
| `WhatRanIsStopped` | `StopStops` | `FoundIsTarget` and `FoundIsEnded`, of `AloneInv`: the launcher that was opened is the one that was published, and it has ended when the stop goes on. |
| `NothingIsLeft` | `CloseIsClean` | the same at the panel's last poll: its children and what its helper found have ended, and `ServiceInv` leaves them no service. |
| `PrivacyProofs!Invariant`, and `TypeCorrect`, `Covered` | `PrivacyInv` | Besides its types and `KnownClientIsCovered` it holds three facts about what the panel knows: a posted input that would be obeyed is newer than the last refresh that saw a client (`InputIsNew`); the file tells the truth unless it is being written (`FileIsTrue`); a client that was noticed is known until it leaves (`NoticedIsKnown`). |
| `OnlyTheUserLifts` | `LiftedByUser` | `LiftingSteps`: three actions can lift the overlay; `InputIsNew` at the release. |
| `NoticedClientStaysCovered` | `LiftedWhileIdle` | the same, and `NoticedIsKnown`: the release does nothing while a client is known. |

The runs check these too, but for the types of the first three modules,
`ClaimedOnce`, `HostInv` and `OncePerPress` (which `ImplementsPasting` implies): every safety property that a run checks is proved.
Only model-checked, so shown for the instances above and no more, are the liveness
properties: `TasksFinish`, `SupervisorsEnd`, `SourcesResume`, `VideoModeSettles`,
`CaptureStops`, `HeldInputsEnd`, `SharpReturns`, `OperationsEnd`,
`PanelGoneServicesGone`, `StopsEnd`, `ClientIsCovered` and `ScreenComesBack`. Liveness
under fairness and `ENABLED` are out of the prover's reach.

## Findings

Two runs end in a behaviour that contradicts what a comment or the repository's
README says of the program.

1. `late_offer`: an offer is authorized under the lock and sent after releasing
   it. It can follow its own session's close and the next session's request, and
   the Host then serves the evicted session.
2. `status_after_flap`: `disconnected` forgets the session shown; the next
   `Connected` of the same peer is not shown, while capture runs again.

TLC found the following too. They have no run of their own; each names what to
change to see it.

3. `signaling/src/state.rs:114`: `create_session` removes the evicted record and
   then awaits the send of its close. If the HTTP client goes away meanwhile,
   that close is never sent, and the next creation, which finds only the newer
   record, does not send it either; the comment at `state.rs:110` says "The Host
   sees every old close before the new request". (`session_safety`, with three
   sessions and `ClosesPrecedeRequest` asked of every session evicted so far.)
4. `host/src/rtc/mod.rs:705`: if the input thread cannot start, `accept_offer`
   returns an error after both supervisors were spawned. The session is in no
   map and its peer stays open, so a later one captures beside it, against
   `host/src/main.rs:83`. (`OneCapture` with `"spawned"` in `Faults`.)
5. `web/src/input.ts:171`: a button pressed on the picture and released beside it
   is never released on the Host while the session lasts.
   `host/src/rtc/mod.rs:710`: the control path drops packets, key-ups included,
   while the media peer is disconnected. `web/src/input.ts:207`: a V that went down
   as a key and comes up with Ctrl or Meta down is taken for the paste shortcut: no
   key-up is sent, and V stays down on the Host until the page loses the focus or V is
   pressed again. README.md:121 and :221 promise ordered and reliable buttons and keys.
   (`NoStuckInput` without `lost`, without `PasteKeys`.)
6. `launcher/src/main.rs:1080`: nothing keeps two launchers from starting at
   once. Both find nothing to stop, both publish themselves, the later write
   hides the other, and a stop then ends the named one only: the panel closes
   while services run, against README.md:90-92. (`CloseIsClean` without
   `overlapped`.)
7. `control-panel/src/main.rs:911`: the Host rewrites `host-state.json` with
   `fs::write`, which empties it first; a refresh in between finds no client and
   arms the hooks, and a key on the Host lifts the overlay while the client is
   connected, until the next refresh; README.md:105-106 says the overlay covers
   the desktop while a client is connected. (`LiftedWhileIdle` without
   `misread`.)
8. `web/src/input.ts:286`: a press of Ctrl+V begins a read of the browser's
   clipboard; a copy in the session comes before its answer, which then
   overwrites the Host's clipboard, and the next Ctrl+V pastes the browser's
   text. README.md:241-242 says that a copy followed by a paste stays on the
   Host's clipboard. (In `Clipboard`: `kind = "paste"` is pasted while `clip` is
   not 0.)
9. `host/src/desktop_tiles.rs:393`: a presentation window that opens and closes
   between two looks of the worker is not seen by it, and the picture shown again
   may have a layout older than what was on view as video. (`RevealsAreClose`
   without `slept`.) `desktop_tiles.rs:63-65` says that one large change followed
   by a still screen never counts as animating; three slow cycles that each find
   the one change out of date on arrival do.
10. `signaling/src/state.rs:119`: `session_creation` is held while the close and the
    request wait for room in the Host's queue, and `websocket.rs:38` awaits a send
    without a time-out, in the task that would send the heartbeat too. A Host, or
    whatever is at its end, that stays connected and stops reading keeps the mutex, and
    no browser can open a session on *any* device, until the HTTP client whose request
    it is gives up. (`TasksFinish` without `[]<>~Full(...)`.)
11. `host/src/rtc/mod.rs:198`: `Disconnected` stores `WAITING` without a look at
    `retired`; after `STOPPED` it parks the supervisors of a session that is over. They
    would end with the last sender of the channel, but the handler that owns one is never
    dropped: `PeerConnectionRef` holds it and, through the transceivers, itself. Two tasks
    and a peer stay for each such session. (`SupervisorsEnd` without `"parked"`.)
12. `host/src/rtc/mod.rs:315`: the receiver of `input-reliable` looks at `retired`, and
    injects after that. If the control path's receiver ends in between, its `release_all`
    comes first, and the key that is then injected stays down on the Host: the channel of
    a peer that the Host closed says nothing more, so `release_rtc` does not run, and the
    receiver's thread stays. (`HeldInputsEnd` without its second part.)

## What is left out

* `Signaling`: tickets and passwords (one map operation or a library call each),
  the contents of signals, ICE servers, the local clipboard and the TURN
  multiplexer. A session record that nobody closes stays in the map until its
  device is taken again; the bound `MaxSessions` hides nothing about ownership.
* `HostSession`: ICE candidates and the content of the negotiation, the end of
  the process and the `online`/`offline` statuses around it, the input peer,
  encoding. The five seconds a video supervisor waits for a mode are a choice it
  may take at any time. A failed offer's lasting "connecting" status is not
  judged: nothing says what it should be.
* `InputPath`: a `SendInput` that fails, back-pressure of moves (the newest
  unsent move is kept, so a dropped one is a move not made), key auto-repeat,
  relative mouse motion, the layout of packets. The queues have no bounds: the one of
  the control path holds 128 packets and makes the Host's loop wait, the library's for
  a data channel holds 256 messages and drops what does not fit. The
  wheel's amount is left out, the position packet before it is not.
* `Refinement`: pixels (but for `TileDiff`), compression, how an update is cut into
  chunks. How long anything takes is a choice. The page also ignores a `show` within
  220 ms of its last wheel (`desktop-tiles.ts:146`): the Host's window of the same length
  begins when it injects that wheel, so a `show` that knows of it comes later.
* `Clipboard`: what other programs write to either clipboard, a second session's
  channel, the sizes of texts: one of more than 12 KiB is refused in the page, at once
  (`rtc.ts:293`).
* `Stack`: the TURN server in the instances, credentials and `secrets.json` (which
  two programs rewrite without a lock), certificates, the firewall, the moment
  between the removal and the renaming of a state file, process ids that are
  reused.
* `Privacy`: what muting does, and drawing. Other settings in the same file are
  written with the privacy setting and not followed.
* `VideoSize`: the width of integers and of the mantissa; sizes and products of the
  code stay below 2^53 and 2^64 for any display there is.
* Not modelled at all: capture and encoding, the cursor, the power request, the
  window layout, statistics, the TURN server and its multiplexer, candidates held
  in the browser, build scripts and the vendored WebRTC library, of which the
  modules use only what the Host relies on (the `external` entries of the map).

## Plan

1. `Signaling`, `SessionOwnership`, `HostSession`, `VideoSize`, `InputPath`,
   `Refinement`, `TileDiff`, `Clipboard`, `Pasting`, `Stack`, `Privacy`; proofs of all
   their safety properties: done.
2. Smaller modules: `TurnMux` (the bounded sets), `BrowserSession` (candidates
   before the offer and before the answer).
3. Compositions: `Signaling` with the Host's loop (what a late offer does to the
   session being served), `HostSession` with `InputPath` over one `retired` and
   one `media_active`, with bounded queues.
4. Proofs: for two starts that overlap, what still holds of `Stack`; then the
   invariants of the compositions.
