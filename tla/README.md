# A formal model of humid

humid is an operator interface for the Clockwork control language. It shows the
screens of a project, keeps the values of linked widgets current, and sends what
the operator does to `iod`, the Clockwork driver process, over ZeroMQ. These
modules specify the parts of it in which time, failure and the order of events
matter, and state what those parts must do. TLC checks the properties on small
instances; TLAPS proves the safety properties of every component for every value
of the constants.

Paths are relative to the repository root: `src/` is humid itself, `clockwork/src/`
the messaging library it is built with.

## 1. The system

### Parts that are modelled

**SubscriptionManager** (`clockwork/src/ConnectionManager.cpp`, client side;
`SocketMonitor.cpp`).
*State*: the setup REQ socket and the SUB socket, what their monitors last saw
(`disconnected()`), the setup status, the CHANNEL grant (port, name, authority),
`sent_request`, the run status and the command being forwarded.
*Operations*: one `checkConnections(items, n, cmd)` per pass of the GUI loop. It
drives the CHANNEL handshake, dials the granted port, notices lost connections,
polls, takes an operator command from the in-process REP socket and forwards it,
and answers it with the reply, `timeout`, `disconnected` or `failed`.
*Hard*: two monitor threads change the connection flags between any two tests of
a pass, which makes several; iod may be restarted at any moment and gives a different grant; a REQ
socket refuses to send until it has received; the late answer to one request must
not be taken for the answer to the next; three records of one request
(`sent_request`, the status, the state of the socket) are changed in different
places; recreating the socket is rate-limited.
*Correct when*: a session counts as set up only on an adopted grant and at its
port; the handshake and the commands keep to their own requests; no answer reaches
the wrong command; a connection that is down all through a drive of the handshake
costs the grant; the session comes back; every command taken is answered.

**ClockworkClient::Connection** and `ClockworkClient::idle` (`src/skeleton.cpp`),
with `EditorGUI::update` (`src/editorgui.cpp`).
*State*: the state of the data snapshot (`sINIT`, `sSENT`, `sRELOAD`, `sDONE`),
`needs_refresh`, the edges of "channel ready", the queue of messages with their
callbacks, the in-process REQ socket and what it waits for.
*Operations*: `checkConnections`, `onChannelLost`, `onChannelBecameReady`,
`update` (asks for the MODBUS REFRESH snapshot), `handleCommand`,
`handleSubscriber`, `queueMessage`; the monitor responders.
*Hard*: every failure of the layer below shows here as an answer, a silence or a
lost session; two timeouts (7 s here, 5 s below) race; answers are paired with
queued messages by position only.
*Correct when*: a snapshot that is awaited has been asked for; data counts as
loaded only in the session it was asked in; a callback runs for its own message;
operator messages do not outlive the session; the data loads and the queue drains.

**Control overlay** (`updateControlDisconnectedOverlay`, `afterFrameRendered` and
the input handlers in `src/editorgui.cpp`).
*State*: whether the overlay is shown, for how long connections have been down or
ready, the count of frames still to paint under it, `control_needs_covered_rebuild`,
the active drag.
*Hard*: several connections change independently, the shown screen changes under
the overlay, drops shorter than the delay leave stale pages behind.
*Correct when*: after a gap the operator reaches a page only when
`control_overlay_settle_frames` frames were painted under the overlay with the
selected page there, or when the fixed time is up; no drag is left under the overlay;
it comes when it should and goes when it should.

**Backlight** (`src/editorgui.cpp`, `BACKLIGHT.md`).
*State*: the last request, the pending off and its start, the blanked flag, the
key that woke the display.
*Hard*: requests, delay, operator input and failures of the hardware command,
reported or not, come in any order.
*Correct when*: an off request is pursued over every wake, a display that is dark with
no failed command can be woken, an input that wakes the display does nothing else.

**HTML view** (`src/editorhtmlview.cpp`, frames by `src/skeleton.cpp`).
*State*: the phase and status of the load, the layout thread and its result, the
document, the image painted from it, the scroll position, the button held.
*Operations*: `setUrl` (published by Clockwork, edited, or from an anchor),
`draw` with `advanceLoad` (one stage per frame) and `paintViewport`, the layout
thread, the events of the operator, the destructor.
*Hard*: a thread works on objects the GUI thread owns while the URL changes, the
operator clicks and the widget may go; a frame is drawn only when one was asked
for; a click's handler may replace the document it belongs to.
*Correct when*: one thread at a time works on the container; what the screen shows
is current; a click stays on the page that was pressed; every load ends and
announces what it does.

**HTML cache** (`src/htmlview_container.cpp`, `src/curl_helper.cpp`).
*State*: per URL a body, a temporary body and a record of its validators and length
on disk; the URLs the document at hand has resolved.
*Operations*: `ensureLocalFile`, `prefetchUrls`, `clearMemoryMaps`; the fetch.
*Hard*: every file operation may fail, closing a file without anyone looking, and the
panel may lose its power between any two; the origin may change the document, go
back, or give no validators.
*Correct when*: a caller opens what this fetch brought, or a body of a version that was
confirmed or had been validated, and that body is whole if its length was recorded.

### How they interact

    monitor threads --disconnected()--> SubscriptionManager <--REQ, SUB--> iod
           |                                   ^
           | needs_refresh                     | in-process REQ/REP (CommandBridge)
           v                                   v
    ClockworkClient::idle  --update()-->  EditorGUI  --queueMessage--> messages
           |                                   ^
           | startup state, Ready              | input events
           +----> control overlay, backlight --+

    EditorHtmlView --draw(), one stage per frame--> layout thread --> container, document
           |
           +--ensureLocalFile, prefetchUrls--> disk cache <--HTTP--> origin

Everything except the monitor threads and the layout threads of the HTML views
runs in the GUI thread. The GUI loop calls
`idle`, then draws if a frame was requested, then handles events. The in-process
socket pair is the interface between the two lower layers, and `CommandBridge` is
its specification: `SubscriptionManager` is shown to implement it, and
`ClockworkConnection` is built on it in place of the SubscriptionManager.
`ClockworkClient` puts the two together again, and shows that a Connection sees of
the real SubscriptionManager nothing but what the bridge lets it see.

### Parts that are not modelled

| Part | State and operations | What is hard, what would be correct |
|---|---|---|
| Screen capture, `--screen` (`editorgui.cpp`, `screencapture.cpp`) | settle count, timeout, written flag; checked per frame | writes one picture of a complete page, or times out; second user of readiness |
| Display hot-plug restore (`pollDisplayOutputs`, `skeleton.cpp`) | debounce and restore window | a display that comes and goes within the window is restored once |
| Linkable properties (`linkableproperty.cpp`, `linkmanager.cpp`, `connectable.cpp`) | values, lists of links | sequential: an update may unlink only itself, and a `std::list` keeps the walk of `setValue` valid |
| Image cache (`image_cache.cpp`) | files by age and size | a sweep removes what it may and nothing in use |
| Texture cache (`gltexture.cpp`, `resourcemanager.cpp`) | reference counts | a texture is freed with its last user |
| Document view (`editordocview.cpp`) | page number, downloaded pages | pages around the current one are there; no thread of its own |
| Sample buffers (`circularbuffer.cpp`) | ring of samples | positions wrap; a pure data structure |
| Widgets and windows | layout and properties | drawing; only their calls on the queue, the drag and the page matter here |
| Project editor, parsers, saving | structures of a project | sequential parsing and text output |
| Values, encoding, cJSON (`clockwork/src`) | conversions | data conversion; here an answer is a *kind* of reply |
| Clockwork machine runtime (`clockwork/src`) | machines of iod | belongs to iod, the other end of the connection |

Each is a row of `PROJECT.json` "components"; "hazards" there lists what in the
modelled parts, and in those planned, a test would hardly reach, at its line, with
the properties that would catch it.

## 2. Modules

| Module | Models | State |
|---|---|---|
| `CommandBridge` | abstract: requests are taken one at a time while the session is ready, or refused, and answered once | `ready`, `asked`, `inbox`, `serving`, `outcome` |
| `SubscriptionManager` | the client SubscriptionManager with iod, the network, the monitors and the clock around it | `sm` (the object), the bridge's variables, `pc` |
| `MCSubscriptionManager` | instances for TLC | |
| `SubscriptionManager_proofs`, `CommandBridge_proofs` | invariants and refinement, and what the bridge promises, proved | |
| `OperatorCommands` | abstract: operator messages are served oldest first, done with after an answer to them | `made`, `waiting`, `sent`, `answered` |
| `ClockworkConnection`, `ClockworkConnection_proofs` | a Connection over the bridge (`Bridge == INSTANCE CommandBridge`) | snapshot state, queue, in-process REQ |
| `ClockworkClient`, `ClockworkClient_proofs` | the two together: `idle` running the real `checkConnections` (EXTENDS `SubscriptionManager`, `Link == INSTANCE ClockworkConnection`) | both, `at`, `events` |
| `Curtain` | abstract: what the overlay is to the operator | `drawn`, `stale`, `seen`, `waited`, `pressed` |
| `ControlOverlay`, `ControlOverlay_proofs` | the overlay over several connections | `visible`, `rebuild`, `settle`, ages, page |
| `DelayedOff` | abstract: what the backlight is to the point that asks for it | `mode`, `due`, `presses` |
| `Backlight`, `Backlight_proofs` | requests, delay, wake path | request, `pending`, `blanked`, `lamp`, keys |
| `HtmlView`, `HtmlView_proofs` | a load, the layout thread, frames, clicks | `phase`, `status`, `worker`, `doc`, `surfaces`, `image`, `redraw`, `gui` |
| `HtmlCache`, `MCHtmlCache`, `HtmlCache_proofs` | the disk cache of one URL | `body`, `tmp`, `meta`, `mapped`, `origin`, `pc` |

### SubscriptionManager

`sm` is a record of the object's members and its two sockets, and each method is
an operator from such a record to another: `setSetupStatus`,
`invalidateChannelGrant`, `requestChannel`, `setupConnections` and so on. A pass
takes several steps, at the points where another thread can be noticed. Every test of
a monitor's `disconnected()` in lines 1233-1403 is a step of its own, with what is done
on its result: `BeginPass` and `TestLegs` (1236), `TimeOut` and the two tests of 1274
(`TestBothSetup`, `TestBothSubscriber`), `TestSetup` (1281), the two of 1317
(`TestSubscriber`, `TestSubscriberAlone`), `Connecting` and `Handshake`, `TestSettled`
(1372, setup) and `FinishDrive` (1361, or 1372 for SUB). Then come
`TestSubscriberPolled` and `Poll`, or `LegDownNotPolled` (1411); the taking of a command; the answering of one. A monitor or iod
step may come between any two of these. What one method does after its test
(`forceFullReconnect`, `setupConnections`) is one step: a flag that changes inside it has
the effect it would have just before or just after. The history variable `lost` holds
the connections that have been down ever since the pass began; for SUB, with a setup
connection that was not dropped meanwhile. `req` abstracts the REQ socket to what the
code can tell: free, pending, lost (no answer will ever come), or an answer of some kind waiting.
A socket that connects but fails to send is the same as one that sends and
loses the request. Clocks are flags: `late` (the forwarded command is over its
5 s), `aged` (the state is over its own limit) and `recent` (a socket was
replaced within the rate limit), each with an action that sets or clears it at
any time its measurement allows.

Not in the model: the server side, `MessageRouter` and `ConnectionManager::abort`
(humid uses none), destruction, and branches taken only when zmq's `connect`
throws. The `channel_request_timeout` branch of `requestChannel` is never
reached: `Coherent` says why (an object that may send has `sent_request` clear).

### ClockworkConnection

`pc` walks through one pass of `idle`: `check`, `serve` and `respond` (`check` before
`checkConnections`; inside it, at `serve`, the session may change (`DriveSession`) until
a command is taken over or refused, and at `respond` a command is answered), `edge` (the
session came or went), `update`, `command` (`handleCommand`), `subscriber`. The bridge steps that belong to the
SubscriptionManager happen where the thread is inside it, in the order the code
has them, so that a command can be taken over and answered in one pass. Four history variables
name the request a snapshot came from, the last request before the session
opened, the last operator message before it was lost, and what each request
carried; the code's steps never depend on them. The data race on `needs_refresh` is a flag set at
any step. `idle(false)` is called only by the process started without a display,
which has no operator; the model is the interface with a display
(`gui_is_ready` true). The 10 ms throttle only delays a pass and is left out.

### ClockworkClient

The GUI thread has one place in each of the two models: `at` is where it is in
`idle`, `pc` where it is in `checkConnections`, and `pc` moves only while `at` is
`check`, `serve` or `respond`. Each action is a step of `idle` that is at the same time a
step of both models (`IdleChecks`, `IdlePolls`, `IdleAccepts`, `IdleResponds`,
`IdleSends`, `IdleSubscribes`), or of one and nothing in the other
(`IdleFollows`, `Elsewhere`, `AtTheDesk`). `Unmoved` marks the tests of a drive that the
Connection does not see. Nothing is assumed of the session: `ready`
of the Connection is the status of the SubscriptionManager. The monitor
thread notes an event for the SubscriptionManager (`disconnected_`) before it runs the
responder of the Connection (`SocketMonitor.cpp:191-192`): `events` holds those
whose responder has yet to run, and any step may come in between. A REQ socket that
is replaced while the session is kept takes the responders along and reports a
connection of its own.

The Connection's faults are not counted here (`MaxFaults <- -1`), since they are what
the SubscriptionManager and iod do; the client has one bound for the faults below and
for timers that run out early and spells of edit mode above.

### ControlOverlay

One turn of the loop is `idle` (connections change, their snapshots and screens
arrive, then `UpdateOverlay`), `frame`, `events`. `UpdateOverlay` has one disjunct per
path through `updateControlDisconnectedOverlay`; `hideControlDisconnectedOverlay` clears
`control_needs_covered_rebuild`, and the disabled path sets it again. Clocks are
ages, `young` or `old` relative to the configured delay; with a delay of zero or less a
clock is `old` as soon as it is started (`Age`), so that the code's comparison succeeds in
the same pass. The history variable `owed` says that no page has been let through since
the last gap, and `covered` counts the frames painted under the overlay, all connections
ready and the selected page there, since a gap or since that page was last missing.
The code's count is of the same kind: it goes on when the selected page is replaced by
another that is ready, so the frames counted need not be frames of one page
(section 5). `enabled` is fixed: with `run_only` the edit mode cannot be entered.
`--screen` capture, in which the count of frames is not run, is left out.

### Backlight

One action per change of the request, per run of `processBacklightTimeout`, and
per input event. The hardware interfaces (sysfs, ddc, dpms, wlr-randr) are one
command. It succeeds, it fails and `applyBacklight` notices, or it fails without that:
ddcutil's failed power-on is only logged, and a write to a sysfs file can fail when the
file is closed. `ApplyBacklight(on, returned)` has the outcomes for each value returned,
so the code may go on as if the lamp were lit where it is not. `reached` records the
event a step passes on to the page, `waking` the keys held whose press met a blanked display, `failedOn` that the last
command to light the display failed, noticed or not.

### HtmlView

A document is known by the load that brought it, so "the page of the latest
load" is `loads`. A frame is three steps (`BeginFrame`, one of the `Advance`
actions, one of the paint actions) between which the layout thread runs; the
events come between frames. Waiting for the thread (`joinLayoutThread`) is the
guard `Joinable` of the step that waits. The thread has two steps: its result and
`m_layout_done`, then the frame it asks for. Where a fragment or a new width
takes the page is any member of `Positions`; whether a stage fails is a choice.
A click has two steps, since the callback of litehtml can start a load before it
returns: `clicked` is the document litehtml still holds. History variables:
`pressed`, `frame` (what the last frame showed), `announced` (the panels shown
since the load began), `uses` (this step of the GUI thread worked on the
container).

Not in the model: edit mode, the threshold that tells a drag from a click (both
are choices at the release), the Top button's geometry, timing lines.

### HtmlCache

A file holds a version: whole, `cut` by a crash, or `short` of what was lost when it
was closed. `write_buffer_to_file` checks `fwrite` and drops the result of `fclose`
(`curl_helper.cpp:137-142`), so `WriteBody` may leave a short body and go on to the
rename and the record. The validators of a version are the version itself. A record
may lose its end in the same way, or to a crash: `unsized` has lost its last line,
the length, and `torn` has lost validators too, which then match nothing. (A record
whose length lost digits fits no body, and is as good as none; so is a body cut to
nothing.) `LeftOf` lists what may be left of a record; it is used where the record is
written (`Record`), where it is written again after a 304 (`NotModified`), and by `Crash`.

`ensureLocalFile` and the tail of `prefetchUrls` are the same steps, so they share
actions, told apart by `purpose`. `Crash` may come between any two steps; the body and
the temporary body may be lost or cut. `OriginChanges` lets the origin hold any other
version, an earlier one too. A version may share its length with another, so
`LooksComplete` cannot tell them apart, as in the code; it does not compare the length at
all when none is recorded, as in the code. The history variable `measured` says that the
fetch did compare it. Left out: a second reader of the same URL (section 5).

## 3. Runs

| Run | Distinct states | Shows |
|---|---|---|
| `sm` | 191,474 | handshake, reconnection and bridge: eight properties, refinement and two liveness properties among them |
| `conn` | 290,002 | one Connection over the bridge: five invariants, an action property, the refinement of `OperatorCommands` and two liveness properties |
| `client` | 1,920,168 | a Connection on the real SubscriptionManager: it implements the Connection on the bridge |
| `overlay` | 76,449 | the overlay with two connections and three screens, one of them empty; it implements `Curtain` |
| `backlight` | 25,983 | the backlight with two keys and commands that fail, noticed or not; it implements `DelayedOff` |
| `html` | 48,945 | an HTML view over three loads: three invariants, three action properties, one liveness property |
| `cache` | 219,608 | the disk cache of one URL with crashes, failures (of `fclose` too) and a changing origin |
| `sm_error_stuck`, `sm_cmd_unanswered`, `sm_down_unpolled`, `backlight_wake`, `html_surfaces` | | one disagreement each between the code and what its comments or documents say (section 6) |

**What the properties say.** `DoneIsGranted`: "both TCP paths up" is not a session;
one needs an adopted grant and the SUB socket at its port. `HandshakeOwnsRequest`: the
answer `requestChannel` waits for is never a command's, and once a grant is adopted the
REQ socket owes no answer, whatever was sent on it before. `GrantNeedsBothLegs`: a
connection that is down all through a drive of the handshake costs the grant; what there
is afterwards was granted in that drive (one that comes back between two tests may keep
it: section 5). `NoForeignReply`: no command is answered with a grant or a late answer.
`BridgeSpec`: the bridge is implemented. `Reconnects`, `CommandsAnswered`: the
client recovers and answers. `RefreshQueued`, `SnapshotIsCurrent`,
`InFlightIsHead`, `NoStaleSend`, `DataLoads`, `QueueDrains` say of a Connection
what section 1 calls correct; `InputIsCurrent`, `NoDragCovered`,
`SettleUnderOverlay`, `OverlayLifts`, `OverlayCovers` of the overlay;
`OffIsPursued`, `DarkCanBeWoken`, `OffBlanks` of the backlight. `DarkCanBeWoken` excepts a
display whose last command to light it failed: it is dark, and after a failure nobody
noticed it is no longer blanked to the code (section 5). `InputIsCurrent` says which pages
the operator can reach: let through since the last gap, or under a brief drop, or, when
`control_reconnect_uncover_seconds` is zero, an empty one. `PressOnlyWakes`: a press on a
blanked display does nothing but wake it; only a click whose wake command failed reaches
the page. `ScreenIsCurrent`: with no frame asked for, the screen shows the page,
position and size there are, in whatever order changes and frames came.
`LoadIsDriven`: a load under way has a frame asked for, or a layout thread that will ask
for one, so a view drawn on demand never stops in the middle of a load.
`NoSharedContainer`: the GUI thread does not work on the container while the
layout thread does. `ClickStaysOnItsPage`, `StagesAreAnnounced`, `LoadEnds` of the
view. `ServedIsSound`: a file that is opened is the version this fetch brought, never cut
by a crash though it may be short of what closing it lost; or one that was there before,
confirmed by the origin or, when the fetch failed, of a version that had validators, and
whole if the fetch compared its length with the record. `IInv` is each component's
inductive invariant, checked before it was proved.

Three properties compare a component with an abstract specification of what its user
sees. `OperatorSpec`: over sessions, timeouts and replaced sockets, only the oldest
operator message is put on the command path, and nothing but an answer to it or the loss
of the session takes it out of the queue; `CommandsInOrder` says the same of what reached
the path. `OffSpec`: the display goes dark only when a whole delay has passed since the
request or the last press, and a press lights it for another whole delay at most.
`CurtainSpec`: the overlay comes for a gap and for nothing else, takes a press with it,
and goes only when enough frames were painted behind it, each with the page then selected
there, or the time is up.

`LinkSpec` closes the chain. `BridgeSpec` says that a SubscriptionManager driven by any
user of the command socket is a bridge; the properties of `ClockworkConnection` hold of
a Connection on any bridge. `LinkSpec` says that with the thread that drives the
one being the thread that runs the other, and the monitors talking to both, the composition
still is a Connection on a bridge: no step of the SubscriptionManager shows where the
Connection does not expect it (a session that comes up in the middle of a pass, an answer
outside `checkConnections`, a session lost while the Connection is past its edge).

**Bounds and why they are enough.**

- `sm`: two grants (the old one and the new one of a restarted iod), two commands
  (a late answer and the next command), two faults. A fault is a drop, an
  unusable answer, a torn publication, an interrupted poll, a pass made too early; a drop
  of each connection, or a drop and an unusable answer, fit in one behaviour, and since
  connections come back freely a drop may be noticed by any test of a pass and over by the
  next. The safety part and the refinement are proved for any number of faults.
- `conn`: five requests, two operator messages, two faults: a snapshot and the two
  messages, with two repetitions, so that a message that is sent again could overtake
  the other.
- `client`: one grant, two requests and one operator message: a snapshot and the
  message follow each other on the command path, or one of them is sent twice. One fault,
  which may be an early timer, is enough for each kind of answer (own, timeout,
  disconnected, failed), each way to lose the session and each order of a monitor's note
  and its responder. With three requests and no message (1,077,038 states) it passes as
  well. Two faults in one behaviour are covered by `sm` and `conn` separately, and here,
  for every bound, by the proof.
- `overlay`: two connections, so that one can be ready while the other is not; three
  screens, one empty and two with widgets, so that one page can replace another in the
  middle of the count; two settle frames, so that the count is interrupted between them;
  two drops and one selection of a screen, a screen that does not exist among the
  choices. Both delays are positive; `MCControlOverlay_NoDelay.cfg` sets them to zero
  (44,956 states), and every property holds there as well.
- `backlight`: two keys held at once, four presses, three changes of the request
  or the connection, two failures, each noticed or not. `backlight_wake`
  allows no failure, so that what it finds needs none.
- `html`: three loads, so that one replaces another while it is laid out, and a third
  follows; two positions; three sizes, one of them none; `html_surfaces` needs two
  loads.
- `cache`: four versions: two of the same length with validators, one of that length
  without, one longer. Crashes, failures and changes of the origin are not bounded.
- The runs that find a disagreement use the smallest bounds at which it shows.

After the bounds are used up the models go on: commands, faults and events stop,
the loop does not. No run switches the deadlock check off.

**Fairness and why the code justifies it.** The GUI loop calls `idle` for ever:
weak fairness of `Pass`, `UpdateOverlay`, `Frame`. Clocks run: fairness of the ages.
zmq reconnects its sockets by itself and iod answers CHANNEL (`SetupConnected`,
`SubscriberConnected`, `GrantChannel`). A socket that is dialled may be given up by the
tests of the next drive (1274, 1326) and dialled again, so its connection is enabled again
and again rather than always; and one that comes up just between two tests of a drive may
be given up by the rest of them. Strong fairness of the two connections at the end of a
drive (`pc = "poll"`) says that the attempts do not meet those microseconds every time.
`Publications` says a poll sees a readable socket again and again, since iod publishes; `sm_cmd_unanswered` shows that answering commands depends on it.
For a Connection the session comes back and requests taken are completed: that
is what `Reconnects` and `CommandsAnswered` show of the layer below. A request is
completed in a step of the pass that comes again and again, hence strong fairness of
`Complete`; and of `NoCommand`, the step to it while a command is under way, since a
poll finds some readable socket again and again (`Publications`). `ClockworkClient` has no fairness: its properties are safety.
NanoGUI's main loop calls `drawAll` in every pass, after whatever events it handled
first: `BeginFrame` has strong fairness, since events disable it for a moment, and
the steps of a frame, the return of a click and the layout thread have weak fairness.
Faults and operator input are never fair.

## 4. Proofs

For all grants, any number of commands and faults, any connections, screens,
settle frames and keys, any positions, sizes and loads of a view, any versions of a
cached document. The assumptions are the `ASSUME`s of the modules: the
sets of grants and screens do not hold the values that stand for "none", the
bounds are natural numbers, `control_overlay_settle_frames` is at least 1 (the code takes
the maximum with 1), the two delays are integers, a version is at least one byte
long (a body of no bytes is never complete), `Top` is a position and `Unsized` a size.

- **SubscriptionManager** `Spec => []IInv`. `DoneIsGranted` and `HandshakeOwnsRequest`
  are not inductive. A session stays granted only because the endpoint, the grant
  last stored and the grant adopted agree at every moment, in the intermediate
  states of the handshake too; and CHANNEL's answer is its own only because
  `sent_request` is set exactly in `e_waiting_setup` and whatever leads there found the
  REQ free: `Coherent`. An answer belongs to its command only
  because the REQ socket is used for something else only after the SUB endpoint
  was given up, which forces the command to be answered as disconnected before
  the socket is read: `OwnsRequest`. What a pass took from its poll must still
  hold when it is used: `PollCurrent`. And for `GrantNeedsBothLegs`, a connection that
  has been down since the pass began leads every test to the branch that gives the grant
  up, wherever the drive is: `TestsCurrent`. Every method has a lemma that says what it
  preserves of the object (`...Fit`, `...Fields`); one lemma per group of actions
  composes them. From the invariant follow `TypeCorrect`, `SessionsAreGranted`,
  `HandshakesOwnTheirRequests`, `GrantsNeedBothLegs`, `AnswersBelong`,
  and `ImplementsBridge`: every step is a step of the bridge or leaves it alone.
- **CommandBridge** `Spec => []Accounted`, `Spec => AnswersAreFinal`. The requests made are,
  in order, those answered, the one served and those that wait. This is proved once, of
  the abstract module; `SubscriptionManager_proofs` and `ClockworkConnection_proofs`
  instantiate it and get `RequestsAccounted` and `AnsweredOnce` of themselves from
  `ImplementsBridge` and `UsesBridge`.
- **ControlOverlay** `Spec => []IInv`. The properties need the bookkeeping: a gap
  keeps `rebuild` set until a page was let through (`GapNeedsRebuild`); the
  countdown has counted the frames it says (`CountdownCounts`) and ends with the
  overlay (`CountdownEnds`); a page left uncovered since the connections were ready
  has been let through (`UncoveredIsCurrent`), through frame and events
  (`TurnIsCurrent`), both with their exception for a delay of zero.
  `OverlayIsCurtain` needs two more: a rebuild still wanted is one that is owed
  (`RebuildIsOwed`), so that the overlay never comes back over a page that was let
  through, and a disabled overlay is away (`DisabledStaysAway`). It does not say that the
  frames behind the curtain are all of one page: they need not be (section 5).
- **Backlight** `Spec => []IInv`, `OffRequestsArePursued`, `DarkDisplaysCanBeWoken`,
  `PressesOnlyWakeBlankedDisplay`. The missing part is `LitFirst`: nothing is blanked
  before the display has been lit once. `KeepsDelayedOff` maps pending to waiting and
  blanked to dark, as the code records them; it needs that a delay which has passed
  belongs to a pending request (`DueWaits`).
- **ClockworkConnection** `Spec => []IInv`, `SnapshotsAreRequested`,
  `SnapshotsAreCurrent`, `CallbacksMatch`, `LostMessagesStayLost`. What is missing
  ties everything to the session: past the edge of a pass there is a session and a
  REQ socket (`PastTheEdge`), and the request in flight and all that is queued were
  made after the last loss (`OfThisSession`). `ServesOperator` and `CommandsOrdered` rest on
  `QueueInOrder`: the queue is in the order of the presses, and so is what was carried,
  up to the head of the queue, which is sent again after a timeout.
- **ClockworkClient** `ClientSpec => ManagerSpec` (`UsesManager`): every step of the
  client is a step of the SubscriptionManager or leaves it alone, so its `IInv` holds
  here. `ClientSpec => []InStep` (`StaysInStep`): the two places of the GUI thread
  agree, the session is up past the edge of a pass, and what was polled of the
  command socket still holds when it is read. `ClientSpec => LinkSpec`
  (`ManagerServesLink`) from both: the steps in which the session can go are those the
  Connection expects (`ReconnectEndsSession`, `ResetKeepsStatus`), an
  answer read out of band never brings it up (`OutOfBandKeeps`), and nothing around
  a pass touches it (`ElsewhereKeeps`). Then `ClientIsSafe` and `ClientServesOperator`
  are the theorems about `ClockworkConnection`, instantiated: of the two layers
  together, for any number of faults in either.
- **HtmlView** `Spec => []IInv`. While the thread runs there is no document for an
  event to reach (`WorkerIsAlone`); a load waits only for what was started
  (`StagesAreFed`); the panels were shown (`PanelsPrecede`); every document about is
  that of the latest load (`OnePage`); the image is the one of the position unless it
  is to be painted again (`ImageIsCurrent`). `PaintIsDue` says when a frame is asked for. From these follow `ScreenCurrent`, `LoadsAreDriven`,
  `ContainerNotShared`, `ClicksStay`, `PanelsComeFirst`.
- **HtmlCache** `Spec => []IInv`, `ServedFilesAreSound`, `MappedFilesAreSound`. The files
  are as the steps to come expect them (`StagesFollow`), and a record is of the body
  beside it, except after a body was renamed and its record was not (`RecordsMatch`).
  A URL the document has used is served again without a fetch: that its file is still
  as the last fetch left it is `MappedIsSound`, part of the invariant.

**Only model-checked**: every liveness property (`Reconnects`, `CommandsAnswered`,
`DataLoads`, `QueueDrains`, `OverlayLifts`, `OverlayCovers`, `OffBlanks`, `LoadEnds`),
since liveness under fairness needs ENABLED, which the provers do not support.

## 5. What the models say besides

- Commands are carried out *at least once*. The 7 s limit of the Connection is longer
  than the 5 s of the bridge, but a request on the path when the path is rebuilt is
  sent again and may run twice, and a request already in the REP socket is carried
  out in the next session. `NoStaleSend` covers only what is still queued.
- `messages.clear()` on a lost session drops the message that switches a held
  button off; a drag cancelled under the overlay never sends it either.
- An unusable answer to CHANNEL within the rate limit leaves `sent_request` set on a free
  socket; the status limit of ten seconds ends it, not the three of
  `channel_request_timeout`.
- `setSetupStatus` (843-851) clears `sent_request` on a half-open REQ when the
  replacement is rate-limited, although the comment at 377-380 says not to; the
  time limits of the status repair it.
- `disconnected_` is a level: a drop and a reconnection between two passes leave no
  trace and a grant survives it. So does one noticed by a pass: a connection found down at
  1236 and up again by 1281 or 1317 takes none of the branches that give the grant up,
  nor does SUB down while the setup connection drops between the two tests of 1317,
  although the comment at 1325 asks for a new CHANNEL whenever the data path was lost.
  `GrantNeedsBothLegs` therefore speaks of a connection that stays down (`lost`).
- An interrupted poll makes `checkConnections` return false, and the Connection
  treats a good session as lost.
- The count of covered frames survives a change of the page: when `setStructure` replaces
  the selected page by another that is ready, `control_overlay_settle_remaining` goes on
  (`editorgui.cpp:1822-1832`, 1978-1988) and the overlay may go after one frame of the new
  page, whereas the document asks for the frames while the overlay "still covers the
  rebuilt page". `PageRestartsCount` states that; TLC with
  `MCControlOverlay_Frames.cfg` ends with a counterexample.
- With `control_reconnect_uncover_seconds` at zero, a page without widgets is neither
  covered nor uncovered once the connections are ready: after a brief drop it
  stays as it was (`EmptyAtOnce` in `InputIsCurrent`).
- The overlay goes while connections are still in `sRELOAD`, and after
  `control_reconnect_uncover_seconds` over any page with widgets;
  `CONTROL_CONNECTION_OVERLAY.md` asks for `sDONE` and the selected screen.
  `RemovedWhenDone` in `ControlOverlay` states the document; TLC with
  `MCControlOverlay_Doc.cfg` ends with a counterexample.
- A command that fails unnoticed leaves the display dark and `blanked` clear: ddcutil's
  failure is only logged (`editorgui.cpp:1425-1446`), and a sysfs write may fail at the
  close. The next press then reaches the page of a dark display and no input wakes it,
  until the request changes or an off request that waits has run its delay and blanks
  the display again. `failedOn` in `DarkCanBeWoken` excepts this.
- Waking keys: holding a key is no activity; a failed command for an on request is
  not repeated.
- A click on a blanked display whose wake command fails reaches the page, although
  `editorgui.h:203` says such an event should be swallowed; a key is swallowed.
  `PressOnlyWakes` allows exactly this: the mouse, and only after the failure.
- An empty URL ends a load but neither waits for its layout thread nor drops a document
  that is ready: the document can still be clicked under the panel.
- A press on the status panel, released after the page has come in the same load,
  clicks the page.
- `m_pending_fragment` is not cleared by a jump within the page (`onAnchorClick`), so a
  later change of width jumps there again.
- A frame in which Cairo fails still shows the old image; the panel comes with the
  next one. `ScreenIsCurrent` leaves this case out.
- A body that was renamed and not recorded (a crash or a failed write between
  `htmlview_container.cpp:456` and 479) may have the length of the record before; if
  the origin goes back to that version, its 304 confirms the wrong body, and a failed
  fetch falls back to it. `ServedIsSound` names the exception (`unrecorded`).
- `write_buffer_to_file` ignores what `fclose` returns (`curl_helper.cpp:137-142`). A disk
  that is full at that flush gives a successful fetch with a short body, which is renamed,
  recorded with its full length, and opened by that fetch and while the URL is mapped. The next
  fetch finds the length wrong and asks for the document again, unless the record lost its
  length in the same way: `content_length` is then -1 and not compared, and the short
  body is confirmed and served as long as the origin keeps the version.
- Two layout threads, or two processes, that fetch one URL share `<key>.body.tmp`
  without a lock. One may remove or rename what the other writes: a failed promotion,
  or a partial file. The model has one reader.

## 6. Where the code and its text disagree

Each is an entry of `PROJECT.json` "findings" and a run that TLC ends with a
counterexample.

1. `sm_error_stuck`: an error answer to CHANNEL with both connections up is never
   retried; the table of timeouts says ten seconds (`ConnectionManager.cpp:1260`).
2. `sm_cmd_unanswered`: the time limit of a forwarded command is looked at only
   when some socket is readable (`ConnectionManager.cpp:1456`), against "MUST
   reply before the next recv".
3. `sm_down_unpolled`: with a connection down the command socket is looked up by
   the address of its wrapper (`ConnectionManager.cpp:1415`) and never found, so
   commands made before the drop are not refused while it lasts.
4. `backlight_wake`: a second wake overwrites the wake key of the first, whose
   repeats and release are then delivered.
5. `html_surfaces`: an anchor to another document releases the document inside its own
   click handler. litehtml holds it by a temporary (`el_anchor.cpp:16`), so the
   surfaces are cleared first, against `editorhtmlview.cpp:99`; the document dies when
   the callback returns, while its `on_lbutton_up` (`document.cpp:856-858`) is still
   running.

## 7. Plan

Done, in this order because the session is what everything else rests on:
`CommandBridge`, `SubscriptionManager` and its proofs, `ClockworkConnection` over
the bridge and its proofs, `ClockworkClient` that composes them, `ControlOverlay` and `Backlight` with their proofs,
`HtmlView` and `HtmlCache` with theirs.

Next:

1. *Two readers of the HTML cache*: two fetches of one URL with a shared temporary
   body, and what is then left of `ServedIsSound`.
2. *Screen capture and display restore*: the settle count under changing
   readiness; the restore window. `ControlOverlay` supplies the readiness.
3. *Image cache*: the sweep as an operator against a reference definition over all
   small directories; reference counts of textures as a state machine with a
   proof.
4. *Circular buffer*: its index arithmetic as functions, with lemmas proved.

Not modelled, and not planned: litehtml, cJSON and the other vendored libraries; the
Clockwork machine runtime, which belongs to iod; the parsers and the project editor,
which are sequential text processing. They are most of the lines of the repository
and none of the concurrency of the operator interface.
