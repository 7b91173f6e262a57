----------------------------- MODULE ControlOverlay -----------------------------
(***************************************************************************)
(* The "Control is not connected" overlay of EditorGUI.  While a configured    *)
(* connection is down or has no complete data snapshot the overlay covers the *)
(* page and swallows operator input; afterwards it stays until the page of    *)
(* that snapshot has been painted underneath it, or for a fixed time.         *)
(*                                                                           *)
(* One thread runs the GUI loop.  A turn is: the Clockwork client's idle       *)
(* ("idle"), updateControlDisconnectedOverlay at its end, the frame if one was *)
(* requested ("frame"), and the operator's events ("events").                 *)
(***************************************************************************)
EXTENDS Integers

CONSTANTS
    Connections,     \* the configured Clockwork connections
    Screens,         \* the screens of the project
    Blank,           \* those that load without any panel widget
    None,            \* no screen: nothing shown, or active_screen not set
    Unknown,         \* an active_screen that names no screen
    SettleFrames,    \* control_overlay_settle_frames
    CoverDelay,      \* control_disconnected_delay_seconds
    UncoverDelay,    \* control_reconnect_uncover_seconds
    MaxDrops,        \* bound on connections or snapshots lost
    MaxJumps         \* bound on screens selected by Clockwork

ASSUME ScreensAssumption ==
    /\ Blank \subseteq Screens
    /\ None \notin Screens /\ Unknown \notin Screens /\ None # Unknown
ASSUME SettleAssumption == SettleFrames \in Int /\ SettleFrames >= 1
ASSUME DelaysAssumption == CoverDelay \in Int /\ UncoverDelay \in Int
ASSUME BoundsAssumption == MaxDrops \in Nat /\ MaxJumps \in Nat

VARIABLES
    data,      \* per connection: down (not Ready), loading, sRELOAD or sDONE
    enabled,   \* run_only, show_control_disconnected_overlay and not editing: fixed
    active,    \* active_screen
    shown,     \* the structure the user window shows
    visible,   \* control_disconnected_overlay_visible
    downFor,   \* control_disconnect_pending: none, or how long: young or old
    everReady, \* control_ever_ready
    rebuild,   \* control_needs_covered_rebuild
    settle,    \* control_overlay_settle_remaining
    readyFor,  \* control_channel_ready_at: invalid, or how long ago: young or old
    drag,      \* a widget has been pressed and not released (mDragActive)
    redraw,    \* needs_frame_redraw
    due,       \* connections whose snapshot this idle shows: sRELOAD when it began
    pc,        \* where the loop is
    drops, jumps, \* bounds
    owed,      \* history: no page of the new data has been let through since a gap
    covered    \* history: frames painted under the overlay with the selected page there,
               \* whichever that was, since a gap or since it was not there

overlayVars == <<visible, downFor, everReady, rebuild, settle, readyFor>>
pageVars == <<enabled, data, active, shown, drops, jumps>>
historyVars == <<owed, covered>>
vars == <<overlayVars, pageVars, historyVars, drag, redraw, due, pc>>

Loaded == {"sRELOAD", "sDONE"}
Ages == {"young", "old"}

\* How old a time just taken is: a delay of zero seconds, or fewer, is over at once.
Age(delay) == IF delay <= 0 THEN "old" ELSE "young"

\* hasPanelWidgets()
HasPanelWidgets == shown \in Screens \ Blank

\* controlConnectionsReady()
ConnectionsReady == Connections # {} /\ \A c \in Connections : data[c] \in Loaded

\* controlPageReady()
PageReady ==
    /\ HasPanelWidgets
    /\ active \in Screens => shown = active

TypeOK ==
    /\ data \in [Connections -> {"down", "loading"} \cup Loaded]
    /\ active \in Screens \cup {None, Unknown}
    /\ shown \in Screens \cup {None}
    /\ visible \in BOOLEAN /\ everReady \in BOOLEAN /\ rebuild \in BOOLEAN
    /\ enabled \in BOOLEAN /\ drag \in BOOLEAN
    /\ redraw \in BOOLEAN /\ owed \in BOOLEAN
    /\ downFor \in {"none"} \cup Ages
    /\ readyFor \in {"invalid"} \cup Ages
    /\ settle \in -1..SettleFrames
    /\ covered \in 0..SettleFrames
    /\ due \subseteq Connections
    /\ pc \in {"idle", "frame", "events"}
    /\ drops \in 0..MaxDrops
    /\ jumps \in 0..MaxJumps

Init ==
    /\ enabled \in BOOLEAN
    /\ data = [c \in Connections |-> "down"]
    /\ active \in Screens \cup {None, Unknown}
    /\ shown \in {s \in Screens \cup {None} : active \in Screens => s \in {active, None}}
    /\ visible = FALSE /\ downFor = "none" /\ everReady = FALSE
    /\ rebuild = TRUE /\ settle = -1 /\ readyFor = "invalid"
    /\ drag = FALSE /\ redraw = TRUE
    /\ due = {} /\ pc = "idle"
    /\ drops = 0 /\ jumps = 0
    /\ owed = TRUE /\ covered = 0

------------------------------------------------------------------------------
(* ClockworkClient::idle, as far as the overlay can see it                    *)

InIdle == pc = "idle" /\ UNCHANGED <<overlayVars, historyVars, enabled, pc>>

\* The channel is lost, or a refresh is asked for: the data has to load again.
Lose(c, state) ==
    /\ InIdle
    /\ drops < MaxDrops /\ drops' = drops + 1
    /\ data[c] # state
    /\ data' = [data EXCEPT ![c] = state]
    /\ due' = due \ {c}
    /\ UNCHANGED <<active, shown, jumps, drag, redraw>>

ChannelLost(c) == Lose(c, "down")
Refresh(c) == data[c] \in Loaded /\ Lose(c, "loading")

ChannelReady(c) ==
    /\ InIdle
    /\ data[c] = "down"
    /\ data' = [data EXCEPT ![c] = "loading"]
    /\ UNCHANGED <<active, shown, drops, jumps, drag, redraw, due>>

(* The MODBUS REFRESH reply: remote_screen may select a screen; a static       *)
(* screen is built again, which ends a drag.                                 *)
SnapshotApplied(c) ==
    /\ InIdle
    /\ data[c] = "loading"
    /\ data' = [data EXCEPT ![c] = "sRELOAD"]
    /\ \/ UNCHANGED <<active, drag>>
       \/ active' \in Screens /\ UNCHANGED drag
       \/ HasPanelWidgets /\ drag' = FALSE /\ UNCHANGED active
    /\ UNCHANGED <<shown, drops, jumps, redraw, due>>

\* setStructure(): clear() cancels the drag on a widget of the page that goes.
SetStructure(s) == shown' = s /\ drag' = FALSE /\ redraw' = TRUE

\* EditorGUI::update in sRELOAD.
PageReloaded(c) ==
    /\ InIdle
    /\ c \in due /\ due' = due \ {c}
    /\ data' = [data EXCEPT ![c] = "sDONE"]
    /\ IF active \in Screens /\ ~(shown = active /\ HasPanelWidgets)
       THEN SetStructure(active)
       ELSE redraw' = TRUE /\ UNCHANGED <<shown, drag>>
    /\ UNCHANGED <<active, drops, jumps>>

\* EditorGUI::update in sDONE: another screen has been selected.
PageChanged(c) ==
    /\ InIdle
    /\ data[c] = "sDONE"
    /\ shown # None /\ active \in Screens \ {shown}
    /\ SetStructure(active)
    /\ UNCHANGED <<data, active, drops, jumps, due>>

\* An UPDATE message for the property remote_screen names.
ScreenSelected(c) ==
    /\ InIdle
    /\ data[c] # "down"
    /\ jumps < MaxJumps /\ jumps' = jumps + 1
    /\ active' \in Screens
    /\ UNCHANGED <<data, shown, drops, drag, redraw, due>>

\* Either clock passes its limit; both are read at the end of idle only.
TimePasses ==
    /\ pc = "idle"
    /\ downFor # "none" \/ readyFor # "invalid"
    /\ downFor' = IF downFor = "none" THEN "none" ELSE "old"
    /\ readyFor' = IF readyFor = "invalid" THEN "invalid" ELSE "old"
    /\ UNCHANGED <<visible, everReady, rebuild, settle>>
    /\ UNCHANGED <<pageVars, historyVars, drag, redraw, due, pc>>

------------------------------------------------------------------------------
(* updateControlDisconnectedOverlay                                          *)

Overlay ==
    /\ pc = "idle" /\ due = {}
    /\ pc' = "frame"
    /\ UNCHANGED <<pageVars, due>>

\* A fault: the press that began before the overlay came is not cancelled.
CoverKeepingDrag == visible' = TRUE /\ UNCHANGED drag /\ redraw' = TRUE

\* cancelActiveDrag() goes with it: the release will be swallowed.
Cover == visible' = TRUE /\ drag' = FALSE /\ redraw' = TRUE

\* A fault: the countdown goes on after the overlay is hidden.
HideKeepingSettle ==
    /\ downFor' = "none" /\ UNCHANGED settle
    /\ visible' = FALSE
    /\ redraw' = (visible \/ redraw)
    /\ UNCHANGED drag

\* hideControlDisconnectedOverlay()
Hide ==
    /\ downFor' = "none" /\ settle' = -1
    /\ visible' = FALSE
    /\ redraw' = (visible \/ redraw)
    /\ UNCHANGED drag

OverlayDisabled ==
    /\ Overlay
    /\ ~enabled
    /\ Hide
    /\ readyFor' = "invalid" /\ rebuild' = TRUE
    /\ UNCHANGED <<everReady, historyVars>>

\* A fault: only a drop that is shown counts as a gap.
DisconnectedKeepsPage ==
    /\ Overlay
    /\ enabled /\ ~ConnectionsReady
    /\ readyFor' = "invalid" /\ settle' = -1
    /\ downFor' = IF downFor = "none" THEN Age(CoverDelay) ELSE downFor
    /\ IF ~visible /\ (~everReady \/ downFor' = "old")
       THEN Cover /\ rebuild' = TRUE
       ELSE UNCHANGED <<visible, rebuild, drag, redraw>>
    /\ owed' = TRUE /\ covered' = 0
    /\ UNCHANGED everReady

\* A fault: every turn of a drop starts its delay again.
DisconnectedNeverTimed ==
    /\ Overlay
    /\ enabled /\ ~ConnectionsReady
    /\ readyFor' = "invalid" /\ settle' = -1 /\ rebuild' = TRUE
    /\ downFor' = Age(CoverDelay)
    /\ IF ~visible /\ (~everReady \/ downFor' = "old")
       THEN Cover
       ELSE UNCHANGED <<visible, drag, redraw>>
    /\ owed' = TRUE /\ covered' = 0
    /\ UNCHANGED everReady

\* A brief drop of a session that has been ready is not shown.
Disconnected ==
    /\ Overlay
    /\ enabled /\ ~ConnectionsReady
    /\ readyFor' = "invalid" /\ settle' = -1 /\ rebuild' = TRUE
    /\ downFor' = IF downFor = "none" THEN Age(CoverDelay) ELSE downFor
    /\ IF ~visible /\ (~everReady \/ downFor' = "old")
       THEN Cover
       ELSE UNCHANGED <<visible, drag, redraw>>
    /\ owed' = TRUE /\ covered' = 0
    /\ UNCHANGED everReady

Connected ==
    /\ Overlay
    /\ enabled /\ ConnectionsReady
    /\ everReady' = TRUE
    /\ readyFor' = IF readyFor = "invalid" THEN Age(UncoverDelay) ELSE readyFor

\* A fault: the time limit waits for the selected screen.
LongEnoughOnPage ==
    /\ Connected
    /\ readyFor' = "old"
    /\ IF PageReady
       THEN /\ Hide
            /\ rebuild' = FALSE
            /\ owed' = FALSE
       ELSE /\ downFor' = "none"
            /\ UNCHANGED <<visible, settle, rebuild, owed, drag, redraw>>
    /\ UNCHANGED covered

\* The time is up: whatever the selected screen is, an empty page stays covered.
ReadyLongEnough ==
    /\ Connected
    /\ readyFor' = "old"
    /\ IF HasPanelWidgets
       THEN /\ Hide
            /\ rebuild' = FALSE
            /\ owed' = FALSE
       ELSE /\ downFor' = "none"
            /\ UNCHANGED <<visible, settle, rebuild, owed, drag, redraw>>
    /\ UNCHANGED covered

\* Nothing to see through: no gap, or its page has been painted.
NothingCovered ==
    /\ Connected
    /\ readyFor' # "old" /\ ~visible /\ ~rebuild
    /\ downFor' = "none" /\ settle' = -1
    /\ UNCHANGED <<visible, rebuild, historyVars, drag, redraw>>

\* The page of the snapshot is painted under the overlay first.
PaintCovered ==
    /\ Connected
    /\ readyFor' # "old" /\ (visible \/ rebuild)
    /\ downFor' = "none"
    /\ IF visible THEN UNCHANGED <<visible, drag>> /\ redraw' = TRUE ELSE Cover
    /\ IF PageReady
       THEN settle' = (IF settle < 0 THEN SettleFrames ELSE settle) /\ UNCHANGED covered
       ELSE settle' = -1 /\ covered' = 0
    /\ UNCHANGED <<rebuild, owed>>

UpdateOverlay ==
    \/ OverlayDisabled \/ Disconnected
    \/ ReadyLongEnough \/ NothingCovered \/ PaintCovered

------------------------------------------------------------------------------
(* drawAll and the operator                                                  *)

SkipFrame ==
    /\ pc = "frame" /\ ~redraw
    /\ pc' = "events"
    /\ UNCHANGED <<overlayVars, pageVars, historyVars, drag, redraw, due>>

Counted == visible /\ ConnectionsReady /\ PageReady

Settles == Counted /\ settle > 0

\* A fault: the page is to be painted under the overlay once more when that is done.
RenderKeepingRebuild ==
    /\ pc = "frame" /\ redraw
    /\ pc' = "events"
    /\ redraw' = Settles
    /\ settle' = IF Settles THEN settle - 1 ELSE settle
    /\ IF Settles /\ settle = 1
       THEN visible' = FALSE /\ downFor' = "none" /\ UNCHANGED rebuild
       ELSE UNCHANGED <<visible, downFor, rebuild>>
    /\ IF Counted
       THEN /\ covered' = IF covered < SettleFrames THEN covered + 1 ELSE covered
            /\ owed' = (owed /\ covered' < SettleFrames)
       ELSE UNCHANGED historyVars
    /\ UNCHANGED <<everReady, readyFor, pageVars, drag, due>>

\* The frame, and afterFrameRendered().
RenderFrame ==
    /\ pc = "frame" /\ redraw
    /\ pc' = "events"
    /\ redraw' = Settles
    /\ settle' = IF Settles THEN settle - 1 ELSE settle
    /\ IF Settles /\ settle = 1
       THEN visible' = FALSE /\ downFor' = "none" /\ rebuild' = FALSE
       ELSE UNCHANGED <<visible, downFor, rebuild>>
    /\ IF Counted
       THEN /\ covered' = IF covered < SettleFrames THEN covered + 1 ELSE covered
            /\ owed' = (owed /\ covered' < SettleFrames)
       ELSE UNCHANGED historyVars
    /\ UNCHANGED <<everReady, readyFor, pageVars, drag, due>>

Event == pc = "events" /\ UNCHANGED <<overlayVars, historyVars, due, pc>>

\* mouseButtonEvent: the overlay swallows the press and the release.
Press ==
    /\ Event
    /\ redraw' = TRUE
    /\ drag' = (drag \/ ~visible)
    /\ UNCHANGED pageVars

Release ==
    /\ Event
    /\ redraw' = TRUE
    /\ drag' = (drag /\ visible)
    /\ UNCHANGED pageVars

EventsDone ==
    /\ pc = "events"
    /\ pc' = "idle"
    /\ due' = {c \in Connections : data[c] = "sRELOAD"}
    /\ UNCHANGED <<overlayVars, pageVars, historyVars, drag, redraw>>

IdleStep(c) ==
    \/ ChannelLost(c) \/ Refresh(c) \/ ChannelReady(c) \/ SnapshotApplied(c)
    \/ PageReloaded(c) \/ PageChanged(c) \/ ScreenSelected(c)

Frame == SkipFrame \/ RenderFrame

Next ==
    \/ \E c \in Connections : IdleStep(c)
    \/ TimePasses \/ UpdateOverlay \/ Frame
    \/ Press \/ Release \/ EventsDone

Spec == Init /\ [][Next]_vars

\* The loop turns and time passes; nothing is asked of the connections.
FairSpec ==
    /\ Spec
    /\ \A c \in Connections : WF_vars(PageReloaded(c))
    /\ WF_vars(UpdateOverlay) /\ WF_vars(Frame) /\ WF_vars(EventsDone)
    /\ SF_vars(TimePasses)

------------------------------------------------------------------------------
(* Properties                                                                *)

\* With no time to wait, a page without widgets is neither covered nor uncovered.
EmptyAtOnce == UncoverDelay <= 0 /\ ~HasPanelWidgets

(* When the operator can reach the page, it shows the data since the last gap:  *)
(* with every connection loaded, SettleFrames frames were painted under the      *)
(* overlay with the selected page there, the last of them, or the page was kept  *)
(* from the operator for the fixed time, if that is not zero and the page empty; *)
(* otherwise only a brief drop of a session that has been ready goes without the *)
(* overlay.                                                                    *)
InputIsCurrent ==
    enabled /\ pc = "events" /\ ~visible
    => IF ConnectionsReady THEN ~owed \/ EmptyAtOnce ELSE everReady /\ downFor = "young"

(* No press survives under the overlay, where its release would be swallowed.  *)
NoDragCovered == visible => ~drag

(* The countdown of covered frames runs only under the overlay and never ends   *)
(* with the overlay still there: nothing would take it away.                  *)
SettleUnderOverlay == (settle > 0 => visible) /\ (visible => settle # 0)

(* Why: the bookkeeping of the overlay agrees with what has been let through.  *)
GapNeedsRebuild == ~rebuild => ~owed
CountdownCounts == settle >= 0 => covered >= SettleFrames - settle
CountdownEnds == settle = 0 => ~visible /\ ~rebuild
UncoveredIsCurrent ==
    enabled /\ readyFor # "invalid" /\ ~visible
    => ~owed \/ (UncoverDelay <= 0 /\ readyFor = "old")
TurnIsCurrent ==
    enabled /\ pc \in {"frame", "events"} /\ ~visible
    => IF ConnectionsReady THEN ~owed \/ EmptyAtOnce ELSE everReady /\ downFor = "young"

RebuildIsOwed == enabled /\ ~visible /\ rebuild => owed
DisabledStaysAway == ~enabled => ~visible /\ readyFor = "invalid"

(* The inductive invariant behind the properties of the overlay.                *)
IInv ==
    /\ TypeOK /\ NoDragCovered /\ SettleUnderOverlay
    /\ GapNeedsRebuild /\ CountdownCounts /\ CountdownEnds
    /\ UncoveredIsCurrent /\ TurnIsCurrent
    /\ RebuildIsOwed /\ DisabledStaysAway

(* All in all the overlay is a curtain before stale pages: it comes for a gap and    *)
(* for nothing else, whatever screens are selected and rebuilt behind it, and goes   *)
(* only when SettleFrames frames were painted behind it since, the selected page     *)
(* there each time and not always the same, or when the fixed time is up.           *)
Overlaid == INSTANCE Curtain WITH
    drawn <- visible, stale <- owed, seen <- covered,
    waited <- (readyFor = "old"), pressed <- drag, AtOnce <- UncoverDelay <= 0
CurtainSpec == Overlaid!Spec

(* The overlay goes once all connections stay loaded and a page is there.      *)
OverlayLifts == <>[](ConnectionsReady /\ HasPanelWidgets) => <>[](~visible)

(* The overlay comes when the connections stay away, however that began.       *)
OverlayCovers == enabled => (<>[](~ConnectionsReady) => <>[]visible)

(* What CONTROL_CONNECTION_OVERLAY.md says of the overlay: it goes only once    *)
(* every connection has reached sDONE and the selected screen is loaded.       *)
RemovedWhenDone ==
    [][visible /\ ~visible' => (\A c \in Connections : data[c] = "sDONE") /\ PageReady]_vars

(* And of the frames that are counted: they are frames of the page that is then     *)
(* uncovered ("must complete while the overlay still covers the rebuilt page").     *)
PageRestartsCount ==
    [][shown' # shown => settle' \notin 1..(SettleFrames - 1)]_vars
==============================================================================
