------------------------- MODULE ControlOverlay_proofs -------------------------
(***************************************************************************)
(* Proofs about ControlOverlay, for any set of connections and screens, any   *)
(* number of settle frames and any number of drops.  The steps fall into      *)
(* groups: what idle does to the data and the page, the cases of               *)
(* updateControlDisconnectedOverlay, the frame, and time and the operator.     *)
(***************************************************************************)
EXTENDS ControlOverlay, TLAPS

USE ScreensAssumption, SettleAssumption, DelaysAssumption, BoundsAssumption

(* The conjuncts of IInv: three kinds of types, and the books of the overlay.   *)
PageTypes ==
    /\ data \in [Connections -> {"down", "loading"} \cup Loaded]
    /\ active \in Screens \cup {None, Unknown}
    /\ shown \in Screens \cup {None}
    /\ due \subseteq Connections
    /\ drops \in 0..MaxDrops
    /\ jumps \in 0..MaxJumps
FlagTypes == {visible, everReady, rebuild, enabled, drag, redraw, owed} \subseteq BOOLEAN
TurnTypes ==
    /\ downFor \in {"none"} \cup Ages
    /\ readyFor \in {"invalid"} \cup Ages
    /\ settle \in -1..SettleFrames
    /\ covered \in 0..SettleFrames
    /\ pc \in {"idle", "frame", "events"}
Books ==
    /\ NoDragCovered /\ SettleUnderOverlay
    /\ GapNeedsRebuild /\ CountdownCounts /\ CountdownEnds
    /\ UncoveredIsCurrent /\ TurnIsCurrent
    /\ RebuildIsOwed /\ DisabledStaysAway

\* What is neither idle's work nor the overlay's nor a frame.
Rest == TimePasses \/ SkipFrame \/ Press \/ Release \/ EventsDone \/ UNCHANGED vars

LEMMA IInvParts ==
    /\ IInv <=> PageTypes /\ FlagTypes /\ TurnTypes /\ Books
    /\ IInv' <=> PageTypes' /\ FlagTypes' /\ TurnTypes' /\ Books'
BY DEF IInv, TypeOK, PageTypes, FlagTypes, TurnTypes, Books

LEMMA InitIInv == Init => IInv
<1>1. Init => PageTypes
  BY DEF Init, PageTypes, Loaded
<1>2. Init => FlagTypes
  BY DEF Init, FlagTypes
<1>3. Init => TurnTypes
  BY DEF Init, TurnTypes
<1>4. Init => Books
  BY DEF Init, Books, NoDragCovered, SettleUnderOverlay, GapNeedsRebuild,
         CountdownCounts, CountdownEnds, UncoveredIsCurrent, TurnIsCurrent, RebuildIsOwed,
         DisabledStaysAway
<1> QED BY <1>1, <1>2, <1>3, <1>4, IInvParts

(* Whatever the overlay decides, data stays as it is until the next idle.      *)
LEMMA SameData ==
    ASSUME UNCHANGED data
    PROVE  ConnectionsReady' = ConnectionsReady
BY DEF ConnectionsReady

LEMMA SamePage ==
    ASSUME UNCHANGED shown
    PROVE  EmptyAtOnce' = EmptyAtOnce /\ HasPanelWidgets' = HasPanelWidgets
BY DEF EmptyAtOnce, HasPanelWidgets

(* What idle does leaves the overlay alone; the page it replaces may take a     *)
(* drag with it.                                                             *)
LEMMA IdleKeepsIInv ==
    ASSUME IInv, NEW c \in Connections, IdleStep(c)
    PROVE  IInv'
<1> USE IInvParts DEF IdleStep, ChannelLost, Refresh, Lose, ChannelReady, SnapshotApplied,
        PageReloaded, PageChanged, ScreenSelected, SetStructure, InIdle
<1>1. PageTypes'
  BY DEF PageTypes, Loaded, overlayVars, historyVars
<1>2. FlagTypes'
  BY DEF FlagTypes, overlayVars, historyVars
<1>3. TurnTypes'
  BY DEF TurnTypes, overlayVars, historyVars
<1>4. pc = "idle" /\ UNCHANGED <<overlayVars, historyVars, enabled, pc>>
  OBVIOUS
<1>5. drag' = drag \/ drag' = FALSE
  OBVIOUS
<1>6. Books
  OBVIOUS
<1>7. Books'
  <2> HIDE IInvParts DEF IdleStep
  <2> QED BY <1>4, <1>5, <1>6 DEF Books, NoDragCovered, SettleUnderOverlay, GapNeedsRebuild,
       CountdownCounts, CountdownEnds, UncoveredIsCurrent, TurnIsCurrent, RebuildIsOwed,
         DisabledStaysAway, overlayVars, historyVars
<1> QED BY <1>1, <1>2, <1>3, <1>7

LEMMA UpdateKeepsTypes ==
    ASSUME IInv, UpdateOverlay
    PROVE  PageTypes' /\ FlagTypes' /\ TurnTypes'
<1> USE IInvParts DEF UpdateOverlay, OverlayDisabled, Disconnected, ReadyLongEnough,
        NothingCovered, PaintCovered, Connected, Overlay, pageVars
<1>1. PageTypes'
  BY DEF PageTypes
<1>2. FlagTypes'
  BY DEF FlagTypes, Cover, Hide, historyVars
<1>3. TurnTypes'
  BY DEF TurnTypes, Ages, Age, Cover, Hide, historyVars
<1> QED BY <1>1, <1>2, <1>3

(* One step for each case of updateControlDisconnectedOverlay.                 *)
LEMMA UpdateKeepsBooks ==
    ASSUME TypeOK, Books, UpdateOverlay
    PROVE  Books'
<1> USE DEF Books, NoDragCovered, SettleUnderOverlay, GapNeedsRebuild,
        CountdownCounts, CountdownEnds, UncoveredIsCurrent, TurnIsCurrent, RebuildIsOwed,
         DisabledStaysAway
<1>0. UNCHANGED <<enabled, data, shown>> /\ ConnectionsReady' = ConnectionsReady
  BY SameData DEF UpdateOverlay, OverlayDisabled, Disconnected, ReadyLongEnough,
     NothingCovered, PaintCovered, Connected, Overlay, pageVars
\* Not enabled: no claim about the page; the countdown stops.
<1>1. CASE OverlayDisabled
  BY <1>0, <1>1 DEF OverlayDisabled, Hide, historyVars
\* A gap begins or goes on: without the overlay only a young one.
<1>2. CASE Disconnected
  BY <1>0, <1>2 DEF Disconnected, Cover, TypeOK, Ages, Age
\* The time is up: uncovering pays what is owed.
<1>3. CASE ReadyLongEnough
  <2>1. CASE HasPanelWidgets
    BY <1>0, <1>3, <2>1 DEF ReadyLongEnough, Connected, Hide, TypeOK
  <2>2. CASE ~HasPanelWidgets
    <3>1. /\ UNCHANGED <<visible, settle, rebuild, owed, covered, drag, enabled>>
          /\ enabled /\ ConnectionsReady /\ readyFor' = "old" /\ ConnectionsReady'
      BY <1>0, <1>3, <2>2 DEF ReadyLongEnough, Connected
    <3>2. readyFor = "invalid" => UncoverDelay <= 0
      BY <1>3, <3>1 DEF ReadyLongEnough, Connected, Age
    <3>3. ~visible => ~owed \/ UncoverDelay <= 0
      BY <3>1, <3>2
    <3>4. UncoverDelay <= 0 => EmptyAtOnce'
      BY <1>0, <2>2, SamePage DEF EmptyAtOnce
    <3> QED BY <3>1, <3>3, <3>4
  <2> QED BY <2>1, <2>2
\* Nothing is covered, so nothing needs a rebuild and nothing is owed.
<1>4. CASE NothingCovered
  BY <1>0, <1>4 DEF NothingCovered, Connected, historyVars
\* The overlay stays or comes; a countdown in progress has not reached its end.
<1>5. CASE PaintCovered
  BY <1>0, <1>5 DEF PaintCovered, Connected, Cover, TypeOK
<1> QED BY <1>1, <1>2, <1>3, <1>4, <1>5 DEF UpdateOverlay

(* The frame that ends the countdown is the last of the frames owed.           *)
LEMMA FrameKeepsIInv ==
    ASSUME IInv, RenderFrame
    PROVE  IInv'
<1>0. TypeOK /\ Books
  BY IInvParts DEF IInv
<1>1. /\ UNCHANGED <<enabled, data, shown>>
      /\ ConnectionsReady' = ConnectionsReady /\ EmptyAtOnce' = EmptyAtOnce
  BY SameData, SamePage DEF RenderFrame, pageVars
<1>2. PageTypes'
  BY IInvParts DEF PageTypes, RenderFrame, pageVars
<1>3. FlagTypes'
  BY IInvParts DEF FlagTypes, RenderFrame, pageVars, historyVars, Settles, Counted,
     ConnectionsReady, PageReady
<1>4. TurnTypes'
  BY IInvParts DEF TurnTypes, RenderFrame, pageVars, historyVars, Settles
<1>5. NoDragCovered' /\ SettleUnderOverlay'
  BY <1>0 DEF RenderFrame, Books, NoDragCovered, SettleUnderOverlay, CountdownEnds, TypeOK, Settles
<1>6. CountdownCounts'
  BY <1>0 DEF RenderFrame, Books, CountdownCounts, TypeOK, Settles, historyVars
<1>7. ASSUME Settles, settle = 1 PROVE ConnectionsReady /\ owed' = FALSE
  <2>1. covered >= SettleFrames - 1 /\ covered \in 0..SettleFrames
    BY <1>0, <1>7 DEF Books, CountdownCounts, TypeOK
  <2>2. covered' = IF covered < SettleFrames THEN covered + 1 ELSE covered
    BY <1>7 DEF RenderFrame, Settles
  <2>3. ~(covered' < SettleFrames)
    BY <2>1, <2>2
  <2> QED BY <1>7, <2>3 DEF RenderFrame, Settles, Counted
<1>8. ~owed => ~owed'
  BY DEF RenderFrame, historyVars
<1>9. GapNeedsRebuild' /\ UncoveredIsCurrent'
  BY <1>0, <1>1, <1>7, <1>8 DEF RenderFrame, Books, GapNeedsRebuild, UncoveredIsCurrent
<1>10. TurnIsCurrent'
  BY <1>0, <1>1, <1>7, <1>8 DEF RenderFrame, Books, TurnIsCurrent, TypeOK
<1>11. CountdownEnds'
  BY <1>0 DEF RenderFrame, Books, CountdownEnds, TypeOK, Settles
<1>12. RebuildIsOwed'
  <2>1. CASE Settles /\ settle = 1
    BY <2>1 DEF RenderFrame, RebuildIsOwed
  <2>2. CASE ~(Settles /\ settle = 1)
    <3>1. UNCHANGED <<enabled, visible, rebuild>>
      BY <1>1, <2>2 DEF RenderFrame
    <3>2. ~visible => owed' = owed
      BY DEF RenderFrame, Counted, historyVars
    <3> QED BY <1>0, <3>1, <3>2 DEF Books, RebuildIsOwed
  <2> QED BY <2>1, <2>2
<1>13. DisabledStaysAway'
  BY <1>0, <1>1 DEF RenderFrame, Books, DisabledStaysAway, Settles, Counted
<1> QED BY <1>2, <1>3, <1>4, <1>5, <1>6, <1>9, <1>10, <1>11, <1>12, <1>13, IInvParts DEF Books

(* Time, a frame that is not drawn, and the operator.                         *)
LEMMA RestKeepsIInv ==
    ASSUME IInv, Rest
    PROVE  IInv'
<1> USE IInvParts DEF Rest, TimePasses, SkipFrame, Press, Release, EventsDone, Event,
        vars, pageVars, historyVars, overlayVars
<1>1. PageTypes'
  BY DEF PageTypes
<1>2. FlagTypes'
  BY DEF FlagTypes
<1>3. TurnTypes'
  BY DEF TurnTypes, Ages
<1>4. Books'
  BY SameData, SamePage DEF TurnTypes, FlagTypes, Ages, Books, NoDragCovered, SettleUnderOverlay,
     GapNeedsRebuild, CountdownCounts, CountdownEnds, UncoveredIsCurrent, TurnIsCurrent, RebuildIsOwed,
         DisabledStaysAway
<1> QED BY <1>1, <1>2, <1>3, <1>4

(* IInv is inductive, hence an invariant of every behaviour.                   *)
THEOREM Invariance == Spec => []IInv
<1>1. IInv /\ [Next]_vars => IInv'
  <2> SUFFICES ASSUME IInv, [Next]_vars PROVE IInv'
    OBVIOUS
  <2>1. ASSUME NEW c \in Connections, IdleStep(c) PROVE IInv'
    BY <2>1, IdleKeepsIInv
  <2>2. CASE UpdateOverlay
    <3>1. TypeOK /\ Books
      BY IInvParts DEF IInv
    <3> QED BY <2>2, <3>1, UpdateKeepsTypes, UpdateKeepsBooks, IInvParts
  <2>3. CASE RenderFrame
    BY <2>3, FrameKeepsIInv
  <2>4. CASE Rest
    BY <2>4, RestKeepsIInv
  <2> QED BY <2>1, <2>2, <2>3, <2>4 DEF Next, Frame, Rest
<1> QED BY InitIInv, <1>1, PTL DEF Spec

(* updateControlDisconnectedOverlay, afterFrameRendered: the variables keep     *)
(* their types, in particular the countdown its range.                        *)
THEOREM TypeCorrect == Spec => []TypeOK
<1>1. IInv => TypeOK
  BY DEF IInv
<1> QED BY Invariance, <1>1, PTL

(* An operator who can reach the page does not see values from before a gap: with  *)
(* every connection loaded, frames of it or of the page before it were let through *)
(* behind the overlay or the fixed time went by; without the overlay a session is   *)
(* away only within the delay.                                                    *)
THEOREM OperatorSeesCurrentPage == Spec => []InputIsCurrent
<1>1. IInv => InputIsCurrent
  BY DEF IInv, TurnIsCurrent, InputIsCurrent
<1> QED BY Invariance, <1>1, PTL

(* No drag under the overlay: cancelActiveDrag accompanies every way in.        *)
THEOREM DragsAreCancelled == Spec => []NoDragCovered
<1>1. IInv => NoDragCovered
  BY DEF IInv
<1> QED BY Invariance, <1>1, PTL

(* The settle countdown runs under the overlay and ends with it.               *)
THEOREM CountdownLiftsOverlay == Spec => []SettleUnderOverlay
<1>1. IInv => SettleUnderOverlay
  BY DEF IInv
<1> QED BY Invariance, <1>1, PTL

------------------------------------------------------------------------------
(* The promise to the operator                                               *)

LEMMA CurtainStep == ASSUME IInv, [Next]_vars PROVE [Overlaid!Next]_(Overlaid!curtainVars)
<1>0. TypeOK /\ Books /\ TurnTypes /\ FlagTypes
  BY IInvParts DEF IInv
<1> DEFINE Goal == [Overlaid!Next]_(Overlaid!curtainVars)
           Old == readyFor = "old"
<1>1. ASSUME UNCHANGED <<visible, owed, covered, readyFor, drag>> PROVE Goal
  BY <1>1 DEF Overlaid!curtainVars
<1>2. ASSUME UNCHANGED <<visible, owed, covered, readyFor>>, drag' = FALSE PROVE Goal
  BY <1>2 DEF Overlaid!Next, Overlaid!LetGo
<1>3. ASSUME NEW c \in Connections, IdleStep(c) PROVE Goal
  <2>1. UNCHANGED <<visible, owed, covered, readyFor>> /\ (drag' = drag \/ drag' = FALSE)
    BY <1>3 DEF IdleStep, ChannelLost, Refresh, Lose, ChannelReady, SnapshotApplied,
       PageReloaded, PageChanged, ScreenSelected, SetStructure, InIdle, overlayVars, historyVars
  <2> QED BY <1>1, <1>2, <2>1
<1>4. CASE TimePasses
  <2>1. UNCHANGED <<visible, owed, covered, drag>> /\ (Old' = Old \/ Old' = TRUE)
    BY <1>4 DEF TimePasses, historyVars
  <2> QED BY <2>1 DEF Overlaid!Next, Overlaid!TimePasses, Overlaid!Leave, Overlaid!curtainVars
\* Without the overlay enabled nothing is drawn to begin with.
<1>5. CASE OverlayDisabled
  <2>1. ~visible /\ readyFor = "invalid"
    BY <1>0, <1>5 DEF OverlayDisabled, Books, DisabledStaysAway
  <2>2. visible' = FALSE /\ readyFor' = "invalid" /\ UNCHANGED <<owed, covered, drag>>
    BY <1>5 DEF OverlayDisabled, Hide, historyVars
  <2>3. visible = FALSE
    BY <1>0, <2>1 DEF FlagTypes
  <2> QED BY <1>1, <2>1, <2>2, <2>3
<1>6. CASE Disconnected
  <2>1. owed' = TRUE /\ covered' = 0 /\ Old' = FALSE
    BY <1>6 DEF Disconnected
  <2>2. (visible' = TRUE /\ drag' = FALSE) \/ UNCHANGED <<visible, drag>>
    BY <1>6 DEF Disconnected, Cover
  <2> QED BY <2>1, <2>2 DEF Overlaid!Next, Overlaid!Gap, Overlaid!Draw, Overlaid!Leave
<1>7. ASSUME Connected, readyFor' # "old" PROVE Old' = Old
  BY <1>7 DEF Connected
<1>8. CASE ReadyLongEnough
  <2>1. (Old \/ UncoverDelay <= 0) /\ Old' = TRUE /\ drag' = drag /\ covered' = covered
    BY <1>8 DEF ReadyLongEnough, Connected, Hide, Age
  <2>2. (visible' = FALSE /\ owed' = FALSE) \/ UNCHANGED <<visible, owed>>
    BY <1>8 DEF ReadyLongEnough, Hide
  <2> QED BY <2>1, <2>2 DEF Overlaid!Next, Overlaid!OpenInTime, Overlaid!TimePasses,
          Overlaid!Leave
<1>9. CASE NothingCovered
  BY <1>7, <1>9 DEF NothingCovered, historyVars, Overlaid!curtainVars
<1>10. CASE PaintCovered
  <2>1. owed' = owed /\ Old' = Old /\ (covered' = covered \/ covered' = 0)
    BY <1>7, <1>10 DEF PaintCovered
  <2>2. CASE visible
    <3>1. UNCHANGED <<visible, drag>>
      BY <1>10, <2>2 DEF PaintCovered
    <3> QED BY <2>1, <3>1 DEF Overlaid!Next, Overlaid!PageGoes, Overlaid!Leave,
            Overlaid!curtainVars
  <2>3. CASE ~visible
    <3>1. owed /\ visible' = TRUE /\ drag' = FALSE
      BY <1>0, <1>10, <2>3 DEF PaintCovered, Connected, Cover, Books, RebuildIsOwed
    <3> QED BY <2>1, <3>1 DEF Overlaid!Next, Overlaid!Cover, Overlaid!Draw
  <2> QED BY <2>2, <2>3
<1>11. CASE RenderFrame
  <2>1. drag' = drag /\ Old' = Old
    BY <1>11 DEF RenderFrame
  <2>2. CASE ~Counted
    BY <1>11, <2>1, <2>2 DEF RenderFrame, Settles, historyVars, Overlaid!curtainVars
  <2>3. CASE Counted
    <3>1. visible /\ covered' = (IF covered < SettleFrames THEN covered + 1 ELSE covered)
          /\ owed' = (owed /\ covered' < SettleFrames)
      BY <1>11, <2>3 DEF RenderFrame, Counted
    <3>2. visible' = visible \/ (visible' = FALSE /\ Settles /\ settle = 1)
      BY <1>11 DEF RenderFrame
    <3>3. ASSUME settle = 1 PROVE owed' = FALSE
      <4>1. covered >= SettleFrames - 1 /\ covered \in 0..SettleFrames
        BY <1>0, <3>3, SettleAssumption DEF Books, CountdownCounts, TypeOK
      <4>2. covered' = SettleFrames
        BY <3>1, <4>1, SettleAssumption
      <4>3. ~(covered' < SettleFrames)
        BY <4>2, SettleAssumption
      <4> HIDE DEF Goal, Old
      <4> QED BY <3>1, <4>3
    <3>4. visible' = TRUE \/ (visible' = FALSE /\ ~owed')
      BY <3>1, <3>2, <3>3
    <3> QED BY <2>1, <3>1, <3>4 DEF Overlaid!Next, Overlaid!PaintBehind
  <2> QED BY <2>2, <2>3
<1>12. CASE SkipFrame \/ EventsDone \/ UNCHANGED vars
  BY <1>1, <1>12 DEF SkipFrame, EventsDone, vars, overlayVars, historyVars
<1>13. CASE Press
  <2>1. UNCHANGED <<visible, owed, covered, readyFor>> /\ drag' = (drag \/ ~visible)
    BY <1>13 DEF Press, Event, overlayVars, historyVars
  <2>2. CASE visible
    BY <1>0, <1>1, <2>1, <2>2 DEF FlagTypes
  <2>3. CASE ~visible
    BY <2>1, <2>3 DEF Overlaid!Next, Overlaid!Press
  <2> QED BY <2>2, <2>3
<1>14. CASE Release
  <2>1. UNCHANGED <<visible, owed, covered, readyFor>> /\ drag' = FALSE
    BY <1>0, <1>14 DEF Release, Event, overlayVars, historyVars, Books, NoDragCovered
  <2> QED BY <1>2, <2>1
<1> QED BY <1>3, <1>4, <1>5, <1>6, <1>8, <1>9, <1>10, <1>11, <1>12, <1>13, <1>14
        DEF Next, UpdateOverlay, Frame

(* updateControlDisconnectedOverlay and afterFrameRendered draw the overlay for a gap *)
(* and for nothing else, and take it away only after SettleFrames frames with the    *)
(* page then selected, or after the fixed time.                                      *)
THEOREM OverlayIsCurtain == Spec => CurtainSpec
<1>1. Init => Overlaid!Init
  BY DEF Init, Overlaid!Init
<1>2. IInv /\ [Next]_vars => [Overlaid!Next]_(Overlaid!curtainVars)
  BY CurtainStep
<1> QED BY <1>1, <1>2, Invariance, PTL DEF Spec, CurtainSpec, Overlaid!Spec
==============================================================================
