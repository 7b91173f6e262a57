---------------------------- MODULE HtmlView_proofs ----------------------------
(***************************************************************************)
(* Proofs about HtmlView, for any positions, sizes and number of loads.       *)
(***************************************************************************)
EXTENDS HtmlView, TLAPS

USE PlacesAssumption, BoundAssumption
USE DEF loadVars, workVars, pageVars, viewVars, screenVars, inputVars

(* The conjuncts of TypeOK: the flags, apart for the provers' sake, and the rest. *)
Flags == {busy, html, done, needPaint, shown, redraw, mouseDown, closed, uses} \subseteq BOOLEAN

Types ==
    /\ status \in Statuses /\ phase \in Phases
    /\ worker \in {"none", "running", "notifying", "ended"}
    /\ gui \in {"idle", "advance", "paint", "click"}
    /\ layoutDoc \in Loads /\ doc \in Loads /\ clicked \in Loads /\ surfaces \subseteq Loads
    /\ image \in Images
    /\ pos \in Positions /\ size \in Sizes
    /\ loads \in Loads /\ pressed \in Loads
    /\ frame \in Frames /\ announced \subseteq Statuses

(* The screen is current, and a click is followed by a frame. *)
Screen == ScreenIsCurrent /\ (gui = "click" => redraw)

(* A load is driven to its end. *)
Driven == LoadIsDriven /\ PaintIsDue

LEMMA IInvParts ==
    /\ IInv <=> /\ Flags /\ Types /\ WorkerIsAlone /\ StagesAreFed /\ PanelsPrecede
                /\ OnePage /\ ImageIsCurrent /\ Screen /\ Driven
    /\ IInv' <=> /\ Flags' /\ Types' /\ WorkerIsAlone' /\ StagesAreFed' /\ PanelsPrecede'
                 /\ OnePage' /\ ImageIsCurrent' /\ Screen' /\ Driven'
BY DEF IInv, TypeOK, Flags, Types, Screen, Driven

(* The bounds of the loads, and what images and frames are made of. *)
LEMMA Facts ==
    /\ 0 \in Loads /\ NoImage \in Images
    /\ \A n \in Loads : n < MaxLoads => n + 1 \in Loads
    /\ \A i \in Images : Page(i) \in Frames
    /\ \A s \in Statuses : Panel(s) \in Frames
    /\ \A d \in Loads, p \in Positions, s \in Sizes :
         /\ <<d, p, s>> \in Images
         /\ d # 0 => <<d, p, s>> # NoImage
    /\ \A i \in Images : i = <<i[1], i[2], i[3]>>
BY DEF Loads, NoImage, Images, Frames

(* Loads: a new URL, none, and the end of the widget. *)
LEMMA LoadingKeepsIInv ==
    ASSUME IInv,
           SetUrl \/ ClearUrl \/ Close
    PROVE  IInv'
<1>1. CASE SetUrl
  <2>1. Flags' /\ Types'
    BY <1>1, IInvParts, Facts
    DEF SetUrl, StartLoad, ReleaseDocument, Joinable, Flags, Types, Phases, Statuses
  <2>2. WorkerIsAlone' /\ StagesAreFed' /\ PanelsPrecede'
    BY <1>1, IInvParts, Facts
    DEF SetUrl, StartLoad, ReleaseDocument, Joinable, Types, OnePage, WorkerIsAlone,
        StagesAreFed, PanelsPrecede
  <2>3. OnePage' /\ ImageIsCurrent'
    BY <1>1, IInvParts, Facts
    DEF SetUrl, StartLoad, ReleaseDocument, Joinable, Types, StagesAreFed, WorkerIsAlone,
        OnePage, ImageIsCurrent, Ready
  <2>4. Screen'
    BY <1>1, IInvParts, Facts
    DEF SetUrl, StartLoad, ReleaseDocument, Joinable, Types, Screen, ScreenIsCurrent
  <2>5. Driven'
    BY <1>1, IInvParts
    DEF SetUrl, StartLoad, ReleaseDocument, Joinable, Flags, StagesAreFed, Driven, LoadIsDriven, PaintIsDue, Ready
  <2> QED BY <2>1, <2>2, <2>3, <2>4, <2>5, IInvParts
<1>2. CASE ClearUrl
  <2>1. Flags' /\ Types'
    BY <1>2, IInvParts, Facts DEF ClearUrl, Flags, Types, Phases, Statuses
  <2>2. WorkerIsAlone' /\ StagesAreFed' /\ PanelsPrecede'
    BY <1>2, IInvParts, Facts
    DEF ClearUrl, Types, OnePage, WorkerIsAlone, StagesAreFed, PanelsPrecede, Joinable
  <2>3. OnePage' /\ ImageIsCurrent'
    BY <1>2, IInvParts, Facts
    DEF ClearUrl, Types, StagesAreFed, WorkerIsAlone, OnePage, ImageIsCurrent, Ready
  <2>4. Screen'
    BY <1>2, IInvParts, Facts DEF ClearUrl, Types, Screen, ScreenIsCurrent
  <2>5. Driven'
    BY <1>2, IInvParts
    DEF ClearUrl, Flags, StagesAreFed, Driven, LoadIsDriven, PaintIsDue, Ready
  <2> QED BY <2>1, <2>2, <2>3, <2>4, <2>5, IInvParts
<1>3. CASE Close
  <2>1. Flags' /\ Types'
    BY <1>3, IInvParts, Facts
    DEF Close, ReleaseDocument, Joinable, Flags, Types, Phases, Statuses
  <2>2. WorkerIsAlone' /\ StagesAreFed' /\ PanelsPrecede'
    BY <1>3, IInvParts, Facts
    DEF Close, ReleaseDocument, Joinable, Types, OnePage, WorkerIsAlone, StagesAreFed,
        PanelsPrecede
  <2>3. OnePage' /\ ImageIsCurrent'
    BY <1>3, IInvParts, Facts
    DEF Close, ReleaseDocument, Joinable, Types, StagesAreFed, WorkerIsAlone, OnePage,
        ImageIsCurrent, Ready
  <2>4. Screen'
    BY <1>3, IInvParts, Facts
    DEF Close, ReleaseDocument, Joinable, Types, Screen, ScreenIsCurrent
  <2>5. Driven'
    BY <1>3, IInvParts
    DEF Close, ReleaseDocument, Joinable, Flags, StagesAreFed, Driven, LoadIsDriven, PaintIsDue, Ready
  <2> QED BY <2>1, <2>2, <2>3, <2>4, <2>5, IInvParts
<1> QED BY <1>1, <1>2, <1>3

(* A frame, up to the painting. *)
LEMMA FrameKeepsIInv ==
    ASSUME IInv,
           BeginFrame \/ SkipAdvance \/ ShowLoading \/ RunFetchStage \/
           StartLayoutAsync \/ AwaitLayout \/ FinishLayoutAsync
    PROVE  IInv'
<1>1. CASE BeginFrame
  <2>1. Flags' /\ Types'
    BY <1>1, IInvParts, Facts DEF BeginFrame, Flags, Types, Phases, Statuses
  <2>2. WorkerIsAlone' /\ StagesAreFed' /\ PanelsPrecede'
    BY <1>1, IInvParts, Facts
    DEF BeginFrame, Types, OnePage, WorkerIsAlone, StagesAreFed, PanelsPrecede, Joinable
  <2>3. OnePage' /\ ImageIsCurrent'
    BY <1>1, IInvParts, Facts
    DEF BeginFrame, Types, StagesAreFed, WorkerIsAlone, OnePage, ImageIsCurrent, Ready
  <2>4. Screen'
    BY <1>1, IInvParts, Facts DEF BeginFrame, Types, Screen, ScreenIsCurrent
  <2>5. Driven'
    BY <1>1, IInvParts
    DEF BeginFrame, Flags, StagesAreFed, Driven, LoadIsDriven, PaintIsDue, Ready
  <2> QED BY <2>1, <2>2, <2>3, <2>4, <2>5, IInvParts
<1>2. CASE SkipAdvance
  <2>1. Flags' /\ Types'
    BY <1>2, IInvParts, Facts DEF SkipAdvance, Advance, Flags, Types, Phases, Statuses
  <2>2. WorkerIsAlone' /\ StagesAreFed' /\ PanelsPrecede'
    BY <1>2, IInvParts, Facts
    DEF SkipAdvance, Advance, Types, OnePage, WorkerIsAlone, StagesAreFed, PanelsPrecede,
        Joinable
  <2>3. OnePage' /\ ImageIsCurrent'
    BY <1>2, IInvParts, Facts
    DEF SkipAdvance, Advance, Types, StagesAreFed, WorkerIsAlone, OnePage, ImageIsCurrent,
        Ready
  <2>4. Screen'
    BY <1>2, IInvParts, Facts DEF SkipAdvance, Advance, Types, Screen, ScreenIsCurrent
  <2>5. Driven'
    BY <1>2, IInvParts
    DEF SkipAdvance, Advance, Flags, StagesAreFed, Driven, LoadIsDriven, PaintIsDue, Ready
  <2> QED BY <2>1, <2>2, <2>3, <2>4, <2>5, IInvParts
<1>3. CASE ShowLoading
  <2>1. Flags' /\ Types'
    BY <1>3, IInvParts, Facts DEF ShowLoading, Advance, Flags, Types, Phases, Statuses
  <2>2. WorkerIsAlone' /\ StagesAreFed' /\ PanelsPrecede'
    BY <1>3, IInvParts, Facts
    DEF ShowLoading, Advance, Types, OnePage, WorkerIsAlone, StagesAreFed, PanelsPrecede,
        Joinable
  <2>3. OnePage' /\ ImageIsCurrent'
    BY <1>3, IInvParts, Facts
    DEF ShowLoading, Advance, Types, StagesAreFed, WorkerIsAlone, OnePage, ImageIsCurrent,
        Ready
  <2>4. Screen'
    BY <1>3, IInvParts, Facts DEF ShowLoading, Advance, Types, Screen, ScreenIsCurrent
  <2>5. Driven'
    BY <1>3, IInvParts
    DEF ShowLoading, Advance, Flags, StagesAreFed, Driven, LoadIsDriven, PaintIsDue, Ready
  <2> QED BY <2>1, <2>2, <2>3, <2>4, <2>5, IInvParts
<1>4. CASE RunFetchStage
  <2>1. Flags' /\ Types'
    BY <1>4, IInvParts, Facts DEF RunFetchStage, Advance, Flags, Types, Phases, Statuses
  <2>2. WorkerIsAlone' /\ StagesAreFed' /\ PanelsPrecede'
    BY <1>4, IInvParts, Facts
    DEF RunFetchStage, Advance, Types, OnePage, WorkerIsAlone, StagesAreFed,
        PanelsPrecede, Joinable
  <2>3. OnePage' /\ ImageIsCurrent'
    BY <1>4, IInvParts, Facts
    DEF RunFetchStage, Advance, Types, StagesAreFed, WorkerIsAlone, OnePage,
        ImageIsCurrent, Ready
  <2>4. Screen'
    BY <1>4, IInvParts, Facts DEF RunFetchStage, Advance, Types, Screen, ScreenIsCurrent
  <2>5. Driven'
    BY <1>4, IInvParts
    DEF RunFetchStage, Advance, Flags, StagesAreFed, Driven, LoadIsDriven, PaintIsDue, Ready
  <2> QED BY <2>1, <2>2, <2>3, <2>4, <2>5, IInvParts
<1>5. CASE StartLayoutAsync
  <2>1. Flags' /\ Types'
    BY <1>5, IInvParts, Facts
    DEF StartLayoutAsync, Advance, Joinable, Flags, Types, Phases, Statuses
  <2>2. WorkerIsAlone' /\ StagesAreFed' /\ PanelsPrecede'
    BY <1>5, IInvParts, Facts
    DEF StartLayoutAsync, Advance, Joinable, Types, OnePage, WorkerIsAlone, StagesAreFed,
        PanelsPrecede
  <2>3. OnePage' /\ ImageIsCurrent'
    BY <1>5, IInvParts, Facts
    DEF StartLayoutAsync, Advance, Joinable, Types, StagesAreFed, WorkerIsAlone, OnePage,
        ImageIsCurrent, Ready
  <2>4. Screen'
    BY <1>5, IInvParts, Facts
    DEF StartLayoutAsync, Advance, Joinable, Types, Screen, ScreenIsCurrent
  <2>5. Driven'
    BY <1>5, IInvParts
    DEF StartLayoutAsync, Advance, Joinable, Flags, StagesAreFed, Driven, LoadIsDriven, PaintIsDue, Ready
  <2> QED BY <2>1, <2>2, <2>3, <2>4, <2>5, IInvParts
<1>6. CASE AwaitLayout
  <2>1. Flags' /\ Types'
    BY <1>6, IInvParts, Facts DEF AwaitLayout, Advance, Flags, Types, Phases, Statuses
  <2>2. WorkerIsAlone' /\ StagesAreFed' /\ PanelsPrecede'
    BY <1>6, IInvParts, Facts
    DEF AwaitLayout, Advance, Types, OnePage, WorkerIsAlone, StagesAreFed, PanelsPrecede,
        Joinable
  <2>3. OnePage' /\ ImageIsCurrent'
    BY <1>6, IInvParts, Facts
    DEF AwaitLayout, Advance, Types, StagesAreFed, WorkerIsAlone, OnePage, ImageIsCurrent,
        Ready
  <2>4. Screen'
    BY <1>6, IInvParts, Facts DEF AwaitLayout, Advance, Types, Screen, ScreenIsCurrent
  <2>5. Driven'
    BY <1>6, IInvParts
    DEF AwaitLayout, Advance, Flags, StagesAreFed, Driven, LoadIsDriven, PaintIsDue, Ready
  <2> QED BY <2>1, <2>2, <2>3, <2>4, <2>5, IInvParts
<1>7. CASE FinishLayoutAsync
  <2>1. Flags' /\ Types'
    BY <1>7, IInvParts, Facts
    DEF FinishLayoutAsync, Advance, Joinable, Flags, Types, Phases, Statuses
  <2>2. WorkerIsAlone' /\ StagesAreFed' /\ PanelsPrecede'
    BY <1>7, IInvParts, Facts
    DEF FinishLayoutAsync, Advance, Joinable, Types, OnePage, WorkerIsAlone, StagesAreFed,
        PanelsPrecede
  <2>3. OnePage' /\ ImageIsCurrent'
    BY <1>7, IInvParts, Facts
    DEF FinishLayoutAsync, Advance, Joinable, Types, StagesAreFed, WorkerIsAlone, OnePage,
        ImageIsCurrent, Ready
  <2>4. Screen'
    BY <1>7, IInvParts, Facts
    DEF FinishLayoutAsync, Advance, Joinable, Types, Screen, ScreenIsCurrent
  <2>5. Driven'
    BY <1>7, IInvParts
    DEF FinishLayoutAsync, Advance, Joinable, Flags, StagesAreFed, Driven, LoadIsDriven, PaintIsDue, Ready
  <2> QED BY <2>1, <2>2, <2>3, <2>4, <2>5, IInvParts
<1> QED BY <1>1, <1>2, <1>3, <1>4, <1>5, <1>6, <1>7

(* The painting of a frame. *)
LEMMA PaintingKeepsIInv ==
    ASSUME IInv,
           DrawOnly \/ PaintUnsized \/ PaintViewport
    PROVE  IInv'
<1>1. CASE DrawOnly
  <2>1. Flags' /\ Types'
    BY <1>1, IInvParts, Facts DEF DrawOnly, PaintDone, Flags, Types, Phases, Statuses, Shows
  <2>2. WorkerIsAlone' /\ StagesAreFed' /\ PanelsPrecede'
    BY <1>1, IInvParts, Facts
    DEF DrawOnly, PaintDone, Types, WorkerIsAlone, StagesAreFed, PanelsPrecede, Joinable
  <2>3. OnePage' /\ ImageIsCurrent'
    BY <1>1, IInvParts, Facts DEF DrawOnly, PaintDone, Types, OnePage, ImageIsCurrent, Ready
  <2>4. Screen'
    <3>1. Ready' <=> Ready
      BY <1>1 DEF DrawOnly, PaintDone, Ready
    <3>2. ASSUME Ready PROVE frame' = Truth'
      <4>1. doc = loads /\ image # NoImage /\ image[2] = pos /\ image[3] = size
        BY <1>1, <3>2, IInvParts
        DEF DrawOnly, Stale, Ready, OnePage, ImageIsCurrent, StagesAreFed
      <4>2. image = <<loads, pos, size>>
        BY <4>1, IInvParts, Facts DEF OnePage, Types
      <4>3. frame' = Page(image)
        BY <1>1, <3>2, <4>1 DEF DrawOnly, Shows
      <4> QED BY <1>1, <3>1, <3>2, <4>2, <4>3 DEF DrawOnly, PaintDone, Truth
    <3>3. ASSUME ~Ready PROVE frame' = Truth'
      BY <1>1, <3>1, <3>3 DEF DrawOnly, PaintDone, Shows, Truth
    <3> QED BY <1>1, <3>2, <3>3 DEF DrawOnly, PaintDone, Screen, ScreenIsCurrent
  <2>5. Driven'
    BY <1>1, IInvParts
    DEF DrawOnly, PaintDone, Stale, Flags, StagesAreFed, Driven, LoadIsDriven, PaintIsDue, Ready
  <2> QED BY <2>1, <2>2, <2>3, <2>4, <2>5, IInvParts
<1>2. CASE PaintUnsized
  <2>1. Flags' /\ Types'
    BY <1>2, IInvParts, Facts
    DEF PaintUnsized, PaintDone, Flags, Types, Phases, Statuses, Shows
  <2>2. WorkerIsAlone' /\ StagesAreFed' /\ PanelsPrecede'
    BY <1>2, IInvParts, Facts
    DEF PaintUnsized, PaintDone, Types, OnePage, WorkerIsAlone, StagesAreFed,
        PanelsPrecede, Joinable, Ready
  <2>3. OnePage' /\ ImageIsCurrent'
    BY <1>2, IInvParts, Facts
    DEF PaintUnsized, PaintDone, Types, StagesAreFed, WorkerIsAlone, OnePage,
        ImageIsCurrent, Ready
  <2>4. Screen'
    BY <1>2, IInvParts, Facts DEF PaintUnsized, PaintDone, Types, Screen, ScreenIsCurrent
  <2>5. Driven'
    BY <1>2, IInvParts
    DEF PaintUnsized, PaintDone, Stale, Flags, StagesAreFed, Driven, LoadIsDriven, PaintIsDue, Ready
  <2> QED BY <2>1, <2>2, <2>3, <2>4, <2>5, IInvParts
<1>3. CASE PaintViewport
  <2>1. Flags'
    BY <1>3, IInvParts DEF PaintViewport, PaintDone, Flags
  <2>2. doc # 0 /\ doc = loads /\ status = "OK" /\ phase = "Idle" /\ worker # "running"
    BY <1>3, IInvParts DEF PaintViewport, Ready, OnePage, WorkerIsAlone
  <2>3. image' \in Images /\ status' \in Statuses
    <3>1. image \in Images /\ size \in Sizes /\ doc \in Loads /\ status \in Statuses
      BY IInvParts DEF Types
    <3>2. pos' \in Positions
      BY <1>3 DEF PaintViewport
    <3>3. <<doc, pos', size>> \in Images
      BY <3>1, <3>2, Facts
    <3>4. image' \in {image, <<doc, pos', size>>} /\ status' \in {status, "No surface"}
      BY <1>3 DEF PaintViewport
    <3> QED BY <3>1, <3>3, <3>4 DEF Statuses
  <2>4. frame' \in Frames
    BY <1>3, <2>3, Facts DEF PaintViewport, Shows
  <2>5. Types'
    BY <1>3, <2>3, <2>4, IInvParts DEF PaintViewport, PaintDone, Types
  <2>6. WorkerIsAlone' /\ StagesAreFed' /\ PanelsPrecede'
    BY <1>3, <2>2, IInvParts
    DEF PaintViewport, PaintDone, Types, WorkerIsAlone, StagesAreFed, PanelsPrecede, Joinable
  <2>9. Driven'
    BY <1>3, <2>2 DEF PaintViewport, PaintDone, Driven, LoadIsDriven, PaintIsDue
  <2>7. CASE image' = <<doc, pos', size>> /\ needPaint' = FALSE /\ status' = status
    <3>1. /\ image'[1] = doc /\ image'[2] = pos' /\ image' # NoImage
          /\ pos' \in Positions /\ doc \in Loads /\ size \in Sizes
      BY <1>3, <2>2, <2>7, IInvParts, Facts DEF PaintViewport, Types
    <3>2. UNCHANGED <<doc, layoutDoc, clicked, loads, phase, size, mouseDown, pressed>>
      BY <1>3 DEF PaintViewport, PaintDone
    <3>3. OnePage' /\ ImageIsCurrent'
      <4>1. image'[1] = doc' /\ doc' # 0 /\ clicked' = 0
        BY <1>3, <2>2, <3>1, <3>2, IInvParts DEF PaintViewport, PaintDone, OnePage
      <4>2. OnePage'
        BY <3>2, <4>1, IInvParts DEF OnePage
      <4>3. ImageIsCurrent'
        BY <3>1 DEF ImageIsCurrent
      <4> QED BY <4>2, <4>3
    <3>4. frame' = Page(image') /\ Truth' = Page(<<loads, pos', size>>)
      BY <1>3, <2>2, <2>7, <3>1, <3>2 DEF PaintViewport, Shows, Truth, Ready
    <3>5. Screen'
      BY <1>3, <2>2, <2>7, <3>4 DEF PaintViewport, PaintDone, Screen, ScreenIsCurrent
    <3> QED BY <2>1, <2>5, <2>6, <2>9, <3>3, <3>5, IInvParts
  <2>8. CASE status' = "No surface" /\ UNCHANGED <<image, needPaint>>
    <3>1. OnePage' /\ ImageIsCurrent' /\ Screen'
      BY <1>3, <2>2, <2>8, IInvParts
      DEF PaintViewport, PaintDone, OnePage, ImageIsCurrent, Ready, Screen, ScreenIsCurrent
    <3> QED BY <2>1, <2>5, <2>6, <2>9, <3>1, IInvParts
  <2> QED BY <1>3, <2>7, <2>8 DEF PaintViewport
<1> QED BY <1>1, <1>2, <1>3

(* The layout thread. *)
LEMMA LayoutKeepsIInv ==
    ASSUME IInv,
           Worker
    PROVE  IInv'
<1>1. CASE LayOut
  <2>1. Flags' /\ Types'
    BY <1>1, IInvParts, Facts DEF LayOut, Flags, Types, Phases, Statuses
  <2>2. WorkerIsAlone' /\ StagesAreFed' /\ PanelsPrecede'
    BY <1>1, IInvParts, Facts
    DEF LayOut, Types, OnePage, WorkerIsAlone, StagesAreFed, PanelsPrecede, Joinable
  <2>3. OnePage' /\ ImageIsCurrent'
    BY <1>1, IInvParts, Facts
    DEF LayOut, Types, StagesAreFed, WorkerIsAlone, OnePage, ImageIsCurrent, Ready
  <2>4. Screen'
    BY <1>1, IInvParts, Facts DEF LayOut, Types, Screen, ScreenIsCurrent, Truth, Ready
  <2>5. Driven'
    BY <1>1, IInvParts
    DEF LayOut, Flags, StagesAreFed, Driven, LoadIsDriven, PaintIsDue, Ready
  <2> QED BY <2>1, <2>2, <2>3, <2>4, <2>5, IInvParts
<1>2. CASE Notify
  <2>1. Flags' /\ Types'
    BY <1>2, IInvParts, Facts DEF Notify, Flags, Types, Phases, Statuses
  <2>2. WorkerIsAlone' /\ StagesAreFed' /\ PanelsPrecede'
    BY <1>2, IInvParts, Facts
    DEF Notify, Types, OnePage, WorkerIsAlone, StagesAreFed, PanelsPrecede, Joinable
  <2>3. OnePage' /\ ImageIsCurrent'
    BY <1>2, IInvParts, Facts
    DEF Notify, Types, StagesAreFed, WorkerIsAlone, OnePage, ImageIsCurrent, Ready
  <2>4. Screen'
    BY <1>2, IInvParts, Facts DEF Notify, Types, Screen, ScreenIsCurrent
  <2>5. Driven'
    BY <1>2, IInvParts
    DEF Notify, Flags, StagesAreFed, Driven, LoadIsDriven, PaintIsDue, Ready
  <2> QED BY <2>1, <2>2, <2>3, <2>4, <2>5, IInvParts
<1> QED BY <1>1, <1>2 DEF Worker

(* The operator's events. *)
LEMMA EventsKeepIInv ==
    ASSUME IInv,
           Scroll \/ Hover \/ Press \/ Release \/ ClickPage \/ ClickAnchor \/
           ClickReturns \/ Resize \/ ShowOrHide
    PROVE  IInv'
<1>1. CASE Scroll
  <2>1. Flags' /\ Types'
    BY <1>1, IInvParts, Facts DEF Scroll, Event, Flags, Types, Phases, Statuses
  <2>2. WorkerIsAlone' /\ StagesAreFed' /\ PanelsPrecede'
    BY <1>1, IInvParts, Facts
    DEF Scroll, Event, Types, OnePage, WorkerIsAlone, StagesAreFed, PanelsPrecede,
        Joinable
  <2>3. OnePage' /\ ImageIsCurrent'
    BY <1>1, IInvParts, Facts
    DEF Scroll, Event, Types, StagesAreFed, WorkerIsAlone, OnePage, ImageIsCurrent, Ready
  <2>4. Screen'
    BY <1>1, IInvParts, Facts DEF Scroll, Event, Types, Screen, ScreenIsCurrent
  <2>5. Driven'
    BY <1>1, IInvParts
    DEF Scroll, Event, Flags, StagesAreFed, Driven, LoadIsDriven, PaintIsDue, Ready
  <2> QED BY <2>1, <2>2, <2>3, <2>4, <2>5, IInvParts
<1>2. CASE Hover
  <2>1. Flags' /\ Types'
    BY <1>2, IInvParts, Facts DEF Hover, Event, Flags, Types, Phases, Statuses
  <2>2. WorkerIsAlone' /\ StagesAreFed' /\ PanelsPrecede'
    BY <1>2, IInvParts, Facts
    DEF Hover, Event, Types, OnePage, WorkerIsAlone, StagesAreFed, PanelsPrecede, Joinable
  <2>3. OnePage' /\ ImageIsCurrent'
    BY <1>2, IInvParts, Facts
    DEF Hover, Event, Types, StagesAreFed, WorkerIsAlone, OnePage, ImageIsCurrent, Ready
  <2>4. Screen'
    BY <1>2, IInvParts, Facts DEF Hover, Event, Types, Screen, ScreenIsCurrent
  <2>5. Driven'
    BY <1>2, IInvParts
    DEF Hover, Event, Flags, StagesAreFed, Driven, LoadIsDriven, PaintIsDue, Ready
  <2> QED BY <2>1, <2>2, <2>3, <2>4, <2>5, IInvParts
<1>3. CASE Press
  <2>1. Flags' /\ Types'
    BY <1>3, IInvParts, Facts DEF Press, Event, Flags, Types, Phases, Statuses
  <2>2. WorkerIsAlone' /\ StagesAreFed' /\ PanelsPrecede'
    BY <1>3, IInvParts, Facts
    DEF Press, Event, Types, OnePage, WorkerIsAlone, StagesAreFed, PanelsPrecede, Joinable
  <2>3. OnePage' /\ ImageIsCurrent'
    BY <1>3, IInvParts, Facts
    DEF Press, Event, Types, StagesAreFed, WorkerIsAlone, OnePage, ImageIsCurrent, Ready
  <2>4. Screen'
    BY <1>3, IInvParts, Facts DEF Press, Event, Types, Screen, ScreenIsCurrent
  <2>5. Driven'
    BY <1>3, IInvParts
    DEF Press, Event, Flags, StagesAreFed, Driven, LoadIsDriven, PaintIsDue, Ready
  <2> QED BY <2>1, <2>2, <2>3, <2>4, <2>5, IInvParts
<1>4. CASE Release
  <2>1. Flags' /\ Types'
    BY <1>4, IInvParts, Facts DEF Release, Event, Flags, Types, Phases, Statuses
  <2>2. WorkerIsAlone' /\ StagesAreFed' /\ PanelsPrecede'
    BY <1>4, IInvParts, Facts
    DEF Release, Event, Types, OnePage, WorkerIsAlone, StagesAreFed, PanelsPrecede,
        Joinable
  <2>3. OnePage' /\ ImageIsCurrent'
    BY <1>4, IInvParts, Facts
    DEF Release, Event, Types, StagesAreFed, WorkerIsAlone, OnePage, ImageIsCurrent, Ready
  <2>4. Screen'
    BY <1>4, IInvParts, Facts DEF Release, Event, Types, Screen, ScreenIsCurrent
  <2>5. Driven'
    BY <1>4, IInvParts
    DEF Release, Event, Flags, StagesAreFed, Driven, LoadIsDriven, PaintIsDue, Ready
  <2> QED BY <2>1, <2>2, <2>3, <2>4, <2>5, IInvParts
<1>5. CASE ClickPage
  <2>1. Flags' /\ Types'
    BY <1>5, IInvParts, Facts DEF ClickPage, Event, Flags, Types, Phases, Statuses
  <2>2. WorkerIsAlone' /\ StagesAreFed' /\ PanelsPrecede'
    BY <1>5, IInvParts, Facts
    DEF ClickPage, Event, Types, OnePage, WorkerIsAlone, StagesAreFed, PanelsPrecede,
        Joinable
  <2>3. OnePage' /\ ImageIsCurrent'
    BY <1>5, IInvParts, Facts
    DEF ClickPage, Event, Types, StagesAreFed, WorkerIsAlone, OnePage, ImageIsCurrent,
        Ready
  <2>4. Screen'
    BY <1>5, IInvParts, Facts DEF ClickPage, Event, Types, Screen, ScreenIsCurrent
  <2>5. Driven'
    BY <1>5, IInvParts
    DEF ClickPage, Event, Flags, StagesAreFed, Driven, LoadIsDriven, PaintIsDue, Ready
  <2> QED BY <2>1, <2>2, <2>3, <2>4, <2>5, IInvParts
<1>6. CASE ClickAnchor
  <2>1. Flags' /\ Types'
    BY <1>6, IInvParts, Facts
    DEF ClickAnchor, Event, StartLoad, ReleaseDocument, Joinable, Flags, Types, Phases,
        Statuses
  <2>2. WorkerIsAlone' /\ StagesAreFed' /\ PanelsPrecede'
    BY <1>6, IInvParts, Facts
    DEF ClickAnchor, Event, StartLoad, ReleaseDocument, Joinable, Types, OnePage,
        WorkerIsAlone, StagesAreFed, PanelsPrecede
  <2>3. OnePage' /\ ImageIsCurrent'
    BY <1>6, IInvParts, Facts
    DEF ClickAnchor, Event, StartLoad, ReleaseDocument, Joinable, Types, StagesAreFed,
        WorkerIsAlone, OnePage, ImageIsCurrent, Ready
  <2>4. Screen'
    BY <1>6, IInvParts, Facts
    DEF ClickAnchor, Event, StartLoad, ReleaseDocument, Joinable, Types, Screen,
        ScreenIsCurrent
  <2>5. Driven'
    BY <1>6, IInvParts
    DEF ClickAnchor, Event, StartLoad, ReleaseDocument, Joinable, Flags, StagesAreFed, Driven, LoadIsDriven, PaintIsDue, Ready
  <2> QED BY <2>1, <2>2, <2>3, <2>4, <2>5, IInvParts
<1>7. CASE ClickReturns
  <2>1. Flags' /\ Types'
    BY <1>7, IInvParts, Facts DEF ClickReturns, Flags, Types, Phases, Statuses
  <2>2. WorkerIsAlone' /\ StagesAreFed' /\ PanelsPrecede'
    BY <1>7, IInvParts, Facts
    DEF ClickReturns, Types, OnePage, WorkerIsAlone, StagesAreFed, PanelsPrecede, Joinable
  <2>3. OnePage' /\ ImageIsCurrent'
    BY <1>7, IInvParts, Facts
    DEF ClickReturns, Types, StagesAreFed, WorkerIsAlone, OnePage, ImageIsCurrent, Ready
  <2>4. Screen'
    BY <1>7, IInvParts, Facts DEF ClickReturns, Types, Screen, ScreenIsCurrent
  <2>5. Driven'
    BY <1>7, IInvParts
    DEF ClickReturns, Screen, Flags, StagesAreFed, Driven, LoadIsDriven, PaintIsDue, Ready
  <2> QED BY <2>1, <2>2, <2>3, <2>4, <2>5, IInvParts
<1>8. CASE Resize
  <2>1. Flags' /\ Types'
    BY <1>8, IInvParts, Facts DEF Resize, Event, Flags, Types, Phases, Statuses
  <2>2. WorkerIsAlone' /\ StagesAreFed' /\ PanelsPrecede'
    BY <1>8, IInvParts, Facts
    DEF Resize, Event, Types, OnePage, WorkerIsAlone, StagesAreFed, PanelsPrecede,
        Joinable
  <2>3. OnePage' /\ ImageIsCurrent'
    BY <1>8, IInvParts, Facts
    DEF Resize, Event, Types, StagesAreFed, WorkerIsAlone, OnePage, ImageIsCurrent, Ready
  <2>4. Screen'
    BY <1>8, IInvParts, Facts DEF Resize, Event, Types, Screen, ScreenIsCurrent
  <2>5. Driven'
    BY <1>8, IInvParts
    DEF Resize, Event, Flags, StagesAreFed, Driven, LoadIsDriven, PaintIsDue, Ready
  <2> QED BY <2>1, <2>2, <2>3, <2>4, <2>5, IInvParts
<1>9. CASE ShowOrHide
  <2>1. Flags' /\ Types'
    BY <1>9, IInvParts, Facts DEF ShowOrHide, Event, Flags, Types, Phases, Statuses
  <2>2. WorkerIsAlone' /\ StagesAreFed' /\ PanelsPrecede'
    BY <1>9, IInvParts, Facts
    DEF ShowOrHide, Event, Types, OnePage, WorkerIsAlone, StagesAreFed, PanelsPrecede,
        Joinable
  <2>3. OnePage' /\ ImageIsCurrent'
    BY <1>9, IInvParts, Facts
    DEF ShowOrHide, Event, Types, StagesAreFed, WorkerIsAlone, OnePage, ImageIsCurrent,
        Ready
  <2>4. Screen'
    BY <1>9, IInvParts, Facts DEF ShowOrHide, Event, Types, Screen, ScreenIsCurrent
  <2>5. Driven'
    BY <1>9, IInvParts
    DEF ShowOrHide, Event, Flags, StagesAreFed, Driven, LoadIsDriven, PaintIsDue, Ready
  <2> QED BY <2>1, <2>2, <2>3, <2>4, <2>5, IInvParts
<1> QED BY <1>1, <1>2, <1>3, <1>4, <1>5, <1>6, <1>7, <1>8, <1>9

LEMMA InitIInv == Init => IInv
<1> SUFFICES ASSUME Init PROVE IInv
  OBVIOUS
<1>1. Flags
  BY DEF Init, Flags
<1>2. Types
  BY Facts DEF Init, Types, Phases, Statuses
<1>3. WorkerIsAlone /\ StagesAreFed /\ PanelsPrecede
  BY DEF Init, WorkerIsAlone, StagesAreFed, PanelsPrecede, Joinable
<1>4. OnePage /\ ImageIsCurrent
  BY DEF Init, OnePage, ImageIsCurrent, Ready
<1>5. Screen
  BY DEF Init, Screen, ScreenIsCurrent
<1>6. Driven
  BY DEF Init, Driven, LoadIsDriven, PaintIsDue
<1> QED BY <1>1, <1>2, <1>3, <1>4, <1>5, <1>6, IInvParts

LEMMA StutterKeepsIInv == ASSUME IInv, UNCHANGED vars PROVE IInv'
<1>1. Flags' /\ Types'
  BY IInvParts DEF vars, Flags, Types
<1>2. WorkerIsAlone' /\ StagesAreFed' /\ PanelsPrecede'
  BY IInvParts DEF vars, WorkerIsAlone, StagesAreFed, PanelsPrecede, Joinable
<1>3. OnePage' /\ ImageIsCurrent'
  BY IInvParts DEF vars, OnePage, ImageIsCurrent, Ready
<1>4. Screen'
  BY IInvParts DEF vars, Screen, ScreenIsCurrent, Truth, Ready
<1>5. Driven'
  BY IInvParts DEF vars, Driven, LoadIsDriven, PaintIsDue, Ready
<1> QED BY <1>1, <1>2, <1>3, <1>4, <1>5, IInvParts

LEMMA NextKeepsIInv == IInv /\ [Next]_vars => IInv'
BY LoadingKeepsIInv, FrameKeepsIInv, PaintingKeepsIInv, LayoutKeepsIInv, EventsKeepIInv,
    StutterKeepsIInv
    DEF Next, Draw

(* The inductive invariant holds in every reachable state. *)
THEOREM Invariance == Spec => []IInv
BY InitIInv, NextKeepsIInv, PTL DEF Spec

(* Every variable keeps its type. *)
THEOREM TypeCorrect == Spec => []TypeOK
<1>1. IInv => TypeOK
  BY DEF IInv
<1> QED BY <1>1, Invariance, PTL

(* When no frame is asked for, the screen shows the page of the latest load where *)
(* it was scrolled to, or why there is none.                                    *)
THEOREM ScreenCurrent == Spec => []ScreenIsCurrent
<1>1. IInv => ScreenIsCurrent
  BY DEF IInv
<1> QED BY <1>1, Invariance, PTL

(* No load that is busy is left without a frame to take it further.              *)
THEOREM LoadsAreDriven == Spec => []LoadIsDriven
<1>1. IInv => LoadIsDriven
  BY DEF IInv
<1> QED BY <1>1, Invariance, PTL

----------------------------------------------------------------------------
(* What the action properties rest on, step by step.                            *)

LEMMA GuiLeavesContainer ==
    ASSUME IInv, Next, worker = "running"
    PROVE  uses' = FALSE \/ UNCHANGED vars
<1> USE IInvParts DEF WorkerIsAlone, OnePage, Joinable
<1>1. CASE SetUrl \/ ClearUrl \/ Close
  BY <1>1 DEF SetUrl, ClearUrl, Close, StartLoad, ReleaseDocument
<1>2. CASE BeginFrame \/ Worker
  BY <1>2 DEF BeginFrame, Worker, LayOut, Notify
<1>3. CASE Draw
  <2>1. CASE SkipAdvance \/ ShowLoading \/ AwaitLayout \/ DrawOnly \/ PaintUnsized
    BY <2>1 DEF SkipAdvance, ShowLoading, AwaitLayout, DrawOnly, PaintUnsized
  <2>2. CASE RunFetchStage \/ StartLayoutAsync \/ FinishLayoutAsync \/ PaintViewport
    BY <2>2 DEF RunFetchStage, StartLayoutAsync, FinishLayoutAsync, PaintViewport, Ready
  <2> QED BY <1>3, <2>1, <2>2 DEF Draw
<1>4. CASE Scroll \/ Hover \/ Press \/ Release \/ ClickPage \/ ClickAnchor
  BY <1>4 DEF Scroll, Hover, Press, Release, ClickPage, ClickAnchor
<1>5. CASE ClickReturns \/ Resize \/ ShowOrHide
  BY <1>5 DEF ClickReturns, Resize, ShowOrHide
<1> QED BY <1>1, <1>2, <1>3, <1>4, <1>5 DEF Next

LEMMA ClicksArePressed ==
    ASSUME IInv, Next, clicked' \notin {0, clicked}
    PROVE  clicked' = pressed
<1> USE IInvParts DEF OnePage
<1>1. CASE ClickPage \/ ClickAnchor
  BY <1>1 DEF ClickPage, ClickAnchor
<1>2. CASE ClickReturns
  BY <1>2 DEF ClickReturns
<1>3. CASE SetUrl \/ ClearUrl \/ Close \/ BeginFrame \/ Worker
  BY <1>3 DEF SetUrl, ClearUrl, Close, BeginFrame, Worker, LayOut, Notify
<1>4. CASE Draw
  BY <1>4
  DEF Draw, SkipAdvance, ShowLoading, RunFetchStage, StartLayoutAsync, AwaitLayout,
      FinishLayoutAsync, Advance, DrawOnly, PaintUnsized, PaintViewport, PaintDone
<1>5. CASE Scroll \/ Hover \/ Press \/ Release \/ Resize \/ ShowOrHide
  BY <1>5 DEF Scroll, Hover, Press, Release, Resize, ShowOrHide
<1> QED BY <1>1, <1>2, <1>3, <1>4, <1>5 DEF Next, vars

LEMMA LayoutIsStarted ==
    ASSUME Next, worker # "running", worker' = "running"
    PROVE  gui = "advance" /\ phase = "ShowRendering"
<1>1. CASE SetUrl \/ ClearUrl \/ Close \/ BeginFrame \/ Worker
  BY <1>1
  DEF SetUrl, ClearUrl, Close, StartLoad, ReleaseDocument, BeginFrame, Worker, LayOut, Notify
<1>2. CASE Draw
  BY <1>2
  DEF Draw, SkipAdvance, ShowLoading, RunFetchStage, StartLayoutAsync, AwaitLayout,
      FinishLayoutAsync, Advance, DrawOnly, PaintUnsized, PaintViewport, PaintDone
<1>3. CASE ClickReturns \/ ClickAnchor
  BY <1>3 DEF ClickReturns, ClickAnchor, StartLoad, ReleaseDocument
<1>4. CASE Scroll \/ Hover \/ Press \/ Release \/ ClickPage \/ Resize \/ ShowOrHide
  BY <1>4 DEF Scroll, Hover, Press, Release, ClickPage, Resize, ShowOrHide, Event
<1> QED BY <1>1, <1>2, <1>3, <1>4 DEF Next, vars

(* The GUI thread leaves the container alone while the layout thread uses it.      *)
THEOREM ContainerNotShared == Spec => NoSharedContainer
<1>1. IInv /\ [Next]_vars => [uses' => worker # "running"]_vars
  BY GuiLeavesContainer
<1> QED BY <1>1, Invariance, PTL DEF Spec, NoSharedContainer

(* A click reaches the page that was there, or loading, at the press.             *)
THEOREM ClicksStay == Spec => ClickStaysOnItsPage
<1>1. IInv /\ [Next]_vars => [clicked' \notin {0, clicked} => clicked' = pressed]_vars
  BY ClicksArePressed
<1> QED BY <1>1, Invariance, PTL DEF Spec, ClickStaysOnItsPage

(* The panels of a load come before the stages they announce.                     *)
THEOREM PanelsComeFirst == Spec => StagesAreAnnounced
<1> DEFINE Announced ==
      /\ gui = "advance" /\ phase = "Fetch" => "Loading" \in announced
      /\ worker # "running" /\ worker' = "running" => {"Loading", "Rendering"} \subseteq announced
<1>1. IInv /\ [Next]_vars => [Announced]_vars
  <2> SUFFICES ASSUME IInv, Next PROVE Announced
    OBVIOUS
  <2>1. gui = "advance" /\ phase = "Fetch" => "Loading" \in announced
    BY IInvParts DEF PanelsPrecede
  <2>2. ASSUME worker # "running", worker' = "running"
        PROVE  {"Loading", "Rendering"} \subseteq announced
    BY <2>2, LayoutIsStarted, IInvParts DEF PanelsPrecede
  <2> QED BY <2>1, <2>2
<1> QED BY <1>1, Invariance, PTL DEF Spec, StagesAreAnnounced

=============================================================================
