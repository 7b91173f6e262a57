-------------------------------- MODULE HtmlView --------------------------------
(***************************************************************************)
(* EditorHtmlView: a widget that shows one HTML document.  A load is spread    *)
(* over frames (Pending, Fetch, ShowRendering, LayoutWait) so that the         *)
(* operator sees what is going on, and the layout runs in a thread of its own   *)
(* on the container the GUI thread owns.                                      *)
(*                                                                           *)
(* The GUI thread draws only when a frame was asked for (redraw); a frame is    *)
(* three steps, so that the layout thread may run between them.  Which page a  *)
(* load brings and where a fragment jumps are left open: a page is known by    *)
(* the load that brought it, a scroll position is a member of Positions.       *)
(***************************************************************************)
EXTENDS Naturals

CONSTANTS
    Positions,  \* scroll positions
    Top,        \* the position of a new page
    Sizes,      \* sizes of the widget
    Unsized,    \* the size before the first layout of its window
    MaxLoads    \* bound on the loads

ASSUME PlacesAssumption == Top \in Positions /\ Unsized \in Sizes
ASSUME BoundAssumption == MaxLoads \in Nat

VARIABLES
    status,     \* m_status
    phase,      \* m_load_phase
    busy,       \* m_load_busy
    html,       \* m_pending_html is not empty
    worker,     \* m_layout_thread: none, running, notifying (done is set), ended
    done,       \* m_layout_done
    layoutDoc,  \* m_layout_doc, the load of the document, 0 for none
    doc,        \* m_doc, likewise
    clicked,    \* the document a click's handler still refers to, likewise
    surfaces,   \* the documents whose image surfaces the container holds
    image,      \* m_nvg_image: what it was painted from, or NoImage
    needPaint,  \* m_need_paint
    pos,        \* m_scroll_y
    size,       \* width() and height()
    shown,      \* the widget and the windows it is in are visible
    redraw,     \* needs_frame_redraw
    gui,        \* where the GUI thread is: idle, advance, paint, click
    mouseDown,  \* m_mouse_down
    closed,     \* the widget has been destroyed
    loads,      \* bound and history: loads begun
    pressed,    \* history: the load at the last press
    frame,      \* history: what the last frame showed
    announced,  \* history: the status panels shown since the load began
    uses        \* history: this step of the GUI thread worked on the container

loadVars == <<status, phase, busy, html, loads>>
workVars == <<worker, done, layoutDoc>>
pageVars == <<doc, clicked, surfaces>>
viewVars == <<image, needPaint, pos>>
screenVars == <<size, shown, redraw, frame, announced>>
inputVars == <<mouseDown, pressed>>
vars == <<loadVars, workVars, pageVars, viewVars, screenVars, inputVars, gui, closed, uses>>

Phases == {"Idle", "Pending", "Fetch", "ShowRendering", "LayoutWait"}
Statuses == {"No URL", "Loading", "Rendering", "Failed", "OK", "No surface"}
Loads == 0..MaxLoads
NoImage == <<0, Top, Unsized>>
Page(p) == <<"page", p>>
Panel(s) == <<"panel", s>>
Images == Loads \X Positions \X Sizes
Frames == {Page(i) : i \in Images} \cup {Panel(s) : s \in Statuses}

TypeOK ==
    /\ {busy, html, done, needPaint, shown, redraw, mouseDown, closed, uses} \subseteq BOOLEAN
    /\ status \in Statuses /\ phase \in Phases
    /\ worker \in {"none", "running", "notifying", "ended"}
    /\ gui \in {"idle", "advance", "paint", "click"}
    /\ layoutDoc \in Loads /\ doc \in Loads /\ clicked \in Loads /\ surfaces \subseteq Loads
    /\ image \in Images
    /\ pos \in Positions /\ size \in Sizes
    /\ loads \in Loads /\ pressed \in Loads
    /\ frame \in Frames /\ announced \subseteq Statuses

Init ==
    /\ status = "No URL" /\ phase = "Idle" /\ busy = FALSE /\ html = FALSE /\ loads = 0
    /\ worker = "none" /\ done = FALSE /\ layoutDoc = 0
    /\ doc = 0 /\ clicked = 0 /\ surfaces = {}
    /\ image = NoImage /\ needPaint = TRUE /\ pos = Top
    /\ size = Unsized /\ shown = TRUE /\ redraw = TRUE
    /\ frame = Panel("No URL") /\ announced = {}
    /\ mouseDown = FALSE /\ pressed = 0
    /\ gui = "idle" /\ closed = FALSE /\ uses = FALSE

----------------------------------------------------------------------------
(* Loads *)

\* A fault: the thread is left to itself.
Detached == TRUE

\* joinLayoutThread blocks while the thread runs: the step waits for it.
Joinable ==
    worker \in {"none", "ended"}

\* A fault: a button held over the load stays pressed.
ReleaseKeepingPress ==
    /\ Joinable
    /\ worker' = "none" /\ done' = FALSE /\ layoutDoc' = 0
    /\ doc' = 0 /\ surfaces' = {}
    /\ html' = FALSE /\ image' = NoImage /\ needPaint' = TRUE /\ pos' = Top
    /\ mouseDown' = mouseDown

\* releaseDocument.
ReleaseDocument ==
    /\ Joinable
    /\ worker' = "none" /\ done' = FALSE /\ layoutDoc' = 0
    /\ doc' = 0 /\ surfaces' = {}
    /\ html' = FALSE /\ image' = NoImage /\ needPaint' = TRUE /\ pos' = Top
    /\ mouseDown' = FALSE

\* A fault: the load starts with the fetch.
LoadAtOnce ==
    /\ loads < MaxLoads
    /\ loads' = loads + 1
    /\ ReleaseDocument
    /\ phase' = "Fetch" /\ busy' = TRUE /\ status' = "Loading"
    /\ announced' = {} /\ redraw' = TRUE /\ uses' = TRUE

\* setUrl of a document, always with force_reload: requestReload.  Both a published
\* value of the remote property and an edit ask for a frame as well.
StartLoad ==
    /\ loads < MaxLoads
    /\ loads' = loads + 1
    /\ ReleaseDocument
    /\ phase' = "Pending" /\ busy' = TRUE /\ status' = "Loading"
    /\ announced' = {} /\ redraw' = TRUE /\ uses' = TRUE

SetUrl ==
    /\ gui = "idle" /\ ~closed
    /\ StartLoad
    /\ UNCHANGED <<clicked, size, shown, frame, pressed, gui, closed>>

\* setUrl of an empty URL keeps the document, and a layout thread that runs goes on.
ClearUrl ==
    /\ gui = "idle" /\ ~closed
    /\ status' = "No URL" /\ phase' = "Idle" /\ busy' = FALSE /\ html' = FALSE
    /\ pos' = Top /\ redraw' = TRUE /\ uses' = FALSE
    /\ UNCHANGED <<loads, workVars, pageVars, image, needPaint, size, shown, frame, announced,
                   inputVars, gui, closed>>

\* A fault: the widget does not wait for the layout.
CloseAtOnce ==
    /\ gui = "idle" /\ ~closed
    /\ phase' = "Idle" /\ busy' = FALSE /\ closed' = TRUE /\ uses' = FALSE
    /\ UNCHANGED <<status, html, loads, workVars, pageVars, viewVars, screenVars, inputVars, gui>>

\* ~EditorHtmlView.
Close ==
    /\ gui = "idle" /\ ~closed
    /\ ReleaseDocument
    /\ phase' = "Idle" /\ busy' = FALSE /\ closed' = TRUE /\ uses' = TRUE
    /\ UNCHANGED <<status, loads, clicked, screenVars, pressed, gui>>

----------------------------------------------------------------------------
(* A frame: drawAll clears the request, then draw advances the load and paints *)

BeginFrame ==
    /\ gui = "idle" /\ ~closed /\ redraw
    /\ redraw' = FALSE /\ uses' = FALSE
    /\ gui' = IF shown THEN "advance" ELSE "idle"
    /\ UNCHANGED <<loadVars, workVars, pageVars, viewVars, size, shown, frame, announced,
                   inputVars, closed>>

\* A fault: a load under way asks for no frame.
AdvanceOnce ==
    /\ gui = "advance" /\ gui' = "paint"
    /\ redraw' = redraw
    /\ UNCHANGED <<size, shown, frame, announced, inputVars, closed, loads, clicked>>

\* The steps of draw before it paints; a load that is not Idle asks for the next frame.
Advance ==
    /\ gui = "advance" /\ gui' = "paint"
    /\ redraw' = (redraw \/ phase # "Idle")
    /\ UNCHANGED <<size, shown, frame, announced, inputVars, closed, loads, clicked>>

SkipAdvance ==
    /\ Advance /\ phase = "Idle"
    /\ uses' = FALSE
    /\ UNCHANGED <<status, phase, busy, html, workVars, doc, surfaces, viewVars>>

ShowLoading ==
    /\ Advance /\ phase = "Pending"
    /\ status' = "Loading" /\ phase' = "Fetch" /\ uses' = FALSE
    /\ UNCHANGED <<busy, html, workVars, doc, surfaces, viewVars>>

\* runFetchStage: the document cannot be had, or it and its assets are.
RunFetchStage ==
    /\ Advance /\ phase = "Fetch"
    /\ \/ /\ status' = "Failed" /\ phase' = "Idle" /\ busy' = FALSE /\ html' = FALSE
       \/ /\ status' = "Rendering" /\ phase' = "ShowRendering" /\ busy' = busy /\ html' = TRUE
    /\ uses' = TRUE
    /\ UNCHANGED <<workVars, doc, surfaces, viewVars>>

StartLayoutAsync ==
    /\ Advance /\ phase = "ShowRendering"
    /\ Joinable
    /\ html' = FALSE
    /\ done' = FALSE
    /\ IF html
         THEN /\ doc' = 0 /\ layoutDoc' = 0 /\ surfaces' = {}
              /\ worker' = "running"
              /\ status' = "Rendering" /\ phase' = "LayoutWait" /\ busy' = busy
         ELSE /\ worker' = "none"
              /\ status' = "Failed" /\ phase' = "Idle" /\ busy' = FALSE
              /\ UNCHANGED <<layoutDoc, doc, surfaces>>
    /\ uses' = TRUE
    /\ UNCHANGED viewVars

AwaitLayout ==
    /\ Advance /\ phase = "LayoutWait" /\ ~done
    /\ uses' = FALSE
    /\ UNCHANGED <<status, phase, busy, html, workVars, doc, surfaces, viewVars>>

\* A fragment of the URL moves the new page to where it is.
FinishLayoutAsync ==
    /\ Advance /\ phase = "LayoutWait" /\ done
    /\ Joinable
    /\ worker' = "none" /\ done' = FALSE /\ layoutDoc' = 0
    /\ doc' = layoutDoc /\ phase' = "Idle"
    /\ IF layoutDoc # 0
         THEN /\ status' = "OK" /\ busy' = busy /\ needPaint' = TRUE
              /\ pos' \in Positions /\ surfaces' = surfaces
         ELSE /\ status' = "Failed" /\ busy' = FALSE /\ needPaint' = needPaint
              /\ pos' = pos /\ surfaces' = {}
    /\ uses' = TRUE
    /\ UNCHANGED <<html, image>>

Ready == doc # 0 /\ status = "OK" /\ phase = "Idle"

\* What draw shows: the image of a document that is ready, else the status panel.
Shows(img, text) == IF Ready /\ img # NoImage THEN Page(img) ELSE Panel(text)
PaintDone ==
    /\ gui = "paint" /\ gui' = "idle"
    /\ UNCHANGED <<phase, html, loads, workVars, pageVars, size, shown, inputVars, closed>>

Stale == needPaint \/ image[3] # size

\* draw without paintViewport.
DrawOnly ==
    /\ PaintDone /\ ~(Ready /\ Stale)
    /\ frame' = Shows(image, status) /\ announced' = announced \cup {status}
    /\ uses' = FALSE
    /\ UNCHANGED <<status, busy, redraw, viewVars>>

\* A fault: a page that cannot be painted yet asks for no frame.
PaintUnsizedOnce ==
    /\ PaintDone /\ Ready /\ Stale /\ size = Unsized
    /\ redraw' = redraw
    /\ frame' = Shows(image, status) /\ announced' = announced \cup {status}
    /\ uses' = FALSE
    /\ UNCHANGED <<status, busy, viewVars>>

\* paintViewport before the widget has a size.
PaintUnsized ==
    /\ PaintDone /\ Ready /\ Stale /\ size = Unsized
    /\ redraw' = (redraw \/ busy)
    /\ frame' = Shows(image, status) /\ announced' = announced \cup {status}
    /\ uses' = FALSE
    /\ UNCHANGED <<status, busy, viewVars>>

\* A page laid out anew for another width is cut to its end, or moved to a fragment.
PaintViewport ==
    /\ PaintDone /\ Ready /\ Stale /\ size # Unsized
    /\ pos' \in Positions
    /\ \/ /\ image' = <<doc, pos', size>>
          /\ needPaint' = FALSE /\ status' = status
       \/ /\ status' = "No surface"
          /\ UNCHANGED <<image, needPaint>>
    /\ busy' = FALSE
    /\ frame' = Shows(image', status') /\ announced' = announced \cup {status'}
    /\ uses' = TRUE
    /\ UNCHANGED redraw

----------------------------------------------------------------------------
(* The layout thread *)

\* createFromString and render, then m_layout_done; 0 for a parse or render error.
LayOut ==
    /\ worker = "running"
    /\ worker' = "notifying" /\ done' = TRUE
    /\ \/ layoutDoc' = loads /\ surfaces' = surfaces \cup {loads}
       \/ UNCHANGED <<layoutDoc, surfaces>>
    /\ uses' = FALSE
    /\ UNCHANGED <<loadVars, doc, clicked, viewVars, screenVars, inputVars, gui, closed>>

Notify ==
    /\ worker = "notifying" /\ worker' = "ended"
    /\ redraw' = TRUE /\ uses' = FALSE
    /\ UNCHANGED <<loadVars, done, layoutDoc, pageVars, viewVars, size, shown, frame, announced,
                   inputVars, gui, closed>>

----------------------------------------------------------------------------
(* The operator, and the windows; every event asks for a frame *)

Event ==
    /\ gui = "idle" /\ ~closed
    /\ redraw' = TRUE
    /\ UNCHANGED <<workVars, frame, closed>>

\* A fault: the image of the page is not painted again.
ScrollImage ==
    /\ Event
    /\ doc # 0
    /\ pos' \in Positions /\ needPaint' = needPaint
    /\ uses' = mouseDown
    /\ UNCHANGED <<loadVars, pageVars, image, size, shown, announced, inputVars, gui>>

\* setScrollY, from the wheel, a key or a drag: only a document has a height.  A drag
\* tells the page that the press is no click.
Scroll ==
    /\ Event
    /\ doc # 0
    /\ pos' \in Positions /\ needPaint' = (needPaint \/ pos' # pos)
    /\ uses' = mouseDown
    /\ UNCHANGED <<loadVars, pageVars, image, size, shown, announced, inputVars, gui>>

\* The pointer moves over the page, or leaves it, and the styles it hovers change.
Hover ==
    /\ Event
    /\ doc # 0
    /\ needPaint' = TRUE /\ uses' = TRUE
    /\ UNCHANGED <<loadVars, pageVars, image, pos, size, shown, announced, inputVars, gui>>

\* mouseButtonEvent, a press; it moves the hover styles of the page.
Press ==
    /\ Event
    /\ mouseDown' = TRUE /\ pressed' = loads
    /\ needPaint' \in {needPaint, needPaint \/ doc # 0}
    /\ uses' = (doc # 0)
    /\ UNCHANGED <<loadVars, pageVars, image, pos, size, shown, announced, gui>>

\* endPointerGesture without a click: no press, a drag, or the Top button.
Release ==
    /\ Event
    /\ mouseDown' = FALSE
    /\ pos' \in IF mouseDown THEN {pos, Top} ELSE {pos}
    /\ needPaint' = (needPaint \/ pos' # pos)
    /\ uses' = (mouseDown /\ doc # 0)
    /\ UNCHANGED <<loadVars, pageVars, image, size, shown, announced, pressed, gui>>

\* fireDocumentClick that stays on the page: nothing, or a fragment's anchor.
ClickPage ==
    /\ Event
    /\ mouseDown /\ doc # 0
    /\ mouseDown' = FALSE /\ clicked' = doc
    /\ pos' \in Positions /\ needPaint' = (needPaint \/ pos' # pos)
    /\ gui' = "click" /\ uses' = TRUE
    /\ UNCHANGED <<loadVars, doc, surfaces, image, size, shown, announced, pressed>>

\* An anchor to another document: onAnchorClick starts its load while litehtml still
\* refers to the document that was clicked.
ClickAnchor ==
    /\ Event
    /\ mouseDown /\ doc # 0
    /\ StartLoad
    /\ clicked' = doc
    /\ gui' = "click"
    /\ UNCHANGED <<size, shown, pressed>>

\* The handler returns to fireDocumentClick.
ClickReturns ==
    /\ gui = "click" /\ gui' = "idle"
    /\ clicked' = 0
    /\ needPaint' = TRUE /\ uses' = FALSE
    /\ UNCHANGED <<loadVars, workVars, doc, surfaces, image, pos, screenVars, inputVars, closed>>

Resize ==
    /\ Event
    /\ size' \in Sizes \ {size}
    /\ uses' = FALSE
    /\ UNCHANGED <<loadVars, pageVars, viewVars, shown, announced, inputVars, gui>>

ShowOrHide ==
    /\ Event
    /\ shown' = ~shown
    /\ uses' = FALSE
    /\ UNCHANGED <<loadVars, pageVars, viewVars, size, announced, inputVars, gui>>

----------------------------------------------------------------------------
Draw ==
    \/ SkipAdvance \/ ShowLoading \/ RunFetchStage \/ StartLayoutAsync \/ AwaitLayout
    \/ FinishLayoutAsync
    \/ DrawOnly \/ PaintUnsized \/ PaintViewport

Worker == LayOut \/ Notify

Next ==
    \/ SetUrl \/ ClearUrl \/ Close
    \/ BeginFrame \/ Draw \/ Worker
    \/ Scroll \/ Hover \/ Press \/ Release \/ ClickPage \/ ClickAnchor \/ ClickReturns
    \/ Resize \/ ShowOrHide
    \/ closed /\ UNCHANGED vars

\* Each pass of NanoGUI's main loop draws the screen, whatever events it handled first;
\* the layout thread is scheduled by the system.
Fairness ==
    /\ SF_vars(BeginFrame) /\ WF_vars(Draw) /\ WF_vars(ClickReturns)
    /\ WF_vars(Worker)

Spec == Init /\ [][Next]_vars /\ Fairness

----------------------------------------------------------------------------
(* Properties *)

\* While the layout thread works on the container there is no document the operator's
\* events could reach, and the load has no result yet; the widget outlives the thread.
WorkerIsAlone ==
    /\ worker = "running" => phase \in {"LayoutWait", "Idle"} /\ doc = 0 /\ clicked = 0
    /\ worker = "running" => ~done /\ layoutDoc = 0
    /\ closed => gui = "idle" /\ Joinable

\* A load that waits for a layout has one to wait for; one that is to be laid out holds
\* the document it fetched; no document is there before the load is over.
StagesAreFed ==
    /\ phase = "LayoutWait" => worker # "none" /\ (done \/ worker = "running")
    /\ phase = "ShowRendering" => html
    /\ phase \in {"Pending", "Fetch", "ShowRendering"} => worker = "none"
    /\ phase # "Idle" => busy /\ doc = 0 /\ status # "OK"
    /\ status = "OK" => closed \/ doc # 0

\* The panels of the stages behind were shown; that of the stage to come is, or is about
\* to be.
PanelsPrecede ==
    /\ phase = "Fetch" => status = "Loading" /\ (gui = "paint" \/ "Loading" \in announced)
    /\ phase = "ShowRendering" =>
         /\ status = "Rendering" /\ "Loading" \in announced
         /\ gui = "paint" \/ "Rendering" \in announced

\* Every document about is that of the latest load, and so is the image.
OnePage ==
    /\ {doc, layoutDoc} \subseteq {0, loads}
    /\ image # NoImage => image[1] = doc /\ doc # 0
    /\ gui # "click" => clicked = 0
    /\ mouseDown => pressed = loads

\* The image is that of the position the page is at, unless it is to be painted again.
ImageIsCurrent == Ready /\ ~needPaint => image # NoImage /\ image[2] = pos

\* What the operator is to see: the page of the latest load where it was scrolled to, or
\* what keeps it from being shown.
Truth == IF Ready THEN Page(<<loads, pos, size>>) ELSE Panel(status)

\* When no frame is asked for, the screen shows the truth: no change of the load, the
\* page, its position or its size, by the operator, a published value or the layout
\* thread, is left without a frame, whatever the order of these with the frame under
\* way.  (draw, requestNextFrame, drawAll; a frame that failed to paint is left out.)
ScreenIsCurrent ==
    gui = "idle" /\ shown /\ ~redraw /\ ~closed /\ size # Unsized /\ status # "No surface"
        => frame = Truth

\* A load that is busy in a widget to be seen always has a frame asked for that takes it
\* further: the layout thread, hiding and showing, and a size that is still to come leave
\* none behind.  Frames come on demand only, so a load without one would stay busy until
\* the operator touches something.  (requestNextFrame in advanceLoad and paintViewport)
LoadIsDriven == busy /\ shown /\ ~closed /\ gui = "idle" => redraw

\* Why: a load out of its stages still has its page to paint, and a frame that takes a
\* stage asks for the next before it paints.
PaintIsDue ==
    /\ busy /\ phase = "Idle" => Ready /\ needPaint
    /\ gui = "paint" /\ phase # "Idle" => redraw

\* The inductive invariant.
IInv ==
    /\ TypeOK
    /\ WorkerIsAlone /\ StagesAreFed /\ PanelsPrecede /\ OnePage /\ ImageIsCurrent
    /\ ScreenIsCurrent /\ (gui = "click" => redraw)
    /\ LoadIsDriven /\ PaintIsDue

\* The GUI thread never works on the container or a document of it while the layout
\* thread does, through changes of the URL in the middle of a layout, clicks, and the end
\* of the widget.  (startLayoutAsync, releaseDocument)
NoSharedContainer == [][uses' => worker # "running"]_vars

\* A click reaches the page of the load that was under way or shown at the press, never
\* one that replaced it while the button was held.  (releaseDocument, endPointerGesture)
ClickStaysOnItsPage == [][clicked' \notin {0, clicked} => clicked' = pressed]_vars

\* The operator has seen "Loading" before the step that may block on the network, and
\* "Rendering" before the layout starts, in every load.  (requestReload: "paint Loading
\* this frame before any network/layout work"; advanceLoad)
StagesAreAnnounced ==
    [][/\ gui = "advance" /\ phase = "Fetch" => "Loading" \in announced
       /\ worker # "running" /\ worker' = "running" => {"Loading", "Rendering"} \subseteq announced]_vars

\* The image surfaces are cleared only when every document drawn from them is destroyed:
\* "Document must be destroyed before image surfaces (container is non-owning to
\* litehtml)" (releaseDocument).
SurfacesOutliveDocuments == {doc, layoutDoc, clicked} \ {0} \subseteq surfaces

\* Once the widget stays visible and has a size, no load stays busy.  (advanceLoad,
\* paintViewport: "Avoid stuck m_load_busy")
LoadEnds == <>[](shown /\ size # Unsized) => []<>(~busy)
=============================================================================
