------------------------------- MODULE Backlight -------------------------------
(***************************************************************************)
(* The project backlight of EditorGUI.  A Clockwork point asks for the display *)
(* to be on or off; off takes effect after a delay, which operator activity     *)
(* starts again, and a key or a click on a blanked display wakes it and starts  *)
(* the delay.  The command that drives the hardware may fail.                  *)
(*                                                                           *)
(* Everything runs in the GUI thread.  Only while a connection is ready does    *)
(* EditorGUI::update run the timeout and do point values arrive.              *)
(***************************************************************************)
EXTENDS Naturals

CONSTANTS
    Keys,        \* the keys of the keyboard
    Mouse,       \* the mouse button
    None,        \* no key
    MaxEvents,   \* bound on presses
    MaxChanges,  \* bound on changes of the point and of the connection
    MaxFailures  \* bound on failed backlight commands

ASSUME InputsAssumption == Mouse \notin Keys /\ None \notin Keys /\ Mouse # None
ASSUME BoundsAssumption == {MaxEvents, MaxChanges, MaxFailures} \subseteq Nat

VARIABLES
    connected,    \* a connection is ready
    initialised,  \* backlight_initialised
    known,        \* backlight_request_known
    requestedOn,  \* backlight_requested_on
    pending,      \* backlight_off_pending
    elapsed,      \* the delay has passed since backlight_off_requested_at
    blanked,      \* backlight_is_blanked
    wakeKey,      \* the key of the wake press while it is held, else None
    lamp,         \* the hardware is lit
    down,         \* the keys held
    events, changes, failures, \* bounds
    reached,      \* history: the event this step passed on, <<input, kind>>
    waking,       \* history: the keys held whose press met a blanked display
    failedOn      \* history: the last command to light the display failed, whether
                  \* applyBacklight said so or not

requestVars == <<known, requestedOn, pending, elapsed>>
inputVars == <<wakeKey, down, events, waking>>
vars == <<connected, initialised, requestVars, blanked, inputVars, lamp,
          changes, failures, reached, failedOn>>

Nothing == <<None, "none">>
Kinds == {"press", "repeat", "release"}

TypeOK ==
    /\ {connected, initialised, known, requestedOn, pending, elapsed} \subseteq BOOLEAN
    /\ {blanked, lamp, failedOn} \subseteq BOOLEAN
    /\ wakeKey \in Keys \cup {None}
    /\ down \subseteq Keys /\ waking \subseteq down
    /\ reached \in (Keys \cup {Mouse}) \X Kinds \cup {Nothing}
    /\ events \in 0..MaxEvents /\ changes \in 0..MaxChanges /\ failures \in 0..MaxFailures

\* The last process may have left the hardware dark.
Init ==
    /\ connected = FALSE /\ initialised = FALSE
    /\ known = FALSE /\ requestedOn = TRUE
    /\ pending = FALSE /\ elapsed = FALSE /\ blanked = FALSE
    /\ wakeKey = None /\ down = {} /\ waking = {}
    /\ lamp \in BOOLEAN /\ failedOn = ~lamp
    /\ events = 0 /\ changes = 0 /\ failures = 0
    /\ reached = Nothing

------------------------------------------------------------------------------
(* The hardware                                                              *)

Succeeds(on) ==
    /\ lamp' = on
    /\ failedOn' = (failedOn /\ ~on)
    /\ UNCHANGED failures

\* One of several commands fails, with or without the effect of the others.
Fails(on) ==
    /\ lamp' \in {lamp, on}
    /\ failedOn' = (failedOn \/ on)
    /\ failures < MaxFailures /\ failures' = failures + 1

(* applyBacklight(enabled).  That it returns TRUE does not mean it worked: a     *)
(* failed DDC/CI power-on is only logged, so is a power-off after the brightness  *)
(* command, and a sysfs write may fail when the file is closed.               *)
ApplyBacklight(on, returned) == Fails(on) \/ (returned /\ Succeeds(on))

LeaveBacklight == UNCHANGED <<lamp, failures, failedOn>>

------------------------------------------------------------------------------
(* Clockwork                                                                 *)

ConnectionChanges ==
    /\ changes < MaxChanges \/ ~connected
    /\ changes' = IF connected THEN changes + 1 ELSE changes
    /\ connected' = ~connected
    /\ reached' = Nothing
    /\ UNCHANGED <<initialised, requestVars, blanked, inputVars>> /\ LeaveBacklight

\* A value of backlight_control_point, from a refresh or an UPDATE message.
PointArrives(on) ==
    /\ connected
    /\ known' = TRUE /\ requestedOn' = on
    /\ reached' = Nothing
    /\ UNCHANGED <<connected, initialised, inputVars>>

RequestUnchanged(on) ==
    /\ PointArrives(on)
    /\ known /\ requestedOn = on
    /\ UNCHANGED <<pending, elapsed, blanked, changes>> /\ LeaveBacklight

RequestChanges(on) ==
    /\ PointArrives(on)
    /\ ~(known /\ requestedOn = on)
    /\ changes < MaxChanges /\ changes' = changes + 1

RequestOn ==
    /\ RequestChanges(TRUE)
    /\ pending' = FALSE /\ elapsed' = FALSE /\ blanked' = FALSE
    /\ \E returned \in BOOLEAN : ApplyBacklight(TRUE, returned)

\* A fault: an off request is not timed while the display is dark.
OffIfLit ==
    /\ RequestChanges(FALSE)
    /\ pending' = lamp /\ elapsed' = FALSE
    /\ UNCHANGED blanked /\ LeaveBacklight

RequestOff ==
    /\ RequestChanges(FALSE)
    /\ pending' = TRUE /\ elapsed' = FALSE
    /\ UNCHANGED blanked /\ LeaveBacklight

UpdateBacklightRequest == RequestOn \/ RequestOff \/ \E on \in BOOLEAN : RequestUnchanged(on)

\* The delay counts from the request, the wake or the last press.
DelayElapses ==
    /\ pending /\ ~elapsed
    /\ elapsed' = TRUE
    /\ reached' = Nothing
    /\ UNCHANGED <<connected, initialised, known, requestedOn, pending, blanked>>
    /\ UNCHANGED <<inputVars, changes>> /\ LeaveBacklight

ProcessTimeout ==
    /\ connected
    /\ initialised' = TRUE
    /\ reached' = Nothing
    /\ UNCHANGED <<connected, known, requestedOn, inputVars, changes>>

\* A restarted display is lit first; with a delay of zero it may be blanked next.
LightDisplay ==
    /\ ProcessTimeout
    /\ ~initialised
    /\ blanked' = FALSE
    /\ \E returned \in BOOLEAN : ApplyBacklight(TRUE, returned)
    /\ UNCHANGED <<pending, elapsed>>

\* A fault: the display counts as blanked only if the command succeeded.
BlankIfApplied ==
    /\ ProcessTimeout
    /\ initialised /\ pending /\ elapsed
    /\ pending' = FALSE /\ elapsed' = FALSE
    /\ \E returned \in BOOLEAN : ApplyBacklight(FALSE, returned) /\ blanked' = returned

\* Blanked even if the command failed, so that the wake path is taken.
BlankDisplay ==
    /\ ProcessTimeout
    /\ initialised /\ pending /\ elapsed
    /\ pending' = FALSE /\ elapsed' = FALSE
    /\ blanked' = TRUE
    /\ \E returned \in BOOLEAN : ApplyBacklight(FALSE, returned)

NothingDue ==
    /\ ProcessTimeout
    /\ initialised /\ ~(pending /\ elapsed)
    /\ UNCHANGED <<pending, elapsed, blanked>> /\ LeaveBacklight

ProcessBacklightTimeout == LightDisplay \/ BlankDisplay \/ NothingDue

------------------------------------------------------------------------------
(* The operator                                                              *)

PassOn(input, kind) == reached' = <<input, kind>>
Swallow == reached' = Nothing

\* A fault: the delay runs on whatever the operator does.
ActivityUnnoticed == UNCHANGED <<pending, elapsed, blanked>> /\ LeaveBacklight

\* noteBacklightOperatorActivity(), on a display that is not blanked.
NoteActivity == elapsed' = FALSE /\ UNCHANGED <<pending, blanked>> /\ LeaveBacklight

\* A fault: a display woken by the operator stays on.
WakeForGood ==
    /\ blanked
    /\ ApplyBacklight(TRUE, TRUE)
    /\ blanked' = FALSE /\ UNCHANGED <<pending, elapsed>>

\* tryWakeBlankedDisplay()
WakeDisplay ==
    /\ blanked
    /\ ApplyBacklight(TRUE, TRUE)
    /\ blanked' = FALSE /\ pending' = TRUE /\ elapsed' = FALSE

WakeFails ==
    /\ blanked
    /\ ApplyBacklight(TRUE, FALSE)
    /\ UNCHANGED <<pending, elapsed, blanked>>

Input ==
    /\ events < MaxEvents /\ events' = events + 1
    /\ UNCHANGED <<connected, initialised, known, requestedOn, changes>>

KeyDown(k) ==
    /\ Input
    /\ k \notin down /\ down' = down \cup {k}

\* A fault: the key that failed to wake the display goes on to the page.
WakingPressLeaks(k) ==
    /\ KeyDown(k)
    /\ \/ WakeDisplay /\ wakeKey' = k /\ Swallow
       \/ WakeFails /\ wakeKey' = None /\ PassOn(k, "press")
    /\ waking' = waking \cup {k}

WakingPress(k) ==
    /\ KeyDown(k)
    /\ \/ WakeDisplay /\ wakeKey' = k
       \/ WakeFails /\ wakeKey' = None
    /\ waking' = waking \cup {k}
    /\ Swallow

OrdinaryPress(k) ==
    /\ KeyDown(k)
    /\ ~blanked
    /\ NoteActivity
    /\ PassOn(k, "press")
    /\ UNCHANGED <<wakeKey, waking>>

\* Repeat and release are no activity; those of the wake key go no further.
HeldKey(k) ==
    /\ k \in down
    /\ UNCHANGED <<connected, initialised, requestVars, blanked, events, changes>>
    /\ LeaveBacklight

KeyRepeat(k) ==
    /\ HeldKey(k)
    /\ IF wakeKey = k THEN Swallow ELSE PassOn(k, "repeat")
    /\ UNCHANGED <<down, wakeKey, waking>>

KeyRelease(k) ==
    /\ HeldKey(k)
    /\ down' = down \ {k} /\ waking' = waking \ {k}
    /\ IF wakeKey = k
       THEN wakeKey' = None /\ Swallow
       ELSE PassOn(k, "release") /\ UNCHANGED wakeKey

\* A fault: the click that wakes the display is held like a key.
ClickHeldAsKey ==
    /\ Input
    /\ UNCHANGED <<down, waking>>
    /\ \/ WakeDisplay /\ Swallow /\ wakeKey' = Mouse
       \/ WakeFails /\ PassOn(Mouse, "press") /\ UNCHANGED wakeKey
       \/ ~blanked /\ NoteActivity /\ PassOn(Mouse, "press") /\ UNCHANGED wakeKey

\* A click that wakes the display goes no further; a failed wake lets it through.
MousePress ==
    /\ Input
    /\ UNCHANGED <<wakeKey, down, waking>>
    /\ \/ WakeDisplay /\ Swallow
       \/ WakeFails /\ PassOn(Mouse, "press")
       \/ ~blanked /\ NoteActivity /\ PassOn(Mouse, "press")

KeyboardEvent(k) == WakingPress(k) \/ OrdinaryPress(k) \/ KeyRepeat(k) \/ KeyRelease(k)

Next ==
    \/ ConnectionChanges \/ UpdateBacklightRequest
    \/ DelayElapses \/ ProcessBacklightTimeout
    \/ \E k \in Keys : KeyboardEvent(k)
    \/ MousePress

Spec == Init /\ [][Next]_vars

\* Time passes, and EditorGUI::update runs while a connection is ready.
FairSpec == Spec /\ WF_vars(DelayElapses) /\ WF_vars(LightDisplay \/ BlankDisplay)

------------------------------------------------------------------------------
(* Properties                                                                *)

(* An off request is never lost and never outlives its time: from its arrival    *)
(* until an on request, through every wake, the display is blanked or about to   *)
(* be, never both, and it is neither without one.                             *)
OffIsPursued ==
    /\ pending \/ blanked <=> known /\ ~requestedOn
    /\ ~(pending /\ blanked)

(* A dark display can be woken: it is blanked, or the last command to light it   *)
(* failed.  Failing to blank it never leaves it dark with the wake path closed;   *)
(* a failed wake does, if applyBacklight did not notice that it failed.          *)
DarkCanBeWoken == ~lamp => blanked \/ failedOn

(* Why: nothing is blanked before the display has been lit once.                *)
LitFirst == ~initialised => ~blanked

(* Only an off request that waits can be due.                                  *)
DueWaits == elapsed => pending

\* The inductive invariant behind the others.
IInv == TypeOK /\ OffIsPursued /\ DarkCanBeWoken /\ LitFirst /\ DueWaits

(* A press that meets a blanked display wakes it and does nothing else.  The one     *)
(* exception is a click whose wake command fails: it acts on the page, and leaves   *)
(* the display blanked, to be woken by the next.                               *)
PressOnlyWakes ==
    [][blanked /\ reached' # Nothing /\ reached'[2] = "press" =>
         reached'[1] = Mouse /\ blanked' /\ failedOn']_vars

(* Whatever keys, clicks, lost connections and failing commands do in between, the  *)
(* display is blanked only after a whole delay without a press, and every wake      *)
(* starts another.                                                           *)
Off == INSTANCE DelayedOff WITH
    mode <- IF ~known \/ requestedOn THEN "lit" ELSE IF blanked THEN "dark" ELSE "waiting",
    due <- elapsed,
    presses <- events
OffSpec == Off!Spec

(* An off request left alone blanks the display in the end, however often it was  *)
(* woken before.                                                             *)
OffBlanks == <>[](connected /\ known /\ ~requestedOn) => <>[]blanked

(* What keyboardEvent says: a key that met a blanked display is not delivered,   *)
(* nor its repeats and its release.                                          *)
WakeKeySwallowed == [][reached'[1] \notin waking]_vars

==============================================================================
