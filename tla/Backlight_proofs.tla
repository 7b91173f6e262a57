--------------------------- MODULE Backlight_proofs ---------------------------
(***************************************************************************)
(* Proofs about Backlight, for any keyboard and any number of events, changes  *)
(* and failed commands.                                                       *)
(***************************************************************************)
EXTENDS Backlight, TLAPS

USE InputsAssumption, BoundsAssumption

(* The conjuncts of TypeOK: switches, what the operator holds, and the counts.   *)
Switches ==
    {connected, initialised, known, requestedOn, pending, elapsed, blanked, lamp, failedOn}
        \subseteq BOOLEAN
Held ==
    /\ wakeKey \in Keys \cup {None}
    /\ down \subseteq Keys /\ waking \subseteq down
    /\ reached \in (Keys \cup {Mouse}) \X Kinds \cup {Nothing}
Counts == events \in 0..MaxEvents /\ changes \in 0..MaxChanges /\ failures \in 0..MaxFailures
Display == OffIsPursued /\ DarkCanBeWoken /\ LitFirst /\ DueWaits

LEMMA IInvParts ==
    /\ IInv <=> Switches /\ Held /\ Counts /\ Display
    /\ IInv' <=> Switches' /\ Held' /\ Counts' /\ Display'
BY DEF IInv, TypeOK, Switches, Held, Counts, Display

LEMMA InitIInv == Init => IInv
<1>1. Init => Switches
  BY DEF Init, Switches
<1>2. Init => Held
  BY DEF Init, Held
<1>3. Init => Counts
  BY DEF Init, Counts
<1>4. Init => Display
  BY DEF Init, Display, OffIsPursued, DarkCanBeWoken, LitFirst, DueWaits
<1> QED BY <1>1, <1>2, <1>3, <1>4, IInvParts

(* applyBacklight: after a command to light the display it is lit, or the command   *)
(* failed, noticed or not; the count of failures stays within its bound.        *)
LEMMA ApplyResult ==
    ASSUME Switches, Counts, NEW on \in BOOLEAN, NEW returned \in BOOLEAN,
           ApplyBacklight(on, returned)
    PROVE  /\ lamp' \in BOOLEAN /\ failedOn' \in BOOLEAN
           /\ failures' \in 0..MaxFailures
           /\ on => lamp' \/ failedOn'
<1>1. CASE Fails(on)
  BY <1>1 DEF Fails, Switches, Counts
<1>2. CASE Succeeds(on)
  BY <1>2 DEF Succeeds, Switches, Counts
<1> QED BY <1>1, <1>2 DEF ApplyBacklight

(* Points and the timeout: an off request is pending until it blanks.           *)
LEMMA ClockworkKeepsIInv ==
    ASSUME IInv, ConnectionChanges \/ UpdateBacklightRequest \/ DelayElapses
                 \/ ProcessBacklightTimeout
    PROVE  IInv'
<1> USE IInvParts, ApplyResult
<1>0. Switches /\ Held /\ Counts /\ Display
  OBVIOUS
<1>1. CASE ConnectionChanges
  BY <1>1 DEF ConnectionChanges, LeaveBacklight, requestVars, inputVars, Switches, Held,
     Counts, Display, OffIsPursued, DarkCanBeWoken, LitFirst, DueWaits
<1>2. ASSUME NEW on \in BOOLEAN, RequestUnchanged(on) PROVE IInv'
  BY <1>2 DEF RequestUnchanged, PointArrives, LeaveBacklight, inputVars, Switches, Held,
     Counts, Display, OffIsPursued, DarkCanBeWoken, LitFirst, DueWaits
<1>3. CASE RequestOn
  <2>1. PICK returned \in BOOLEAN : ApplyBacklight(TRUE, returned)
    BY <1>3 DEF RequestOn
  <2>2. /\ lamp' \in BOOLEAN /\ failedOn' \in BOOLEAN
        /\ failures' \in 0..MaxFailures /\ (lamp' \/ failedOn')
    BY <1>0, <2>1, ApplyResult
  <2>3. Switches'
    BY <1>0, <1>3, <2>2 DEF RequestOn, RequestChanges, PointArrives, Switches
  <2>6. Counts'
    BY <1>0, <1>3, <2>2 DEF RequestOn, RequestChanges, PointArrives, inputVars, Counts
  <2>4. Display'
    BY <1>3, <2>2 DEF RequestOn, RequestChanges, PointArrives, Display, OffIsPursued,
       DarkCanBeWoken, LitFirst, DueWaits
  <2>5. Held'
    BY <1>0, <1>3 DEF RequestOn, RequestChanges, PointArrives, inputVars, Held
  <2> QED BY <2>3, <2>4, <2>5, <2>6, IInvParts
<1>4. CASE RequestOff
  <2>1. Switches'
    BY <1>0, <1>4 DEF RequestOff, RequestChanges, PointArrives, LeaveBacklight, Switches
  <2>5. Counts'
    BY <1>0, <1>4 DEF RequestOff, RequestChanges, PointArrives, LeaveBacklight, inputVars, Counts
  <2>2. ~known \/ requestedOn
    BY <1>0, <1>4, Zenon DEF RequestOff, RequestChanges, Switches
  <2>3. Display'
    BY <1>0, <1>4, <2>2 DEF RequestOff, RequestChanges, PointArrives, LeaveBacklight,
       Display, OffIsPursued, DarkCanBeWoken, LitFirst, DueWaits
  <2>4. Held'
    BY <1>0, <1>4 DEF RequestOff, RequestChanges, PointArrives, inputVars, Held
  <2> QED BY <2>1, <2>3, <2>4, <2>5, IInvParts
<1>5. CASE DelayElapses
  BY <1>5 DEF DelayElapses, LeaveBacklight, inputVars, Switches, Held, Counts, Display,
     OffIsPursued, DarkCanBeWoken, LitFirst, DueWaits
<1>6. CASE LightDisplay
  <2>1. Switches' /\ Counts' /\ Display'
    BY <1>6 DEF LightDisplay, ProcessTimeout, inputVars, Switches, Counts, Display,
       OffIsPursued, DarkCanBeWoken, LitFirst, DueWaits
  <2>2. Held'
    BY <1>6 DEF LightDisplay, ProcessTimeout, inputVars, Held
  <2> QED BY <2>1, <2>2
<1>7. CASE BlankDisplay
  <2>1. Switches' /\ Counts' /\ Display'
    BY <1>7 DEF BlankDisplay, ProcessTimeout, inputVars, Switches, Counts, Display,
       OffIsPursued, DarkCanBeWoken, LitFirst, DueWaits
  <2>2. Held'
    BY <1>7 DEF BlankDisplay, ProcessTimeout, inputVars, Held
  <2> QED BY <2>1, <2>2
<1>8. CASE NothingDue
  BY <1>8 DEF NothingDue, ProcessTimeout, LeaveBacklight, inputVars, Switches, Held,
     Counts, Display, OffIsPursued, DarkCanBeWoken, LitFirst, DueWaits
<1> QED
  BY <1>1, <1>2, <1>3, <1>4, <1>5, <1>6, <1>7, <1>8
     DEF UpdateBacklightRequest, ProcessBacklightTimeout

(* What a press does to the display.                                          *)
LEMMA PressKeepsDisplay ==
    ASSUME IInv, Input, WakeDisplay \/ WakeFails \/ (~blanked /\ NoteActivity)
    PROVE  Switches' /\ Counts' /\ Display'
<1>1. Switches /\ Counts /\ Display
  BY IInvParts
<1>2. events' \in 0..MaxEvents
  BY <1>1 DEF Input, Counts
<1>3. CASE WakeDisplay \/ WakeFails
  <2>1. PICK returned \in BOOLEAN : ApplyBacklight(TRUE, returned)
    BY <1>3 DEF WakeDisplay, WakeFails
  <2>2. /\ lamp' \in BOOLEAN /\ failedOn' \in BOOLEAN
        /\ failures' \in 0..MaxFailures /\ (lamp' \/ failedOn')
    BY <1>1, <2>1, ApplyResult
  <2>3. Switches'
    BY <1>1, <1>3, <2>2 DEF Input, WakeDisplay, WakeFails, Switches
  <2>4. Counts'
    BY <1>1, <1>2, <2>2 DEF Input, Counts
  <2>5. DarkCanBeWoken' /\ LitFirst'
    BY <1>1, <1>3, <2>2 DEF Input, WakeDisplay, WakeFails, Display, DarkCanBeWoken, LitFirst
  <2>6. OffIsPursued'
    <3>1. CASE WakeDisplay
      BY <1>1, <3>1 DEF Input, WakeDisplay, Display, OffIsPursued
    <3>2. CASE WakeFails
      BY <1>1, <3>2 DEF Input, WakeFails, Display, OffIsPursued
    <3> QED BY <1>3, <3>1, <3>2
  <2>7. DueWaits'
    <3>1. CASE WakeDisplay
      BY <3>1 DEF WakeDisplay, DueWaits
    <3>2. CASE WakeFails
      BY <1>1, <3>2 DEF WakeFails, Display, DueWaits
    <3> QED BY <1>3, <3>1, <3>2
  <2> QED BY <2>3, <2>4, <2>5, <2>6, <2>7 DEF Display
<1>4. CASE ~blanked /\ NoteActivity
  <2>1. Switches'
    BY <1>1, <1>4 DEF Input, NoteActivity, LeaveBacklight, Switches
  <2>2. Counts'
    BY <1>1, <1>2, <1>4 DEF Input, NoteActivity, LeaveBacklight, Counts
  <2>3. Display'
    BY <1>1, <1>4 DEF Input, NoteActivity, LeaveBacklight, Display, OffIsPursued,
       DarkCanBeWoken, LitFirst, DueWaits
  <2> QED BY <2>1, <2>2, <2>3
<1> QED BY <1>3, <1>4

LEMMA OperatorKeepsIInv ==
    ASSUME IInv, (\E k \in Keys : KeyboardEvent(k)) \/ MousePress
    PROVE  IInv'
<1> USE IInvParts
<1>1. ASSUME NEW k \in Keys, WakingPress(k) PROVE IInv'
  <2>1. Switches' /\ Counts' /\ Display'
    BY <1>1, PressKeepsDisplay DEF WakingPress, KeyDown
  <2>2. Held'
    BY <1>1 DEF WakingPress, KeyDown, Swallow, Held
  <2> QED BY <2>1, <2>2
<1>2. ASSUME NEW k \in Keys, OrdinaryPress(k) PROVE IInv'
  <2>1. Switches' /\ Counts' /\ Display'
    BY <1>2, PressKeepsDisplay DEF OrdinaryPress, KeyDown
  <2>2. Held'
    BY <1>2 DEF OrdinaryPress, KeyDown, PassOn, Held, Kinds
  <2> QED BY <2>1, <2>2
<1>3. ASSUME NEW k \in Keys, KeyRepeat(k) \/ KeyRelease(k) PROVE IInv'
  <2>1. Switches' /\ Counts' /\ Display'
    BY <1>3 DEF KeyRepeat, KeyRelease, HeldKey, LeaveBacklight, requestVars, Switches,
       Counts, Display, OffIsPursued, DarkCanBeWoken, LitFirst, DueWaits
  <2>2. Held'
    BY <1>3 DEF KeyRepeat, KeyRelease, HeldKey, Swallow, PassOn, Held, Kinds
  <2> QED BY <2>1, <2>2
<1>4. CASE MousePress
  <2>1. Switches' /\ Counts' /\ Display'
    BY <1>4, PressKeepsDisplay DEF MousePress
  <2>2. Held'
    BY <1>4 DEF MousePress, Swallow, PassOn, Held, Kinds
  <2> QED BY <2>1, <2>2
<1> QED BY <1>1, <1>2, <1>3, <1>4 DEF KeyboardEvent

(* IInv is inductive, hence an invariant of every behaviour.                   *)
THEOREM Invariance == Spec => []IInv
<1>1. IInv /\ [Next]_vars => IInv'
  <2> SUFFICES ASSUME IInv, [Next]_vars PROVE IInv'
    OBVIOUS
  <2>1. CASE UNCHANGED vars
    BY <2>1, IInvParts DEF vars, requestVars, inputVars, Switches, Held, Counts, Display,
       OffIsPursued, DarkCanBeWoken, LitFirst, DueWaits
  <2>2. CASE Next
    BY <2>2, ClockworkKeepsIInv, OperatorKeepsIInv DEF Next
  <2> QED BY <2>1, <2>2
<1> QED BY InitIInv, <1>1, PTL DEF Spec

(* Every variable keeps its type.                                             *)
THEOREM TypeCorrect == Spec => []TypeOK
<1>1. IInv => TypeOK
  BY DEF IInv
<1> QED BY Invariance, <1>1, PTL

(* updateBacklightRequest, tryWakeBlankedDisplay, processBacklightTimeout: from   *)
(* its arrival until an on request, an off request is either timed or in effect. *)
THEOREM OffRequestsArePursued == Spec => []OffIsPursued
<1>1. IInv => OffIsPursued
  BY DEF IInv
<1> QED BY Invariance, <1>1, PTL

(* applyBacklight and its callers: a dark display has a wake path, unless the last  *)
(* command to light it failed, whether applyBacklight noticed or not.           *)
THEOREM DarkDisplaysCanBeWoken == Spec => []DarkCanBeWoken
<1>1. IInv => DarkCanBeWoken
  BY DEF IInv
<1> QED BY Invariance, <1>1, PTL

(* keyboardEvent and mouseButtonEvent: a press that meets a blanked display reaches *)
(* no widget, but for a click that could not wake it.                          *)
THEOREM PressesOnlyWakeBlankedDisplay == Spec => PressOnlyWakes
<1> DEFINE Acts == blanked /\ reached' # Nothing /\ reached'[2] = "press"
           Excused == reached'[1] = Mouse /\ blanked' /\ failedOn'
<1>1. ASSUME Next, Acts PROVE Excused
  <2>1. ASSUME NEW k \in Keys, KeyRepeat(k) \/ KeyRelease(k) PROVE FALSE
    <3>1. reached' = <<k, "repeat">> \/ reached' = <<k, "release">>
      BY <1>1, <2>1 DEF KeyRepeat, KeyRelease, Swallow, PassOn
    <3> QED BY <1>1, <3>1
  <2>2. ASSUME NEW k \in Keys, WakingPress(k) \/ OrdinaryPress(k) PROVE FALSE
    BY <1>1, <2>2 DEF WakingPress, OrdinaryPress, Swallow
  <2>3. CASE MousePress
    <3>1. WakeFails /\ reached' = <<Mouse, "press">>
      BY <1>1, <2>3 DEF MousePress, Swallow, PassOn
    <3> QED BY <3>1 DEF WakeFails, ApplyBacklight, Fails
  <2>4. CASE ~MousePress /\ ~\E k \in Keys : KeyboardEvent(k)
    BY <1>1, <2>4 DEF Next, ConnectionChanges, UpdateBacklightRequest, RequestOn, RequestOff,
       RequestUnchanged, RequestChanges, PointArrives, DelayElapses, ProcessBacklightTimeout,
       LightDisplay, BlankDisplay, NothingDue, ProcessTimeout
  <2> QED BY <2>1, <2>2, <2>3, <2>4 DEF KeyboardEvent
<1>2. [Next]_vars => [Acts => Excused]_vars
  BY <1>1
<1> QED BY <1>2, PTL DEF Spec, PressOnlyWakes

------------------------------------------------------------------------------
(* The promise to the point                                                  *)

(* The refinement mapping.                                                    *)
Mode == IF ~known \/ requestedOn THEN "lit" ELSE IF blanked THEN "dark" ELSE "waiting"

(* Every step is one of the promise, or does not concern it.                    *)
LEMMA OffStep == ASSUME IInv, [Next]_vars PROVE [Off!Next]_(Off!offVars)
<1>0. /\ Switches /\ OffIsPursued /\ LitFirst /\ DueWaits
  BY IInvParts DEF Display
<1>1. ASSUME Mode' = Mode, elapsed' = elapsed, events' = events
      PROVE  [Off!Next]_(Off!offVars)
  BY <1>1 DEF Mode, Off!offVars
<1>2. CASE UNCHANGED vars
  BY <1>1, <1>2 DEF vars, requestVars, inputVars, Mode
<1>3. CASE ConnectionChanges
  BY <1>1, <1>3 DEF ConnectionChanges, requestVars, inputVars, Mode
<1>4. ASSUME NEW on \in BOOLEAN, RequestUnchanged(on) PROVE [Off!Next]_(Off!offVars)
  BY <1>1, <1>4 DEF RequestUnchanged, PointArrives, inputVars, Mode
<1>5. CASE RequestOn
  BY <1>5 DEF RequestOn, RequestChanges, PointArrives, inputVars, Off!Next, Off!On
<1>6. CASE RequestOff
  <2>1. Mode = "lit" /\ ~blanked
    BY <1>0, <1>6, Zenon DEF RequestOff, RequestChanges, Mode, Switches, OffIsPursued
  <2>2. Mode' = "waiting" /\ elapsed' = FALSE /\ events' = events
    BY <1>6, <2>1 DEF RequestOff, RequestChanges, PointArrives, inputVars, Mode
  <2> QED BY <2>1, <2>2 DEF Off!Next, Off!Off, Mode
<1>7. CASE DelayElapses
  <2>1. Mode = "waiting" /\ Mode' = Mode /\ elapsed' = TRUE /\ events' = events
    BY <1>0, <1>7 DEF DelayElapses, inputVars, Mode, OffIsPursued
  <2> QED BY <2>1 DEF Off!Next, Off!Elapse, Mode
<1>8. CASE LightDisplay
  BY <1>0, <1>1, <1>8 DEF LightDisplay, ProcessTimeout, inputVars, Mode, LitFirst
<1>9. CASE BlankDisplay
  <2>1. Mode = "waiting" /\ elapsed
    BY <1>0, <1>9 DEF BlankDisplay, Mode, OffIsPursued
  <2>2. Mode' = "dark" /\ elapsed' = FALSE /\ events' = events
    BY <1>9, <2>1 DEF BlankDisplay, ProcessTimeout, inputVars, Mode
  <2> QED BY <2>1, <2>2 DEF Off!Next, Off!Blank, Mode
<1>10. CASE NothingDue
  BY <1>1, <1>10 DEF NothingDue, ProcessTimeout, inputVars, Mode
<1>11. ASSUME NEW k \in Keys, KeyRepeat(k) \/ KeyRelease(k)
       PROVE  [Off!Next]_(Off!offVars)
  BY <1>1, <1>11 DEF KeyRepeat, KeyRelease, HeldKey, requestVars, Mode
<1>12. ASSUME Input, WakeDisplay \/ WakeFails \/ (~blanked /\ NoteActivity)
       PROVE  [Off!Next]_(Off!offVars)
  <2>1. events' = events + 1 /\ known' = known /\ requestedOn' = requestedOn
    BY <1>12 DEF Input
  <2>2. elapsed' = FALSE
    <3>1. CASE WakeFails
      BY <1>0, <3>1 DEF WakeFails, OffIsPursued, DueWaits, Switches
    <3> QED BY <1>12, <3>1 DEF WakeDisplay, NoteActivity
  <2>3. Mode' = Mode \/ (Mode = "dark" /\ Mode' = "waiting")
    <3>1. CASE WakeDisplay
      BY <2>1, <3>1 DEF WakeDisplay, Mode
    <3>2. CASE blanked' = blanked
      BY <2>1, <3>2 DEF Mode
    <3> QED BY <1>12, <3>1, <3>2 DEF WakeFails, NoteActivity
  <2> QED BY <2>1, <2>2, <2>3 DEF Off!Next, Off!Press, Mode
<1>13. ASSUME NEW k \in Keys, KeyboardEvent(k) PROVE [Off!Next]_(Off!offVars)
  BY <1>11, <1>12, <1>13 DEF KeyboardEvent, WakingPress, OrdinaryPress, KeyDown
<1>14. CASE MousePress
  BY <1>12, <1>14 DEF MousePress
<1> QED BY <1>2, <1>3, <1>4, <1>5, <1>6, <1>7, <1>8, <1>9, <1>10, <1>13, <1>14
        DEF Next, UpdateBacklightRequest, ProcessBacklightTimeout

(* updateBacklightRequest, noteBacklightOperatorActivity, tryWakeBlankedDisplay and   *)
(* processBacklightTimeout together keep the promise of a delayed off.            *)
THEOREM KeepsDelayedOff == Spec => OffSpec
<1>1. Init => Off!Init
  BY DEF Init, Off!Init
<1>2. IInv /\ [Next]_vars => [Off!Next]_(Off!offVars)
  BY OffStep
<1> QED BY <1>1, <1>2, Invariance, PTL DEF Spec, OffSpec, Off!Spec
==============================================================================
