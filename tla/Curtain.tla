-------------------------------- MODULE Curtain --------------------------------
(***************************************************************************)
(* What the overlay promises the operator: a curtain before pages that may      *)
(* show values from before a gap.  It is drawn for a gap only, takes a press     *)
(* with it, and opens only when SettleFrames frames were painted behind it since, *)
(* each while the page then selected was there, or after the fixed time without  *)
(* another gap.  Which page that is may change in between: the count goes on.    *)
(***************************************************************************)
EXTENDS Naturals

CONSTANTS
    SettleFrames,   \* a positive number
    AtOnce          \* the fixed time is zero

VARIABLES
    drawn,    \* the curtain covers the page
    stale,    \* no page was let through yet since the last gap
    seen,     \* frames painted behind it with the selected page there, up to SettleFrames
    waited,   \* the fixed time has passed since the last gap
    pressed   \* the operator holds a widget of the page

curtainVars == <<drawn, stale, seen, waited, pressed>>

Init == drawn = FALSE /\ stale = TRUE /\ seen = 0 /\ waited = FALSE /\ pressed = FALSE

Draw == drawn' = TRUE /\ pressed' = FALSE
Leave == UNCHANGED <<drawn, pressed>>

Gap ==
    /\ stale' = TRUE /\ seen' = 0 /\ waited' = FALSE
    /\ Draw \/ Leave

Cover ==
    /\ stale /\ Draw
    /\ seen' \in {seen, 0}
    /\ UNCHANGED <<stale, waited>>

PageGoes == seen' = 0 /\ Leave /\ UNCHANGED <<stale, waited>>

PaintBehind ==
    /\ drawn
    /\ seen' = IF seen < SettleFrames THEN seen + 1 ELSE seen
    /\ stale' = (stale /\ seen' < SettleFrames)
    /\ drawn' = TRUE \/ (drawn' = FALSE /\ ~stale')
    /\ UNCHANGED <<waited, pressed>>

TimePasses == waited' = TRUE /\ Leave /\ UNCHANGED <<stale, seen>>

OpenInTime ==
    /\ waited \/ AtOnce
    /\ drawn' = FALSE /\ stale' = FALSE /\ waited' = TRUE
    /\ UNCHANGED <<seen, pressed>>

Press == ~drawn /\ pressed' = TRUE /\ UNCHANGED <<drawn, stale, seen, waited>>
LetGo == pressed' = FALSE /\ UNCHANGED <<drawn, stale, seen, waited>>

Next == Gap \/ Cover \/ PageGoes \/ PaintBehind \/ TimePasses \/ OpenInTime \/ Press \/ LetGo

Spec == Init /\ [][Next]_curtainVars
==============================================================================
