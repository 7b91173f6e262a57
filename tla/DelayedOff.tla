------------------------------ MODULE DelayedOff ------------------------------
(***************************************************************************)
(* What the backlight promises the point that asks for it.  A request to go    *)
(* off takes effect when its delay has passed with no press in it, and stands   *)
(* until a request to be on: a press lights a dark display at most for another *)
(* whole delay.                                                              *)
(***************************************************************************)
EXTENDS Naturals

VARIABLES
    mode,     \* "lit", "waiting" for the delay of an off request, or "dark"
    due,      \* the delay has passed since the request or the last press
    presses   \* number of presses so far

offVars == <<mode, due, presses>>

Init == mode = "lit" /\ due = FALSE /\ presses = 0

On == mode' = "lit" /\ due' = FALSE /\ UNCHANGED presses

Off == mode = "lit" /\ mode' = "waiting" /\ due' = FALSE /\ UNCHANGED presses

Elapse == mode = "waiting" /\ due' = TRUE /\ UNCHANGED <<mode, presses>>

Blank == mode = "waiting" /\ due /\ mode' = "dark" /\ due' = FALSE /\ UNCHANGED presses

Press ==
    /\ presses' = presses + 1
    /\ due' = FALSE
    /\ \/ mode' = mode
       \/ mode = "dark" /\ mode' = "waiting"

Next == On \/ Off \/ Elapse \/ Blank \/ Press

Spec == Init /\ [][Next]_offVars
==============================================================================
