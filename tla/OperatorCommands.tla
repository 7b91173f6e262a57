--------------------------- MODULE OperatorCommands ---------------------------
(***************************************************************************)
(* What a Connection promises the operator's messages, whatever happens to    *)
(* sessions, sockets and answers below it.  Messages are numbered as they are  *)
(* made.  Only the oldest that waits is put on the command path, again if need *)
(* be; it is done with, and its callback run, only after an answer to it.      *)
(* Nothing else takes a message out of the queue but the loss of the session,  *)
(* which takes all of them.                                                  *)
(***************************************************************************)
EXTENDS Naturals

CONSTANT MaxPresses   \* a natural number: messages made in all

VARIABLES
    made,      \* number of messages made so far
    waiting,   \* those neither done with nor lost
    sent,      \* those that were put on the command path
    answered   \* those the command path has answered

operatorVars == <<made, waiting, sent, answered>>

Oldest(m) == m \in waiting /\ \A n \in waiting : m <= n

Init == made = 0 /\ waiting = {} /\ sent = {} /\ answered = {}

Make ==
    /\ made < MaxPresses
    /\ made' = made + 1
    /\ waiting' = waiting \cup {made + 1}
    /\ UNCHANGED <<sent, answered>>

Send ==
    /\ \E m \in waiting : Oldest(m) /\ sent' = sent \cup {m}
    /\ UNCHANGED <<made, waiting, answered>>

Answer ==
    /\ \E m \in sent : answered' = answered \cup {m}
    /\ UNCHANGED <<made, waiting, sent>>

Finish ==
    /\ \E m \in waiting \cap answered : Oldest(m) /\ waiting' = waiting \ {m}
    /\ UNCHANGED <<made, sent, answered>>

LoseAll ==
    /\ waiting' = {}
    /\ UNCHANGED <<made, sent, answered>>

Next == Make \/ Send \/ Answer \/ Finish \/ LoseAll

Spec == Init /\ [][Next]_operatorVars
==============================================================================
