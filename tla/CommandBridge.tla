---------------------------- MODULE CommandBridge ----------------------------
(***************************************************************************)
(* What a SubscriptionManager promises the thread that queues operator     *)
(* commands on its in-process REQ/REP pair, with the session behind it      *)
(* reduced to "ready or not".  Requests are numbered in the order they are  *)
(* made.  A request is either refused at once or taken over, one at a time  *)
(* and only while the session is ready; a request taken over is answered    *)
(* exactly once, by the reply to itself or by a negative answer.  Answering  *)
(* may cost the session but never brings it back.                           *)
(***************************************************************************)
EXTENDS Naturals, Sequences

CONSTANT NumCommands     \* a natural number: requests made in all

VARIABLES
    ready,    \* the session carries commands (setup status e_done)
    asked,    \* number of requests made so far
    inbox,    \* requests waiting at the REP socket
    serving,  \* the request taken over and not answered yet, 0 if none
    outcome   \* what each request was answered

bridgeVars == <<ready, asked, inbox, serving, outcome>>

Commands == 1..NumCommands
Refusals == {"failed"}
Completions == {"own", "timeout", "disconnected"}
Outcomes == {"none"} \cup Refusals \cup Completions

Init ==
    /\ ready = FALSE
    /\ asked = 0
    /\ inbox = <<>>
    /\ serving = 0
    /\ outcome = [c \in Commands |-> "none"]

Ask ==
    /\ asked < NumCommands
    /\ asked' = asked + 1
    /\ inbox' = Append(inbox, asked + 1)
    /\ UNCHANGED <<ready, serving, outcome>>

Accept ==
    /\ serving = 0
    /\ inbox # <<>>
    /\ ready /\ ready' = ready
    /\ serving' = Head(inbox)
    /\ inbox' = Tail(inbox)
    /\ UNCHANGED <<asked, outcome>>

Refuse ==
    /\ serving = 0
    /\ inbox # <<>>
    /\ \E r \in Refusals : outcome' = [outcome EXCEPT ![Head(inbox)] = r]
    /\ inbox' = Tail(inbox)
    /\ ready' \in {FALSE, ready}
    /\ UNCHANGED <<asked, serving>>

Complete ==
    /\ serving # 0
    /\ \E r \in Completions : outcome' = [outcome EXCEPT ![serving] = r]
    /\ serving' = 0
    /\ ready' \in {FALSE, ready}
    /\ UNCHANGED <<asked, inbox>>

SessionChanges ==
    /\ ready' \in BOOLEAN
    /\ UNCHANGED <<asked, inbox, serving, outcome>>

Next == Ask \/ Accept \/ Refuse \/ Complete \/ SessionChanges

Spec == Init /\ [][Next]_bridgeVars

------------------------------------------------------------------------------
(* What the thread that asks may rely on                                     *)

(* The requests made are, in this order: those answered, the one taken over, and *)
(* those that wait at the socket.  None is lost and none is there twice.        *)
Answered == IF serving = 0 THEN asked - Len(inbox) ELSE asked - Len(inbox) - 1
Accounted ==
    /\ Answered \in 0..asked
    /\ serving \in {0, asked - Len(inbox)}
    /\ \A i \in 1..Len(inbox) : inbox[i] = asked - Len(inbox) + i
    /\ \A c \in Commands : outcome[c] # "none" <=> c <= Answered

(* A request is answered once: an answer given is never replaced by another.    *)
AnswersAreFinal ==
    [][\A c \in Commands : outcome[c] # "none" => outcome'[c] = outcome[c]]_bridgeVars
==============================================================================
