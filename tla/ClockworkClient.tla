----------------------------- MODULE ClockworkClient -----------------------------
(***************************************************************************)
(* A Connection on its SubscriptionManager: ClockworkClient::idle in the GUI    *)
(* thread with the real checkConnections in place of the command bridge that     *)
(* stands for it in ClockworkConnection.  The thread is in idle at "at" and, in   *)
(* the steps "serve" and "respond", inside checkConnections at pc.  The monitor   *)
(* thread of the setup socket notes an event for the SubscriptionManager first   *)
(* and runs the responder of the Connection some time after.                    *)
(***************************************************************************)
EXTENDS Integers, SubscriptionManager

CONSTANT MaxPresses  \* bound on operator messages

ASSUME PressesAssumption == MaxPresses \in Nat

VARIABLES
    startup, needsRefresh, wasReady, recent, messages, interface, mine, aged,
    working, checked, presses, since, dropped, snapshot, carried, \* see ClockworkConnection
    at,         \* where the GUI thread is in idle: pc of ClockworkConnection
    events,     \* monitor events whose responder has not run yet
    early       \* timers that ran out before what they wait for, and spells of edit mode

Link == INSTANCE ClockworkConnection WITH
    ready <- sm.status = "done",
    pc <- at,
    faults <- 0, MaxFaults <- -1

connectionVars == <<startup, needsRefresh, wasReady, recent, messages, interface, mine, aged,
                    working, checked, presses, since, dropped, snapshot, carried>>
clientVars == <<vars, connectionVars, at, events, early>>

ClientInit == Init /\ Link!Init /\ events = {} /\ early = 0

------------------------------------------------------------------------------
(* checkConnections                                                          *)

Unmoved == UNCHANGED <<connectionVars, at>>

IdleChecks ==
    /\ CheckConnections \/ CheckTooEarly
    /\ IF pc = "check" THEN Link!CheckConnections ELSE Unmoved
    /\ UNCHANGED events

IdlePolls ==
    /\ at = "serve"
    /\ \/ (LegDownNotPolled \/ PollFails) /\ Link!Return(FALSE)
       \/ TestSubscriberPolled /\ Unmoved
       \/ \E traffic \in BOOLEAN :
             Poll(traffic) /\ IF pc' = "check" THEN Link!Return(TRUE) ELSE Unmoved
    /\ UNCHANGED events

IdleAccepts ==
    /\ NoCommand \/ ForwardCommand \/ RefuseCommand
    /\ Link!Serve
    /\ UNCHANGED events

\* A REQ socket replaced while the SUB socket is kept reports its own connection.
IdleResponds ==
    /\ \/ RespondDisconnected \/ RespondReply \/ RespondOutOfBand
       \/ RespondTimeout \/ RespondNothing
    /\ Link!Respond
    /\ events' = IF ~sm.recent /\ sm'.recent /\ sm'.setupUp THEN events \cup {"connected"} ELSE events

------------------------------------------------------------------------------
(* The rest of idle                                                          *)

IdleFollows ==
    /\ UNCHANGED <<vars, events>>
    /\ \/ Link!OnChannelLost \/ Link!StillLost \/ Link!OnChannelBecameReady \/ Link!StillReady
       \/ Link!Update
       \/ Link!LocalTimeout \/ Link!ReceiveSnapshot \/ Link!ReceiveNoSnapshot
       \/ Link!ReceiveAcknowledgement \/ Link!NothingToSend

IdleSends == Ask /\ Link!Send /\ UNCHANGED events

IdleSubscribes ==
    /\ at = "subscriber" /\ at' = "check"
    /\ SubscriberTorn \/ UNCHANGED vars
    /\ UNCHANGED <<connectionVars, events>>

Idle ==
    /\ \/ IdleChecks \/ IdlePolls \/ IdleAccepts \/ IdleResponds
       \/ IdleFollows \/ IdleSends \/ IdleSubscribes
    /\ UNCHANGED early

------------------------------------------------------------------------------
(* Around idle                                                               *)

Early == early' = early + 1
Noted(new) == events' = events \cup new /\ Unmoved

MonitorConnects == SetupConnected /\ Noted({"connected"}) /\ UNCHANGED early
MonitorDisconnects == SetupDropped /\ Noted({"disconnected"}) /\ UNCHANGED early

Elsewhere ==
    /\ \/ SubscriberConnected \/ SubscriberDropped
       \/ GrantChannel \/ RejectChannel \/ AnswerCommand
       \/ StateAges \/ RateLimitExpires
    /\ Noted({}) /\ UNCHANGED early

\* The answer to the command under way is neither here nor to come.
Overdue == ~(sm.setupUp /\ sm.req # "lost" /\ sm.for = serving)

ForwardedCommandAges ==
    /\ CommandAges /\ Noted({})
    /\ IF Overdue THEN UNCHANGED early ELSE Early

\* SetupConnectMonitor and SetupDisconnectMonitor.
Responder(e) ==
    /\ e \in events /\ events' = events \ {e}
    /\ needsRefresh' = (needsRefresh \/ e = "connected" \/ sm.status = "done" \/ wasReady)
    /\ UNCHANGED <<vars, recent, messages, aged, working, presses, early>>
    /\ Link!Outside

AtTheDesk ==
    /\ UNCHANGED <<vars, events>>
    /\ \/ (Link!QueueMessage \/ Link!SecondPasses) /\ UNCHANGED early
       \/ Link!SetGuiState /\ IF working THEN Early ELSE UNCHANGED early
       \/ Link!LocalCommandAges /\ Early

\* Faults and early timers share one bound.
ClientNext ==
    /\ \/ Idle
       \/ MonitorConnects \/ MonitorDisconnects \/ Elsewhere \/ ForwardedCommandAges
       \/ \E e \in events : Responder(e)
       \/ AtTheDesk
    /\ faults' + early' <= MaxFaults

ClientSpec == ClientInit /\ [][ClientNext]_clientVars

------------------------------------------------------------------------------
(* Properties                                                                *)

(* The Connection sees of its SubscriptionManager what the command bridge allows,  *)
(* so that all that is shown of a Connection on the bridge holds on the real one.   *)
LinkSpec == Link!Spec

(* The SubscriptionManager is used as its specification says: commands come between  *)
(* two passes of checkConnections, with the session up.                          *)
ManagerSpec == Spec

(* idle is inside checkConnections exactly in its steps "serve" and "respond"; past  *)
(* the edge of a pass the session is still up, although the monitor thread, the      *)
(* callbacks and the widgets ran in between; and what a pass polled of the command   *)
(* socket still holds when it reads it.                                          *)
InStep ==
    /\ at = "respond" <=> pc = "respond"
    /\ at \notin {"serve", "respond"} <=> pc = "check"
    /\ at \in {"update", "command"} => sm.status = "done"
    /\ pc = "accept" => ("cmd" \in readable <=> serving = 0 /\ inbox # <<>>)

(* What the Connection is shown to keep on the bridge (ClockworkConnection), kept on  *)
(* the real SubscriptionManager.                                              *)
ConnectionSafe ==
    /\ Link!RefreshQueued /\ Link!SnapshotIsCurrent
    /\ Link!InFlightIsHead /\ Link!CommandsInOrder
==============================================================================
