-------------------------- MODULE ClockworkConnection --------------------------
(***************************************************************************)
(* One ClockworkClient::Connection and what ClockworkClient::idle does with  *)
(* it in every pass of the GUI loop: drive the SubscriptionManager, act on   *)
(* the edges of "channel ready", run EditorGUI::update, which asks for the    *)
(* MODBUS REFRESH snapshot, and move operator messages over the in-process    *)
(* REQ socket.  The SubscriptionManager is represented by the command bridge  *)
(* it implements (CommandBridge): ready is "setup status is e_done".         *)
(*                                                                           *)
(* All of it runs in the GUI thread; the monitor threads only set            *)
(* needs_refresh, at any moment.                                             *)
(***************************************************************************)
EXTENDS Integers, Sequences

CONSTANTS
    NumCommands,    \* requests the model may make in all
    MaxPresses,     \* bound on operator messages
    MaxFaults       \* bound on lost sessions, bad answers, timeouts and spurious flags,
                    \* negative for none

ASSUME BoundsAssumption == NumCommands \in Nat /\ MaxPresses \in Nat /\ MaxFaults \in Int

VARIABLES
    ready, asked, inbox, serving, outcome, \* the bridge, see CommandBridge
    startup,      \* sINIT, sSENT, sRELOAD or sDONE: the state of the data snapshot
    needsRefresh, \* needs_refresh
    wasReady,     \* channel_was_ready
    recent,       \* the channel became ready less than a second ago
    messages,     \* queued messages: Refresh, or the number of an operator message
    interface,    \* cmd_interface exists
    mine,         \* the request the REQ socket waits for, 0 in WaitingCommand
    aged,         \* it has waited longer than local_command_timeout_us
    working,      \* the GUI is in GUIWORKING
    checked,      \* what checkConnections returned
    pc,           \* where the GUI thread is in idle
    presses, faults, \* bounds
    since,        \* history: last request made before the session was (re)opened
    dropped,      \* history: last operator message made before the session was lost
    snapshot,     \* history: the request whose answer was applied as snapshot
    carried       \* history: what each request carried

bridgeVars == <<ready, asked, inbox, serving, outcome>>
linkVars == <<startup, needsRefresh, wasReady, recent, messages, interface, mine, aged>>
guiVars == <<working, presses>>
historyVars == <<since, dropped, snapshot, carried>>
vars == <<bridgeVars, linkVars, guiVars, historyVars, checked, pc, faults>>

Refresh == 0
Waiting == mine # 0

Bridge == INSTANCE CommandBridge

\* The operator messages among those in requests S.
CarriedBy(S) == {carried[n] : n \in S} \ {Refresh}
Operator == INSTANCE OperatorCommands WITH
    made <- presses,
    waiting <- {messages[i] : i \in DOMAIN messages} \ {Refresh},
    sent <- CarriedBy(1..asked),
    answered <- CarriedBy({n \in 1..asked : outcome[n] # "none"})

TypeOK ==
    /\ ready \in BOOLEAN
    /\ asked \in 0..NumCommands
    /\ inbox \in Seq(1..NumCommands)
    /\ serving \in 0..NumCommands
    /\ outcome \in [1..NumCommands -> Bridge!Outcomes]
    /\ startup \in {"sINIT", "sSENT", "sRELOAD", "sDONE"}
    /\ messages \in Seq(0..MaxPresses)
    /\ mine \in 0..NumCommands
    /\ {needsRefresh, wasReady, recent, interface, aged, working, checked} \subseteq BOOLEAN
    /\ pc \in {"check", "serve", "respond", "edge", "update", "command", "subscriber"}
    /\ presses \in 0..MaxPresses
    /\ faults \in Nat
    /\ since \in 0..NumCommands /\ snapshot \in 0..NumCommands
    /\ dropped \in 0..MaxPresses
    /\ carried \in [1..NumCommands -> 0..MaxPresses]

Init ==
    /\ Bridge!Init
    /\ startup = "sINIT" /\ needsRefresh = FALSE
    /\ wasReady = FALSE /\ recent = FALSE
    /\ messages = <<>> /\ interface = FALSE /\ mine = 0 /\ aged = FALSE
    /\ working = TRUE
    /\ checked = FALSE /\ pc = "check"
    /\ presses = 0 /\ faults = 0
    /\ since = 0 /\ dropped = 0 /\ snapshot = 0
    /\ carried = [n \in 1..NumCommands |-> Refresh]

Fault ==
    IF MaxFaults < 0 THEN UNCHANGED faults ELSE faults < MaxFaults /\ faults' = faults + 1

------------------------------------------------------------------------------
(* The pass: checkConnections                                                *)

\* idle makes a missing REQ socket before anything else.
CheckConnections ==
    /\ pc = "check"
    /\ interface' = TRUE
    /\ pc' = "serve"
    /\ UNCHANGED <<bridgeVars, startup, needsRefresh, wasReady, recent, messages, mine, aged>>
    /\ UNCHANGED <<guiVars, historyVars, checked, faults>>

\* The drive of the handshake, before the poll.
DriveSession ==
    /\ pc = "serve"
    /\ Bridge!SessionChanges
    /\ UNCHANGED <<linkVars, guiVars, historyVars, checked, pc>>

SessionGained == DriveSession /\ ~ready /\ ready' /\ UNCHANGED faults
SessionLost   == DriveSession /\ ready /\ ~ready' /\ Fault

Return(returned) ==
    /\ checked' = returned
    /\ pc' = "edge"
    /\ UNCHANGED <<linkVars, guiVars, historyVars>>

\* What poll reports of the REP socket; one that owes an answer reports no request.
CommandReady == serving = 0 /\ inbox # <<>>

\* No socket has a message.
ServeNothing ==
    /\ pc = "serve" /\ ~CommandReady
    /\ Return(TRUE)
    /\ UNCHANGED <<bridgeVars, faults>>

\* zmq::poll throws or a connection dropped meanwhile: checkConnections returns
\* false, whatever the session is.
PollFails ==
    /\ pc = "serve" /\ Return(FALSE)
    /\ Fault
    /\ ready' \in {FALSE, ready}
    /\ UNCHANGED <<asked, inbox, serving, outcome>>

Serve ==
    /\ pc = "serve" /\ pc' = "respond"
    /\ UNCHANGED <<linkVars, guiVars, historyVars, checked>>

Take == Serve /\ Bridge!Accept /\ UNCHANGED faults
Refuse == Serve /\ Bridge!Refuse /\ IF ready THEN Fault ELSE UNCHANGED faults
NoCommand == Serve /\ ~CommandReady /\ UNCHANGED <<bridgeVars, faults>>

Respond == pc = "respond" /\ Return(TRUE)

Complete ==
    /\ Respond
    /\ Bridge!Complete
    /\ IF outcome'[serving] = "own" THEN ready' = ready /\ UNCHANGED faults ELSE Fault

RespondNothing == Respond /\ UNCHANGED <<bridgeVars, faults>>

\* An answer nobody waits for any more may cost the session.
RespondOutOfBand ==
    /\ Respond /\ Fault
    /\ serving = 0 /\ ready /\ ready' = FALSE
    /\ UNCHANGED <<asked, inbox, serving, outcome>>

------------------------------------------------------------------------------
(* The pass: edges of "channel ready"                                        *)

ReadyNow == checked /\ ready

\* resetCommandPath(): the REQ socket goes, and with it what it waited for.
ResetCommandPath(up) == interface' = up /\ mine' = 0 /\ aged' = FALSE

\* A fault: the command path is not torn down.
LostKeepingCommandPath ==
    /\ pc = "edge" /\ wasReady /\ ~ReadyNow
    /\ UNCHANGED <<interface, mine, aged>>
    /\ messages' = <<>>
    /\ wasReady' = FALSE
    /\ needsRefresh' = TRUE
    /\ startup' = "sINIT"
    /\ since' = asked /\ dropped' = presses
    /\ pc' = "check"
    /\ UNCHANGED <<bridgeVars, recent, guiVars, snapshot, carried, checked, faults>>

\* A fault: the queue survives the session.
LostKeepingMessages ==
    /\ pc = "edge" /\ wasReady /\ ~ReadyNow
    /\ ResetCommandPath(FALSE)
    /\ UNCHANGED messages
    /\ wasReady' = FALSE
    /\ needsRefresh' = TRUE
    /\ startup' = "sINIT"
    /\ since' = asked /\ dropped' = presses
    /\ pc' = "check"
    /\ UNCHANGED <<bridgeVars, recent, guiVars, snapshot, carried, checked, faults>>

\* A fault: data initialisation is not re-armed.
LostKeepingSnapshot ==
    /\ pc = "edge" /\ wasReady /\ ~ReadyNow
    /\ ResetCommandPath(FALSE)
    /\ messages' = <<>>
    /\ wasReady' = FALSE
    /\ UNCHANGED <<needsRefresh, startup>>
    /\ since' = asked /\ dropped' = presses
    /\ pc' = "check"
    /\ UNCHANGED <<bridgeVars, recent, guiVars, snapshot, carried, checked, faults>>

OnChannelLost ==
    /\ pc = "edge" /\ wasReady /\ ~ReadyNow
    /\ ResetCommandPath(FALSE)
    /\ messages' = <<>>
    /\ wasReady' = FALSE
    /\ needsRefresh' = TRUE
    /\ startup' = "sINIT"
    /\ since' = asked /\ dropped' = presses
    /\ pc' = "check"
    /\ UNCHANGED <<bridgeVars, recent, guiVars, snapshot, carried, checked, faults>>

StillLost ==
    /\ pc = "edge" /\ ~wasReady /\ ~ReadyNow
    /\ pc' = "check"
    /\ UNCHANGED <<bridgeVars, linkVars, guiVars, historyVars, checked, faults>>

\* Re-arming twice within a second is suppressed.
OnChannelBecameReady ==
    /\ pc = "edge" /\ ~wasReady /\ ReadyNow
    /\ wasReady' = TRUE
    /\ recent' = TRUE
    /\ IF recent
       THEN /\ startup' = IF needsRefresh THEN "sINIT" ELSE startup
            /\ UNCHANGED <<needsRefresh, messages, interface, mine, aged, since, dropped>>
       ELSE /\ ResetCommandPath(TRUE)
            /\ messages' = <<>>
            /\ needsRefresh' = TRUE
            /\ startup' = "sINIT"
            /\ since' = asked /\ dropped' = presses
    /\ pc' = "update"
    /\ UNCHANGED <<bridgeVars, guiVars, snapshot, carried, checked, faults>>

StillReady ==
    /\ pc = "edge" /\ wasReady /\ ReadyNow
    /\ startup' = IF needsRefresh THEN "sINIT" ELSE startup
    /\ pc' = "update"
    /\ UNCHANGED <<bridgeVars, needsRefresh, wasReady, recent, messages, interface, mine, aged>>
    /\ UNCHANGED <<guiVars, historyVars, checked, faults>>

------------------------------------------------------------------------------
(* The pass: EditorGUI::update, handleCommand, handleSubscriber              *)

(* A snapshot under way makes idle call update in every pass; in sDONE only a  *)
(* flag set by then gives it anything to do.                                 *)
Update ==
    /\ pc = "update"
    /\ LET state == IF needsRefresh THEN "sINIT" ELSE startup
       IN  /\ startup' = CASE state = "sINIT" -> "sSENT"
                           [] state = "sRELOAD" /\ working -> "sDONE"
                           [] OTHER -> state
           /\ messages' = IF state = "sINIT" THEN Append(messages, Refresh) ELSE messages
    /\ needsRefresh' = FALSE
    /\ pc' = "command"
    /\ UNCHANGED <<bridgeVars, wasReady, recent, interface, mine, aged>>
    /\ UNCHANGED <<guiVars, historyVars, checked, faults>>

HandleCommand ==
    /\ pc = "command"
    /\ pc' = "subscriber"
    /\ UNCHANGED <<needsRefresh, wasReady, recent, guiVars, since, dropped, checked>>

Send ==
    /\ HandleCommand
    /\ ~Waiting /\ messages # <<>>
    /\ Bridge!Ask
    /\ mine' = asked + 1
    /\ carried' = [carried EXCEPT ![asked + 1] = Head(messages)]
    /\ UNCHANGED <<startup, messages, interface, aged, snapshot, faults>>

\* A fault: the message that went unanswered is dropped.
TimeoutDropsMessage ==
    /\ HandleCommand
    /\ Waiting /\ aged
    /\ ResetCommandPath(TRUE)
    /\ messages' = Tail(messages)
    /\ UNCHANGED <<bridgeVars, startup, snapshot, carried, faults>>

\* A fault: the message that went unanswered is queued again behind the others.
TimeoutRequeues ==
    /\ HandleCommand
    /\ Waiting /\ aged
    /\ ResetCommandPath(TRUE)
    /\ messages' = Append(Tail(messages), Head(messages))
    /\ UNCHANGED <<bridgeVars, startup, snapshot, carried, faults>>

\* The message stays queued and is sent again over the new socket.
LocalTimeout ==
    /\ HandleCommand
    /\ Waiting /\ aged
    /\ ResetCommandPath(TRUE)
    /\ UNCHANGED <<bridgeVars, startup, messages, snapshot, carried, faults>>

\* A fault: only the success answer is taken from the REQ socket.
OwnAnswerWaits == Waiting /\ ~aged /\ outcome[mine] = "own"

(* The callback of the message at the head runs.  Only an array is a snapshot; *)
(* "failed", "timeout" and "disconnected, ..." ask again.                     *)
AnswerWaits == Waiting /\ ~aged /\ outcome[mine] # "none"
Snapshot == AnswerWaits /\ Head(messages) = Refresh /\ outcome[mine] = "own"

Receive ==
    /\ HandleCommand
    /\ AnswerWaits
    /\ messages' = Tail(messages)
    /\ mine' = 0
    /\ UNCHANGED <<bridgeVars, interface, aged, carried>>

ReceiveSnapshot ==
    /\ Receive /\ Snapshot
    /\ startup' = "sRELOAD"
    /\ snapshot' = mine
    /\ UNCHANGED faults

\* A fault: a bad answer starts data initialisation over, from the unused state.
RestartFromStartup ==
    /\ Receive
    /\ Head(messages) = Refresh
    /\ IF Snapshot THEN Fault ELSE UNCHANGED faults
    /\ startup' = "sSTARTUP"
    /\ UNCHANGED snapshot

\* A fault: a bad answer is taken for the snapshot to come.
IgnoreBadAnswer ==
    /\ Receive
    /\ Head(messages) = Refresh
    /\ IF Snapshot THEN Fault ELSE UNCHANGED faults
    /\ UNCHANGED <<startup, snapshot>>

ReceiveNoSnapshot ==
    /\ Receive
    /\ Head(messages) = Refresh
    /\ IF Snapshot THEN Fault ELSE UNCHANGED faults
    /\ startup' = "sINIT"
    /\ UNCHANGED snapshot

ReceiveAcknowledgement ==
    /\ Receive
    /\ Head(messages) # Refresh
    /\ UNCHANGED <<startup, snapshot, faults>>

NothingToSend ==
    /\ HandleCommand
    /\ IF Waiting THEN ~aged /\ ~AnswerWaits ELSE messages = <<>> \/ asked = NumCommands
    /\ UNCHANGED <<bridgeVars, startup, messages, interface, mine, aged, snapshot, carried, faults>>

\* An incomplete multipart message makes the SubscriptionManager reconnect.
HandleSubscriber ==
    /\ pc = "subscriber"
    /\ \/ UNCHANGED <<ready, faults>>
       \/ ready' = FALSE /\ Fault
    /\ pc' = "check"
    /\ UNCHANGED <<asked, inbox, serving, outcome, linkVars, guiVars, historyVars, checked>>

Pass ==
    \/ CheckConnections \/ SessionGained \/ SessionLost
    \/ ServeNothing \/ PollFails \/ Take \/ Refuse \/ NoCommand
    \/ Complete \/ RespondNothing \/ RespondOutOfBand
    \/ OnChannelLost \/ StillLost \/ OnChannelBecameReady \/ StillReady
    \/ Update
    \/ Send \/ LocalTimeout \/ ReceiveSnapshot \/ ReceiveNoSnapshot
    \/ ReceiveAcknowledgement \/ NothingToSend
    \/ HandleSubscriber

------------------------------------------------------------------------------
(* Around the pass                                                           *)

Outside == UNCHANGED <<bridgeVars, startup, wasReady, interface, mine, historyVars, checked, pc>>

\* A widget's event handler queues a message.
QueueMessage ==
    /\ Outside
    /\ pc = "check" /\ presses < MaxPresses
    /\ presses' = presses + 1
    /\ messages' = Append(messages, presses + 1)
    /\ UNCHANGED <<needsRefresh, recent, aged, working, faults>>

\* SetupConnectMonitor and SetupDisconnectMonitor, in the monitor thread.
SetupEvent ==
    /\ Outside /\ Fault
    /\ ~needsRefresh
    /\ needsRefresh' = TRUE
    /\ UNCHANGED <<recent, messages, aged, guiVars>>

SetGuiState ==
    /\ Outside
    /\ pc = "check"
    /\ working' = ~working
    /\ IF working THEN Fault ELSE UNCHANGED faults
    /\ UNCHANGED <<needsRefresh, recent, messages, aged, presses>>

LocalCommandAges ==
    /\ Outside /\ Fault
    /\ Waiting /\ ~aged
    /\ aged' = TRUE
    /\ UNCHANGED <<needsRefresh, recent, messages, guiVars>>

SecondPasses ==
    /\ Outside
    /\ recent /\ recent' = FALSE
    /\ UNCHANGED <<needsRefresh, messages, aged, guiVars, faults>>

Next == Pass \/ QueueMessage \/ SetupEvent \/ SetGuiState \/ LocalCommandAges \/ SecondPasses

Spec == Init /\ [][Next]_vars

(* The loop keeps running and the operator leaves edit mode.  That the session *)
(* comes back and that the bridge serves its requests is what the             *)
(* SubscriptionManager is shown to do (Reconnects, CommandsAnswered).         *)
FairSpec ==
    /\ Spec
    /\ WF_vars(Pass)
    /\ SF_vars(SetGuiState /\ working')
    /\ SF_vars(SessionGained)
    /\ SF_vars(NoCommand) /\ SF_vars(Complete)

------------------------------------------------------------------------------
(* Properties                                                                *)

(* In sSENT a MODBUS REFRESH is queued or under way: no way of losing the      *)
(* session, the REQ socket or the answer leaves the state waiting for nothing. *)
RefreshQueued == startup = "sSENT" => \E i \in DOMAIN messages : messages[i] = Refresh

(* While a session is up, data counts as loaded only if its snapshot was       *)
(* requested in this very session.                                           *)
SnapshotIsCurrent == wasReady /\ startup \in {"sRELOAD", "sDONE"} => snapshot > since

(* The REQ socket waits for the message at the head of the queue, so the       *)
(* callback that runs is the one of the message that was answered.            *)
InFlightIsHead ==
    /\ Waiting => interface /\ messages # <<>> /\ carried[mine] = Head(messages)
    /\ pc = "command" => interface

(* What the requests carried, repetitions included, went out in the order the     *)
(* operator gave it: no timeout, replaced socket or bad answer lets a message     *)
(* overtake another.                                                          *)
CommandsInOrder ==
    \A m, n \in 1..asked : m < n => carried[n] = Refresh \/ carried[m] <= carried[n]

(* Why: the queue is in that order too, and behind all that was sent.             *)
QueueInOrder ==
    /\ \A i, j \in DOMAIN messages : i < j => messages[j] = Refresh \/ messages[i] < messages[j]
    /\ \A i \in DOMAIN messages : messages[i] <= presses
    /\ \A n \in 1..asked : carried[n] <= presses
    /\ \A n \in 1..asked, i \in DOMAIN messages :
         messages[i] = Refresh \/ carried[n] <= messages[i]

(* What makes the others hold from step to step.  Whatever is past the edge of a    *)
(* pass has a session and a REQ socket; without a session nothing is loaded or   *)
(* awaited; the request in flight and everything queued are of this session.     *)
PastTheEdge ==
    /\ pc \in {"update", "command", "subscriber"} => wasReady
    /\ pc \in {"serve", "respond", "edge", "update", "command"} => interface
    /\ ~wasReady => startup = "sINIT"

OfThisSession ==
    /\ since <= asked /\ dropped <= presses
    /\ Waiting => since < mine /\ mine <= asked
    /\ \A i \in DOMAIN messages : messages[i] = Refresh \/ messages[i] > dropped
    /\ startup \in {"sRELOAD", "sDONE"} => snapshot > since

(* The inductive invariant: a message queued, in flight or answered always belongs *)
(* to the session that is up, in every step of idle and of the monitor threads.   *)
IInv ==
    /\ TypeOK /\ RefreshQueued /\ InFlightIsHead
    /\ PastTheEdge /\ OfThisSession
    /\ CommandsInOrder /\ QueueInOrder

(* For the operator's messages all of this is a queue in which only the oldest is   *)
(* sent, only one that was answered is done with, and only the loss of the session  *)
(* takes others.                                                             *)
OperatorSpec == Operator!Spec

(* No operator message made before a session was lost is put on the command    *)
(* path after it: the queue does not survive the loss.  (A request that was     *)
(* on the path already may still be carried out: it stays with the REP socket.)  *)
NoStaleSend ==
    [][asked' # asked => carried'[asked'] = Refresh \/ carried'[asked'] > dropped]_vars

(* Once faults stop, the data is loaded and stays so.                         *)
DataLoads == <>[](startup = "sDONE")

(* Messages do not pile up: the queue empties again.                          *)
QueueDrains == messages # <<>> ~> messages = <<>>
==============================================================================
