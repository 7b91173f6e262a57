------------------------- MODULE ClockworkClient_proofs -------------------------
(***************************************************************************)
(* Proofs about ClockworkClient, for all grants and any number of commands,    *)
(* operator messages and faults: the SubscriptionManager is used as it is       *)
(* specified, and gives the Connection what ClockworkConnection relies on.      *)
(***************************************************************************)
EXTENDS ClockworkClient, SubscriptionManager_proofs

(* The session ends in most steps of a pass and comes up in none of these.       *)
Keeps == sm'.status = "done" => sm.status = "done"

LEMMA ReconnectEndsSession == IInv => ForceFullReconnect(sm).status # "done"
<1> SUFFICES ASSUME IInv PROVE ForceFullReconnect(sm).status # "done"
  OBVIOUS
<1>1. Fit(sm, serving) /\ serving \in Commands \cup {0}
  BY DEF IInv, TypeOK, Fit
<1>2. /\ Fit(ForceFullReconnect(sm), serving)
      /\ ForceFullReconnect(sm).channel = None
  BY <1>1, ReconnectFit
<1> QED BY <1>2 DEF Fit, Coherent, Usable

LEMMA ResetKeepsStatus ==
    ASSUME IInv, NEW up \in BOOLEAN, up => CanKeep(sm)
    PROVE  ResetChannelRequest(sm, up).status \in {sm.status, "waiting_connect"}
<1>1. Fit(sm, 0)
  BY DEF IInv, TypeOK, Fit, OwnsRequest
<1> QED BY <1>1, ResetFit

(* An answer read out of band starts a handshake, ends one, or means nothing.    *)
LEMMA OutOfBandKeeps == IInv /\ RespondOutOfBand => Keeps
<1> SUFFICES ASSUME IInv, RespondOutOfBand, sm'.status = "done" PROVE sm.status = "done"
  BY DEF Keeps
<1>1. Fit(sm, 0) /\ sm \in Manager
  BY DEF IInv, TypeOK, Fit, OwnsRequest
<1>2. PICK g \in Grants :
        LET a == ApplyChannelSetupReply(sm, g)
        IN  sm' = IF sm.req = "grant" THEN Connect(a, g, TRUE) ELSE a
  BY DEF RespondOutOfBand
<1> DEFINE a == ApplyChannelSetupReply(sm, g)
<1>3. Fit(a, 0) /\ (sm.req = "grant" => a.status = "settingup")
  BY <1>1, ApplyFit
<1>4. CASE sm.req = "grant"
  <2> HIDE DEF a
  <2>1. /\ Fit(Connect(a, g, TRUE), 0)
        /\ Connect(a, g, TRUE).channel # None
           => Connect(a, g, TRUE).status = "settingup"
    BY <1>3, <1>4, ConnectFit
  <2>2. sm' = Connect(a, g, TRUE)
    BY <1>2, <1>4 DEF a
  <2> QED BY <2>1, <2>2 DEF Fit, Coherent, Usable
<1>5. CASE sm.req = "error"
  <2>1. sm' = SetSetupStatus(ReadReply(sm), "error")
    BY <1>2, <1>5 DEF ApplyChannelSetupReply
  <2>2. ReadReply(sm) \in Manager /\ "error" \in Status
    BY <1>1, ReadReplyFields DEF Status
  <2>3. sm'.status = "error"
    BY <2>1, <2>2, SetStatusFields
  <2> QED BY <2>3
<1>6. CASE sm.req \notin {"grant", "error"}
  <2>1. sm' = ReadReply(sm)
    BY <1>2, <1>6 DEF ApplyChannelSetupReply
  <2> QED BY <1>1, <2>1, ReadReplyFields
<1> QED BY <1>4, <1>5, <1>6

(* What happens around a pass changes neither the session nor the commands.      *)
LEMMA ElsewhereKeeps ==
    ASSUME IInv, Surroundings
    PROVE  UNCHANGED <<sm.status, commandVars, pc, readable>>
<1> USE DEF Environment
<1>1. sm \in Manager
  BY DEF IInv, TypeOK
<1>2. ASSUME NEW k, Deliver(k) PROVE UNCHANGED <<sm.status, commandVars, pc, readable>>
  BY <1>1, <1>2 DEF Deliver, Manager
<1>3. CASE SetupConnected \/ SubscriberConnected \/ SetupDropped \/ SubscriberDropped
  BY <1>1, <1>3 DEF SetupConnected, SubscriberConnected, SetupDropped, SubscriberDropped, Manager
<1>4. CASE GrantChannel \/ RejectChannel \/ AnswerCommand
  BY <1>2, <1>4 DEF GrantChannel, RejectChannel, AnswerCommand
<1>5. CASE StateAges \/ RateLimitExpires \/ CommandAges
  BY <1>1, <1>5 DEF StateAges, RateLimitExpires, CommandAges, Manager
<1> QED BY <1>3, <1>4, <1>5 DEF Surroundings

(* A drive goes from test to test and ends where the pass polls.                  *)
LEMMA DriveMoves ==
    ASSUME CheckConnections \/ CheckTooEarly
    PROVE  /\ pc \in Drive /\ pc' \in (Drive \cup {"poll"}) \ {"check"}
           /\ UNCHANGED commandVars
<1> USE DEF Drive, To
<1>1. CASE BeginPass \/ TestLegs \/ TimeOut \/ TestBothSetup \/ TestBothSubscriber
  BY <1>1 DEF BeginPass, TestLegs, TimeOut, TestBothSetup, TestBothSubscriber
<1>2. CASE TestSetup \/ TestSubscriber \/ TestSubscriberAlone \/ TestSettled \/ FinishDrive
  BY <1>2 DEF TestSetup, TestSubscriber, TestSubscriberAlone, TestSettled, FinishDrive
<1>3. ASSUME NEW attach, Connecting(attach) \/ Handshake(attach)
      PROVE  /\ pc \in Drive /\ pc' \in (Drive \cup {"poll"}) \ {"check"}
             /\ UNCHANGED commandVars
  BY <1>3 DEF Connecting, Handshake
<1> QED BY <1>1, <1>2, <1>3 DEF CheckConnections, CheckTooEarly

------------------------------------------------------------------------------
(* The SubscriptionManager in the client                                     *)

(* A step of the client is, for the SubscriptionManager, one of its own or none.  *)
LEMMA ManagerStep == [ClientNext]_clientVars => [Next]_vars
<1> SUFFICES ASSUME [ClientNext]_clientVars PROVE [Next]_vars
  OBVIOUS
<1>1. CASE Idle
  <2>1. CASE IdleChecks \/ IdleAccepts \/ IdleResponds
    BY <2>1 DEF IdleChecks, IdleAccepts, IdleResponds, Next, Pass
  <2>2. CASE IdlePolls
    BY <2>2 DEF IdlePolls, Next, Pass
  <2>3. CASE IdleFollows \/ IdleSends \/ IdleSubscribes
    BY <2>3 DEF IdleFollows, IdleSends, IdleSubscribes, Next
  <2> QED BY <1>1, <2>1, <2>2, <2>3 DEF Idle
<1>2. CASE MonitorConnects \/ MonitorDisconnects \/ Elsewhere \/ ForwardedCommandAges
  BY <1>2 DEF MonitorConnects, MonitorDisconnects, Elsewhere, ForwardedCommandAges, Next,
     Surroundings
<1>3. CASE AtTheDesk \/ \E e \in events : Responder(e)
  BY <1>3 DEF AtTheDesk, Responder, vars
<1>4. CASE UNCHANGED clientVars
  BY <1>4 DEF clientVars
<1> QED BY <1>1, <1>2, <1>3, <1>4 DEF ClientNext

(* idle calls the SubscriptionManager as it is specified: one request at a time,     *)
(* made between two passes with the session up.                                  *)
THEOREM UsesManager == ClientSpec => ManagerSpec
BY ManagerStep, PTL DEF ClientSpec, ClientInit, ManagerSpec, Spec

(* So its invariant holds in the client.                                        *)
LEMMA ManagerInvariant == ClientSpec => []IInv
BY UsesManager, Invariance, PTL DEF ManagerSpec

------------------------------------------------------------------------------
(* idle and checkConnections                                                 *)

LEMMA InitInStep == ClientInit => InStep
BY DEF ClientInit, Init, Link!Init, InStep

(* idle is inside checkConnections exactly between the start and the end of a pass,   *)
(* what a pass took from its poll is still so when it uses it, and what follows an    *)
(* edge has its session.                                                       *)
LEMMA InStepKept == IInv /\ InStep /\ [ClientNext]_clientVars => InStep'
<1> SUFFICES ASSUME IInv, InStep, [ClientNext]_clientVars PROVE InStep'
  OBVIOUS
<1>1. CASE IdleChecks
  <2>1. pc \in Drive /\ pc' \in (Drive \cup {"poll"}) \ {"check"}
    BY <1>1, DriveMoves DEF IdleChecks
  <2>2. pc # "check" => at = "serve"
    BY <2>1 DEF InStep, Drive
  <2>3. at' = "serve"
    BY <1>1, <2>2 DEF IdleChecks, Link!CheckConnections, Unmoved
  <2> QED BY <2>1, <2>3 DEF InStep, Drive
<1>2. CASE IdlePolls
  <2>0. CASE TestSubscriberPolled /\ Unmoved
    BY <1>2, <2>0 DEF IdlePolls, TestSubscriberPolled, Unmoved, InStep
  <2>1. CASE (LegDownNotPolled \/ PollFails) /\ Link!Return(FALSE)
    BY <2>1 DEF LegDownNotPolled, PollFails, Link!Return, InStep
  <2>2. ASSUME NEW traffic \in BOOLEAN, Poll(traffic),
               IF pc' = "check" THEN Link!Return(TRUE) ELSE Unmoved
        PROVE  InStep'
    <3>1. "cmd" \in Readable(traffic) <=> serving = 0 /\ inbox # <<>>
      BY DEF Readable
    <3> QED BY <1>2, <2>2, <3>1 DEF IdlePolls, Poll, Link!Return, Unmoved, InStep, commandVars
  <2> QED BY <1>2, <2>0, <2>1, <2>2 DEF IdlePolls
<1>3. CASE IdleAccepts
  <2>1. pc' = "respond" /\ at' = "respond"
    BY <1>3 DEF IdleAccepts, NoCommand, ForwardCommand, RefuseCommand, Link!Serve
  <2> QED BY <2>1 DEF InStep
<1>4. CASE IdleResponds
  <2>1. pc' = "check" /\ at' = "edge"
    BY <1>4 DEF IdleResponds, RespondDisconnected, RespondReply, RespondOutOfBand,
       RespondTimeout, RespondNothing, EndPass, Link!Respond, Link!Return
  <2> QED BY <2>1 DEF InStep
<1>5. CASE IdleFollows
  BY <1>5 DEF IdleFollows, vars, commandVars, InStep, Link!OnChannelLost,
     Link!StillLost, Link!OnChannelBecameReady, Link!StillReady, Link!ReadyNow, Link!Update,
     Link!LocalTimeout, Link!ReceiveSnapshot, Link!ReceiveNoSnapshot,
     Link!ReceiveAcknowledgement, Link!Receive, Link!NothingToSend, Link!HandleCommand
<1>6. CASE IdleSends
  BY <1>6 DEF IdleSends, Ask, Link!Send, Link!HandleCommand, InStep
<1>7. CASE IdleSubscribes
  BY <1>7 DEF IdleSubscribes, SubscriberTorn, Environment, vars, InStep
<1>8. CASE MonitorConnects \/ MonitorDisconnects \/ Elsewhere \/ ForwardedCommandAges
  <2>1. Surroundings /\ at' = at
    BY <1>8 DEF MonitorConnects, MonitorDisconnects, Elsewhere, ForwardedCommandAges, Noted,
       Unmoved, Surroundings
  <2> QED BY <2>1, ElsewhereKeeps DEF InStep, commandVars
<1>9. CASE AtTheDesk \/ \E e \in events : Responder(e)
  <2>1. UNCHANGED vars /\ at' = at
    BY <1>9 DEF AtTheDesk, Responder, Link!Outside, Link!QueueMessage, Link!SecondPasses,
       Link!SetGuiState, Link!LocalCommandAges
  <2> QED BY <2>1 DEF vars, InStep
<1>10. CASE UNCHANGED clientVars
  BY <1>10 DEF clientVars, vars, InStep
<1> QED BY <1>1, <1>2, <1>3, <1>4, <1>5, <1>6, <1>7, <1>8, <1>9, <1>10 DEF ClientNext, Idle

(* The GUI thread is where idle and checkConnections both say, and sends a request   *)
(* only with the session up: no callback, edge or monitor event in between takes the  *)
(* session away.                                                              *)
THEOREM StaysInStep == ClientSpec => []InStep
BY InitInStep, InStepKept, ManagerInvariant, PTL DEF ClientSpec

------------------------------------------------------------------------------
(* The Connection in the client                                              *)

LEMMA LinkInit == ClientInit => Link!Init
BY DEF ClientInit

(* No bound on the Connection's faults, so a fault is nothing to count.            *)
LEMMA Uncounted == Link!Fault
BY DEF Link!Fault

LEMMA CheckLinks == InStep /\ IdleChecks => Link!Next \/ UNCHANGED Link!vars
<1> SUFFICES ASSUME InStep, IdleChecks PROVE Link!Next \/ UNCHANGED Link!vars
  OBVIOUS
<1>1. CASE pc = "check"
  BY <1>1 DEF IdleChecks, Link!Next, Link!Pass
<1>2. CASE pc # "check"
  <2>1. UNCHANGED <<commandVars, connectionVars, at>> /\ pc \in Drive
    BY <1>2, DriveMoves DEF IdleChecks, Unmoved
  <2>2. at = "serve"
    BY <1>2, <2>1 DEF InStep, Drive
  <2>3. CASE (sm'.status = "done") = (sm.status = "done")
    BY <2>1, <2>3 DEF connectionVars, commandVars, Link!vars, Link!bridgeVars, Link!linkVars,
       Link!guiVars, Link!historyVars
  <2>4. CASE (sm'.status = "done") # (sm.status = "done")
    <3>1. Link!DriveSession
      BY <2>1, <2>2 DEF Link!DriveSession, Link!Bridge!SessionChanges, commandVars,
         connectionVars, Link!linkVars, Link!guiVars, Link!historyVars
    <3>2. Link!SessionGained \/ Link!SessionLost
      BY <2>4, <3>1, Uncounted DEF Link!SessionGained, Link!SessionLost
    <3> QED BY <3>2 DEF Link!Next, Link!Pass
  <2> QED BY <2>3, <2>4
<1> QED BY <1>1, <1>2

LEMMA PollLinks == IInv /\ IdlePolls => Link!Next \/ UNCHANGED Link!vars
<1> SUFFICES ASSUME IInv, IdlePolls PROVE Link!Next \/ UNCHANGED Link!vars
  OBVIOUS
<1>1. CASE (LegDownNotPolled \/ PollFails) /\ Link!Return(FALSE)
  <2>1. (sm'.status = "done") \in {FALSE, sm.status = "done"}
    BY <1>1, ReconnectEndsSession DEF LegDownNotPolled, PollFails
  <2>2. Link!PollFails
    BY <1>1, <2>1, Uncounted DEF IdlePolls, Link!PollFails, LegDownNotPolled, PollFails,
       commandVars
  <2> QED BY <2>2 DEF Link!Next, Link!Pass
<1>2. ASSUME NEW traffic \in BOOLEAN, Poll(traffic), pc' = "check", Link!Return(TRUE)
      PROVE  Link!Next
  <2>1. Readable(traffic) = {}
    BY <1>2 DEF Poll
  <2>2. ~(serving = 0 /\ inbox # <<>>)
    BY <2>1 DEF Readable
  <2>3. Link!ServeNothing
    BY <1>2, <2>2 DEF IdlePolls, Link!ServeNothing, Link!CommandReady, Link!bridgeVars, Poll,
       commandVars
  <2> QED BY <2>3 DEF Link!Next, Link!Pass
<1>3. ASSUME TestSubscriberPolled \/ (\E traffic \in BOOLEAN : Poll(traffic)), Unmoved
      PROVE  UNCHANGED Link!vars
  BY <1>3 DEF TestSubscriberPolled, Poll, Unmoved, commandVars, connectionVars, Link!vars, Link!bridgeVars, Link!linkVars,
     Link!guiVars, Link!historyVars
<1> QED BY <1>1, <1>2, <1>3 DEF IdlePolls

LEMMA AcceptLinks == IInv /\ InStep /\ IdleAccepts => Link!Next
<1> SUFFICES ASSUME IInv, InStep, IdleAccepts PROVE Link!Next
  OBVIOUS
<1>1. Link!Serve
  BY DEF IdleAccepts
<1>2. pc = "accept" => (CommandReady <=> serving = 0 /\ inbox # <<>>)
  BY DEF InStep, CommandReady
<1>3. CASE NoCommand
  <2>1. Link!NoCommand
    BY <1>1, <1>2, <1>3 DEF NoCommand, Link!NoCommand, Link!CommandReady, Link!bridgeVars,
       smVars, commandVars
  <2> QED BY <2>1 DEF Link!Next, Link!Pass
<1>4. CASE ForwardCommand
  <2>1. sm'.status = sm.status /\ sm.status = "done"
    BY <1>4 DEF ForwardCommand, IInv, TypeOK, Manager
  <2>2. Link!Bridge!Accept
    BY <1>2, <1>4, <2>1 DEF ForwardCommand, Link!Bridge!Accept
  <2>3. Link!Take
    BY <1>1, <2>2 DEF Link!Take
  <2> QED BY <2>3 DEF Link!Next, Link!Pass
<1>5. CASE RefuseCommand
  <2>1. (sm'.status = "done") \in {FALSE, sm.status = "done"}
    BY <1>5, ResetKeepsStatus DEF RefuseCommand
  <2>2. Link!Bridge!Refuse
    BY <1>2, <1>5, <2>1 DEF RefuseCommand, Link!Bridge!Refuse, Link!Bridge!Refusals
  <2>3. Link!Refuse
    BY <1>1, <2>2, Uncounted DEF Link!Refuse
  <2> QED BY <2>3 DEF Link!Next, Link!Pass
<1> QED BY <1>3, <1>4, <1>5 DEF IdleAccepts

(* A command is answered by the reply to itself, or negatively, and then the       *)
(* session may go.                                                            *)
LEMMA RespondLinks == IInv /\ IdleResponds => Link!Next
<1> SUFFICES ASSUME IInv, IdleResponds PROVE Link!Next
  OBVIOUS
<1>1. Link!Respond
  BY DEF IdleResponds
<1>2. ASSUME NEW what \in {"own", "timeout", "disconnected"}, Answer(what), serving # 0,
             Keeps, what = "own" => sm'.status = sm.status
      PROVE  Link!Next
  <2>1. (sm'.status = "done") \in {FALSE, sm.status = "done"}
    BY <1>2 DEF Keeps
  <2>2. Link!Bridge!Complete
    BY <1>2, <2>1 DEF Answer, Link!Bridge!Complete, Link!Bridge!Completions
  <2>3. serving \in Commands /\ outcome'[serving] = what
    BY <1>2 DEF Answer, IInv, TypeOK
  <2>4. Link!Complete
    BY <1>1, <1>2, <2>2, <2>3, Uncounted DEF Link!Complete
  <2> QED BY <2>4 DEF Link!Next, Link!Pass
<1>3. CASE RespondDisconnected
  <2>1. Keeps
    BY <1>3, ResetKeepsStatus DEF RespondDisconnected, Keeps
  <2> QED BY <1>2, <1>3, <2>1 DEF RespondDisconnected
<1>4. CASE RespondTimeout
  <2>1. Keeps
    BY <1>4, ResetKeepsStatus DEF RespondTimeout, Keeps
  <2> QED BY <1>2, <1>4, <2>1 DEF RespondTimeout
<1>5. CASE RespondReply
  <2>1. serving # 0 /\ sm.for = serving
    BY <1>5 DEF RespondReply, Answering, IInv, PollCurrent
  <2>2. sm'.status = sm.status
    BY <1>5, ReadReplyFields DEF RespondReply, IInv, TypeOK
  <2> QED BY <1>2, <1>5, <2>1, <2>2 DEF RespondReply, Keeps
<1>6. CASE RespondOutOfBand
  <2>1. serving = 0 /\ UNCHANGED commandVars /\ Keeps
    BY <1>6, OutOfBandKeeps DEF RespondOutOfBand
  <2>2. Link!RespondOutOfBand \/ Link!RespondNothing
    BY <1>1, <2>1, Uncounted DEF Keeps, commandVars, Link!RespondOutOfBand, Link!RespondNothing,
       Link!bridgeVars
  <2> QED BY <2>2 DEF Link!Next, Link!Pass
<1>7. CASE RespondNothing
  <2>1. Link!RespondNothing
    BY <1>1, <1>7 DEF RespondNothing, Link!RespondNothing, Link!bridgeVars, smVars, commandVars
  <2> QED BY <2>1 DEF Link!Next, Link!Pass
<1> QED BY <1>3, <1>4, <1>5, <1>6, <1>7 DEF IdleResponds

(* A responder that finds needs_refresh set changes nothing.                     *)
Flagged == needsRefresh \in BOOLEAN
LEMMA FlaggedKept == Flagged /\ [ClientNext]_clientVars => Flagged'
<1> SUFFICES ASSUME Flagged, [ClientNext]_clientVars PROVE Flagged'
  OBVIOUS
<1> USE DEF Flagged, connectionVars, Link!linkVars
<1>1. CASE IdleChecks \/ IdlePolls \/ IdleAccepts \/ IdleResponds
  BY <1>1 DEF IdleChecks, Link!CheckConnections, IdlePolls, IdleAccepts, IdleResponds,
     Unmoved, Link!Return, Link!Serve, Link!Respond
<1>2. CASE IdleFollows
  BY <1>2 DEF IdleFollows, Link!OnChannelLost, Link!StillLost, Link!OnChannelBecameReady,
     Link!StillReady, Link!Update, Link!LocalTimeout, Link!ReceiveSnapshot,
     Link!ReceiveNoSnapshot, Link!ReceiveAcknowledgement, Link!Receive, Link!NothingToSend,
     Link!HandleCommand
<1>3. CASE IdleSends \/ IdleSubscribes
  BY <1>3 DEF IdleSends, Link!Send, Link!HandleCommand, IdleSubscribes
<1>4. CASE MonitorConnects \/ MonitorDisconnects \/ Elsewhere \/ ForwardedCommandAges
  BY <1>4 DEF MonitorConnects, MonitorDisconnects, Elsewhere, ForwardedCommandAges, Noted,
     Unmoved
<1>5. CASE AtTheDesk \/ (\E e \in events : Responder(e)) \/ UNCHANGED clientVars
  BY <1>5 DEF AtTheDesk, Link!QueueMessage, Link!SecondPasses, Link!SetGuiState,
     Link!LocalCommandAges, Responder, clientVars
<1> QED BY <1>1, <1>2, <1>3, <1>4, <1>5 DEF ClientNext, Idle

LEMMA RestLinks ==
    ASSUME IInv, Flagged, \/ IdleFollows \/ IdleSends \/ IdleSubscribes \/ AtTheDesk
                 \/ \E e \in events : Responder(e)
    PROVE  Link!Next \/ UNCHANGED Link!vars
<1>1. CASE IdleFollows \/ IdleSends
  BY <1>1 DEF IdleFollows, IdleSends, Link!Next, Link!Pass
<1>2. CASE IdleSubscribes
  <2>1. (sm'.status = "done") = FALSE \/ (sm'.status = "done") = (sm.status = "done")
    BY <1>2, ReconnectEndsSession DEF IdleSubscribes, SubscriberTorn, vars
  <2>2. at = "subscriber" /\ at' = "check" /\ UNCHANGED <<commandVars, connectionVars>>
    BY <1>2 DEF IdleSubscribes, SubscriberTorn, Environment, vars, commandVars
  <2>3. Link!HandleSubscriber
    BY <2>1, <2>2, Uncounted DEF Link!HandleSubscriber, Link!linkVars, Link!guiVars,
       Link!historyVars, connectionVars, commandVars
  <2> QED BY <2>3 DEF Link!Next, Link!Pass
<1>3. CASE AtTheDesk
  BY <1>3 DEF AtTheDesk, Link!Next
<1>4. ASSUME NEW e \in events, Responder(e)
      PROVE  Link!Next \/ UNCHANGED Link!vars
  <2>1. CASE needsRefresh' = needsRefresh
    BY <1>4, <2>1 DEF Responder, Link!Outside, Link!vars, Link!bridgeVars, Link!linkVars,
       Link!guiVars, Link!historyVars
  <2>2. CASE ~needsRefresh /\ needsRefresh' = TRUE
    <3>1. Link!SetupEvent
      BY <1>4, <2>2, Uncounted DEF Responder, Link!SetupEvent, Link!guiVars
    <3> QED BY <3>1 DEF Link!Next
  <2> QED BY <1>4, <2>1, <2>2 DEF Responder, Flagged
<1> QED BY <1>1, <1>2, <1>3, <1>4

(* Every step of the client is, for the Connection, one of those it has on the bridge, *)
(* or none.                                                                   *)
LEMMA LinkStep == IInv /\ InStep /\ Flagged /\ [ClientNext]_clientVars => [Link!Next]_(Link!vars)
<1> SUFFICES ASSUME IInv, InStep, Flagged, [ClientNext]_clientVars PROVE [Link!Next]_(Link!vars)
  OBVIOUS
<1>1. CASE Idle
  BY <1>1, CheckLinks, PollLinks, AcceptLinks, RespondLinks, RestLinks DEF Idle
<1>2. CASE MonitorConnects \/ MonitorDisconnects \/ Elsewhere \/ ForwardedCommandAges
  <2>1. Surroundings /\ UNCHANGED <<connectionVars, at>>
    BY <1>2 DEF MonitorConnects, MonitorDisconnects, Elsewhere, ForwardedCommandAges, Noted,
       Unmoved, Surroundings
  <2>2. UNCHANGED Link!vars
    BY <2>1, ElsewhereKeeps DEF commandVars, connectionVars, Link!vars, Link!bridgeVars,
       Link!linkVars, Link!guiVars, Link!historyVars
  <2> QED BY <2>2
<1>3. CASE AtTheDesk \/ \E e \in events : Responder(e)
  BY <1>3, RestLinks
<1>4. CASE UNCHANGED clientVars
  BY <1>4 DEF clientVars, vars, commandVars, connectionVars, Link!vars, Link!bridgeVars,
     Link!linkVars, Link!guiVars, Link!historyVars
<1> QED BY <1>1, <1>2, <1>3, <1>4 DEF ClientNext

(* On the real SubscriptionManager a Connection behaves as it does on the bridge.   *)
THEOREM ManagerServesLink == ClientSpec => LinkSpec
<1>1. ClientInit => Flagged
  BY DEF ClientInit, Link!Init, Flagged
<1> QED
  BY <1>1, FlaggedKept, LinkInit, LinkStep, StaysInStep, ManagerInvariant, PTL
     DEF ClientSpec, LinkSpec, Link!Spec

------------------------------------------------------------------------------
(* What the client inherits from the Connection on the bridge                  *)

LinkProofs == INSTANCE ClockworkConnection_proofs WITH
    ready <- sm.status = "done",
    pc <- at,
    faults <- 0, MaxFaults <- -1

(* The two instances of the Connection are one.                                 *)
LEMMA SameLink ==
    /\ Link!Init <=> LinkProofs!Init
    /\ [Link!Next]_(Link!vars) <=> [LinkProofs!Next]_(LinkProofs!vars)
<1>1. Link!Init <=> LinkProofs!Init
  BY DEF Link!Init, LinkProofs!Init, Link!Bridge!Init, LinkProofs!Bridge!Init,
     Link!Bridge!Commands, LinkProofs!Bridge!Commands, Link!Refresh, LinkProofs!Refresh
<1>2. /\ Link!SessionGained <=> LinkProofs!SessionGained
      /\ Link!SessionLost <=> LinkProofs!SessionLost
      /\ Link!CheckConnections <=> LinkProofs!CheckConnections
  BY DEF Link!SessionGained, LinkProofs!SessionGained, Link!SessionLost, LinkProofs!SessionLost,
     Link!DriveSession, LinkProofs!DriveSession, Link!CheckConnections,
     LinkProofs!CheckConnections, Link!Bridge!SessionChanges,
     LinkProofs!Bridge!SessionChanges, Link!Fault, LinkProofs!Fault, Link!bridgeVars,
     LinkProofs!bridgeVars, Link!linkVars, LinkProofs!linkVars, Link!guiVars, LinkProofs!guiVars, Link!historyVars,
     LinkProofs!historyVars
<1>3. /\ Link!ServeNothing <=> LinkProofs!ServeNothing
      /\ Link!PollFails <=> LinkProofs!PollFails
      /\ Link!Take <=> LinkProofs!Take
      /\ Link!Refuse <=> LinkProofs!Refuse
      /\ Link!NoCommand <=> LinkProofs!NoCommand
  BY DEF Link!ServeNothing, LinkProofs!ServeNothing, Link!PollFails, LinkProofs!PollFails,
     Link!Take, LinkProofs!Take, Link!Refuse, LinkProofs!Refuse, Link!NoCommand,
     LinkProofs!NoCommand, Link!CommandReady, LinkProofs!CommandReady, Link!Return,
     LinkProofs!Return, Link!Serve, LinkProofs!Serve, Link!Fault, LinkProofs!Fault,
     Link!Bridge!Accept, LinkProofs!Bridge!Accept, Link!Bridge!Refuse,
     LinkProofs!Bridge!Refuse, Link!Bridge!Refusals, LinkProofs!Bridge!Refusals,
     Link!bridgeVars, LinkProofs!bridgeVars, Link!linkVars, LinkProofs!linkVars,
     Link!guiVars, LinkProofs!guiVars, Link!historyVars, LinkProofs!historyVars
<1>4. /\ Link!Complete <=> LinkProofs!Complete
      /\ Link!RespondNothing <=> LinkProofs!RespondNothing
      /\ Link!RespondOutOfBand <=> LinkProofs!RespondOutOfBand
  BY DEF Link!Complete, LinkProofs!Complete, Link!RespondNothing, LinkProofs!RespondNothing,
     Link!RespondOutOfBand, LinkProofs!RespondOutOfBand, Link!Respond, LinkProofs!Respond,
     Link!Return, LinkProofs!Return, Link!Fault, LinkProofs!Fault, Link!Bridge!Complete,
     LinkProofs!Bridge!Complete, Link!Bridge!Completions, LinkProofs!Bridge!Completions,
     Link!bridgeVars, LinkProofs!bridgeVars, Link!linkVars, LinkProofs!linkVars,
     Link!guiVars, LinkProofs!guiVars, Link!historyVars, LinkProofs!historyVars
<1>5. /\ Link!OnChannelLost <=> LinkProofs!OnChannelLost
      /\ Link!StillLost <=> LinkProofs!StillLost
      /\ Link!OnChannelBecameReady <=> LinkProofs!OnChannelBecameReady
      /\ Link!StillReady <=> LinkProofs!StillReady
      /\ Link!Update <=> LinkProofs!Update
  BY DEF Link!OnChannelLost, LinkProofs!OnChannelLost, Link!StillLost, LinkProofs!StillLost,
     Link!OnChannelBecameReady, LinkProofs!OnChannelBecameReady, Link!StillReady,
     LinkProofs!StillReady, Link!Update, LinkProofs!Update, Link!ReadyNow,
     LinkProofs!ReadyNow, Link!ResetCommandPath, LinkProofs!ResetCommandPath, Link!Refresh,
     LinkProofs!Refresh, Link!bridgeVars, LinkProofs!bridgeVars, Link!linkVars,
     LinkProofs!linkVars, Link!guiVars, LinkProofs!guiVars, Link!historyVars,
     LinkProofs!historyVars
<1>6. /\ Link!Send <=> LinkProofs!Send
      /\ Link!LocalTimeout <=> LinkProofs!LocalTimeout
      /\ Link!ReceiveSnapshot <=> LinkProofs!ReceiveSnapshot
      /\ Link!ReceiveNoSnapshot <=> LinkProofs!ReceiveNoSnapshot
      /\ Link!ReceiveAcknowledgement <=> LinkProofs!ReceiveAcknowledgement
      /\ Link!NothingToSend <=> LinkProofs!NothingToSend
  BY DEF Link!Send, LinkProofs!Send, Link!LocalTimeout, LinkProofs!LocalTimeout,
     Link!ReceiveSnapshot, LinkProofs!ReceiveSnapshot, Link!ReceiveNoSnapshot,
     LinkProofs!ReceiveNoSnapshot, Link!ReceiveAcknowledgement,
     LinkProofs!ReceiveAcknowledgement, Link!NothingToSend, LinkProofs!NothingToSend,
     Link!HandleCommand, LinkProofs!HandleCommand, Link!ResetCommandPath,
     LinkProofs!ResetCommandPath, Link!Receive, LinkProofs!Receive, Link!AnswerWaits,
     LinkProofs!AnswerWaits, Link!Snapshot, LinkProofs!Snapshot, Link!Waiting,
     LinkProofs!Waiting, Link!Refresh, LinkProofs!Refresh, Link!Fault, LinkProofs!Fault,
     Link!Bridge!Ask, LinkProofs!Bridge!Ask, Link!bridgeVars, LinkProofs!bridgeVars,
     Link!guiVars, LinkProofs!guiVars
<1>7. /\ Link!HandleSubscriber <=> LinkProofs!HandleSubscriber
      /\ Link!QueueMessage <=> LinkProofs!QueueMessage
      /\ Link!SetupEvent <=> LinkProofs!SetupEvent
      /\ Link!SetGuiState <=> LinkProofs!SetGuiState
      /\ Link!LocalCommandAges <=> LinkProofs!LocalCommandAges
      /\ Link!SecondPasses <=> LinkProofs!SecondPasses
  BY DEF Link!HandleSubscriber, LinkProofs!HandleSubscriber, Link!QueueMessage,
     LinkProofs!QueueMessage, Link!SetupEvent, LinkProofs!SetupEvent, Link!SetGuiState,
     LinkProofs!SetGuiState, Link!LocalCommandAges, LinkProofs!LocalCommandAges,
     Link!SecondPasses, LinkProofs!SecondPasses, Link!Outside, LinkProofs!Outside,
     Link!Waiting, LinkProofs!Waiting, Link!Fault, LinkProofs!Fault, Link!bridgeVars,
     LinkProofs!bridgeVars, Link!linkVars, LinkProofs!linkVars, Link!guiVars,
     LinkProofs!guiVars, Link!historyVars, LinkProofs!historyVars
<1>8. Link!vars = LinkProofs!vars /\ Link!vars' = LinkProofs!vars'
  BY DEF Link!vars, LinkProofs!vars, Link!bridgeVars, LinkProofs!bridgeVars, Link!linkVars,
     LinkProofs!linkVars, Link!guiVars, LinkProofs!guiVars, Link!historyVars,
     LinkProofs!historyVars
<1> QED
  BY <1>1, <1>2, <1>3, <1>4, <1>5, <1>6, <1>7, <1>8
     DEF Link!Next, LinkProofs!Next, Link!Pass, LinkProofs!Pass

LEMMA SameLinkSpec == LinkSpec <=> LinkProofs!Spec
BY SameLink, PTL DEF LinkSpec, Link!Spec, LinkProofs!Spec

LEMMA LinkBounds == LinkProofs!BoundsAssumption
BY BoundsAssumption, PressesAssumption DEF LinkProofs!BoundsAssumption

(* On the real SubscriptionManager too, a snapshot awaited is always asked for, values  *)
(* count as loaded only in their own session, callbacks run for the message that was  *)
(* answered, and messages go out in the order the operator gave them.              *)
THEOREM ClientIsSafe == ClientSpec => []ConnectionSafe
<1>1. /\ Link!RefreshQueued <=> LinkProofs!RefreshQueued
      /\ Link!SnapshotIsCurrent <=> LinkProofs!SnapshotIsCurrent
      /\ Link!InFlightIsHead <=> LinkProofs!InFlightIsHead
      /\ Link!CommandsInOrder <=> LinkProofs!CommandsInOrder
  BY DEF Link!RefreshQueued, LinkProofs!RefreshQueued, Link!SnapshotIsCurrent,
     LinkProofs!SnapshotIsCurrent, Link!InFlightIsHead, LinkProofs!InFlightIsHead,
     Link!CommandsInOrder, LinkProofs!CommandsInOrder, Link!Refresh, LinkProofs!Refresh,
     Link!Waiting, LinkProofs!Waiting
<1>2. LinkProofs!Spec => []LinkProofs!RefreshQueued
  BY LinkBounds, LinkProofs!SnapshotsAreRequested
<1>3. LinkProofs!Spec => []LinkProofs!SnapshotIsCurrent
  BY LinkBounds, LinkProofs!SnapshotsAreCurrent
<1>4. LinkProofs!Spec => []LinkProofs!InFlightIsHead
  BY LinkBounds, LinkProofs!CallbacksMatch
<1>5. LinkProofs!Spec => []LinkProofs!CommandsInOrder
  BY LinkBounds, LinkProofs!CommandsOrdered
<1> QED
  BY ManagerServesLink, SameLinkSpec, <1>1, <1>2, <1>3, <1>4, <1>5, PTL DEF ConnectionSafe

(* And the operator's messages are served as OperatorCommands says: only the oldest is  *)
(* sent, only one that was answered is done with, and only the loss of the session   *)
(* takes others.                                                              *)
THEOREM ClientServesOperator == ClientSpec => Link!OperatorSpec
<1>1. LinkProofs!Spec => LinkProofs!OperatorSpec
  BY LinkBounds, LinkProofs!ServesOperator
<1>2. Link!Operator!Init <=> LinkProofs!Operator!Init
  BY DEF Link!Operator!Init, LinkProofs!Operator!Init, Link!CarriedBy, LinkProofs!CarriedBy,
     Link!Refresh, LinkProofs!Refresh
<1>3. /\ Link!Operator!Next <=> LinkProofs!Operator!Next
      /\ Link!Operator!operatorVars = LinkProofs!Operator!operatorVars
      /\ Link!Operator!operatorVars' = LinkProofs!Operator!operatorVars'
  BY DEF Link!Operator!Next, LinkProofs!Operator!Next, Link!Operator!operatorVars,
     LinkProofs!Operator!operatorVars, Link!Operator!Make, LinkProofs!Operator!Make,
     Link!Operator!Send, LinkProofs!Operator!Send, Link!Operator!Answer,
     LinkProofs!Operator!Answer, Link!Operator!Finish, LinkProofs!Operator!Finish,
     Link!Operator!LoseAll, LinkProofs!Operator!LoseAll, Link!Operator!Oldest,
     LinkProofs!Operator!Oldest, Link!CarriedBy, LinkProofs!CarriedBy, Link!Refresh,
     LinkProofs!Refresh
<1>4. [Link!Operator!Next]_(Link!Operator!operatorVars)
      <=> [LinkProofs!Operator!Next]_(LinkProofs!Operator!operatorVars)
  BY <1>3
<1>5. LinkProofs!OperatorSpec => Link!OperatorSpec
  BY <1>2, <1>4, PTL DEF Link!OperatorSpec, LinkProofs!OperatorSpec, Link!Operator!Spec,
     LinkProofs!Operator!Spec
<1> QED BY ManagerServesLink, SameLinkSpec, <1>1, <1>5, PTL
==============================================================================
