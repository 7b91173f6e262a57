---------------------- MODULE ClockworkConnection_proofs ----------------------
(***************************************************************************)
(* Proofs about ClockworkConnection, for any number of requests, operator      *)
(* messages and faults.                                                      *)
(***************************************************************************)
EXTENDS ClockworkConnection, TLAPS

USE BoundsAssumption

(* The conjuncts of TypeOK: switches, the bridge, the Connection, and counts.    *)
Flags ==
    /\ ready \in BOOLEAN
    /\ {needsRefresh, wasReady, recent, interface, aged, working, checked} \subseteq BOOLEAN
BridgeTyped ==
    /\ asked \in 0..NumCommands
    /\ inbox \in Seq(1..NumCommands)
    /\ serving \in 0..NumCommands
    /\ outcome \in [1..NumCommands -> Bridge!Outcomes]
LinkTyped ==
    /\ startup \in {"sINIT", "sSENT", "sRELOAD", "sDONE"}
    /\ messages \in Seq(0..MaxPresses)
    /\ mine \in 0..NumCommands
    /\ pc \in {"check", "serve", "respond", "edge", "update", "command", "subscriber"}
Counted ==
    /\ presses \in 0..MaxPresses /\ faults \in Nat
    /\ since \in 0..NumCommands /\ snapshot \in 0..NumCommands
    /\ dropped \in 0..MaxPresses
    /\ carried \in [1..NumCommands -> 0..MaxPresses]
Safe == RefreshQueued /\ InFlightIsHead /\ PastTheEdge /\ OfThisSession

(* The invariant but for the order of the messages.                             *)
Core == TypeOK /\ RefreshQueued /\ InFlightIsHead /\ PastTheEdge /\ OfThisSession
InOrder == CommandsInOrder /\ QueueInOrder

LEMMA CoreParts ==
    /\ Core <=> Flags /\ BridgeTyped /\ LinkTyped /\ Counted /\ Safe
    /\ Core' <=> Flags' /\ BridgeTyped' /\ LinkTyped' /\ Counted' /\ Safe'
BY DEF Core, TypeOK, Flags, BridgeTyped, LinkTyped, Counted, Safe

LEMMA InitCore == Init => Core
<1> SUFFICES ASSUME Init PROVE Core
  OBVIOUS
<1>1. Flags
  BY DEF Init, Flags, Bridge!Init
<1>2. BridgeTyped
  <2>1. outcome = [c \in 1..NumCommands |-> "none"]
    BY DEF Init, Bridge!Init, Bridge!Commands
  <2>2. outcome \in [1..NumCommands -> Bridge!Outcomes]
    BY <2>1 DEF Bridge!Outcomes
  <2> QED BY <2>2 DEF Init, BridgeTyped, Bridge!Init
<1>3. LinkTyped
  BY DEF Init, LinkTyped
<1>4. Counted
  BY DEF Init, Counted, Refresh
<1>5. Safe
  BY DEF Init, Safe, RefreshQueued, InFlightIsHead, PastTheEdge, OfThisSession, Waiting, Bridge!Init
<1> QED BY <1>1, <1>2, <1>3, <1>4, <1>5, CoreParts

(* A fault is counted, and a step without one leaves the count alone.           *)
LEMMA FaultCounted ==
    ASSUME faults \in Nat, Fault \/ UNCHANGED faults
    PROVE  faults' \in Nat
BY DEF Fault

(* The steps of the SubscriptionManager inside checkConnections keep the bridge   *)
(* typed: a request taken over or refused is one from the socket.               *)
LEMMA BridgeStepTyped ==
    ASSUME Flags, BridgeTyped,
           \/ Bridge!SessionChanges \/ Bridge!Accept \/ Bridge!Refuse \/ Bridge!Complete
           \/ UNCHANGED bridgeVars
           \/ ready' \in {FALSE, ready} /\ UNCHANGED <<asked, inbox, serving, outcome>>
    PROVE  ready' \in BOOLEAN /\ BridgeTyped' /\ asked' = asked
<1>1. ready' \in BOOLEAN
  BY DEF Flags, Bridge!SessionChanges, Bridge!Accept, Bridge!Refuse, Bridge!Complete, bridgeVars
<1>2. asked' = asked
  BY DEF Bridge!SessionChanges, Bridge!Accept, Bridge!Refuse, Bridge!Complete, bridgeVars
<1> SUFFICES BridgeTyped'
  BY <1>1, <1>2
<1>3. CASE Bridge!Accept
  BY <1>3 DEF BridgeTyped, Bridge!Accept
<1>4. CASE Bridge!Refuse
  <2>1. PICK r \in Bridge!Refusals : outcome' = [outcome EXCEPT ![Head(inbox)] = r]
    BY <1>4 DEF Bridge!Refuse
  <2>2. r \in Bridge!Outcomes
    BY DEF Bridge!Outcomes
  <2>3. outcome' \in [1..NumCommands -> Bridge!Outcomes]
    BY <2>1, <2>2 DEF BridgeTyped
  <2> QED BY <1>4, <2>3 DEF BridgeTyped, Bridge!Refuse
<1>5. CASE Bridge!Complete
  <2>1. PICK r \in Bridge!Completions : outcome' = [outcome EXCEPT ![serving] = r]
    BY <1>5 DEF Bridge!Complete
  <2>2. r \in Bridge!Outcomes
    BY DEF Bridge!Outcomes
  <2>3. outcome' \in [1..NumCommands -> Bridge!Outcomes]
    BY <2>1, <2>2 DEF BridgeTyped
  <2> QED BY <1>5, <2>3 DEF BridgeTyped, Bridge!Complete
<1>6. CASE UNCHANGED <<asked, inbox, serving, outcome>>
  BY <1>6 DEF BridgeTyped
<1> QED BY <1>3, <1>4, <1>5, <1>6 DEF Bridge!SessionChanges, bridgeVars

(* checkConnections: the session may change, the Connection does not look yet.    *)
LEMMA CheckKeepsCore ==
    ASSUME Core,
           \/ CheckConnections \/ SessionGained \/ SessionLost
           \/ ServeNothing \/ PollFails \/ Take \/ Refuse \/ NoCommand
           \/ Complete \/ RespondNothing \/ RespondOutOfBand
    PROVE  Core'
<1> USE CoreParts
<1>1. ready' \in BOOLEAN /\ BridgeTyped' /\ asked' = asked
  <2>1. \/ Bridge!SessionChanges \/ Bridge!Accept \/ Bridge!Refuse \/ Bridge!Complete
        \/ UNCHANGED bridgeVars
        \/ ready' \in {FALSE, ready} /\ UNCHANGED <<asked, inbox, serving, outcome>>
    BY DEF CheckConnections, SessionGained, SessionLost, DriveSession, ServeNothing, PollFails,
           Take, Refuse, NoCommand, Complete, RespondNothing, RespondOutOfBand
  <2> QED BY <2>1, BridgeStepTyped
<1>2. Fault \/ UNCHANGED faults
  BY DEF CheckConnections, SessionGained, SessionLost, ServeNothing, PollFails, Take, Refuse,
         NoCommand, Complete, RespondNothing, RespondOutOfBand
<1>3. faults' \in Nat
  BY <1>2, FaultCounted DEF Counted
<1>4. CASE CheckConnections
  <2>1. LinkTyped' /\ Counted'
    BY <1>3, <1>4 DEF CheckConnections, LinkTyped, Counted, guiVars, historyVars
  <2>2. Flags'
    BY <1>1, <1>4 DEF CheckConnections, Flags, guiVars
  <2>3. Safe'
    BY <1>1, <1>4 DEF CheckConnections, Safe, RefreshQueued, InFlightIsHead, PastTheEdge,
           OfThisSession, Waiting, guiVars, historyVars
  <2> QED BY <1>1, <2>1, <2>2, <2>3
<1>5. ASSUME pc \in {"serve", "respond"}, pc' \in {"serve", "respond", "edge"},
             checked' \in BOOLEAN, UNCHANGED <<linkVars, guiVars, historyVars>>
      PROVE  Core'
  <2>1. LinkTyped' /\ Counted'
    BY <1>3, <1>5 DEF LinkTyped, Counted, linkVars, guiVars, historyVars
  <2>2. Flags'
    BY <1>1, <1>5 DEF Flags, linkVars, guiVars
  <2>3. Safe'
    BY <1>1, <1>5 DEF Safe, RefreshQueued, InFlightIsHead, PastTheEdge,
           OfThisSession, Waiting, linkVars, guiVars, historyVars
  <2> QED BY <1>1, <2>1, <2>2, <2>3
<1>6. checked \in BOOLEAN
  BY DEF Flags
<1>7. CASE ServeNothing \/ PollFails \/ Complete \/ RespondNothing \/ RespondOutOfBand
  BY <1>5, <1>7 DEF ServeNothing, PollFails, Complete, RespondNothing, RespondOutOfBand,
     Respond, Return
<1>8. CASE Take \/ Refuse \/ NoCommand
  BY <1>5, <1>6, <1>8 DEF Take, Refuse, NoCommand, Serve
<1>9. CASE SessionGained \/ SessionLost
  BY <1>5, <1>6, <1>9 DEF SessionGained, SessionLost, DriveSession
<1> QED
  BY <1>4, <1>7, <1>8, <1>9

(* Losing the session and getting it back empties the queue and the REQ socket,   *)
(* and moves "since" and "dropped" up to what was made so far.                  *)
LEMMA EdgeKeepsCore ==
    ASSUME Core, OnChannelLost \/ StillLost \/ OnChannelBecameReady \/ StillReady
    PROVE  Core'
<1> USE CoreParts DEF bridgeVars, linkVars, guiVars, historyVars
<1>1. BridgeTyped'
  BY DEF BridgeTyped, OnChannelLost, StillLost, OnChannelBecameReady, StillReady
<1>2. CASE OnChannelLost
  <2> USE <1>2 DEF OnChannelLost, ResetCommandPath
  <2>1. Flags'
    BY DEF Flags
  <2>2. LinkTyped' /\ Counted'
    BY DEF LinkTyped, Counted, BridgeTyped
  <2>3. Safe'
    BY DEF Safe, RefreshQueued, InFlightIsHead, PastTheEdge, OfThisSession, Waiting,
       BridgeTyped, Counted
  <2> QED BY <1>1, <2>1, <2>2, <2>3
<1>3. CASE StillLost
  <2> USE <1>3 DEF StillLost
  <2>1. Flags'
    BY DEF Flags
  <2>2. LinkTyped' /\ Counted'
    BY DEF LinkTyped, Counted
  <2>3. Safe'
    BY DEF Safe, RefreshQueued, InFlightIsHead, PastTheEdge, OfThisSession, Waiting
  <2> QED BY <1>1, <2>1, <2>2, <2>3
<1>4. CASE OnChannelBecameReady /\ recent
  <2> USE <1>4 DEF OnChannelBecameReady
  <2>1. Flags'
    BY DEF Flags
  <2>2. LinkTyped' /\ Counted'
    BY DEF LinkTyped, Counted
  <2>3. startup' = "sINIT" /\ interface'
    BY DEF Safe, PastTheEdge
  <2>4. Safe'
    BY <2>3 DEF Safe, RefreshQueued, InFlightIsHead, PastTheEdge, OfThisSession, Waiting
  <2> QED BY <1>1, <2>1, <2>2, <2>4
<1>5. CASE OnChannelBecameReady /\ ~recent
  <2> USE <1>5 DEF OnChannelBecameReady, ResetCommandPath
  <2>1. Flags'
    BY DEF Flags
  <2>2. LinkTyped' /\ Counted'
    BY DEF LinkTyped, Counted, BridgeTyped
  <2>3. Safe'
    BY DEF Safe, RefreshQueued, InFlightIsHead, PastTheEdge, OfThisSession, Waiting,
       BridgeTyped, Counted
  <2> QED BY <1>1, <2>1, <2>2, <2>3
<1>6. CASE StillReady
  <2> USE <1>6 DEF StillReady
  <2>1. Flags'
    BY DEF Flags
  <2>2. LinkTyped' /\ Counted'
    BY DEF LinkTyped, Counted
  <2>3. Safe'
    BY DEF Safe, RefreshQueued, InFlightIsHead, PastTheEdge, OfThisSession, Waiting
  <2> QED BY <1>1, <2>1, <2>2, <2>3
<1> QED BY <1>2, <1>3, <1>4, <1>5, <1>6

(* A message appended leaves the head alone and is itself in the queue.           *)
LEMMA Appended ==
    ASSUME messages \in Seq(0..MaxPresses), NEW m \in 0..MaxPresses
    PROVE  /\ Append(messages, m) \in Seq(0..MaxPresses)
           /\ \E i \in DOMAIN Append(messages, m) : Append(messages, m)[i] = m
           /\ \A i \in DOMAIN messages :
                 i \in DOMAIN Append(messages, m) /\ Append(messages, m)[i] = messages[i]
           /\ \A i \in DOMAIN Append(messages, m) :
                 i \in DOMAIN messages \/ Append(messages, m)[i] = m
           /\ messages # <<>> =>
                 Append(messages, m) # <<>> /\ Head(Append(messages, m)) = Head(messages)
<1>1. Len(Append(messages, m)) = Len(messages) + 1
  OBVIOUS
<1>2. Append(messages, m)[Len(messages) + 1] = m
  OBVIOUS
<1> QED BY <1>1, <1>2

(* update asks for a snapshot, or finds the one asked for.                      *)
LEMMA UpdateKeepsCore ==
    ASSUME Core, Update
    PROVE  Core'
<1> USE CoreParts DEF bridgeVars, guiVars, historyVars
<1>0. Refresh \in 0..MaxPresses /\ messages \in Seq(0..MaxPresses)
  BY DEF Refresh, LinkTyped
<1>1. BridgeTyped' /\ Counted'
  BY DEF BridgeTyped, Counted, Update
<1>2. Flags'
  BY DEF Flags, Update
<1>3. PastTheEdge'
  BY DEF Safe, PastTheEdge, Update
<1>4. CASE needsRefresh \/ startup = "sINIT"
  <2>1. startup' = "sSENT" /\ messages' = Append(messages, Refresh)
    BY <1>4 DEF Update
  <2>2. LinkTyped'
    BY <1>0, <2>1, Appended DEF LinkTyped, Update
  <2>3. RefreshQueued' /\ InFlightIsHead'
    BY <1>0, <2>1, Appended DEF Update, Safe, RefreshQueued, InFlightIsHead, PastTheEdge, Waiting
  <2>4. OfThisSession'
    BY <1>0, <2>1, Appended DEF Update, Safe, OfThisSession, Waiting
  <2> QED BY <1>1, <1>2, <1>3, <2>2, <2>3, <2>4 DEF Safe
<1>5. CASE ~needsRefresh /\ startup # "sINIT"
  <2>1. messages' = messages
    BY <1>5 DEF Update
  <2>4. startup' \in {startup, "sDONE"} /\ (startup' # startup => startup = "sRELOAD")
    <3>1. CASE startup = "sRELOAD"
      BY <1>5, <3>1 DEF Update
    <3>2. CASE startup # "sRELOAD"
      BY <1>5, <3>2 DEF Update
    <3> QED BY <3>1, <3>2
  <2>2. LinkTyped'
    BY <2>1, <2>4 DEF LinkTyped, Update
  <2>3. RefreshQueued' /\ InFlightIsHead' /\ OfThisSession'
    BY <2>1, <2>4 DEF Update, Safe, RefreshQueued, InFlightIsHead, PastTheEdge, OfThisSession, Waiting
  <2> QED BY <1>1, <1>2, <1>3, <2>2, <2>3 DEF Safe
<1> QED BY <1>4, <1>5
(* handleCommand: sending puts the head of the queue in flight, receiving takes it  *)
(* off again; the history of the session is not touched.                        *)
LEMMA SendKeepsCore ==
    ASSUME Core, Send
    PROVE  Core'
<1> USE CoreParts DEF guiVars
<1>1. asked + 1 \in 1..NumCommands /\ Head(messages) \in 0..MaxPresses
  BY DEF Send, Bridge!Ask, BridgeTyped, LinkTyped
<1>2. Flags'
  BY DEF Send, HandleCommand, Bridge!Ask, Flags
<1>3. BridgeTyped'
  BY <1>1 DEF Send, Bridge!Ask, BridgeTyped
<1>4. LinkTyped'
  BY <1>1 DEF Send, HandleCommand, LinkTyped
<1>5. Counted'
  BY <1>1 DEF Send, HandleCommand, Counted
<1>6. carried'[mine'] = Head(messages) /\ mine' = asked + 1
  BY <1>1 DEF Send, Counted
<1>7. RefreshQueued' /\ PastTheEdge'
  BY DEF Send, HandleCommand, Safe, RefreshQueued, PastTheEdge
<1>8. InFlightIsHead'
  BY <1>6 DEF Send, HandleCommand, Safe, InFlightIsHead, Waiting
<1>9. OfThisSession'
  <2>1. since < mine' /\ mine' <= asked' /\ since <= asked'
    <3>1. asked' = asked + 1
      BY DEF Send, Bridge!Ask
    <3>2. since <= asked /\ since \in Nat /\ asked \in Nat
      BY DEF Safe, OfThisSession, BridgeTyped, Counted
    <3> QED BY <1>6, <3>1, <3>2
  <2> QED BY <2>1 DEF Send, HandleCommand, Safe, OfThisSession, Waiting
<1> QED BY <1>2, <1>3, <1>4, <1>5, <1>7, <1>8, <1>9 DEF Safe

LEMMA ReceiveKeepsCore ==
    ASSUME Core, ReceiveSnapshot \/ ReceiveNoSnapshot \/ ReceiveAcknowledgement
    PROVE  Core'
<1> USE CoreParts DEF guiVars, bridgeVars
<1>1. Receive /\ Waiting /\ messages # <<>> /\ messages \in Seq(0..MaxPresses)
  BY DEF ReceiveSnapshot, ReceiveNoSnapshot, ReceiveAcknowledgement, Receive, AnswerWaits,
     Safe, InFlightIsHead, LinkTyped
<1>2. Tail(messages) \in Seq(0..MaxPresses)
  BY <1>1
<1>3. \A i \in DOMAIN Tail(messages) :
        i + 1 \in DOMAIN messages /\ Tail(messages)[i] = messages[i + 1]
  BY <1>1
<1>4. \A i \in DOMAIN messages : i = 1 \/ i - 1 \in DOMAIN Tail(messages)
  BY <1>1
<1>5. Flags'
  BY <1>1 DEF Receive, HandleCommand, Flags
<1>6. BridgeTyped'
  BY <1>1 DEF Receive, BridgeTyped
<1>7. faults' \in Nat
  BY FaultCounted DEF Counted, ReceiveSnapshot, ReceiveNoSnapshot, ReceiveAcknowledgement
<1>8. snapshot' \in {snapshot, mine} /\ startup' \in {startup, "sRELOAD", "sINIT"}
  BY DEF ReceiveSnapshot, ReceiveNoSnapshot, ReceiveAcknowledgement
<1>9. LinkTyped'
  BY <1>1, <1>2, <1>8 DEF Receive, HandleCommand, LinkTyped
<1>13. Counted'
  BY <1>1, <1>7, <1>8 DEF Receive, HandleCommand, LinkTyped, Counted
<1>10. RefreshQueued'
  <2>1. CASE ReceiveAcknowledgement /\ startup = "sSENT"
    <3>1. PICK i \in DOMAIN messages : messages[i] = Refresh
      BY <2>1 DEF Safe, RefreshQueued
    <3>2. i # 1
      BY <1>1, <2>1, <3>1 DEF ReceiveAcknowledgement
    <3>3. i - 1 \in DOMAIN Tail(messages) /\ Tail(messages)[i - 1] = Refresh
      BY <1>1, <1>3, <1>4, <3>1, <3>2
    <3> QED BY <1>1, <3>3 DEF RefreshQueued, Receive
  <2>2. CASE startup' # "sSENT"
    BY <2>2 DEF RefreshQueued
  <2> QED BY <2>1, <2>2 DEF ReceiveSnapshot, ReceiveNoSnapshot, ReceiveAcknowledgement
<1>11. InFlightIsHead' /\ PastTheEdge'
  BY <1>1 DEF Receive, HandleCommand, InFlightIsHead, PastTheEdge, Waiting, Safe,
     ReceiveSnapshot, ReceiveNoSnapshot, ReceiveAcknowledgement
<1>12. OfThisSession'
  <2>1. since < mine /\ since <= asked /\ dropped <= presses
    BY <1>1 DEF Safe, OfThisSession
  <2>2. \A i \in DOMAIN messages' : messages'[i] = Refresh \/ messages'[i] > dropped
    BY <1>1, <1>3 DEF Receive, Safe, OfThisSession
  <2>3. startup' \in {"sRELOAD", "sDONE"} => snapshot' > since
    BY <2>1 DEF ReceiveSnapshot, ReceiveNoSnapshot, ReceiveAcknowledgement, Safe, OfThisSession,
       LinkTyped, Counted
  <2> QED BY <1>1, <2>1, <2>2, <2>3 DEF Receive, HandleCommand, OfThisSession, Waiting
<1> QED BY <1>5, <1>6, <1>9, <1>10, <1>11, <1>12, <1>13 DEF Safe

(* The rest of the pass, and what happens around it.                             *)
LEMMA RestKeepsCore ==
    ASSUME Core, LocalTimeout \/ NothingToSend \/ HandleSubscriber
    PROVE  Core'
<1> USE CoreParts DEF guiVars, bridgeVars, linkVars, historyVars
<1>1. Flags'
  BY DEF Flags, LocalTimeout, NothingToSend, HandleSubscriber, HandleCommand, ResetCommandPath
<1>2. BridgeTyped'
  BY DEF BridgeTyped, LocalTimeout, NothingToSend, HandleSubscriber
<1>3. faults' \in Nat
  BY FaultCounted DEF Counted, LocalTimeout, NothingToSend, HandleSubscriber
<1>4. LinkTyped' /\ Counted'
  BY <1>3 DEF LinkTyped, Counted, LocalTimeout, NothingToSend, HandleSubscriber, HandleCommand,
     ResetCommandPath
<1>5. Safe'
  BY DEF Safe, RefreshQueued, InFlightIsHead, PastTheEdge, OfThisSession, Waiting,
     LocalTimeout, NothingToSend, HandleSubscriber, HandleCommand, ResetCommandPath
<1> QED BY <1>1, <1>2, <1>4, <1>5

LEMMA QueueMessageKeepsCore ==
    ASSUME Core, QueueMessage
    PROVE  Core'
<1> USE CoreParts DEF Outside, bridgeVars, historyVars
<1>0. /\ presses + 1 \in 0..MaxPresses /\ messages \in Seq(0..MaxPresses)
      /\ messages' = Append(messages, presses + 1) /\ presses' = presses + 1
  BY DEF QueueMessage, Counted, LinkTyped
<1>1. Flags'
  BY DEF Flags, QueueMessage
<1>2. BridgeTyped'
  BY DEF BridgeTyped, QueueMessage
<1>3. LinkTyped' /\ Counted'
  BY <1>0, Appended DEF LinkTyped, Counted, QueueMessage
<1>4. RefreshQueued' /\ InFlightIsHead' /\ PastTheEdge'
  BY <1>0, Appended DEF QueueMessage, Safe, RefreshQueued, InFlightIsHead, PastTheEdge, Waiting
<1>5. OfThisSession'
  <2>1. presses + 1 > dropped /\ dropped <= presses'
    BY <1>0 DEF Safe, OfThisSession, Counted
  <2>2. \A i \in DOMAIN messages' : messages'[i] = Refresh \/ messages'[i] > dropped
    BY <1>0, <2>1, Appended DEF Safe, OfThisSession
  <2> QED BY <2>1, <2>2 DEF QueueMessage, Safe, OfThisSession, Waiting
<1> QED BY <1>1, <1>2, <1>3, <1>4, <1>5 DEF Safe

LEMMA OutsideKeepsCore ==
    ASSUME Core, SetupEvent \/ SetGuiState \/ LocalCommandAges \/ SecondPasses \/ UNCHANGED vars
    PROVE  Core'
<1> USE CoreParts DEF Outside, guiVars, bridgeVars, linkVars, historyVars, vars
<1>1. Flags'
  BY DEF Flags, SetupEvent, SetGuiState, LocalCommandAges, SecondPasses
<1>2. BridgeTyped'
  BY DEF BridgeTyped, SetupEvent, SetGuiState, LocalCommandAges, SecondPasses
<1>3. faults' \in Nat
  BY FaultCounted DEF Counted, SetupEvent, SetGuiState, LocalCommandAges, SecondPasses
<1>4. LinkTyped' /\ Counted'
  BY <1>3 DEF LinkTyped, Counted, SetupEvent, SetGuiState, LocalCommandAges, SecondPasses
<1>5. Safe'
  BY DEF Safe, RefreshQueued, InFlightIsHead, PastTheEdge, OfThisSession, Waiting,
     SetupEvent, SetGuiState, LocalCommandAges, SecondPasses
<1> QED BY <1>1, <1>2, <1>4, <1>5

------------------------------------------------------------------------------
(* The order of the operator's messages                                      *)

(* What a step does to the queue and to what the requests carry: a message is added  *)
(* behind the others, the first is put on the path or finished with after its       *)
(* answer, or all are lost.                                                  *)
Same == UNCHANGED <<asked, carried, presses>>
LEMMA QueueStep ==
    ASSUME Core, [Next]_vars
    PROVE  \/ Same /\ messages' = messages
           \/ Same /\ messages' = <<>> /\ UNCHANGED outcome
           \/ Same /\ messages' = Append(messages, Refresh) /\ UNCHANGED outcome
           \/ /\ Same /\ messages # <<>> /\ messages' = Tail(messages) /\ UNCHANGED outcome
              /\ mine \in 1..asked /\ carried[mine] = Head(messages) /\ outcome[mine] # "none"
           \/ /\ asked < NumCommands /\ asked' = asked + 1 /\ messages # <<>>
              /\ carried' = [carried EXCEPT ![asked + 1] = Head(messages)]
              /\ UNCHANGED <<messages, presses, outcome>>
           \/ /\ presses < MaxPresses /\ presses' = presses + 1
              /\ messages' = Append(messages, presses + 1)
              /\ UNCHANGED <<asked, carried, outcome>>
<1>1. CASE Send
  BY <1>1 DEF Send, HandleCommand, Bridge!Ask, guiVars
<1>2. CASE QueueMessage
  BY <1>2 DEF QueueMessage, Outside, bridgeVars, historyVars
<1>3. CASE Update
  BY <1>3 DEF Update, bridgeVars, guiVars, historyVars, Same
<1>4. CASE ReceiveSnapshot \/ ReceiveNoSnapshot \/ ReceiveAcknowledgement
  <2>1. Receive
    BY <1>4 DEF ReceiveSnapshot, ReceiveNoSnapshot, ReceiveAcknowledgement
  <2>2. mine \in 1..asked /\ carried[mine] = Head(messages) /\ outcome[mine] # "none"
        /\ messages # <<>>
    <3>1. Waiting /\ outcome[mine] # "none"
      BY <2>1 DEF Receive, AnswerWaits
    <3>2. mine \in 0..NumCommands /\ asked \in 0..NumCommands /\ mine # 0 /\ mine <= asked
      BY <3>1, CoreParts DEF LinkTyped, BridgeTyped, Core, OfThisSession, Waiting
    <3> QED BY <3>1, <3>2 DEF Core, InFlightIsHead
  <2> QED BY <2>1, <2>2 DEF Receive, HandleCommand, bridgeVars, guiVars, Same
<1>5. CASE OnChannelLost \/ OnChannelBecameReady
  BY <1>5 DEF OnChannelLost, OnChannelBecameReady, bridgeVars, guiVars, Same
<1>6. CASE CheckConnections \/ SessionGained \/ SessionLost
  BY <1>6 DEF SessionGained, SessionLost, DriveSession, CheckConnections, bridgeVars,
     Bridge!SessionChanges, linkVars, guiVars, historyVars, Same
<1>7. CASE \/ ServeNothing \/ PollFails \/ Take \/ Refuse \/ NoCommand
           \/ Complete \/ RespondNothing \/ RespondOutOfBand
  BY <1>7 DEF ServeNothing, PollFails, Take, Refuse, NoCommand, Complete, RespondNothing,
     RespondOutOfBand, Serve, Respond, Return, bridgeVars, linkVars, guiVars, historyVars,
     Same, Bridge!Accept, Bridge!Refuse, Bridge!Complete
<1> QED
  BY <1>1, <1>2, <1>3, <1>4, <1>5, <1>6, <1>7
     DEF Next, Pass, vars, bridgeVars, linkVars, guiVars, historyVars, Outside, StillLost,
         StillReady, LocalTimeout, HandleCommand, NothingToSend, HandleSubscriber,
         SetupEvent, SetGuiState, LocalCommandAges, SecondPasses, Same

(* Whatever the step, messages keep the order they were made in.                 *)
LEMMA NextKeepsInOrder == ASSUME Core, InOrder, [Next]_vars PROVE InOrder'
<1>0. /\ messages \in Seq(Nat) /\ asked \in Nat /\ presses \in Nat /\ NumCommands \in Nat
      /\ carried \in [1..NumCommands -> Nat] /\ asked <= NumCommands
  <2>1. messages \in Seq(0..MaxPresses) /\ carried \in [1..NumCommands -> 0..MaxPresses]
    BY CoreParts DEF LinkTyped, Counted
  <2> QED BY <2>1, CoreParts DEF BridgeTyped, Counted
<1> USE DEF InOrder, CommandsInOrder, QueueInOrder, Refresh
<1>1. CASE Same /\ messages' = messages
  BY <1>1 DEF Same
<1>2. CASE Same /\ messages' = <<>>
  BY <1>2 DEF Same
<1>3. CASE Same /\ messages' = Append(messages, Refresh)
  <2>1. /\ DOMAIN messages' = 1..Len(messages) + 1 /\ messages'[Len(messages) + 1] = Refresh
        /\ DOMAIN messages = 1..Len(messages) /\ Len(messages) \in Nat
        /\ \A i \in 1..Len(messages) : messages'[i] = messages[i]
    BY <1>0, <1>3
  <2> QED BY <1>0, <1>3, <2>1 DEF Same
<1>4. CASE Same /\ messages # <<>> /\ messages' = Tail(messages)
  <2>1. /\ DOMAIN messages' = 1..Len(messages) - 1 /\ Len(messages) \in Nat
        /\ DOMAIN messages = 1..Len(messages)
        /\ \A i \in 1..Len(messages) - 1 :
             messages'[i] = messages[i + 1] /\ i + 1 \in DOMAIN messages
    BY <1>0, <1>4
  <2>2. Same /\ CommandsInOrder'
    BY <1>4 DEF Same
  <2>3. ASSUME NEW i \in DOMAIN messages', NEW j \in DOMAIN messages', i < j
        PROVE  messages'[j] = Refresh \/ messages'[i] < messages'[j]
    <3>1. /\ i \in 1..Len(messages) - 1 /\ j \in 1..Len(messages) - 1
          /\ i + 1 \in DOMAIN messages /\ j + 1 \in DOMAIN messages /\ i + 1 < j + 1
      BY <2>1, <2>3
    <3>2. messages[j + 1] = Refresh \/ messages[i + 1] < messages[j + 1]
      BY <3>1
    <3> QED BY <2>1, <3>1, <3>2
  <2>4. \A i \in DOMAIN messages' : messages'[i] <= presses'
    BY <2>1, <2>2 DEF Same
  <2>5. /\ \A n \in 1..asked' : carried'[n] <= presses'
        /\ \A n \in 1..asked', i \in DOMAIN messages' :
             messages'[i] = Refresh \/ carried'[n] <= messages'[i]
    BY <2>1, <2>2 DEF Same
  <2> QED BY <2>2, <2>3, <2>4, <2>5
<1>5. CASE /\ asked < NumCommands /\ asked' = asked + 1 /\ messages # <<>>
           /\ carried' = [carried EXCEPT ![asked + 1] = Head(messages)]
           /\ UNCHANGED <<messages, presses>>
  <2>1. /\ DOMAIN messages = 1..Len(messages) /\ 1 \in DOMAIN messages
        /\ carried'[asked + 1] = messages[1]
        /\ \A i \in DOMAIN messages : messages[i] \in Nat
        /\ \A n \in 1..asked : carried'[n] = carried[n] /\ carried[n] \in Nat
        /\ \A n \in 1..asked' : n \in 1..asked \/ n = asked + 1
    BY <1>0, <1>5
  <2>2. ASSUME NEW i \in DOMAIN messages
        PROVE  messages[i] = Refresh \/ messages[1] <= messages[i]
    <3>1. CASE i = 1
      BY <2>1, <3>1
    <3>2. CASE 1 < i
      <4>1. messages[i] = Refresh \/ messages[1] < messages[i]
        BY <2>1, <3>2
      <4> QED BY <2>1, <4>1
    <3>3. i \in 1..Len(messages) /\ Len(messages) \in Nat
      BY <1>0, <2>1
    <3> QED BY <3>1, <3>2, <3>3
  <2>3. ASSUME NEW m \in 1..asked', NEW n \in 1..asked', m < n
        PROVE  carried'[n] = Refresh \/ carried'[m] <= carried'[n]
    <3>1. m \in 1..asked
      BY <1>0, <1>5, <2>3
    <3>2. CASE n = asked + 1
      BY <2>1, <3>1, <3>2
    <3>3. CASE n \in 1..asked
      BY <2>1, <2>3, <3>1, <3>3
    <3> QED BY <2>1, <3>2, <3>3
  <2>4. QueueInOrder'
    BY <1>0, <1>5, <2>1, <2>2
  <2> QED BY <2>3, <2>4
<1>6. CASE /\ presses' = presses + 1 /\ messages' = Append(messages, presses + 1)
           /\ UNCHANGED <<asked, carried>>
  <2>1. /\ DOMAIN messages' = 1..Len(messages) + 1 /\ Len(messages) \in Nat
        /\ DOMAIN messages = 1..Len(messages)
        /\ messages'[Len(messages) + 1] = presses + 1
        /\ \A i \in 1..Len(messages) : messages'[i] = messages[i] /\ messages[i] \in Nat
        /\ \A n \in 1..asked : carried[n] \in Nat
    BY <1>0, <1>6
  <2>2. \A n \in 1..asked : carried[n] <= presses + 1
    BY <1>0, <2>1
  <2>3. CommandsInOrder'
    BY <1>6
  <2>4. QueueInOrder'
    BY <1>0, <1>6, <2>1, <2>2
  <2> QED BY <2>3, <2>4
<1> QED BY <1>1, <1>2, <1>3, <1>4, <1>5, <1>6, QueueStep

(* The invariant of a Connection: every step of idle, of the operator and of the    *)
(* monitor threads keeps it.                                                   *)
THEOREM Invariance == Spec => []IInv
<1>1. Core /\ [Next]_vars => Core'
  BY CheckKeepsCore, EdgeKeepsCore, UpdateKeepsCore, SendKeepsCore, ReceiveKeepsCore,
     RestKeepsCore, QueueMessageKeepsCore, OutsideKeepsCore DEF Next, Pass
<1>2. IInv <=> Core /\ InOrder
  BY DEF IInv, Core, InOrder
<1>3. Init => InOrder
  BY DEF Init, Bridge!Init, InOrder, CommandsInOrder, QueueInOrder
<1> QED BY InitCore, NextKeepsInOrder, <1>1, <1>2, <1>3, PTL DEF Spec

(* The parts of the invariant the theorems below use.                            *)
LEMMA IInvCore == IInv => Core /\ Flags /\ BridgeTyped /\ LinkTyped /\ Counted /\ InOrder
BY CoreParts DEF IInv, Core, InOrder

(* The members of a Connection and of the bridge keep their types.               *)
THEOREM TypeCorrect == Spec => []TypeOK
<1>1. IInv => TypeOK
  BY DEF IInv
<1> QED BY Invariance, <1>1, PTL

(* Whenever EditorGUI::update waits for a snapshot, its request is queued or under  *)
(* way, whatever timeouts, lost sessions and bad answers came before.            *)
THEOREM SnapshotsAreRequested == Spec => []RefreshQueued
<1>1. IInv => RefreshQueued
  BY DEF IInv
<1> QED BY Invariance, <1>1, PTL

(* handleCommand runs the callback of the message that was answered.              *)
THEOREM CallbacksMatch == Spec => []InFlightIsHead
<1>1. IInv => InFlightIsHead
  BY DEF IInv
<1> QED BY Invariance, <1>1, PTL

(* With a session up, values count as loaded only from a snapshot of that session. *)
THEOREM SnapshotsAreCurrent == Spec => []SnapshotIsCurrent
<1>1. IInv => SnapshotIsCurrent
  BY DEF IInv, OfThisSession, SnapshotIsCurrent
<1> QED BY Invariance, <1>1, PTL

(* Operator messages still queued when the session is lost are never sent.         *)
THEOREM LostMessagesStayLost == Spec => NoStaleSend
<1>1. ASSUME IInv, [Next]_vars, asked' # asked
      PROVE  carried'[asked'] = Refresh \/ carried'[asked'] > dropped
  <2>1. CASE Send
    <3>1. asked + 1 \in 1..NumCommands /\ 1 \in DOMAIN messages
      BY <1>1, <2>1, IInvCore DEF Send, Bridge!Ask, BridgeTyped, LinkTyped
    <3>2. asked' = asked + 1 /\ carried'[asked + 1] = messages[1]
      BY <1>1, <2>1, <3>1, IInvCore DEF Send, Bridge!Ask, Counted
    <3> QED BY <1>1, <3>1, <3>2 DEF IInv, OfThisSession
  <2>2. ~Send => asked' = asked
    BY <1>1 DEF Next, Pass, vars, bridgeVars, Outside, CheckConnections, DriveSession,
       SessionGained, SessionLost, ServeNothing, PollFails, Take, Refuse, NoCommand, Complete, RespondNothing,
       RespondOutOfBand, OnChannelLost, StillLost, OnChannelBecameReady, StillReady, Update, LocalTimeout, ReceiveSnapshot,
       ReceiveNoSnapshot, ReceiveAcknowledgement, Receive, NothingToSend, HandleSubscriber,
       QueueMessage, SetupEvent, SetGuiState, LocalCommandAges, SecondPasses,
       Bridge!SessionChanges, Bridge!Accept, Bridge!Refuse, Bridge!Complete
  <2> QED BY <1>1, <2>1, <2>2
<1> QED BY Invariance, <1>1, PTL DEF Spec, NoStaleSend

------------------------------------------------------------------------------
(* The Connection and the bridge                                             *)

(* Whatever idle, the operator and the monitor threads do is, for the bridge, a    *)
(* step of it or nothing.                                                     *)
LEMMA BridgeStep ==
    ASSUME Flags, [Next]_vars
    PROVE  [Bridge!Next]_(Bridge!bridgeVars)
<1> USE DEF Bridge!Next
<1>1. ASSUME ready' \in BOOLEAN, UNCHANGED <<asked, inbox, serving, outcome>>
      PROVE  Bridge!SessionChanges
  BY <1>1 DEF Bridge!SessionChanges
<1>2. ready \in BOOLEAN
  BY DEF Flags
<1>3. CASE UNCHANGED bridgeVars
  BY <1>3 DEF bridgeVars, Bridge!bridgeVars
<1>4. CASE SessionGained \/ SessionLost
  BY <1>4 DEF SessionGained, SessionLost, DriveSession
<1>5. CASE Take \/ Refuse \/ Complete
  BY <1>5 DEF Take, Refuse, Complete
<1>6. CASE PollFails \/ RespondOutOfBand \/ HandleSubscriber
  <2>1. ready' \in BOOLEAN /\ UNCHANGED <<asked, inbox, serving, outcome>>
    BY <1>2, <1>6 DEF PollFails, RespondOutOfBand, HandleSubscriber
  <2> QED BY <1>1, <2>1
<1>7. CASE Send
  BY <1>7 DEF Send
<1> QED
  BY <1>3, <1>4, <1>5, <1>6, <1>7
     DEF Next, Pass, vars, Outside, CheckConnections, ServeNothing, NoCommand, RespondNothing,
         OnChannelLost, StillLost, OnChannelBecameReady, StillReady, Update, LocalTimeout, ReceiveSnapshot,
         ReceiveNoSnapshot, ReceiveAcknowledgement, Receive, NothingToSend,
         QueueMessage, SetupEvent, SetGuiState, LocalCommandAges, SecondPasses

(* A Connection asks and is served only as the bridge allows.                   *)
THEOREM UsesBridge == Spec => Bridge!Spec
<1>1. Init => Bridge!Init
  BY DEF Init
<1>2. IInv /\ [Next]_vars => [Bridge!Next]_(Bridge!bridgeVars)
  BY IInvCore, BridgeStep
<1> QED BY <1>1, <1>2, Invariance, PTL DEF Spec, Bridge!Spec

BridgeProofs == INSTANCE CommandBridge_proofs

(* The two instances of the bridge are one.                                    *)
LEMMA SameBridge ==
    /\ Bridge!Init <=> BridgeProofs!Init
    /\ [Bridge!Next]_(Bridge!bridgeVars) <=> [BridgeProofs!Next]_(BridgeProofs!bridgeVars)
    /\ Bridge!Accounted <=> BridgeProofs!Accounted
<1>1. Bridge!Init <=> BridgeProofs!Init
  BY DEF Bridge!Init, BridgeProofs!Init, Bridge!Commands, BridgeProofs!Commands
<1>2. [Bridge!Next]_(Bridge!bridgeVars) <=> [BridgeProofs!Next]_(BridgeProofs!bridgeVars)
  BY DEF Bridge!Next, BridgeProofs!Next, Bridge!bridgeVars, BridgeProofs!bridgeVars,
     Bridge!Ask, Bridge!Accept, Bridge!Refuse, Bridge!Complete, Bridge!SessionChanges,
     BridgeProofs!Ask, BridgeProofs!Accept, BridgeProofs!Refuse, BridgeProofs!Complete,
     BridgeProofs!SessionChanges, Bridge!Refusals, BridgeProofs!Refusals,
     Bridge!Completions, BridgeProofs!Completions
<1>3. Bridge!Accounted <=> BridgeProofs!Accounted
  BY DEF Bridge!Accounted, BridgeProofs!Accounted, Bridge!Commands, BridgeProofs!Commands,
     Bridge!Answered, BridgeProofs!Answered
<1> QED BY <1>1, <1>2, <1>3

(* No request of the Connection is lost, overtaken or answered twice.             *)
THEOREM RequestsAccounted == Spec => []Bridge!Accounted
<1>1. BridgeProofs!Spec => []BridgeProofs!Accounted
  BY BridgeProofs!RequestsAccounted
<1> QED BY UsesBridge, SameBridge, <1>1, PTL DEF BridgeProofs!Spec, Bridge!Spec

------------------------------------------------------------------------------
(* The Connection and the operator                                           *)

(* The refinement mapping.                                                    *)
Queued == {messages[i] : i \in DOMAIN messages} \ {Refresh}
Sent == CarriedBy(1..asked)
Done == CarriedBy({n \in 1..asked : outcome[n] # "none"})

(* Answers are given to requests that were made.                                *)
LEMMA OutcomeStep ==
    ASSUME Core, Bridge!Accounted, [Next]_vars
    PROVE  \/ outcome' = outcome
           \/ \E c \in 1..asked, r \in Bridge!Outcomes \ {"none"} :
                outcome' = [outcome EXCEPT ![c] = r]
<1>0. /\ Flags /\ inbox \in Seq(1..NumCommands) /\ asked \in 0..NumCommands
      /\ serving \in 0..NumCommands /\ Len(inbox) \in Nat
  BY CoreParts DEF BridgeTyped
<1>1. [Bridge!Next]_(Bridge!bridgeVars)
  BY <1>0, BridgeStep
<1>2. ASSUME Bridge!Refuse PROVE Head(inbox) \in 1..asked
  <2>1. inbox # <<>>
    BY <1>2 DEF Bridge!Refuse
  <2>2. Head(inbox) = inbox[1] /\ Len(inbox) >= 1 /\ Head(inbox) \in 1..NumCommands
    BY <1>0, <2>1
  <2>3. inbox[1] = asked - Len(inbox) + 1
    BY <2>2, <1>0 DEF Bridge!Accounted
  <2> QED BY <1>0, <2>2, <2>3
<1>3. ASSUME Bridge!Complete PROVE serving \in 1..asked
  <2>1. serving # 0 /\ serving = asked - Len(inbox)
    BY <1>3 DEF Bridge!Complete, Bridge!Accounted
  <2> QED BY <1>0, <2>1
<1>4. CASE Bridge!Refuse
  BY <1>2, <1>4 DEF Bridge!Refuse, Bridge!Outcomes, Bridge!Refusals
<1>5. CASE Bridge!Complete
  BY <1>3, <1>5 DEF Bridge!Complete, Bridge!Outcomes, Bridge!Completions
<1>6. CASE ~Bridge!Refuse /\ ~Bridge!Complete
  BY <1>1, <1>6 DEF Bridge!Next, Bridge!bridgeVars, Bridge!Ask, Bridge!Accept,
     Bridge!SessionChanges
<1> QED BY <1>4, <1>5, <1>6

(* The elements of a queue with one more behind, and of one without its first.    *)
LEMMA RangeOfAppend ==
    ASSUME NEW S, NEW s \in Seq(S), NEW x \in S, NEW t, t = Append(s, x)
    PROVE  {t[i] : i \in DOMAIN t} = {s[i] : i \in DOMAIN s} \cup {x}
<1>1. /\ DOMAIN t = 1..Len(s) + 1 /\ DOMAIN s = 1..Len(s) /\ Len(s) \in Nat
      /\ t[Len(s) + 1] = x
      /\ \A i \in 1..Len(s) : t[i] = s[i]
  OBVIOUS
<1>2. 1..Len(s) + 1 = 1..Len(s) \cup {Len(s) + 1}
  BY <1>1
<1> QED BY <1>1, <1>2

LEMMA RangeOfTail ==
    ASSUME NEW S, NEW s \in Seq(S), s # <<>>
    PROVE  {Tail(s)[i] : i \in DOMAIN Tail(s)} = {s[i] : i \in 2..Len(s)}
<1>1. /\ DOMAIN Tail(s) = 1..Len(s) - 1 /\ Len(s) \in Nat
      /\ \A i \in 1..Len(s) - 1 : Tail(s)[i] = s[i + 1]
  OBVIOUS
<1>2. \A i \in 1..Len(s) - 1 : i + 1 \in 2..Len(s)
  BY <1>1
<1>3. \A i \in 2..Len(s) : i - 1 \in 1..Len(s) - 1 /\ Tail(s)[i - 1] = s[i]
  BY <1>1
<1>4. \A i \in DOMAIN Tail(s) : \E j \in 2..Len(s) : Tail(s)[i] = s[j]
  BY <1>1, <1>2
<1>5. \A j \in 2..Len(s) : \E i \in DOMAIN Tail(s) : Tail(s)[i] = s[j]
  BY <1>1, <1>3
<1> DEFINE t == Tail(s)
<1>6. (\A i \in DOMAIN t : \E j \in 2..Len(s) : t[i] = s[j])
        /\ (\A j \in 2..Len(s) : \E i \in DOMAIN t : t[i] = s[j])
  BY <1>4, <1>5
<1> HIDE DEF t
<1>7. {t[i] : i \in DOMAIN t} = {s[i] : i \in 2..Len(s)}
  <2>1. \A x \in {t[i] : i \in DOMAIN t} : x \in {s[i] : i \in 2..Len(s)}
    BY <1>6
  <2>2. \A x \in {s[i] : i \in 2..Len(s)} : x \in {t[i] : i \in DOMAIN t}
    BY <1>6
  <2> QED BY <2>1, <2>2
<1> QED BY <1>7 DEF t

(* Every step is one of the operator's queue, or none of its business.            *)
LEMMA OperatorStep ==
    ASSUME Core, InOrder, Bridge!Accounted, [Next]_vars
    PROVE  [Operator!Next]_(Operator!operatorVars)
<1>0. /\ messages \in Seq(0..MaxPresses) /\ asked \in 0..NumCommands
      /\ carried \in [1..NumCommands -> 0..MaxPresses] /\ presses \in 0..MaxPresses
      /\ outcome \in [1..NumCommands -> Bridge!Outcomes]
      /\ DOMAIN messages = 1..Len(messages) /\ Len(messages) \in Nat
  <2>1. /\ messages \in Seq(0..MaxPresses) /\ asked \in 0..NumCommands
        /\ carried \in [1..NumCommands -> 0..MaxPresses] /\ presses \in 0..MaxPresses
        /\ outcome \in [1..NumCommands -> Bridge!Outcomes]
    BY CoreParts DEF LinkTyped, Counted, BridgeTyped
  <2> QED BY <2>1
<1> DEFINE Stutter == UNCHANGED <<presses, Queued, Sent, Done>>
<1>1. Stutter => [Operator!Next]_(Operator!operatorVars)
  BY DEF Operator!operatorVars, Queued, Sent, Done
<1>2. ASSUME Same, UNCHANGED outcome PROVE UNCHANGED <<presses, Sent, Done>>
  BY <1>2 DEF Same, Sent, Done, CarriedBy
<1>3. messages # <<>> =>
        /\ Head(messages) = messages[1] /\ 1 \in DOMAIN messages /\ Len(messages) >= 1
        /\ Head(messages) # Refresh => Operator!Oldest(Head(messages))
  <2> SUFFICES ASSUME messages # <<>>
      PROVE  /\ Head(messages) = messages[1] /\ 1 \in DOMAIN messages /\ Len(messages) >= 1
             /\ Head(messages) # Refresh => Operator!Oldest(Head(messages))
    OBVIOUS
  <2>1. Head(messages) = messages[1] /\ 1 \in DOMAIN messages /\ Len(messages) >= 1
    BY <1>0
  <2>2. ASSUME NEW i \in DOMAIN messages, messages[i] # Refresh
        PROVE  messages[1] <= messages[i]
    <3>1. CASE i = 1
      BY <1>0, <2>1, <3>1
    <3>2. CASE i # 1
      <4>1. 1 \in DOMAIN messages /\ i \in DOMAIN messages /\ 1 < i
        BY <1>0, <2>1, <2>2, <3>2
      <4>2. messages[1] < messages[i]
        BY <2>2, <4>1 DEF InOrder, QueueInOrder
      <4>3. messages[1] \in Nat /\ messages[i] \in Nat
        BY <1>0, <4>1
      <4> QED BY <4>2, <4>3
    <3> QED BY <3>1, <3>2
  <2> QED BY <2>1, <2>2 DEF Operator!Oldest
<1>4. CASE Same /\ messages' = messages
  <2>1. UNCHANGED <<presses, Queued, Sent>>
    BY <1>4 DEF Same, Queued, Sent, CarriedBy
  <2>2. CASE outcome' = outcome
    BY <1>1, <1>2, <1>4, <2>1, <2>2
  <2>3. ASSUME NEW c \in 1..asked, NEW r \in Bridge!Outcomes \ {"none"},
               outcome' = [outcome EXCEPT ![c] = r]
        PROVE  [Operator!Next]_(Operator!operatorVars)
    <3>1. Done' = Done \cup ({carried[c]} \ {Refresh})
      BY <1>0, <1>4, <2>3 DEF Same, Done, CarriedBy
    <3>2. CASE carried[c] = Refresh
      <4>1. Done' = Done
        BY <3>1, <3>2
      <4> QED BY <1>1, <2>1, <4>1
    <3>3. CASE carried[c] # Refresh
      <4>1. carried[c] \in Sent /\ Done' = Done \cup {carried[c]}
        BY <3>1, <3>3 DEF Sent, CarriedBy
      <4>2. Operator!Answer
        BY <2>1, <4>1 DEF Operator!Answer, Sent, Done, Queued
      <4> QED BY <4>2 DEF Operator!Next
    <3> QED BY <3>2, <3>3
  <2> QED BY <2>2, <2>3, OutcomeStep
<1>5. CASE Same /\ messages' = <<>> /\ UNCHANGED outcome
  <2>1. Queued' = {}
    BY <1>5 DEF Queued
  <2> QED BY <1>2, <1>5, <2>1 DEF Operator!Next, Operator!LoseAll, Queued, Sent, Done
<1>6. CASE Same /\ messages' = Append(messages, Refresh) /\ UNCHANGED outcome
  <2>1. Refresh \in 0..MaxPresses
    BY DEF Refresh
  <2>2. Queued' = Queued
    BY <1>0, <1>6, <2>1, RangeOfAppend DEF Queued
  <2> QED BY <1>1, <1>2, <1>6, <2>2
<1>7. CASE /\ Same /\ messages # <<>> /\ messages' = Tail(messages) /\ UNCHANGED outcome
           /\ mine \in 1..asked /\ carried[mine] = Head(messages) /\ outcome[mine] # "none"
  <2>1. ASSUME Head(messages) # Refresh, NEW i \in 2..Len(messages)
        PROVE  messages[i] # Head(messages)
    <3>1. 1 \in DOMAIN messages /\ i \in DOMAIN messages /\ 1 < i
      BY <1>0, <1>3, <1>7, <2>1
    <3>2. messages[i] = Refresh \/ messages[1] < messages[i]
      BY <3>1 DEF InOrder, QueueInOrder
    <3>3. messages[1] \in Nat /\ messages[i] \in Nat
      BY <1>0, <3>1
    <3> QED BY <1>3, <1>7, <2>1, <3>2, <3>3
  <2>2. {Tail(messages)[i] : i \in DOMAIN Tail(messages)} = {messages[i] : i \in 2..Len(messages)}
    BY <1>0, <1>7, RangeOfTail
  <2>3. Queued' = Queued \ {Head(messages)}
    <3>1. \A i \in DOMAIN messages : i = 1 \/ i \in 2..Len(messages)
      BY <1>0
    <3>2. \A i \in 2..Len(messages) : i \in DOMAIN messages
      BY <1>0
    <3>3. Queued' = {messages[i] : i \in 2..Len(messages)} \ {Refresh}
      BY <1>7, <2>2 DEF Queued
    <3>4. Queued = ({Head(messages)} \cup {messages[i] : i \in 2..Len(messages)}) \ {Refresh}
      BY <1>3, <1>7, <3>1, <3>2 DEF Queued
    <3>5. Head(messages) # Refresh =>
            Head(messages) \notin {messages[i] : i \in 2..Len(messages)}
      BY <2>1
    <3> QED BY <3>3, <3>4, <3>5
  <2>4. CASE Head(messages) = Refresh
    <3>1. Queued' = Queued
      BY <2>3, <2>4 DEF Queued
    <3> QED BY <1>1, <1>2, <1>7, <3>1
  <2>5. CASE Head(messages) # Refresh
    <3>1. Head(messages) \in Queued \cap Done
      BY <1>3, <1>7, <2>5 DEF Queued, Done, CarriedBy
    <3> QED BY <1>2, <1>3, <1>7, <2>3, <2>5, <3>1
            DEF Operator!Next, Operator!Finish, Queued, Sent, Done
  <2> QED BY <2>4, <2>5
<1>8. CASE /\ asked < NumCommands /\ asked' = asked + 1 /\ messages # <<>>
           /\ carried' = [carried EXCEPT ![asked + 1] = Head(messages)]
           /\ UNCHANGED <<messages, presses, outcome>>
  <2>1. outcome[asked + 1] = "none"
    <3>1. asked + 1 \in Bridge!Commands /\ ~(asked + 1 <= Bridge!Answered)
      BY <1>0, <1>8 DEF Bridge!Accounted, Bridge!Commands
    <3> QED BY <3>1 DEF Bridge!Accounted
  <2>2. /\ carried'[asked + 1] = Head(messages)
        /\ \A n \in 1..asked : carried'[n] = carried[n]
        /\ \A n \in 1..asked' : n \in 1..asked \/ n = asked + 1
        /\ 1..asked \subseteq 1..asked' /\ asked + 1 \in 1..asked'
    BY <1>0, <1>8
  <2>3. Sent' = Sent \cup ({Head(messages)} \ {Refresh})
    BY <2>2 DEF Sent, CarriedBy
  <2>4. Done' = Done
    BY <1>8, <2>1, <2>2 DEF Done, CarriedBy
  <2>5. Queued' = Queued
    BY <1>8 DEF Queued
  <2>6. CASE Head(messages) = Refresh
    <3>1. Sent' = Sent
      BY <2>3, <2>6
    <3> QED BY <1>1, <1>8, <2>4, <2>5, <3>1
  <2>7. CASE Head(messages) # Refresh
    <3>1. Head(messages) \in Queued /\ Sent' = Sent \cup {Head(messages)}
      BY <1>3, <1>8, <2>3, <2>7 DEF Queued
    <3> QED BY <1>3, <1>8, <2>4, <2>5, <2>7, <3>1
            DEF Operator!Next, Operator!Send, Queued, Sent, Done
  <2> QED BY <2>6, <2>7
<1>9. CASE /\ presses < MaxPresses /\ presses' = presses + 1
           /\ messages' = Append(messages, presses + 1)
           /\ UNCHANGED <<asked, carried, outcome>>
  <2>1. presses + 1 \in 0..MaxPresses /\ presses + 1 # Refresh
    BY <1>0, <1>9 DEF Refresh
  <2>2. Queued' = Queued \cup {presses + 1}
    <3>1. PICK m \in 0..MaxPresses : m = presses + 1
      BY <2>1
    <3>2. messages' = Append(messages, m) /\ m # Refresh
      BY <1>9, <2>1, <3>1
    <3>3. {messages'[i] : i \in DOMAIN messages'} = {messages[i] : i \in DOMAIN messages} \cup {m}
      <4>1. messages \in Seq(0..MaxPresses)
        BY <1>0
      <4> QED BY <3>2, <4>1, RangeOfAppend, SMTT(30)
    <3> QED BY <3>1, <3>2, <3>3 DEF Queued
  <2>3. UNCHANGED <<Sent, Done>>
    BY <1>9 DEF Sent, Done, CarriedBy
  <2> QED BY <1>9, <2>2, <2>3 DEF Operator!Next, Operator!Make, Queued, Sent, Done
<1> QED BY <1>4, <1>5, <1>6, <1>7, <1>8, <1>9, QueueStep

(* The Connection keeps its promise to the operator's messages: only the oldest is    *)
(* sent, only one that was answered is finished with, and only the loss of the      *)
(* session takes others.                                                     *)
THEOREM ServesOperator == Spec => OperatorSpec
<1>1. Init => Operator!Init
  BY DEF Init, Operator!Init, Bridge!Init, CarriedBy
<1>2. IInv /\ Bridge!Accounted /\ [Next]_vars => [Operator!Next]_(Operator!operatorVars)
  BY IInvCore, OperatorStep
<1> QED BY <1>1, <1>2, Invariance, RequestsAccounted, PTL DEF Spec, OperatorSpec, Operator!Spec

(* Repetitions included, messages go out in the order the operator gave them.     *)
THEOREM CommandsOrdered == Spec => []CommandsInOrder
<1>1. IInv => CommandsInOrder
  BY DEF IInv
<1> QED BY <1>1, Invariance, PTL
==============================================================================
