-------------------------- MODULE CommandBridge_proofs --------------------------
(***************************************************************************)
(* What follows from the command bridge alone, for any number of requests.    *)
(* Whatever implements the bridge, or is built on it, inherits these.          *)
(***************************************************************************)
EXTENDS CommandBridge, TLAPS

(* Every variable has its type, and the requests are accounted for.             *)
Typed ==
    /\ ready \in BOOLEAN
    /\ asked \in 0..NumCommands
    /\ inbox \in Seq(Commands)
    /\ serving \in 0..NumCommands
    /\ outcome \in [Commands -> Outcomes]
BridgeInv == Typed /\ Accounted

(* What an answer to request c does to the outcomes.                            *)
Answers(c) == \E r \in Refusals \cup Completions : outcome' = [outcome EXCEPT ![c] = r]

LEMMA AnswerFields ==
    ASSUME Typed, NEW c \in Commands, Answers(c)
    PROVE  /\ outcome' \in [Commands -> Outcomes]
           /\ outcome'[c] # "none"
           /\ \A d \in Commands \ {c} : outcome'[d] = outcome[d]
<1>1. PICK r \in Refusals \cup Completions : outcome' = [outcome EXCEPT ![c] = r]
  BY DEF Answers
<1>2. r \in Outcomes /\ r # "none"
  BY DEF Outcomes, Refusals, Completions
<1> QED BY <1>1, <1>2 DEF Typed

(* The request at the head of the socket is the first that waits.                *)
LEMMA HeadFields ==
    ASSUME NumCommands \in Nat, BridgeInv, inbox # <<>>
    PROVE  /\ Len(inbox) \in Nat \ {0} /\ Head(inbox) \in Commands
           /\ Head(inbox) = asked - Len(inbox) + 1
           /\ Tail(inbox) \in Seq(Commands) /\ Len(Tail(inbox)) = Len(inbox) - 1
           /\ \A i \in 1..Len(Tail(inbox)) : Tail(inbox)[i] = asked - Len(Tail(inbox)) + i
<1>1. inbox \in Seq(Commands) /\ asked \in Nat
  BY DEF BridgeInv, Typed
<1>2. /\ Len(inbox) \in Nat \ {0} /\ Head(inbox) = inbox[1]
      /\ Tail(inbox) \in Seq(Commands) /\ Len(Tail(inbox)) = Len(inbox) - 1
      /\ \A i \in 1..Len(Tail(inbox)) : Tail(inbox)[i] = inbox[i + 1]
  BY <1>1
<1>3. \A i \in 1..Len(inbox) : inbox[i] = asked - Len(inbox) + i /\ inbox[i] \in Commands
  BY <1>1 DEF BridgeInv, Accounted
<1>4. 1 \in 1..Len(inbox) /\ \A i \in 1..Len(Tail(inbox)) : i + 1 \in 1..Len(inbox)
  BY <1>2
<1> QED BY <1>1, <1>2, <1>3, <1>4

LEMMA InitBridgeInv == ASSUME NumCommands \in Nat, Init PROVE BridgeInv
<1>1. outcome \in [Commands -> Outcomes] /\ \A c \in Commands : outcome[c] = "none"
  BY DEF Init, Outcomes
<1>2. Len(inbox) = 0
  BY DEF Init
<1>3. Typed
  <2>1. inbox \in Seq(Commands)
    BY DEF Init
  <2>2. asked \in 0..NumCommands /\ serving \in 0..NumCommands
    BY DEF Init
  <2>3. ready \in BOOLEAN
    BY DEF Init
  <2> QED BY <1>1, <2>1, <2>2, <2>3 DEF Typed
<1>4. asked = 0 /\ serving = 0
  BY DEF Init
<1>5. Answered = 0
  BY <1>2, <1>4 DEF Answered
<1>6. Accounted
  BY <1>1, <1>2, <1>4, <1>5 DEF Accounted, Commands
<1> QED BY <1>3, <1>6 DEF BridgeInv

(* Every step of the bridge answers, if anything, the first request that has no     *)
(* answer yet.                                                               *)
LEMMA NextBridgeInv ==
    ASSUME NumCommands \in Nat, BridgeInv, [Next]_bridgeVars
    PROVE  /\ BridgeInv'
           /\ \A c \in Commands : outcome[c] # "none" => outcome'[c] = outcome[c]
<1> DEFINE Final == \A c \in Commands : outcome[c] # "none" => outcome'[c] = outcome[c]
<1> USE DEF BridgeInv
<1>0. /\ Typed /\ Accounted
      /\ asked \in Nat /\ Len(inbox) \in Nat /\ serving \in Nat /\ NumCommands \in Nat
      /\ \A c \in Commands : c \in Nat
  BY DEF Typed, Commands
<1>1. CASE Ask
  <2>1. /\ Len(inbox') = Len(inbox) + 1 /\ inbox' \in Seq(Commands)
        /\ inbox'[Len(inbox) + 1] = asked + 1
        /\ \A i \in 1..Len(inbox) : inbox'[i] = inbox[i]
        /\ asked' = asked + 1 /\ asked < NumCommands
    BY <1>0, <1>1 DEF Ask, Typed, Commands
  <2>2. Answered' = Answered /\ asked' - Len(inbox') = asked - Len(inbox)
    BY <1>0, <1>1, <2>1 DEF Ask, Answered
  <2>3. ASSUME NEW i \in 1..Len(inbox') PROVE inbox'[i] = asked - Len(inbox) + i
    <3>1. CASE i = Len(inbox) + 1
      BY <1>0, <2>1, <3>1
    <3>2. CASE i # Len(inbox) + 1
      <4>1. i \in 1..Len(inbox)
        BY <1>0, <2>1, <3>2
      <4> QED BY <1>0, <2>1, <4>1 DEF Accounted
    <3> QED BY <3>1, <3>2
  <2>4. Typed'
    BY <1>0, <1>1, <2>1 DEF Ask, Typed
  <2>5. Accounted'
    <3>1. serving' = serving /\ outcome' = outcome
      BY <1>1 DEF Ask
    <3>2. Answered' \in 0..asked'
      BY <1>0, <2>1, <2>2 DEF Accounted
    <3>3. \A c \in Commands : outcome'[c] # "none" <=> c <= Answered'
      BY <1>0, <2>2, <3>1 DEF Accounted
    <3> QED BY <1>0, <2>2, <2>3, <3>1, <3>2, <3>3 DEF Accounted
  <2> QED BY <1>1, <2>4, <2>5 DEF Ask
<1>2. CASE Accept
  <2>1. inbox # <<>> /\ inbox' = Tail(inbox) /\ serving = 0 /\ serving' = Head(inbox)
    BY <1>2 DEF Accept
  <2>2. Typed'
    BY <1>0, <1>2, <2>1, HeadFields DEF Accept, Typed, Commands
  <2>3. serving' # 0 /\ serving' = asked - Len(inbox') /\ Answered' = Answered
    BY <1>0, <1>2, <2>1, HeadFields DEF Accept, Answered, Commands
  <2>4. Accounted'
    BY <1>0, <1>2, <2>1, <2>3, HeadFields DEF Accept, Accounted
  <2> QED BY <1>2, <2>2, <2>4 DEF Accept
<1>3. CASE Refuse
  <2>1. inbox # <<>> /\ inbox' = Tail(inbox) /\ serving = 0 /\ Answers(Head(inbox))
    BY <1>3 DEF Refuse, Answers
  <2>2. Typed'
    BY <1>0, <1>3, <2>1, HeadFields, AnswerFields DEF Refuse, Typed
  <2>3. Answered' = Answered + 1 /\ Head(inbox) = Answered + 1 /\ Answered + 1 <= asked
    BY <1>0, <1>3, <2>1, HeadFields DEF Refuse, Answered
  <2>4. /\ Answered + 1 \in Commands /\ outcome'[Answered + 1] # "none"
        /\ \A d \in Commands \ {Answered + 1} : outcome'[d] = outcome[d]
    BY <1>0, <2>1, <2>3, HeadFields, AnswerFields
  <2>5. Answered \in Nat /\ \A c \in Commands : outcome[c] # "none" <=> c <= Answered
    BY <1>0 DEF Accounted
  <2>6. \A c \in Commands : outcome'[c] # "none" <=> c <= Answered'
    BY <1>0, <2>3, <2>4, <2>5
  <2>7. Accounted'
    BY <1>0, <1>3, <2>1, <2>3, <2>6, HeadFields DEF Refuse, Accounted
  <2>8. Final
    BY <1>0, <2>4, <2>5
  <2> QED BY <2>2, <2>7, <2>8
<1>4. CASE Complete
  <2>1. serving # 0 /\ serving' = 0 /\ Answers(serving) /\ inbox' = inbox
    BY <1>4 DEF Complete, Answers
  <2>2. serving \in Commands /\ serving = Answered + 1 /\ Answered' = Answered + 1
        /\ Answered + 1 <= asked
    BY <1>0, <1>4, <2>1 DEF Complete, Answered, Accounted, Typed, Commands
  <2>3. Typed'
    <3>1. outcome' \in [Commands -> Outcomes]
      BY <1>0, <2>1, <2>2, AnswerFields
    <3>2. ready' \in BOOLEAN /\ asked' = asked
      BY <1>0, <1>4 DEF Complete, Typed
    <3> QED BY <1>0, <2>1, <3>1, <3>2 DEF Typed
  <2>4. \A c \in Commands : outcome'[c] # "none" <=> c <= Answered'
    BY <1>0, <2>1, <2>2, AnswerFields DEF Accounted
  <2>5. Accounted'
    BY <1>0, <1>4, <2>1, <2>2, <2>4 DEF Complete, Accounted
  <2>6. Final
    BY <1>0, <2>1, <2>2, AnswerFields DEF Accounted
  <2> QED BY <2>3, <2>5, <2>6
<1>5. CASE SessionChanges
  BY <1>5 DEF SessionChanges, Typed, Accounted, Answered
<1>6. CASE UNCHANGED bridgeVars
  BY <1>6 DEF bridgeVars, Typed, Accounted, Answered
<1> QED BY <1>1, <1>2, <1>3, <1>4, <1>5, <1>6 DEF Next

(* No request is lost, overtaken or there twice.                               *)
THEOREM RequestsAccounted == ASSUME NumCommands \in Nat PROVE Spec => []Accounted
<1>1. BridgeInv => Accounted
  BY DEF BridgeInv
<1> QED BY InitBridgeInv, NextBridgeInv, <1>1, PTL DEF Spec

(* No request is answered twice.                                              *)
THEOREM AnsweredOnce == ASSUME NumCommands \in Nat PROVE Spec => AnswersAreFinal
<1> DEFINE Final == \A c \in Commands : outcome[c] # "none" => outcome'[c] = outcome[c]
<1>1. BridgeInv /\ [Next]_bridgeVars => [Final]_bridgeVars
  BY NextBridgeInv
<1> QED BY InitBridgeInv, NextBridgeInv, <1>1, PTL DEF Spec, AnswersAreFinal
==============================================================================
