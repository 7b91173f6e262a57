-------------------------- MODULE SubscriptionManager --------------------------
(***************************************************************************)
(* The client side of clockwork's SubscriptionManager, as humid drives it:  *)
(* one checkConnections(items, n, cmd) per pass of the GUI loop.  A pass     *)
(* drives the CHANNEL handshake over the setup REQ socket, attaches the SUB  *)
(* socket to the granted port, and carries operator commands from the        *)
(* in-process REP socket over the same REQ socket.                           *)
(*                                                                           *)
(* sm is the SubscriptionManager object; each operator on a value m of it    *)
(* is the method of that name.  The monitor threads, the iod process and the *)
(* clock take steps between the steps of a pass, and a pass tests each         *)
(* monitor's disconnected() again and again: every test is a step of its own. *)
(***************************************************************************)
EXTENDS Naturals, Sequences

CONSTANTS
    Grants,         \* CHANNEL grants iod may issue (a port, a name and an authority each)
    None,           \* no grant, no endpoint
    NumCommands,    \* commands the GUI thread makes
    ChannelReplies, \* kinds of answer iod may give to CHANNEL
    MaxFaults       \* bound on drops, unusable answers, torn messages and early timeouts

ReplyKinds == {"grant", "error", "other"}

ASSUME GrantsAssumption == Grants # {} /\ None \notin Grants
ASSUME ChannelRepliesAssumption == ChannelReplies \subseteq ReplyKinds
ASSUME BoundsAssumption == NumCommands \in Nat /\ MaxFaults \in Nat

VARIABLES
    sm,        \* the SubscriptionManager object and its two sockets
    late,      \* the forwarded command has waited longer than cmd_response_timeout_us
    asked, inbox, serving, outcome, \* the command bridge; run_status is
                                    \* e_waiting_response iff serving # 0
    pc,        \* where the GUI thread is in checkConnections
    lost,      \* connections down ever since the pass began (SUB: with the setup
               \* connection not dropped meanwhile), until its last drive ends
    readable,  \* sockets the last poll reported
    faults     \* faults injected so far

smVars == <<sm, late>>
commandVars == <<asked, inbox, serving, outcome>>
vars == <<sm, late, asked, inbox, serving, outcome, pc, lost, readable, faults>>

Commands == 1..NumCommands

\* Statuses the client really takes: nothing sets e_disconnected, e_connected
\* or e_waiting_subscriber, and e_not_used is the server side.
Status == {"startup", "waiting_connect", "waiting_setup", "settingup", "done", "error"}

\* Where a drive of the handshake, checkConnections(), may stand before a test.
Drive == {"check", "legs", "down", "overdue", "both", "setup", "subs", "subsOnly",
          "connect", "handshake", "attached", "settled"}

(* The object.  req is the request/reply state of the setup REQ socket:      *)
(* free (may send), pending (sent, no answer yet), lost (no answer will      *)
(* come), or the kind of the answer waiting to be read; for is the command   *)
(* the request carries, 0 for CHANNEL.  setupUp and subsUp are the monitors' *)
(* ~disconnected(); url is the grant whose port the SUB socket was told to   *)
(* connect to, last the one whose port and authority were stored last.       *)
Manager == [status  : Status,
            sub     : {"init", "sub"},
            channel : Grants \cup {None},
            last    : Grants \cup {None},
            url     : Grants \cup {None},
            sent    : BOOLEAN,
            req     : {"free", "pending", "lost"} \cup ReplyKinds,
            for     : Commands \cup {0},
            setupUp : BOOLEAN,
            subsUp  : BOOLEAN,
            dialed  : BOOLEAN,
            recent  : BOOLEAN,
            aged    : BOOLEAN]

TypeOK ==
    /\ sm \in Manager
    /\ late \in BOOLEAN
    /\ asked \in 0..NumCommands
    /\ inbox \in Seq(Commands)
    /\ serving \in Commands \cup {0}
    /\ outcome \in [Commands -> {"none", "own", "foreign", "failed", "timeout", "disconnected"}]
    /\ pc \in Drive \cup {"poll", "polling", "accept", "respond"}
    /\ lost \subseteq {"setup", "subs"}
    /\ readable \subseteq {"setup", "subs", "cmd"}
    /\ faults \in 0..MaxFaults

FreshManager == [status |-> "startup", sub |-> "init", channel |-> None, last |-> None,
                 url |-> None, sent |-> FALSE, req |-> "free", for |-> 0,
                 setupUp |-> FALSE, subsUp |-> FALSE, dialed |-> FALSE,
                 recent |-> FALSE, aged |-> FALSE]

Init ==
    /\ sm = FreshManager
    /\ late = FALSE
    /\ asked = 0 /\ inbox = <<>> /\ serving = 0
    /\ outcome = [c \in Commands |-> "none"]
    /\ pc = "check"
    /\ lost = {}
    /\ readable = {}
    /\ faults = 0

------------------------------------------------------------------------------
(* Methods that change the object                                            *)

\* A fault: a status that ends the request leaves sent_request set.
SetStatusKeepingRequest(m, new) ==
    IF m.status = new THEN m ELSE [m EXCEPT !.status = new, !.aged = FALSE]
SetSetupStatus(m, new) ==
    IF m.status = new THEN m
    ELSE [m EXCEPT !.status = new, !.aged = FALSE,
                   !.sent = IF new \in {"startup", "error", "waiting_connect"} THEN FALSE ELSE @]

RecreateSubscriber(m) == [m EXCEPT !.subsUp = FALSE, !.url = None, !.sub = "init"]

InvalidateSubscriberSession(m) == [RecreateSubscriber(m) EXCEPT !.channel = None]

(* A new REQ socket and monitor, dialed at once.  A kept channel survives if  *)
(* its monitor reports the connection (up) within the wait the code allows.  *)
ReplaceSetup(m, up) ==
    LET fresh == [m EXCEPT !.sent = FALSE, !.recent = TRUE, !.req = "free", !.for = 0,
                           !.setupUp = up, !.dialed = TRUE]
    IN  IF up THEN fresh
        ELSE SetSetupStatus([fresh EXCEPT !.channel = None], "waiting_connect")

CanKeep(m) == m.channel # None /\ m.subsUp /\ m.status = "done"

\* resetChannelRequestState(true, keep): skipped entirely within 2 s of the last
\* replacement; up may be TRUE only for a channel that can be kept.
ResetChannelRequest(m, up) == IF m.recent THEN m ELSE ReplaceSetup(m, up)

ForceFullReconnect(m) ==
    LET r == ResetChannelRequest(InvalidateSubscriberSession(m), FALSE)
        s == IF r.status = "waiting_connect" THEN r ELSE SetSetupStatus(r, "startup")
    IN  [s EXCEPT !.aged = FALSE]

(* The answer waiting on the REQ socket, read and applied: g is the grant it  *)
(* carries if it is one.                                                     *)
GrantChanged(m, g) == m.last # g \/ m.channel # g \/ m.url = None \/ m.sub = "init"

\* A fault: the SUB socket of the previous grant is kept.
AdoptKeepingSub(m, g) ==
    [SetSetupStatus([m EXCEPT !.channel = g, !.last = g], "settingup") EXCEPT !.sent = FALSE]
AdoptGrant(m, g) ==
    LET s == CASE GrantChanged(m, g) /\ m.sub # "init" -> RecreateSubscriber(m)
               [] GrantChanged(m, g) /\ m.sub = "init" -> [m EXCEPT !.url = None]
               [] OTHER -> m
    IN  [SetSetupStatus([s EXCEPT !.channel = g, !.last = g], "settingup") EXCEPT !.sent = FALSE]

ReadReply(m) == [m EXCEPT !.req = "free", !.for = 0]

ApplyChannelSetupReply(m, g) ==
    CASE m.req = "grant" -> AdoptGrant(ReadReply(m), g)
      [] m.req = "error" -> SetSetupStatus(ReadReply(m), "error")
      [] OTHER           -> ReadReply(m)

(* resetChannelRequestState(false): a second recv after the late reply finds  *)
(* the REQ in its send state and throws, which turns the drain into a        *)
(* (rate-limited) replacement.                                               *)
DrainChannelRequest(m, g) ==
    IF m.sent /\ m.req \in ReplyKinds
    THEN ResetChannelRequest(ApplyChannelSetupReply(m, g), FALSE)
    ELSE [m EXCEPT !.sent = FALSE]

------------------------------------------------------------------------------
(* The CHANNEL handshake                                                     *)

\* safeSend of CHANNEL: EFSM when the REQ still owes a recv.  A fault: that
\* send counts as sent.
SendChannelUnchecked(m) ==
    [SetSetupStatus(m, "waiting_setup") EXCEPT !.sent = TRUE,
        !.req = IF m.req = "free" THEN "pending" ELSE @, !.for = IF m.req = "free" THEN 0 ELSE @]
SendChannel(m) ==
    IF m.req = "free"
    THEN [SetSetupStatus(m, "waiting_setup") EXCEPT !.sent = TRUE, !.req = "pending", !.for = 0]
    ELSE ResetChannelRequest(m, FALSE)

MaySend(m)    == m.status = "waiting_connect" /\ m.setupUp
MayReceive(m) == m.status = "waiting_setup" /\ m.setupUp

(* requestChannel.  While sent is TRUE no request is repeated before            *)
(* channel_request_timeout; an object that may send never has sent set         *)
(* (Coherent), so that timer never runs out.                                 *)
RequestChannel(m, g) ==
    CASE MaySend(m) -> IF m.sent THEN m ELSE SendChannel(m)
      [] MayReceive(m) /\ m.req = "grant" -> ApplyChannelSetupReply(m, g)
      [] MayReceive(m) /\ m.req \in {"error", "other"} ->
            ResetChannelRequest(ApplyChannelSetupReply(m, g), FALSE)
      [] OTHER -> m

\* requestChannel's return value, r being the object it leaves behind.
HasChannel(m, r) == ~MaySend(m) /\ (MayReceive(m) => m.req = "grant") /\ r.channel # None

AttachSubscriber(m) ==
    LET s == IF m.url \in {None, m.last} THEN m ELSE RecreateSubscriber(m)
    IN  IF m.sub # "init" /\ m.url = m.last THEN m
        ELSE [s EXCEPT !.url = m.last, !.sub = "sub"]

(* setupConnections: Dial in e_startup, then Connect.  attach: the SUB monitor  *)
(* thread has started.                                                       *)
Dial(m) ==
    IF m.status = "startup"
    THEN SetSetupStatus([m EXCEPT !.channel = None, !.dialed = TRUE], "waiting_connect")
    ELSE m

Connect(m, g, attach) ==
    LET r == RequestChannel(m, g)
    IN  IF HasChannel(m, r) /\ attach THEN AttachSubscriber(r) ELSE r

------------------------------------------------------------------------------
(* checkConnections(): one drive of the handshake, test by test.  The status   *)
(* changes only here, so it is read with the next test of a monitor.         *)

Usable(m) == m.channel # None /\ m.sub # "init"

SetupLost(m, g) ==
    CASE m.status = "done" -> ForceFullReconnect(m)
      [] m.status \in {"waiting_setup", "error", "settingup"} ->
            IF m.channel # None \/ m.sub # "init" THEN ForceFullReconnect(m)
            ELSE ResetChannelRequest(m, FALSE)
      [] OTHER -> DrainChannelRequest(m, g)

\* A fault: the SUB connection is waited for with the grant there is.
SubscriberLostKeepingGrant(m) == m
SubscriberLost(m) ==
    IF m.status = "done" \/ m.channel # None
    THEN ResetChannelRequest(SetSetupStatus(InvalidateSubscriberSession(m), "waiting_connect"), FALSE)
    ELSE m

Down(m) == (IF m.setupUp THEN {} ELSE {"setup"}) \cup (IF m.subsUp THEN {} ELSE {"subs"})

To(place) == pc' = place /\ UNCHANGED <<late, commandVars, lost, readable>>

BeginPass ==
    /\ pc = "check"
    /\ sm' = Dial(sm)
    /\ lost' = Down(sm)
    /\ pc' = CASE sm.status = "startup" -> "connect"
               [] sm.status # "startup" /\ sm.setupUp -> "legs"
               [] sm.status # "startup" /\ ~sm.setupUp -> "down"
    /\ UNCHANGED <<late, commandVars, readable>>

TestLegs == pc = "legs" /\ UNCHANGED sm /\ To(IF sm.subsUp THEN "setup" ELSE "down")

\* A connection is down: the state timeout, then whether both are.
StateTimedOut == sm.aged /\ sm.status # "done"
TimeOut == pc = "down" /\ StateTimedOut /\ sm' = ForceFullReconnect(sm) /\ To("overdue")

TestBothSetup ==
    /\ \/ pc = "down" /\ ~StateTimedOut
       \/ pc = "overdue"
    /\ UNCHANGED sm
    /\ To(IF sm.setupUp THEN "setup" ELSE "both")

TestBothSubscriber ==
    /\ pc = "both"
    /\ IF sm.subsUp THEN UNCHANGED sm /\ To("setup")
       ELSE sm' = ForceFullReconnect(sm) /\ To("poll")

TestSetup ==
    /\ pc = "setup"
    /\ IF sm.setupUp THEN UNCHANGED sm /\ To("subs")
       ELSE (\E g \in Grants : sm' = SetupLost(sm, g)) /\ To("poll")

\* SUB is down and the setup connection is not: two tests.
TestSubscriber == pc = "subs" /\ UNCHANGED sm /\ To(IF sm.subsUp THEN "handshake" ELSE "subsOnly")

TestSubscriberAlone ==
    /\ pc = "subsOnly"
    /\ IF sm.setupUp THEN sm' = Dial(SubscriberLost(sm)) /\ To("connect")
       ELSE UNCHANGED sm /\ To("handshake")

Connecting(attach) ==
    /\ pc = "connect"
    /\ \E g \in Grants : sm' = Connect(sm, g, attach)
    /\ To("poll")

MidHandshake == sm.status \in {"waiting_connect", "waiting_setup", "settingup"}

\* A fault: no state timeout while both connections are up.
HandshakeNeverTimesOut(attach) ==
    /\ pc = "handshake" /\ MidHandshake
    /\ \E g \in Grants : sm' = Connect(sm, g, attach)
    /\ To("attached")
Handshake(attach) ==
    /\ pc = "handshake" /\ MidHandshake
    /\ IF sm.aged THEN sm' = ForceFullReconnect(sm) /\ To("poll")
       ELSE (\E g \in Grants : sm' = Connect(sm, g, attach)) /\ To("attached")

TestSettled ==
    /\ pc = "handshake" /\ ~MidHandshake
    /\ UNCHANGED sm
    /\ To(IF sm.setupUp THEN "settled" ELSE "poll")

FinishDrive ==
    /\ pc \in {"attached", "settled"}
    /\ sm' = IF Usable(sm) /\ sm.subsUp THEN SetSetupStatus(sm, "done") ELSE sm
    /\ To("poll")

CheckConnections ==
    /\ \/ BeginPass \/ TestLegs \/ TimeOut \/ TestBothSetup \/ TestBothSubscriber
       \/ TestSetup \/ TestSubscriber \/ TestSubscriberAlone
       \/ Connecting(TRUE) \/ Handshake(TRUE) \/ TestSettled \/ FinishDrive
    /\ UNCHANGED faults

Fault == faults < MaxFaults /\ faults' = faults + 1

(* A monitor thread that has not started (the code gives it a few milliseconds  *)
(* and leaves the rest to the next pass): the setup monitor before the dial,  *)
(* the SUB monitor before the connection.                                    *)
CheckTooEarly ==
    /\ Fault
    /\ \/ pc = "subsOnly" /\ sm.setupUp /\ sm.status = "startup" /\ UNCHANGED sm /\ To("poll")
       \/ Connecting(FALSE)
       \/ Handshake(FALSE)
       \/ /\ pc = "check" /\ sm.status = "startup"
          /\ pc' = "poll" /\ lost' = Down(sm)
          /\ UNCHANGED <<smVars, commandVars, readable>>

------------------------------------------------------------------------------
(* The rest of the pass: poll, take a command, deal with the setup socket     *)

(* A REP that owes an answer never reports a request.  traffic: a publication  *)
(* waits on SUB.                                                             *)
Readable(traffic) ==
    {s \in {"setup", "subs", "cmd"} :
        \/ s = "setup" /\ sm.req \in ReplyKinds
        \/ s = "subs" /\ traffic
        \/ s = "cmd" /\ serving = 0 /\ inbox # <<>>}

(* With a leg down the command socket alone is meant to be polled; it is looked *)
(* up by the address of its wrapper among handles, never found, and the pass    *)
(* ends.                                                                     *)
LegDownNotPolled ==
    /\ \/ pc = "poll" /\ ~sm.subsUp
       \/ pc = "polling" /\ ~sm.setupUp
    /\ pc' = "check"
    /\ lost' = {}
    /\ UNCHANGED <<sm, late, commandVars, readable, faults>>

TestSubscriberPolled ==
    /\ pc = "poll" /\ sm.subsUp
    /\ pc' = "polling"
    /\ lost' = {}
    /\ UNCHANGED <<sm, late, commandVars, readable, faults>>

Poll(traffic) ==
    /\ pc = "polling"
    /\ sm.setupUp
    /\ readable' = Readable(traffic)
    /\ pc' = IF Readable(traffic) = {} THEN "check" ELSE "accept"
    /\ UNCHANGED <<sm, late, commandVars, lost, faults>>

\* An interrupted poll only ends the pass; one on a dead socket reconnects.
PollFails ==
    /\ pc = "polling"
    /\ sm.setupUp
    /\ Fault
    /\ sm' \in {sm, ForceFullReconnect(sm)}
    /\ pc' = "check"
    /\ UNCHANGED <<late, commandVars, lost, readable>>

CommandReady == serving = 0 /\ "cmd" \in readable

NoCommand ==
    /\ pc = "accept"
    /\ ~CommandReady
    /\ pc' = "respond"
    /\ UNCHANGED <<smVars, commandVars, lost, readable, faults>>

\* A fault: a send that fails on a half-open REQ counts as sent.
ForwardUnchecked ==
    /\ pc = "accept" /\ CommandReady
    /\ sm.setupUp /\ sm.status = "done"
    /\ sm' = IF sm.req = "free" THEN [sm EXCEPT !.req = "pending", !.for = Head(inbox)] ELSE sm
    /\ serving' = Head(inbox)
    /\ inbox' = Tail(inbox)
    /\ late' = FALSE
    /\ pc' = "respond"
    /\ UNCHANGED <<asked, outcome, lost, readable, faults>>
ForwardCommand ==
    /\ pc = "accept" /\ CommandReady
    /\ sm.setupUp /\ sm.status = "done" /\ sm.req = "free"
    /\ sm' = [sm EXCEPT !.req = "pending", !.for = Head(inbox)]
    /\ serving' = Head(inbox)
    /\ inbox' = Tail(inbox)
    /\ late' = FALSE
    /\ pc' = "respond"
    /\ UNCHANGED <<asked, outcome, lost, readable, faults>>

\* The answer "failed": not connected, not set up, or EFSM on the send, which
\* also replaces the REQ.
RefuseCommand ==
    /\ pc = "accept" /\ CommandReady
    /\ ~(sm.setupUp /\ sm.status = "done" /\ sm.req = "free")
    /\ sm' = IF sm.setupUp /\ sm.status = "done" THEN ResetChannelRequest(sm, FALSE) ELSE sm
    /\ outcome' = [outcome EXCEPT ![Head(inbox)] = "failed"]
    /\ inbox' = Tail(inbox)
    /\ pc' = "respond"
    /\ UNCHANGED <<late, asked, serving, lost, readable, faults>>

Answer(what) ==
    /\ outcome' = [outcome EXCEPT ![serving] = what]
    /\ serving' = 0
    /\ late' = FALSE
    /\ UNCHANGED <<asked, inbox>>

EndPass == pc = "respond" /\ pc' = "check" /\ readable' = {} /\ UNCHANGED <<lost, faults>>

\* A fault: the REQ is replaced and the waiting command forgotten about.
DisconnectIsSilent ==
    /\ EndPass
    /\ serving # 0 /\ ~sm.setupUp
    /\ sm' = ResetChannelRequest(sm, FALSE)
    /\ UNCHANGED <<late, commandVars>>
RespondDisconnected ==
    /\ EndPass
    /\ serving # 0 /\ ~sm.setupUp
    /\ Answer("disconnected")
    /\ sm' = ResetChannelRequest(sm, FALSE)

Answering == serving # 0 /\ sm.setupUp /\ "setup" \in readable
RespondReply ==
    /\ EndPass
    /\ Answering
    /\ sm.req \in ReplyKinds
    /\ Answer(IF sm.for = serving THEN "own" ELSE "foreign")
    /\ sm' = ReadReply(sm)

\* An answer read while no command waits: a CHANNEL grant is adopted, anything
\* else is applied for its error item or ignored.
RespondOutOfBand ==
    /\ EndPass
    /\ serving = 0 /\ "setup" \in readable /\ sm.req \in ReplyKinds
    /\ \E g \in Grants :
          LET a == ApplyChannelSetupReply(sm, g)
          IN  sm' = IF sm.req = "grant" THEN Connect(a, g, TRUE) ELSE a
    /\ UNCHANGED <<late, commandVars>>

\* A fault: the timeout replaces the REQ without answering.
RespondTimeoutSilent ==
    /\ EndPass
    /\ serving # 0 /\ sm.setupUp /\ "setup" \notin readable /\ late
    /\ \E up \in BOOLEAN : (up => CanKeep(sm)) /\ sm' = ResetChannelRequest(sm, up)
    /\ UNCHANGED <<late, commandVars>>
RespondTimeout ==
    /\ EndPass
    /\ serving # 0 /\ sm.setupUp /\ "setup" \notin readable /\ late
    /\ Answer("timeout")
    /\ \E up \in BOOLEAN : (up => CanKeep(sm)) /\ sm' = ResetChannelRequest(sm, up)

RespondNothing ==
    /\ EndPass
    /\ \/ serving = 0 /\ ("setup" \in readable => sm.req \notin ReplyKinds)
       \/ Answering /\ sm.req \notin ReplyKinds
       \/ serving # 0 /\ sm.setupUp /\ "setup" \notin readable /\ ~late
    /\ UNCHANGED <<smVars, commandVars>>

Pass == \/ CheckConnections \/ LegDownNotPolled \/ TestSubscriberPolled
        \/ \E t \in BOOLEAN : Poll(t)
        \/ NoCommand \/ ForwardCommand \/ RefuseCommand
        \/ RespondDisconnected \/ RespondReply \/ RespondOutOfBand
        \/ RespondTimeout \/ RespondNothing

------------------------------------------------------------------------------
(* The GUI thread outside checkConnections, the monitor threads, iod, time   *)

\* handleCommand, after a pass that leaves the session set up.
Ask ==
    /\ pc = "check"
    /\ sm.status = "done"
    /\ asked < NumCommands
    /\ asked' = asked + 1
    /\ inbox' = Append(inbox, asked + 1)
    /\ UNCHANGED <<smVars, serving, outcome, pc, lost, readable, faults>>

Environment == UNCHANGED <<commandVars, pc, readable>>

\* handleSubscriber found a multipart message cut short.
SubscriberTorn ==
    /\ Environment /\ Fault
    /\ pc = "check" /\ sm.status = "done" /\ sm.subsUp
    /\ sm' = ForceFullReconnect(sm)
    /\ UNCHANGED <<late, lost>>

SetupConnected ==
    /\ Environment
    /\ sm.dialed /\ ~sm.setupUp
    /\ sm' = [sm EXCEPT !.setupUp = TRUE]
    /\ lost' = lost \ {"setup"}
    /\ UNCHANGED <<late, faults>>

SubscriberConnected ==
    /\ Environment
    /\ sm.url # None /\ ~sm.subsUp
    /\ sm' = [sm EXCEPT !.subsUp = TRUE]
    /\ lost' = lost \ {"subs"}
    /\ UNCHANGED <<late, faults>>

\* A dropped connection may take the unanswered request with it.
SetupDropped ==
    /\ Environment /\ Fault
    /\ sm.setupUp
    /\ \E r \in IF sm.req = "pending" THEN {"pending", "lost"} ELSE {sm.req} :
          sm' = [sm EXCEPT !.setupUp = FALSE, !.req = r]
    /\ lost' = lost \ {"subs"}
    /\ UNCHANGED late

SubscriberDropped ==
    /\ Environment /\ Fault
    /\ sm.subsUp
    /\ sm' = [sm EXCEPT !.subsUp = FALSE]
    /\ UNCHANGED <<late, lost>>

Deliver(kind) ==
    /\ Environment
    /\ sm.setupUp /\ sm.req = "pending"
    /\ sm' = [sm EXCEPT !.req = kind]
    /\ UNCHANGED <<late, lost>>

GrantChannel == sm.for = 0 /\ "grant" \in ChannelReplies /\ Deliver("grant") /\ UNCHANGED faults

RejectChannel == sm.for = 0 /\ Fault /\ \E k \in ChannelReplies \ {"grant"} : Deliver(k)

AnswerCommand == sm.for # 0 /\ UNCHANGED faults /\ \E k \in {"error", "other"} : Deliver(k)

(* Time.  The state timeouts (10 s, 60 s) are long compared with everything   *)
(* the handshake waits for: one that fires while an answer or a connection is *)
(* still on its way counts as a fault.                                       *)
Stalled == \/ sm.status = "error"
           \/ sm.status = "waiting_setup" /\ sm.setupUp /\ sm.req \in {"free", "lost"}

StateAges ==
    /\ Environment
    /\ ~sm.aged /\ sm.status # "done"
    /\ sm' = [sm EXCEPT !.aged = TRUE]
    /\ IF Stalled THEN UNCHANGED faults ELSE Fault
    /\ UNCHANGED <<late, lost>>

RateLimitExpires ==
    /\ Environment
    /\ sm.recent
    /\ sm' = [sm EXCEPT !.recent = FALSE]
    /\ UNCHANGED <<late, lost, faults>>

CommandAges ==
    /\ Environment
    /\ serving # 0 /\ ~late
    /\ late' = TRUE
    /\ UNCHANGED <<sm, lost, faults>>

Surroundings ==
    \/ SetupConnected \/ SubscriberConnected \/ SetupDropped \/ SubscriberDropped
    \/ GrantChannel \/ RejectChannel \/ AnswerCommand
    \/ StateAges \/ RateLimitExpires \/ CommandAges

Next == Pass \/ CheckTooEarly \/ PollFails \/ SubscriberTorn \/ Ask \/ Surroundings

Spec == Init /\ [][Next]_vars

(* The GUI loop never stops polling, timers run out, iod answers, and the       *)
(* network makes progress: a connection attempt does not always succeed just  *)
(* between two tests of one pass, whose remaining tests then give it up.      *)
Fairness ==
    /\ WF_vars(Pass)
    /\ SF_vars(pc = "poll" /\ SetupConnected)
    /\ SF_vars(pc = "poll" /\ SubscriberConnected)
    /\ WF_vars(GrantChannel)
    /\ WF_vars(StateAges) /\ WF_vars(RateLimitExpires) /\ WF_vars(CommandAges)

\* iod publishes now and again, so that polls see the SUB socket.
Publications == SF_vars(Poll(TRUE))

FairSpec == Spec /\ Fairness /\ Publications
SilentSpec == Spec /\ Fairness

\* The loop runs, nothing else is sure to.
LoopSpec == Spec /\ WF_vars(Pass)

------------------------------------------------------------------------------
(* Properties                                                                *)

(* A session counts as set up only when a CHANNEL grant was adopted and the   *)
(* SUB socket was sent to the port of that very grant (checkConnections'      *)
(* "both TCP paths up is not enough").                                       *)
DoneIsGranted ==
    sm.status = "done" => sm.channel # None /\ sm.sub = "sub" /\ sm.url = sm.channel

(* The handshake and the commands share one REQ socket.  The answer that        *)
(* requestChannel waits for is never a command's, and once a grant is adopted *)
(* the socket owes no answer to anyone, whatever was sent on it before.       *)
HandshakeOwnsRequest ==
    /\ sm.status = "waiting_setup" => sm.for = 0
    /\ sm.status = "settingup" => sm.req = "free"

(* "Lost the data path: must re-CHANNEL, not only reconnect": a connection that *)
(* is down all through a drive of the handshake costs the grant, whichever of *)
(* the drive's tests meets it.  (For SUB alone this needs a setup connection   *)
(* that is not dropped between the tests: 1317 asks for it to be up.)  What is *)
(* there afterwards was granted in that very drive.                          *)
GrantNeedsBothLegs ==
    pc = "poll" /\ lost # {} => sm.channel = None \/ sm.status = "settingup"

(* A command is never answered with a CHANNEL grant or with the late answer   *)
(* to another command.                                                       *)
NoForeignReply == \A c \in Commands : outcome[c] # "foreign"

(* What every method keeps true of the object: the endpoint, the stored grant *)
(* and the request bookkeeping agree with each other and with the status.     *)
Coherent(m) ==
    /\ m.sub = "init" <=> m.url = None
    /\ m.subsUp => m.url # None
    /\ m.url # None => m.url = m.last
    /\ m.channel # None => m.channel = m.last
    /\ m.status \in {"startup", "waiting_connect", "waiting_setup"} => m.channel = None
    /\ m.status = "done" => Usable(m)
    /\ m.sent <=> m.status = "waiting_setup"
    /\ m.sent => m.for = 0
    /\ m.status = "settingup" => m.req = "free"

(* While command c waits for its answer, the REQ socket is used for anything  *)
(* else only after the SUB endpoint was given up.                            *)
OwnsRequest(m, c) ==
    c # 0 => /\ m.url # None /\ m.req # "free" => m.for = c
             /\ m.status \in {"startup", "waiting_connect", "waiting_setup", "error"} => m.url = None

(* What a pass took from its poll still holds when the pass uses it.          *)
PollCurrent ==
    /\ pc \notin {"accept", "respond"} => readable = {}
    /\ pc = "polling" => sm.url # None
    /\ "setup" \in readable /\ serving # 0 => sm.for = serving
    /\ pc = "accept" /\ "cmd" \in readable => inbox # <<>>

(* What the tests made so far say of a connection still lost, and what is left  *)
(* of the grant where they end.                                              *)
Testing == {"legs", "down", "overdue", "both", "setup", "subs", "subsOnly"}
TestsCurrent ==
    /\ pc \in Testing /\ "setup" \in lost =>
          ~sm.setupUp /\ pc \notin {"legs", "subs", "subsOnly"}
    /\ pc \in Testing /\ "subs" \in lost =>
          ~sm.subsUp /\ (pc \in {"subs", "subsOnly"} => sm.setupUp)
    /\ lost # {} => pc \in Testing \cup {"connect", "poll"}
    /\ pc = "connect" => sm.channel = None
    /\ GrantNeedsBothLegs

(* The inductive invariant.                                                  *)
IInv ==
    /\ TypeOK
    /\ Coherent(sm)
    /\ OwnsRequest(sm, serving)
    /\ PollCurrent
    /\ TestsCurrent
    /\ NoForeignReply

(* The command bridge the GUI thread relies on.                              *)
Bridge == INSTANCE CommandBridge WITH ready <- (sm.status = "done")
BridgeSpec == Bridge!Spec

(* Once faults stop, the client is set up again and stays so.                *)
Reconnects == <>[](sm.status = "done")

(* A command taken over is answered: the REP contract of checkConnections.   *)
CommandsAnswered == \A c \in Commands : serving = c ~> serving # c

(* What checkConnections says of a client that is not connected: it monitors its  *)
(* command channel, so that a command made then is dealt with.                 *)
DownCommandsTaken ==
    <>[](~sm.setupUp) => \A c \in Commands : asked = c ~> inbox = <<>>

(* An error answer to CHANNEL is retried (the ten seconds of e_error).       *)
ErrorRetried == sm.status = "error" ~> sm.status # "error"
==============================================================================
