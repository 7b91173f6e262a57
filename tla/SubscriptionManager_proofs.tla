---------------------- MODULE SubscriptionManager_proofs ----------------------
(***************************************************************************)
(* Proofs about SubscriptionManager, for all grants, any number of commands  *)
(* and any number of faults.  A first group of lemmas takes the methods of   *)
(* the object one by one: what setSetupStatus, invalidateSubscriberSession   *)
(* and the socket replacement do to its fields, and that each larger method  *)
(* called on an object in order (Fit) leaves it in order.  The steps of a    *)
(* pass and of its surroundings then preserve IInv, and the theorems follow. *)
(***************************************************************************)
EXTENDS SubscriptionManager, TLAPS

USE GrantsAssumption

(* An object a method may be called on while command c (0 for none) waits.    *)
Fit(m, c) == m \in Manager /\ Coherent(m) /\ OwnsRequest(m, c)

SameSession(m, s) ==
    s.sub = m.sub /\ s.last = m.last /\ s.url = m.url /\ s.subsUp = m.subsUp
SameRequest(m, s) == s.req = m.req /\ s.for = m.for

(* setSetupStatus touches only the status, its clock and sent_request.        *)
LEMMA SetStatusFields ==
    ASSUME NEW m \in Manager, NEW new \in Status
    PROVE  LET s == SetSetupStatus(m, new)
           IN  /\ s \in Manager
               /\ s.status = new
               /\ SameSession(m, s) /\ s.channel = m.channel
               /\ SameRequest(m, s)
               /\ s.setupUp = m.setupUp
               /\ s.sent = IF m.status # new /\ new \in {"startup", "error", "waiting_connect"}
                           THEN FALSE ELSE m.sent
<1> DEFINE sent == IF new \in {"startup", "error", "waiting_connect"} THEN FALSE ELSE m.sent
<1>1. sent \in BOOLEAN
  BY DEF Manager
<1>2. [m EXCEPT !.status = new, !.aged = FALSE, !.sent = sent] \in Manager
  <2> HIDE DEF sent
  <2> QED BY <1>1 DEF Manager
<1>3. SetSetupStatus(m, new) \in Manager
  BY <1>2 DEF SetSetupStatus
<1>4. ASSUME m.status # new
      PROVE  LET s == [m EXCEPT !.status = new, !.aged = FALSE, !.sent = sent]
             IN  /\ s.status = new /\ s.sent = sent /\ s.setupUp = m.setupUp
                 /\ SameSession(m, s) /\ s.channel = m.channel /\ SameRequest(m, s)
  <2> HIDE DEF sent
  <2> QED BY <1>4 DEF Manager, SameSession, SameRequest
<1> QED BY <1>3, <1>4 DEF SetSetupStatus, SameSession, SameRequest

(* The statuses of a handshake under way keep sent_request as it was.          *)
LEMMA SetStatusKeepsRequest ==
    ASSUME NEW m \in Manager, NEW new \in {"waiting_setup", "settingup", "done"}
    PROVE  LET s == SetSetupStatus(m, new)
           IN  /\ s \in Manager
               /\ s.status = new
               /\ SameSession(m, s) /\ s.channel = m.channel
               /\ SameRequest(m, s)
               /\ s.setupUp = m.setupUp
               /\ s.sent = m.sent
<1>1. new \in Status /\ new \notin {"startup", "error", "waiting_connect"}
  BY DEF Status
<1> DEFINE s == SetSetupStatus(m, new)
<1>2. /\ s \in Manager
      /\ s.status = new
      /\ SameSession(m, s) /\ s.channel = m.channel
      /\ SameRequest(m, s)
      /\ s.setupUp = m.setupUp
      /\ s.sent = IF m.status # new /\ new \in {"startup", "error", "waiting_connect"}
                  THEN FALSE ELSE m.sent
  BY <1>1, SetStatusFields
<1> HIDE DEF s
<1>3. s.sent = m.sent
  BY <1>1, <1>2
<1> QED BY <1>2, <1>3 DEF s

(* In a coherent object a status other than waiting_setup leaves nothing sent. *)
LEMMA SetStatusEndsRequest ==
    ASSUME NEW m \in Manager, NEW new \in {"startup", "waiting_connect", "error"},
           m.sent <=> m.status = "waiting_setup"
    PROVE  LET s == SetSetupStatus(m, new)
           IN  /\ s \in Manager
               /\ s.status = new
               /\ SameSession(m, s) /\ s.channel = m.channel
               /\ SameRequest(m, s)
               /\ s.setupUp = m.setupUp
               /\ ~s.sent
<1>1. new \in Status /\ (m.sent => m.status # new)
  BY DEF Status
<1> DEFINE s == SetSetupStatus(m, new)
<1>2. /\ s \in Manager
      /\ s.status = new
      /\ SameSession(m, s) /\ s.channel = m.channel
      /\ SameRequest(m, s)
      /\ s.setupUp = m.setupUp
      /\ s.sent = IF m.status # new /\ new \in {"startup", "error", "waiting_connect"}
                  THEN FALSE ELSE m.sent
  BY <1>1, SetStatusFields
<1>3. ~s.sent
  <2> HIDE DEF s
  <2> QED BY <1>1, <1>2 DEF Manager
<1> QED BY <1>2, <1>3

(* invalidateSubscriberSession drops the endpoint, the SUB connection and the  *)
(* grant, and nothing else.                                                  *)
LEMMA InvalidateFields ==
    ASSUME NEW m \in Manager
    PROVE  LET i == InvalidateSubscriberSession(m)
           IN  /\ i \in Manager
               /\ i.sub = "init" /\ i.url = None /\ ~i.subsUp /\ i.channel = None
               /\ i.status = m.status /\ i.sent = m.sent /\ i.setupUp = m.setupUp
               /\ i.recent = m.recent /\ SameRequest(m, i)
BY DEF InvalidateSubscriberSession, RecreateSubscriber, Manager, SameRequest

(* A new REQ socket owes nothing; without its connection the grant is gone.   *)
LEMMA ReplaceFields ==
    ASSUME NEW m \in Manager, NEW up \in BOOLEAN, m.sent <=> m.status = "waiting_setup"
    PROVE  LET r == ReplaceSetup(m, up)
           IN  /\ r \in Manager
               /\ SameSession(m, r)
               /\ r.channel = IF up THEN m.channel ELSE None
               /\ r.status = IF up THEN m.status ELSE "waiting_connect"
               /\ r.req = "free" /\ r.for = 0 /\ r.setupUp = up /\ ~r.sent
<1> DEFINE fresh == [m EXCEPT !.sent = FALSE, !.recent = TRUE, !.req = "free", !.for = 0,
                              !.setupUp = up, !.dialed = TRUE]
           gone == [fresh EXCEPT !.channel = None]
<1>1. /\ fresh \in Manager /\ fresh.sent = FALSE /\ fresh.req = "free" /\ fresh.for = 0
      /\ fresh.setupUp = up /\ SameSession(m, fresh) /\ fresh.channel = m.channel
      /\ fresh.status = m.status
  BY DEF Manager, SameSession
<1>2. /\ gone \in Manager /\ gone.sent = FALSE /\ gone.req = "free" /\ gone.for = 0
      /\ gone.setupUp = up /\ SameSession(m, gone) /\ gone.channel = None
  <2> HIDE DEF fresh
  <2> QED BY <1>1 DEF Manager, SameSession
<1>3. CASE up
  BY <1>1, <1>3 DEF ReplaceSetup, SameSession
<1>4. CASE ~up
  <2> DEFINE s == SetSetupStatus(gone, "waiting_connect")
  <2>1. ReplaceSetup(m, up) = s
    BY <1>4 DEF ReplaceSetup
  <2>2. gone \in Manager /\ "waiting_connect" \in Status
    BY <1>2 DEF Status
  <2>3. /\ s \in Manager /\ s.status = "waiting_connect"
        /\ SameSession(gone, s) /\ s.channel = gone.channel
        /\ SameRequest(gone, s) /\ s.setupUp = gone.setupUp
        /\ s.sent = IF gone.status # "waiting_connect" /\ "waiting_connect" \in {"startup", "error", "waiting_connect"}
                    THEN FALSE ELSE gone.sent
    BY <2>2, SetStatusFields, ZenonT(60)
  <2> HIDE DEF s, gone
  <2> QED BY <2>1, <2>3, <1>2, <1>4 DEF SameSession, SameRequest
<1> QED BY <1>3, <1>4

(* resetChannelRequestState(true, ...) returns an object in order when the      *)
(* endpoint was given up before a command's REQ is replaced.                  *)
LEMMA ResetFit ==
    ASSUME NEW m, NEW c \in Commands \cup {0}, NEW up \in BOOLEAN,
           Fit(m, c), up => CanKeep(m), c # 0 => ~up /\ m.url = None
    PROVE  LET r == ResetChannelRequest(m, up)
           IN  /\ Fit(r, c)
               /\ SameSession(m, r)
               /\ m.channel = None => r.channel = None
               /\ r.status \in {m.status, "waiting_connect"}
               /\ r.setupUp => m.setupUp \/ up
<1> DEFINE r == ReplaceSetup(m, up)
<1>1. CASE m.recent
  BY <1>1 DEF ResetChannelRequest, SameSession
<1>2. CASE ~m.recent
  <2>1. /\ r \in Manager
        /\ SameSession(m, r)
        /\ r.channel = IF up THEN m.channel ELSE None
        /\ r.status = IF up THEN m.status ELSE "waiting_connect"
        /\ r.req = "free" /\ r.for = 0 /\ r.setupUp = up /\ ~r.sent
    BY ReplaceFields DEF Fit, Coherent
  <2> HIDE DEF r
  <2>2. Coherent(r)
    BY <2>1 DEF Fit, Coherent, SameSession, CanKeep, Usable
  <2>3. OwnsRequest(r, c)
    BY <2>1 DEF OwnsRequest, SameSession
  <2> QED BY <1>2, <2>1, <2>2, <2>3 DEF r, ResetChannelRequest, Fit
<1> QED BY <1>1, <1>2 

(* forceFullReconnect, from any state, leaves no session behind.               *)
LEMMA ReconnectFit ==
    ASSUME NEW m, NEW c \in Commands \cup {0}, Fit(m, c)
    PROVE  LET f == ForceFullReconnect(m)
           IN  /\ Fit(f, c) /\ f.channel = None /\ f.url = None /\ ~f.subsUp
               /\ f.setupUp => m.setupUp
<1> DEFINE i == InvalidateSubscriberSession(m)
           r == ResetChannelRequest(i, FALSE)
           s == IF r.status = "waiting_connect" THEN r ELSE SetSetupStatus(r, "startup")
           f == [s EXCEPT !.aged = FALSE]
<1>1. /\ i \in Manager
      /\ i.sub = "init" /\ i.url = None /\ ~i.subsUp /\ i.channel = None
      /\ i.status = m.status /\ i.sent = m.sent /\ i.setupUp = m.setupUp
      /\ SameRequest(m, i)
  BY InvalidateFields DEF Fit
<1>2. i.sent <=> i.status = "waiting_setup"
  BY <1>1 DEF Fit, Coherent
<1>3. /\ r \in Manager /\ r.sub = "init" /\ r.url = None /\ ~r.subsUp /\ r.channel = None
      /\ r.sent <=> r.status = "waiting_setup"
      /\ ~r.sent \/ r.for = 0
      /\ r.setupUp => m.setupUp
  <2>1. CASE i.recent
    <3> HIDE DEF i
    <3> QED BY <1>1, <1>2, <2>1 DEF ResetChannelRequest, SameRequest, Fit, Coherent
  <2>2. CASE ~i.recent
    <3> HIDE DEF i
    <3> DEFINE p == ReplaceSetup(i, FALSE)
    <3>1. /\ p \in Manager /\ SameSession(i, p) /\ p.channel = None
          /\ p.status = "waiting_connect" /\ ~p.sent /\ ~p.setupUp
      BY <1>1, <1>2, ReplaceFields
    <3>2. r = p
      BY <2>2 DEF ResetChannelRequest
    <3> HIDE DEF p, r
    <3> QED BY <1>1, <3>1, <3>2 DEF SameSession
  <2> QED BY <2>1, <2>2
<1>4. /\ s \in Manager /\ s.sub = "init" /\ s.url = None /\ ~s.subsUp /\ s.channel = None
      /\ ~s.sent /\ s.status \in {"startup", "waiting_connect"}
      /\ s.setupUp = r.setupUp
  <2> HIDE DEF r
  <2>1. CASE r.status = "waiting_connect"
    BY <2>1, <1>3
  <2>2. CASE r.status # "waiting_connect"
    <3> DEFINE t == SetSetupStatus(r, "startup")
    <3>1. /\ t \in Manager /\ t.status = "startup" /\ SameSession(r, t)
          /\ t.channel = r.channel /\ ~t.sent /\ t.setupUp = r.setupUp
      BY <1>3, SetStatusEndsRequest
    <3> HIDE DEF t
    <3> QED BY <1>3, <2>2, <3>1 DEF t, SameSession
  <2> QED BY <2>1, <2>2
<1>5. /\ f \in Manager /\ f.sub = "init" /\ f.url = None /\ ~f.subsUp /\ f.channel = None
      /\ ~f.sent /\ f.status \in {"startup", "waiting_connect"} /\ f.setupUp = s.setupUp
  <2> HIDE DEF s
  <2> QED BY <1>4 DEF Manager
<1>6. Fit(f, c)
  <2> HIDE DEF f
  <2> QED BY <1>5 DEF Fit, Coherent, OwnsRequest
<1>7. f.setupUp => m.setupUp
  <2> HIDE DEF f, s, r
  <2> QED BY <1>3, <1>4, <1>5
<1> QED BY <1>5, <1>6, <1>7 DEF ForceFullReconnect

(* Reading the answer frees the REQ socket.                                   *)
LEMMA ReadReplyFields ==
    ASSUME NEW m \in Manager
    PROVE  LET d == ReadReply(m)
           IN  /\ d \in Manager /\ d.req = "free" /\ d.for = 0
               /\ SameSession(m, d) /\ d.channel = m.channel
               /\ d.status = m.status /\ d.sent = m.sent /\ d.setupUp = m.setupUp
BY DEF ReadReply, Manager, SameSession

(* Reading an answer keeps the object in order.                               *)
LEMMA ReadReplyFit ==
    ASSUME NEW m, NEW c \in Commands \cup {0}, Fit(m, c)
    PROVE  Fit(ReadReply(m), c)
<1> DEFINE d == ReadReply(m)
<1>1. /\ d \in Manager /\ d.req = "free" /\ d.for = 0
      /\ SameSession(m, d) /\ d.channel = m.channel
      /\ d.status = m.status /\ d.sent = m.sent /\ d.setupUp = m.setupUp
  BY ReadReplyFields DEF Fit
<1> HIDE DEF d
<1>2. Coherent(d) /\ OwnsRequest(d, c)
  BY <1>1 DEF Fit, Coherent, OwnsRequest, SameSession, Usable
<1> QED BY <1>1, <1>2 DEF Fit, d

(* A grant adopted with the REQ free gives up an endpoint it does not match.   *)
LEMMA AdoptFit ==
    ASSUME NEW m, NEW c \in Commands \cup {0}, NEW g \in Grants, Fit(m, c), m.req = "free"
    PROVE  LET a == AdoptGrant(m, g)
           IN  Fit(a, c) /\ a.status = "settingup" /\ a.channel = g
<1> DEFINE s == CASE GrantChanged(m, g) /\ m.sub # "init" -> RecreateSubscriber(m)
                  [] GrantChanged(m, g) /\ m.sub = "init" -> [m EXCEPT !.url = None]
                  [] OTHER -> m
           t == [s EXCEPT !.channel = g, !.last = g]
           u == SetSetupStatus(t, "settingup")
           a == [u EXCEPT !.sent = FALSE]
<1>1. /\ s \in Manager /\ s.req = "free" /\ s.for = m.for
      /\ s.sub = "init" <=> s.url = None
      /\ s.subsUp => s.url # None
      /\ s.url # None => m.last = g /\ s.url = g
  <2>1. CASE GrantChanged(m, g) /\ m.sub # "init"
    <3>1. s = RecreateSubscriber(m)
      BY <2>1
    <3> HIDE DEF s
    <3> QED BY <3>1 DEF RecreateSubscriber, Fit, Manager
  <2>2. CASE GrantChanged(m, g) /\ m.sub = "init"
    <3>1. s = [m EXCEPT !.url = None]
      BY <2>2
    <3> HIDE DEF s
    <3> QED BY <2>2, <3>1 DEF Fit, Coherent, Manager
  <2>3. CASE ~GrantChanged(m, g)
    <3>1. s = m
      BY <2>3
    <3> HIDE DEF s
    <3> QED BY <2>3, <3>1 DEF GrantChanged, Fit, Coherent
  <2> QED BY <2>1, <2>2, <2>3
<1>2. /\ t \in Manager /\ t.channel = g /\ t.last = g /\ t.req = "free"
      /\ t.sub = s.sub /\ t.url = s.url /\ t.subsUp = s.subsUp
  <2> HIDE DEF s
  <2> QED BY <1>1 DEF Manager
<1>3. /\ u \in Manager /\ u.status = "settingup" /\ SameSession(t, u) /\ u.channel = t.channel
      /\ SameRequest(t, u)
  <2> HIDE DEF t
  <2> QED BY <1>2, SetStatusKeepsRequest
<1>4. /\ a \in Manager /\ a.status = "settingup" /\ SameSession(u, a) /\ a.channel = u.channel
      /\ a.req = u.req /\ a.sent = FALSE
  <2> HIDE DEF u
  <2> QED BY <1>3 DEF Manager, SameSession
<1>5. Coherent(a) /\ OwnsRequest(a, c) /\ a.channel = g
  <2> HIDE DEF a, u, t, s
  <2> QED BY <1>1, <1>2, <1>3, <1>4 DEF Coherent, OwnsRequest, SameSession, SameRequest
<1> QED BY <1>4, <1>5 DEF AdoptGrant, Fit

(* The answer to CHANNEL, or one read out of band while no command waits.      *)
LEMMA ApplyFit ==
    ASSUME NEW m, NEW c \in Commands \cup {0}, NEW g \in Grants, Fit(m, c),
           c # 0 => m.status = "waiting_setup"
    PROVE  LET a == ApplyChannelSetupReply(m, g)
           IN  /\ Fit(a, c)
               /\ m.req = "grant" => a.status = "settingup"
               /\ m.req # "grant" => a.channel = m.channel /\ a.url = m.url
<1> DEFINE d == ReadReply(m)
           e == SetSetupStatus(d, "error")
<1>1. /\ d \in Manager /\ d.req = "free" /\ d.for = 0
      /\ SameSession(m, d) /\ d.channel = m.channel
      /\ d.status = m.status /\ d.sent = m.sent
  BY ReadReplyFields DEF Fit
<1>2. Fit(d, c)
  BY ReadReplyFit
<1>3. CASE m.req = "grant"
  <2> HIDE DEF d
  <2>1. Fit(AdoptGrant(d, g), c) /\ AdoptGrant(d, g).status = "settingup"
    BY <1>1, <1>2, AdoptFit
  <2> QED BY <1>3, <2>1 DEF ApplyChannelSetupReply, d
<1>4. CASE m.req = "error"
  <2> HIDE DEF d
  <2>1. d.sent <=> d.status = "waiting_setup"
    BY <1>2 DEF Fit, Coherent
  <2>2. /\ e \in Manager /\ e.status = "error" /\ SameSession(d, e) /\ e.channel = d.channel
        /\ SameRequest(d, e) /\ ~e.sent
    BY <1>1, <2>1, SetStatusEndsRequest
  <2> HIDE DEF e
  <2>3. Fit(e, c) /\ e.channel = m.channel /\ e.url = m.url
    BY <1>1, <1>2, <2>2 DEF Fit, Coherent, OwnsRequest, SameSession, SameRequest, Usable
  <2> QED BY <1>4, <2>3 DEF ApplyChannelSetupReply, d, e
<1>5. CASE m.req \notin {"grant", "error"}
  BY <1>1, <1>2, <1>5 DEF ApplyChannelSetupReply, SameSession
<1> QED BY <1>3, <1>4, <1>5

(* Sending CHANNEL: the REQ socket turns to it, or is replaced.                *)
LEMMA SendFit ==
    ASSUME NEW m, NEW c \in Commands \cup {0}, Fit(m, c), MaySend(m)
    PROVE  Fit(SendChannel(m), c) /\ SendChannel(m).channel = None
<1> DEFINE s == SetSetupStatus(m, "waiting_setup")
           q == [s EXCEPT !.sent = TRUE, !.req = "pending", !.for = 0]
<1>1. CASE m.req = "free"
  <2>2. /\ s \in Manager /\ s.status = "waiting_setup" /\ SameSession(m, s)
        /\ s.channel = m.channel
    BY SetStatusKeepsRequest DEF Fit
  <2>3. /\ q \in Manager /\ q.status = "waiting_setup" /\ SameSession(s, q)
        /\ q.channel = s.channel /\ q.sent = TRUE /\ q.for = 0
    <3> HIDE DEF s
    <3> QED BY <2>2 DEF Manager, SameSession
  <2> HIDE DEF s, q
  <2>4. Fit(q, c) /\ q.channel = None
    BY <2>2, <2>3 DEF Fit, Coherent, OwnsRequest, SameSession, MaySend
  <2> QED BY <1>1, <2>4 DEF SendChannel, q, s
<1>2. CASE m.req # "free"
  <2>1. c # 0 => m.url = None
    BY DEF Fit, OwnsRequest, MaySend
  <2>2. m.channel = None
    BY DEF Fit, Coherent, MaySend
  <2> DEFINE r == ResetChannelRequest(m, FALSE)
  <2>3. Fit(r, c) /\ r.channel = None
    BY <2>1, <2>2, ResetFit
  <2> QED BY <1>2, <2>3 DEF SendChannel
<1> QED BY <1>1, <1>2

(* requestChannel adopts a grant only on the way to the SUB connection.        *)
LEMMA RequestFit ==
    ASSUME NEW m, NEW c \in Commands \cup {0}, NEW g \in Grants, Fit(m, c),
           m.channel # None => m.status = "settingup"
    PROVE  LET r == RequestChannel(m, g)
           IN  Fit(r, c) /\ (r.channel # None => r.status = "settingup")
<1>1. CASE MaySend(m)
  <2>1. ~m.sent
    BY <1>1 DEF Fit, Coherent, MaySend
  <2> DEFINE q == SendChannel(m)
  <2>2. Fit(q, c) /\ q.channel = None
    BY <1>1, SendFit
  <2>3. RequestChannel(m, g) = q
    BY <1>1, <2>1 DEF RequestChannel, MaySend, MayReceive
  <2> HIDE DEF q
  <2> QED BY <2>2, <2>3
<1>2. CASE MayReceive(m) /\ m.req = "grant"
  <2> DEFINE a == ApplyChannelSetupReply(m, g)
  <2>1. Fit(a, c) /\ a.status = "settingup"
    BY <1>2, ApplyFit DEF MayReceive
  <2> QED BY <1>2, <2>1 DEF RequestChannel, MaySend, MayReceive
<1>3. CASE MayReceive(m) /\ m.req \in {"error", "other"}
  <2> DEFINE a == ApplyChannelSetupReply(m, g)
             r == ResetChannelRequest(a, FALSE)
  <2>1. Fit(a, c) /\ a.channel = m.channel /\ a.url = m.url
    BY <1>3, ApplyFit DEF MayReceive
  <2>2. a.channel = None /\ (c # 0 => a.url = None)
    BY <1>3, <2>1 DEF Fit, Coherent, OwnsRequest, MayReceive
  <2> HIDE DEF a
  <2>3. Fit(r, c) /\ r.channel = None
    BY <2>1, <2>2, ResetFit
  <2> QED BY <1>3, <2>3 DEF a, RequestChannel, MaySend, MayReceive
<1>4. CASE ~MaySend(m) /\ ~(MayReceive(m) /\ m.req \in {"grant", "error", "other"})
  BY <1>4 DEF RequestChannel
<1> QED BY <1>1, <1>2, <1>3, <1>4

(* The SUB socket goes to the port of the grant that was stored last.          *)
LEMMA AttachFit ==
    ASSUME NEW m, NEW c \in Commands \cup {0}, Fit(m, c),
           m.channel # None, m.status = "settingup"
    PROVE  LET a == AttachSubscriber(m)
           IN  Fit(a, c) /\ a.status = "settingup"
<1> DEFINE a == [m EXCEPT !.url = m.last, !.sub = "sub"]
<1>1. m.url \in {None, m.last}
  BY DEF Fit, Coherent
<1>2. /\ a \in Manager /\ a.url = m.last /\ a.sub = "sub" /\ a.last = m.last
      /\ a.channel = m.channel /\ a.subsUp = m.subsUp /\ a.status = m.status
      /\ a.sent = m.sent /\ SameRequest(m, a)
  BY DEF Fit, Manager, SameRequest
<1>3. Fit(a, c) /\ a.status = "settingup"
  <2> HIDE DEF a
  <2> QED BY <1>2 DEF Fit, Coherent, OwnsRequest, SameRequest
<1>4. CASE m.sub # "init" /\ m.url = m.last
  BY <1>4 DEF AttachSubscriber
<1>5. CASE ~(m.sub # "init" /\ m.url = m.last)
  <2>1. AttachSubscriber(m) = a
    BY <1>1, <1>5 DEF AttachSubscriber
  <2> QED BY <1>3, <2>1
<1> QED BY <1>4, <1>5

(* setupConnections: the dial of e_startup moves no connection.               *)
LEMMA DialFit ==
    ASSUME NEW m, NEW c \in Commands \cup {0}, Fit(m, c)
    PROVE  LET d == Dial(m)
           IN  /\ Fit(d, c)
               /\ d.setupUp = m.setupUp /\ d.subsUp = m.subsUp
               /\ m.channel = None => d.channel = None
               /\ m.status = "startup" => d.channel = None
<1> DEFINE dialed == [m EXCEPT !.channel = None, !.dialed = TRUE]
           w == SetSetupStatus(dialed, "waiting_connect")
<1>1. CASE m.status = "startup"
  <2>1. /\ dialed \in Manager /\ dialed.channel = None /\ SameSession(m, dialed)
        /\ SameRequest(m, dialed) /\ dialed.status = m.status /\ dialed.sent = m.sent
        /\ dialed.setupUp = m.setupUp
    BY DEF Fit, Manager, SameSession, SameRequest
  <2> HIDE DEF dialed
  <2>2. dialed.sent <=> dialed.status = "waiting_setup"
    BY <2>1 DEF Fit, Coherent
  <2>3. /\ w \in Manager /\ w.status = "waiting_connect" /\ SameSession(dialed, w)
        /\ w.channel = dialed.channel /\ SameRequest(dialed, w) /\ ~w.sent
        /\ w.setupUp = dialed.setupUp
    BY <2>1, <2>2, SetStatusEndsRequest
  <2>4. Dial(m) = w
    BY <1>1 DEF Dial, dialed
  <2> HIDE DEF w
  <2>5. Fit(w, c) /\ w.channel = None /\ w.setupUp = m.setupUp /\ w.subsUp = m.subsUp
    BY <1>1, <2>1, <2>3 DEF Fit, Coherent, OwnsRequest, SameSession, SameRequest
  <2> QED BY <2>4, <2>5
<1>2. CASE m.status # "startup"
  BY <1>2 DEF Dial
<1> QED BY <1>1, <1>2

(* The rest of it, from every state in which it is called.                    *)
LEMMA ConnectFit ==
    ASSUME NEW m, NEW c \in Commands \cup {0}, NEW g \in Grants, NEW attach \in BOOLEAN,
           Fit(m, c), m.channel # None => m.status = "settingup"
    PROVE  LET s == Connect(m, g, attach)
           IN  Fit(s, c) /\ (s.channel # None => s.status = "settingup")
<1> DEFINE r == RequestChannel(m, g)
           a == AttachSubscriber(r)
<1>1. Fit(r, c) /\ (r.channel # None => r.status = "settingup")
  BY RequestFit
<1>2. CASE HasChannel(m, r) /\ attach
  <2>1. r.channel # None
    BY <1>2 DEF HasChannel
  <2>2. Connect(m, g, attach) = a
    BY <1>2 DEF Connect
  <2> HIDE DEF r
  <2>3. Fit(a, c) /\ a.status = "settingup"
    BY <1>1, <2>1, AttachFit
  <2> HIDE DEF a
  <2> QED BY <2>2, <2>3
<1>3. CASE ~(HasChannel(m, r) /\ attach)
  <2>1. Connect(m, g, attach) = r
    BY <1>3 DEF Connect
  <2> HIDE DEF r
  <2> QED BY <1>1, <2>1
<1> QED BY <1>2, <1>3

(* With the setup connection down no grant is kept.                           *)
LEMMA SetupLostFit ==
    ASSUME NEW m, NEW c \in Commands \cup {0}, NEW g \in Grants, Fit(m, c)
    PROVE  Fit(SetupLost(m, g), c) /\ SetupLost(m, g).channel = None
<1> DEFINE f == ForceFullReconnect(m)
           r == ResetChannelRequest(m, FALSE)
           u == [m EXCEPT !.sent = FALSE]
<1>1. Fit(f, c) /\ f.channel = None
  BY ReconnectFit
<1>2. CASE m.status = "done"
  BY <1>1, <1>2 DEF SetupLost
<1>3. CASE m.status \in {"waiting_setup", "error", "settingup"}
  <2>1. CASE m.channel # None \/ m.sub # "init"
    BY <1>1, <1>3, <2>1 DEF SetupLost
  <2>2. CASE ~(m.channel # None \/ m.sub # "init")
    <3>1. m.channel = None /\ m.url = None
      BY <2>2 DEF Fit, Coherent
    <3>2. Fit(r, c) /\ r.channel = None
      BY <3>1, ResetFit
    <3> QED BY <1>3, <2>2, <3>2 DEF SetupLost
  <2> QED BY <2>1, <2>2
<1>4. CASE m.status \in {"startup", "waiting_connect"}
  <2>1. ~m.sent /\ m.channel = None
    BY <1>4 DEF Fit, Coherent
  <2>2. /\ u \in Manager /\ SameSession(m, u) /\ SameRequest(m, u)
        /\ u.channel = m.channel /\ u.status = m.status /\ u.sent = FALSE
    BY DEF Fit, Manager, SameSession, SameRequest
  <2>3. SetupLost(m, g) = u
    BY <1>4, <2>1 DEF SetupLost, DrainChannelRequest
  <2> HIDE DEF u
  <2>4. Fit(u, c) /\ u.channel = None
    BY <1>4, <2>1, <2>2 DEF Fit, Coherent, OwnsRequest, SameSession, SameRequest
  <2> QED BY <2>3, <2>4
<1> QED BY <1>2, <1>3, <1>4 DEF Fit, Manager, Status

(* Losing the SUB connection costs the grant too.                             *)
LEMMA SubscriberLostFit ==
    ASSUME NEW m, NEW c \in Commands \cup {0}, Fit(m, c)
    PROVE  Fit(SubscriberLost(m), c) /\ SubscriberLost(m).channel = None
<1> DEFINE v == InvalidateSubscriberSession(m)
           i == SetSetupStatus(v, "waiting_connect")
           q == ResetChannelRequest(i, FALSE)
<1>1. /\ v \in Manager /\ v.sub = "init" /\ v.url = None /\ ~v.subsUp /\ v.channel = None
      /\ v.status = m.status /\ v.sent = m.sent /\ SameRequest(m, v)
  BY InvalidateFields DEF Fit
<1>2. v.sent <=> v.status = "waiting_setup"
  BY <1>1 DEF Fit, Coherent
<1>3. /\ i \in Manager /\ i.status = "waiting_connect" /\ SameSession(v, i)
      /\ i.channel = v.channel /\ ~i.sent
  <2> HIDE DEF v
  <2> QED BY <1>1, <1>2, SetStatusEndsRequest
<1>4. Fit(i, c) /\ i.channel = None /\ i.url = None
  <2> HIDE DEF i, v
  <2> QED BY <1>1, <1>3 DEF Fit, Coherent, OwnsRequest, SameSession
<1>5. Fit(q, c) /\ q.channel = None
  <2> HIDE DEF i
  <2> QED BY <1>4, ResetFit
<1> HIDE DEF q
<1> QED BY <1>5 DEF SubscriberLost, q

(* A usable session with nothing under way on the REQ may be declared set up.   *)
LEMMA DoneFit ==
    ASSUME NEW m, NEW c \in Commands \cup {0}, Fit(m, c), Usable(m)
    PROVE  Fit(SetSetupStatus(m, "done"), c)
<1> DEFINE e == SetSetupStatus(m, "done")
<1>1. /\ e \in Manager /\ e.status = "done" /\ SameSession(m, e) /\ e.channel = m.channel
      /\ SameRequest(m, e) /\ e.sent = m.sent
  BY SetStatusKeepsRequest DEF Fit
<1> HIDE DEF e
<1>2. Fit(e, c)
  BY <1>1 DEF Fit, Coherent, OwnsRequest, Usable, SameSession, SameRequest
<1> QED BY <1>2 DEF e

------------------------------------------------------------------------------
(* The steps                                                                 *)

USE ChannelRepliesAssumption, BoundsAssumption

(* The initial state satisfies the invariant.                                *)
LEMMA InitInv == Init => IInv
<1> SUFFICES ASSUME Init PROVE IInv
  OBVIOUS
<1>1. sm \in Manager /\ Coherent(sm)
  BY DEF Init, FreshManager, Manager, Status, Coherent
<1>2. outcome \in [Commands -> {"none", "own", "foreign", "failed", "timeout", "disconnected"}]
  BY DEF Init
<1>3. asked \in 0..NumCommands /\ faults \in 0..MaxFaults /\ inbox \in Seq(Commands)
  BY DEF Init
<1>4. TypeOK
  BY <1>1, <1>2, <1>3 DEF Init, TypeOK, Drive
<1> QED BY <1>1, <1>4 DEF Init, IInv, OwnsRequest, PollCurrent, TestsCurrent, Testing,
                         GrantNeedsBothLegs, NoForeignReply

(* A step of a drive: the object stays in order and the tests keep their word. *)
LEMMA DriveStep ==
    ASSUME IInv, Fit(sm', serving), TestsCurrent', pc \in Drive, pc' \in Drive \cup {"poll"},
           lost' \subseteq {"setup", "subs"}, faults' \in 0..MaxFaults,
           UNCHANGED <<late, commandVars, readable>>
    PROVE  IInv'
BY DEF IInv, TypeOK, Fit, PollCurrent, NoForeignReply, commandVars, Drive

(* The tests that only decide where the drive goes on.                        *)
LEMMA TestInv ==
    ASSUME IInv, faults' \in 0..MaxFaults,
           \/ TestLegs \/ TestBothSetup \/ TestSubscriber \/ TestSettled
    PROVE  IInv'
<1> USE DEF Drive, Testing, To
<1>1. Fit(sm', serving) /\ lost' = lost /\ lost \subseteq {"setup", "subs"}
  BY DEF IInv, TypeOK, Fit, TestLegs, TestBothSetup, TestSubscriber, TestSettled
<1>2. /\ pc \in Drive /\ pc' \in Drive \cup {"poll"}
      /\ UNCHANGED <<late, commandVars, readable>>
  BY DEF TestLegs, TestBothSetup, TestSubscriber, TestSettled
<1>3. TestsCurrent'
  BY <1>1 DEF IInv, TypeOK, TestsCurrent, GrantNeedsBothLegs,
              TestLegs, TestBothSetup, TestSubscriber, TestSettled
<1> QED BY <1>1, <1>2, <1>3, DriveStep

(* Every step of a drive preserves the invariant.                             *)
LEMMA DriveInv == IInv /\ (CheckConnections \/ CheckTooEarly) => IInv'
<1> SUFFICES ASSUME IInv, CheckConnections \/ CheckTooEarly PROVE IInv'
  OBVIOUS
<1>a. faults \in 0..MaxFaults /\ (faults' = faults \/ (faults < MaxFaults /\ faults' = faults + 1))
  BY DEF IInv, TypeOK, CheckConnections, CheckTooEarly, Fault
<1>0. /\ Fit(sm, serving) /\ serving \in Commands \cup {0} /\ Coherent(sm)
      /\ lost \subseteq {"setup", "subs"}
      /\ faults' \in 0..MaxFaults
  <2>1. faults' \in 0..MaxFaults
    BY <1>a
  <2> QED BY <2>1 DEF IInv, TypeOK, Fit
<1> USE DEF To, Testing, Drive
<1>1. CASE BeginPass
  <2>1. /\ Fit(sm', serving) /\ sm'.setupUp = sm.setupUp /\ sm'.subsUp = sm.subsUp
        /\ sm.status = "startup" => sm'.channel = None
    BY <1>0, <1>1, DialFit DEF BeginPass
  <2>2. /\ lost' = Down(sm) /\ pc = "check"
        /\ pc' = CASE sm.status = "startup" -> "connect"
                   [] sm.status # "startup" /\ sm.setupUp -> "legs"
                   [] sm.status # "startup" /\ ~sm.setupUp -> "down"
        /\ UNCHANGED <<late, commandVars, readable>>
    BY <1>1 DEF BeginPass
  <2>3. /\ pc' \in {"connect", "legs", "down"}
        /\ pc' = "connect" => sm.status = "startup"
        /\ pc' = "legs" => sm.setupUp
    BY <1>0, <2>2 DEF Fit, Manager
  <2>4. TestsCurrent'
    BY <2>1, <2>2, <2>3 DEF TestsCurrent, GrantNeedsBothLegs, Down
  <2> QED BY <1>0, <2>1, <2>2, <2>3, <2>4, DriveStep DEF Down
<1>2. CASE TestLegs \/ TestBothSetup \/ TestSubscriber \/ TestSettled
  BY <1>0, <1>2, TestInv
<1>3. CASE TimeOut
  <2>1. Fit(sm', serving) /\ ~sm'.subsUp /\ (sm'.setupUp => sm.setupUp)
    BY <1>0, <1>3, ReconnectFit DEF TimeOut
  <2>2. TestsCurrent'
    BY <1>3, <2>1 DEF TimeOut, IInv, TestsCurrent, GrantNeedsBothLegs
  <2> QED BY <1>0, <1>3, <2>1, <2>2, DriveStep DEF TimeOut
<1>4. CASE TestBothSubscriber
  <2>1. /\ Fit(sm', serving)
        /\ (sm' = sm /\ pc' = "setup") \/ (sm'.channel = None /\ pc' = "poll")
    <3>1. CASE sm.subsUp
      BY <1>0, <1>4, <3>1 DEF TestBothSubscriber
    <3>2. CASE ~sm.subsUp
      BY <1>0, <1>4, <3>2, ReconnectFit DEF TestBothSubscriber
    <3> QED BY <3>1, <3>2
  <2>2. TestsCurrent'
    BY <1>4, <2>1 DEF TestBothSubscriber, IInv, TestsCurrent, GrantNeedsBothLegs
  <2> QED BY <1>0, <1>4, <2>1, <2>2, DriveStep DEF TestBothSubscriber
<1>5. CASE TestSetup
  <2>1. /\ Fit(sm', serving)
        /\ (sm' = sm /\ sm.setupUp /\ pc' = "subs") \/ (sm'.channel = None /\ pc' = "poll")
    <3>1. CASE sm.setupUp
      BY <1>0, <1>5, <3>1 DEF TestSetup
    <3>2. CASE ~sm.setupUp
      BY <1>0, <1>5, <3>2, SetupLostFit DEF TestSetup
    <3> QED BY <3>1, <3>2
  <2>2. TestsCurrent'
    BY <1>5, <2>1 DEF TestSetup, IInv, TestsCurrent, GrantNeedsBothLegs
  <2> QED BY <1>0, <1>5, <2>1, <2>2, DriveStep DEF TestSetup
<1>6. CASE TestSubscriberAlone
  <2>1. Fit(SubscriberLost(sm), serving) /\ SubscriberLost(sm).channel = None
    BY <1>0, SubscriberLostFit
  <2>2. Fit(Dial(SubscriberLost(sm)), serving) /\ Dial(SubscriberLost(sm)).channel = None
    BY <1>0, <2>1, DialFit
  <2>3. /\ Fit(sm', serving)
        /\ \/ sm' = sm /\ ~sm.setupUp /\ pc' = "handshake"
           \/ sm'.channel = None /\ pc' = "connect"
    <3>1. CASE sm.setupUp
      BY <1>6, <2>2, <3>1 DEF TestSubscriberAlone
    <3>2. CASE ~sm.setupUp
      BY <1>0, <1>6, <3>2 DEF TestSubscriberAlone
    <3> QED BY <3>1, <3>2
  <2>4. TestsCurrent'
    BY <1>0, <1>6, <2>3 DEF TestSubscriberAlone, IInv, TestsCurrent, GrantNeedsBothLegs
  <2> QED BY <1>0, <1>6, <2>3, <2>4, DriveStep DEF TestSubscriberAlone
<1>7. ASSUME NEW attach \in BOOLEAN, Connecting(attach) PROVE IInv'
  <2>1. sm.channel = None
    BY <1>7 DEF Connecting, IInv, TestsCurrent
  <2>2. Fit(sm', serving) /\ (sm'.channel # None => sm'.status = "settingup")
    BY <1>0, <1>7, <2>1, ConnectFit DEF Connecting
  <2>3. TestsCurrent'
    BY <1>7, <2>2 DEF Connecting, IInv, TestsCurrent, GrantNeedsBothLegs
  <2> QED BY <1>0, <1>7, <2>2, <2>3, DriveStep DEF Connecting
<1>8. ASSUME NEW attach \in BOOLEAN, Handshake(attach) PROVE IInv'
  <2>1. sm.channel # None => sm.status = "settingup"
    BY <1>0, <1>8 DEF Handshake, MidHandshake, Coherent
  <2>2. Fit(sm', serving)
    BY <1>0, <1>8, <2>1, ConnectFit, ReconnectFit DEF Handshake
  <2>3. TestsCurrent'
    BY <1>8 DEF Handshake, IInv, TestsCurrent, GrantNeedsBothLegs
  <2> QED BY <1>0, <1>8, <2>2, <2>3, DriveStep DEF Handshake
<1>9. CASE FinishDrive
  <2>1. Fit(sm', serving)
    BY <1>0, <1>9, DoneFit DEF FinishDrive
  <2>2. TestsCurrent'
    BY <1>9 DEF FinishDrive, IInv, TestsCurrent, GrantNeedsBothLegs
  <2> QED BY <1>0, <1>9, <2>1, <2>2, DriveStep DEF FinishDrive
<1>10. CASE /\ pc = "subsOnly" /\ sm.setupUp /\ sm.status = "startup"
            /\ UNCHANGED sm /\ To("poll")
  <2>1. TestsCurrent'
    BY <1>0, <1>10 DEF Coherent, IInv, TestsCurrent, GrantNeedsBothLegs
  <2> QED BY <1>0, <1>10, <2>1, DriveStep
<1>11. CASE /\ pc = "check" /\ sm.status = "startup"
            /\ pc' = "poll" /\ lost' = Down(sm)
            /\ UNCHANGED <<smVars, commandVars, readable>>
  <2>1. TestsCurrent'
    BY <1>0, <1>11 DEF Coherent, TestsCurrent, GrantNeedsBothLegs, smVars
  <2> QED BY <1>0, <1>11, <2>1, DriveStep DEF Down, smVars
<1> QED
  BY <1>1, <1>2, <1>3, <1>4, <1>5, <1>6, <1>7, <1>8, <1>9, <1>10, <1>11
  DEF CheckConnections, CheckTooEarly

(* A pass past its drive.                                                     *)
Polled ==
    \/ LegDownNotPolled \/ TestSubscriberPolled \/ PollFails \/ \E t \in BOOLEAN : Poll(t)
    \/ NoCommand \/ ForwardCommand \/ RefuseCommand
    \/ RespondDisconnected \/ RespondReply \/ RespondOutOfBand
    \/ RespondTimeout \/ RespondNothing

(* IInv but for the tests of the drive, which are over by then.                *)
Orderly ==
    /\ TypeOK /\ Coherent(sm) /\ OwnsRequest(sm, serving) /\ PollCurrent /\ NoForeignReply

(* Each of its steps leaves the object and the commands in order.             *)
LEMMA PolledOrderly == IInv /\ Polled => Orderly'
<1> SUFFICES ASSUME IInv, Polled PROVE Orderly'
  OBVIOUS
<1> USE DEF commandVars, smVars, Drive, Fault
<1>0. /\ Fit(sm, serving) /\ serving \in Commands \cup {0}
      /\ faults \in 0..MaxFaults /\ (faults < MaxFaults => faults + 1 \in 0..MaxFaults)
      /\ lost \subseteq {"setup", "subs"}
  BY DEF IInv, TypeOK, Fit
<1>3. CASE PollFails
  <2>1. Fit(ForceFullReconnect(sm), serving)
    BY <1>0, ReconnectFit
  <2>2. Fit(sm', serving)
    BY <1>0, <1>3, <2>1 DEF PollFails
  <2> QED BY <1>0, <1>3, <2>2 DEF PollFails, IInv, Orderly, TypeOK, Fit, PollCurrent, NoForeignReply
<1>4. ASSUME NEW t \in BOOLEAN, Poll(t) PROVE Orderly'
  <2>1. Readable(t) \subseteq {"setup", "subs", "cmd"}
        /\ ("cmd" \in Readable(t) => inbox # <<>>)
        /\ ("setup" \in Readable(t) => sm.url # None /\ sm.req # "free")
    BY <1>4 DEF Poll, Readable, ReplyKinds, IInv, PollCurrent
  <2>2. "setup" \in Readable(t) /\ serving # 0 => sm.for = serving
    BY <2>1, <1>0 DEF Fit, Coherent, OwnsRequest
  <2> QED BY <1>4, <2>1, <2>2 DEF Poll, IInv, Orderly, TypeOK, PollCurrent, NoForeignReply
<1>5. CASE NoCommand
  BY <1>5 DEF NoCommand, IInv, Orderly, TypeOK, PollCurrent, NoForeignReply
<1>6. CASE ForwardCommand
  <2> DEFINE f == [sm EXCEPT !.req = "pending", !.for = Head(inbox)]
  <2>1. inbox # <<>> /\ inbox \in Seq(Commands) /\ sm.status = "done"
    BY <1>6 DEF ForwardCommand, CommandReady, IInv, Orderly, TypeOK, PollCurrent
  <2>2. Head(inbox) \in Commands /\ Tail(inbox) \in Seq(Commands)
    BY <2>1
  <2>3. /\ f \in Manager /\ f.req = "pending" /\ f.for = Head(inbox) /\ SameSession(sm, f)
        /\ f.channel = sm.channel /\ f.status = sm.status /\ f.sent = sm.sent
    BY <1>0, <2>2 DEF Fit, Manager, SameSession
  <2>4. sm' = f
    BY <1>6 DEF ForwardCommand
  <2> HIDE DEF f
  <2>5. Coherent(sm') /\ OwnsRequest(sm', Head(inbox)) /\ sm' \in Manager /\ sm'.for = Head(inbox)
    BY <1>0, <2>1, <2>3, <2>4 DEF Fit, Coherent, OwnsRequest, SameSession, Usable
  <2> QED BY <1>6, <2>2, <2>5 DEF ForwardCommand, IInv, Orderly, TypeOK, PollCurrent, NoForeignReply
<1>7. CASE RefuseCommand
  <2>1. inbox # <<>> /\ inbox \in Seq(Commands) /\ serving = 0
    BY <1>7 DEF RefuseCommand, CommandReady, IInv, Orderly, TypeOK, PollCurrent
  <2>2. Head(inbox) \in Commands /\ Tail(inbox) \in Seq(Commands)
    BY <2>1
  <2>3. Fit(sm', 0)
    BY <1>0, <1>7, <2>1, ResetFit DEF RefuseCommand
  <2> QED BY <1>7, <2>1, <2>2, <2>3 DEF RefuseCommand, IInv, Orderly, TypeOK, Fit, PollCurrent, NoForeignReply
<1>13. ASSUME NEW what \in {"own", "timeout", "disconnected"}, EndPass, Answer(what),
              serving # 0, Fit(sm', 0)
       PROVE  Orderly'
  BY <1>0, <1>13 DEF EndPass, Answer, IInv, Orderly, TypeOK, Fit, PollCurrent, NoForeignReply
<1>14. ASSUME NEW up \in BOOLEAN, up => CanKeep(sm)
       PROVE  Fit(sm, 0) /\ Fit(ResetChannelRequest(sm, up), 0)
  <2>1. Fit(sm, 0)
    BY <1>0 DEF Fit, OwnsRequest
  <2> QED BY <1>14, <2>1, ResetFit
<1>8. CASE RespondDisconnected
  BY <1>8, <1>13, <1>14 DEF RespondDisconnected
<1>9. CASE RespondReply
  <2>1. serving # 0 /\ sm.for = serving
    BY <1>9 DEF RespondReply, Answering, IInv, PollCurrent
  <2>2. Fit(sm, 0)
    BY <1>14
  <2>3. Fit(sm', 0)
    BY <1>9, <2>2, ReadReplyFit DEF RespondReply
  <2> QED BY <1>9, <1>13, <2>1, <2>3 DEF RespondReply
<1>10. CASE RespondOutOfBand
  <2>1. serving = 0 /\ EndPass /\ UNCHANGED <<late, commandVars>>
    BY <1>10 DEF RespondOutOfBand
  <2>2. PICK g \in Grants :
          LET a == ApplyChannelSetupReply(sm, g)
          IN  sm' = IF sm.req = "grant" THEN Connect(a, g, TRUE) ELSE a
    BY <1>10 DEF RespondOutOfBand
  <2> DEFINE a == ApplyChannelSetupReply(sm, g)
  <2>3. Fit(a, 0) /\ (sm.req = "grant" => a.status = "settingup")
    BY <1>0, <2>1, ApplyFit
  <2> HIDE DEF a
  <2>4. sm.req = "grant" => Fit(Connect(a, g, TRUE), 0)
    BY <2>3, ConnectFit
  <2>5. Fit(sm', 0)
    BY <2>2, <2>3, <2>4 DEF a
  <2> QED BY <2>1, <2>5 DEF EndPass, IInv, Orderly, TypeOK, Fit, PollCurrent, NoForeignReply
<1>11. CASE RespondTimeout
  BY <1>11, <1>13, <1>14 DEF RespondTimeout
<1>12. CASE RespondNothing
  BY <1>12 DEF RespondNothing, EndPass, IInv, Orderly, TypeOK, PollCurrent, NoForeignReply
<1>15. CASE LegDownNotPolled \/ TestSubscriberPolled
  BY <1>0, <1>15 DEF LegDownNotPolled, TestSubscriberPolled, Fit, Coherent,
                     IInv, Orderly, TypeOK, PollCurrent, NoForeignReply
<1> QED
  BY <1>3, <1>4, <1>5, <1>6, <1>7, <1>8, <1>9, <1>10, <1>11, <1>12, <1>15 DEF Polled

(* Every step of a pass preserves the invariant.                              *)
LEMMA PassInv == IInv /\ (Pass \/ CheckTooEarly \/ PollFails) => IInv'
<1>1. IInv /\ Polled => TestsCurrent'
  <2> SUFFICES ASSUME IInv, Polled PROVE lost' = {} /\ pc' \notin Testing \cup {"connect"}
    BY DEF TestsCurrent, GrantNeedsBothLegs
  <2>1. pc \in {"polling", "accept", "respond"} => lost = {}
    BY DEF IInv, TestsCurrent, Testing
  <2> QED BY <2>1 DEF Polled, Testing, LegDownNotPolled, TestSubscriberPolled, Poll, PollFails,
       NoCommand, ForwardCommand, RefuseCommand, EndPass, RespondDisconnected, RespondReply,
       RespondOutOfBand, RespondTimeout, RespondNothing
<1>2. IInv /\ Polled => IInv'
  BY <1>1, PolledOrderly DEF IInv, Orderly
<1> QED BY <1>2, DriveInv DEF Pass, Polled

(* What the monitor threads, iod and the clock may do to the object: a SUB     *)
(* connection needs an endpoint, an answer needs a pending request.           *)
Disturbs(m, s) ==
    /\ s \in Manager
    /\ s.status = m.status /\ s.sent = m.sent /\ s.channel = m.channel
    /\ s.sub = m.sub /\ s.url = m.url /\ s.last = m.last
    /\ s.subsUp => m.url # None
    /\ s.for = m.for
    /\ s.req = m.req \/ (m.req = "pending" /\ s.req # "free")

(* Such a step preserves the invariant.                                       *)
LEMMA DisturbedInv ==
    ASSUME IInv, Disturbs(sm, sm'), late' \in BOOLEAN, faults' \in 0..MaxFaults,
           lost' \subseteq lost,
           "setup" \in lost' => (sm'.setupUp => sm.setupUp),
           "subs" \in lost' => (sm'.subsUp => sm.subsUp) /\ (sm.setupUp => sm'.setupUp),
           UNCHANGED <<commandVars, pc, readable>>
    PROVE  IInv'
<1>1. Coherent(sm') /\ OwnsRequest(sm', serving)
  BY DEF IInv, TypeOK, Disturbs, Coherent, OwnsRequest, Usable
<1>2. TypeOK' /\ PollCurrent' /\ NoForeignReply'
  BY DEF IInv, TypeOK, Disturbs, PollCurrent, NoForeignReply, commandVars
<1>3. TestsCurrent'
  <2>1. /\ pc' = pc /\ sm'.channel = sm.channel /\ sm'.status = sm.status
        /\ lost' # {} => lost # {}
    BY DEF Disturbs
  <2> QED BY <2>1 DEF IInv, TestsCurrent, GrantNeedsBothLegs
<1> QED BY <1>1, <1>2, <1>3 DEF IInv, commandVars

(* Every step outside the pass preserves the invariant.                       *)
LEMMA SurroundingsInv == IInv /\ (Surroundings \/ SubscriberTorn \/ Ask) => IInv'
<1> SUFFICES ASSUME IInv, Surroundings \/ SubscriberTorn \/ Ask PROVE IInv'
  OBVIOUS
<1>0. /\ Fit(sm, serving) /\ sm \in Manager /\ (sm.subsUp => sm.url # None)
      /\ serving \in Commands \cup {0} /\ late \in BOOLEAN /\ lost \subseteq {"setup", "subs"}
      /\ faults \in 0..MaxFaults /\ (faults < MaxFaults => faults + 1 \in 0..MaxFaults)
  BY DEF IInv, TypeOK, Fit, Coherent
<1> USE DEF Environment, Fault
<1> DEFINE Loses ==
       /\ lost' \subseteq lost
       /\ "setup" \in lost' => (sm'.setupUp => sm.setupUp)
       /\ "subs" \in lost' => (sm'.subsUp => sm.subsUp) /\ (sm.setupUp => sm'.setupUp)
<1>1. CASE Ask
  <2>1. inbox' \in Seq(Commands) /\ inbox' # <<>> /\ asked' \in 0..NumCommands
    BY <1>1 DEF Ask, IInv, TypeOK, Commands
  <2> QED BY <1>1, <2>1 DEF Ask, smVars, IInv, TypeOK, PollCurrent, TestsCurrent, Testing,
                                GrantNeedsBothLegs, NoForeignReply
<1>2. CASE SubscriberTorn
  <2>1. Fit(sm', serving)
    BY <1>0, <1>2, ReconnectFit DEF SubscriberTorn
  <2>2. TestsCurrent'
    BY <1>2 DEF SubscriberTorn, IInv, TestsCurrent, Testing, GrantNeedsBothLegs
  <2> QED BY <1>0, <1>2, <2>1, <2>2 DEF SubscriberTorn, IInv, TypeOK, Fit, PollCurrent,
                                        NoForeignReply, commandVars
<1>3. CASE SetupConnected
  <2>1. Disturbs(sm, sm') /\ Loses
    BY <1>0, <1>3 DEF SetupConnected, Disturbs, Manager
  <2> QED BY <1>0, <1>3, <2>1, DisturbedInv DEF SetupConnected
<1>4. CASE SubscriberConnected
  <2>1. Disturbs(sm, sm') /\ Loses
    BY <1>0, <1>4 DEF SubscriberConnected, Disturbs, Manager
  <2> QED BY <1>0, <1>4, <2>1, DisturbedInv DEF SubscriberConnected
<1>5. CASE SetupDropped
  <2>1. PICK r \in IF sm.req = "pending" THEN {"pending", "lost"} ELSE {sm.req} :
          sm' = [sm EXCEPT !.setupUp = FALSE, !.req = r]
    BY <1>5 DEF SetupDropped
  <2>2. /\ r \in {"free", "pending", "lost"} \cup ReplyKinds
        /\ r = sm.req \/ (sm.req = "pending" /\ r # "free")
    BY <1>0 DEF Manager
  <2>3. Disturbs(sm, sm') /\ Loses
    BY <1>0, <1>5, <2>1, <2>2 DEF SetupDropped, Disturbs, Manager
  <2> QED BY <1>0, <1>5, <2>3, DisturbedInv DEF SetupDropped
<1>6. CASE SubscriberDropped
  <2>1. Disturbs(sm, sm') /\ Loses
    BY <1>0, <1>6 DEF SubscriberDropped, Disturbs, Manager
  <2> QED BY <1>0, <1>6, <2>1, DisturbedInv DEF SubscriberDropped
<1>7. ASSUME NEW k \in ReplyKinds, Deliver(k) PROVE Disturbs(sm, sm') /\ Loses
  BY <1>0, <1>7 DEF Deliver, Disturbs, Manager, ReplyKinds
<1>8. CASE GrantChannel
  BY <1>0, <1>7, <1>8, DisturbedInv DEF GrantChannel, Deliver, ReplyKinds
<1>9. CASE RejectChannel
  BY <1>0, <1>7, <1>9, DisturbedInv DEF RejectChannel, Deliver
<1>10. CASE AnswerCommand
  BY <1>0, <1>7, <1>10, DisturbedInv DEF AnswerCommand, Deliver, ReplyKinds
<1>11. CASE StateAges
  <2>1. Disturbs(sm, sm') /\ Loses
    BY <1>0, <1>11 DEF StateAges, Disturbs, Manager
  <2> QED BY <1>0, <1>11, <2>1, DisturbedInv DEF StateAges
<1>12. CASE RateLimitExpires
  <2>1. Disturbs(sm, sm') /\ Loses
    BY <1>0, <1>12 DEF RateLimitExpires, Disturbs, Manager
  <2> QED BY <1>0, <1>12, <2>1, DisturbedInv DEF RateLimitExpires
<1>13. CASE CommandAges
  <2>1. Disturbs(sm, sm') /\ Loses
    BY <1>0, <1>13 DEF CommandAges, Disturbs
  <2> QED BY <1>0, <1>13, <2>1, DisturbedInv DEF CommandAges
<1> QED BY <1>1, <1>2, <1>3, <1>4, <1>5, <1>6, <1>8, <1>9, <1>10, <1>11, <1>12, <1>13
        DEF Surroundings

------------------------------------------------------------------------------
(* Theorems                                                                  *)

(* The invariant holds in every reachable state, for all grants, any number of *)
(* commands and any number of faults.                                        *)
THEOREM Invariance == Spec => []IInv
<1>1. Init => IInv
  BY InitInv
<1>2. IInv /\ [Next]_vars => IInv'
  <2>1. IInv /\ Next => IInv'
    BY PassInv, SurroundingsInv DEF Next
  <2>2. IInv /\ UNCHANGED vars => IInv'
    BY DEF vars, IInv, TypeOK, PollCurrent, TestsCurrent, Testing, GrantNeedsBothLegs,
           NoForeignReply
  <2> QED BY <2>1, <2>2
<1> QED BY <1>1, <1>2, PTL DEF Spec

(* Type correctness.                                                         *)
THEOREM TypeCorrect == Spec => []TypeOK
BY Invariance, PTL DEF IInv

(* A session set up always rests on an adopted grant and its own endpoint.    *)
THEOREM SessionsAreGranted == Spec => []DoneIsGranted
<1>1. IInv => DoneIsGranted
  BY DEF IInv, TypeOK, Manager, Coherent, DoneIsGranted, Usable
<1> QED BY <1>1, Invariance, PTL

(* requestChannel never takes a command's answer for CHANNEL's, and a grant   *)
(* adopted leaves nothing owed on the REQ socket.                             *)
THEOREM HandshakesOwnTheirRequests == Spec => []HandshakeOwnsRequest
<1>1. IInv => HandshakeOwnsRequest
  BY DEF IInv, Coherent, HandshakeOwnsRequest
<1> QED BY <1>1, Invariance, PTL

(* No command is answered with another request's answer.                      *)
THEOREM AnswersBelong == Spec => []NoForeignReply
BY Invariance, PTL DEF IInv

(* A connection down all through a drive costs the grant, however the monitor  *)
(* threads move between the drive's tests.                                   *)
THEOREM GrantsNeedBothLegs == Spec => []GrantNeedsBothLegs
BY Invariance, PTL DEF IInv, TestsCurrent

(* The manager implements the command bridge: every step of it is a step of    *)
(* the bridge or changes nothing the GUI thread can see.                      *)
THEOREM ImplementsBridge == Spec => BridgeSpec
<1>1. Init => Bridge!Init
  BY DEF Init, FreshManager, Bridge!Init, Commands, Bridge!Commands
<1>2. IInv /\ [Next]_vars => [Bridge!Next]_(Bridge!bridgeVars)
  <2> SUFFICES ASSUME IInv, [Next]_vars PROVE [Bridge!Next]_(Bridge!bridgeVars)
    OBVIOUS
  <2>0. (sm.status = "done") \in BOOLEAN /\ (sm'.status = "done") \in BOOLEAN
    OBVIOUS
  <2> USE DEF Bridge!Next, Bridge!Refusals, Bridge!Completions
  <2>1. ASSUME UNCHANGED commandVars PROVE Bridge!SessionChanges
    BY <2>0, <2>1 DEF Bridge!SessionChanges, commandVars
  <2>2. CASE UNCHANGED vars
    BY <2>1, <2>2 DEF vars, commandVars
  <2>3. CASE Ask
    BY <2>3 DEF Ask, smVars, Bridge!Ask
  <2>4. CASE ForwardCommand
    BY <2>4 DEF ForwardCommand, CommandReady, IInv, TypeOK, Manager, PollCurrent, Bridge!Accept
  <2>5. ASSUME NEW up \in BOOLEAN, up => CanKeep(sm)
        PROVE  ResetChannelRequest(sm, up).status = "done" => sm.status = "done"
    <3>1. Fit(sm, 0)
      BY DEF IInv, TypeOK, Fit, OwnsRequest
    <3>2. ResetChannelRequest(sm, up).status \in {sm.status, "waiting_connect"}
      BY <2>5, <3>1, ResetFit
    <3> QED BY <3>2
  <2>6. CASE RefuseCommand
    <3>1. sm'.status = "done" => sm.status = "done"
      BY <2>5, <2>6 DEF RefuseCommand
    <3> QED BY <2>0, <2>6, <3>1 DEF RefuseCommand, CommandReady, IInv, PollCurrent, Bridge!Refuse
  <2>7. ASSUME NEW what \in {"own", "timeout", "disconnected"}, Answer(what), serving # 0,
               sm'.status = "done" => sm.status = "done"
        PROVE  Bridge!Complete
    BY <2>0, <2>7 DEF Answer, Bridge!Complete
  <2>8. CASE RespondDisconnected
    BY <2>5, <2>7, <2>8 DEF RespondDisconnected
  <2>9. CASE RespondReply
    <3>1. serving # 0 /\ sm.for = serving
      BY <2>9 DEF RespondReply, Answering, IInv, PollCurrent
    <3>2. sm'.status = sm.status
      BY <2>9, ReadReplyFields DEF RespondReply, IInv, TypeOK
    <3> QED BY <2>7, <2>9, <3>1, <3>2 DEF RespondReply
  <2>13. CASE RespondTimeout
    BY <2>5, <2>7, <2>13 DEF RespondTimeout
  <2>10. CASE \/ CheckConnections \/ CheckTooEarly \/ PollFails \/ SubscriberTorn
              \/ LegDownNotPolled \/ TestSubscriberPolled \/ NoCommand \/ RespondOutOfBand
              \/ RespondNothing
    BY <2>1, <2>10 DEF CheckConnections, CheckTooEarly, PollFails, SubscriberTorn, Environment,
                       BeginPass, TestLegs, TimeOut, TestBothSetup, TestBothSubscriber, TestSetup,
                       TestSubscriber, TestSubscriberAlone, Connecting, Handshake, TestSettled,
                       FinishDrive, To, smVars, LegDownNotPolled, TestSubscriberPolled,
                       NoCommand, RespondOutOfBand, RespondNothing
  <2>11. ASSUME NEW t \in BOOLEAN, Poll(t) PROVE Bridge!SessionChanges
    BY <2>1, <2>11 DEF Poll
  <2>12. CASE Surroundings
    BY <2>1, <2>12 DEF Surroundings, Environment, SetupConnected, SubscriberConnected, SetupDropped,
           SubscriberDropped, GrantChannel, RejectChannel, AnswerCommand, Deliver, StateAges,
           RateLimitExpires, CommandAges
  <2> QED BY <2>2, <2>3, <2>4, <2>6, <2>8, <2>9, <2>10, <2>11, <2>12, <2>13 DEF Next, Pass
<1> QED BY <1>1, <1>2, Invariance, PTL DEF Spec, BridgeSpec, Bridge!Spec

------------------------------------------------------------------------------
(* What the GUI thread inherits from the bridge                              *)

BridgeProofs == INSTANCE CommandBridge_proofs WITH ready <- (sm.status = "done")

(* The two instances of the bridge are one.                                   *)
LEMMA SameBridge ==
    /\ Bridge!Init <=> BridgeProofs!Init
    /\ [Bridge!Next]_(Bridge!bridgeVars) <=> [BridgeProofs!Next]_(BridgeProofs!bridgeVars)
    /\ Bridge!Accounted <=> BridgeProofs!Accounted
    /\ [\A c \in Bridge!Commands :
          outcome[c] # "none" => outcome'[c] = outcome[c]]_(Bridge!bridgeVars)
       <=> [\A c \in BridgeProofs!Commands :
          outcome[c] # "none" => outcome'[c] = outcome[c]]_(BridgeProofs!bridgeVars)
<1>1. Bridge!Commands = BridgeProofs!Commands
  BY DEF Bridge!Commands, BridgeProofs!Commands
<1>2. Bridge!bridgeVars = BridgeProofs!bridgeVars /\ Bridge!bridgeVars' = BridgeProofs!bridgeVars'
  BY DEF Bridge!bridgeVars, BridgeProofs!bridgeVars
<1>3. Bridge!Init <=> BridgeProofs!Init
  BY <1>1 DEF Bridge!Init, BridgeProofs!Init
<1>4. [Bridge!Next]_(Bridge!bridgeVars) <=> [BridgeProofs!Next]_(BridgeProofs!bridgeVars)
  BY DEF Bridge!Next, BridgeProofs!Next, Bridge!bridgeVars, BridgeProofs!bridgeVars,
     Bridge!Ask, Bridge!Accept, Bridge!Refuse, Bridge!Complete, Bridge!SessionChanges,
     BridgeProofs!Ask, BridgeProofs!Accept, BridgeProofs!Refuse, BridgeProofs!Complete,
     BridgeProofs!SessionChanges, Bridge!Refusals, BridgeProofs!Refusals,
     Bridge!Completions, BridgeProofs!Completions
<1>5. Bridge!Accounted <=> BridgeProofs!Accounted
  BY <1>1 DEF Bridge!Accounted, BridgeProofs!Accounted, Bridge!Answered, BridgeProofs!Answered
<1> QED BY <1>1, <1>2, <1>3, <1>4, <1>5

(* No request of the GUI thread is lost, overtaken by another or there twice, however  *)
(* often sockets are replaced and sessions are lost while it waits.               *)
THEOREM RequestsAccounted == Spec => []Bridge!Accounted
<1>1. BridgeProofs!Spec => []BridgeProofs!Accounted
  BY BoundsAssumption, BridgeProofs!RequestsAccounted
<1> QED BY ImplementsBridge, SameBridge, <1>1, PTL
        DEF BridgeSpec, BridgeProofs!Spec, Bridge!Spec

(* No answer given to the GUI thread is ever replaced: the command timeout, the loss *)
(* of the session and a late reply never answer one request twice.               *)
THEOREM AnsweredOnce == Spec => Bridge!AnswersAreFinal
<1>1. BridgeProofs!Spec => BridgeProofs!AnswersAreFinal
  BY BoundsAssumption, BridgeProofs!AnsweredOnce
<1> QED BY ImplementsBridge, SameBridge, <1>1, PTL
        DEF BridgeSpec, BridgeProofs!Spec, Bridge!Spec, BridgeProofs!AnswersAreFinal,
            Bridge!AnswersAreFinal
==============================================================================
