--------------------------- MODULE RfbServerProofs ---------------------------
(***************************************************************************)
(* Theorems about the connections of the RFB server, for any number of      *)
(* connections, messages and broadcasts: whatever the order in which the    *)
(* handlers, the writers, Close and SendClipboard run, a client that is     *)
(* ready agrees with its handler, and only a broadcast puts one out of step.*)
(***************************************************************************)
EXTENDS RfbServer, SequenceTheorems, TLAPS

HandlerAt == {"none", "accepted", "added", "version", "choice", "response",
              "clientInit", "serving", "leaving", "left"}
ClientAt == {"none", "version", "types", "challenge", "result", "serverInit", "ready",
             "closing", "confused", "gone"}
WriterAt == {"none", "idle", "busy", "failed", "ended", "panicked"}
EncoderAt == {"none", "made", "reset"}
Password == {"none", "right", "wrong", "foreign"}
Arg == {"unset", "none", "vncAuth", "other", "right", "wrong", "foreign"}
MessageType == {"version", "types", "choice", "challenge", "response", "ok", "refused",
                "clientInit", "serverInit", "request", "event", "unknown", "update", "cutText"}
Message == [msg : MessageType, arg : Arg]

\* What the properties need of the variables that RfbTypeOK leaves open.
QueueTypes ==
    /\ toClient \in [Conn -> Seq(Message)] /\ toServer \in [Conn -> Seq(Message)]
    /\ secType \in [Conn -> Arg] /\ choice \in [Conn -> Arg]
    /\ client \in [Conn -> ClientAt] /\ tcp \in [Conn -> BOOLEAN]
    /\ disturbed \in [Conn -> BOOLEAN] /\ chClosed \in [Conn -> BOOLEAN]
    /\ passwordOf \in [Conn -> Password]
    /\ offered \in Seq({"none", "vncAuth"}) /\ offered # <<>>

\* Some message m is in the queue q.
Has(q, m) == \E k \in 1..Len(q) : q[k].msg = m

\* Every message m of the queue q carries a.
Carries(q, m, a) == \A k \in 1..Len(q) : q[k].msg = m => q[k].arg = a

\* The queue q begins with the message m, or holds nothing else.
Begins(q, m) == q # <<>> /\ Head(q).msg = m
Single(q, m) == Begins(q, m) /\ Tail(q) = <<>>

\* A connection that is not accepted has no messages, and a writer goroutine is
\* started by a handler that has finished the handshake and fails once.
Started(c) ==
    /\ handler[c] = "none" =>
         c \notin clients /\ toClient[c] = <<>> /\ toServer[c] = <<>> /\ client[c] = "none" /\ ~tcp[c]
    /\ handler[c] \in {"none", "accepted", "added", "version", "choice", "response", "clientInit"}
         => writer[c] = "none"
    /\ writer[c] \in {"none", "idle", "busy"} => errCh[c] = 0

\* The handler and the client have passed the choice of a security type, or its proof.
TypeServed(c) ==
    handler[c] \in {"response", "clientInit", "serving"} \/ Has(toClient[c], "ok")
    \/ client[c] \in {"serverInit", "ready"}
Proved(c) ==
    handler[c] \in {"clientInit", "serving"} \/ Has(toClient[c], "ok")
    \/ client[c] \in {"serverInit", "ready"}

\* Whatever is under way, the two ends speak of one type and one password.
OneView(c) ==
    /\ Carries(toServer[c], "choice", Chosen(c))
    /\ Carries(toServer[c], "response", passwordOf[c])
    /\ client[c] \in {"challenge", "result", "serverInit", "ready"} => choice[c] = Chosen(c)
    /\ TypeServed(c) => secType[c] = Chosen(c) /\ Chosen(c) \in Offered
    /\ Proved(c) => (Chosen(c) = "vncAuth" => passwordOf[c] = "right")

Handshaking(c) == client[c] \in DOMAIN Awaited

\* Where the handler is and what is on the wire at each stage of the client: one of the
\* two is to speak, and there is at most the message the other waits for.
InTurn(c) ==
    LET h == handler[c]
        p == toClient[c]
        s == toServer[c]
    IN  /\ client[c] = "version" =>
             \/ h \in {"accepted", "added"} /\ p = <<>> /\ s = <<>>
             \/ h = "version" /\ Single(p, "version") /\ s = <<>>
        /\ client[c] = "types" =>
             \/ h = "version" /\ p = <<>> /\ Single(s, "version")
             \/ h = "choice" /\ Single(p, "types") /\ s = <<>>
        /\ client[c] = "challenge" =>
             /\ Chosen(c) # "none"
             /\ \/ h = "choice" /\ p = <<>> /\ Single(s, "choice")
                \/ h = "response" /\ Single(p, "challenge") /\ s = <<>>
                \/ h = "leaving" /\ p = <<>> /\ s = <<>>
        /\ client[c] = "result" =>
             \/ h = "choice" /\ Chosen(c) = "none" /\ p = <<>> /\ Single(s, "choice")
             \/ h = "response" /\ p = <<>> /\ Single(s, "response")
             \/ h = "clientInit" /\ Single(p, "ok") /\ s = <<>>
             \/ h = "leaving" /\ (p = <<>> \/ Single(p, "refused")) /\ s = <<>>
        /\ client[c] = "serverInit" =>
             \/ h = "clientInit" /\ p = <<>> /\ Single(s, "clientInit")
             \/ h = "serving" /\ Begins(p, "serverInit") /\ s = <<>>
        /\ Handshaking(c) /\ h # "serving" => writer[c] = "none"

\* Without a broadcast outside serveMessages the two ends of an open connection are in
\* turn.
Undisturbed(c) ==
    ~disturbed[c] => client[c] # "confused" /\ (tcp[c] => InTurn(c))

ConnInv(c) == Started(c) /\ OneView(c) /\ Undisturbed(c)

RfbInv == RfbTypeOK /\ QueueTypes /\ \A c \in Conn : ConnInv(c)

-----------------------------------------------------------------------------
(* Queues. *)

\* What reading the first message of a queue does.
LEMMA Reading ==
    ASSUME NEW q \in Seq(Message), q # <<>>
    PROVE  /\ Tail(q) \in Seq(Message) /\ Head(q) \in Message
           /\ \A m, a : Carries(q, m, a) => Carries(Tail(q), m, a) /\ (Head(q).msg = m => Head(q).arg = a)
           /\ \A m : Has(Tail(q), m) => Has(q, m)
           /\ \A m : Has(q, m) => Has(Tail(q), m) \/ Head(q).msg = m
           /\ \A m : Head(q).msg = m => Has(q, m)
<1>1. /\ Tail(q) \in Seq(Message) /\ Head(q) \in Message /\ Len(q) \in Nat \ {0}
      /\ Len(Tail(q)) = Len(q) - 1 /\ Head(q) = q[1]
      /\ \A k \in 1..Len(Tail(q)) : k + 1 \in 1..Len(q) /\ Tail(q)[k] = q[k + 1]
      /\ \A k \in 1..Len(q) : k = 1 \/ (k - 1 \in 1..Len(Tail(q)) /\ Tail(q)[k - 1] = q[k])
  OBVIOUS
<1>2. 1 \in 1..Len(q)
  BY <1>1
<1>3. \A m, a : Carries(q, m, a) => Carries(Tail(q), m, a) /\ (Head(q).msg = m => Head(q).arg = a)
  BY <1>1, <1>2 DEF Carries
<1>4. /\ \A m : Has(Tail(q), m) => Has(q, m)
      /\ \A m : Has(q, m) => Has(Tail(q), m) \/ Head(q).msg = m
      /\ \A m : Head(q).msg = m => Has(q, m)
  <2>1. \A m : Has(Tail(q), m) => Has(q, m)
    <3>1. ASSUME NEW m, NEW k \in 1..Len(Tail(q)), Tail(q)[k].msg = m PROVE Has(q, m)
      <4>1. k + 1 \in 1..Len(q) /\ q[k + 1].msg = m
        BY <1>1, <3>1
      <4>. QED
        BY <4>1 DEF Has
    <3>. QED
      BY <3>1 DEF Has
  <2>2. \A m : Has(q, m) => Has(Tail(q), m) \/ Head(q).msg = m
    BY <1>1, Zenon DEF Has
  <2>3. \A m : Head(q).msg = m => Has(q, m)
    BY <1>1, <1>2, Zenon DEF Has
  <2>. QED
    BY <2>1, <2>2, <2>3
<1>. QED
  BY <1>1, <1>3, <1>4

\* What writing one message to a queue does.
LEMMA Writing ==
    ASSUME NEW q \in Seq(Message), NEW x \in Message
    PROVE  /\ q \o <<x>> \in Seq(Message)
           /\ \A m, a : Carries(q \o <<x>>, m, a) <=> Carries(q, m, a) /\ (x.msg = m => x.arg = a)
           /\ \A m : Has(q \o <<x>>, m) <=> Has(q, m) \/ x.msg = m
           /\ q = <<>> => Single(q \o <<x>>, x.msg)
           /\ \A m : Begins(q, m) => Begins(q \o <<x>>, m)
<1>. DEFINE r == q \o <<x>>
<1>1. /\ r \in Seq(Message) /\ Len(q) \in Nat /\ Len(r) = Len(q) + 1
      /\ r[Len(q) + 1] = x /\ \A k \in 1..Len(q) : r[k] = q[k]
  OBVIOUS
<1>. HIDE DEF r
<1>2. 1..Len(r) = 1..Len(q) \cup {Len(q) + 1}
  BY <1>1
<1>3. \A m, a : Carries(r, m, a) <=> Carries(q, m, a) /\ (x.msg = m => x.arg = a)
  BY <1>1, <1>2 DEF Carries
<1>4. \A m : Has(r, m) <=> Has(q, m) \/ x.msg = m
  BY <1>1, <1>2 DEF Has
<1>5. ASSUME q = <<>> PROVE Single(r, x.msg)
  <2>1. <<>> \o <<x>> = <<x>> /\ Head(<<x>>) = x /\ Tail(<<x>>) = <<>> /\ <<x>> # <<>>
    OBVIOUS
  <2>. QED
    BY <1>5, <2>1 DEF Single, Begins, r
<1>6. ASSUME q # <<>> PROVE r # <<>> /\ Head(r) = Head(q)
  <2>1. Len(q) > 0 /\ 1 \in 1..Len(q) /\ Head(q) = q[1]
    BY <1>1, <1>6
  <2>. QED
    BY <1>1, <2>1
<1>. QED
  BY <1>1, <1>3, <1>4, <1>5, <1>6 DEF r, Begins

\* An empty queue holds nothing.
LEMMA EmptyQueue ==
    /\ <<>> \in Seq(Message) /\ \A m, a : Carries(<<>>, m, a)
    /\ \A m : ~Has(<<>>, m) /\ ~Begins(<<>>, m)
BY DEF Carries, Has, Begins

\* A step without a reply leaves the queue as it is.
LEMMA NoReply == \A q \in Seq(Message) : q \o <<>> = q
OBVIOUS

-----------------------------------------------------------------------------
(* The configuration. *)

\* The configuration of a connection never changes.
LEMMA SameConfig ==
    ASSUME UNCHANGED rfbConfig
    PROVE  /\ offered' = offered /\ passwordOf' = passwordOf /\ Offered' = Offered
           /\ \A c : Chosen(c)' = Chosen(c)
BY DEF rfbConfig, Offered, Chosen, ChooseSecurityType

\* The type the client chooses and its password can be sent.
LEMMA ChosenIsArg == ASSUME QueueTypes, NEW c \in Conn PROVE Chosen(c) \in Arg /\ passwordOf[c] \in Arg
<1>1. offered[1] \in {"none", "vncAuth"}
  BY DEF QueueTypes
<1>2. ChooseSecurityType(c) \in {"none", "vncAuth"}
  BY <1>1 DEF ChooseSecurityType
<1>. QED
  BY <1>2 DEF Chosen, QueueTypes, Arg, Password

\* A connection none of whose variables changes.
Untouched(c) ==
    /\ c \in clients' <=> c \in clients
    /\ tcp'[c] => tcp[c]
    /\ handler'[c] = handler[c] /\ secType'[c] = secType[c]
    /\ toClient'[c] = toClient[c] /\ toServer'[c] = toServer[c]
    /\ writer'[c] = writer[c] /\ errCh'[c] = errCh[c]
    /\ client'[c] = client[c] /\ choice'[c] = choice[c]
    /\ disturbed'[c] = disturbed[c]

\* A connection keeps its invariant while its state is left alone.
LEMMA UntouchedKeeps ==
    ASSUME NEW c \in Conn, ConnInv(c), Untouched(c), UNCHANGED rfbConfig
    PROVE  ConnInv(c)'
BY SameConfig
   DEF ConnInv, Started, OneView, TypeServed, Proved, Undisturbed, InTurn, Handshaking, Awaited, Untouched

\* A step of connection c keeps the invariant when it keeps that of c.
LEMMA OneMoves ==
    ASSUME RfbInv, NEW c \in Conn, UNCHANGED rfbConfig, RfbTypeOK', QueueTypes', ConnInv(c)',
           \A d \in Conn \ {c} : Untouched(d)
    PROVE  RfbInv'
<1>1. ASSUME NEW d \in Conn PROVE ConnInv(d)'
  <2>1. CASE d = c
    BY <2>1
  <2>2. CASE d # c
    BY <2>2, UntouchedKeeps DEF RfbInv
  <2>. QED
    BY <2>1, <2>2
<1>. QED
  BY <1>1 DEF RfbInv

LEMMA RfbInitInv == RfbInit => RfbInv
<1>. SUFFICES ASSUME RfbInit PROVE RfbInv
  OBVIOUS
<1>1. RfbTypeOK
  BY RfbServerAssumption DEF RfbInit, RfbTypeOK
<1>2. offered \in Seq({"none", "vncAuth"}) /\ offered # <<>>
  <2>1. CASE offered \in {<<t>> : t \in Offers}
    <3>1. PICK t \in Offers : offered = <<t>>
      BY <2>1
    <3>2. t \in {"none", "vncAuth"}
      BY <3>1, RfbServerAssumption
    <3>. QED
      BY <3>1, <3>2
  <2>2. CASE offered \in {s \in [1..2 -> Offers] : s[1] # s[2]}
    <3>1. offered \in [1..2 -> {"none", "vncAuth"}] /\ 2 \in Nat
      BY <2>2, RfbServerAssumption
    <3>2. offered \in Seq({"none", "vncAuth"})
      BY <3>1, SeqDef
    <3>3. offered[1] # offered[2] /\ DOMAIN offered = 1..2
      BY <2>2
    <3>. QED
      BY <3>2, <3>3
  <2>. QED
    BY <2>1, <2>2 DEF RfbInit
<1>3. QueueTypes
  BY <1>2, EmptyQueue DEF RfbInit, QueueTypes, Arg, ClientAt, Password
<1>4. ASSUME NEW c \in Conn PROVE ConnInv(c)
  BY EmptyQueue
     DEF RfbInit, ConnInv, Started, OneView, TypeServed, Proved, Undisturbed, InTurn, Handshaking, Awaited
<1>. QED
  BY <1>1, <1>3, <1>4 DEF RfbInv

-----------------------------------------------------------------------------
(* One lemma per action.  First those that read and write no message. *)

LEMMA AcceptKeeps == ASSUME RfbInv, NEW c \in Conn, Accept(c) PROVE RfbInv'
<1>1. UNCHANGED rfbConfig /\ RfbTypeOK /\ QueueTypes /\ ConnInv(c)
  BY DEF RfbInv, Accept
<1>2. RfbTypeOK' /\ QueueTypes'
  BY <1>1, SameConfig DEF Accept, clientVars, RfbTypeOK, QueueTypes, HandlerAt, ClientAt
<1>3. \A d \in Conn \ {c} : Untouched(d)
  BY <1>1 DEF Accept, clientVars, RfbTypeOK, QueueTypes, Untouched
<1>4. ConnInv(c)'
  BY <1>1, SameConfig, EmptyQueue DEF Accept, clientVars, RfbTypeOK, QueueTypes, ConnInv, Started, OneView,
     TypeServed, Proved, Undisturbed, InTurn, Handshaking, Awaited
<1>. QED
  BY <1>1, <1>2, <1>3, <1>4, OneMoves

LEMMA AddClientKeeps == ASSUME RfbInv, NEW c \in Conn, AddClient(c) PROVE RfbInv'
<1>1. UNCHANGED rfbConfig /\ RfbTypeOK /\ QueueTypes /\ ConnInv(c)
  BY DEF RfbInv, AddClient
<1>2. RfbTypeOK' /\ QueueTypes'
  BY <1>1, SameConfig DEF AddClient, clientVars, RfbTypeOK, QueueTypes, HandlerAt, ClientAt
<1>3. \A d \in Conn \ {c} : Untouched(d)
  BY <1>1 DEF AddClient, clientVars, RfbTypeOK, QueueTypes, Untouched
<1>4. ConnInv(c)'
  BY <1>1, SameConfig DEF AddClient, clientVars, RfbTypeOK, QueueTypes, ConnInv, Started, OneView,
     TypeServed, Proved, Undisturbed, InTurn, Handshaking, Awaited
<1>. QED
  BY <1>1, <1>2, <1>3, <1>4, OneMoves

LEMMA HandlerFailsKeeps == ASSUME RfbInv, NEW c \in Conn, HandlerFails(c) PROVE RfbInv'
<1>1. UNCHANGED rfbConfig /\ RfbTypeOK /\ QueueTypes /\ ConnInv(c)
  BY DEF RfbInv, HandlerFails
<1>2. RfbTypeOK' /\ QueueTypes'
  BY <1>1, SameConfig DEF HandlerFails, clientVars, RfbTypeOK, QueueTypes, HandlerAt, ClientAt
<1>3. \A d \in Conn \ {c} : Untouched(d)
  BY <1>1 DEF HandlerFails, clientVars, RfbTypeOK, QueueTypes, Untouched
<1>4. ConnInv(c)'
  BY <1>1, SameConfig DEF HandlerFails, clientVars, RfbTypeOK, QueueTypes, ConnInv, Started, OneView,
     TypeServed, Proved, Undisturbed, InTurn, Handshaking, Awaited
<1>. QED
  BY <1>1, <1>2, <1>3, <1>4, OneMoves

LEMMA LeaveKeeps == ASSUME RfbInv, NEW c \in Conn, Leave(c) PROVE RfbInv'
<1>1. UNCHANGED rfbConfig /\ RfbTypeOK /\ QueueTypes /\ ConnInv(c)
  BY DEF RfbInv, Leave
<1>2. RfbTypeOK' /\ QueueTypes'
  BY <1>1, SameConfig DEF Leave, clientVars, RfbTypeOK, QueueTypes, HandlerAt, ClientAt
<1>3. \A d \in Conn \ {c} : Untouched(d)
  BY <1>1 DEF Leave, clientVars, RfbTypeOK, QueueTypes, Untouched
<1>4. ConnInv(c)'
  BY <1>1, SameConfig DEF Leave, clientVars, RfbTypeOK, QueueTypes, ConnInv, Started, OneView,
     TypeServed, Proved, Undisturbed, InTurn, Handshaking, Awaited
<1>. QED
  BY <1>1, <1>2, <1>3, <1>4, OneMoves

LEMMA WriterTakesKeeps == ASSUME RfbInv, NEW c \in Conn, WriterTakes(c) PROVE RfbInv'
<1>1. UNCHANGED rfbConfig /\ RfbTypeOK /\ QueueTypes /\ ConnInv(c)
  BY DEF RfbInv, WriterTakes
<1>2. RfbTypeOK' /\ QueueTypes'
  <2>1. fbReqCh' \in [Conn -> 0..1] /\ writer' \in [Conn -> WriterAt]
    BY <1>1 DEF WriterTakes, RfbTypeOK, WriterAt
  <2>. QED
    BY <1>1, <2>1, SameConfig DEF WriterTakes, clientVars, RfbTypeOK, QueueTypes, WriterAt
<1>3. \A d \in Conn \ {c} : Untouched(d)
  BY <1>1 DEF WriterTakes, clientVars, RfbTypeOK, QueueTypes, Untouched
<1>4. ConnInv(c)'
  BY <1>1, SameConfig DEF WriterTakes, clientVars, RfbTypeOK, QueueTypes, ConnInv, Started, OneView,
     TypeServed, Proved, Undisturbed, InTurn, Handshaking, Awaited
<1>. QED
  BY <1>1, <1>2, <1>3, <1>4, OneMoves

LEMMA ClientClosesKeeps == ASSUME RfbInv, NEW c \in Conn, ClientCloses(c) PROVE RfbInv'
<1>1. UNCHANGED rfbConfig /\ RfbTypeOK /\ QueueTypes /\ ConnInv(c)
  BY DEF RfbInv, ClientCloses, handlerVars
<1>2. RfbTypeOK' /\ QueueTypes'
  BY <1>1, SameConfig DEF ClientCloses, handlerVars, clientVars, RfbTypeOK, QueueTypes, HandlerAt, ClientAt
<1>3. \A d \in Conn \ {c} : Untouched(d)
  BY <1>1 DEF ClientCloses, handlerVars, clientVars, RfbTypeOK, QueueTypes, Untouched
<1>4. ConnInv(c)'
  BY <1>1, SameConfig
     DEF ClientCloses, handlerVars, clientVars, RfbTypeOK, QueueTypes, ConnInv, Started, OneView,
     TypeServed, Proved, Undisturbed, InTurn, Handshaking, Awaited
<1>. QED
  BY <1>1, <1>2, <1>3, <1>4, OneMoves

-----------------------------------------------------------------------------
(* The steps of the handler that read a message. *)

\* Writing a message without an argument.
LEMMA Replying ==
    ASSUME NEW m \in MessageType
    PROVE  /\ Only(m) \in Seq(Message)
           /\ \A q \in Seq(Message) :
                /\ q \o Only(m) \in Seq(Message)
                /\ \A n : n # m => \A a : Carries(q, n, a) => Carries(q \o Only(m), n, a)
                /\ \A n : Has(q \o Only(m), n) <=> Has(q, n) \/ n = m
                /\ q = <<>> => Single(q \o Only(m), m)
                /\ \A n : Begins(q, n) => Begins(q \o Only(m), n)
<1>. DEFINE x == [msg |-> m, arg |-> "unset"]
<1>1. x \in Message /\ x.msg = m
  BY DEF Message, Arg
<1>2. Only(m) = <<x>>
  BY DEF Only
<1>. HIDE DEF x
<1>3. Only(m) \in Seq(Message)
  BY <1>1, <1>2
<1>4. ASSUME NEW q \in Seq(Message)
      PROVE  /\ q \o <<x>> \in Seq(Message)
             /\ \A n : n # m => \A a : Carries(q, n, a) => Carries(q \o <<x>>, n, a)
             /\ \A n : Has(q \o <<x>>, n) <=> Has(q, n) \/ n = m
             /\ q = <<>> => Single(q \o <<x>>, m)
             /\ \A n : Begins(q, n) => Begins(q \o <<x>>, n)
  BY <1>1, Writing
<1>. QED
  BY <1>2, <1>3, <1>4

\* What Step does to the variables of a connection and leaves of the others.
HandlerMove(c, at, msg, reply, next) ==
    /\ UNCHANGED rfbConfig /\ UNCHANGED <<clients, tcp, client, choice, sent, disturbed>>
    /\ toServer' \in [Conn -> Seq(Message)] /\ toClient' \in [Conn -> Seq(Message)]
    /\ handler' \in [Conn -> HandlerAt]
    /\ toServer[c] \in Seq(Message) /\ toServer[c] # <<>> /\ toClient[c] \in Seq(Message)
    /\ Head(toServer[c]).msg = msg /\ toServer'[c] = Tail(toServer[c])
    /\ toClient'[c] = toClient[c] \o reply
    /\ handler[c] = at /\ handler'[c] = next
    /\ \A d \in Conn \ {c} : /\ toServer'[d] = toServer[d] /\ toClient'[d] = toClient[d]
                             /\ handler'[d] = handler[d]

\* A step of the handler moves one connection and leaves the others alone.
LEMMA StepMoves ==
    ASSUME RfbInv, NEW c \in Conn, NEW at, NEW msg, NEW reply \in Seq(Message), NEW next \in HandlerAt,
           Step(c, at, msg, reply, next)
    PROVE  HandlerMove(c, at, msg, reply, next)
<1>1. /\ toServer \in [Conn -> Seq(Message)] /\ toClient \in [Conn -> Seq(Message)]
      /\ handler \in [Conn -> HandlerAt]
  BY DEF RfbInv, QueueTypes, RfbTypeOK, HandlerAt
<1>2. toServer[c] # <<>> /\ toServer[c] \in Seq(Message) /\ toClient[c] \in Seq(Message)
  BY <1>1 DEF Step
<1>3. Tail(toServer[c]) \in Seq(Message) /\ toClient[c] \o reply \in Seq(Message)
  BY <1>2
<1>. QED
  BY <1>1, <1>2, <1>3 DEF Step, clientVars, HandlerMove

\* What such a step reads and writes.
LEMMA MoveReads ==
    ASSUME NEW c, NEW at, NEW msg, NEW reply, NEW next, HandlerMove(c, at, msg, reply, next)
    PROVE  \A n, a : Carries(toServer[c], n, a) =>
                        Carries(toServer'[c], n, a) /\ (msg = n => Head(toServer[c]).arg = a)
BY Reading DEF HandlerMove

\* A handler whose message is the only one on the wire has taken it.
LEMMA MoveTakes ==
    ASSUME NEW c, NEW at, NEW msg, NEW reply, NEW next, HandlerMove(c, at, msg, reply, next)
    PROVE  /\ toServer[c] # <<>> /\ Begins(toServer[c], msg)
           /\ \A n : Single(toServer[c], n) => toServer'[c] = <<>>
BY DEF HandlerMove, Begins, Single

\* The reply of a move is added to the wire.
LEMMA MoveWrites ==
    ASSUME NEW c, NEW at, NEW msg, NEW m \in MessageType, NEW next,
           HandlerMove(c, at, msg, Only(m), next)
    PROVE  /\ \A n : Has(toClient'[c], n) <=> Has(toClient[c], n) \/ n = m
           /\ toClient[c] = <<>> => Single(toClient'[c], m)
<1>1. toClient[c] \in Seq(Message) /\ toClient'[c] = toClient[c] \o Only(m)
  BY DEF HandlerMove
<1>. QED
  BY <1>1, Replying

\* A move without a reply adds nothing.
LEMMA MoveSilent ==
    ASSUME NEW c, NEW at, NEW msg, NEW next, HandlerMove(c, at, msg, <<>>, next)
    PROVE  toClient'[c] = toClient[c]
BY NoReply DEF HandlerMove

\* What the handler changes besides: of its own connection only, and within the types.
Aside(c) ==
    /\ secType' \in [Conn -> Arg] /\ chClosed' \in [Conn -> BOOLEAN]
    /\ writer' \in [Conn -> WriterAt] /\ encoder' \in [Conn -> EncoderAt]
    /\ fbReqCh' \in [Conn -> 0..1] /\ errCh' \in [Conn -> 0..1]
    /\ \A d \in Conn \ {c} : secType'[d] = secType[d] /\ writer'[d] = writer[d] /\ errCh'[d] = errCh[d]

\* A move may change nothing besides.
LEMMA NothingAside ==
    ASSUME RfbInv, UNCHANGED <<secType, writer, encoder, fbReqCh, chClosed, errCh>>, NEW c
    PROVE  Aside(c)
BY DEF RfbInv, RfbTypeOK, QueueTypes, Aside, WriterAt, EncoderAt

\* A move that keeps the invariant of its connection keeps the whole.
LEMMA MoveKeeps ==
    ASSUME RfbInv, NEW c \in Conn, NEW at, NEW msg, NEW reply, NEW next,
           HandlerMove(c, at, msg, reply, next), Aside(c), ConnInv(c)'
    PROVE  RfbInv'
<1>1. RfbTypeOK' /\ QueueTypes'
  BY SameConfig DEF RfbInv, HandlerMove, Aside, RfbTypeOK, QueueTypes, HandlerAt, WriterAt, EncoderAt
<1>2. \A d \in Conn \ {c} : Untouched(d)
  BY DEF HandlerMove, Aside, Untouched
<1>3. UNCHANGED rfbConfig
  BY DEF HandlerMove
<1>. QED
  BY <1>1, <1>2, <1>3, OneMoves

LEMMA ReadVersionKeeps == ASSUME RfbInv, NEW c \in Conn, ReadVersion(c) PROVE RfbInv'
<1>0. Only("types") \in Seq(Message) /\ "choice" \in HandlerAt
  BY Replying, Zenon DEF HandlerAt, MessageType
<1>1. HandlerMove(c, "version", "version", Only("types"), "choice")
  BY <1>0, StepMoves DEF ReadVersion
<1>2. /\ \A n : Has(toClient'[c], n) <=> Has(toClient[c], n) \/ n = "types"
      /\ toClient[c] = <<>> => Single(toClient'[c], "types")
      /\ \A n, a : Carries(toServer[c], n, a) => Carries(toServer'[c], n, a)
      /\ \A n : Single(toServer[c], n) => toServer'[c] = <<>>
      /\ toServer[c] # <<>>
  BY <1>1, MoveReads, MoveWrites, MoveTakes, Zenon DEF MessageType
<1>3. UNCHANGED <<secType, writer, encoder, fbReqCh, chClosed, errCh>>
  BY DEF ReadVersion, NoWriter
<1>4. ConnInv(c)
  BY DEF RfbInv
<1>5. ConnInv(c)'
  <2>1. Started(c)'
    BY <1>1, <1>3, <1>4 DEF HandlerMove, ConnInv, Started
  <2>2. OneView(c)'
    BY <1>1, <1>2, <1>3, <1>4, SameConfig DEF HandlerMove, ConnInv, OneView, TypeServed, Proved
  <2>3. Undisturbed(c)'
    BY <1>1, <1>2, <1>3, <1>4, SameConfig DEF HandlerMove, ConnInv, Undisturbed, InTurn, Handshaking, Awaited
  <2>. QED
    BY <2>1, <2>2, <2>3 DEF ConnInv
<1>. QED
  BY <1>1, <1>3, <1>5, MoveKeeps, NothingAside

LEMMA ReadChoiceKeeps == ASSUME RfbInv, NEW c \in Conn, ReadChoice(c) PROVE RfbInv'
<1>. DEFINE t == Head(toServer[c]).arg
<1>1. /\ \/ Step(c, "choice", "choice", Only("ok"), "clientInit") /\ t \in Offered \cap {"none"}
         \/ Step(c, "choice", "choice", Only("challenge"), "response") /\ t \in Offered \cap {"vncAuth"}
         \/ Step(c, "choice", "choice", <<>>, "leaving") /\ t \notin Offered
      /\ secType' = [secType EXCEPT ![c] = t]
      /\ UNCHANGED <<writer, encoder, fbReqCh, chClosed, errCh>>
  BY DEF ReadChoice, NoWriter
<1>2. ConnInv(c) /\ RfbTypeOK /\ QueueTypes
  BY DEF RfbInv
<1>3. /\ Only("ok") \in Seq(Message) /\ Only("challenge") \in Seq(Message)
      /\ "clientInit" \in HandlerAt /\ "response" \in HandlerAt /\ "leaving" \in HandlerAt
  BY Replying, Zenon DEF HandlerAt, MessageType
<1>4. PICK reply \in {Only("ok"), Only("challenge"), <<>>}, next \in HandlerAt :
        /\ HandlerMove(c, "choice", "choice", reply, next)
        /\ \/ reply = Only("ok") /\ next = "clientInit" /\ t = "none" /\ t \in Offered
           \/ reply = Only("challenge") /\ next = "response" /\ t = "vncAuth" /\ t \in Offered
           \/ reply = <<>> /\ next = "leaving"
  BY <1>1, <1>3, EmptyQueue, StepMoves, Zenon
<1>5. Carries(toServer[c], "choice", Chosen(c))
  BY <1>2 DEF ConnInv, OneView
<1>6. /\ t = Chosen(c)
      /\ \A n, a : Carries(toServer[c], n, a) => Carries(toServer'[c], n, a)
  BY <1>4, <1>5, MoveReads, Zenon
<1>7. /\ Has(toClient'[c], "ok") => Has(toClient[c], "ok") \/ next = "clientInit"
      /\ toClient[c] = <<>> =>
            \/ next = "clientInit" /\ Single(toClient'[c], "ok") /\ t = "none"
            \/ next = "response" /\ Single(toClient'[c], "challenge") /\ t = "vncAuth"
            \/ next = "leaving" /\ toClient'[c] = <<>>
      /\ toServer[c] # <<>> /\ \A n : Single(toServer[c], n) => toServer'[c] = <<>>
  <2>0. toServer[c] # <<>> /\ \A n : Single(toServer[c], n) => toServer'[c] = <<>>
    BY <1>4, MoveTakes, Zenon
  <2>1. CASE reply = Only("ok") /\ next = "clientInit" /\ t = "none"
    BY <1>4, <2>0, <2>1, MoveWrites, Zenon DEF MessageType
  <2>2. CASE reply = Only("challenge") /\ next = "response" /\ t = "vncAuth"
    BY <1>4, <2>0, <2>2, MoveWrites, Zenon DEF MessageType
  <2>3. CASE reply = <<>> /\ next = "leaving"
    <3>1. HandlerMove(c, "choice", "choice", <<>>, next)
      BY <1>4, <2>3
    <3>2. toClient'[c] = toClient[c]
      BY <3>1, MoveSilent, Zenon
    <3>. QED
      BY <2>0, <2>3, <3>2
  <2>. QED
    BY <1>4, <2>1, <2>2, <2>3
<1>8. t \in Arg
  BY <1>2, <1>6, ChosenIsArg
<1>9. Aside(c) /\ secType'[c] = t
  BY <1>1, <1>2, <1>8 DEF Aside, RfbTypeOK, QueueTypes, WriterAt, EncoderAt
<1>. HIDE DEF t
<1>10. ConnInv(c)'
  <2>1. Started(c)'
    BY <1>1, <1>2, <1>4 DEF HandlerMove, ConnInv, Started
  <2>2. OneView(c)'
    BY <1>2, <1>4, <1>6, <1>7, <1>9, SameConfig
       DEF HandlerMove, ConnInv, OneView, TypeServed, Proved
  <2>3. Undisturbed(c)'
    BY <1>1, <1>2, <1>4, <1>6, <1>7, SameConfig
       DEF HandlerMove, ConnInv, Undisturbed, InTurn, Handshaking, Awaited
  <2>. QED
    BY <2>1, <2>2, <2>3 DEF ConnInv
<1>. QED
  BY <1>4, <1>9, <1>10, MoveKeeps

LEMMA ReadResponseKeeps == ASSUME RfbInv, NEW c \in Conn, ReadResponse(c) PROVE RfbInv'
<1>. DEFINE r == Head(toServer[c]).arg
<1>1. /\ \/ Step(c, "response", "response", Only("ok"), "clientInit") /\ r = "right"
         \/ Step(c, "response", "response", Only("refused"), "leaving") /\ r # "right"
      /\ UNCHANGED <<secType, writer, encoder, fbReqCh, chClosed, errCh>>
  BY DEF ReadResponse, NoWriter
<1>2. ConnInv(c)
  BY DEF RfbInv
<1>3. /\ Only("ok") \in Seq(Message) /\ Only("refused") \in Seq(Message)
      /\ "clientInit" \in HandlerAt /\ "leaving" \in HandlerAt
  BY Replying, Zenon DEF HandlerAt, MessageType
<1>4. PICK m \in {"ok", "refused"}, next \in HandlerAt :
        /\ HandlerMove(c, "response", "response", Only(m), next)
        /\ \/ m = "ok" /\ next = "clientInit" /\ r = "right"
           \/ m = "refused" /\ next = "leaving"
  BY <1>1, <1>3, StepMoves, Zenon
<1>5. Carries(toServer[c], "response", passwordOf[c])
  BY <1>2 DEF ConnInv, OneView
<1>6. /\ r = passwordOf[c]
      /\ \A n, a : Carries(toServer[c], n, a) => Carries(toServer'[c], n, a)
  <2>1. \A n, a : Carries(toServer[c], n, a) =>
                     Carries(toServer'[c], n, a) /\ ("response" = n => r = a)
    <3>1. HandlerMove(c, "response", "response", Only(m), next)
      BY <1>4
    <3>. QED
      BY <3>1, MoveReads
  <2>. QED
    BY <1>5, <2>1, Zenon
<1>7. /\ \A n : Has(toClient'[c], n) <=> Has(toClient[c], n) \/ n = m
      /\ toClient[c] = <<>> => Single(toClient'[c], m)
      /\ toServer[c] # <<>> /\ \A n : Single(toServer[c], n) => toServer'[c] = <<>>
  BY <1>4, MoveWrites, MoveTakes, Zenon DEF MessageType
<1>. HIDE DEF r
<1>8. ConnInv(c)'
  <2>1. Started(c)'
    BY <1>1, <1>2, <1>4 DEF HandlerMove, ConnInv, Started
  <2>2. OneView(c)'
    BY <1>1, <1>2, <1>4, <1>6, <1>7, SameConfig
       DEF HandlerMove, ConnInv, OneView, TypeServed, Proved
  <2>3. Undisturbed(c)'
    BY <1>1, <1>2, <1>4, <1>7, SameConfig DEF HandlerMove, ConnInv, Undisturbed, InTurn, Handshaking, Awaited
  <2>. QED
    BY <2>1, <2>2, <2>3 DEF ConnInv
<1>. QED
  BY <1>1, <1>4, <1>8, MoveKeeps, NothingAside

LEMMA ReadClientInitKeeps == ASSUME RfbInv, NEW c \in Conn, ReadClientInit(c) PROVE RfbInv'
<1>0. Only("serverInit") \in Seq(Message) /\ "serving" \in HandlerAt
  BY Replying, Zenon DEF HandlerAt, MessageType
<1>1. HandlerMove(c, "clientInit", "clientInit", Only("serverInit"), "serving")
  BY <1>0, StepMoves DEF ReadClientInit
<1>2. /\ \A n : Has(toClient'[c], n) <=> Has(toClient[c], n) \/ n = "serverInit"
      /\ toClient[c] = <<>> => Single(toClient'[c], "serverInit")
      /\ \A n, a : Carries(toServer[c], n, a) => Carries(toServer'[c], n, a)
      /\ toServer[c] # <<>> /\ \A n : Single(toServer[c], n) => toServer'[c] = <<>>
  BY <1>1, MoveReads, MoveWrites, MoveTakes, Zenon DEF MessageType
<1>3. ConnInv(c) /\ RfbTypeOK /\ QueueTypes
  BY DEF RfbInv
<1>4. Aside(c) /\ UNCHANGED <<secType, errCh>>
  BY <1>3 DEF ReadClientInit, Aside, RfbTypeOK, QueueTypes, WriterAt, EncoderAt
<1>5. ConnInv(c)'
  <2>1. Started(c)'
    BY <1>1, <1>3, <1>4 DEF HandlerMove, ConnInv, Started
  <2>2. OneView(c)'
    BY <1>1, <1>2, <1>3, <1>4, SameConfig DEF HandlerMove, ConnInv, OneView, TypeServed, Proved
  <2>3. Undisturbed(c)'
    BY <1>1, <1>2, <1>3, SameConfig
       DEF HandlerMove, ConnInv, Undisturbed, InTurn, Single, Handshaking, Awaited
  <2>. QED
    BY <2>1, <2>2, <2>3 DEF ConnInv
<1>. QED
  BY <1>1, <1>4, <1>5, MoveKeeps

LEMMA ServeMessageKeeps == ASSUME RfbInv, NEW c \in Conn, ServeMessage(c) PROVE RfbInv'
<1>1. ConnInv(c) /\ RfbTypeOK /\ QueueTypes
  BY DEF RfbInv
<1>2. <<>> \in Seq(Message) /\ "serving" \in HandlerAt /\ "leaving" \in HandlerAt
  BY EmptyQueue DEF HandlerAt
<1>3. PICK msg \in {"request", "event", "unknown"}, next \in {"serving", "leaving"} :
        Step(c, "serving", msg, <<>>, next)
  BY DEF ServeMessage
<1>4. HandlerMove(c, "serving", msg, <<>>, next)
  BY <1>2, <1>3, StepMoves, Zenon
<1>5. /\ toClient'[c] = toClient[c]
      /\ \A n, a : Carries(toServer[c], n, a) => Carries(toServer'[c], n, a)
      /\ toServer[c] # <<>>
  BY <1>4, MoveReads, MoveSilent, MoveTakes, Zenon
<1>6. /\ fbReqCh' = fbReqCh \/ fbReqCh' = [fbReqCh EXCEPT ![c] = 1]
      /\ errCh' = errCh \/ errCh' = [errCh EXCEPT ![c] = 0]
      /\ UNCHANGED <<secType, writer, encoder, chClosed>>
  BY DEF ServeMessage
<1>7. Aside(c)
  <2>1. fbReqCh' \in [Conn -> 0..1]
    BY <1>1, <1>6 DEF RfbTypeOK
  <2>2. errCh' \in [Conn -> 0..1]
    BY <1>1, <1>6 DEF RfbTypeOK
  <2>. QED
    BY <1>1, <1>6, <2>1, <2>2 DEF Aside, RfbTypeOK, QueueTypes, WriterAt, EncoderAt
<1>8. ConnInv(c)'
  <2>1. Started(c)'
    BY <1>1, <1>4, <1>6 DEF HandlerMove, ConnInv, Started, RfbTypeOK
  <2>2. OneView(c)'
    BY <1>1, <1>4, <1>5, <1>6, SameConfig DEF HandlerMove, ConnInv, OneView, TypeServed, Proved
  <2>3. Undisturbed(c)'
    BY <1>1, <1>4, <1>5 DEF HandlerMove, ConnInv, Undisturbed, InTurn, Handshaking, Awaited
  <2>. QED
    BY <2>1, <2>2, <2>3 DEF ConnInv
<1>. QED
  BY <1>4, <1>7, <1>8, MoveKeeps, Zenon

LEMMA SendVersionKeeps == ASSUME RfbInv, NEW c \in Conn, SendVersion(c) PROVE RfbInv'
<1>1. UNCHANGED rfbConfig /\ RfbTypeOK /\ QueueTypes /\ ConnInv(c)
  BY DEF RfbInv, SendVersion
<1>2. toClient[c] \in Seq(Message)
  BY <1>1 DEF QueueTypes
<1>3. /\ toClient[c] \o Only("version") \in Seq(Message)
      /\ \A n : Has(toClient[c] \o Only("version"), n) <=> Has(toClient[c], n) \/ n = "version"
      /\ toClient[c] = <<>> => Single(toClient[c] \o Only("version"), "version")
  BY <1>2, Replying, Zenon DEF MessageType
<1>4. RfbTypeOK' /\ QueueTypes' /\ toClient'[c] = toClient[c] \o Only("version") /\ handler'[c] = "version"
  BY <1>1, <1>3, SameConfig DEF SendVersion, NoWriter, clientVars, RfbTypeOK, QueueTypes
<1>5. \A d \in Conn \ {c} : Untouched(d)
  BY <1>1 DEF SendVersion, NoWriter, clientVars, RfbTypeOK, QueueTypes, Untouched
<1>6. ConnInv(c)'
  BY <1>1, <1>3, <1>4, SameConfig DEF SendVersion, NoWriter, clientVars, ConnInv, Started, OneView,
     TypeServed, Proved, Undisturbed, InTurn, Handshaking, Awaited
<1>. QED
  BY <1>1, <1>4, <1>5, <1>6, OneMoves

LEMMA WriterAnswersKeeps == ASSUME RfbInv, NEW c \in Conn, WriterAnswers(c) PROVE RfbInv'
<1>1. UNCHANGED rfbConfig /\ RfbTypeOK /\ QueueTypes /\ ConnInv(c)
  BY DEF RfbInv, WriterAnswers
<1>2. /\ toClient[c] \in Seq(Message) /\ errCh[c] = 0 /\ writer[c] = "busy"
      /\ UNCHANGED <<rfbConfig, clients, handler, secType, tcp, toServer, fbReqCh, chClosed,
                     client, choice, sent, disturbed>>
  BY <1>1 DEF QueueTypes, ConnInv, Started, WriterAnswers, clientVars
<1>3. /\ toClient[c] \o Only("update") \in Seq(Message)
      /\ \A n : Has(toClient[c] \o Only("update"), n) <=> Has(toClient[c], n) \/ n = "update"
      /\ \A n : Begins(toClient[c], n) => Begins(toClient[c] \o Only("update"), n)
  BY <1>2, Replying, Zenon DEF MessageType
<1>4. \/ /\ toClient' = [toClient EXCEPT ![c] = toClient[c] \o Only("update")]
         /\ writer' = [writer EXCEPT ![c] = "idle"] /\ errCh' = errCh
      \/ /\ toClient' = toClient
         /\ writer' = [writer EXCEPT ![c] = "failed"] /\ errCh' = [errCh EXCEPT ![c] = 1]
  BY <1>1, <1>2 DEF WriterAnswers
<1>5. RfbTypeOK' /\ QueueTypes'
  <2>0. errCh \in [Conn -> 0..1] /\ writer \in [Conn -> WriterAt]
    BY <1>1 DEF RfbTypeOK, WriterAt
  <2>1. errCh' \in [Conn -> 0..1]
    BY <2>0, <1>4
  <2>2. writer' \in [Conn -> WriterAt]
    BY <2>0, <1>4 DEF WriterAt
  <2>4. encoder' \in [Conn -> EncoderAt]
    BY <1>1 DEF WriterAnswers, RfbTypeOK, EncoderAt
  <2>3. toClient' \in [Conn -> Seq(Message)]
    BY <1>1, <1>3, <1>4 DEF QueueTypes
  <2>. QED
    BY <1>1, <1>2, <2>1, <2>2, <2>3, <2>4, SameConfig DEF RfbTypeOK, QueueTypes, WriterAt, EncoderAt
<1>6. \A d \in Conn \ {c} : Untouched(d)
  BY <1>1, <1>2, <1>4 DEF RfbTypeOK, QueueTypes, Untouched
<1>7. \/ toClient'[c] = toClient[c] \o Only("update") /\ writer'[c] = "idle" /\ errCh'[c] = 0
      \/ toClient'[c] = toClient[c] /\ writer'[c] = "failed"
  BY <1>1, <1>2, <1>4 DEF RfbTypeOK, QueueTypes
<1>8. ConnInv(c)'
  BY <1>1, <1>2, <1>3, <1>7, SameConfig
     DEF ConnInv, Started, OneView, TypeServed, Proved, Undisturbed, InTurn, Handshaking, Awaited
<1>. QED
  BY <1>1, <1>5, <1>6, <1>8, OneMoves

\* The process ends: every connection is closed, and the writer is the only one to notice.
LEMMA WriterPanicsKeeps == ASSUME RfbInv, NEW c \in Conn, WriterPanics(c) PROVE RfbInv'
<1>1. UNCHANGED rfbConfig /\ RfbTypeOK /\ QueueTypes /\ ConnInv(c)
  BY DEF RfbInv, WriterPanics
<1>2. /\ writer[c] = "busy" /\ writer' = [writer EXCEPT ![c] = "panicked"]
      /\ tcp' = [d \in Conn |-> FALSE]
      /\ UNCHANGED <<clients, handler, secType, toClient, toServer, encoder, fbReqCh, chClosed,
                     errCh, client, choice, sent, disturbed>>
  BY DEF WriterPanics, clientVars
<1>3. RfbTypeOK' /\ QueueTypes'
  <2>1. writer' \in [Conn -> WriterAt]
    BY <1>1, <1>2 DEF RfbTypeOK, WriterAt
  <2>2. tcp' \in [Conn -> BOOLEAN]
    BY <1>2
  <2>. QED
    BY <1>1, <1>2, <2>1, <2>2, SameConfig DEF RfbTypeOK, QueueTypes, WriterAt
<1>4. \A d \in Conn \ {c} : Untouched(d)
  BY <1>1, <1>2 DEF RfbTypeOK, Untouched
<1>5. writer'[c] = "panicked" /\ ~tcp'[c]
  BY <1>1, <1>2 DEF RfbTypeOK
<1>6. ConnInv(c)'
  BY <1>1, <1>2, <1>5, SameConfig
     DEF ConnInv, Started, OneView, TypeServed, Proved, Undisturbed, InTurn, Handshaking, Awaited
<1>. QED
  BY <1>1, <1>3, <1>4, <1>6, OneMoves

-----------------------------------------------------------------------------
(* Close and SendClipboard, which act on every connection of the map. *)

LEMMA CloseServerKeeps == ASSUME RfbInv, CloseServer PROVE RfbInv'
<1>1. /\ UNCHANGED rfbConfig /\ RfbTypeOK /\ QueueTypes
      /\ tcp' = [c \in Conn |-> tcp[c] /\ c \notin clients]
      /\ UNCHANGED <<clients, handler, secType, writer, encoder, fbReqCh, chClosed, errCh, toClient, toServer,
                     client, choice, sent, disturbed>>
  BY DEF RfbInv, CloseServer, handlerVars, clientVars
<1>2. tcp' \in [Conn -> BOOLEAN] /\ \A c \in Conn : tcp'[c] => tcp[c]
  BY <1>1 DEF QueueTypes
<1>3. RfbTypeOK' /\ QueueTypes'
  BY <1>1, <1>2, SameConfig DEF RfbTypeOK, QueueTypes
<1>4. \A c \in Conn : Untouched(c)
  BY <1>1, <1>2 DEF Untouched
<1>5. \A c \in Conn : ConnInv(c)'
  BY <1>1, <1>4, UntouchedKeeps DEF RfbInv
<1>. QED
  BY <1>3, <1>5 DEF RfbInv

LEMMA SendClipboardKeeps == ASSUME RfbInv, SendClipboard PROVE RfbInv'
<1>1. /\ UNCHANGED rfbConfig /\ RfbTypeOK /\ QueueTypes
      /\ toClient' = [c \in Conn |-> IF c \in clients /\ tcp[c] THEN toClient[c] \o Only("cutText") ELSE toClient[c]]
      /\ disturbed' = [c \in Conn |-> disturbed[c] \/ (c \in clients /\ handler[c] # "serving")]
      /\ UNCHANGED <<clients, handler, secType, writer, encoder, fbReqCh, chClosed, errCh, tcp, toServer,
                     client, choice, sent>>
  BY DEF RfbInv, SendClipboard, handlerVars, clientVars
<1>2. ASSUME NEW c \in Conn
      PROVE  /\ toClient[c] \in Seq(Message) /\ toClient[c] \o Only("cutText") \in Seq(Message)
             /\ \A n : Has(toClient[c] \o Only("cutText"), n) <=> Has(toClient[c], n) \/ n = "cutText"
             /\ \A n : Begins(toClient[c], n) => Begins(toClient[c] \o Only("cutText"), n)
  <2>1. toClient[c] \in Seq(Message)
    BY <1>1 DEF QueueTypes
  <2>. QED
    BY <2>1, Replying, Zenon DEF MessageType
<1>3. RfbTypeOK' /\ QueueTypes'
  <2>1. toClient' \in [Conn -> Seq(Message)]
    BY <1>1, <1>2
  <2>2. disturbed' \in [Conn -> BOOLEAN]
    BY <1>1 DEF QueueTypes
  <2>. QED
    BY <1>1, <2>1, <2>2, SameConfig DEF RfbTypeOK, QueueTypes
<1>4. ASSUME NEW c \in Conn PROVE ConnInv(c)'
  <2>1. ConnInv(c)
    BY DEF RfbInv
  <2>2. CASE c \notin clients
    <3>1. Untouched(c)
      BY <1>1, <2>2 DEF Untouched, QueueTypes
    <3>. QED
      BY <1>1, <2>1, <3>1, UntouchedKeeps
  <2>3. CASE c \in clients
    <3>1. /\ disturbed'[c] = (disturbed[c] \/ handler[c] # "serving")
          /\ toClient'[c] = toClient[c] \/ toClient'[c] = toClient[c] \o Only("cutText")
      BY <1>1, <2>3
    <3>2. Started(c)'
      BY <1>1, <2>1, <2>3 DEF ConnInv, Started
    <3>3. OneView(c)'
      BY <1>1, <1>2, <2>1, <3>1, SameConfig DEF ConnInv, OneView, TypeServed, Proved
    <3>4. Undisturbed(c)'
      BY <1>1, <1>2, <2>1, <3>1, SameConfig DEF ConnInv, Undisturbed, InTurn, Handshaking, Awaited
    <3>. QED
      BY <3>2, <3>3, <3>4 DEF ConnInv
  <2>. QED
    BY <2>2, <2>3
<1>. QED
  BY <1>3, <1>4 DEF RfbInv

-----------------------------------------------------------------------------
(* The client. *)

\* What Turn does to the variables of a connection and leaves of the others.
ClientMove(c, at, msg, reply, next) ==
    /\ UNCHANGED rfbConfig
    /\ UNCHANGED <<clients, handler, secType, writer, encoder, fbReqCh, chClosed, errCh, tcp, disturbed>>
    /\ toServer' \in [Conn -> Seq(Message)] /\ toClient' \in [Conn -> Seq(Message)]
    /\ client' \in [Conn -> ClientAt]
    /\ tcp[c] /\ toServer[c] \in Seq(Message) /\ toClient[c] \in Seq(Message) /\ toClient[c] # <<>>
    /\ Head(toClient[c]).msg = msg /\ toClient'[c] = Tail(toClient[c])
    /\ toServer'[c] = toServer[c] \o reply
    /\ client[c] = at /\ client'[c] = next
    /\ \A d \in Conn \ {c} : /\ toServer'[d] = toServer[d] /\ toClient'[d] = toClient[d]
                             /\ client'[d] = client[d]

\* A step of the client moves one connection and leaves the others alone.
LEMMA TurnMoves ==
    ASSUME RfbInv, NEW c \in Conn, NEW at, NEW msg, NEW reply \in Seq(Message), NEW next \in ClientAt,
           Turn(c, at, msg, reply, next)
    PROVE  ClientMove(c, at, msg, reply, next)
<1>1. /\ toServer \in [Conn -> Seq(Message)] /\ toClient \in [Conn -> Seq(Message)]
      /\ client \in [Conn -> ClientAt]
  BY DEF RfbInv, QueueTypes
<1>2. toClient[c] # <<>> /\ toServer[c] \in Seq(Message) /\ toClient[c] \in Seq(Message)
  BY <1>1 DEF Turn
<1>3. Tail(toClient[c]) \in Seq(Message) /\ toServer[c] \o reply \in Seq(Message)
  BY <1>2
<1>. QED
  BY <1>1, <1>2, <1>3 DEF Turn, handlerVars, ClientMove

\* A turn keeps the invariant when it writes what its client chose and has, goes on to
\* a stage only with what the stage needs, and the two stay in turn.
LEMMA TurnKeeps ==
    ASSUME RfbInv, NEW c \in Conn, NEW at, NEW msg, NEW reply, NEW next,
           ClientMove(c, at, msg, reply, next),
           choice' \in [Conn -> Arg], sent' \in [Conn -> 0..MaxMessages],
           \A d \in Conn \ {c} : choice'[d] = choice[d],
           Carries(toServer'[c], "choice", Chosen(c)), Carries(toServer'[c], "response", passwordOf[c]),
           next \in {"challenge", "result", "serverInit", "ready"} => choice'[c] = Chosen(c),
           next \in {"serverInit", "ready"} => msg = "ok" \/ at \in {"serverInit", "ready"},
           Undisturbed(c)'
    PROVE  RfbInv'
<1>1. ConnInv(c) /\ RfbTypeOK /\ QueueTypes
  BY DEF RfbInv
<1>2. RfbTypeOK' /\ QueueTypes'
  BY <1>1, SameConfig DEF ClientMove, RfbTypeOK, QueueTypes
<1>3. \A d \in Conn \ {c} : Untouched(d)
  BY DEF ClientMove, Untouched
<1>4. /\ \A n : Has(toClient'[c], n) => Has(toClient[c], n)
      /\ \A n : Has(toClient[c], n) => Has(toClient'[c], n) \/ n = msg
      /\ Has(toClient[c], msg)
  <2>1. toClient[c] \in Seq(Message) /\ toClient[c] # <<>> /\ Head(toClient[c]).msg = msg
        /\ toClient'[c] = Tail(toClient[c])
    BY DEF ClientMove
  <2>. QED
    BY <2>1, Reading
<1>5. Started(c)'
  BY <1>1 DEF ConnInv, Started, ClientMove
<1>6. OneView(c)'
  <2>1. TypeServed(c)' => TypeServed(c)
    BY <1>4 DEF TypeServed, ClientMove
  <2>2. Proved(c)' => Proved(c)
    BY <1>4 DEF Proved, ClientMove
  <2>. QED
    BY <1>1, <2>1, <2>2, SameConfig DEF ConnInv, OneView, ClientMove
<1>7. ConnInv(c)' /\ UNCHANGED rfbConfig
  BY <1>5, <1>6 DEF ConnInv, ClientMove
<1>. QED
  BY <1>2, <1>3, <1>7, OneMoves

\* What a client writes agrees with what it chose and has.
LEMMA ClientWrites ==
    ASSUME RfbInv, NEW c \in Conn, NEW at, NEW msg, NEW reply, NEW next,
           ClientMove(c, at, msg, reply, next),
           \/ reply = <<>>
           \/ \E m \in MessageType \ {"choice", "response"} : reply = Only(m)
           \/ reply = <<[msg |-> "choice", arg |-> Chosen(c)]>>
           \/ reply = <<[msg |-> "response", arg |-> passwordOf[c]]>>
    PROVE  Carries(toServer'[c], "choice", Chosen(c)) /\ Carries(toServer'[c], "response", passwordOf[c])
<1>1. /\ Carries(toServer[c], "choice", Chosen(c)) /\ Carries(toServer[c], "response", passwordOf[c])
      /\ toServer[c] \in Seq(Message) /\ toServer'[c] = toServer[c] \o reply
      /\ QueueTypes
  BY DEF RfbInv, ConnInv, OneView, ClientMove
<1>2. CASE reply = <<>>
  BY <1>1, <1>2, NoReply
<1>3. CASE \E m \in MessageType \ {"choice", "response"} : reply = Only(m)
  <2>1. PICK m \in MessageType \ {"choice", "response"} : reply = Only(m)
    BY <1>3
  <2>. QED
    BY <1>1, <2>1, Replying
<1>4. CASE reply = <<[msg |-> "choice", arg |-> Chosen(c)]>>
  <2>1. [msg |-> "choice", arg |-> Chosen(c)] \in Message
    BY <1>1, ChosenIsArg DEF Message, MessageType
  <2>. QED
    BY <1>1, <1>4, <2>1, Writing
<1>5. CASE reply = <<[msg |-> "response", arg |-> passwordOf[c]]>>
  <2>1. [msg |-> "response", arg |-> passwordOf[c]] \in Message
    BY <1>1, ChosenIsArg DEF Message, MessageType
  <2>. QED
    BY <1>1, <1>5, <2>1, Writing
<1>. QED
  BY <1>2, <1>3, <1>4, <1>5

\* What the client writes to an empty wire is the only message there.
LEMMA SpeaksInTurn ==
    ASSUME NEW c, NEW at, NEW msg, NEW x \in Message, NEW next, ClientMove(c, at, msg, <<x>>, next),
           toServer[c] = <<>>
    PROVE  Single(toServer'[c], x.msg)
<1>1. <<>> \in Seq(Message) /\ toServer'[c] = <<>> \o <<x>>
  BY EmptyQueue DEF ClientMove
<1>2. Single(<<>> \o <<x>>, x.msg)
  BY <1>1, Writing, Zenon
<1>. QED
  BY <1>1, <1>2

LEMMA AnswersInTurn ==
    ASSUME NEW c, NEW at, NEW msg, NEW m \in MessageType, NEW next, ClientMove(c, at, msg, Only(m), next),
           toServer[c] = <<>>
    PROVE  Single(toServer'[c], m)
<1>1. <<>> \in Seq(Message) /\ toServer'[c] = <<>> \o Only(m)
  BY EmptyQueue DEF ClientMove
<1>. QED
  BY <1>1, Replying

\* The turns of the handshake, with what a client that goes on has chosen.
LEMMA HandshakeTurn ==
    ASSUME RfbInv, NEW c \in Conn, ClientHandshake(c)
    PROVE  \E at, msg, reply, next :
             /\ ClientMove(c, at, msg, reply, next)
             /\ \/ reply = <<>>
                \/ \E m \in MessageType \ {"choice", "response"} : reply = Only(m)
                \/ reply = <<[msg |-> "choice", arg |-> Chosen(c)]>>
                \/ reply = <<[msg |-> "response", arg |-> passwordOf[c]]>>
             /\ \/ next = "types" /\ at = "version" /\ msg = "version" /\ UNCHANGED <<choice, sent>>
                \/ /\ next \in {"result", "challenge"} /\ at = "types" /\ msg = "types"
                   /\ choice' = [choice EXCEPT ![c] = Chosen(c)] /\ UNCHANGED sent
                \/ next = "result" /\ at = "challenge" /\ msg = "challenge" /\ UNCHANGED <<choice, sent>>
                \/ next = "serverInit" /\ at = "result" /\ msg = "ok" /\ UNCHANGED <<choice, sent>>
                \/ next = "closing" /\ UNCHANGED <<choice, sent>>
                \/ next = "ready" /\ at = "serverInit" /\ UNCHANGED <<choice, sent>>
             /\ Undisturbed(c)'
<1>0. QueueTypes /\ Chosen(c) \in Arg /\ passwordOf[c] \in Arg /\ Undisturbed(c)
  BY ChosenIsArg DEF RfbInv, ConnInv
<1>1. CASE Turn(c, "version", "version", Only("version"), "types") /\ UNCHANGED <<choice, sent>>
  <2>1. /\ Only("version") \in Seq(Message) /\ "types" \in ClientAt
        /\ "version" \in MessageType \ {"choice", "response"}
    BY Replying, Zenon DEF MessageType, ClientAt
  <2>2. ClientMove(c, "version", "version", Only("version"), "types")
    BY <1>1, <2>1, TurnMoves, Zenon
  <2>3. toServer[c] = <<>> => Single(toServer'[c], "version")
    BY <2>1, <2>2, AnswersInTurn
  <2>4. Undisturbed(c)'
    BY <1>0, <2>2, <2>3, SameConfig
       DEF ClientMove, Undisturbed, InTurn, Begins, Single, Handshaking, Awaited
  <2>. QED
    BY <1>1, <2>1, <2>2, <2>4, Zenon
<1>2. CASE /\ Turn(c, "types", "types", <<[msg |-> "choice", arg |-> Chosen(c)]>>,
                   IF Chosen(c) = "none" THEN "result" ELSE "challenge")
           /\ choice' = [choice EXCEPT ![c] = Chosen(c)]
           /\ UNCHANGED sent
  <2>. DEFINE x == [msg |-> "choice", arg |-> Chosen(c)]
              next == IF Chosen(c) = "none" THEN "result" ELSE "challenge"
  <2>1. x \in Message /\ next \in ClientAt /\ next \in {"result", "challenge"}
    BY <1>0 DEF Message, MessageType, ClientAt
  <2>. HIDE DEF next
  <2>2. <<x>> \in Seq(Message)
    BY <2>1
  <2>3. ClientMove(c, "types", "types", <<x>>, next)
    BY <1>2, <2>1, <2>2, TurnMoves, Zenon DEF next
  <2>4. toServer[c] = <<>> => Single(toServer'[c], "choice")
    BY <2>1, <2>3, SpeaksInTurn
  <2>5. Undisturbed(c)'
    BY <1>0, <2>1, <2>3, <2>4, SameConfig
       DEF ClientMove, Undisturbed, InTurn, Single, Handshaking, Awaited, next
  <2>. QED
    BY <1>2, <2>1, <2>3, <2>5, Zenon
<1>3. CASE PerformVNCAuth(c) /\ UNCHANGED <<choice, sent>>
  <2>. DEFINE x == [msg |-> "response", arg |-> passwordOf[c]]
  <2>1. x \in Message /\ "result" \in ClientAt
    BY <1>0 DEF Message, MessageType, ClientAt
  <2>2. <<x>> \in Seq(Message)
    BY <2>1
  <2>3. ClientMove(c, "challenge", "challenge", <<x>>, "result")
    BY <1>3, <2>1, <2>2, TurnMoves, Zenon DEF PerformVNCAuth
  <2>4. toServer[c] = <<>> => Single(toServer'[c], "response")
    BY <2>1, <2>3, SpeaksInTurn
  <2>5. Undisturbed(c)'
    BY <1>0, <2>3, <2>4, SameConfig
       DEF ClientMove, Undisturbed, InTurn, Begins, Single, Handshaking, Awaited
  <2>. QED
    BY <1>3, <2>3, <2>5, Zenon
<1>4. CASE Turn(c, "result", "ok", Only("clientInit"), "serverInit") /\ UNCHANGED <<choice, sent>>
  <2>1. /\ Only("clientInit") \in Seq(Message) /\ "serverInit" \in ClientAt
        /\ "clientInit" \in MessageType \ {"choice", "response"}
    BY Replying, Zenon DEF MessageType, ClientAt
  <2>2. ClientMove(c, "result", "ok", Only("clientInit"), "serverInit")
    BY <1>4, <2>1, TurnMoves, Zenon
  <2>3. toServer[c] = <<>> => Single(toServer'[c], "clientInit")
    BY <2>1, <2>2, AnswersInTurn
  <2>4. Undisturbed(c)'
    BY <1>0, <2>2, <2>3, SameConfig
       DEF ClientMove, Undisturbed, InTurn, Begins, Single, Handshaking, Awaited
  <2>. QED
    BY <1>4, <2>1, <2>2, <2>4, Zenon
<1>5. CASE Turn(c, "result", "refused", <<>>, "closing") /\ UNCHANGED <<choice, sent>>
  <2>1. <<>> \in Seq(Message) /\ "closing" \in ClientAt
    BY EmptyQueue DEF ClientAt
  <2>2. ClientMove(c, "result", "refused", <<>>, "closing")
    BY <1>5, <2>1, TurnMoves, Zenon
  <2>3. Undisturbed(c)'
    BY <1>0, <2>2 DEF ClientMove, Undisturbed, InTurn, Handshaking, Awaited
  <2>. QED
    BY <1>5, <2>2, <2>3, Zenon
<1>6. CASE Turn(c, "serverInit", "serverInit", Only("event"), "ready") /\ UNCHANGED <<choice, sent>>
  <2>1. /\ Only("event") \in Seq(Message) /\ "ready" \in ClientAt
        /\ "event" \in MessageType \ {"choice", "response"}
    BY Replying, Zenon DEF MessageType, ClientAt
  <2>2. ClientMove(c, "serverInit", "serverInit", Only("event"), "ready")
    BY <1>6, <2>1, TurnMoves, Zenon
  <2>3. Undisturbed(c)'
    BY <1>0, <2>2 DEF ClientMove, Undisturbed, InTurn, Handshaking, Awaited
  <2>. QED
    BY <1>6, <2>1, <2>2, <2>3, Zenon
<1>. QED
  BY <1>1, <1>2, <1>3, <1>4, <1>5, <1>6 DEF ClientHandshake

LEMMA ClientHandshakeKeeps == ASSUME RfbInv, NEW c \in Conn, ClientHandshake(c) PROVE RfbInv'
<1>1. PICK at, msg, reply, next :
        /\ ClientMove(c, at, msg, reply, next)
        /\ \/ reply = <<>>
           \/ \E m \in MessageType \ {"choice", "response"} : reply = Only(m)
           \/ reply = <<[msg |-> "choice", arg |-> Chosen(c)]>>
           \/ reply = <<[msg |-> "response", arg |-> passwordOf[c]]>>
        /\ \/ next = "types" /\ at = "version" /\ msg = "version" /\ UNCHANGED <<choice, sent>>
           \/ /\ next \in {"result", "challenge"} /\ at = "types" /\ msg = "types"
              /\ choice' = [choice EXCEPT ![c] = Chosen(c)] /\ UNCHANGED sent
           \/ next = "result" /\ at = "challenge" /\ msg = "challenge" /\ UNCHANGED <<choice, sent>>
           \/ next = "serverInit" /\ at = "result" /\ msg = "ok" /\ UNCHANGED <<choice, sent>>
           \/ next = "closing" /\ UNCHANGED <<choice, sent>>
           \/ next = "ready" /\ at = "serverInit" /\ UNCHANGED <<choice, sent>>
        /\ Undisturbed(c)'
  BY HandshakeTurn, Zenon
<1>2. Carries(toServer'[c], "choice", Chosen(c)) /\ Carries(toServer'[c], "response", passwordOf[c])
  BY <1>1, ClientWrites, Zenon
<1>3. /\ choice \in [Conn -> Arg] /\ sent \in [Conn -> 0..MaxMessages] /\ Chosen(c) \in Arg
      /\ client[c] \in {"challenge", "result", "serverInit", "ready"} => choice[c] = Chosen(c)
      /\ client[c] = at
  BY <1>1, ChosenIsArg DEF RfbInv, QueueTypes, RfbTypeOK, ConnInv, OneView, ClientMove
<1>4. /\ choice' \in [Conn -> Arg] /\ sent' \in [Conn -> 0..MaxMessages]
      /\ \A d \in Conn \ {c} : choice'[d] = choice[d]
      /\ next \in {"challenge", "result", "serverInit", "ready"} => choice'[c] = Chosen(c)
  BY <1>1, <1>3
<1>5. next \in {"serverInit", "ready"} => msg = "ok" \/ at \in {"serverInit", "ready"}
  BY <1>1
<1>. QED
  BY <1>1, <1>2, <1>4, <1>5, TurnKeeps, Zenon

LEMMA ClientConfusedKeeps == ASSUME RfbInv, NEW c \in Conn, ClientConfused(c) PROVE RfbInv'
<1>1. <<>> \in Seq(Message) /\ "confused" \in ClientAt
  BY EmptyQueue DEF ClientAt
<1>. DEFINE m == Head(toClient[c]).msg
<1>2. ClientMove(c, client[c], m, <<>>, "confused")
  BY <1>1, TurnMoves, Zenon DEF ClientConfused
<1>3. Carries(toServer'[c], "choice", Chosen(c)) /\ Carries(toServer'[c], "response", passwordOf[c])
  BY <1>2, ClientWrites, Zenon
<1>4. disturbed[c]
  <2>1. Undisturbed(c) /\ tcp[c] /\ client[c] \in DOMAIN Awaited
    BY <1>2 DEF ClientConfused, RfbInv, ConnInv, ClientMove
  <2>2. toClient[c] # <<>> /\ m \notin Awaited[client[c]]
    BY DEF ClientConfused
  <2>3. ~InTurn(c)
    BY <2>1, <2>2 DEF InTurn, Begins, Single, Awaited
  <2>. QED
    BY <2>1, <2>3 DEF Undisturbed
<1>6. Undisturbed(c)'
  BY <1>2, <1>4 DEF ClientMove, Undisturbed
<1>5. /\ choice' \in [Conn -> Arg] /\ sent' \in [Conn -> 0..MaxMessages]
      /\ \A d \in Conn \ {c} : choice'[d] = choice[d]
  BY DEF RfbInv, QueueTypes, RfbTypeOK, ClientConfused
<1>. QED
  BY <1>2, <1>3, <1>5, <1>6, TurnKeeps, Zenon

LEMMA ClientReadsKeeps == ASSUME RfbInv, NEW c \in Conn, ClientReads(c) PROVE RfbInv'
<1>1. <<>> \in Seq(Message) /\ "ready" \in ClientAt
  BY EmptyQueue DEF ClientAt
<1>2. PICK msg \in {"update", "cutText"} : ClientMove(c, "ready", msg, <<>>, "ready")
  BY <1>1, TurnMoves, Zenon DEF ClientReads
<1>3. Carries(toServer'[c], "choice", Chosen(c)) /\ Carries(toServer'[c], "response", passwordOf[c])
  BY <1>2, ClientWrites, Zenon
<1>4. /\ choice' \in [Conn -> Arg] /\ sent' \in [Conn -> 0..MaxMessages]
      /\ \A d \in Conn \ {c} : choice'[d] = choice[d]
      /\ choice'[c] = Chosen(c)
  BY <1>2 DEF RfbInv, QueueTypes, RfbTypeOK, ClientReads, ConnInv, OneView, ClientMove
<1>5. Undisturbed(c)'
  BY <1>2 DEF RfbInv, ConnInv, ClientMove, Undisturbed, InTurn, Handshaking, Awaited
<1>. QED
  BY <1>2, <1>3, <1>4, <1>5, TurnKeeps, Zenon

LEMMA ClientSendsKeeps == ASSUME RfbInv, NEW c \in Conn, ClientSends(c) PROVE RfbInv'
<1>1. /\ UNCHANGED rfbConfig /\ RfbTypeOK /\ QueueTypes /\ ConnInv(c)
      /\ UNCHANGED <<clients, handler, secType, writer, encoder, fbReqCh, chClosed, errCh, tcp, toClient,
                     client, choice, disturbed>>
      /\ tcp[c]
  BY DEF RfbInv, ClientSends, handlerVars
<1>2. PICK m \in {"request", "event", "unknown"} : toServer' = [toServer EXCEPT ![c] = toServer[c] \o Only(m)]
  BY <1>1 DEF ClientSends, QueueTypes
<1>3. toServer[c] \in Seq(Message) /\ m \in MessageType /\ m # "choice" /\ m # "response"
  BY <1>1, <1>2 DEF QueueTypes, MessageType
<1>4. /\ toServer[c] \o Only(m) \in Seq(Message)
      /\ \A a : Carries(toServer[c], "choice", a) => Carries(toServer[c] \o Only(m), "choice", a)
      /\ \A a : Carries(toServer[c], "response", a) => Carries(toServer[c] \o Only(m), "response", a)
  BY <1>3, Replying, Zenon
<1>5. /\ toServer' \in [Conn -> Seq(Message)] /\ toServer'[c] = toServer[c] \o Only(m)
      /\ \A d \in Conn \ {c} : toServer'[d] = toServer[d]
  BY <1>1, <1>2, <1>4 DEF QueueTypes
<1>6. sent' \in [Conn -> 0..MaxMessages]
  BY <1>1, RfbServerAssumption DEF RfbTypeOK, ClientSends
<1>7. RfbTypeOK' /\ QueueTypes'
  BY <1>1, <1>5, <1>6, SameConfig DEF RfbTypeOK, QueueTypes
<1>8. \A d \in Conn \ {c} : Untouched(d)
  BY <1>1, <1>5 DEF Untouched
<1>9. ConnInv(c)'
  <2>1. Started(c)' /\ OneView(c)'
    BY <1>1, <1>4, <1>5, SameConfig DEF ConnInv, Started, OneView, TypeServed, Proved
  <2>2. Undisturbed(c)'
    BY <1>1 DEF ClientSends, ConnInv, Undisturbed, InTurn, Handshaking, Awaited
  <2>. QED
    BY <2>1, <2>2 DEF ConnInv
<1>. QED
  BY <1>1, <1>7, <1>8, <1>9, OneMoves

-----------------------------------------------------------------------------

LEMMA RfbStutterKeeps == ASSUME RfbInv, UNCHANGED rfbVars PROVE RfbInv'
<1>1. UNCHANGED rfbConfig /\ RfbTypeOK' /\ QueueTypes'
  BY DEF rfbVars, rfbConfig, RfbInv, RfbTypeOK, QueueTypes
<1>2. \A c \in Conn : Untouched(c)
  BY DEF rfbVars, Untouched
<1>. QED
  BY <1>1, <1>2, UntouchedKeeps DEF RfbInv

LEMMA RfbStep == RfbInv /\ [RfbNext]_rfbVars => RfbInv'
<1>. SUFFICES ASSUME RfbInv, [RfbNext]_rfbVars PROVE RfbInv'
  OBVIOUS
<1>1. ASSUME NEW c \in Conn, HandlerStep(c) PROVE RfbInv'
  BY <1>1, AddClientKeeps, SendVersionKeeps, ReadVersionKeeps, ReadChoiceKeeps, ReadResponseKeeps,
     ReadClientInitKeeps, ServeMessageKeeps, HandlerFailsKeeps, LeaveKeeps DEF HandlerStep
<1>2. ASSUME NEW c \in Conn, WriterStep(c) PROVE RfbInv'
  BY <1>2, WriterTakesKeeps, WriterAnswersKeeps, WriterPanicsKeeps DEF WriterStep
<1>3. ASSUME NEW c \in Conn, ClientStep(c) PROVE RfbInv'
  BY <1>3, ClientHandshakeKeeps, ClientConfusedKeeps, ClientClosesKeeps DEF ClientStep
<1>. QED
  BY <1>1, <1>2, <1>3, CloseServerKeeps, SendClipboardKeeps, AcceptKeeps, ClientReadsKeeps,
     ClientSendsKeeps, ClientClosesKeeps, RfbStutterKeeps DEF RfbNext

LEMMA RfbInductive == RfbSpec => []RfbInv
<1>1. RfbSpec => RfbInit /\ [][RfbNext]_rfbVars
  BY PTL DEF RfbSpec
<1>. QED
  BY RfbInitInv, RfbStep, <1>1, PTL

\* What the runs check of the server follows from its invariant.
LEMMA RfbInvImplies == RfbInv => RfbTypeOK /\ HandshakeAgrees /\ OnlyBroadcastsDisturb
<1>1. RfbInv => HandshakeAgrees
  BY DEF RfbInv, ConnInv, OneView, TypeServed, Proved, HandshakeAgrees
<1>2. RfbInv => OnlyBroadcastsDisturb
  BY DEF RfbInv, ConnInv, Undisturbed, OnlyBroadcastsDisturb, QueueTypes
<1>. QED
  BY <1>1, <1>2 DEF RfbInv

\* Every variable of the server keeps its type: a client is removed as often as it is
\* added, and errCh, which has room for one error, is never sent a second one that
\* would block the writer (framebufferWriter, serveMessages).
THEOREM RfbTypeCorrect == RfbSpec => []RfbTypeOK
  BY RfbInductive, RfbInvImplies, PTL

\* For any number of connections and broadcasts, a client that is ready is served with
\* the type it chose, which was offered, and has shown the password if the type asks
\* for one, even when a broadcast of the clipboard fell into its handshake
\* (handshake, VNCAuth.Handshake, chooseSecurityType).
THEOREM HandshakeAgreement == RfbSpec => []HandshakeAgrees
  BY RfbInductive, RfbInvImplies, PTL

\* For any number of connections, server and client keep in step through the handshake,
\* whichever type is chosen, right or wrong the password: a client that reads something
\* else than the message it waits for was written to by SendClipboard outside
\* serveMessages (handshake, VNCAuth.Handshake, performHandshake, SendClipboard).
THEOREM OnlyBroadcasts == RfbSpec => []OnlyBroadcastsDisturb
  BY RfbInductive, RfbInvImplies, PTL

=============================================================================
