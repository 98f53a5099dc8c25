------------------------------ MODULE RfbServer ------------------------------
(***************************************************************************)
(* Connections of the RFB server (rfb/server.go) with the clients that      *)
(* handshake with it, rfb.Client (rfb/client.go) or the proxy: accepting,   *)
(* the handshake of both sides, the message loop and the writer goroutine,  *)
(* the deferred cleanup, Close and the broadcast of the clipboard.          *)
(*                                                                          *)
(* Every step of a handler or a client is one read with the writes that     *)
(* follow it.  What an update holds is the subject of UpdateLoop.           *)
(***************************************************************************)
EXTENDS Naturals, Sequences

CONSTANTS
    Conn,           \* TCP connections
    Offers,         \* security types the server may be configured with
    MaxMessages,    \* bound: messages a client sends after the handshake
    MaxBroadcasts   \* bound: calls of SendClipboard

ASSUME RfbServerAssumption ==
    /\ Offers \subseteq {"none", "vncAuth"} /\ MaxMessages \in Nat /\ MaxBroadcasts \in Nat

VARIABLES
    offered,        \* config.Security, in order
    passwordOf,     \* [Conn -> the client's password; a foreign client chooses freely]
    done,           \* Close has begun
    clients,        \* the map s.clients
    handler,        \* [Conn -> where handleConnection is]
    secType,        \* [Conn -> the type the handler serves]
    tcp,            \* [Conn -> is the connection open]
    toClient, toServer,
    writer,         \* [Conn -> "none", "idle", "busy", "failed", "ended", "panicked"]
    encoder,        \* [Conn -> the connection's H.264 encoder: "none", "made", "reset"]
    fbReqCh,        \* [Conn -> requests in the channel]
    chClosed,       \* [Conn -> was the channel closed]
    errCh,          \* [Conn -> errors in the channel]
    client,         \* [Conn -> where the client is]
    choice,         \* [Conn -> the type the client chose]
    sent,           \* [Conn -> messages sent after the handshake]
    disturbed,      \* [Conn -> SendClipboard wrote to it while it was not served]
    broadcasts

rfbVars == <<offered, passwordOf, done, clients, handler, secType, tcp, toClient, toServer,
             writer, encoder, fbReqCh, chClosed, errCh, client, choice, sent, disturbed, broadcasts>>
rfbConfig == <<offered, passwordOf>>
handlerVars == <<clients, handler, secType, writer, encoder, fbReqCh, chClosed, errCh>>
clientVars == <<client, choice, sent>>

Offered == {offered[k] : k \in 1..Len(offered)}

RfbInit ==
    /\ offered \in {<<t>> : t \in Offers} \cup {s \in [1..2 -> Offers] : s[1] # s[2]}
    /\ passwordOf \in [Conn -> {"none", "right", "wrong", "foreign"}]
    /\ done = FALSE /\ clients = {} /\ broadcasts = 0
    /\ handler = [c \in Conn |-> "none"]
    /\ secType = [c \in Conn |-> "unset"]
    /\ tcp = [c \in Conn |-> FALSE]
    /\ toClient = [c \in Conn |-> <<>>] /\ toServer = [c \in Conn |-> <<>>]
    /\ writer = [c \in Conn |-> "none"] /\ encoder = [c \in Conn |-> "none"]
    /\ fbReqCh = [c \in Conn |-> 0] /\ chClosed = [c \in Conn |-> FALSE]
    /\ errCh = [c \in Conn |-> 0]
    /\ client = [c \in Conn |-> "none"]
    /\ choice = [c \in Conn |-> "unset"]
    /\ sent = [c \in Conn |-> 0]
    /\ disturbed = [c \in Conn |-> FALSE]

-----------------------------------------------------------------------------
(* The server. *)

\* Accept in ListenAndServe starts a goroutine that has not run yet.
Accept(c) ==
    /\ ~done /\ handler[c] = "none"
    /\ handler' = [handler EXCEPT ![c] = "accepted"]
    /\ tcp' = [tcp EXCEPT ![c] = TRUE]
    /\ client' = [client EXCEPT ![c] = "version"]
    /\ UNCHANGED <<rfbConfig, done, clients, secType, toClient, toServer, writer, encoder, fbReqCh,
                   chClosed, errCh, choice, sent, disturbed, broadcasts>>

\* addClient, also while Close runs or has returned.
AddClient(c) ==
    /\ handler[c] = "accepted"
    /\ handler' = [handler EXCEPT ![c] = "added"]
    /\ clients' = clients \cup {c}
    /\ UNCHANGED <<rfbConfig, done, secType, tcp, toClient, toServer, writer, encoder, fbReqCh,
                   chClosed, errCh, clientVars, disturbed, broadcasts>>

\* The handler takes msg from the client, writes reply and goes on to next.
Step(c, at, msg, reply, next) ==
    /\ handler[c] = at /\ tcp[c]
    /\ toServer[c] # <<>> /\ Head(toServer[c]).msg = msg
    /\ toServer' = [toServer EXCEPT ![c] = Tail(@)]
    /\ toClient' = [toClient EXCEPT ![c] = @ \o reply]
    /\ handler' = [handler EXCEPT ![c] = next]
    /\ UNCHANGED <<rfbConfig, done, clients, tcp, clientVars, disturbed, broadcasts>>

NoWriter == UNCHANGED <<writer, encoder, fbReqCh, chClosed, errCh>>
Only(msg) == <<[msg |-> msg, arg |-> "unset"]>>

SendVersion(c) ==
    /\ handler[c] = "added" /\ tcp[c]
    /\ handler' = [handler EXCEPT ![c] = "version"]
    /\ toClient' = [toClient EXCEPT ![c] = @ \o Only("version")]
    /\ UNCHANGED <<rfbConfig, done, clients, secType, tcp, toServer, clientVars, disturbed, broadcasts>>
    /\ NoWriter

ReadVersion(c) ==
    Step(c, "version", "version", Only("types"), "choice") /\ UNCHANGED secType /\ NoWriter

\* Faulty variant: the handler sends a result of its own after the handshake of None.
ReadChoiceResultTwice(c) ==
    LET t == Head(toServer[c]).arg
    IN  /\ \/ Step(c, "choice", "choice", Only("ok") \o Only("ok"), "clientInit") /\ t \in Offered \cap {"none"}
           \/ Step(c, "choice", "choice", Only("challenge"), "response") /\ t \in Offered \cap {"vncAuth"}
           \/ Step(c, "choice", "choice", <<>>, "leaving") /\ t \notin Offered
        /\ secType' = [secType EXCEPT ![c] = t]
        /\ NoWriter

\* The choice of the client: None.Handshake sends the result, VNCAuth.Handshake the
\* challenge; a type that was not offered ends the handshake.
ReadChoice(c) ==
    LET t == Head(toServer[c]).arg
    IN  /\ \/ Step(c, "choice", "choice", Only("ok"), "clientInit") /\ t \in Offered \cap {"none"}
           \/ Step(c, "choice", "choice", Only("challenge"), "response") /\ t \in Offered \cap {"vncAuth"}
           \/ Step(c, "choice", "choice", <<>>, "leaving") /\ t \notin Offered
        /\ secType' = [secType EXCEPT ![c] = t]
        /\ NoWriter

\* Faulty variant: the result is left in the buffer.
ReadResponseUnflushed(c) ==
    /\ \/ Step(c, "response", "response", <<>>, "clientInit") /\ Head(toServer[c]).arg = "right"
       \/ Step(c, "response", "response", Only("refused"), "leaving") /\ Head(toServer[c]).arg # "right"
    /\ UNCHANGED secType /\ NoWriter

\* Faulty variant: a wrong response is taken for a right one.
ReadResponseLenient(c) ==
    Step(c, "response", "response", Only("ok"), "clientInit") /\ UNCHANGED secType /\ NoWriter

\* VNCAuth.Handshake checks the response.
ReadResponse(c) ==
    /\ \/ Step(c, "response", "response", Only("ok"), "clientInit") /\ Head(toServer[c]).arg = "right"
       \/ Step(c, "response", "response", Only("refused"), "leaving") /\ Head(toServer[c]).arg # "right"
    /\ UNCHANGED secType /\ NoWriter

\* ServerInit ends the handshake; the channels are made and the writer starts.
ReadClientInit(c) ==
    /\ Step(c, "clientInit", "clientInit", Only("serverInit"), "serving")
    /\ writer' = [writer EXCEPT ![c] = "idle"]
    /\ UNCHANGED <<secType, encoder, fbReqCh, chClosed, errCh>>

\* serveMessages: one message, after which errCh is looked at before the next read
\* blocks.  A request is dropped when the channel is full, an unknown message ends
\* the connection.
ServeMessage(c) ==
    LET next == IF errCh[c] > 0 THEN "leaving" ELSE "serving"
    IN  /\ \/ /\ Step(c, "serving", "request", <<>>, next)
              /\ fbReqCh' = [fbReqCh EXCEPT ![c] = 1]
              /\ errCh' = [errCh EXCEPT ![c] = 0]
           \/ /\ Step(c, "serving", "event", <<>>, next)
              /\ errCh' = [errCh EXCEPT ![c] = 0]
              /\ UNCHANGED fbReqCh
           \/ Step(c, "serving", "unknown", <<>>, "leaving") /\ UNCHANGED <<fbReqCh, errCh>>
        /\ UNCHANGED <<secType, writer, encoder, chClosed>>

\* Every read or write of the handler fails on a closed connection.
HandlerFails(c) ==
    /\ handler[c] \in {"added", "version", "choice", "response", "clientInit", "serving"}
    /\ ~tcp[c]
    /\ handler' = [handler EXCEPT ![c] = "leaving"]
    /\ UNCHANGED <<rfbConfig, done, clients, secType, tcp, toClient, toServer, writer, encoder, fbReqCh,
                   chClosed, errCh, clientVars, disturbed, broadcasts>>

\* Faulty variant: the channel is left open.
LeaveKeepsChannel(c) ==
    /\ handler[c] = "leaving"
    /\ handler' = [handler EXCEPT ![c] = "left"]
    /\ clients' = clients \ {c}
    /\ tcp' = [tcp EXCEPT ![c] = FALSE]
    /\ UNCHANGED <<rfbConfig, done, secType, toClient, toServer, writer, encoder, fbReqCh, chClosed,
                   errCh, clientVars, disturbed, broadcasts>>

\* The deferred cleanup: the channel is closed if there is one, the encoders are
\* reset, the client is removed, the connection closed.
Leave(c) ==
    /\ handler[c] = "leaving"
    /\ handler' = [handler EXCEPT ![c] = "left"]
    /\ chClosed' = [chClosed EXCEPT ![c] = writer[c] # "none"]
    /\ clients' = clients \ {c}
    /\ encoder' = [encoder EXCEPT ![c] = IF @ = "made" THEN "reset" ELSE @]
    /\ tcp' = [tcp EXCEPT ![c] = FALSE]
    /\ UNCHANGED <<rfbConfig, done, secType, toClient, toServer, writer, fbReqCh, errCh,
                   clientVars, disturbed, broadcasts>>

\* framebufferWriter takes a request (one may be left in a closed channel), answers
\* it or fails, and ends when the channel is closed and empty.
WriterTakes(c) ==
    /\ writer[c] = "idle"
    /\ \/ fbReqCh[c] > 0 /\ writer' = [writer EXCEPT ![c] = "busy"] /\ fbReqCh' = [fbReqCh EXCEPT ![c] = 0]
       \/ fbReqCh[c] = 0 /\ chClosed[c] /\ writer' = [writer EXCEPT ![c] = "ended"] /\ UNCHANGED fbReqCh
    /\ UNCHANGED <<rfbConfig, done, clients, handler, secType, tcp, toClient, toServer, encoder,
                   chClosed, errCh, clientVars, disturbed, broadcasts>>

\* encodeAndSendFrame makes the H.264 encoder when the client asks for that encoding
\* the first time.  The answer is sent, or something fails on the way.
WriterAnswers(c) ==
    /\ writer[c] = "busy"
    /\ \E e \in {encoder[c], IF encoder[c] = "none" THEN "made" ELSE encoder[c]} :
          encoder' = [encoder EXCEPT ![c] = e]
    /\ \/ /\ tcp[c]
          /\ toClient' = [toClient EXCEPT ![c] = @ \o Only("update")]
          /\ writer' = [writer EXCEPT ![c] = "idle"]
          /\ UNCHANGED errCh
       \/ /\ writer' = [writer EXCEPT ![c] = "failed"]
          /\ errCh' = [errCh EXCEPT ![c] = @ + 1]
          /\ UNCHANGED toClient
    /\ UNCHANGED <<rfbConfig, done, clients, handler, secType, tcp, toServer, fbReqCh, chClosed,
                   clientVars, disturbed, broadcasts>>

\* EncodeMulti calls the backend of the encoder, and one that was reset has none: the
\* writer panics, nothing recovers, and the process ends with all its connections.
WriterPanics(c) ==
    /\ writer[c] = "busy" /\ encoder[c] = "reset"
    /\ writer' = [writer EXCEPT ![c] = "panicked"]
    /\ tcp' = [d \in Conn |-> FALSE]
    /\ UNCHANGED <<rfbConfig, done, clients, handler, secType, toClient, toServer, encoder, fbReqCh,
                   chClosed, errCh, clientVars, disturbed, broadcasts>>

\* Close: done, the listener, and every connection of the map.
CloseServer ==
    /\ ~done
    /\ done' = TRUE
    /\ tcp' = [c \in Conn |-> tcp[c] /\ c \notin clients]
    /\ UNCHANGED <<rfbConfig, handlerVars, toClient, toServer, clientVars, disturbed, broadcasts>>

\* SendClipboard writes to every connection of the map, whatever its handler does.
SendClipboard ==
    /\ broadcasts < MaxBroadcasts
    /\ broadcasts' = broadcasts + 1
    /\ toClient' = [c \in Conn |-> IF c \in clients /\ tcp[c] THEN toClient[c] \o Only("cutText") ELSE toClient[c]]
    /\ disturbed' = [c \in Conn |-> disturbed[c] \/ (c \in clients /\ handler[c] # "serving")]
    /\ UNCHANGED <<rfbConfig, done, handlerVars, tcp, toServer, clientVars>>

-----------------------------------------------------------------------------
(* The client: rfb.Client, or performHandshake of the proxy. *)

Turn(c, at, msg, reply, next) ==
    /\ client[c] = at /\ tcp[c]
    /\ toClient[c] # <<>> /\ Head(toClient[c]).msg = msg
    /\ toClient' = [toClient EXCEPT ![c] = Tail(@)]
    /\ toServer' = [toServer EXCEPT ![c] = @ \o reply]
    /\ client' = [client EXCEPT ![c] = next]
    /\ UNCHANGED <<rfbConfig, done, handlerVars, tcp, disturbed, broadcasts>>

\* chooseSecurityType.
ChooseSecurityType(c) ==
    CASE passwordOf[c] # "none" /\ "vncAuth" \in Offered -> "vncAuth"
      [] (passwordOf[c] = "none" \/ "vncAuth" \notin Offered) /\ "none" \in Offered -> "none"
      [] OTHER -> offered[1]

Chosen(c) == IF passwordOf[c] = "foreign" THEN "other" ELSE ChooseSecurityType(c)

\* performVNCAuth: the challenge, encrypted with the client's password.
PerformVNCAuth(c) ==
    Turn(c, "challenge", "challenge", <<[msg |-> "response", arg |-> passwordOf[c]]>>, "result")

\* Client.handshake and performHandshake of the proxy.
ClientHandshake(c) ==
    \/ Turn(c, "version", "version", Only("version"), "types") /\ UNCHANGED <<choice, sent>>
    \/ /\ Turn(c, "types", "types", <<[msg |-> "choice", arg |-> Chosen(c)]>>,
               IF Chosen(c) = "none" THEN "result" ELSE "challenge")
       /\ choice' = [choice EXCEPT ![c] = Chosen(c)]
       /\ UNCHANGED sent
    \/ PerformVNCAuth(c) /\ UNCHANGED <<choice, sent>>
    \/ Turn(c, "result", "ok", Only("clientInit"), "serverInit") /\ UNCHANGED <<choice, sent>>
    \/ Turn(c, "result", "refused", <<>>, "closing") /\ UNCHANGED <<choice, sent>>
    \/ Turn(c, "serverInit", "serverInit", Only("event"), "ready") /\ UNCHANGED <<choice, sent>>

\* The messages a client in its handshake waits for.
Awaited == [version |-> {"version"}, types |-> {"types"}, challenge |-> {"challenge"},
            result |-> {"ok", "refused"}, serverInit |-> {"serverInit"}]

\* Any other message is read in place of the awaited one, taken for it, and fails.
ClientConfused(c) ==
    /\ client[c] \in DOMAIN Awaited
    /\ toClient[c] # <<>> /\ Head(toClient[c]).msg \notin Awaited[client[c]]
    /\ Turn(c, client[c], Head(toClient[c]).msg, <<>>, "confused")
    /\ UNCHANGED <<choice, sent>>

ClientReads(c) ==
    /\ \/ Turn(c, "ready", "update", <<>>, "ready")
       \/ Turn(c, "ready", "cutText", <<>>, "ready")
    /\ UNCHANGED <<choice, sent>>

ClientSends(c) ==
    /\ client[c] = "ready" /\ tcp[c] /\ sent[c] < MaxMessages
    /\ sent' = [sent EXCEPT ![c] = @ + 1]
    /\ \E m \in {"request", "event", "unknown"} : toServer' = [toServer EXCEPT ![c] = @ \o Only(m)]
    /\ UNCHANGED <<rfbConfig, done, handlerVars, tcp, toClient, client, choice, disturbed, broadcasts>>

\* The client, or the network, closes the connection: at any time, and after a
\* failed handshake for certain.
ClientCloses(c) ==
    /\ tcp[c]
    /\ tcp' = [tcp EXCEPT ![c] = FALSE]
    /\ client' = [client EXCEPT ![c] = "gone"]
    /\ UNCHANGED <<rfbConfig, done, handlerVars, toClient, toServer, choice, sent, disturbed, broadcasts>>

-----------------------------------------------------------------------------

\* The server takes steps until one of its goroutines panics.
Running == \A c \in Conn : writer[c] # "panicked"

HandlerStep(c) ==
    /\ Running
    /\ \/ AddClient(c) \/ SendVersion(c) \/ ReadVersion(c) \/ ReadChoice(c) \/ ReadResponse(c)
       \/ ReadClientInit(c) \/ ServeMessage(c) \/ HandlerFails(c) \/ Leave(c)
WriterStep(c) == Running /\ (WriterTakes(c) \/ WriterAnswers(c) \/ WriterPanics(c))
ClientStep(c) ==
    \/ ClientHandshake(c) \/ ClientConfused(c)
    \/ client[c] \in {"closing", "confused"} /\ ClientCloses(c)

RfbNext ==
    \/ Running /\ (CloseServer \/ SendClipboard)
    \/ \E c \in Conn :
          \/ Running /\ Accept(c)
          \/ HandlerStep(c) \/ WriterStep(c)
          \/ ClientStep(c) \/ ClientReads(c) \/ ClientSends(c) \/ ClientCloses(c)

\* Goroutines run, and a client goes on with its handshake and closes a connection
\* whose handshake failed.
RfbSpec ==
    /\ RfbInit /\ [][RfbNext]_rfbVars
    /\ \A c \in Conn : WF_rfbVars(HandlerStep(c)) /\ WF_rfbVars(WriterStep(c)) /\ WF_rfbVars(ClientStep(c))

-----------------------------------------------------------------------------

RfbTypeOK ==
    /\ clients \subseteq Conn
    /\ handler \in [Conn -> {"none", "accepted", "added", "version", "choice", "response",
                             "clientInit", "serving", "leaving", "left"}]
    /\ writer \in [Conn -> {"none", "idle", "busy", "failed", "ended", "panicked"}]
    /\ encoder \in [Conn -> {"none", "made", "reset"}]
    /\ fbReqCh \in [Conn -> 0..1] /\ errCh \in [Conn -> 0..1]
    /\ sent \in [Conn -> 0..MaxMessages]

\* Both ends come out of the handshake with the same view: a client that is ready is
\* served with the type it chose, which was offered, and has shown the right
\* password if that type asks for one.
HandshakeAgrees ==
    \A c \in Conn : client[c] = "ready" =>
        /\ secType[c] = choice[c] /\ choice[c] \in Offered
        /\ choice[c] = "vncAuth" => passwordOf[c] = "right"

\* The two ends keep in step through the handshake, whichever type is chosen and whatever
\* comes of the password: a client never reads something else than the message it waits
\* for, unless a broadcast of the clipboard reached the connection outside serveMessages.
OnlyBroadcastsDisturb ==
    \A c \in Conn : client[c] = "confused" => disturbed[c]

\* No handshake hangs: server and client never wait for each other, whichever types
\* are offered and whichever password the client has.  From some moment on every
\* connection that was accepted is being served or has been left.
HandshakeEnds ==
    <>[](\A c \in Conn : handler[c] \in {"none", "serving", "left"} \/ ~Running)

\* The writer goroutine of a connection that has been left ends, wherever it was:
\* no send on errCh and no receive on fbReqCh blocks for ever.
WriterEnds ==
    <>[](\A c \in Conn : handler[c] = "left" => writer[c] \in {"none", "failed", "ended"} \/ ~Running)

\* What the test of clients that disconnect expects of the server: it goes on
\* without a panic, whatever its goroutines were doing (handleConnection's cleanup).
DisconnectIsHarmless == Running

=============================================================================
