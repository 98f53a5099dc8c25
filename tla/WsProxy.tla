------------------------------ MODULE WsProxy ------------------------------
(***************************************************************************)
(* The WebSocket-to-VNC proxy (wsproxy/): every HTTP request to /ws runs    *)
(* handleWebSocket in its own goroutine, which passes the admission checks, *)
(* takes a slot of the ConnectionManager, dials the VNC server, performs    *)
(* the RFB handshake and then relays both directions with two goroutines    *)
(* until the session ends.  Shutdown runs concurrently with all of them.    *)
(*                                                                          *)
(* A request r is one handler goroutine; its session, WebSocket and TCP     *)
(* connection have the same name.  The steps of a handler are split where   *)
(* the code releases a lock or blocks on the network.                       *)
(***************************************************************************)
EXTENDS Integers, FiniteSets

CONSTANTS
    Request,          \* the HTTP requests to /ws of one behaviour
    Target,           \* VNC targets a request may name
    IP,               \* client addresses
    AllowedTargets,   \* config.AllowedVNCTargets; empty allows every target
    MaxConnections,   \* config.MaxConnections
    MaxPerTarget      \* config.MaxConnectionsPerTarget

ASSUME RequestAssumption == IsFiniteSet(Request)
ASSUME TargetAssumption == AllowedTargets \subseteq Target
ASSUME LimitAssumption ==
    /\ MaxConnections \in Nat \ {0}
    /\ MaxPerTarget \in Nat \ {0}

VARIABLES
    pc,            \* [Request -> where the handler is]
    ip, target,    \* what the request carries: fixed for a behaviour
    ws,            \* [Request -> the proxy's end of the WebSocket]
    tcp,           \* [Request -> the connection to the VNC server]
    down, up,      \* [Request -> the two relay goroutines]
    sessions,      \* ConnectionManager.sessions
    targetCounts,  \* ConnectionManager.targetCounts; an absent key reads 0
    suspects,      \* the addresses with failures on record, and the ones
    locked,        \* IsAllowed refuses: the RateLimiter as AuthLock describes it
    shutdown,      \* where Shutdown is
    closing        \* what is left of the snapshot Shutdown took with All()

handlerVars  == <<pc, ip, target, ws, tcp, down, up>>
managerVars  == <<sessions, targetCounts>>
shutdownVars == <<shutdown, closing>>
limiterVars  == <<suspects, locked>>
vars == <<handlerVars, managerVars, limiterVars, shutdownVars>>

\* RateLimitConfig does not order the lockouts, so nothing is assumed of them.
RateLimit == INSTANCE AuthLock WITH Escalating <- FALSE

\* Server.draining: the first thing Shutdown sets, and never reset.
isDraining == shutdown # "idle"

PC == {"idle", "drainOK", "allowed", "upgraded", "dial", "handshake",
       "init", "relay", "cleanup", "done"}

\* The handler is between TryAdd and Remove.
InSession == {"dial", "handshake", "init", "relay", "cleanup"}

Init ==
    /\ pc = [r \in Request |-> "idle"]
    /\ ip \in [Request -> IP]
    /\ target \in [Request -> Target]
    /\ ws = [r \in Request |-> "none"]
    /\ tcp = [r \in Request |-> "none"]
    /\ down = [r \in Request |-> "none"]
    /\ up = [r \in Request |-> "none"]
    /\ sessions = {}
    /\ targetCounts = [t \in Target |-> 0]
    /\ RateLimit!Init
    /\ shutdown = "idle"
    /\ closing = {}

-----------------------------------------------------------------------------
(* Admission: handleWebSocket up to TryAdd. *)

\* The listener hands a request to a new handler goroutine, whose first step
\* is the isDraining check; httpSrv.Shutdown has closed the listener once
\* Shutdown has reached it.
Arrive(r) ==
    /\ pc[r] = "idle"
    /\ shutdown \notin {"http", "done"}
    /\ pc' = [pc EXCEPT ![r] = IF isDraining THEN "done" ELSE "drainOK"]
    /\ UNCHANGED <<ip, target, ws, tcp, down, up, managerVars, limiterVars, shutdownVars>>

CheckRate(r) ==
    /\ pc[r] = "drainOK"
    /\ pc' = [pc EXCEPT ![r] = IF ip[r] \in locked THEN "done" ELSE "allowed"]
    /\ UNCHANGED <<ip, target, ws, tcp, down, up, managerVars, limiterVars, shutdownVars>>

\* A bad origin, a malformed target or a failed upgrade ends the handler with
\* an HTTP error; so does a target that is not on a non-empty allowlist.
Upgrade(r) ==
    /\ pc[r] = "allowed"
    /\ \/ /\ pc' = [pc EXCEPT ![r] = "done"]
          /\ UNCHANGED ws
       \/ /\ AllowedTargets = {} \/ target[r] \in AllowedTargets
          /\ pc' = [pc EXCEPT ![r] = "upgraded"]
          /\ ws' = [ws EXCEPT ![r] = "open"]
    /\ UNCHANGED <<ip, target, tcp, down, up, managerVars, limiterVars, shutdownVars>>

\* Faulty variant: only the total is limited.
AtLimitTotalOnly(r) == Cardinality(sessions) >= MaxConnections

AtLimit(r) ==
    \/ Cardinality(sessions) >= MaxConnections
    \/ targetCounts[target[r]] >= MaxPerTarget

TryAdd(r) ==
    /\ pc[r] = "upgraded"
    /\ \/ /\ AtLimit(r)
          /\ pc' = [pc EXCEPT ![r] = "done"]
          /\ ws' = [ws EXCEPT ![r] = "closed"]
          /\ UNCHANGED managerVars
       \/ /\ ~AtLimit(r)
          /\ sessions' = sessions \union {r}
          /\ targetCounts' = [targetCounts EXCEPT ![target[r]] = @ + 1]
          /\ pc' = [pc EXCEPT ![r] = "dial"]
          /\ UNCHANGED ws
    /\ UNCHANGED <<ip, target, tcp, down, up, limiterVars, shutdownVars>>

-----------------------------------------------------------------------------
(* Proxy.Run: dial, handshake, SessionInit. *)

Dial(r) ==
    /\ pc[r] = "dial"
    /\ \/ /\ pc' = [pc EXCEPT ![r] = "handshake"]
          /\ tcp' = [tcp EXCEPT ![r] = "open"]
          /\ UNCHANGED ws
       \/ /\ pc' = [pc EXCEPT ![r] = "cleanup"]
          /\ ws' = [ws EXCEPT ![r] = "closed"]
          /\ UNCHANGED tcp
    /\ UNCHANGED <<ip, target, down, up, managerVars, limiterVars, shutdownVars>>

\* The VNC server lets the handshake through.  Nothing here sets a deadline,
\* so the server may also leave the handler in this state for ever.
HandshakeOk(r) ==
    /\ pc[r] = "handshake"
    /\ tcp[r] = "open"
    /\ RateLimit!ClearFailures(ip[r])
    /\ pc' = [pc EXCEPT ![r] = "init"]
    /\ UNCHANGED <<ip, target, ws, tcp, down, up, managerVars, shutdownVars>>

\* Every handshake error, a lost connection included, counts as a failed
\* attempt.  Run's deferred Close runs as it returns.
HandshakeFail(r) ==
    /\ pc[r] = "handshake"
    /\ RateLimit!RecordFailure(ip[r])
    /\ ws' = [ws EXCEPT ![r] = "closed"]
    /\ tcp' = [tcp EXCEPT ![r] = "closed"]
    /\ pc' = [pc EXCEPT ![r] = "cleanup"]
    /\ UNCHANGED <<ip, target, down, up, managerVars, shutdownVars>>

\* Faulty variant: Run does not defer tcpConn.Close().
SendSessionInitLeaks(r) ==
    /\ pc[r] = "init"
    /\ ws[r] = "closed"
    /\ pc' = [pc EXCEPT ![r] = "cleanup"]
    /\ UNCHANGED <<ip, target, ws, tcp, down, up, managerVars, limiterVars, shutdownVars>>

\* A failed write ends the session; the deferred Close ends the TCP side.
SendSessionInit(r) ==
    /\ pc[r] = "init"
    /\ \/ /\ ws[r] = "open"
          /\ pc' = [pc EXCEPT ![r] = "relay"]
          /\ down' = [down EXCEPT ![r] = "read"]
          /\ up' = [up EXCEPT ![r] = "read"]
          /\ UNCHANGED <<ws, tcp>>
       \/ /\ ws[r] = "closed"
          /\ pc' = [pc EXCEPT ![r] = "cleanup"]
          /\ tcp' = [tcp EXCEPT ![r] = "closed"]
          /\ UNCHANGED <<ws, down, up>>
    /\ UNCHANGED <<ip, target, managerVars, limiterVars, shutdownVars>>

-----------------------------------------------------------------------------
(* The relay goroutines.  "read" and "write" name the call they block in. *)

\* Faulty variant: the goroutines do not defer cancel().
CancelledNever(r) == FALSE

\* Each relay goroutine defers cancel(), so the context the two share is
\* cancelled exactly when one of them has returned.
Cancelled(r) == down[r] = "done" \/ up[r] = "done"

\* relayVNCToBrowser, in ReadMessage: a message of the VNC server.  A cancelled
\* context does not interrupt this read.
VncSpeaks(r) ==
    /\ down[r] = "read"
    /\ tcp[r] = "open"
    /\ down' = [down EXCEPT ![r] = "write"]
    /\ UNCHANGED <<pc, ip, target, ws, tcp, up, managerVars, limiterVars, shutdownVars>>

\* The end of the connection, or a message rfbReader cannot frame.
DownReadFails(r) ==
    /\ down[r] = "read"
    /\ tcp[r] \in {"open", "eof"}
    /\ down' = [down EXCEPT ![r] = "done"]
    /\ UNCHANGED <<pc, ip, target, ws, tcp, up, managerVars, limiterVars, shutdownVars>>

\* Faulty variant: a failed write to the browser is skipped, not fatal.
DownWriteRetries(r) ==
    /\ down[r] = "write"
    /\ down' = [down EXCEPT ![r] = "read"]
    /\ UNCHANGED <<pc, ip, target, ws, tcp, up, managerVars, limiterVars, shutdownVars>>

\* relayVNCToBrowser, in WSConn.Write: the browser takes the message, or the
\* write fails.  The websocket library closes a connection whose call's
\* context ends, unless the call still completes first.
DownWrite(r) ==
    /\ down[r] = "write"
    /\ \/ /\ ws[r] = "open"
          /\ down' = [down EXCEPT ![r] = "read"]
          /\ UNCHANGED ws
       \/ /\ ws[r] = "closed" \/ Cancelled(r)
          /\ down' = [down EXCEPT ![r] = "done"]
          /\ ws' = [ws EXCEPT ![r] = "closed"]
    /\ UNCHANGED <<pc, ip, target, tcp, up, managerVars, limiterVars, shutdownVars>>

\* relayBrowserToVNC, in WSConn.Read: a message to relay (the ones the proxy
\* handles itself leave this state alone), or an error.
BrowserSpeaks(r) ==
    /\ up[r] = "read"
    /\ ws[r] = "open"
    /\ up' = [up EXCEPT ![r] = "write"]
    /\ UNCHANGED <<pc, ip, target, ws, tcp, down, managerVars, limiterVars, shutdownVars>>

UpReadFails(r) ==
    /\ up[r] = "read"
    /\ ws[r] = "closed" \/ Cancelled(r)
    /\ up' = [up EXCEPT ![r] = "done"]
    /\ ws' = [ws EXCEPT ![r] = "closed"]
    /\ UNCHANGED <<pc, ip, target, tcp, down, managerVars, limiterVars, shutdownVars>>

\* relayBrowserToVNC, in TCPConn.Write.  A write on a connection whose peer
\* has gone may still be accepted by the kernel.
UpWriteOk(r) ==
    /\ up[r] = "write"
    /\ tcp[r] \in {"open", "eof"}
    /\ up' = [up EXCEPT ![r] = "read"]
    /\ UNCHANGED <<pc, ip, target, ws, tcp, down, managerVars, limiterVars, shutdownVars>>

UpWriteFails(r) ==
    /\ up[r] = "write"
    /\ tcp[r] = "eof"
    /\ up' = [up EXCEPT ![r] = "done"]
    /\ UNCHANGED <<pc, ip, target, ws, tcp, down, managerVars, limiterVars, shutdownVars>>

\* wg.Wait returns and with it Run, whose deferred Close ends the TCP side.
RunReturns(r) ==
    /\ pc[r] = "relay"
    /\ down[r] = "done" /\ up[r] = "done"
    /\ tcp' = [tcp EXCEPT ![r] = "closed"]
    /\ pc' = [pc EXCEPT ![r] = "cleanup"]
    /\ UNCHANGED <<ip, target, ws, down, up, managerVars, limiterVars, shutdownVars>>

\* Faulty variant: the session is forgotten, its target's count is not.
RemoveKeepsCount(r) ==
    /\ sessions' = sessions \ {r}
    /\ UNCHANGED targetCounts

\* ConnectionManager.Remove: a key whose count reaches zero is deleted.
Remove(r) ==
    IF r \in sessions
    THEN /\ sessions' = sessions \ {r}
         /\ targetCounts' = [targetCounts EXCEPT ![target[r]] = IF @ > 1 THEN @ - 1 ELSE 0]
    ELSE UNCHANGED managerVars

Cleanup(r) ==
    /\ pc[r] = "cleanup"
    /\ Remove(r)
    /\ pc' = [pc EXCEPT ![r] = "done"]
    /\ UNCHANGED <<ip, target, ws, tcp, down, up, limiterVars, shutdownVars>>

-----------------------------------------------------------------------------
(* The peers, and time. *)

BrowserCloses(r) ==
    /\ ws[r] = "open"
    /\ ws' = [ws EXCEPT ![r] = "closed"]
    /\ UNCHANGED <<pc, ip, target, tcp, down, up, managerVars, limiterVars, shutdownVars>>

VncCloses(r) ==
    /\ tcp[r] = "open"
    /\ tcp' = [tcp EXCEPT ![r] = "eof"]
    /\ UNCHANGED <<pc, ip, target, ws, down, up, managerVars, limiterVars, shutdownVars>>

\* Lockouts end, and failures leave the window and the map.
TimePasses ==
    /\ RateLimit!TimePasses
    /\ UNCHANGED <<handlerVars, managerVars, shutdownVars>>

-----------------------------------------------------------------------------
(* Server.Shutdown, which shutdownOnce runs at most once. *)

ShutdownBegins ==
    /\ shutdown = "idle"
    /\ shutdown' = "draining"
    /\ UNCHANGED <<handlerVars, managerVars, limiterVars, closing>>

\* connMgr.All(): the sessions of this moment.
ShutdownSnapshot ==
    /\ shutdown = "draining"
    /\ closing' = sessions
    /\ shutdown' = "closing"
    /\ UNCHANGED <<handlerVars, managerVars, limiterVars>>

\* One iteration of the loop over the snapshot: WSConn.Close ends the
\* WebSocket, with or without the peer's answer.
ShutdownCloses(r) ==
    /\ shutdown = "closing"
    /\ r \in closing
    /\ closing' = closing \ {r}
    /\ ws' = [ws EXCEPT ![r] = "closed"]
    /\ UNCHANGED <<pc, ip, target, tcp, down, up, managerVars, limiterVars, shutdown>>

\* Faulty variant: waiting for the sessions themselves, without a timeout.
ShutdownWaits ==
    /\ shutdown = "closing"
    /\ closing = {}
    /\ sessions = {}
    /\ shutdown' = "http"
    /\ UNCHANGED <<handlerVars, managerVars, limiterVars, closing>>

\* httpSrv.Shutdown closes the listener, waits for requests that have not been
\* upgraded, at most for the timeout, and knows nothing of upgraded ones.
ShutdownHttp ==
    /\ shutdown = "closing"
    /\ closing = {}
    /\ shutdown' = "http"
    /\ UNCHANGED <<handlerVars, managerVars, limiterVars, closing>>

ShutdownReturns ==
    /\ shutdown = "http"
    /\ shutdown' = "done"
    /\ UNCHANGED <<handlerVars, managerVars, limiterVars, closing>>

-----------------------------------------------------------------------------
Handler(r) ==
    \/ CheckRate(r) \/ Upgrade(r) \/ TryAdd(r) \/ Dial(r)
    \/ SendSessionInit(r)
    \/ (HandshakeFail(r) /\ tcp[r] = "eof")
    \/ RunReturns(r) \/ Cleanup(r)

Shutdown ==
    \/ ShutdownSnapshot \/ ShutdownHttp \/ ShutdownReturns
    \/ \E r \in Request : ShutdownCloses(r)

Next ==
    \/ \E r \in Request :
          \/ Arrive(r) \/ CheckRate(r) \/ Upgrade(r) \/ TryAdd(r)
          \/ Dial(r) \/ HandshakeOk(r) \/ HandshakeFail(r) \/ SendSessionInit(r)
          \/ VncSpeaks(r) \/ DownReadFails(r) \/ DownWrite(r)
          \/ BrowserSpeaks(r) \/ UpReadFails(r) \/ UpWriteOk(r) \/ UpWriteFails(r)
          \/ RunReturns(r) \/ Cleanup(r)
          \/ BrowserCloses(r) \/ VncCloses(r) \/ ShutdownCloses(r)
    \/ TimePasses
    \/ ShutdownBegins \/ ShutdownSnapshot \/ ShutdownHttp \/ ShutdownReturns

Spec == Init /\ [][Next]_vars

\* The Go scheduler runs every goroutine that can run: the handler's own
\* steps, a failed read or write, and Shutdown once it was called.  A browser
\* that keeps its connection open reads what it is sent (DownWrite), and Read
\* does not prefer messages to a cancelled context for ever (UpReadFails: its
\* select chooses at random).  Nothing is assumed of the VNC server: it need
\* not answer, speak or close.
Fairness ==
    /\ \A r \in Request :
          /\ WF_vars(Handler(r))
          /\ WF_vars(DownReadFails(r) /\ tcp[r] = "eof") /\ WF_vars(DownWrite(r))
          /\ SF_vars(UpReadFails(r)) /\ WF_vars(UpWriteFails(r))
    /\ WF_vars(Shutdown)

FairSpec == Spec /\ Fairness

-----------------------------------------------------------------------------
(* Properties. *)

\* The type of every variable; a target's count never passes the limit.
TypeOK ==
    /\ pc \in [Request -> PC]
    /\ ip \in [Request -> IP]
    /\ target \in [Request -> Target]
    /\ ws \in [Request -> {"none", "open", "closed"}]
    /\ tcp \in [Request -> {"none", "open", "eof", "closed"}]
    /\ down \in [Request -> {"none", "read", "write", "done"}]
    /\ up \in [Request -> {"none", "read", "write", "done"}]
    /\ sessions \subseteq Request
    /\ targetCounts \in [Target -> 0..MaxPerTarget]
    /\ locked \subseteq suspects /\ suspects \subseteq IP
    /\ shutdown \in {"idle", "draining", "closing", "http", "done"}
    /\ closing \subseteq Request

SessionsOf(t) == {r \in sessions : target[r] = t}

\* Whatever the interleaving of TryAdd, Remove and the failure paths of Run,
\* the two maps of the ConnectionManager agree: targetCounts holds for every
\* target the number of tracked sessions to it, so no slot leaks and none is
\* given back twice (TryAdd, Remove, handleWebSocket).
SessionAccounting ==
    \A t \in Target : targetCounts[t] = Cardinality(SessionsOf(t))

\* A TCP connection that the proxy has not closed yet.
VncConnections == {r \in Request : tcp[r] \in {"open", "eof"}}

\* What the limits are for: a VNC server never sees more than MaxPerTarget
\* connections of this proxy, nor all servers together more than
\* MaxConnections, even while sessions end and Remove has not run
\* (TryAdd, the deferred Close of Run, Remove).
VncServersAreNotOverloaded ==
    /\ Cardinality(VncConnections) <= MaxConnections
    /\ \A t \in Target :
          Cardinality({r \in VncConnections : target[r] = t}) <= MaxPerTarget

\* A session is a slot of the pool, and a handler that has returned is done with it.
Ended == {r \in Request : pc[r] = "done"}
Pool == INSTANCE SessionPool WITH wants <- target, held <- sessions, conns <- VncConnections,
                                  spent <- Ended

\* Every step of the proxy is one of the pool or none at all: a slot is taken within
\* the limits, counted by the sessions there really are, the VNC server is dialled by
\* its holder only, and the slot comes back once, after the connection is closed
\* (TryAdd, Run and its deferred Close, Remove).
ImplementsSessionPool == Pool!Spec

\* When the VNC server's connection ends, the session gives its slot back,
\* wherever the handshake and the relay goroutines are at that moment
\* (performHandshake, relayVNCToBrowser, relayBrowserToVNC, the deferred cancel).
VncCloseEndsSession ==
    \A r \in Request : tcp[r] = "eof" ~> r \notin sessions

\* The three calls that block on the TCP connection, without a deadline and
\* without notice of the context: the reads of performHandshake, ReadMessage, and
\* the write of a message the VNC server does not take.
InHandshake(r) == pc[r] = "handshake" /\ tcp[r] = "open"
InReadMessage(r) == pc[r] = "relay" /\ down[r] = "read" /\ tcp[r] = "open"
InTcpWrite(r) == pc[r] = "relay" /\ up[r] = "write" /\ tcp[r] = "open"

\* When the browser has gone, or Shutdown has closed its WebSocket, the session
\* ends, or stays for ever in one and the same call on a TCP connection on which
\* the VNC server does nothing: one more message of it, its taking one, or the end of
\* the connection is enough (relayVNCToBrowser, relayBrowserToVNC,
\* the deferred cancel).
BrowserCloseEndsSession ==
    \A r \in Request :
        (r \in sessions /\ ws[r] = "closed")
            ~> \/ r \notin sessions
               \/ []InHandshake(r) \/ []InReadMessage(r) \/ []InTcpWrite(r)

\* Shutdown returns once called, whatever the sessions do: it waits for none
\* of them without a bound (Shutdown).
ShutdownCompletes == shutdown = "draining" ~> shutdown = "done"

\* The documented teardown of both sides: a handler that has ended leaves no
\* WebSocket open (Run and handleWebSocket have returned, nobody else
\* will ever close it).
NoOrphanWebSocket == \A r \in Request : pc[r] = "done" => ws[r] # "open"

\* The documented shutdown: once it has completed, every session that remains
\* has had its WebSocket closed (Shutdown, handleWebSocket).
ShutdownClosesEverySession ==
    shutdown = "done" => \A r \in sessions : ws[r] = "closed"
=============================================================================
