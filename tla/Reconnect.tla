------------------------------ MODULE Reconnect ------------------------------
(***************************************************************************)
(* Connecting and reconnecting in the browser: VncClient.connect,           *)
(* disconnect, attemptReconnect and performReconnect (web/src/index.ts) on  *)
(* top of VncConnection (web/src/connection.ts).                            *)
(*                                                                          *)
(* Every WebSocket has an index.  A socket that fails before SessionInit    *)
(* rejects the promise of connect, whose catch schedules a retry, and then  *)
(* dispatches its close event, which schedules another.  Timers are told    *)
(* apart only by whether reconnectTimer still refers to them.               *)
(***************************************************************************)
EXTENDS Naturals, FiniteSets

CONSTANTS
    MaxReconnectAttempts,    \* options.maxReconnectAttempts
    MaxLosses,      \* bound: how often a live connection is lost
    MaxFailures     \* bound: how often an attempt fails

ASSUME ReconnectAssumption ==
    /\ MaxReconnectAttempts \in Nat /\ MaxLosses \in Nat /\ MaxFailures \in Nat

VARIABLES
    reconnectOption,\* options.reconnect is not false
    socket,         \* [Socket -> state of the WebSocket]
    ws,             \* the socket of this.connection, 0: none
    armed,          \* reconnectTimer refers to a timer that has not fired
    leaked,         \* timers that have not fired and nothing refers to
    initing,        \* attempts that wait for the decoders to be initialised
    reconnectAttempt,
    intentionalDisconnect,
    connected,      \* _connected
    rafRunning,     \* rafId is not null
    gaveUp,         \* reconnect_failed was emitted since the last success
    losses, failedAttempts

reconnectVars == <<reconnectOption, socket, ws, armed, leaked, initing, reconnectAttempt,
                   intentionalDisconnect, connected, rafRunning, gaveUp, losses, failedAttempts>>

\* One socket per connection that was ever opened; a failed attempt can be
\* followed by two.
Socket == 1..(1 + MaxLosses + 2 * MaxFailures)
Unused == {c \in Socket : socket[c] = "none"}
Alive == {c \in Socket : socket[c] \in {"connecting", "live"}}

ReconnectInit ==
    /\ reconnectOption \in BOOLEAN
    /\ socket = [c \in Socket |-> IF c = 1 THEN "connecting" ELSE "none"]
    /\ ws = 1
    /\ armed = FALSE /\ leaked = 0 /\ initing = 0
    /\ reconnectAttempt = 0
    /\ intentionalDisconnect = FALSE
    /\ connected = FALSE /\ rafRunning = FALSE /\ gaveUp = FALSE
    /\ losses = 0 /\ failedAttempts = 0

Becomes(c, state) == socket' = [socket EXCEPT ![c] = state]

-----------------------------------------------------------------------------

\* Faulty variant: a timer that has been set is taken for one that is pending.
AttemptReconnectOnce ==
    IF intentionalDisconnect \/ ~reconnectOption \/ armed \/ reconnectAttempt > 0
    THEN UNCHANGED <<armed, leaked, reconnectAttempt, gaveUp>>
    ELSE /\ reconnectAttempt' = reconnectAttempt + 1
         /\ armed' = TRUE
         /\ UNCHANGED <<leaked, gaveUp>>

\* Faulty variant: a deliberate disconnect is retried like any other.
AttemptReconnectAlways ==
    IF ~reconnectOption
    THEN UNCHANGED <<armed, leaked, reconnectAttempt, gaveUp>>
    ELSE IF reconnectAttempt >= MaxReconnectAttempts
    THEN gaveUp' = TRUE /\ UNCHANGED <<armed, leaked, reconnectAttempt>>
    ELSE /\ reconnectAttempt' = reconnectAttempt + 1
         /\ leaked' = IF armed THEN leaked + 1 ELSE leaked
         /\ armed' = TRUE
         /\ UNCHANGED gaveUp

\* attemptReconnect: the previous timer, if it is still pending, is forgotten.
AttemptReconnect ==
    IF intentionalDisconnect \/ ~reconnectOption
    THEN UNCHANGED <<armed, leaked, reconnectAttempt, gaveUp>>
    ELSE IF reconnectAttempt >= MaxReconnectAttempts
    THEN gaveUp' = TRUE /\ UNCHANGED <<armed, leaked, reconnectAttempt>>
    ELSE /\ reconnectAttempt' = reconnectAttempt + 1
         /\ leaked' = IF armed THEN leaked + 1 ELSE leaked
         /\ armed' = TRUE
         /\ UNCHANGED gaveUp

\* The timer's callback up to the await in performReconnect: a fresh
\* VncConnection, which has no socket yet.
TimerFires ==
    /\ \/ armed /\ armed' = FALSE /\ UNCHANGED leaked
       \/ leaked > 0 /\ leaked' = leaked - 1 /\ UNCHANGED armed
    /\ ws' = 0
    /\ initing' = initing + 1
    /\ UNCHANGED <<reconnectOption, socket, reconnectAttempt, intentionalDisconnect, connected,
                   rafRunning, gaveUp, losses, failedAttempts>>

\* The decoders are initialised: VncConnection.connect opens a WebSocket of
\* whatever this.connection is by now.
OpenSocket(c) ==
    /\ initing > 0
    /\ Unused # {} /\ \A d \in Unused : c <= d
    /\ socket[c] = "none"
    /\ initing' = initing - 1
    /\ Becomes(c, "connecting")
    /\ ws' = c
    /\ UNCHANGED <<reconnectOption, armed, leaked, reconnectAttempt, intentionalDisconnect,
                   connected,
                   rafRunning, gaveUp, losses, failedAttempts>>

\* SessionInit resolves connect: the rest of connect or of performReconnect, and
\* reconnectAttempt is reset after the latter.
SessionInit(c) ==
    /\ socket[c] = "connecting"
    /\ Becomes(c, "live")
    /\ connected' = TRUE
    /\ rafRunning' = TRUE
    /\ gaveUp' = FALSE
    /\ reconnectAttempt' = IF c = 1 THEN reconnectAttempt ELSE 0
    /\ UNCHANGED <<reconnectOption, ws, armed, leaked, initing, intentionalDisconnect, losses,
                   failedAttempts>>

\* onerror before SessionInit: the promise is rejected.  The first one is the
\* caller's; the others are caught and retried.
AttemptFails(c) ==
    /\ socket[c] = "connecting"
    /\ failedAttempts < MaxFailures
    /\ failedAttempts' = failedAttempts + 1
    /\ Becomes(c, "failed")
    /\ IF c = 1 THEN UNCHANGED <<armed, leaked, reconnectAttempt, gaveUp>> ELSE AttemptReconnect
    /\ UNCHANGED <<reconnectOption, ws, initing, intentionalDisconnect, connected, rafRunning,
                   losses>>

\* Faulty variant: a retry is scheduled at once, and again by the close event.
LoseConnectionRetries(c) ==
    /\ socket[c] = "live"
    /\ losses < MaxLosses
    /\ losses' = losses + 1
    /\ Becomes(c, "failed")
    /\ AttemptReconnect
    /\ UNCHANGED <<reconnectOption, ws, initing, intentionalDisconnect, connected, rafRunning,
                   failedAttempts>>

\* A live connection ends: the close event of the socket is under way.
LoseConnection(c) ==
    /\ socket[c] = "live"
    /\ losses < MaxLosses
    /\ losses' = losses + 1
    /\ Becomes(c, "failed")
    /\ UNCHANGED <<reconnectOption, ws, armed, leaked, initing, reconnectAttempt,
                   intentionalDisconnect,
                   connected, rafRunning, gaveUp, failedAttempts>>

\* onclose: handleMessage gets type -1, whichever connection the socket is of.
OnClose(c) ==
    /\ socket[c] \in {"failed", "closing"}
    /\ Becomes(c, "closed")
    /\ connected' = FALSE
    /\ rafRunning' = FALSE
    /\ AttemptReconnect
    /\ UNCHANGED <<reconnectOption, ws, initing, intentionalDisconnect, losses, failedAttempts>>

\* disconnect, with cancelReconnect.
Disconnect ==
    /\ ~intentionalDisconnect
    /\ intentionalDisconnect' = TRUE
    /\ armed' = FALSE
    /\ reconnectAttempt' = 0
    /\ rafRunning' = FALSE
    /\ connected' = FALSE
    /\ socket' = [c \in Socket |-> IF c = ws /\ c \in Alive THEN "closing" ELSE socket[c]]
    /\ ws' = 0
    /\ UNCHANGED <<reconnectOption, leaked, initing, gaveUp, losses, failedAttempts>>

-----------------------------------------------------------------------------

\* What the browser does on its own: timers fire, decoders are initialised, and a
\* WebSocket that has failed or was closed dispatches its close event.
ReconnectStep ==
    \/ TimerFires
    \/ \E c \in Socket : OpenSocket(c) \/ OnClose(c)

\* What is up to the network and the proxy: no timeout of the client ends an attempt.
NetworkAnswers == \E c \in Socket : SessionInit(c) \/ AttemptFails(c)

ReconnectNext ==
    \/ ReconnectStep
    \/ NetworkAnswers
    \/ Disconnect
    \/ \E c \in Socket : LoseConnection(c)

ReconnectSpec == ReconnectInit /\ [][ReconnectNext]_reconnectVars /\ WF_reconnectVars(ReconnectStep)

-----------------------------------------------------------------------------

ReconnectTypeOK ==
    /\ socket \in [Socket -> {"none", "connecting", "live", "failed", "closing", "closed"}]
    /\ ws \in Socket \cup {0}
    /\ leaked \in 0..Cardinality(Socket)
    /\ initing \in 0..Cardinality(Socket)
    /\ reconnectAttempt \in 0..MaxReconnectAttempts
    /\ {armed, intentionalDisconnect, connected, rafRunning, gaveUp} \subseteq BOOLEAN
    /\ losses \in 0..MaxLosses /\ failedAttempts \in 0..MaxFailures

\* Until an attempt fails, connection and retries follow each other: at no time is
\* there more than one socket that is connecting or live, timer or attempt under
\* way.  (A failed attempt schedules a retry from its catch and from its close
\* event, so this does not hold after one.)
OneConnectionUntilAFailure ==
    failedAttempts = 0 =>
        Cardinality(Alive) + Cardinality({c \in Socket : socket[c] = "failed"})
            + leaked + initing + (IF armed THEN 1 ELSE 0) <= 1

\* What may still become a connection: timers, attempts that wait for their
\* decoders, and sockets that are connecting.
StillToConnect ==
    leaked + (IF armed THEN 1 ELSE 0) + initing
        + Cardinality({c \in Socket : socket[c] = "connecting"})

\* disconnect cannot stop an attempt that is under way, but it adds none, and
\* after it nothing does: no close event, no failure and no timer that was lost
\* sight of makes the client try once more (disconnect, attemptReconnect).
DisconnectStartsNothing ==
    [][intentionalDisconnect' => StillToConnect' <= StillToConnect]_reconnectVars

\* There is nothing left for the client to do of itself.
ConnectedOrWaiting ==
    \/ connected \/ gaveUp \/ intentionalDisconnect \/ ~reconnectOption
    \/ \E c \in Socket : socket[c] = "connecting"

\* No retry is lost: when connections are lost and attempts fail no more, the client is
\* connected, has told its user that it gave up, was disconnected on purpose or told not
\* to reconnect, or waits for a WebSocket whose handshake with the proxy neither succeeds
\* nor fails (connect has no timeout), whichever timers and close events overlapped.
ReconnectsOrGivesUp == <>[]ConnectedOrWaiting

=============================================================================
