------------------------------- MODULE Portal -------------------------------
(***************************************************************************)
(* The set-up of a desktop portal session over D-Bus (portal.Session,       *)
(* internal/portal/portal.go): New makes up to four calls one after the     *)
(* other, each of which returns the path of a request whose Response comes  *)
(* as a signal, before or after the call has returned.  A goroutine hands   *)
(* the signals to the calls that wait, by path.                             *)
(*                                                                          *)
(* The bus and the portal, which are external, return from a method call    *)
(* late or never (the call has no timeout); the portal answers a request it *)
(* accepted once, at any time or never (the user decides), and may name it  *)
(* otherwise than New computed.                                             *)
(***************************************************************************)
EXTENDS Naturals, Sequences

VARIABLES
    capture, input,     \* SessionOpts
    samePath,           \* the portal names its requests as requestPath does
    call,               \* index of the call New is at
    at,                 \* "calling", "called", "accepted", "waiting", "ready" or "failed"
    resps,              \* the paths in the map resps
    channel,            \* [path -> what was put in its channel]
    closedFlag,         \* closed
    sessionHandle,      \* is it set
    requested,              \* calls the portal has accepted and not answered
    signals,            \* Response signals on their way to the listener
    granted,            \* calls the portal has answered with success
    desktopSession      \* "none", "open" or "closed": the session in the portal

portalVars == <<capture, input, samePath, call, at, resps, channel, closedFlag, sessionHandle,
                requested, signals, granted, desktopSession>>
portalOpts == <<capture, input, samePath>>

\* The calls of New, in order.
Calls ==
    <<"CreateSession">> \o (IF input THEN <<"SelectDevices">> ELSE <<>>)
    \o (IF capture THEN <<"SelectSources">> ELSE <<>>) \o <<"Start">>

Expected(k) == <<k, "expected">>
Actual(k) == IF samePath THEN Expected(k) ELSE <<k, "actual">>
Path == (1..4) \X {"expected", "actual"}

PortalInit ==
    /\ capture \in BOOLEAN /\ input \in BOOLEAN /\ (capture \/ input)
    /\ samePath \in BOOLEAN
    /\ call = 1 /\ at = "calling"
    /\ resps = {} /\ channel = [p \in Path |-> <<>>]
    /\ closedFlag = FALSE /\ sessionHandle = FALSE
    /\ requested = {} /\ signals = <<>> /\ granted = {}
    /\ desktopSession = "none"

-----------------------------------------------------------------------------
(* New and the calls it makes. *)

\* Close: once, and only a session whose handle is known.
Close ==
    /\ closedFlag' = TRUE
    /\ desktopSession' = IF ~closedFlag /\ sessionHandle /\ desktopSession = "open"
                         THEN "closed" ELSE desktopSession

\* Faulty variant: the error is returned without closing the session.
PortalFailsForgets ==
    /\ at' = "failed"
    /\ resps' = resps \ {Expected(call)}
    /\ UNCHANGED <<call, sessionHandle, closedFlag, desktopSession>>

\* A call failed: its cleanup, and New closes what there is.
PortalFails ==
    /\ at' = "failed"
    /\ resps' = resps \ {Expected(call)}
    /\ Close
    /\ UNCHANGED <<call, sessionHandle>>

\* Faulty variant: the path is registered when the call has returned.
PortalCallUnregistered ==
    /\ at = "calling"
    /\ at' = "called"
    /\ UNCHANGED <<portalOpts, call, resps, channel, closedFlag, sessionHandle, requested, signals, granted, desktopSession>>

\* portalCall: the expected path is registered before the method is called.
PortalCall ==
    /\ at = "calling"
    /\ at' = "called"
    /\ resps' = resps \cup {Expected(call)}
    /\ UNCHANGED <<portalOpts, call, channel, closedFlag, sessionHandle, requested, signals, granted, desktopSession>>

\* The call returns an error: the bus or the portal refused it.
CallRefused ==
    /\ at = "called"
    /\ PortalFails
    /\ UNCHANGED <<portalOpts, channel, requested, signals, granted>>

\* The call returns the path of the request: another one than expected is registered
\* in its stead, with a channel of its own.
CallReturns ==
    /\ at = "accepted"
    /\ at' = "waiting"
    /\ resps' = IF samePath THEN resps ELSE (resps \ {Expected(call)}) \cup {Actual(call)}
    /\ UNCHANGED <<portalOpts, call, channel, closedFlag, sessionHandle, requested, signals, granted, desktopSession>>

\* Faulty variant: the code of the response is not looked at.
ReceiveAnyCode ==
    /\ at = "waiting" /\ channel[Actual(call)] # <<>>
    /\ resps' = resps \ {Expected(call)}
    /\ at' = IF call = Len(Calls) THEN "ready" ELSE "calling"
    /\ call' = IF call = Len(Calls) THEN call ELSE call + 1
    /\ sessionHandle' = TRUE
    /\ UNCHANGED <<portalOpts, channel, closedFlag, requested, signals, granted, desktopSession>>

\* The response arrives: the next call, the end of New, or its failure.  The first
\* call sets the session handle.
Receive ==
    /\ at = "waiting" /\ channel[Actual(call)] # <<>>
    /\ \/ /\ channel[Actual(call)] = <<"ok">>
          /\ resps' = resps \ {Expected(call)}
          /\ at' = IF call = Len(Calls) THEN "ready" ELSE "calling"
          /\ call' = IF call = Len(Calls) THEN call ELSE call + 1
          /\ sessionHandle' = TRUE
          /\ UNCHANGED <<closedFlag, desktopSession>>
       \/ channel[Actual(call)] = <<"refused">> /\ PortalFails
    /\ UNCHANGED <<portalOpts, channel, requested, signals, granted>>

\* Faulty variant: a call whose request is still open waits for the user.
TimeoutPatient ==
    /\ at = "waiting" /\ channel[Actual(call)] = <<>> /\ call \notin requested
    /\ PortalFails
    /\ UNCHANGED <<portalOpts, channel, requested, signals, granted>>

\* time.After: 30 seconds, or StartTimeout, even if the response has just arrived.
Timeout ==
    /\ at = "waiting"
    /\ PortalFails
    /\ UNCHANGED <<portalOpts, channel, requested, signals, granted>>

\* The owner of a session closes it, twice perhaps.
OwnerCloses ==
    /\ at = "ready"
    /\ Close
    /\ UNCHANGED <<portalOpts, call, at, resps, channel, sessionHandle, requested, signals, granted>>

\* The listener: a signal whose path is registered goes to its channel, once.
Listen ==
    /\ signals # <<>>
    /\ signals' = Tail(signals)
    /\ LET s == Head(signals)  p == Actual(s.call)
       IN  /\ resps' = resps \ {p}
           /\ channel' = IF p \in resps THEN [channel EXCEPT ![p] = Append(@, s.code)] ELSE channel
    /\ UNCHANGED <<portalOpts, call, at, closedFlag, sessionHandle, requested, granted, desktopSession>>

-----------------------------------------------------------------------------
(* The portal. *)

\* It has the request, and may answer it before New knows that.
PortalAccepts ==
    /\ at = "called"
    /\ at' = "accepted"
    /\ requested' = requested \cup {call}
    /\ UNCHANGED <<portalOpts, call, resps, channel, closedFlag, sessionHandle, signals, granted, desktopSession>>

PortalAnswers(k) ==
    /\ k \in requested
    /\ requested' = requested \ {k}
    /\ \/ /\ signals' = Append(signals, [call |-> k, code |-> "ok"])
          /\ granted' = granted \cup {k}
          /\ desktopSession' = IF k = 1 THEN "open" ELSE desktopSession
       \/ /\ signals' = Append(signals, [call |-> k, code |-> "refused"])
          /\ UNCHANGED <<granted, desktopSession>>
    /\ UNCHANGED <<portalOpts, call, at, resps, channel, closedFlag, sessionHandle>>

-----------------------------------------------------------------------------

NewStep == PortalCall \/ Receive \/ Timeout
BusStep == PortalAccepts \/ CallRefused \/ CallReturns

PortalNext ==
    \/ NewStep \/ BusStep \/ Listen \/ OwnerCloses
    \/ \E k \in 1..4 : PortalAnswers(k)

\* Goroutines run and timers fire; neither the bus nor the user need answer.
PortalSpec ==
    PortalInit /\ [][PortalNext]_portalVars /\ WF_portalVars(NewStep) /\ WF_portalVars(Listen)

-----------------------------------------------------------------------------

PortalTypeOK ==
    /\ call \in 1..Len(Calls) /\ at \in {"calling", "called", "accepted", "waiting", "ready", "failed"}
    /\ resps \subseteq Path
    /\ \A p \in Path : Len(channel[p]) <= 1
    /\ requested \subseteq 1..4 /\ granted \subseteq 1..4
    /\ desktopSession \in {"none", "open", "closed"}

\* A session that New returns is one that the portal has granted step by step: every
\* call of these options was answered with success, and the session is open unless
\* its owner closed it.
ReadyMeansGranted ==
    at = "ready" => granted = 1..Len(Calls) /\ (closedFlag \/ desktopSession = "open")

\* An answer is never lost to the call that waits for it, however early it comes: it
\* is on its way or in the channel of the call.  (If the portal names the request
\* otherwise, an answer before the other path is registered is lost.)
AnswerReachesCall ==
    samePath /\ at = "waiting" /\ call \notin requested =>
        \/ channel[Actual(call)] # <<>>
        \/ \E k \in 1..Len(signals) : signals[k].call = call

\* New does not leave a session open in the portal when it fails, except one whose
\* CreateSession it gave up, which is answered too late.
NothingLeftOpen ==
    at = "failed" /\ desktopSession = "open" => call = 1

\* New has returned, or waits for the bus to return from a call.
ReturnedOrInCall == at \in {"ready", "failed"} \/ at \in {"called", "accepted"}

\* New returns, even if the user never answers, unless a method call of its own never
\* returns: obj.Call has no timeout, and New waits for it for ever.
NewReturns == <>[]ReturnedOrInCall

=============================================================================
