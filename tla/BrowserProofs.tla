---------------------------- MODULE BrowserProofs ----------------------------
(***************************************************************************)
(* Theorems about what the browser keeps in step with the other side: its   *)
(* connection and retries, its input and clipboard, its video decoder.      *)
(* They hold for any number of losses, events and frames, and for any       *)
(* number of frames the encoder holds back.                                 *)
(***************************************************************************)
EXTENDS Reconnect, InputPath, VideoPipeline, SequenceTheorems, FiniteSetTheorems, TLAPS

-----------------------------------------------------------------------------
(* Connecting and reconnecting. *)

SocketState == {"none", "connecting", "live", "failed", "closing", "closed"}

RetryTypes ==
    /\ socket \in [Socket -> SocketState]
    /\ armed \in BOOLEAN /\ intentionalDisconnect \in BOOLEAN
    /\ leaked \in Nat /\ initing \in Nat /\ failedAttempts \in Nat

\* Sockets that are or were connected, and whose end has not been noticed.
Busy == {c \in Socket : socket[c] \in {"connecting", "live", "failed"}}

\* Until an attempt fails, one of three things is under way: a socket, a timer or an
\* attempt that waits for its decoders.  A socket closes on purpose only, and then
\* no timer is set.
OneUnderWay ==
    failedAttempts = 0 =>
        /\ leaked = 0
        /\ \A c, d \in Busy : c = d
        /\ armed => Busy = {} /\ initing = 0
        /\ initing > 0 => initing = 1 /\ Busy = {}
        /\ \A c \in Socket : socket[c] = "closing" => intentionalDisconnect

RetryInv == RetryTypes /\ OneUnderWay

LEMMA InitRetry == ReconnectInit => RetryInv
<1>. SUFFICES ASSUME ReconnectInit PROVE RetryInv
  OBVIOUS
<1>1. RetryTypes
  BY DEF ReconnectInit, RetryTypes, SocketState
<1>2. \A c \in Socket : socket[c] = IF c = 1 THEN "connecting" ELSE "none"
  BY DEF ReconnectInit
<1>3. \A c, d \in Busy : c = d
  BY <1>2 DEF Busy
<1>. QED
  BY <1>1, <1>2, <1>3 DEF ReconnectInit, RetryInv, OneUnderWay

\* A retry sets the timer or leaves it alone, and may lose the one before.
LEMMA AttemptTypes ==
    ASSUME armed \in BOOLEAN, leaked \in Nat, AttemptReconnect \/ UNCHANGED <<armed, leaked>>
    PROVE  armed' \in BOOLEAN /\ leaked' \in Nat
<1>1. armed' = armed \/ armed' = TRUE
  BY Zenon DEF AttemptReconnect
<1>2. leaked' = leaked \/ leaked' = leaked + 1
  BY DEF AttemptReconnect
<1>3. armed' \in BOOLEAN
  BY <1>1, Zenon
<1>. QED
  BY <1>2, <1>3

LEMMA NextRetry == RetryInv /\ [ReconnectNext]_reconnectVars => RetryInv'
<1>. SUFFICES ASSUME RetryInv, [ReconnectNext]_reconnectVars PROVE RetryInv'
  OBVIOUS
<1>. USE DEF RetryInv, RetryTypes, SocketState
<1>1. CASE TimerFires
  <2>1. Busy' = Busy
    BY <1>1 DEF TimerFires, Busy
  <2>2. UNCHANGED <<socket, intentionalDisconnect, failedAttempts>> /\ initing' = initing + 1
    BY <1>1 DEF TimerFires
  <2>3. CASE armed /\ armed' = FALSE /\ UNCHANGED leaked
    <3>1. RetryTypes'
      <4>1. armed' \in BOOLEAN
        BY <2>3, Zenon
      <4>. QED
        BY <2>2, <2>3, <4>1
    <3>2. failedAttempts = 0 => leaked = 0 /\ Busy = {} /\ initing = 0
      BY <2>3 DEF OneUnderWay
    <3>. QED
      BY <2>1, <2>2, <2>3, <3>1, <3>2 DEF OneUnderWay
  <2>4. CASE leaked > 0 /\ leaked' = leaked - 1 /\ UNCHANGED armed
    <3>1. RetryTypes'
      BY <2>2, <2>4
    <3>2. failedAttempts # 0
      BY <2>4 DEF OneUnderWay
    <3>. QED
      BY <2>2, <3>1, <3>2 DEF OneUnderWay
  <2>. QED
    BY <1>1, <2>3, <2>4 DEF TimerFires
<1>2. ASSUME NEW c \in Socket, OpenSocket(c) PROVE RetryInv'
  <2>1. RetryTypes'
    BY <1>2 DEF OpenSocket, Becomes
  <2>2. \A d \in Socket : socket'[d] = IF d = c THEN "connecting" ELSE socket[d]
    BY <1>2 DEF OpenSocket, Becomes
  <2>3. Busy = {} => \A d, e \in Busy' : d = e
    BY <2>2 DEF Busy
  <2>. QED
    BY <1>2, <2>1, <2>2, <2>3 DEF OpenSocket, OneUnderWay
<1>3. ASSUME NEW c \in Socket, SessionInit(c) \/ LoseConnection(c) PROVE RetryInv'
  <2>1. /\ RetryTypes' /\ UNCHANGED <<armed, leaked, initing, intentionalDisconnect, failedAttempts>>
        /\ c \in Busy
    BY <1>3 DEF SessionInit, LoseConnection, Becomes, Busy
  <2>2. \A d \in Socket : d # c => socket'[d] = socket[d]
    BY <1>3 DEF SessionInit, LoseConnection, Becomes
  <2>3. socket'[c] \in {"live", "failed"}
    BY <1>3 DEF SessionInit, LoseConnection, Becomes
  <2>4. Busy' = Busy
    BY <2>1, <2>2, <2>3 DEF Busy
  <2>. QED
    BY <2>1, <2>2, <2>3, <2>4 DEF OneUnderWay
<1>4. ASSUME NEW c \in Socket, AttemptFails(c) PROVE RetryInv'
  <2>1. failedAttempts' = failedAttempts + 1
    BY <1>4 DEF AttemptFails
  <2>2. RetryTypes'
    <3>1. armed' \in BOOLEAN /\ leaked' \in Nat
      <4>1. AttemptReconnect \/ UNCHANGED <<armed, leaked>>
        BY <1>4, Zenon DEF AttemptFails
      <4>. QED
        BY <4>1, AttemptTypes
    <3>. QED
      BY <1>4, <3>1 DEF AttemptFails, Becomes
  <2>. QED
    BY <2>1, <2>2 DEF OneUnderWay
<1>5. ASSUME NEW c \in Socket, OnClose(c) PROVE RetryInv'
  <2>1. RetryTypes' /\ UNCHANGED <<initing, intentionalDisconnect, failedAttempts>>
    <3>1. armed' \in BOOLEAN /\ leaked' \in Nat
      BY <1>5, AttemptTypes DEF OnClose
    <3>. QED
      BY <1>5, <3>1 DEF OnClose, Becomes
  <2>2. \A d \in Socket : socket'[d] = IF d = c THEN "closed" ELSE socket[d]
    BY <1>5 DEF OnClose, Becomes
  <2>3. Busy' = Busy \ {c}
    BY <2>2 DEF Busy
  <2>4. CASE socket[c] = "failed"
    <3>1. c \in Busy
      BY <2>4 DEF Busy
    <3>2. failedAttempts = 0 => Busy' = {} /\ ~armed /\ initing = 0 /\ leaked' = 0
      BY <1>5, <2>3, <3>1 DEF OnClose, AttemptReconnect, OneUnderWay
    <3>. QED
      BY <2>1, <2>2, <3>2 DEF OneUnderWay
  <2>5. CASE socket[c] = "closing"
    <3>1. Busy' = Busy
      BY <2>3, <2>5 DEF Busy
    <3>2. failedAttempts = 0 => UNCHANGED <<armed, leaked>>
      BY <1>5, <2>5 DEF OnClose, AttemptReconnect, OneUnderWay
    <3>. QED
      BY <2>1, <2>2, <3>1, <3>2 DEF OneUnderWay
  <2>. QED
    BY <1>5, <2>4, <2>5 DEF OnClose
<1>6. CASE Disconnect
  <2>1. /\ intentionalDisconnect' /\ ~armed' /\ UNCHANGED <<leaked, initing, failedAttempts>>
        /\ \A d \in Socket : socket'[d] = socket[d] \/ socket'[d] = "closing"
    BY <1>6 DEF Disconnect
  <2>2. RetryTypes'
    BY <1>6 DEF Disconnect
  <2>3. Busy' \subseteq Busy
    BY <2>1 DEF Busy
  <2>. QED
    BY <2>1, <2>2, <2>3 DEF OneUnderWay
<1>7. CASE UNCHANGED reconnectVars
  BY <1>7 DEF reconnectVars, OneUnderWay, Busy
<1>. QED
  BY <1>1, <1>2, <1>3, <1>4, <1>5, <1>6, <1>7 DEF ReconnectNext, ReconnectStep, NetworkAnswers

\* At most one attempt, timer or socket is under way while none has failed.
LEMMA RetryMeansOne == RetryInv => OneConnectionUntilAFailure
<1>. SUFFICES ASSUME RetryInv, failedAttempts = 0
     PROVE  Cardinality(Alive) + Cardinality({c \in Socket : socket[c] = "failed"})
              + leaked + initing + (IF armed THEN 1 ELSE 0) <= 1
  BY DEF OneConnectionUntilAFailure
<1>. DEFINE Failed == {c \in Socket : socket[c] = "failed"}
<1>1. Alive \cup Failed = Busy /\ Alive \cap Failed = {}
  BY DEF Alive, Busy
<1>2. leaked = 0 /\ (\A c, d \in Busy : c = d) /\ initing \in Nat
      /\ (armed => Busy = {} /\ initing = 0) /\ (initing > 0 => initing = 1 /\ Busy = {})
  BY DEF RetryInv, OneUnderWay, RetryTypes
<1>. HIDE DEF Failed
<1>3. CASE Busy = {}
  <2>1. Alive = {} /\ Failed = {}
    BY <1>1, <1>3
  <2>2. Cardinality(Alive) = 0 /\ Cardinality(Failed) = 0
    BY <2>1, FS_EmptySet
  <2>. QED
    BY <1>2, <2>2 DEF Failed
<1>4. ASSUME NEW c \in Busy PROVE Cardinality(Alive) + Cardinality(Failed) = 1
  <2>1. (Alive = {c} /\ Failed = {}) \/ (Alive = {} /\ Failed = {c})
    BY <1>1, <1>2
  <2>2. Cardinality({c}) = 1 /\ Cardinality({}) = 0
    BY FS_EmptySet, FS_Singleton
  <2>. QED
    BY <2>1, <2>2
<1>. QED
  BY <1>2, <1>3, <1>4 DEF Failed

\* While no attempt has failed there is at most one socket connecting or live, timer
\* or attempt under way, for any number of losses and retries, and whenever the user
\* disconnects (attemptReconnect, performReconnect, cancelReconnect).
THEOREM OneConnection == ReconnectSpec => []OneConnectionUntilAFailure
  BY RetryMeansOne, InitRetry, NextRetry, PTL DEF ReconnectSpec

-----------------------------------------------------------------------------
(* Attempts and the sockets they need. *)

\* Close events under way, each of which may set a timer.
Ending == {c \in Socket : socket[c] = "failed"}
Timers == leaked + (IF armed THEN 1 ELSE 0)

AttemptRanges ==
    /\ ws \in Socket \cup {0} /\ reconnectAttempt \in 0..MaxReconnectAttempts
    /\ {connected, rafRunning, gaveUp} \subseteq BOOLEAN
    /\ losses \in 0..MaxLosses /\ failedAttempts \in 0..MaxFailures
    /\ \A c \in Socket : socket[c] = "closing" => intentionalDisconnect

\* There is a socket for every attempt, timer and close event under way, and for what
\* losses and failedAttempts to come will cause: a loss one attempt, a failure two.
Reserved ==
    initing + Timers + Cardinality(Ending) + (MaxLosses - losses) + 2 * (MaxFailures - failedAttempts)
        <= Cardinality(Unused)

BudgetInv == RetryTypes /\ AttemptRanges /\ Reserved

\* The numbers of sockets.
LEMMA SocketsAreFinite ==
    /\ IsFiniteSet(Socket) /\ Cardinality(Socket) = 1 + MaxLosses + 2 * MaxFailures /\ 1 \in Socket
    /\ \A S \in SUBSET Socket : IsFiniteSet(S) /\ Cardinality(S) \in Nat /\ Cardinality(S) <= Cardinality(Socket)
<1>. DEFINE n == 1 + MaxLosses + 2 * MaxFailures
<1>1. n \in Nat /\ 1 <= n /\ Socket = 1..n
  BY ReconnectAssumption DEF Socket
<1>. HIDE DEF n
<1>2. 1 \in Int /\ n \in Int /\ ~(1 > n)
  BY <1>1
<1>3. IsFiniteSet(1..n) /\ Cardinality(1..n) = n - 1 + 1
  BY <1>2, FS_Interval, Zenon
<1>4. IsFiniteSet(Socket) /\ Cardinality(Socket) = n
  BY <1>1, <1>3
<1>5. \A S \in SUBSET Socket : IsFiniteSet(S) /\ Cardinality(S) <= Cardinality(Socket)
  BY <1>4, FS_Subset
<1>6. \A S \in SUBSET Socket : Cardinality(S) \in Nat
  BY <1>5, FS_CardinalityType
<1>7. 1 \in Socket
  BY <1>1
<1>. QED
  BY <1>4, <1>5, <1>6, <1>7 DEF n

\* At first one socket is used and everything else is still to come.
LEMMA InitBudget == ReconnectInit => BudgetInv
<1>. SUFFICES ASSUME ReconnectInit PROVE BudgetInv
  OBVIOUS
<1>1. RetryTypes
  BY InitRetry DEF RetryInv
<1>2. \A c \in Socket : socket[c] = IF c = 1 THEN "connecting" ELSE "none"
  BY DEF ReconnectInit
<1>3. AttemptRanges
  <2>1. ws \in Socket \cup {0} /\ reconnectAttempt \in 0..MaxReconnectAttempts
        /\ losses \in 0..MaxLosses /\ failedAttempts \in 0..MaxFailures
    BY SocketsAreFinite, ReconnectAssumption DEF ReconnectInit
  <2>2. {connected, rafRunning, gaveUp} \subseteq BOOLEAN
    BY Zenon DEF ReconnectInit
  <2>3. \A c \in Socket : socket[c] = "closing" => intentionalDisconnect
    BY <1>2
  <2>. QED
    BY <2>1, <2>2, <2>3, Zenon DEF AttemptRanges
<1>4. Ending = {} /\ Unused = Socket \ {1}
  BY <1>2 DEF Ending, Unused
<1>5. Cardinality(Ending) = 0
  BY <1>4, FS_EmptySet
<1>6. Cardinality(Unused) = Cardinality(Socket) - 1
  BY <1>4, SocketsAreFinite, FS_RemoveElement
<1>7. initing = 0 /\ Timers = 0 /\ losses = 0 /\ failedAttempts = 0
  BY DEF ReconnectInit, Timers
<1>8. Reserved
  BY <1>5, <1>6, <1>7, SocketsAreFinite, ReconnectAssumption DEF Reserved
<1>. QED
  BY <1>1, <1>3, <1>8 DEF BudgetInv

\* A retry sets one timer at most, and none after disconnect.
LEMMA AttemptSetsATimer ==
    ASSUME armed \in BOOLEAN, leaked \in Nat, reconnectAttempt \in 0..MaxReconnectAttempts, gaveUp \in BOOLEAN,
           AttemptReconnect \/ UNCHANGED <<armed, leaked, reconnectAttempt, gaveUp>>
    PROVE  /\ Timers \in Nat /\ Timers' \in Nat /\ Timers' <= Timers + 1
           /\ intentionalDisconnect => Timers' = Timers
           /\ reconnectAttempt' \in 0..MaxReconnectAttempts /\ gaveUp' \in BOOLEAN
<1>1. /\ Timers \in Nat /\ Timers' \in Nat /\ Timers' <= Timers + 1
      /\ intentionalDisconnect => Timers' = Timers
  BY DEF AttemptReconnect, Timers
<1>2. reconnectAttempt' \in 0..MaxReconnectAttempts
  BY ReconnectAssumption DEF AttemptReconnect
<1>3. gaveUp' \in BOOLEAN
  BY Zenon DEF AttemptReconnect
<1>. QED
  BY <1>1, <1>2, <1>3

\* Every step pays for the timer, attempt or socket it adds.
LEMMA NextBudget == BudgetInv /\ [ReconnectNext]_reconnectVars => BudgetInv'
<1>. SUFFICES ASSUME BudgetInv, [ReconnectNext]_reconnectVars PROVE BudgetInv'
  OBVIOUS
<1>. USE DEF BudgetInv
<1>0. /\ IsFiniteSet(Unused) /\ Cardinality(Unused) \in Nat /\ IsFiniteSet(Ending) /\ Cardinality(Ending) \in Nat
      /\ initing \in Nat /\ leaked \in Nat /\ armed \in BOOLEAN /\ losses \in 0..MaxLosses /\ failedAttempts \in 0..MaxFailures
      /\ MaxLosses \in Nat /\ MaxFailures \in Nat /\ Timers \in Nat
      /\ connected \in BOOLEAN /\ rafRunning \in BOOLEAN /\ gaveUp \in BOOLEAN /\ reconnectAttempt \in 0..MaxReconnectAttempts
      /\ ws \in Socket \cup {0} /\ socket \in [Socket -> SocketState]
  <2>1. Unused \in SUBSET Socket /\ Ending \in SUBSET Socket
    BY DEF Unused, Ending
  <2>2. connected \in BOOLEAN /\ rafRunning \in BOOLEAN /\ gaveUp \in BOOLEAN
    BY Zenon DEF AttemptRanges
  <2>3. Timers \in Nat
    BY DEF Timers, RetryTypes
  <2>. QED
    BY <2>1, <2>2, <2>3, SocketsAreFinite, ReconnectAssumption DEF RetryTypes, AttemptRanges
<1>1. CASE TimerFires
  <2>1. /\ UNCHANGED <<socket, reconnectAttempt, intentionalDisconnect, connected, rafRunning, gaveUp, losses, failedAttempts>>
        /\ ws' = 0 /\ initing' = initing + 1
    BY <1>1 DEF TimerFires
  <2>2. Timers' = Timers - 1 /\ Timers >= 1 /\ leaked' \in Nat
    BY <1>0, <1>1 DEF TimerFires, Timers
  <2>3. armed' \in BOOLEAN
    BY <1>0, <1>1, Zenon DEF TimerFires
  <2>4. Unused' = Unused /\ Ending' = Ending
    BY <2>1 DEF Unused, Ending
  <2>5. RetryTypes'
    BY <1>0, <2>1, <2>2, <2>3 DEF RetryTypes
  <2>6. AttemptRanges'
    BY <2>1 DEF AttemptRanges
  <2>7. Reserved'
    BY <1>0, <2>1, <2>2, <2>4 DEF Reserved
  <2>. QED
    BY <2>5, <2>6, <2>7
<1>2. ASSUME NEW c \in Socket, OpenSocket(c) PROVE BudgetInv'
  <2>1. /\ UNCHANGED <<armed, leaked, reconnectAttempt, intentionalDisconnect, connected, rafRunning, gaveUp, losses, failedAttempts>>
        /\ ws' = c /\ initing' = initing - 1 /\ initing > 0 /\ socket[c] = "none"
        /\ socket' = [socket EXCEPT ![c] = "connecting"]
    BY <1>2 DEF OpenSocket, Becomes
  <2>2. Unused' = Unused \ {c} /\ c \in Unused /\ Ending' = Ending /\ Timers' = Timers
    BY <1>0, <2>1 DEF Unused, Ending, Timers
  <2>3. Cardinality(Unused') = Cardinality(Unused) - 1
    BY <1>0, <2>2, FS_RemoveElement
  <2>4. RetryTypes'
    BY <1>0, <2>1 DEF RetryTypes, SocketState
  <2>5. AttemptRanges'
    BY <1>0, <2>1 DEF AttemptRanges
  <2>6. Reserved'
    BY <1>0, <2>1, <2>2, <2>3 DEF Reserved
  <2>. QED
    BY <2>4, <2>5, <2>6
<1>3. ASSUME NEW c \in Socket, SessionInit(c) PROVE BudgetInv'
  <2>1. /\ UNCHANGED <<ws, armed, leaked, initing, intentionalDisconnect, losses, failedAttempts>>
        /\ connected' = TRUE /\ rafRunning' = TRUE /\ gaveUp' = FALSE /\ reconnectAttempt' \in {0, reconnectAttempt}
        /\ socket' = [socket EXCEPT ![c] = "live"] /\ socket[c] = "connecting"
    BY <1>3 DEF SessionInit, Becomes
  <2>2. Unused' = Unused /\ Ending' = Ending /\ Timers' = Timers
    BY <1>0, <2>1 DEF Unused, Ending, Timers
  <2>3. RetryTypes'
    BY <1>0, <2>1 DEF RetryTypes, SocketState
  <2>4. AttemptRanges'
    <3>1. reconnectAttempt' \in 0..MaxReconnectAttempts
      BY <1>0, <2>1, ReconnectAssumption
    <3>2. {connected', rafRunning', gaveUp'} \subseteq BOOLEAN
      BY <2>1, Zenon
    <3>3. \A d \in Socket : socket'[d] = "closing" => intentionalDisconnect'
      BY <1>0, <2>1 DEF AttemptRanges
    <3>. QED
      BY <1>0, <2>1, <3>1, <3>2, <3>3 DEF AttemptRanges
  <2>5. Reserved'
    BY <2>1, <2>2 DEF Reserved
  <2>. QED
    BY <2>3, <2>4, <2>5
<1>4. ASSUME NEW c \in Socket, AttemptFails(c) \/ LoseConnection(c) PROVE BudgetInv'
  <2>1. /\ UNCHANGED <<ws, initing, intentionalDisconnect, connected, rafRunning>>
        /\ socket' = [socket EXCEPT ![c] = "failed"] /\ socket[c] \in {"connecting", "live"}
        /\ AttemptReconnect \/ UNCHANGED <<armed, leaked, reconnectAttempt, gaveUp>>
    BY <1>4, Zenon DEF AttemptFails, LoseConnection, Becomes
  <2>2. Unused' = Unused /\ Ending' = Ending \cup {c} /\ c \notin Ending
    BY <1>0, <2>1 DEF Unused, Ending
  <2>3. Cardinality(Ending') = Cardinality(Ending) + 1
    BY <1>0, <2>2, FS_AddElement
  <2>4. /\ Timers' \in Nat /\ Timers' <= Timers + 1 /\ reconnectAttempt' \in 0..MaxReconnectAttempts /\ gaveUp' \in BOOLEAN
    BY <1>0, <2>1, AttemptSetsATimer
  <2>5. \/ failedAttempts' = failedAttempts + 1 /\ failedAttempts < MaxFailures /\ losses' = losses
        \/ losses' = losses + 1 /\ losses < MaxLosses /\ failedAttempts' = failedAttempts /\ UNCHANGED <<armed, leaked>>
    BY <1>4 DEF AttemptFails, LoseConnection
  <2>6. losses' \in 0..MaxLosses /\ failedAttempts' \in 0..MaxFailures
    BY <1>0, <2>5
  <2>7. RetryTypes'
    <3>1. armed' \in BOOLEAN /\ leaked' \in Nat
      BY <1>0, <2>1, AttemptTypes
    <3>. QED
      BY <1>0, <2>1, <2>6, <3>1 DEF RetryTypes, SocketState
  <2>8. AttemptRanges'
    <3>1. {connected', rafRunning', gaveUp'} \subseteq BOOLEAN
      BY <1>0, <2>1, <2>4, Zenon
    <3>2. \A d \in Socket : socket'[d] = "closing" => intentionalDisconnect'
      BY <1>0, <2>1 DEF AttemptRanges
    <3>. QED
      BY <1>0, <2>1, <2>4, <2>6, <3>1, <3>2 DEF AttemptRanges
  <2>9. Reserved'
    <3>1. UNCHANGED <<armed, leaked>> => Timers' = Timers
      BY DEF Timers
    <3>. QED
      BY <1>0, <2>1, <2>2, <2>3, <2>4, <2>5, <3>1 DEF Reserved
  <2>. QED
    BY <2>7, <2>8, <2>9
<1>5. ASSUME NEW c \in Socket, OnClose(c) PROVE BudgetInv'
  <2>1. /\ UNCHANGED <<ws, initing, intentionalDisconnect, losses, failedAttempts>>
        /\ connected' = FALSE /\ rafRunning' = FALSE /\ AttemptReconnect
        /\ socket' = [socket EXCEPT ![c] = "closed"] /\ socket[c] \in {"failed", "closing"}
    BY <1>5 DEF OnClose, Becomes
  <2>2. Unused' = Unused /\ Ending' = Ending \ {c}
    BY <1>0, <2>1 DEF Unused, Ending
  <2>3. /\ Timers' \in Nat /\ Timers' <= Timers + 1 /\ reconnectAttempt' \in 0..MaxReconnectAttempts /\ gaveUp' \in BOOLEAN
        /\ intentionalDisconnect => Timers' = Timers
    BY <1>0, <2>1, AttemptSetsATimer
  <2>4. Cardinality(Ending') + Timers' <= Cardinality(Ending) + Timers /\ Cardinality(Ending') \in Nat
    <3>1. CASE socket[c] = "failed"
      <4>1. c \in Ending
        BY <3>1 DEF Ending
      <4>2. Cardinality(Ending') = Cardinality(Ending) - 1 /\ Cardinality(Ending) >= 1
        <5>1. Cardinality(Ending) # 0
          BY <1>0, <4>1, FS_EmptySet
        <5>2. Cardinality(Ending \ {c}) = Cardinality(Ending) - 1
          BY <1>0, <4>1, FS_RemoveElement
        <5>. QED
          BY <1>0, <2>2, <5>1, <5>2
      <4>. QED
        BY <1>0, <2>3, <4>2
    <3>2. CASE socket[c] = "closing"
      <4>1. intentionalDisconnect /\ Ending' = Ending
        BY <2>2, <3>2 DEF Ending, AttemptRanges
      <4>. QED
        BY <1>0, <2>3, <4>1
    <3>. QED
      BY <2>1, <3>1, <3>2
  <2>5. RetryTypes'
    <3>1. armed' \in BOOLEAN /\ leaked' \in Nat
      BY <1>0, <2>1, AttemptTypes
    <3>. QED
      BY <1>0, <2>1, <3>1 DEF RetryTypes, SocketState
  <2>6. AttemptRanges'
    <3>1. {connected', rafRunning', gaveUp'} \subseteq BOOLEAN
      BY <2>1, <2>3, Zenon
    <3>2. \A d \in Socket : socket'[d] = "closing" => intentionalDisconnect'
      BY <1>0, <2>1 DEF AttemptRanges
    <3>. QED
      BY <1>0, <2>1, <2>3, <3>1, <3>2 DEF AttemptRanges
  <2>7. Reserved'
    BY <1>0, <2>1, <2>2, <2>3, <2>4 DEF Reserved
  <2>. QED
    BY <2>5, <2>6, <2>7
<1>6. CASE Disconnect
  <2>1. /\ UNCHANGED <<leaked, initing, gaveUp, losses, failedAttempts>>
        /\ intentionalDisconnect' = TRUE /\ armed' = FALSE /\ reconnectAttempt' = 0 /\ rafRunning' = FALSE
        /\ connected' = FALSE /\ ws' = 0
        /\ socket' = [c \in Socket |-> IF c = ws /\ c \in Alive THEN "closing" ELSE socket[c]]
    BY <1>6 DEF Disconnect
  <2>2. Unused' = Unused /\ Ending' = Ending
    BY <2>1 DEF Unused, Ending, Alive
  <2>3. Timers' <= Timers /\ Timers' \in Nat
    BY <1>0, <2>1 DEF Timers
  <2>4. RetryTypes'
    BY <1>0, <2>1 DEF RetryTypes, SocketState
  <2>5. AttemptRanges'
    <3>1. {connected', rafRunning', gaveUp'} \subseteq BOOLEAN
      BY <1>0, <2>1, Zenon
    <3>. QED
      BY <1>0, <2>1, <3>1, ReconnectAssumption DEF AttemptRanges
  <2>6. Reserved'
    BY <1>0, <2>1, <2>2, <2>3 DEF Reserved
  <2>. QED
    BY <2>4, <2>5, <2>6
<1>7. CASE UNCHANGED reconnectVars
  BY <1>7 DEF reconnectVars, RetryTypes, AttemptRanges, Reserved, Timers, Ending, Unused
<1>. QED
  BY <1>1, <1>2, <1>3, <1>4, <1>5, <1>6, <1>7 DEF ReconnectNext, ReconnectStep, NetworkAnswers

\* A retry always finds a socket: the sockets of the model, one for the first
\* connection, one for every loss and two for every failure, are all that
\* attemptReconnect and performReconnect can ever ask for, so that the bound on them
\* stops no attempt.
THEOREM EveryAttemptHasASocket == ReconnectSpec => [](initing > 0 => Unused # {})
<1>1. BudgetInv => (initing > 0 => Unused # {})
  <2>. SUFFICES ASSUME BudgetInv, initing > 0, Unused = {} PROVE FALSE
    OBVIOUS
  <2>1. Cardinality(Unused) = 0
    BY FS_EmptySet
  <2>2. Cardinality(Ending) \in Nat
    BY SocketsAreFinite DEF Ending
  <2>3. Timers \in Nat /\ initing \in Nat
    BY DEF BudgetInv, RetryTypes, Timers
  <2>4. losses \in 0..MaxLosses /\ failedAttempts \in 0..MaxFailures
    BY DEF BudgetInv, AttemptRanges
  <2>. QED
    BY <2>1, <2>2, <2>3, <2>4, ReconnectAssumption DEF BudgetInv, Reserved
<1>. QED
  BY <1>1, InitBudget, NextBudget, PTL DEF ReconnectSpec

Opening == {c \in Socket : socket[c] = "connecting"}

\* After disconnect every step uses up what is pending or leaves it.
LEMMA NothingIsAdded ==
    ASSUME RetryTypes, AttemptRanges, [ReconnectNext]_reconnectVars, intentionalDisconnect'
    PROVE  StillToConnect' <= StillToConnect
<1>0. /\ initing \in Nat /\ leaked \in Nat /\ armed \in BOOLEAN /\ Timers \in Nat
      /\ socket \in [Socket -> SocketState] /\ gaveUp \in BOOLEAN /\ reconnectAttempt \in 0..MaxReconnectAttempts
      /\ IsFiniteSet(Opening) /\ Cardinality(Opening) \in Nat
  <2>1. Opening \in SUBSET Socket
    BY DEF Opening
  <2>2. gaveUp \in BOOLEAN
    BY Zenon DEF AttemptRanges
  <2>3. Timers \in Nat
    BY DEF Timers, RetryTypes
  <2>. QED
    BY <2>1, <2>2, <2>3, SocketsAreFinite DEF RetryTypes, AttemptRanges
<1>1. /\ StillToConnect = Timers + initing + Cardinality(Opening)
      /\ StillToConnect' = Timers' + initing' + Cardinality(Opening')
  BY DEF StillToConnect, Timers, Opening
<1>2. CASE TimerFires
  <2>1. initing' = initing + 1 /\ socket' = socket
    BY <1>2 DEF TimerFires
  <2>2. Timers' = Timers - 1
    BY <1>0, <1>2 DEF TimerFires, Timers
  <2>3. Opening' = Opening
    BY <2>1 DEF Opening
  <2>. QED
    BY <1>0, <1>1, <2>1, <2>2, <2>3
<1>3. ASSUME NEW c \in Socket, OpenSocket(c) PROVE StillToConnect' <= StillToConnect
  <2>1. UNCHANGED <<armed, leaked>> /\ initing' = initing - 1
        /\ socket[c] = "none" /\ socket' = [socket EXCEPT ![c] = "connecting"]
    BY <1>3 DEF OpenSocket, Becomes
  <2>2. Opening' = Opening \cup {c} /\ c \notin Opening /\ Timers' = Timers
    BY <1>0, <2>1 DEF Opening, Timers
  <2>3. Cardinality(Opening') = Cardinality(Opening) + 1
    BY <1>0, <2>2, FS_AddElement
  <2>. QED
    BY <1>0, <1>1, <2>1, <2>2, <2>3
<1>4. ASSUME NEW c \in Socket, NEW at \in SocketState, at # "connecting",
             socket' = [socket EXCEPT ![c] = at], initing' = initing, Timers' = Timers
      PROVE  StillToConnect' <= StillToConnect
  <2>1. Opening' = Opening \ {c}
    BY <1>0, <1>4 DEF Opening
  <2>2. Cardinality(Opening') <= Cardinality(Opening) /\ Cardinality(Opening') \in Nat
    <3>1. IsFiniteSet(Opening') /\ Cardinality(Opening') <= Cardinality(Opening)
      BY <1>0, <2>1, FS_Subset
    <3>. QED
      BY <3>1, FS_CardinalityType
  <2>. QED
    BY <1>0, <1>1, <1>4, <2>2
<1>5. ASSUME NEW c \in Socket, SessionInit(c) \/ AttemptFails(c) \/ LoseConnection(c) \/ OnClose(c)
      PROVE  StillToConnect' <= StillToConnect
  <2>1. /\ initing' = initing /\ intentionalDisconnect
        /\ AttemptReconnect \/ UNCHANGED <<armed, leaked>>
    BY <1>5 DEF SessionInit, AttemptFails, LoseConnection, OnClose
  <2>2. UNCHANGED <<armed, leaked>>
    BY <2>1 DEF AttemptReconnect
  <2>3. Timers' = Timers
    BY <2>2 DEF Timers
  <2>4. \E at \in {"live", "failed", "closed"} : socket' = [socket EXCEPT ![c] = at]
    BY <1>5 DEF SessionInit, AttemptFails, LoseConnection, OnClose, Becomes
  <2>5. \A at \in {"live", "failed", "closed"} : at \in SocketState /\ at # "connecting"
    BY DEF SocketState
  <2>. QED
    BY <1>4, <2>1, <2>3, <2>4, <2>5
<1>6. CASE Disconnect
  <2>1. /\ UNCHANGED <<leaked, initing>> /\ armed' = FALSE
        /\ socket' = [c \in Socket |-> IF c = ws /\ c \in Alive THEN "closing" ELSE socket[c]]
    BY <1>6 DEF Disconnect
  <2>2. Timers' <= Timers /\ Timers' \in Nat
    BY <1>0, <2>1 DEF Timers
  <2>3. Opening' \subseteq Opening
    BY <2>1 DEF Opening
  <2>4. Cardinality(Opening') <= Cardinality(Opening) /\ Cardinality(Opening') \in Nat
    <3>1. IsFiniteSet(Opening') /\ Cardinality(Opening') <= Cardinality(Opening)
      BY <1>0, <2>3, FS_Subset
    <3>. QED
      BY <3>1, FS_CardinalityType
  <2>. QED
    BY <1>0, <1>1, <2>1, <2>2, <2>4
<1>7. CASE UNCHANGED reconnectVars
  <2>1. Timers' = Timers /\ initing' = initing /\ Opening' = Opening
    BY <1>7 DEF reconnectVars, Timers, Opening
  <2>. QED
    BY <1>0, <1>1, <2>1
<1>. QED
  BY <1>2, <1>3, <1>5, <1>6, <1>7 DEF ReconnectNext, ReconnectStep, NetworkAnswers

\* A deliberate disconnect adds no attempt, and after it nothing does, however many
\* timers, attempts and close events were under way and for any number of losses and
\* failedAttempts: what may still connect only runs out (disconnect, attemptReconnect).
THEOREM DisconnectIsFinal == ReconnectSpec => DisconnectStartsNothing
<1>1. BudgetInv /\ [ReconnectNext]_reconnectVars
        => [intentionalDisconnect' => StillToConnect' <= StillToConnect]_reconnectVars
  BY NothingIsAdded DEF BudgetInv
<1>. QED
  BY <1>1, InitBudget, NextBudget, PTL DEF ReconnectSpec, DisconnectStartsNothing

\* The budget of sockets bounds the timers and attempts.
LEMMA BudgetMeansTypes == BudgetInv => ReconnectTypeOK
<1>. SUFFICES ASSUME BudgetInv PROVE ReconnectTypeOK
  OBVIOUS
<1>1. Cardinality(Ending) \in Nat /\ Cardinality(Unused) \in Nat /\ Cardinality(Unused) <= Cardinality(Socket)
      /\ Cardinality(Socket) \in Nat
  BY SocketsAreFinite DEF Ending, Unused
<1>2. Timers \in Nat /\ initing \in Nat /\ leaked \in Nat /\ leaked <= Timers
  BY DEF BudgetInv, RetryTypes, Timers
<1>3. losses \in 0..MaxLosses /\ failedAttempts \in 0..MaxFailures
  BY DEF BudgetInv, AttemptRanges
<1>4. leaked \in 0..Cardinality(Socket) /\ initing \in 0..Cardinality(Socket)
  BY <1>1, <1>2, <1>3, ReconnectAssumption DEF BudgetInv, Reserved
<1>5. {armed, intentionalDisconnect, connected, rafRunning, gaveUp} \subseteq BOOLEAN
  BY Zenon DEF BudgetInv, RetryTypes, AttemptRanges
<1>. QED
  BY <1>4, <1>5 DEF BudgetInv, RetryTypes, AttemptRanges, ReconnectTypeOK, SocketState

\* The variables keep their types: timers and attempts under way never outnumber the
\* sockets, and reconnectAttempt stays within maxReconnectAttempts (attemptReconnect).
THEOREM ReconnectTypeCorrect == ReconnectSpec => []ReconnectTypeOK
  BY BudgetMeansTypes, InitBudget, NextBudget, PTL DEF ReconnectSpec

-----------------------------------------------------------------------------
(* Queues of messages that set a value. *)

\* The elements that v is defined on set a value.  Before position k of q the value
\* is m: the latest of them set it so, or there is none and it was i to begin with.
Latest(q, k, v, i, m) ==
    \/ \E j \in 1..(k - 1) :
          q[j] \in DOMAIN v /\ v[q[j]] = m /\ \A l \in (j + 1)..(k - 1) : q[l] \notin DOMAIN v
    \/ (\A l \in 1..(k - 1) : q[l] \notin DOMAIN v) /\ i = m

\* What is put at the end of a queue changes nothing for those before it.
LEMMA LatestPrefix ==
    ASSUME NEW X, NEW q \in Seq(X), NEW r \in Seq(X), NEW k \in 1..(Len(q) + 1), NEW v, NEW i, NEW m
    PROVE  Latest(q \o r, k, v, i, m) <=> Latest(q, k, v, i, m)
<1>1. Len(q) \in Nat /\ \A j \in 1..Len(q) : (q \o r)[j] = q[j]
  OBVIOUS
<1>2. \A j \in 1..(k - 1) : (q \o r)[j] = q[j]
  BY <1>1
<1>3. \A j \in 1..(k - 1) : \A l \in (j + 1)..(k - 1) : l \in 1..(k - 1)
  OBVIOUS
<1>. QED
  BY <1>2, <1>3 DEF Latest

\* Taking the first element from a queue applies what it sets.
LEMMA LatestTail ==
    ASSUME NEW X, NEW q \in Seq(X), q # <<>>, NEW k \in 1..Len(q), NEW v, NEW i, NEW m,
           Latest(q, k + 1, v, i, m)
    PROVE  Latest(Tail(q), k, v, IF Head(q) \in DOMAIN v THEN v[Head(q)] ELSE i, m)
<1>1. /\ Head(q) = q[1] /\ Len(Tail(q)) = Len(q) - 1 /\ Len(q) \in Nat
      /\ \A j \in 1..(Len(q) - 1) : Tail(q)[j] = q[j + 1]
  OBVIOUS
<1>2. k \in Nat /\ k >= 1 /\ (k + 1) - 1 = k
  OBVIOUS
<1>3. \A j \in 1..(k - 1) : Tail(q)[j] = q[j + 1] /\ j + 1 \in 1..k
  BY <1>1
<1>4. CASE (\A l \in 1..k : q[l] \notin DOMAIN v) /\ i = m
  BY <1>1, <1>2, <1>3, <1>4 DEF Latest
<1>5. ASSUME NEW j \in 1..k, q[j] \in DOMAIN v, v[q[j]] = m, \A l \in (j + 1)..k : q[l] \notin DOMAIN v
      PROVE  Latest(Tail(q), k, v, IF Head(q) \in DOMAIN v THEN v[Head(q)] ELSE i, m)
  <2>1. \A l \in 1..(k - 1) : l >= j => Tail(q)[l] \notin DOMAIN v
    BY <1>3, <1>5
  <2>2. CASE j = 1
    BY <1>1, <1>5, <2>1, <2>2 DEF Latest
  <2>3. CASE j # 1
    <3>1. j - 1 \in 1..(k - 1) /\ Tail(q)[j - 1] = q[j]
      BY <1>3, <2>3
    <3>2. \A l \in ((j - 1) + 1)..(k - 1) : Tail(q)[l] \notin DOMAIN v
      BY <2>1
    <3>. QED
      BY <1>5, <3>1, <3>2 DEF Latest
  <2>. QED
    BY <2>2, <2>3
<1>. QED
  BY <1>2, <1>4, <1>5 DEF Latest

\* One position further.
LEMMA LatestStep ==
    ASSUME NEW q, NEW k \in Nat \ {0}, NEW v, NEW i, NEW m
    PROVE  /\ q[k] \in DOMAIN v => Latest(q, k + 1, v, i, v[q[k]])
           /\ q[k] \notin DOMAIN v /\ Latest(q, k, v, i, m) => Latest(q, k + 1, v, i, m)
<1>1. (k + 1) - 1 = k /\ k \in 1..k /\ (\A l \in (k + 1)..k : FALSE)
      /\ (\A l \in 1..k : l \in 1..(k - 1) \/ l = k)
      /\ (\A j \in 1..(k - 1) : j \in 1..k /\ \A l \in (j + 1)..k : l \in (j + 1)..(k - 1) \/ l = k)
  OBVIOUS
<1>2. q[k] \in DOMAIN v => Latest(q, k + 1, v, i, v[q[k]])
  BY <1>1 DEF Latest
<1>3. q[k] \notin DOMAIN v /\ Latest(q, k, v, i, m) => Latest(q, k + 1, v, i, m)
  BY <1>1 DEF Latest
<1>. QED
  BY <1>2, <1>3

-----------------------------------------------------------------------------
(* Video. *)

FrameNumber == 0..MaxFrames
Chunks == [size : Size, key : BOOLEAN, ref : FrameNumber, first : FrameNumber, last : FrameNumber]
VideoAnswer == [resize : Seq(Size), picture : Seq(Chunks)]
Backends == [size : Size, held : Seq(FrameNumber), last : FrameNumber]
Decoded == [frame : FrameNumber, time : Nat]

VideoTypes ==
    /\ screenSize \in Size /\ configSize \in Size /\ configured \in Size \cup {0}
    /\ captured \in FrameNumber /\ submitted \in FrameNumber /\ shown \in FrameNumber
    /\ backend \in Backends /\ Len(backend.held) <= MaxHeld
    /\ asked \in Nat /\ answers \in Seq(VideoAnswer)
    /\ decoder \in {"none", "open", "closed"} /\ queue \in Seq(Decoded)
    /\ clock \in Nat /\ latestSubmitTimeMicros \in 0..clock /\ pendingFrames \subseteq 0..clock
    /\ wiped \in BOOLEAN /\ superseded \in BOOLEAN /\ faults \in Nat

\* The frame and the size that a chunk ends the stream with.
StreamEnd == [a \in {b \in VideoAnswer : b.picture # <<>>} |->
                 <<Head(a.picture).last, Head(a.picture).size>>]

\* Before the k-th answer of q the stream ends with e, for a VideoDecoder whose own
\* stream ends with i; one that failed may have missed anything before, and one that
\* a second socket feeds may have been given anything.
InStep(q, state, i, k, e) ==
    \E j : (state # "closed" => j = i) /\ Latest(q, k, StreamEnd, j, e)
Track == IF superseded THEN "closed" ELSE decoder
Seen == <<submitted, configured>>

\* Every delta refers to the end of the stream before it, and the encoder's next
\* delta will.
StreamInv ==
    /\ \A k \in 1..Len(answers) :
          LET c == Head(answers[k].picture)
          IN  answers[k].picture # <<>> /\ ~c.key => InStep(answers, Track, Seen, k, <<c.ref, c.size>>)
    /\ backend.last # 0 => InStep(answers, Track, Seen, Len(answers) + 1, <<backend.last, backend.size>>)

\* The newest chunk is the last of the queue, or has been shown, or was wiped.
NewestInv ==
    decoder = "open" =>
        /\ queue = <<>> => shown = submitted \/ (wiped /\ shown = 0)
        /\ queue # <<>> => /\ queue[Len(queue)].frame = submitted
                           /\ queue[Len(queue)].time = latestSubmitTimeMicros

VideoInv == VideoTypes /\ StreamInv /\ NewestInv /\ PendingIsQueued

LEMMA TypesImplyVideoTypeOK == VideoTypes => VideoTypeOK
<1>. SUFFICES ASSUME VideoTypes PROVE VideoTypeOK
  OBVIOUS
<1>1. backend.size \in Size /\ backend.last \in FrameNumber
  BY DEF VideoTypes, Backends
<1>. QED
  BY <1>1 DEF VideoTypes, VideoTypeOK, FrameNumber

\* A new back end has encoded nothing and holds nothing.
LEMMA NewBackendIsBackend ==
    \A n \in Size : NewBackend(n) \in Backends /\ NewBackend(n).last = 0 /\ NewBackend(n).size = n
                    /\ Len(NewBackend(n).held) = 0
<1>1. <<>> \in Seq(FrameNumber) /\ 0 \in FrameNumber
  BY VideoAssumption DEF FrameNumber
<1>. QED
  BY <1>1 DEF NewBackend, Backends

LEMMA InitVideo == VideoInit => VideoInv
<1>. SUFFICES ASSUME VideoInit PROVE VideoInv
  OBVIOUS
<1>1. VideoTypes
  <2>1. 0 \in FrameNumber /\ <<>> \in Seq(VideoAnswer) /\ <<>> \in Seq(Decoded)
    BY VideoAssumption DEF FrameNumber
  <2>2. backend \in Backends /\ Len(backend.held) = 0
    BY NewBackendIsBackend DEF VideoInit
  <2>3. wiped \in BOOLEAN /\ superseded \in BOOLEAN
    BY Zenon DEF VideoInit
  <2>. QED
    BY <2>1, <2>2, <2>3, VideoAssumption DEF VideoInit, VideoTypes
<1>2. Len(answers) = 0 /\ backend.last = 0 /\ decoder # "open"
  BY NewBackendIsBackend DEF VideoInit
<1>. QED
  BY <1>1, <1>2 DEF VideoInv, StreamInv, NewestInv, PendingIsQueued

\* The backend that takes the next frame: the same stream goes on, or a new one starts.
LEMMA EncodeMultiIsBackend ==
    ASSUME VideoTypes, captured < MaxFrames
    PROVE  /\ EncodeMulti \in Backends /\ EncodeMulti.size = screenSize
           /\ EncodeMulti.last # 0 => EncodeMulti.last = backend.last /\ EncodeMulti.size = backend.size
<1>1. Reinit \in Backends /\ Reinit.size = screenSize
      /\ (Reinit.last # 0 => Reinit.last = backend.last /\ Reinit.size = backend.size)
  BY NewBackendIsBackend DEF VideoTypes, Reinit
<1>2. captured + 1 \in FrameNumber
  BY VideoAssumption DEF VideoTypes, FrameNumber
<1>3. Append(Reinit.held, captured + 1) \in Seq(FrameNumber)
  BY <1>1, <1>2 DEF Backends
<1>. QED
  BY <1>1, <1>3 DEF EncodeMulti, Backends

\* What one Encode leaves behind and hands out.
LEMMA EncodeIsBackend ==
    ASSUME NEW b \in Backends, NEW n \in 0..Len(b.held)
    PROVE  /\ Encode(b, n) \in Backends /\ Encode(b, n).size = b.size
           /\ Len(Encode(b, n).held) = Len(b.held) - n
           /\ Encode(b, n).last = IF n = 0 THEN b.last ELSE b.held[n]
           /\ n # 0 => Chunk(b, n) \in Chunks
<1>1. b.held \in Seq(FrameNumber) /\ b.size \in Size /\ b.last \in FrameNumber /\ Len(b.held) \in Nat
  BY DEF Backends
<1>2. n # 0 => b.held[n] \in FrameNumber /\ b.held[1] \in FrameNumber
  BY <1>1
<1>3. SubSeq(b.held, n + 1, Len(b.held)) \in Seq(FrameNumber)
      /\ Len(SubSeq(b.held, n + 1, Len(b.held))) = Len(b.held) - n
  BY <1>1
<1>4. Encode(b, n).last = (IF n = 0 THEN b.last ELSE b.held[n])
      /\ Encode(b, n).held = SubSeq(b.held, n + 1, Len(b.held)) /\ Encode(b, n).size = b.size
  BY DEF Encode, Backends
<1>5. Encode(b, n) \in Backends
  BY <1>1, <1>2, <1>3 DEF Encode, Backends
<1>6. n # 0 => Chunk(b, n) \in Chunks
  BY <1>1, <1>2 DEF Chunk, Chunks
<1>. QED
  BY <1>3, <1>4, <1>5, <1>6

\* A frame is encoded against the one the encoder was given last.
LEMMA EncodeAndSendInStep ==
    ASSUME VideoInv, EncodeAndSendVideo
    PROVE  VideoInv'
<1>. DEFINE b == EncodeMulti
            resize == IF configSize # screenSize THEN <<screenSize>> ELSE <<>>
            answer(n) == [resize |-> resize, picture |-> IF n = 0 THEN <<>> ELSE <<Chunk(b, n)>>]
<1>1. PICK n \in 0..Len(b.held) :
         /\ Len(b.held) - n <= MaxHeld /\ answers' = Append(answers, answer(n))
         /\ backend' = Encode(b, n)
  BY DEF EncodeAndSendVideo
<1>2. /\ captured < MaxFrames /\ captured' = captured + 1 /\ asked' \in 0..(asked - 1)
      /\ configSize' = screenSize
      /\ UNCHANGED <<screenSize, decoder, configured, queue, submitted, clock, latestSubmitTimeMicros,
                     pendingFrames, shown, wiped, superseded, faults>>
  BY DEF EncodeAndSendVideo, decoderVars
<1>3. /\ b \in Backends /\ b.size = screenSize
      /\ b.last # 0 => b.last = backend.last /\ b.size = backend.size
  BY <1>2, EncodeMultiIsBackend DEF VideoInv
<1>4. /\ backend' \in Backends /\ backend'.size = b.size /\ Len(backend'.held) = Len(b.held) - n
      /\ backend'.last = IF n = 0 THEN b.last ELSE b.held[n]
      /\ n # 0 => Chunk(b, n) \in Chunks
  BY <1>1, <1>3, EncodeIsBackend
<1>5. n # 0 => /\ Chunk(b, n).last = b.held[n] /\ Chunk(b, n).size = b.size
               /\ Chunk(b, n).ref = b.last /\ (Chunk(b, n).key <=> b.last = 0)
  BY DEF Chunk
<1>. DEFINE a == answer(n)
            c == Chunk(b, n)
<1>6. a \in VideoAnswer /\ (n = 0 => a.picture = <<>>) /\ (n # 0 => a.picture # <<>> /\ Head(a.picture) = c)
  <2>1. resize \in Seq(Size)
    BY DEF VideoInv, VideoTypes
  <2>2. (IF n = 0 THEN <<>> ELSE <<c>>) \in Seq(Chunks)
    BY <1>4
  <2>. HIDE DEF resize, c
  <2>. QED
    BY <2>1, <2>2 DEF VideoAnswer, c
<1>. HIDE DEF b, a, answer, c
<1>7. answers \in Seq(VideoAnswer) /\ Len(answers) \in Nat
  BY DEF VideoInv, VideoTypes
<1>8. /\ answers' = Append(answers, a) /\ answers' = answers \o <<a>> /\ answers' \in Seq(VideoAnswer)
      /\ Len(answers') = Len(answers) + 1 /\ answers'[Len(answers) + 1] = a
      /\ \A k \in 1..Len(answers) : answers'[k] = answers[k]
  <2>1. answers' = Append(answers, a)
    BY <1>1 DEF a
  <2>. QED
    BY <1>6, <1>7, <2>1, AppendProperties
<1>9. VideoTypes'
  <2>1. captured' \in FrameNumber /\ asked' \in Nat
    BY <1>2, VideoAssumption DEF VideoInv, VideoTypes, FrameNumber
  <2>2. Len(backend'.held) <= MaxHeld
    BY <1>1, <1>4 DEF b
  <2>. QED
    BY <1>2, <1>4, <1>8, <2>1, <2>2 DEF VideoInv, VideoTypes
<1>10. \A k \in 1..(Len(answers) + 1) : \A i, e :
          Latest(answers, k, StreamEnd, i, e) => Latest(answers', k, StreamEnd, i, e)
  <2>1. <<a>> \in Seq(VideoAnswer)
    BY <1>6
  <2>2. \A k \in 1..(Len(answers) + 1) : \A i, e :
           Latest(answers \o <<a>>, k, StreamEnd, i, e) <=> Latest(answers, k, StreamEnd, i, e)
    BY <1>7, <2>1, LatestPrefix, Zenon
  <2>. QED
    BY <1>8, <2>2, Zenon
<1>11. \A k \in 1..(Len(answers) + 1) : \A e :
          InStep(answers, Track, Seen, k, e) => InStep(answers', Track', Seen', k, e)
  BY <1>2, <1>10 DEF InStep, Seen, Track
<1>12. a \in DOMAIN StreamEnd <=> n # 0
  BY <1>6 DEF StreamEnd
<1>13. n # 0 => StreamEnd[a] = <<backend'.last, backend'.size>>
  BY <1>4, <1>5, <1>6, <1>12 DEF StreamEnd, c
<1>14. Len(answers) + 1 \in 1..(Len(answers) + 1) /\ Len(answers) + 1 \in Nat \ {0}
       /\ \A k \in 1..Len(answers) : k \in 1..(Len(answers) + 1)
  BY <1>7
<1>15. \A i, m :
          /\ a \in DOMAIN StreamEnd => Latest(answers', (Len(answers) + 1) + 1, StreamEnd, i, StreamEnd[a])
          /\ a \notin DOMAIN StreamEnd /\ Latest(answers', Len(answers) + 1, StreamEnd, i, m)
               => Latest(answers', (Len(answers) + 1) + 1, StreamEnd, i, m)
  <2>1. \A i, m :
          LET k == Len(answers) + 1
          IN  /\ answers'[k] \in DOMAIN StreamEnd => Latest(answers', k + 1, StreamEnd, i, StreamEnd[answers'[k]])
              /\ answers'[k] \notin DOMAIN StreamEnd /\ Latest(answers', k, StreamEnd, i, m)
                   => Latest(answers', k + 1, StreamEnd, i, m)
    BY <1>14, LatestStep, Zenon
  <2>. QED
    BY <1>8, <2>1, Zenon
<1>16. ASSUME backend'.last # 0
       PROVE  InStep(answers', Track', Seen', Len(answers') + 1, <<backend'.last, backend'.size>>)
  <2>1. CASE n = 0
    <3>1. <<backend'.last, backend'.size>> = <<backend.last, backend.size>> /\ backend.last # 0
      BY <1>3, <1>4, <1>16, <2>1
    <3>2. InStep(answers, Track, Seen, Len(answers) + 1, <<backend.last, backend.size>>)
      BY <3>1 DEF VideoInv, StreamInv
    <3>3. PICK i : /\ Track' # "closed" => i = Seen'
                   /\ Latest(answers', Len(answers) + 1, StreamEnd, i, <<backend.last, backend.size>>)
      <4>1. InStep(answers', Track', Seen', Len(answers) + 1, <<backend.last, backend.size>>)
        BY <1>11, <1>14, <3>2, Zenon
      <4>. QED
        BY <4>1, Zenon DEF InStep
    <3>4. Latest(answers', (Len(answers) + 1) + 1, StreamEnd, i, <<backend.last, backend.size>>)
      BY <1>12, <1>15, <2>1, <3>3, Zenon
    <3>. QED
      BY <1>8, <3>1, <3>3, <3>4, Zenon DEF InStep
  <2>2. CASE n # 0
    <3>1. Latest(answers', (Len(answers) + 1) + 1, StreamEnd, Seen', <<backend'.last, backend'.size>>)
      BY <1>12, <1>13, <1>15, <2>2, Zenon
    <3>. QED
      BY <1>8, <3>1, Zenon DEF InStep
  <2>. QED
    BY <2>1, <2>2
<1>17. ASSUME NEW k \in 1..Len(answers'), answers'[k].picture # <<>>, ~Head(answers'[k].picture).key
       PROVE  InStep(answers', Track', Seen', k,
                     <<Head(answers'[k].picture).ref, Head(answers'[k].picture).size>>)
  <2>1. CASE k \in 1..Len(answers)
    <3>1. answers'[k] = answers[k]
      BY <1>8, <2>1
    <3>2. InStep(answers, Track, Seen, k, <<Head(answers[k].picture).ref, Head(answers[k].picture).size>>)
      BY <1>17, <2>1, <3>1 DEF VideoInv, StreamInv
    <3>. QED
      BY <1>11, <1>14, <2>1, <3>1, <3>2, Zenon
  <2>2. CASE k = Len(answers) + 1
    <3>1. n # 0 /\ Head(answers'[k].picture) = c
      BY <1>6, <1>8, <1>17, <2>2
    <3>2. b.last # 0 /\ c.ref = backend.last /\ c.size = backend.size
      BY <1>3, <1>5, <1>17, <3>1 DEF c
    <3>3. InStep(answers, Track, Seen, k, <<c.ref, c.size>>)
      BY <1>3, <2>2, <3>2 DEF VideoInv, StreamInv
    <3>. QED
      BY <1>11, <1>14, <2>2, <3>1, <3>3, Zenon
  <2>3. k \in 1..Len(answers) \/ k = Len(answers) + 1
    BY <1>7, <1>8
  <2>. QED
    BY <2>1, <2>2, <2>3, Zenon
<1>18. StreamInv'
  BY <1>16, <1>17 DEF StreamInv
<1>19. NewestInv' /\ PendingIsQueued'
  BY <1>2 DEF VideoInv, NewestInv, PendingIsQueued
<1>. QED
  BY <1>9, <1>18, <1>19 DEF VideoInv

\* A chunk joins the queue of the decoder that takes it, as the newest.
LEMMA DecodeKeeps ==
    ASSUME VideoInv, NEW c, c.last \in FrameNumber, c.size \in Size, Decode(c)
    PROVE  /\ clock' \in Nat /\ queue' \in Seq(Decoded) /\ configured' \in Size \cup {0}
           /\ decoder' \in {"none", "open", "closed"} /\ submitted' \in FrameNumber
           /\ pendingFrames' \subseteq 0..clock' /\ latestSubmitTimeMicros' \in 0..clock'
           /\ NewestInv' /\ PendingIsQueued'
           /\ decoder' # "closed" => submitted' = c.last /\ configured' = c.size
<1>. DEFINE fresh == decoder = "none" \/ configured # c.size
            works == fresh \/ decoder = "open"
<1>5. /\ clock' \in {clock, clock + 1} /\ latestSubmitTimeMicros' = clock'
      /\ pendingFrames' = (IF fresh THEN {} ELSE pendingFrames) \cup {clock'}
      /\ decoder' = (IF fresh THEN "open" ELSE decoder) /\ configured' = c.size
      /\ queue' = (IF fresh THEN <<>> ELSE queue)
                    \o IF works THEN <<[frame |-> c.last, time |-> clock']>> ELSE <<>>
      /\ submitted' = IF works THEN c.last ELSE submitted
  BY DEF Decode, Reset
<1>6. /\ clock' \in Nat /\ clock' >= clock
      /\ queue' \in Seq(Decoded)
      /\ decoder' # "closed" => works
      /\ works => /\ Len(queue') > 0
                  /\ queue'[Len(queue')] = [frame |-> c.last, time |-> clock']
                  /\ fresh \/ \A k \in 1..Len(queue) : k \in 1..Len(queue') /\ queue'[k] = queue[k]
  <2>. DEFINE before == IF fresh THEN <<>> ELSE queue
              x == [frame |-> c.last, time |-> clock']
  <2>1. clock' \in Nat /\ clock' >= clock
    <3>1. clock' = clock \/ clock' = clock + 1
      BY <1>5, Zenon
    <3>2. clock \in Nat
      BY DEF VideoInv, VideoTypes
    <3>. QED
      BY <3>1, <3>2
  <2>2. before \in Seq(Decoded)
    BY DEF VideoInv, VideoTypes
  <2>3. x \in Decoded
    BY <2>1 DEF Decoded
  <2>4. decoder' # "closed" => works
    BY <1>5 DEF VideoInv, VideoTypes
  <2>5. (works => queue' = before \o <<x>>) /\ (~works => queue' = before \o <<>>)
    BY <1>5
  <2>6. fresh \/ before = queue
    OBVIOUS
  <2>. HIDE DEF before, x, fresh, works
  <2>7. ~works => queue' \in Seq(Decoded)
    BY <2>2, <2>5
  <2>8. ASSUME works
        PROVE  /\ queue' \in Seq(Decoded) /\ Len(queue') > 0 /\ queue'[Len(queue')] = x
               /\ \A k \in 1..Len(before) : k \in 1..Len(queue') /\ queue'[k] = before[k]
    <3>1. queue' = Append(before, x)
      BY <2>2, <2>3, <2>5, <2>8
    <3>2. /\ queue' \in Seq(Decoded) /\ Len(queue') = Len(before) + 1 /\ Len(before) \in Nat
          /\ queue'[Len(before) + 1] = x /\ \A k \in 1..Len(before) : queue'[k] = before[k]
      BY <2>2, <2>3, <3>1, AppendProperties
    <3>. QED
      BY <3>2
  <2>. QED
    BY <2>1, <2>4, <2>6, <2>7, <2>8 DEF x
<1>7. /\ pendingFrames' \subseteq 0..clock' /\ latestSubmitTimeMicros' \in 0..clock'
      /\ decoder' \in {"none", "open", "closed"} /\ submitted' \in FrameNumber
      /\ configured' \in Size \cup {0}
  <2>1. pendingFrames' \subseteq 0..clock' /\ latestSubmitTimeMicros' \in 0..clock'
    <3>1. clock' \in Nat /\ clock' >= clock /\ clock \in Nat
      BY <1>6 DEF VideoInv, VideoTypes
    <3>2. latestSubmitTimeMicros' = clock' /\ pendingFrames' \subseteq pendingFrames \cup {clock'}
      BY <1>5, Zenon
    <3>3. pendingFrames \subseteq 0..clock
      BY DEF VideoInv, VideoTypes
    <3>. QED
      BY <3>1, <3>2, <3>3
  <2>2. decoder' \in {"none", "open", "closed"} /\ submitted' \in FrameNumber
    BY <1>5 DEF VideoInv, VideoTypes
  <2>. QED
    BY <1>5, <2>1, <2>2
<1>8. NewestInv'
  <2>. SUFFICES ASSUME decoder' = "open"
       PROVE  /\ queue' # <<>> /\ queue'[Len(queue')].frame = submitted'
              /\ queue'[Len(queue')].time = latestSubmitTimeMicros'
    BY DEF NewestInv
  <2>1. works /\ Len(queue') > 0 /\ queue'[Len(queue')] = [frame |-> c.last, time |-> clock']
    BY <1>6
  <2>2. submitted' = c.last /\ latestSubmitTimeMicros' = clock'
    BY <1>5, <2>1
  <2>3. queue' # <<>>
    BY <2>1
  <2>. QED
    BY <2>1, <2>2, <2>3
<1>9. PendingIsQueued'
  <2>. SUFFICES ASSUME decoder' = "open", NEW t \in pendingFrames'
       PROVE  \E k \in 1..Len(queue') : queue'[k].time = t
    BY DEF PendingIsQueued
  <2>1. works /\ Len(queue') > 0 /\ queue'[Len(queue')].time = clock' /\ queue' \in Seq(Decoded)
    BY <1>6
  <2>2. Len(queue') \in 1..Len(queue')
    BY <2>1
  <2>3. CASE t = clock'
    BY <2>1, <2>2, <2>3
  <2>4. CASE t # clock'
    <3>1. ~fresh /\ t \in pendingFrames
      <4>1. pendingFrames' = (IF fresh THEN {} ELSE pendingFrames) \cup {clock'}
        BY <1>5, Zenon
      <4>. HIDE DEF fresh
      <4>. QED
        BY <2>4, <4>1, Zenon
    <3>2. decoder = "open"
      BY <2>1, <3>1
    <3>3. PICK k \in 1..Len(queue) : queue[k].time = t
      BY <3>1, <3>2 DEF VideoInv, PendingIsQueued
    <3>4. k \in 1..Len(queue') /\ queue'[k] = queue[k]
      BY <1>6, <2>1, <3>1
    <3>. QED
      BY <3>3, <3>4
  <2>. QED
    BY <2>3, <2>4
<1>10. decoder' # "closed" => submitted' = c.last /\ configured' = c.size
  BY <1>5, <1>6
<1>. QED
  BY <1>6, <1>7, <1>8, <1>9, <1>10

\* The canvas keeps its types.
LEMMA CanvasTypes ==
    ASSUME VideoTypes, NEW resizes \in Nat, NEW pictures, ResizeCanvas(resizes, pictures)
    PROVE  shown' \in FrameNumber /\ wiped' \in BOOLEAN
<1>1. 0 \in FrameNumber
  BY VideoAssumption DEF FrameNumber
<1>2. wiped' \in BOOLEAN
  BY Zenon DEF ResizeCanvas
<1>. QED
  BY <1>1, <1>2 DEF ResizeCanvas, VideoTypes

\* The frames of an update join the queue of the decoder in their order.
LEMMA HandleUpdateInStep ==
    ASSUME VideoInv, HandleVideoUpdate
    PROVE  VideoInv'
<1>. DEFINE a == Head(answers)
            c == Head(a.picture)
            given == a.picture # <<>>
<1>1. /\ answers \in Seq(VideoAnswer) /\ answers # <<>> /\ answers' = Tail(answers)
      /\ asked' = asked + 1 + Len(a.resize)
      /\ ResizeCanvas(Len(a.resize), Len(a.picture))
      /\ IF given THEN Decode(c) ELSE UNCHANGED decoderVars
      /\ UNCHANGED <<screenSize, captured, configSize, backend, superseded, faults>>
  BY DEF VideoInv, VideoTypes, HandleVideoUpdate, serverVideo
<1>2. a \in VideoAnswer /\ (given => c \in Chunks)
  <2>1. a \in VideoAnswer
    BY <1>1
  <2>. QED
    BY <2>1 DEF VideoAnswer
<1>3. given => c.last \in FrameNumber /\ c.size \in Size
  BY <1>2 DEF Chunks
<1>4. asked' \in Nat /\ answers' \in Seq(VideoAnswer) /\ Len(a.resize) \in Nat
  <2>1. a.resize \in Seq(Size)
    BY <1>2 DEF VideoAnswer
  <2>2. Len(a.resize) \in Nat
    BY <2>1
  <2>3. answers' \in Seq(VideoAnswer)
    BY <1>1
  <2>4. \A i, j \in Nat : i + 1 + j \in Nat
    OBVIOUS
  <2>5. asked \in Nat
    BY DEF VideoInv, VideoTypes
  <2>. QED
    BY <1>1, <2>2, <2>3, <2>4, <2>5, Zenon
<1>5. ~given => Len(a.picture) = 0
  BY <1>2 DEF VideoAnswer
<1>. HIDE DEF a, c
<1>6. shown' \in FrameNumber /\ wiped' \in BOOLEAN
  BY <1>1, <1>4, CanvasTypes DEF VideoInv
<1>7. VideoTypes' /\ NewestInv' /\ PendingIsQueued'
  <2>1. CASE ~given
    <3>1. VideoTypes'
      BY <1>1, <1>4, <1>6, <2>1 DEF decoderVars, VideoInv, VideoTypes
    <3>2. (wiped' /\ shown' = 0) \/ (wiped' = wiped /\ shown' = shown)
      BY <1>1, <1>4, <1>5, <2>1 DEF ResizeCanvas, VideoInv, VideoTypes
    <3>3. NewestInv'
      BY <1>1, <2>1, <3>2 DEF decoderVars, VideoInv, NewestInv
    <3>4. PendingIsQueued'
      BY <1>1, <2>1 DEF decoderVars, VideoInv, PendingIsQueued
    <3>. QED
      BY <3>1, <3>3, <3>4
  <2>2. CASE given
    <3>1. /\ clock' \in Nat /\ queue' \in Seq(Decoded) /\ configured' \in Size \cup {0}
          /\ decoder' \in {"none", "open", "closed"} /\ submitted' \in FrameNumber
          /\ pendingFrames' \subseteq 0..clock' /\ latestSubmitTimeMicros' \in 0..clock'
          /\ NewestInv' /\ PendingIsQueued'
      BY <1>1, <1>3, <2>2, DecodeKeeps
    <3>. QED
      BY <1>1, <1>4, <1>6, <3>1 DEF VideoInv, VideoTypes
  <2>. QED
    BY <2>1, <2>2
<1>10. \A k \in 1..Len(answers) : \A e :
          InStep(answers, Track, Seen, k + 1, e) => InStep(answers', Track', Seen', k, e)
  <2>. SUFFICES ASSUME NEW k \in 1..Len(answers), NEW e, InStep(answers, Track, Seen, k + 1, e)
       PROVE  InStep(answers', Track', Seen', k, e)
    OBVIOUS
  <2>1. PICK i : (Track # "closed" => i = Seen) /\ Latest(answers, k + 1, StreamEnd, i, e)
    BY Zenon DEF InStep
  <2>. DEFINE j == IF a \in DOMAIN StreamEnd THEN StreamEnd[a] ELSE i
  <2>2. Latest(answers', k, StreamEnd, j, e)
    <3>1. Latest(Tail(answers), k, StreamEnd, j, e)
      BY <1>1, <2>1, LatestTail, Zenon DEF a
    <3>. QED
      BY <1>1, <3>1, Zenon
  <2>3. a \in DOMAIN StreamEnd <=> given
    BY <1>2 DEF StreamEnd
  <2>4. given => StreamEnd[a] = <<c.last, c.size>>
    BY <1>2 DEF StreamEnd, c
  <2>5. Track' # "closed" => j = Seen'
    <3>1. CASE ~given
      BY <1>1, <2>1, <2>3, <3>1 DEF decoderVars, Seen, Track
    <3>2. CASE given
      <4>1. decoder' # "closed" => submitted' = c.last /\ configured' = c.size
        BY <1>1, <1>3, <3>2, DecodeKeeps
      <4>2. Track' # "closed" => decoder' # "closed"
        BY DEF Track
      <4>. QED
        BY <2>3, <2>4, <3>2, <4>1, <4>2 DEF Seen
    <3>. QED
      BY <3>1, <3>2
  <2>. QED
    BY <2>2, <2>5, Zenon DEF InStep
<1>11. StreamInv'
  <2>1. Len(answers) \in Nat /\ Len(answers) > 0 /\ Len(answers') = Len(answers) - 1
        /\ \A k \in 1..Len(answers') : answers'[k] = answers[k + 1] /\ k + 1 \in 1..Len(answers)
                                       /\ k \in 1..Len(answers)
    BY <1>1
  <2>2. ASSUME NEW k \in 1..Len(answers'), answers'[k].picture # <<>>, ~Head(answers'[k].picture).key
        PROVE  InStep(answers', Track', Seen', k,
                      <<Head(answers'[k].picture).ref, Head(answers'[k].picture).size>>)
    <3>1. InStep(answers, Track, Seen, k + 1,
                 <<Head(answers[k + 1].picture).ref, Head(answers[k + 1].picture).size>>)
      BY <2>1, <2>2 DEF VideoInv, StreamInv
    <3>. QED
      BY <1>10, <2>1, <3>1, Zenon
  <2>3. ASSUME backend.last # 0
        PROVE  InStep(answers', Track', Seen', Len(answers') + 1, <<backend.last, backend.size>>)
    <3>1. InStep(answers, Track, Seen, Len(answers) + 1, <<backend.last, backend.size>>)
      BY <2>3 DEF VideoInv, StreamInv
    <3>2. Len(answers) \in 1..Len(answers) /\ Len(answers') + 1 = Len(answers)
      BY <2>1
    <3>. QED
      BY <1>10, <3>1, <3>2, Zenon
  <2>. QED
    BY <1>1, <2>2, <2>3 DEF StreamInv
<1>. QED
  BY <1>7, <1>11 DEF VideoInv

\* An update of the other socket: the decoder takes it for its newest chunk.
LEMMA HandleStrayInStep ==
    ASSUME VideoInv, HandleStrayUpdate
    PROVE  VideoInv'
<1>1. PICK resizes \in 0..1, c \in [size : Size, last : 1..captured] :
         asked' = asked + 1 + resizes /\ ResizeCanvas(resizes, 1) /\ Decode(c)
  BY DEF HandleStrayUpdate
<1>2. /\ superseded /\ faults' = faults + 1
      /\ UNCHANGED <<screenSize, captured, configSize, backend, answers, superseded>>
  BY DEF HandleStrayUpdate, serverVideo
<1>3. c.size \in Size /\ c.last \in FrameNumber
  <2>1. c.size \in Size /\ c.last \in 1..captured
    OBVIOUS
  <2>2. captured \in 0..MaxFrames
    BY DEF VideoInv, VideoTypes, FrameNumber
  <2>. QED
    BY <2>1, <2>2, VideoAssumption DEF FrameNumber
<1>4. /\ clock' \in Nat /\ queue' \in Seq(Decoded) /\ configured' \in Size \cup {0}
      /\ decoder' \in {"none", "open", "closed"} /\ submitted' \in FrameNumber
      /\ pendingFrames' \subseteq 0..clock' /\ latestSubmitTimeMicros' \in 0..clock'
      /\ NewestInv' /\ PendingIsQueued'
  BY <1>1, <1>3, DecodeKeeps
<1>5. shown' \in FrameNumber /\ wiped' \in BOOLEAN
  BY <1>1, CanvasTypes DEF VideoInv
<1>6. asked' \in Nat /\ faults' \in Nat
  BY <1>1, <1>2 DEF VideoInv, VideoTypes
<1>7. VideoTypes'
  BY <1>2, <1>4, <1>5, <1>6 DEF VideoInv, VideoTypes
<1>8. \A k, e : InStep(answers, Track, Seen, k, e) => InStep(answers', Track', Seen', k, e)
  <2>1. Track' = "closed" /\ answers' = answers
    BY <1>2 DEF Track
  <2>. QED
    BY <2>1, Zenon DEF InStep
<1>9. StreamInv'
  BY <1>2, <1>8 DEF VideoInv, StreamInv
<1>. QED
  BY <1>4, <1>7, <1>9 DEF VideoInv

\* The decoder takes the frame its reference was made for.
LEMMA HandleFrameInStep ==
    ASSUME VideoInv, HandleFrame
    PROVE  VideoInv'
<1>. DEFINE f == Head(queue)
            stale == f.time # latestSubmitTimeMicros
<1>1. /\ decoder = "open" /\ queue # <<>> /\ queue' = Tail(queue) /\ queue \in Seq(Decoded)
      /\ pendingFrames' = IF stale THEN pendingFrames \ {f.time} ELSE {t \in pendingFrames : t > f.time}
      /\ shown' = IF stale THEN shown ELSE f.frame
      /\ UNCHANGED <<screenSize, captured, configSize, backend, asked, answers, decoder, configured,
                     submitted, clock, latestSubmitTimeMicros, wiped, superseded, faults>>
  BY DEF VideoInv, VideoTypes, HandleFrame, serverVideo
<1>2. /\ f \in Decoded /\ f = queue[1] /\ queue' \in Seq(Decoded) /\ Len(queue) \in Nat \ {0}
      /\ Len(queue') = Len(queue) - 1
      /\ \A k \in 1..Len(queue') : queue'[k] = queue[k + 1]
      /\ \A k \in 1..Len(queue) : k = 1 \/ (k - 1 \in 1..Len(queue') /\ queue'[k - 1] = queue[k])
  BY <1>1
<1>3. f.frame \in FrameNumber /\ f.time \in Nat
  BY <1>2 DEF Decoded
<1>. HIDE DEF f
<1>4. pendingFrames' \subseteq pendingFrames /\ \A t \in pendingFrames' : t # f.time
  <2>1. pendingFrames \subseteq Nat
    BY DEF VideoInv, VideoTypes
  <2>. QED
    BY <1>1, <1>3, <2>1
<1>5. VideoTypes'
  <2>1. shown' \in FrameNumber
    BY <1>1, <1>3 DEF VideoInv, VideoTypes
  <2>. QED
    BY <1>1, <1>2, <1>4, <2>1 DEF VideoInv, VideoTypes
<1>6. StreamInv'
  BY <1>1 DEF VideoInv, StreamInv, Seen, Track
<1>7. NewestInv'
  <2>1. queue[Len(queue)].frame = submitted /\ queue[Len(queue)].time = latestSubmitTimeMicros
    BY <1>1 DEF VideoInv, NewestInv
  <2>2. CASE Len(queue) = 1
    <3>1. queue' = <<>> /\ shown' = submitted
      BY <1>1, <1>2, <2>1, <2>2
    <3>. QED
      BY <1>1, <3>1 DEF NewestInv
  <2>3. CASE Len(queue) # 1
    <3>1. Len(queue') \in 1..Len(queue') /\ Len(queue') + 1 = Len(queue)
      BY <1>2, <2>3
    <3>2. queue' # <<>> /\ queue'[Len(queue')] = queue[Len(queue)]
      BY <1>2, <3>1
    <3>. QED
      BY <1>1, <2>1, <3>2 DEF NewestInv
  <2>. QED
    BY <2>2, <2>3
<1>8. PendingIsQueued'
  <2>. SUFFICES ASSUME NEW t \in pendingFrames' PROVE \E k \in 1..Len(queue') : queue'[k].time = t
    BY DEF PendingIsQueued
  <2>1. t \in pendingFrames /\ t # f.time
    BY <1>4
  <2>2. PICK k \in 1..Len(queue) : queue[k].time = t
    BY <1>1, <2>1 DEF VideoInv, PendingIsQueued
  <2>3. k # 1
    BY <1>2, <2>1, <2>2
  <2>. QED
    BY <1>2, <2>2, <2>3
<1>. QED
  BY <1>5, <1>6, <1>7, <1>8 DEF VideoInv

LEMMA NextVideo == VideoInv /\ [VideoNext]_videoVars => VideoInv'
<1>. SUFFICES ASSUME VideoInv, [VideoNext]_videoVars PROVE VideoInv'
  OBVIOUS
<1>1. CASE ScreenIsResized
  BY <1>1 DEF ScreenIsResized, decoderVars, VideoInv, VideoTypes, StreamInv, NewestInv, PendingIsQueued, Seen, Track
<1>2. CASE DecoderFails
  <2>1. /\ decoder = "open" /\ decoder' = "closed" /\ queue' = <<>> /\ faults' = faults + 1
        /\ UNCHANGED <<screenSize, captured, configSize, backend, asked, answers, configured, submitted,
                       clock, latestSubmitTimeMicros, pendingFrames, shown, wiped, superseded>>
    BY <1>2 DEF DecoderFails, serverVideo
  <2>2. VideoTypes' /\ NewestInv' /\ PendingIsQueued'
    BY <2>1 DEF VideoInv, VideoTypes, NewestInv, PendingIsQueued
  <2>3. \A k, e : InStep(answers, Track, Seen, k, e) => InStep(answers', Track', Seen', k, e)
    <3>1. Track' = "closed" /\ answers' = answers
      BY <2>1 DEF Track
    <3>. QED
      BY <3>1, Zenon DEF InStep
  <2>4. StreamInv'
    BY <2>1, <2>3 DEF VideoInv, StreamInv
  <2>. QED
    BY <2>2, <2>4 DEF VideoInv
<1>3. CASE VideoReconnect
  <2>1. /\ decoder' = "none" /\ configured' = 0 /\ queue' = <<>> /\ submitted' = 0
        /\ latestSubmitTimeMicros' = 0 /\ pendingFrames' = {} /\ faults' = faults + 1
        /\ backend' = NewBackend(screenSize) /\ asked' = 1 /\ answers' = <<>>
        /\ shown' = 0 /\ wiped' = FALSE /\ superseded' \in BOOLEAN
        /\ UNCHANGED <<screenSize, captured, configSize, clock>>
    BY <1>3 DEF VideoReconnect, Reset
  <2>2. backend' \in Backends /\ Len(backend'.held) = 0 /\ backend'.last = 0
    BY <2>1, NewBackendIsBackend DEF VideoInv, VideoTypes
  <2>3. VideoTypes'
    <3>1. 0 \in FrameNumber /\ <<>> \in Seq(VideoAnswer) /\ <<>> \in Seq(Decoded) /\ 0 <= MaxHeld
      BY VideoAssumption DEF FrameNumber
    <3>2. wiped' \in BOOLEAN /\ superseded' \in BOOLEAN
      BY <2>1, Zenon
    <3>. QED
      BY <2>1, <2>2, <3>1, <3>2 DEF VideoInv, VideoTypes
  <2>4. Len(answers') = 0
    BY <2>1
  <2>. QED
    BY <2>1, <2>2, <2>3, <2>4 DEF VideoInv, StreamInv, NewestInv, PendingIsQueued
<1>4. CASE UNCHANGED videoVars
  BY <1>4 DEF videoVars, VideoInv, VideoTypes, StreamInv, NewestInv, PendingIsQueued, Seen, Track
<1>. QED
  BY <1>1, <1>2, <1>3, <1>4, EncodeAndSendInStep, HandleUpdateInStep, HandleStrayInStep,
     HandleFrameInStep DEF VideoNext

LEMMA VideoInvHolds == VideoSpec => []VideoInv
  BY InitVideo, NextVideo, PTL DEF VideoSpec

\* The invariant of the video path holds its types.
LEMMA VideoMeansTypes == VideoInv => VideoTypeOK
  BY TypesImplyVideoTypeOK DEF VideoInv

\* The variables of the video path keep their types; the encoder never holds back more
\* frames than it may (EncodeMulti, the Media Foundation backend).
THEOREM VideoTypeCorrect == VideoSpec => []VideoTypeOK
  BY VideoMeansTypes, VideoInvHolds, PTL

\* The latest of the answers with a picture is the one Before chooses.
LEMMA LatestIsBefore ==
    ASSUME VideoTypes, NEW k \in 1..Len(answers), NEW e, Latest(answers, k, StreamEnd, Seen, e)
    PROVE  Before(k) = e
<1>. DEFINE earlier == {j \in 1..(k - 1) : answers[j].picture # <<>>}
<1>1. /\ \A j \in 1..(k - 1) : answers[j] \in DOMAIN StreamEnd <=> answers[j].picture # <<>>
      /\ \A j \in earlier : StreamEnd[answers[j]] = <<Head(answers[j].picture).last, Head(answers[j].picture).size>>
  <2>1. \A j \in 1..(k - 1) : answers[j] \in VideoAnswer
    BY DEF VideoTypes
  <2>. QED
    BY <2>1 DEF StreamEnd
<1>2. CASE (\A l \in 1..(k - 1) : answers[l] \notin DOMAIN StreamEnd) /\ Seen = e
  <2>1. earlier = {}
    BY <1>1, <1>2
  <2>. QED
    BY <1>2, <2>1 DEF Before, Seen
<1>3. ASSUME NEW j \in 1..(k - 1), answers[j] \in DOMAIN StreamEnd, StreamEnd[answers[j]] = e,
             \A l \in (j + 1)..(k - 1) : answers[l] \notin DOMAIN StreamEnd
      PROVE  Before(k) = e
  <2>1. j \in earlier
    BY <1>1, <1>3
  <2>2. \A o \in earlier : o <= j
    BY <1>1, <1>3
  <2>3. (CHOOSE i \in earlier : \A o \in earlier : o <= i) = j
    <3>1. \A i \in earlier : (\A o \in earlier : o <= i) => i = j
      BY <2>1, <2>2
    <3>. QED
      BY <2>1, <2>2, <3>1
  <2>. QED
    BY <1>1, <1>3, <2>1, <2>3 DEF Before
<1>. QED
  BY <1>2, <1>3 DEF Latest

\* A delta in the queue follows the frame it refers to.
LEMMA VideoMeansDeltas == VideoInv => DeltasFollowTheirReference
<1>. SUFFICES ASSUME VideoInv, decoder # "closed", ~superseded, NEW k \in 1..Len(answers), answers[k].picture # <<>>,
                     ~Head(answers[k].picture).key
     PROVE  Before(k) = <<Head(answers[k].picture).ref, Head(answers[k].picture).size>>
  BY DEF DeltasFollowTheirReference
<1>. DEFINE e == <<Head(answers[k].picture).ref, Head(answers[k].picture).size>>
<1>1. InStep(answers, Track, Seen, k, e)
  BY DEF VideoInv, StreamInv
<1>2. Latest(answers, k, StreamEnd, Seen, e)
  BY <1>1 DEF InStep, Track
<1>. QED
  BY <1>2, LatestIsBefore DEF VideoInv

\* A delta frame reaches a decoder that has just been given the frame it refers to, of
\* the same size, for any number of frames, resizes, reconnections and decoder errors,
\* and however many frames the encoder holds back (EncodeMulti, H264Decoder.decode).
THEOREM DeltasInStep == VideoSpec => []DeltasFollowTheirReference
  BY VideoMeansDeltas, VideoInvHolds, PTL

\* An idle decoder has been given the newest frame.
LEMMA VideoMeansNewest == VideoInv => IdleDecoderShowsLatest
  BY DEF VideoInv, NewestInv, IdleDecoderShowsLatest

\* A decoder with nothing left to do shows the newest frame it was given, although
\* frames are told apart only by a clock that may stand still, or a canvas that was
\* resized since (handleFrame, handleDesktopResize).
THEOREM NewestFrameShown == VideoSpec => []IdleDecoderShowsLatest
  BY VideoMeansNewest, VideoInvHolds, PTL

\* The frames that wait are in the decoder.
LEMMA VideoMeansPending == VideoInv => PendingIsQueued
  BY DEF VideoInv

\* pendingFrames never outgrows the decoder's queue (decode, the output callback).
THEOREM PendingBounded == VideoSpec => []PendingIsQueued
  BY VideoMeansPending, VideoInvHolds, PTL

-----------------------------------------------------------------------------
(* Input and clipboard. *)

KeyMsg == [type : {"key"}, down : BOOLEAN, key : {"Control", "Meta", "v"}, text : Clip]
PointerMsg == [type : {"pointer"}, mask : SUBSET (Button \cup {"scroll"})]
CutMsg == [type : {"cut"}, text : Clip]
InputMsg == KeyMsg \cup PointerMsg \cup CutMsg

\* The messages that set the buttons and the text, and to what.
Masks == [m \in PointerMsg |-> m.mask]
Cuts == [m \in CutMsg |-> m.text]

\* Proxy and server take the messages one after the other.
OnTheWay == toVnc \o toProxy

InputTypes ==
    /\ isMac \in BOOLEAN /\ injector \in {"windows", "wayland", "direct"} /\ modHeld \in BOOLEAN
    /\ carriedOut \in BOOLEAN /\ astray \subseteq Button /\ clipFromClient \in BOOLEAN
    /\ buttonMask \subseteq Button /\ osButtons \subseteq Button
    /\ lastButtonMask \subseteq Button \cup {"scroll"}
    /\ osKeys \subseteq {"Control", "Meta", "v"}
    /\ localClip \in Clip /\ osClip \in Clip /\ lastCut \in Clip
    /\ events \in 0..MaxEvents /\ reads \in 0..events
    /\ toProxy \in Seq(InputMsg) /\ toVnc \in Seq(InputMsg)

\* In the queue q, which follows the text cut, every v of a paste comes after its text.
FreshIn(q, cut) ==
    \A k \in 1..Len(q) :
        q[k].type = "key" /\ q[k].text # NoText => Latest(q, k, Cuts, cut, q[k].text)

\* The queue q, after the mask last, leaves the mask of the browser; an event that was
\* not carried out and is the last one leaves another.
FollowsIn(q, last, carried, mask) ==
    \/ Latest(q, Len(q) + 1, Masks, last, mask)
    \/ ~carried /\ \A k \in 1..Len(q) : q[k] \notin PointerMsg

ButtonsInv ==
    /\ \A b \in Button \ astray : b \in osButtons <=> b \in lastButtonMask
    /\ FollowsIn(OnTheWay, lastButtonMask, carriedOut, buttonMask)

PasteInv ==
    /\ clipFromClient => osClip = lastCut
    /\ FreshIn(OnTheWay, lastCut)
    /\ PasteIsFresh

InputInv == InputTypes /\ ButtonsInv /\ PasteInv

\* What the messages hold, and that their type tells them apart.
LEMMA MessageKinds ==
    /\ \A d \in BOOLEAN, k \in {"Control", "Meta", "v"} :
          Key(d, k) \in KeyMsg /\ Key(d, k).text = NoText /\ Key(d, k).key = k
    /\ \A d \in BOOLEAN, t \in Clip :
          PasteKey(d, t) \in KeyMsg /\ PasteKey(d, t).text = t /\ PasteKey(d, t).key = "v"
    /\ \A m \in SUBSET (Button \cup {"scroll"}) : Pointer(m) \in PointerMsg /\ Pointer(m).mask = m
    /\ \A t \in Clip : Cut(t) \in CutMsg /\ Cut(t).text = t
    /\ \A m \in InputMsg : /\ m \in KeyMsg <=> m.type = "key"
                           /\ m \in PointerMsg <=> m.type = "pointer"
                           /\ m \in CutMsg <=> m.type = "cut"
<1>1. /\ \A d \in BOOLEAN, k \in {"Control", "Meta", "v"} :
            Key(d, k) \in KeyMsg /\ Key(d, k).text = NoText /\ Key(d, k).key = k
      /\ \A d \in BOOLEAN, t \in Clip :
            PasteKey(d, t) \in KeyMsg /\ PasteKey(d, t).text = t /\ PasteKey(d, t).key = "v"
  BY DEF Key, PasteKey, KeyMsg, Clip
<1>2. \A m \in SUBSET (Button \cup {"scroll"}) : Pointer(m) \in PointerMsg /\ Pointer(m).mask = m
  BY DEF Pointer, PointerMsg
<1>3. \A t \in Clip : Cut(t) \in CutMsg /\ Cut(t).text = t
  BY DEF Cut, CutMsg
<1>4. /\ \A m \in KeyMsg : m.type = "key"
      /\ \A m \in PointerMsg : m.type = "pointer"
      /\ \A m \in CutMsg : m.type = "cut"
  BY DEF KeyMsg, PointerMsg, CutMsg
<1>. QED
  BY <1>1, <1>2, <1>3, <1>4 DEF InputMsg

\* A message at the end of a queue.
LEMMA LatestSnoc ==
    ASSUME NEW X, NEW q \in Seq(X), NEW a \in X
    PROVE  /\ Append(q, a) \in Seq(X) /\ Len(Append(q, a)) = Len(q) + 1 /\ Len(q) \in Nat
           /\ Append(q, a)[Len(q) + 1] = a /\ \A k \in 1..Len(q) : Append(q, a)[k] = q[k]
           /\ \A k \in 1..(Len(q) + 1) : \A v, i, m :
                 Latest(Append(q, a), k, v, i, m) <=> Latest(q, k, v, i, m)
           /\ \A v, i, m :
                 /\ a \in DOMAIN v => Latest(Append(q, a), Len(Append(q, a)) + 1, v, i, v[a])
                 /\ a \notin DOMAIN v /\ Latest(q, Len(q) + 1, v, i, m)
                      => Latest(Append(q, a), Len(Append(q, a)) + 1, v, i, m)
<1>. DEFINE r == Append(q, a)
            n == Len(q) + 1
<1>1. /\ r \in Seq(X) /\ Len(r) = n /\ Len(q) \in Nat /\ r[n] = a
      /\ \A k \in 1..Len(q) : r[k] = q[k]
  BY AppendProperties
<1>2. r = q \o <<a>> /\ <<a>> \in Seq(X)
  OBVIOUS
<1>3. n \in 1..n /\ n \in Nat \ {0}
  BY <1>1
<1>. HIDE DEF r, n
<1>4. \A k \in 1..n : \A v, i, m : Latest(r, k, v, i, m) <=> Latest(q, k, v, i, m)
  <2>1. \A k \in 1..(Len(q) + 1) : \A v, i, m : Latest(q \o <<a>>, k, v, i, m) <=> Latest(q, k, v, i, m)
    BY <1>2, LatestPrefix, Zenon
  <2>. QED
    BY <1>2, <2>1, Zenon DEF n
<1>5. \A v, i, m :
         /\ r[n] \in DOMAIN v => Latest(r, n + 1, v, i, v[r[n]])
         /\ r[n] \notin DOMAIN v /\ Latest(r, n, v, i, m) => Latest(r, n + 1, v, i, m)
  BY <1>3, LatestStep, Zenon
<1>6. \A v, i, m :
         /\ a \in DOMAIN v => Latest(r, Len(r) + 1, v, i, v[a])
         /\ a \notin DOMAIN v /\ Latest(q, n, v, i, m) => Latest(r, Len(r) + 1, v, i, m)
  BY <1>1, <1>3, <1>4, <1>5, Zenon
<1>. QED
  BY <1>1, <1>4, <1>6, Zenon DEF r, n

\* A message between two queues ends the first.
LEMMA ConcatSnoc ==
    ASSUME NEW X, NEW q \in Seq(X), NEW a \in X, NEW r \in Seq(X)
    PROVE  q \o (<<a>> \o r) = Append(q, a) \o r
<1>1. <<a>> \in Seq(X) /\ q \o <<a>> = Append(q, a)
  OBVIOUS
<1>2. q \o (<<a>> \o r) = (q \o <<a>>) \o r
  BY <1>1, ConcatAssociative
<1>. QED
  BY <1>1, <1>2

\* Two messages at the end of a queue are one after the other.
LEMMA PairSnoc ==
    ASSUME NEW X, NEW q \in Seq(X), NEW a \in X, NEW b \in X
    PROVE  <<a, b>> \in Seq(X) /\ q \o <<a, b>> = Append(Append(q, a), b)
<1>1. <<a, b>> \in Seq(X) /\ Len(<<a, b>>) = 2 /\ <<a, b>>[1] = a /\ <<a, b>>[2] = b
  OBVIOUS
<1>2. \A k \in 1..(Len(q) + 2) : (q \o <<a, b>>)[k] = Append(Append(q, a), b)[k]
  BY <1>1
<1>. QED
  BY <1>1, <1>2

\* So are four.
LEMMA QuadSnoc ==
    ASSUME NEW X, NEW q \in Seq(X), NEW a \in X, NEW b \in X, NEW c \in X, NEW d \in X
    PROVE  <<a, b, c, d>> \in Seq(X) /\ q \o <<a, b, c, d>> = Append(Append(Append(Append(q, a), b), c), d)
<1>. DEFINE ab == <<a, b>>
            cd == <<c, d>>
<1>1. ab \in Seq(X) /\ cd \in Seq(X) /\ <<a, b, c, d>> = ab \o cd /\ <<a, b, c, d>> \in Seq(X)
  OBVIOUS
<1>2. q \o ab = Append(Append(q, a), b) /\ q \o ab \in Seq(X)
  <2>1. q \o ab = Append(Append(q, a), b)
    BY PairSnoc
  <2>. QED
    BY <1>1, <2>1, ConcatProperties
<1>. HIDE DEF ab
<1>3. (q \o ab) \o cd = Append(Append(q \o ab, c), d)
  BY <1>2, PairSnoc
<1>. HIDE DEF cd
<1>4. q \o (ab \o cd) = (q \o ab) \o cd
  BY <1>1, ConcatAssociative
<1>. QED
  BY <1>1, <1>2, <1>3, <1>4, Zenon

\* What the queue q must leave, for the browser's buttons mask.
QueueOK(q, mask) ==
    /\ FreshIn(q, lastCut)
    /\ FollowsIn(q, lastButtonMask, carriedOut, mask)

\* A message that keeps the queue right may be added to it.
LEMMA OneMore ==
    ASSUME NEW q \in Seq(InputMsg), NEW mask, QueueOK(q, mask), NEW a \in InputMsg,
           a.type = "key" /\ a.text # NoText => Latest(q, Len(q) + 1, Cuts, lastCut, a.text)
    PROVE  QueueOK(Append(q, a), IF a \in PointerMsg THEN a.mask ELSE mask)
<1>. DEFINE r == Append(q, a)
<1>1. /\ Len(r) = Len(q) + 1 /\ Len(q) \in Nat /\ r[Len(q) + 1] = a /\ \A k \in 1..Len(q) : r[k] = q[k]
      /\ \A k \in 1..(Len(q) + 1) : \A v, i, m : Latest(r, k, v, i, m) <=> Latest(q, k, v, i, m)
      /\ \A v, i, m :
            /\ a \in DOMAIN v => Latest(r, Len(r) + 1, v, i, v[a])
            /\ a \notin DOMAIN v /\ Latest(q, Len(q) + 1, v, i, m) => Latest(r, Len(r) + 1, v, i, m)
  <2>1. /\ Append(q, a) \in Seq(InputMsg) /\ Len(Append(q, a)) = Len(q) + 1 /\ Len(q) \in Nat
        /\ Append(q, a)[Len(q) + 1] = a /\ \A k \in 1..Len(q) : Append(q, a)[k] = q[k]
        /\ \A k \in 1..(Len(q) + 1) : \A v, i, m :
              Latest(Append(q, a), k, v, i, m) <=> Latest(q, k, v, i, m)
        /\ \A v, i, m :
              /\ a \in DOMAIN v => Latest(Append(q, a), Len(Append(q, a)) + 1, v, i, v[a])
              /\ a \notin DOMAIN v /\ Latest(q, Len(q) + 1, v, i, m)
                   => Latest(Append(q, a), Len(Append(q, a)) + 1, v, i, m)
    BY LatestSnoc
  <2>. QED
    BY <2>1, Zenon
<1>. HIDE DEF r
<1>2. \A k \in 1..Len(r) : k \in 1..(Len(q) + 1) /\ (k = Len(q) + 1 \/ k \in 1..Len(q))
  BY <1>1
<1>3. FreshIn(r, lastCut)
  <2>. SUFFICES ASSUME NEW k \in 1..Len(r), r[k].type = "key", r[k].text # NoText
       PROVE  Latest(r, k, Cuts, lastCut, r[k].text)
    BY DEF FreshIn
  <2>1. Latest(q, k, Cuts, lastCut, r[k].text)
    <3>1. CASE k = Len(q) + 1
      BY <1>1, <3>1, Zenon
    <3>2. CASE k \in 1..Len(q)
      BY <1>1, <3>2, Zenon DEF QueueOK, FreshIn
    <3>. QED
      BY <1>2, <3>1, <3>2, Zenon
  <2>. QED
    BY <1>1, <1>2, <2>1, Zenon
<1>4. FollowsIn(r, lastButtonMask, carriedOut, IF a \in PointerMsg THEN a.mask ELSE mask)
  <2>1. CASE a \in PointerMsg
    <3>1. a \in DOMAIN Masks /\ Masks[a] = a.mask
      BY <2>1 DEF Masks
    <3>. QED
      BY <1>1, <2>1, <3>1, Zenon DEF FollowsIn
  <2>2. CASE a \notin PointerMsg
    <3>1. a \notin DOMAIN Masks
      BY <2>2 DEF Masks
    <3>2. FollowsIn(q, lastButtonMask, carriedOut, mask)
      BY DEF QueueOK
    <3>3. (\A k \in 1..Len(q) : q[k] \notin PointerMsg) => (\A k \in 1..Len(r) : r[k] \notin PointerMsg)
      BY <1>1, <1>2, <2>2, Zenon
    <3>. QED
      BY <1>1, <2>2, <3>1, <3>2, <3>3, Zenon DEF FollowsIn
  <2>. QED
    BY <2>1, <2>2, Zenon
<1>. QED
  BY <1>3, <1>4, Zenon DEF QueueOK, r

\* What is sent joins the end of the queue, for a browser whose own state has changed.
LEMMA SendKeeps ==
    ASSUME InputInv, NEW r \in Seq(InputMsg), SendFn(r), UNCHANGED <<isMac, injector, toVnc, desktopVars>>,
           QueueOK(OnTheWay \o r, buttonMask'),
           modHeld' \in BOOLEAN, buttonMask' \subseteq Button, localClip' \in Clip,
           events' \in 0..MaxEvents, reads' \in 0..events'
    PROVE  InputInv'
<1>1. toProxy \in Seq(InputMsg) /\ toVnc \in Seq(InputMsg) /\ toProxy' = toProxy \o r /\ toVnc' = toVnc
  BY DEF InputInv, InputTypes, SendFn
<1>2. OnTheWay' = OnTheWay \o r
  <2>1. (toVnc \o toProxy) \o r = toVnc \o (toProxy \o r)
    BY <1>1, ConcatAssociative
  <2>. QED
    BY <1>1, <2>1, Zenon DEF OnTheWay
<1>3. UNCHANGED <<isMac, injector, lastButtonMask, carriedOut, astray, osButtons, osKeys, osClip, lastCut,
                  clipFromClient, pasted>>
  BY DEF desktopVars
<1>4. toProxy' \in Seq(InputMsg)
  BY <1>1
<1>5. InputTypes'
  BY <1>1, <1>3, <1>4 DEF InputInv, InputTypes
<1>6. QueueOK(OnTheWay', buttonMask')
  BY <1>2, Zenon
<1>7. ButtonsInv'
  BY <1>3, <1>6 DEF InputInv, ButtonsInv, QueueOK
<1>8. PasteInv'
  BY <1>3, <1>6 DEF InputInv, PasteInv, PasteIsFresh, QueueOK
<1>. QED
  BY <1>5, <1>7, <1>8 DEF InputInv

\* What is on its way to the injector is right for the mask the browser holds.
LEMMA QueueIsOK == InputInv => QueueOK(OnTheWay, buttonMask) /\ OnTheWay \in Seq(InputMsg)
<1>. SUFFICES ASSUME InputInv PROVE QueueOK(OnTheWay, buttonMask) /\ OnTheWay \in Seq(InputMsg)
  OBVIOUS
<1>1. OnTheWay \in Seq(InputMsg)
  BY DEF InputInv, InputTypes, OnTheWay
<1>. QED
  BY <1>1 DEF InputInv, ButtonsInv, PasteInv, QueueOK

\* sendPaste after the text l: every v has its text.
LEMMA PasteSends ==
    ASSUME InputTypes, NEW q \in Seq(InputMsg), NEW mask, QueueOK(q, mask), NEW l \in Clip,
           l # NoText => Latest(q, Len(q) + 1, Cuts, lastCut, l)
    PROVE  QueueOK(q \o SendPaste(l), mask) /\ SendPaste(l) \in Seq(InputMsg)
<1>. DEFINE d == PasteKey(TRUE, l)
            u == PasteKey(FALSE, l)
            on == Key(TRUE, "Control")
            off == Key(FALSE, "Control")
<1>1. /\ d \in KeyMsg /\ u \in KeyMsg /\ on \in KeyMsg /\ off \in KeyMsg
      /\ d \in InputMsg /\ u \in InputMsg /\ on \in InputMsg /\ off \in InputMsg
      /\ d.text = l /\ u.text = l /\ on.text = NoText /\ off.text = NoText
      /\ d.key = "v" /\ u.key = "v" /\ on.key = "Control" /\ off.key = "Control"
  BY MessageKinds DEF InputMsg
<1>. HIDE DEF d, u, on, off
<1>2. \A a \in KeyMsg : a \notin PointerMsg /\ a \notin DOMAIN Cuts /\ a.type = "key"
  <2>1. \A a \in KeyMsg : a.type = "key"
    BY DEF KeyMsg
  <2>. QED
    BY <2>1, MessageKinds DEF InputMsg, Cuts
<1>4. ASSUME NEW p \in Seq(InputMsg), QueueOK(p, mask), l # NoText => Latest(p, Len(p) + 1, Cuts, lastCut, l)
      PROVE  QueueOK(Append(Append(p, d), u), mask) /\ Append(Append(p, d), u) \in Seq(InputMsg)
  <2>1. QueueOK(Append(p, d), mask) /\ Append(p, d) \in Seq(InputMsg)
    <3>1. QueueOK(Append(p, d), IF d \in PointerMsg THEN d.mask ELSE mask)
      BY <1>1, <1>4, OneMore, Zenon
    <3>. QED
      BY <1>1, <1>2, <3>1
  <2>2. l # NoText => Latest(Append(p, d), Len(Append(p, d)) + 1, Cuts, lastCut, l)
    BY <1>1, <1>2, <1>4, LatestSnoc, Zenon
  <2>3. QueueOK(Append(Append(p, d), u), mask) /\ Append(Append(p, d), u) \in Seq(InputMsg)
    <3>1. u.type = "key" /\ u.text # NoText => Latest(Append(p, d), Len(Append(p, d)) + 1, Cuts, lastCut, u.text)
      BY <1>1, <2>2, Zenon
    <3>2. QueueOK(Append(Append(p, d), u), IF u \in PointerMsg THEN u.mask ELSE mask)
      BY <1>1, <2>1, <3>1, OneMore, Zenon
    <3>. QED
      BY <1>1, <1>2, <2>1, <3>2
  <2>. QED
    BY <2>3
<1>5. CASE ~isMac
  <2>1. SendPaste(l) = <<d, u>>
    BY <1>5 DEF SendPaste, d, u
  <2>2. <<d, u>> \in Seq(InputMsg) /\ q \o <<d, u>> = Append(Append(q, d), u)
    BY <1>1, PairSnoc
  <2>3. QueueOK(Append(Append(q, d), u), mask)
    BY <1>4, <1>5, Zenon
  <2>. QED
    BY <2>1, <2>2, <2>3
<1>6. CASE isMac
  <2>1. SendPaste(l) = <<on, d, u, off>>
    BY <1>6 DEF SendPaste, d, u, on, off
  <2>. DEFINE p == Append(q, on)
  <2>2. QueueOK(p, mask) /\ p \in Seq(InputMsg)
    <3>1. QueueOK(Append(q, on), IF on \in PointerMsg THEN on.mask ELSE mask)
      BY <1>1, OneMore
    <3>. QED
      BY <1>1, <1>2, <3>1
  <2>3. l # NoText => Latest(p, Len(p) + 1, Cuts, lastCut, l)
    BY <1>1, <1>2, LatestSnoc, Zenon
  <2>. HIDE DEF p
  <2>. DEFINE r == Append(Append(p, d), u)
  <2>5. QueueOK(r, mask) /\ r \in Seq(InputMsg)
    BY <1>4, <2>2, <2>3
  <2>. HIDE DEF r
  <2>6. QueueOK(Append(r, off), mask)
    <3>1. QueueOK(Append(r, off), IF off \in PointerMsg THEN off.mask ELSE mask)
      BY <1>1, <2>5, OneMore
    <3>. QED
      BY <1>1, <1>2, <3>1
  <2>7. <<on, d, u, off>> \in Seq(InputMsg) /\ q \o <<on, d, u, off>> = Append(r, off)
    BY <1>1, QuadSnoc DEF r, p
  <2>. QED
    BY <2>1, <2>6, <2>7
<1>. QED
  BY <1>5, <1>6

LEMMA ReadTextKeeps == ASSUME InputInv, ReadTextSettles PROVE InputInv'
<1>1. /\ reads > 0 /\ reads' = reads - 1
      /\ UNCHANGED <<isMac, injector, modHeld, buttonMask, localClip, toVnc, desktopVars, events>>
      /\ \/ SendFn((IF localClip # NoText THEN <<Cut(localClip)>> ELSE <<>>) \o SendPaste(localClip))
         \/ SendFn(SendPaste(NoText))
  BY DEF ReadTextSettles
<1>2. InputTypes /\ QueueOK(OnTheWay, buttonMask) /\ OnTheWay \in Seq(InputMsg)
  BY QueueIsOK DEF InputInv
<1>3. /\ modHeld' \in BOOLEAN /\ buttonMask' \subseteq Button /\ localClip' \in Clip
      /\ events' \in 0..MaxEvents /\ reads' \in 0..events'
  BY <1>1, <1>2 DEF InputTypes
<1>4. NoText \in Clip /\ localClip \in Clip
  BY <1>2 DEF InputTypes, Clip
<1>. DEFINE q == OnTheWay
<1>5. ASSUME NEW r \in Seq(InputMsg), SendFn(r), QueueOK(q \o r, buttonMask) PROVE InputInv'
  BY <1>1, <1>3, <1>5, SendKeeps
<1>6. CASE SendFn(SendPaste(NoText))
  <2>1. QueueOK(q \o SendPaste(NoText), buttonMask) /\ SendPaste(NoText) \in Seq(InputMsg)
    BY <1>2, <1>4, PasteSends
  <2>. QED
    BY <1>5, <1>6, <2>1
<1>7. CASE SendFn(<<>> \o SendPaste(localClip)) /\ localClip = NoText
  <2>1. QueueOK(q \o SendPaste(localClip), buttonMask) /\ SendPaste(localClip) \in Seq(InputMsg)
    BY <1>2, <1>4, <1>7, PasteSends
  <2>2. <<>> \o SendPaste(localClip) = SendPaste(localClip)
    BY <2>1
  <2>. QED
    BY <1>5, <1>7, <2>1, <2>2
<1>8. CASE SendFn(<<Cut(localClip)>> \o SendPaste(localClip)) /\ localClip # NoText
  <2>. DEFINE a == Cut(localClip)
  <2>1. a \in CutMsg /\ a \in InputMsg /\ a.type = "cut" /\ a.text = localClip /\ a \notin PointerMsg
    BY <1>4, MessageKinds DEF InputMsg
  <2>2. a \in DOMAIN Cuts /\ Cuts[a] = localClip
    BY <2>1 DEF Cuts
  <2>. HIDE DEF a
  <2>3. QueueOK(Append(q, a), buttonMask) /\ Append(q, a) \in Seq(InputMsg)
    <3>1. QueueOK(Append(q, a), IF a \in PointerMsg THEN a.mask ELSE buttonMask)
      BY <1>2, <2>1, OneMore
    <3>. QED
      BY <1>2, <2>1, <3>1
  <2>4. Latest(Append(q, a), Len(Append(q, a)) + 1, Cuts, lastCut, localClip)
    <3>1. Latest(Append(q, a), Len(Append(q, a)) + 1, Cuts, lastCut, Cuts[a])
      BY <1>2, <2>1, <2>2, LatestSnoc, Zenon
    <3>. QED
      BY <2>2, <3>1
  <2>5. QueueOK(Append(q, a) \o SendPaste(localClip), buttonMask) /\ SendPaste(localClip) \in Seq(InputMsg)
    BY <1>2, <1>4, <2>3, <2>4, PasteSends
  <2>6. q \o (<<a>> \o SendPaste(localClip)) = Append(q, a) \o SendPaste(localClip)
    BY <1>2, <2>1, <2>5, ConcatSnoc
  <2>7. <<a>> \o SendPaste(localClip) \in Seq(InputMsg)
    BY <2>1, <2>5
  <2>. QED
    BY <1>5, <1>8, <2>5, <2>6, <2>7 DEF a
<1>. QED
  BY <1>1, <1>6, <1>7, <1>8

\* The actions that send one message that is no v.
LEMMA OneMessageKeeps ==
    ASSUME InputInv, NEW a \in InputMsg, SendFn(<<a>>), UNCHANGED <<isMac, injector, toVnc, desktopVars>>,
           a.type = "key" => a.text = NoText /\ a.key # "v",
           buttonMask' = IF a \in PointerMsg THEN a.mask ELSE buttonMask,
           modHeld' \in BOOLEAN, buttonMask' \subseteq Button, localClip' \in Clip,
           events' \in 0..MaxEvents, reads' \in 0..events'
    PROVE  InputInv'
<1>1. QueueOK(OnTheWay, buttonMask) /\ OnTheWay \in Seq(InputMsg)
  BY QueueIsOK
<1>2. QueueOK(Append(OnTheWay, a), buttonMask')
  <2>1. QueueOK(Append(OnTheWay, a), IF a \in PointerMsg THEN a.mask ELSE buttonMask)
    BY <1>1, OneMore
  <2>. QED
    BY <2>1
<1>3. OnTheWay \o <<a>> = Append(OnTheWay, a) /\ <<a>> \in Seq(InputMsg)
  BY <1>1
<1>. QED
  BY <1>2, <1>3, SendKeeps

LEMMA BrowserKeeps ==
    ASSUME InputInv,
           \/ \E down \in BOOLEAN : HandleModifier(down)
           \/ HandlePasteShortcut \/ HandleButtons \/ HandleWheel \/ HandlePasteEvent
    PROVE  InputInv'
<1>1. events \in 0..MaxEvents /\ reads \in 0..events /\ MaxEvents \in Nat /\ modHeld \in BOOLEAN
      /\ buttonMask \subseteq Button /\ localClip \in Clip /\ isMac \in BOOLEAN
  BY InputAssumption DEF InputInv, InputTypes
<1>2. UserEvent => events' = events + 1 /\ events' \in 0..MaxEvents /\ reads \in 0..events' /\ reads + 1 \in 0..events'
  BY <1>1 DEF UserEvent
<1>3. ASSUME NEW down \in BOOLEAN, HandleModifier(down) PROVE InputInv'
  <2>. DEFINE a == Key(down, Modifier)
  <2>1. a \in KeyMsg /\ a.text = NoText /\ a.key # "v" /\ a \in InputMsg /\ a \notin PointerMsg
    <3>1. Modifier \in {"Control", "Meta"}
      BY DEF Modifier
    <3>2. a \in KeyMsg /\ a.text = NoText /\ a.key = Modifier
      BY <3>1, MessageKinds
    <3>. QED
      BY <3>1, <3>2, MessageKinds DEF InputMsg, KeyMsg
  <2>2. /\ SendFn(<<a>>) /\ UNCHANGED <<isMac, injector, toVnc, desktopVars>> /\ modHeld' = down
        /\ UNCHANGED <<buttonMask, reads, localClip>> /\ UserEvent
    BY <1>3 DEF HandleModifier
  <2>. HIDE DEF a
  <2>. QED
    BY <1>1, <1>2, <2>1, <2>2, OneMessageKeeps
<1>4. CASE HandlePasteShortcut
  <2>1. /\ UserEvent /\ reads' = reads + 1 /\ UNCHANGED <<isMac, injector, toVnc, desktopVars>>
        /\ UNCHANGED <<modHeld, buttonMask, localClip>>
        /\ SendFn(IF isMac THEN <<Key(FALSE, "Meta")>> ELSE <<>>)
    BY <1>4 DEF HandlePasteShortcut
  <2>2. CASE isMac
    <3>. DEFINE a == Key(FALSE, "Meta")
    <3>1. a \in KeyMsg /\ a.text = NoText /\ a.key # "v" /\ a \in InputMsg /\ a \notin PointerMsg
      <4>1. a \in KeyMsg /\ a.text = NoText /\ a.key = "Meta"
        BY MessageKinds
      <4>. QED
        BY <4>1, MessageKinds DEF InputMsg, KeyMsg
    <3>2. SendFn(<<a>>)
      BY <2>1, <2>2
    <3>. HIDE DEF a
    <3>. QED
      BY <1>1, <1>2, <2>1, <3>1, <3>2, OneMessageKeeps
  <2>3. CASE ~isMac
    <3>1. SendFn(<<>>) /\ <<>> \in Seq(InputMsg)
      BY <2>1, <2>3
    <3>2. QueueOK(OnTheWay \o <<>>, buttonMask)
      BY QueueIsOK
    <3>. QED
      BY <1>1, <1>2, <2>1, <3>1, <3>2, SendKeeps
  <2>. QED
    BY <1>1, <2>2, <2>3
<1>5. CASE HandleButtons
  <2>. DEFINE a == Pointer(buttonMask')
  <2>1. buttonMask' \subseteq Button
    BY <1>1, <1>5 DEF HandleButtons, Button
  <2>2. a \in PointerMsg /\ a.mask = buttonMask' /\ a \in InputMsg /\ a.type # "key"
    BY <2>1, MessageKinds DEF InputMsg
  <2>3. /\ SendFn(<<a>>) /\ UNCHANGED <<isMac, injector, toVnc, desktopVars>> /\ UserEvent
        /\ UNCHANGED <<modHeld, reads, localClip>>
    BY <1>5 DEF HandleButtons
  <2>. HIDE DEF a
  <2>. QED
    BY <1>1, <1>2, <2>1, <2>2, <2>3, OneMessageKeeps
<1>6. CASE HandleWheel
  <2>. DEFINE a == Pointer(buttonMask \cup {"scroll"})
              b == Pointer(buttonMask)
              q == OnTheWay
  <2>1. /\ a \in PointerMsg /\ a \in InputMsg /\ a.type # "key"
        /\ b \in PointerMsg /\ b \in InputMsg /\ b.type # "key" /\ b.mask = buttonMask
    BY <1>1, MessageKinds DEF InputMsg
  <2>2. /\ SendFn(<<a, b>>) /\ UNCHANGED <<isMac, injector, toVnc, desktopVars>> /\ UserEvent
        /\ UNCHANGED <<modHeld, buttonMask, reads, localClip>>
    BY <1>6 DEF HandleWheel
  <2>. HIDE DEF a, b
  <2>3. QueueOK(q, buttonMask) /\ q \in Seq(InputMsg)
    BY QueueIsOK
  <2>4. QueueOK(Append(q, a), a.mask) /\ Append(q, a) \in Seq(InputMsg)
    <3>1. QueueOK(Append(q, a), IF a \in PointerMsg THEN a.mask ELSE buttonMask)
      BY <2>1, <2>3, OneMore
    <3>. QED
      BY <2>1, <2>3, <3>1
  <2>5. QueueOK(Append(Append(q, a), b), buttonMask)
    <3>1. QueueOK(Append(Append(q, a), b), IF b \in PointerMsg THEN b.mask ELSE a.mask)
      BY <2>1, <2>4, OneMore
    <3>. QED
      BY <2>1, <3>1
  <2>6. q \o <<a, b>> = Append(Append(q, a), b) /\ <<a, b>> \in Seq(InputMsg)
    BY <2>1, <2>3, PairSnoc
  <2>. QED
    BY <1>1, <1>2, <2>2, <2>5, <2>6, SendKeeps
<1>7. CASE HandlePasteEvent
  <2>. DEFINE a == Cut(localClip)
  <2>1. a \in CutMsg /\ a \in InputMsg /\ a.type # "key" /\ a \notin PointerMsg
    BY <1>1, MessageKinds DEF InputMsg
  <2>2. /\ SendFn(<<a>>) /\ UNCHANGED <<isMac, injector, toVnc, desktopVars>> /\ UserEvent
        /\ UNCHANGED <<modHeld, buttonMask, reads, localClip>>
    BY <1>7 DEF HandlePasteEvent
  <2>. HIDE DEF a
  <2>. QED
    BY <1>1, <1>2, <2>1, <2>2, OneMessageKeeps
<1>. QED
  BY <1>3, <1>4, <1>5, <1>6, <1>7

LEMMA LocalCopyKeeps == ASSUME InputInv, LocalCopy PROVE InputInv'
<1>1. PICK t \in Text :
         localClip' = t /\ (UNCHANGED <<osClip, clipFromClient>> \/ (osClip' = t /\ clipFromClient' = FALSE))
  BY DEF LocalCopy
<1>2. /\ UNCHANGED <<isMac, injector, modHeld, buttonMask, reads, toProxy, toVnc,
                     lastButtonMask, carriedOut, astray, osButtons, osKeys, lastCut, pasted>>
      /\ UserEvent
  BY DEF LocalCopy
<1>3. InputTypes'
  <2>1. localClip' \in Clip /\ osClip' \in Clip
    BY <1>1 DEF InputInv, InputTypes, Clip
  <2>2. clipFromClient' \in BOOLEAN
    BY <1>1, Zenon DEF InputInv, InputTypes
  <2>3. events' \in 0..MaxEvents /\ reads \in 0..events'
    BY <1>2, InputAssumption DEF InputInv, InputTypes, UserEvent
  <2>. QED
    BY <1>2, <2>1, <2>2, <2>3 DEF InputInv, InputTypes
<1>4. OnTheWay' = OnTheWay
  BY <1>2 DEF OnTheWay
<1>5. ButtonsInv'
  BY <1>2, <1>4 DEF InputInv, ButtonsInv
<1>6. clipFromClient' => osClip' = lastCut'
  BY <1>1, <1>2 DEF InputInv, PasteInv
<1>7. PasteInv'
  BY <1>2, <1>4, <1>6 DEF InputInv, PasteInv, PasteIsFresh
<1>. QED
  BY <1>3, <1>5, <1>7 DEF InputInv

LEMMA RelayKeeps == ASSUME InputInv, Relay PROVE InputInv'
<1>1. /\ toProxy \in Seq(InputMsg) /\ toVnc \in Seq(InputMsg) /\ toProxy # <<>>
      /\ toProxy' = Tail(toProxy) /\ toVnc' = Append(toVnc, Head(toProxy))
      /\ UNCHANGED <<isMac, injector, modHeld, buttonMask, reads, localClip, lastButtonMask, carriedOut, astray,
                     osButtons, osKeys, osClip, lastCut, clipFromClient, pasted, events>>
  BY DEF InputInv, InputTypes, Relay, desktopVars
<1>2. Head(toProxy) \in InputMsg /\ Tail(toProxy) \in Seq(InputMsg) /\ toProxy = <<Head(toProxy)>> \o Tail(toProxy)
  BY <1>1
<1>3. OnTheWay' = OnTheWay
  <2>1. toVnc \o (<<Head(toProxy)>> \o Tail(toProxy)) = Append(toVnc, Head(toProxy)) \o Tail(toProxy)
    BY <1>1, <1>2, ConcatSnoc
  <2>. QED
    BY <1>1, <1>2, <2>1 DEF OnTheWay
<1>4. toVnc' \in Seq(InputMsg) /\ toProxy' \in Seq(InputMsg)
  BY <1>1, <1>2
<1>5. InputTypes'
  BY <1>1, <1>4 DEF InputInv, InputTypes
<1>6. ButtonsInv' /\ PasteInv'
  BY <1>1, <1>3 DEF InputInv, ButtonsInv, PasteInv, PasteIsFresh
<1>. QED
  BY <1>5, <1>6 DEF InputInv

\* The first message is taken from the queue, and what it sets holds for the rest.
LEMMA TailKeeps ==
    ASSUME NEW q \in Seq(InputMsg), q # <<>>
    PROVE  /\ \A cut : FreshIn(q, cut) =>
                 FreshIn(Tail(q), IF Head(q) \in DOMAIN Cuts THEN Cuts[Head(q)] ELSE cut)
           /\ \A last, mask : Latest(q, Len(q) + 1, Masks, last, mask) =>
                 Latest(Tail(q), Len(Tail(q)) + 1, Masks,
                        IF Head(q) \in DOMAIN Masks THEN Masks[Head(q)] ELSE last, mask)
<1>1. /\ Len(q) \in Nat /\ Len(q) > 0 /\ Len(Tail(q)) = Len(q) - 1
      /\ \A k \in 1..Len(Tail(q)) : /\ Tail(q)[k] = q[k + 1]
                                    /\ k + 1 \in 1..Len(q) /\ k \in 1..Len(q)
  OBVIOUS
<1>2. \A k \in 1..Len(q) : \A v, i, m :
         Latest(q, k + 1, v, i, m) => Latest(Tail(q), k, v, IF Head(q) \in DOMAIN v THEN v[Head(q)] ELSE i, m)
  BY LatestTail, Zenon
<1>3. ASSUME NEW cut, FreshIn(q, cut)
      PROVE  FreshIn(Tail(q), IF Head(q) \in DOMAIN Cuts THEN Cuts[Head(q)] ELSE cut)
  BY <1>1, <1>2, <1>3, Zenon DEF FreshIn
<1>4. ASSUME NEW last, NEW mask, Latest(q, Len(q) + 1, Masks, last, mask)
      PROVE  Latest(Tail(q), Len(Tail(q)) + 1, Masks,
                    IF Head(q) \in DOMAIN Masks THEN Masks[Head(q)] ELSE last, mask)
  <2>1. Len(q) \in 1..Len(q) /\ Len(Tail(q)) + 1 = Len(q)
    BY <1>1
  <2>. QED
    BY <1>2, <1>4, <2>1, Zenon
<1>. QED
  BY <1>3, <1>4

\* The server takes the first message of its queue.
LEMMA ServedTakes ==
    ASSUME InputInv, NEW type, Served(type)
    PROVE  /\ OnTheWay \in Seq(InputMsg) /\ OnTheWay # <<>> /\ OnTheWay' = Tail(OnTheWay)
           /\ Head(OnTheWay) = Head(toVnc) /\ Head(toVnc) \in InputMsg /\ Head(toVnc).type = type
           /\ toVnc' \in Seq(InputMsg)
           /\ UNCHANGED <<isMac, injector, modHeld, buttonMask, reads, localClip, toProxy, events>>
<1>1. /\ toProxy \in Seq(InputMsg) /\ toVnc \in Seq(InputMsg) /\ toVnc # <<>> /\ toVnc' = Tail(toVnc)
      /\ Head(toVnc).type = type
      /\ UNCHANGED <<isMac, injector, modHeld, buttonMask, reads, localClip, toProxy, events>>
  BY DEF InputInv, InputTypes, Served, inputBrowserVars
<1>2. Head(toVnc) \in InputMsg /\ toVnc' \in Seq(InputMsg) /\ OnTheWay \in Seq(InputMsg)
  BY <1>1 DEF OnTheWay
<1>3. (toVnc \o toProxy) # <<>> /\ Head(toVnc \o toProxy) = Head(toVnc)
  BY <1>1
<1>4. Tail(toVnc \o toProxy) = Tail(toVnc) \o toProxy
  <2>1. \A k \in 1..(Len(toVnc) + Len(toProxy) - 1) :
           Tail(toVnc \o toProxy)[k] = (Tail(toVnc) \o toProxy)[k]
    BY <1>1
  <2>. QED
    BY <1>1, <2>1
<1>. QED
  BY <1>1, <1>2, <1>3, <1>4 DEF OnTheWay

\* The values set by a message that sets something else are as they were.
LEMMA SetsOne ==
    /\ \A m \in InputMsg : m \in DOMAIN Masks <=> m.type = "pointer"
    /\ \A m \in InputMsg : m \in DOMAIN Cuts <=> m.type = "cut"
    /\ \A m \in DOMAIN Masks : Masks[m] = m.mask
    /\ \A m \in DOMAIN Cuts : Cuts[m] = m.text
  BY MessageKinds DEF Masks, Cuts

\* A queue without its first message, which was no pointer event.
LEMMA FollowsTail ==
    ASSUME NEW q \in Seq(InputMsg), q # <<>>, NEW last, NEW carried, NEW mask,
           FollowsIn(q, last, carried, mask), Head(q).type # "pointer"
    PROVE  FollowsIn(Tail(q), last, carried, mask)
<1>1. Head(q) \notin DOMAIN Masks
  BY SetsOne
<1>2. CASE Latest(q, Len(q) + 1, Masks, last, mask)
  BY <1>1, <1>2, TailKeeps, Zenon DEF FollowsIn
<1>3. CASE ~carried /\ \A k \in 1..Len(q) : q[k] \notin PointerMsg
  <2>1. \A k \in 1..Len(Tail(q)) : Tail(q)[k] = q[k + 1] /\ k + 1 \in 1..Len(q)
    OBVIOUS
  <2>. QED
    BY <1>3, <2>1, Zenon DEF FollowsIn
<1>. QED
  BY <1>2, <1>3 DEF FollowsIn

\* The first message of a queue has nothing before it.
LEMMA LatestFirst ==
    ASSUME NEW q, NEW v, NEW i, NEW m, Latest(q, 1, v, i, m)
    PROVE  i = m
<1>1. \A j \in 1..(1 - 1) : FALSE
  OBVIOUS
<1>. QED
  BY <1>1, Zenon DEF Latest

LEMMA KeyEventKeeps == ASSUME InputInv, KeyEvent PROVE InputInv'
<1>. DEFINE m == Head(toVnc)
            q == OnTheWay
<1>1. /\ Served("key")
      /\ InjectKey(m) \/ UNCHANGED <<osKeys, pasted>>
      /\ UNCHANGED <<lastButtonMask, carriedOut, astray, osButtons, osClip, lastCut, clipFromClient>>
  BY DEF KeyEvent
<1>2. /\ q \in Seq(InputMsg) /\ q # <<>> /\ OnTheWay' = Tail(q) /\ Head(q) = m
      /\ m \in InputMsg /\ m.type = "key" /\ toVnc' \in Seq(InputMsg)
      /\ UNCHANGED <<isMac, injector, modHeld, buttonMask, reads, localClip, toProxy, events>>
  BY <1>1, ServedTakes
<1>3. m \in KeyMsg /\ m.key \in {"Control", "Meta", "v"} /\ m.down \in BOOLEAN
  BY <1>2, MessageKinds DEF KeyMsg
<1>4. 1 \in 1..Len(q) /\ q[1] = m
  BY <1>2
<1>5. m \notin DOMAIN Masks /\ m \notin DOMAIN Cuts
  BY <1>2, SetsOne
<1>. HIDE DEF m, q
<1>6. InputTypes'
  <2>1. osKeys' \subseteq {"Control", "Meta", "v"}
    BY <1>1, <1>3 DEF InputInv, InputTypes, InjectKey
  <2>. QED
    BY <1>1, <1>2, <2>1 DEF InputInv, InputTypes
<1>7. ButtonsInv'
  <2>1. FollowsIn(Tail(q), lastButtonMask, carriedOut, buttonMask)
    BY <1>2, FollowsTail DEF InputInv, ButtonsInv, q
  <2>. QED
    BY <1>1, <1>2, <2>1 DEF InputInv, ButtonsInv
<1>8. PasteInv'
  <2>1. FreshIn(q, lastCut)
    BY DEF InputInv, PasteInv, q
  <2>2. FreshIn(Tail(q), lastCut)
    BY <1>2, <1>5, <2>1, TailKeeps, Zenon
  <2>3. m.text # NoText => m.text = lastCut
    <3>1. m.text # NoText => Latest(q, 1, Cuts, lastCut, m.text)
      BY <1>2, <1>4, <2>1, Zenon DEF FreshIn
    <3>. QED
      BY <3>1, LatestFirst, Zenon
  <2>4. clipFromClient => osClip = lastCut
    BY DEF InputInv, PasteInv
  <2>5. PasteIsFresh'
    <3>1. CASE InjectKey(m) /\ m.down /\ m.key = "v"
      <4>1. pasted'.want = m.text /\ pasted'.cut = lastCut /\ pasted'.got = osClip
            /\ pasted'.fromClient = clipFromClient
        BY <3>1 DEF InjectKey
      <4>. QED
        BY <2>3, <2>4, <4>1, Zenon DEF PasteIsFresh
    <3>2. CASE pasted' = pasted
      BY <3>2 DEF InputInv, PasteInv, PasteIsFresh
    <3>. QED
      BY <1>1, <3>1, <3>2 DEF InjectKey
  <2>. QED
    BY <1>1, <1>2, <2>2, <2>4, <2>5 DEF PasteInv
<1>. QED
  BY <1>6, <1>7, <1>8 DEF InputInv

\* Some of the changed buttons are injected; the others, which are not recorded or went
\* astray, are as they were.
LEMMA InjectedAgrees ==
    ASSUME NEW mask, NEW done, NEW last, NEW lost, lost \subseteq Button,
           done \subseteq Changed(mask), osButtons \subseteq Button,
           \A b \in Button \ astray : b \in osButtons <=> b \in lastButtonMask,
           \/ last = mask /\ \A b \in Button \ lost : b \in Changed(mask) => b \in done
           \/ last = lastButtonMask /\ \A b \in Button \ lost : b \notin done,
           \A b \in Button \ lost : b \in astray => b \in done
    PROVE  /\ Injected(mask, done) \subseteq Button
           /\ \A b \in Button \ lost : b \in Injected(mask, done) <=> b \in last
<1>1. Changed(mask) \subseteq Button
      /\ \A b \in Button : b \in Changed(mask) <=> ((b \in mask) # (b \in lastButtonMask))
  BY DEF Changed
<1>2. ASSUME NEW b \in Button \ lost PROVE b \in Injected(mask, done) <=> b \in last
  <2>1. CASE b \in done
    BY <1>2, <2>1 DEF Injected
  <2>2. CASE b \notin done
    <3>1. b \in osButtons <=> b \in lastButtonMask
      BY <1>2, <2>2
    <3>2. b \in Injected(mask, done) <=> b \in osButtons
      BY <2>2 DEF Injected
    <3>. QED
      BY <1>1, <1>2, <2>2, <3>1, <3>2
  <2>. QED
    BY <2>1, <2>2
<1>3. Injected(mask, done) \subseteq Button
  BY <1>1 DEF Injected
<1>. QED
  BY <1>2, <1>3

\* What a pointer event leaves: the mask is recorded when the event went through, and
\* nothing is recorded otherwise; buttons that did not go astray are as it is recorded.
LEMMA PointerEffect ==
    ASSUME InputTypes, NEW mask \in SUBSET (Button \cup {"scroll"}),
           DirectPointerEvent(mask) \/ WindowsPointerEvent(mask) \/ WaylandPointerEvent(mask),
           \A b \in Button \ astray : b \in osButtons <=> b \in lastButtonMask
    PROVE  /\ carriedOut' \in BOOLEAN /\ astray' \subseteq Button /\ osButtons' \subseteq Button
           /\ \A b \in Button \ astray' : b \in osButtons' <=> b \in lastButtonMask'
           /\ \/ lastButtonMask' = mask
              \/ lastButtonMask' = lastButtonMask /\ carriedOut' = FALSE
<1>. DEFINE all == Changed(mask)
<1>1. all \subseteq Button
  BY DEF Changed
<1>2. osButtons \subseteq Button /\ carriedOut \in BOOLEAN /\ astray \subseteq Button
  BY DEF InputTypes
<1>3. ASSUME NEW swallowed \in SUBSET all, Inject(mask, swallowed)
      PROVE  /\ carriedOut' \in BOOLEAN /\ astray' \subseteq Button /\ osButtons' \subseteq Button
             /\ \A b \in Button \ astray' : b \in osButtons' <=> b \in lastButtonMask'
             /\ lastButtonMask' = mask
  <2>1. osButtons' = Injected(mask, all \ swallowed) /\ lastButtonMask' = mask
        /\ carriedOut' = TRUE /\ astray' = (astray \ all) \cup swallowed
    BY <1>3 DEF Inject
  <2>. HIDE DEF all
  <2>2. carriedOut' \in BOOLEAN
    BY <2>1, Zenon
  <2>3. astray' \subseteq Button
    BY <1>1, <1>2, <2>1
  <2>4. all \ swallowed \subseteq all /\ \A b \in Button \ astray' : b \in all => b \in all \ swallowed
    BY <2>1
  <2>5. \A b \in Button \ astray' : b \in astray => b \in all \ swallowed
    BY <2>1
  <2>6. /\ Injected(mask, all \ swallowed) \subseteq Button
        /\ \A b \in Button \ astray' : b \in Injected(mask, all \ swallowed) <=> b \in mask
    BY <1>2, <2>3, <2>4, <2>5, InjectedAgrees DEF all
  <2>. QED
    BY <2>1, <2>2, <2>3, <2>6
<1>4. CASE Ignore
  <2>1. carriedOut' = FALSE /\ lastButtonMask' = lastButtonMask /\ astray' = astray /\ osButtons' = osButtons
    BY <1>4 DEF Ignore
  <2>2. carriedOut' \in BOOLEAN
    BY <2>1, Zenon
  <2>. QED
    BY <1>2, <2>1, <2>2
<1>5. ASSUME NEW b \in all, osButtons' = Injected(mask, all \cap EarlierBits[b]),
             astray' = astray \cup (all \cap EarlierBits[b]),
             carriedOut' = FALSE, lastButtonMask' = lastButtonMask
      PROVE  /\ carriedOut' \in BOOLEAN /\ astray' \subseteq Button /\ osButtons' \subseteq Button
             /\ \A c \in Button \ astray' : c \in osButtons' <=> c \in lastButtonMask'
             /\ lastButtonMask' = lastButtonMask /\ carriedOut' = FALSE
  <2>. DEFINE done == all \cap EarlierBits[b]
  <2>1. done \subseteq Changed(mask) /\ osButtons' = Injected(mask, done) /\ astray' = astray \cup done
    BY <1>5
  <2>. HIDE DEF done, all
  <2>2. astray' \subseteq Button
    BY <1>1, <1>2, <2>1 DEF all
  <2>3. \A c \in Button \ astray' : c \notin done /\ c \notin astray
    BY <2>1
  <2>4. /\ Injected(mask, done) \subseteq Button
        /\ \A c \in Button \ astray' : c \in Injected(mask, done) <=> c \in lastButtonMask
    BY <1>2, <2>1, <2>2, <2>3, InjectedAgrees
  <2>5. carriedOut' \in BOOLEAN
    BY <1>5, Zenon
  <2>. QED
    BY <1>5, <2>1, <2>2, <2>4, <2>5
<1>6. {} \in SUBSET all
  OBVIOUS
<1>7. CASE DirectPointerEvent(mask)
  BY <1>3, <1>7 DEF DirectPointerEvent
<1>8. CASE WindowsPointerEvent(mask)
  BY <1>3, <1>4, <1>8 DEF WindowsPointerEvent
<1>9. CASE WaylandPointerEvent(mask)
  BY <1>3, <1>4, <1>5, <1>6, <1>9 DEF WaylandPointerEvent
<1>. QED
  BY <1>7, <1>8, <1>9

LEMMA PointerEventKeeps == ASSUME InputInv, PointerEvent PROVE InputInv'
<1>. DEFINE m == Head(toVnc)
            q == OnTheWay
<1>1. /\ Served("pointer") /\ UNCHANGED <<osKeys, osClip, lastCut, clipFromClient, pasted>>
      /\ injector \in {"windows", "wayland", "direct"}
  BY DEF PointerEvent, InputInv, InputTypes
<1>2. DirectPointerEvent(m.mask) \/ WindowsPointerEvent(m.mask) \/ WaylandPointerEvent(m.mask)
  BY <1>1 DEF PointerEvent
<1>3. /\ q \in Seq(InputMsg) /\ q # <<>> /\ OnTheWay' = Tail(q) /\ Head(q) = m
      /\ m \in InputMsg /\ m.type = "pointer" /\ toVnc' \in Seq(InputMsg)
      /\ UNCHANGED <<isMac, injector, modHeld, buttonMask, reads, localClip, toProxy, events>>
  BY <1>1, ServedTakes
<1>4. m \in PointerMsg /\ m.mask \in SUBSET (Button \cup {"scroll"})
  BY <1>3, MessageKinds DEF PointerMsg
<1>5. m \in DOMAIN Masks /\ Masks[m] = m.mask /\ m \notin DOMAIN Cuts
  BY <1>3, SetsOne
<1>. HIDE DEF m, q
<1>6. /\ carriedOut' \in BOOLEAN /\ astray' \subseteq Button /\ osButtons' \subseteq Button
      /\ \A b \in Button \ astray' : b \in osButtons' <=> b \in lastButtonMask'
      /\ \/ lastButtonMask' = m.mask
         \/ lastButtonMask' = lastButtonMask /\ carriedOut' = FALSE
  BY <1>2, <1>4, PointerEffect DEF InputInv, ButtonsInv
<1>7. InputTypes'
  <2>1. lastButtonMask' \subseteq Button \cup {"scroll"}
    BY <1>4, <1>6 DEF InputInv, InputTypes
  <2>. QED
    BY <1>1, <1>3, <1>6, <2>1 DEF InputInv, InputTypes
<1>8. FollowsIn(Tail(q), lastButtonMask', carriedOut', buttonMask)
  <2>1. Latest(q, Len(q) + 1, Masks, lastButtonMask, buttonMask)
    <3>1. 1 \in 1..Len(q) /\ q[1] = m
      BY <1>3
    <3>. QED
      BY <1>4, <3>1, Zenon DEF InputInv, ButtonsInv, FollowsIn, q
  <2>2. Latest(Tail(q), Len(Tail(q)) + 1, Masks, m.mask, buttonMask)
    <3>1. Latest(Tail(q), Len(Tail(q)) + 1, Masks,
                 IF Head(q) \in DOMAIN Masks THEN Masks[Head(q)] ELSE lastButtonMask, buttonMask)
      BY <1>3, <2>1, TailKeeps, Zenon
    <3>. QED
      BY <1>3, <1>5, <3>1
  <2>3. CASE lastButtonMask' = m.mask
    BY <2>2, <2>3 DEF FollowsIn
  <2>4. CASE carriedOut' = FALSE
    <3>1. Len(Tail(q)) \in Nat /\ (Len(Tail(q)) + 1) - 1 = Len(Tail(q))
      BY <1>3
    <3>2. \/ \A l \in 1..Len(Tail(q)) : Tail(q)[l] \notin DOMAIN Masks
          \/ Latest(Tail(q), Len(Tail(q)) + 1, Masks, lastButtonMask', buttonMask)
      BY <2>2, <3>1 DEF Latest
    <3>3. DOMAIN Masks = PointerMsg
      BY DEF Masks
    <3>. QED
      BY <2>4, <3>2, <3>3 DEF FollowsIn
  <2>. QED
    BY <1>6, <2>3, <2>4
<1>9. ButtonsInv'
  BY <1>3, <1>6, <1>8 DEF ButtonsInv
<1>10. FreshIn(Tail(q), lastCut)
  BY <1>3, <1>5, TailKeeps, Zenon DEF InputInv, PasteInv, q
<1>11. PasteInv'
  BY <1>1, <1>3, <1>10 DEF InputInv, PasteInv, PasteIsFresh
<1>. QED
  BY <1>7, <1>9, <1>11 DEF InputInv

LEMMA SetClipboardKeeps == ASSUME InputInv, SetClipboard PROVE InputInv'
<1>. DEFINE m == Head(toVnc)
            q == OnTheWay
<1>1. /\ Served("cut") /\ lastCut' = m.text
      /\ UNCHANGED <<lastButtonMask, carriedOut, astray, osButtons, osKeys, pasted>>
      /\ \/ osClip' = m.text /\ clipFromClient' = TRUE
         \/ osClip' = osClip /\ clipFromClient' = FALSE
         \/ osClip' = NoText /\ clipFromClient' = FALSE
  BY DEF SetClipboard
<1>2. /\ q \in Seq(InputMsg) /\ q # <<>> /\ OnTheWay' = Tail(q) /\ Head(q) = m
      /\ m \in InputMsg /\ m.type = "cut" /\ toVnc' \in Seq(InputMsg)
      /\ UNCHANGED <<isMac, injector, modHeld, buttonMask, reads, localClip, toProxy, events>>
  BY <1>1, ServedTakes
<1>3. m \in CutMsg /\ m.text \in Clip
  BY <1>2, MessageKinds DEF CutMsg
<1>4. m \in DOMAIN Cuts /\ Cuts[m] = m.text /\ m \notin DOMAIN Masks
  BY <1>2, SetsOne
<1>. HIDE DEF m, q
<1>5. InputTypes'
  <2>1. osClip' \in Clip /\ lastCut' \in Clip
    BY <1>1, <1>3 DEF InputInv, InputTypes, Clip
  <2>2. clipFromClient' \in BOOLEAN
    BY <1>1, Zenon
  <2>. QED
    BY <1>1, <1>2, <2>1, <2>2 DEF InputInv, InputTypes
<1>6. ButtonsInv'
  <2>1. FollowsIn(Tail(q), lastButtonMask, carriedOut, buttonMask)
    BY <1>2, FollowsTail DEF InputInv, ButtonsInv, q
  <2>. QED
    BY <1>1, <1>2, <2>1 DEF InputInv, ButtonsInv
<1>7. PasteInv'
  <2>1. FreshIn(Tail(q), m.text)
    <3>1. FreshIn(Tail(q), IF Head(q) \in DOMAIN Cuts THEN Cuts[Head(q)] ELSE lastCut)
      BY <1>2, TailKeeps, Zenon DEF InputInv, PasteInv, q
    <3>. QED
      BY <1>2, <1>4, <3>1
  <2>2. clipFromClient' => osClip' = lastCut'
    BY <1>1
  <2>. QED
    BY <1>1, <1>2, <2>1, <2>2 DEF InputInv, PasteInv, PasteIsFresh
<1>. QED
  BY <1>5, <1>6, <1>7 DEF InputInv

LEMMA InitInput == InputInit => InputInv
<1>. SUFFICES ASSUME InputInit PROVE InputInv
  OBVIOUS
<1>1. InputTypes
  <2>1. <<>> \in Seq(InputMsg) /\ 0 \in 0..MaxEvents /\ 0 \in 0..0 /\ NoText \in Clip
    BY InputAssumption DEF Clip
  <2>. QED
    BY <2>1 DEF InputInit, InputTypes
<1>2. OnTheWay = <<>> /\ Len(OnTheWay) = 0
  BY DEF InputInit, OnTheWay
<1>3. Latest(OnTheWay, Len(OnTheWay) + 1, Masks, lastButtonMask, buttonMask)
  BY <1>2 DEF Latest, InputInit
<1>4. ButtonsInv
  BY <1>3 DEF InputInit, ButtonsInv, FollowsIn
<1>5. FreshIn(OnTheWay, lastCut)
  BY <1>2 DEF FreshIn
<1>6. pasted.want = NoText
  BY DEF InputInit
<1>. QED
  BY <1>1, <1>4, <1>5, <1>6 DEF InputInit, InputInv, PasteInv, PasteIsFresh

LEMMA NextInput == InputInv /\ [InputNext]_inputVars => InputInv'
<1>. SUFFICES ASSUME InputInv, [InputNext]_inputVars PROVE InputInv'
  OBVIOUS
<1>1. CASE UNCHANGED inputVars
  BY <1>1 DEF inputVars, InputInv, InputTypes, ButtonsInv, PasteInv, PasteIsFresh, OnTheWay
<1>. QED
  BY <1>1, BrowserKeeps, ReadTextKeeps, LocalCopyKeeps, RelayKeeps, KeyEventKeeps, PointerEventKeeps,
     SetClipboardKeeps DEF InputNext

LEMMA InputInvHolds == InputSpec => []InputInv
  BY InitInput, NextInput, PTL DEF InputSpec

\* The invariant of the input path holds its types.
LEMMA InputMeansTypes == InputInv => InputTypeOK
<1>. SUFFICES ASSUME InputInv PROVE InputTypeOK
  OBVIOUS
<1>1. {isMac, modHeld, carriedOut, clipFromClient} \subseteq BOOLEAN
  BY Zenon DEF InputInv, InputTypes
<1>2. reads \in 0..MaxEvents
  BY InputAssumption DEF InputInv, InputTypes
<1>. QED
  BY <1>1, <1>2 DEF InputInv, InputTypes, InputTypeOK

\* The variables of the input path keep their types, whichever injector is used.
THEOREM InputTypeCorrect == InputSpec => []InputTypeOK
  BY InputMeansTypes, InputInvHolds, PTL

\* With no pointer event under way the masks agree, and so do the buttons.
LEMMA InputMeansButtons == InputInv => ButtonsFollowMask
<1>. SUFFICES ASSUME InputInv, carriedOut, ~Pending("pointer"), NEW b \in Button \ astray
     PROVE  b \in osButtons <=> b \in buttonMask
  BY DEF ButtonsFollowMask
<1>1. OnTheWay \in Seq(InputMsg) /\ toProxy \in Seq(InputMsg) /\ toVnc \in Seq(InputMsg)
  BY QueueIsOK DEF InputInv, InputTypes
<1>2. \A k \in 1..Len(OnTheWay) : OnTheWay[k].type # "pointer"
  <2>1. \A k \in 1..(Len(toProxy) + Len(toVnc)) : (toProxy \o toVnc)[k].type # "pointer"
    BY <1>1 DEF Pending
  <2>2. /\ \A k \in 1..Len(toProxy) : toProxy[k].type # "pointer"
        /\ \A k \in 1..Len(toVnc) : toVnc[k].type # "pointer"
    <3>1. ASSUME NEW k \in 1..Len(toProxy) PROVE toProxy[k].type # "pointer"
      <4>1. k \in 1..(Len(toProxy) + Len(toVnc)) /\ (toProxy \o toVnc)[k] = toProxy[k]
        BY <1>1
      <4>. QED
        BY <2>1, <4>1
    <3>2. ASSUME NEW k \in 1..Len(toVnc) PROVE toVnc[k].type # "pointer"
      <4>1. Len(toProxy) + k \in 1..(Len(toProxy) + Len(toVnc))
            /\ (toProxy \o toVnc)[Len(toProxy) + k] = toVnc[k]
        BY <1>1
      <4>. QED
        BY <2>1, <4>1
    <3>. QED
      BY <3>1, <3>2
  <2>3. \A k \in 1..Len(OnTheWay) :
           \/ k \in 1..Len(toVnc) /\ OnTheWay[k] = toVnc[k]
           \/ k - Len(toVnc) \in 1..Len(toProxy) /\ OnTheWay[k] = toProxy[k - Len(toVnc)]
    BY <1>1 DEF OnTheWay
  <2>. QED
    BY <2>2, <2>3
<1>3. \A k \in 1..Len(OnTheWay) : OnTheWay[k] \notin DOMAIN Masks
  BY <1>1, <1>2, SetsOne
<1>4. Latest(OnTheWay, Len(OnTheWay) + 1, Masks, lastButtonMask, buttonMask)
  BY DEF InputInv, ButtonsInv, FollowsIn
<1>5. lastButtonMask = buttonMask
  <2>1. Len(OnTheWay) \in Nat /\ (Len(OnTheWay) + 1) - 1 = Len(OnTheWay)
    BY <1>1
  <2>. QED
    BY <1>3, <1>4, <2>1 DEF Latest
<1>. QED
  BY <1>5 DEF InputInv, InputTypes, ButtonsInv

\* Whenever no pointer event is under way and the last was carried out, a button of the
\* desktop is as in the browser unless its own last change was swallowed or left behind by
\* an event that failed, for any number of events and with every back end (PointerEvent of
\* the injectors).
THEOREM ButtonsAgree == InputSpec => []ButtonsFollowMask
  BY InputMeansButtons, InputInvHolds, PTL

\* The v of a paste meets its text.
LEMMA InputMeansFresh == InputInv => PasteIsFresh
  BY DEF InputInv, PasteInv

\* The v of a paste meets the text that was read for it, for any texts and however
\* many pastes and copies overlap (sendClipboard, handleClipboardSet, serveMessages).
THEOREM PastesAreFresh == InputSpec => []PasteIsFresh
  BY InputMeansFresh, InputInvHolds, PTL

=============================================================================
