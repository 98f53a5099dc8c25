--------------------------- MODULE WsProxyProofs ---------------------------
(***************************************************************************)
(* Proofs about the ConnectionManager and the handlers that use it, for     *)
(* every finite set of requests and every value of the limits.              *)
(***************************************************************************)
EXTENDS WsProxy, FiniteSetTheorems, TLAPS

\* A session is tracked exactly while its handler is between TryAdd and
\* Remove, and holds a TCP connection only in the part of Run that uses it.
HandlerInv ==
    /\ sessions = {r \in Request : pc[r] \in InSession}
    /\ \A r \in Request :
          tcp[r] \in {"open", "eof"} => pc[r] \in {"handshake", "init", "relay"}

\* The limit TryAdd checks is kept by every step.
TotalInv == Cardinality(sessions) <= MaxConnections

IInv == TypeOK /\ HandlerInv /\ SessionAccounting /\ TotalInv

\* Every set of requests the model counts is finite.
LEMMA RequestSetsFinite ==
    ASSUME NEW S, S \subseteq Request
    PROVE  IsFiniteSet(S) /\ Cardinality(S) \in Nat
  BY RequestAssumption, FS_Subset, FS_CardinalityType

\* The initial states are well typed (NewServer, NewConnectionManager).
LEMMA InitTypeOK == Init => TypeOK
  BY LimitAssumption DEF Init, TypeOK, PC, RateLimit!Init

\* Every step of a handler, of a peer and of Shutdown keeps the types.
LEMMA NextTypeOK == TypeOK /\ [Next]_vars => TypeOK'
<1> SUFFICES ASSUME TypeOK, [Next]_vars PROVE TypeOK'
  OBVIOUS
<1> USE DEF TypeOK, handlerVars, managerVars, limiterVars, shutdownVars
<1>1. ASSUME NEW r \in Request, Arrive(r) PROVE TypeOK'
  BY <1>1 DEF Arrive, PC
<1>2. ASSUME NEW r \in Request, CheckRate(r) PROVE TypeOK'
  BY <1>2 DEF CheckRate, PC
<1>3. ASSUME NEW r \in Request, Upgrade(r) PROVE TypeOK'
  BY <1>3 DEF Upgrade, PC
<1>4. ASSUME NEW r \in Request, TryAdd(r) PROVE TypeOK'
  BY <1>4, LimitAssumption DEF TryAdd, AtLimit, PC
<1>5. ASSUME NEW r \in Request, Dial(r) PROVE TypeOK'
  BY <1>5 DEF Dial, PC
<1>6. ASSUME NEW r \in Request, HandshakeOk(r) PROVE TypeOK'
  BY <1>6 DEF HandshakeOk, RateLimit!ClearFailures, PC
<1>7. ASSUME NEW r \in Request, HandshakeFail(r) PROVE TypeOK'
  BY <1>7 DEF HandshakeFail, RateLimit!RecordFailure, PC
<1>8. ASSUME NEW r \in Request, SendSessionInit(r) PROVE TypeOK'
  BY <1>8 DEF SendSessionInit, PC
<1>9. ASSUME NEW r \in Request,
             VncSpeaks(r) \/ DownReadFails(r) \/ DownWrite(r) \/ BrowserSpeaks(r)
                \/ UpReadFails(r) \/ UpWriteOk(r) \/ UpWriteFails(r)
      PROVE  TypeOK'
  BY <1>9 DEF VncSpeaks, DownReadFails, DownWrite, BrowserSpeaks, UpReadFails,
              UpWriteOk, UpWriteFails
<1>10. ASSUME NEW r \in Request, RunReturns(r) PROVE TypeOK'
  BY <1>10 DEF RunReturns, PC
<1>11. ASSUME NEW r \in Request, Cleanup(r) PROVE TypeOK'
  BY <1>11, LimitAssumption DEF Cleanup, Remove, PC
<1>12. ASSUME NEW r \in Request, BrowserCloses(r) \/ VncCloses(r) PROVE TypeOK'
  BY <1>12 DEF BrowserCloses, VncCloses
<1>13. ASSUME NEW r \in Request, ShutdownCloses(r) PROVE TypeOK'
  BY <1>13 DEF ShutdownCloses
<1>14. CASE TimePasses
  BY <1>14 DEF TimePasses, RateLimit!TimePasses
<1>15. CASE ShutdownBegins \/ ShutdownSnapshot \/ ShutdownHttp \/ ShutdownReturns
  BY <1>15 DEF ShutdownBegins, ShutdownSnapshot, ShutdownHttp, ShutdownReturns
<1>16. CASE UNCHANGED vars
  BY <1>16 DEF vars
<1> QED
  BY <1>1, <1>2, <1>3, <1>4, <1>5, <1>6, <1>7, <1>8, <1>9, <1>10, <1>11, <1>12,
     <1>13, <1>14, <1>15, <1>16 DEF Next

\* Type correctness, the limit on a target's count included, for every set of
\* requests and every limit.
THEOREM TypeCorrect == Spec => []TypeOK
  BY InitTypeOK, NextTypeOK, PTL DEF Spec

-----------------------------------------------------------------------------
(* The inductive invariant. *)

\* Nothing is tracked at the start, and no connection is open.
LEMMA InitIInv == Init => IInv
<1> SUFFICES ASSUME Init PROVE IInv
  OBVIOUS
<1>1. TypeOK
  BY InitTypeOK
<1>2. HandlerInv
  BY DEF Init, HandlerInv, InSession
<1>3. SessionAccounting
  BY FS_EmptySet DEF Init, SessionAccounting, SessionsOf
<1>4. TotalInv
  BY FS_EmptySet, LimitAssumption DEF Init, TotalInv
<1> QED
  BY <1>1, <1>2, <1>3, <1>4 DEF IInv

\* A handler's step between TryAdd and Remove leaves the maps alone, so
\* the two counting invariants survive it.
LEMMA MapsUnchanged ==
    ASSUME SessionAccounting, TotalInv, UNCHANGED <<target, sessions, targetCounts>>
    PROVE  SessionAccounting' /\ TotalInv'
  BY DEF SessionAccounting, SessionsOf, TotalInv

\* A TryAdd that is not refused adds one session and counts it once.
LEMMA TryAddCounts ==
    ASSUME IInv, NEW r \in Request, TryAdd(r), ~AtLimit(r)
    PROVE  SessionAccounting' /\ TotalInv'
<1>1. r \notin sessions
  BY DEF IInv, HandlerInv, TryAdd, InSession
<1>2. /\ sessions' = sessions \cup {r}
      /\ targetCounts' = [targetCounts EXCEPT ![target[r]] = @ + 1]
      /\ target' = target
  BY DEF TryAdd
<1>3. sessions \subseteq Request /\ target[r] \in Target
  BY DEF IInv, TypeOK
<1>4. TotalInv'
  <2>1. IsFiniteSet(sessions) /\ Cardinality(sessions) \in Nat
    BY <1>3, RequestSetsFinite
  <2>2. Cardinality(sessions') = Cardinality(sessions) + 1
    BY <1>1, <1>2, <2>1, FS_AddElement
  <2> QED
    BY <2>1, <2>2, LimitAssumption DEF AtLimit, TotalInv
<1>5. ASSUME NEW t \in Target
      PROVE  targetCounts'[t] = Cardinality(SessionsOf(t)')
  <2>1. IsFiniteSet(SessionsOf(t)) /\ Cardinality(SessionsOf(t)) \in Nat
    BY <1>3, RequestSetsFinite DEF SessionsOf
  <2>2. targetCounts[t] = Cardinality(SessionsOf(t))
    BY DEF IInv, SessionAccounting
  <2>3. CASE t = target[r]
    <3>1. SessionsOf(t)' = SessionsOf(t) \cup {r}
      BY <1>2, <2>3 DEF SessionsOf
    <3>2. r \notin SessionsOf(t)
      BY <1>1 DEF SessionsOf
    <3>3. Cardinality(SessionsOf(t)') = Cardinality(SessionsOf(t)) + 1
      BY <2>1, <3>1, <3>2, FS_AddElement
    <3> QED
      BY <1>2, <2>2, <2>3, <3>3 DEF IInv, TypeOK
  <2>4. CASE t # target[r]
    <3>1. SessionsOf(t)' = SessionsOf(t)
      BY <1>2, <2>4 DEF SessionsOf
    <3> QED
      BY <1>2, <2>2, <2>4, <3>1 DEF IInv, TypeOK
  <2> QED
    BY <2>3, <2>4
<1> QED
  BY <1>4, <1>5 DEF SessionAccounting

\* Remove takes one session out and uncounts it once: the count it finds is
\* not zero, so neither the clamp nor the deletion of the key loses anything.
LEMMA CleanupCounts ==
    ASSUME IInv, NEW r \in Request, Cleanup(r)
    PROVE  /\ SessionAccounting' /\ TotalInv'
           /\ sessions' = sessions \ {r}
<1>1. r \in sessions
  BY DEF IInv, HandlerInv, Cleanup, InSession
<1>2. /\ sessions' = sessions \ {r}
      /\ targetCounts' = [targetCounts EXCEPT ![target[r]] = IF @ > 1 THEN @ - 1 ELSE 0]
      /\ target' = target
  BY <1>1 DEF Cleanup, Remove
<1>3. sessions \subseteq Request /\ target[r] \in Target
  BY DEF IInv, TypeOK
<1>4. TotalInv'
  <2>1. IsFiniteSet(sessions) /\ Cardinality(sessions) \in Nat
    BY <1>3, RequestSetsFinite
  <2>2. Cardinality(sessions') = Cardinality(sessions) - 1
    BY <1>1, <1>2, <2>1, FS_RemoveElement
  <2> QED
    BY <2>1, <2>2, LimitAssumption DEF IInv, TotalInv
<1>5. ASSUME NEW t \in Target
      PROVE  targetCounts'[t] = Cardinality(SessionsOf(t)')
  <2>1. IsFiniteSet(SessionsOf(t)) /\ Cardinality(SessionsOf(t)) \in Nat
    BY <1>3, RequestSetsFinite DEF SessionsOf
  <2>2. targetCounts[t] = Cardinality(SessionsOf(t))
    BY DEF IInv, SessionAccounting
  <2>3. CASE t = target[r]
    <3>1. SessionsOf(t)' = SessionsOf(t) \ {r}
      BY <1>2, <2>3 DEF SessionsOf
    <3>2. r \in SessionsOf(t)
      BY <1>1, <2>3 DEF SessionsOf
    <3>3. Cardinality(SessionsOf(t)') = Cardinality(SessionsOf(t)) - 1
      BY <2>1, <3>1, <3>2, FS_RemoveElement
    <3>4. Cardinality(SessionsOf(t)) # 0
      BY <2>1, <3>2, FS_EmptySet
    <3> QED
      BY <1>2, <2>1, <2>2, <2>3, <3>3, <3>4 DEF IInv, TypeOK
  <2>4. CASE t # target[r]
    <3>1. SessionsOf(t)' = SessionsOf(t)
      BY <1>2, <2>4 DEF SessionsOf
    <3> QED
      BY <1>2, <2>2, <2>4, <3>1 DEF IInv, TypeOK
  <2> QED
    BY <2>3, <2>4
<1> QED
  BY <1>2, <1>4, <1>5 DEF SessionAccounting

\* Every step keeps the inductive invariant: only TryAdd and Remove
\* touch the maps, and every other step leaves the handler on the
\* same side of both.
LEMMA NextIInv == IInv /\ [Next]_vars => IInv'
<1> SUFFICES ASSUME IInv, [Next]_vars PROVE IInv'
  OBVIOUS
<1>t. TypeOK /\ TypeOK'
  BY NextTypeOK DEF IInv
<1>m. SUFFICES HandlerInv' /\ SessionAccounting' /\ TotalInv'
  BY <1>t DEF IInv
<1>h. HandlerInv /\ SessionAccounting /\ TotalInv
  BY DEF IInv
<1> USE DEF handlerVars, managerVars, limiterVars, shutdownVars
<1>1. ASSUME NEW r \in Request, Arrive(r) \/ CheckRate(r) \/ Upgrade(r)
      PROVE  HandlerInv' /\ SessionAccounting' /\ TotalInv'
  <2>1. HandlerInv'
    BY <1>t, <1>h, <1>1 DEF HandlerInv, TypeOK, PC, InSession, Arrive, CheckRate, Upgrade
  <2>2. UNCHANGED <<target, sessions, targetCounts>>
    BY <1>1 DEF Arrive, CheckRate, Upgrade
  <2> QED
    BY <1>h, <2>1, <2>2, MapsUnchanged
<1>2. ASSUME NEW r \in Request, TryAdd(r)
      PROVE  HandlerInv' /\ SessionAccounting' /\ TotalInv'
  <2>1. HandlerInv'
    BY <1>t, <1>h, <1>2 DEF HandlerInv, TypeOK, PC, InSession, TryAdd
  <2>2. CASE AtLimit(r)
    <3>1. UNCHANGED <<target, sessions, targetCounts>>
      BY <1>2, <2>2 DEF TryAdd
    <3> QED
      BY <1>h, <2>1, <3>1, MapsUnchanged
  <2>3. CASE ~AtLimit(r)
    BY <1>2, <2>1, <2>3, TryAddCounts
  <2> QED
    BY <2>2, <2>3
<1>3. ASSUME NEW r \in Request,
             \/ Dial(r) \/ HandshakeOk(r) \/ HandshakeFail(r) \/ SendSessionInit(r)
             \/ RunReturns(r)
      PROVE  HandlerInv' /\ SessionAccounting' /\ TotalInv'
  <2>1. HandlerInv'
    BY <1>t, <1>h, <1>3 DEF HandlerInv, TypeOK, PC, InSession, Dial, HandshakeOk,
       HandshakeFail, SendSessionInit, RunReturns
  <2>2. UNCHANGED <<target, sessions, targetCounts>>
    BY <1>3 DEF Dial, HandshakeOk, HandshakeFail, SendSessionInit, RunReturns
  <2> QED
    BY <1>h, <2>1, <2>2, MapsUnchanged
<1>4. ASSUME NEW r \in Request,
             \/ VncSpeaks(r) \/ DownReadFails(r) \/ DownWrite(r)
             \/ BrowserSpeaks(r) \/ UpReadFails(r) \/ UpWriteOk(r) \/ UpWriteFails(r)
             \/ BrowserCloses(r) \/ VncCloses(r) \/ ShutdownCloses(r)
      PROVE  HandlerInv' /\ SessionAccounting' /\ TotalInv'
  <2>1. /\ UNCHANGED <<pc, target, sessions, targetCounts>>
        /\ \A q \in Request : tcp'[q] \in {"open", "eof"} => tcp[q] \in {"open", "eof"}
    BY <1>t, <1>4 DEF TypeOK, VncSpeaks, DownReadFails, DownWrite, BrowserSpeaks,
       UpReadFails, UpWriteOk, UpWriteFails, BrowserCloses, VncCloses, ShutdownCloses
  <2>2. HandlerInv'
    BY <1>h, <2>1 DEF HandlerInv
  <2> QED
    BY <1>h, <2>1, <2>2, MapsUnchanged
<1>5. ASSUME NEW r \in Request, Cleanup(r)
      PROVE  HandlerInv' /\ SessionAccounting' /\ TotalInv'
  <2>1. sessions' = sessions \ {r} /\ SessionAccounting' /\ TotalInv'
    BY <1>5, CleanupCounts
  <2>2. HandlerInv'
    BY <1>t, <1>h, <1>5, <2>1 DEF HandlerInv, TypeOK, PC, InSession, Cleanup
  <2> QED
    BY <2>1, <2>2
<1>6. CASE \/ TimePasses \/ ShutdownBegins \/ ShutdownSnapshot \/ ShutdownHttp
           \/ ShutdownReturns \/ UNCHANGED vars
  <2>1. UNCHANGED <<pc, tcp, target, sessions, targetCounts>>
    BY <1>6 DEF TimePasses, ShutdownBegins, ShutdownSnapshot, ShutdownHttp,
       ShutdownReturns, vars
  <2>2. HandlerInv'
    BY <1>h, <2>1 DEF HandlerInv
  <2> QED
    BY <1>h, <2>1, <2>2, MapsUnchanged
<1> QED
  BY <1>1, <1>2, <1>3, <1>4, <1>5, <1>6 DEF Next

\* The inductive invariant holds of every behaviour.
THEOREM Inductive == Spec => []IInv
  BY InitIInv, NextIInv, PTL DEF Spec

\* No slot leaks and none is given back twice: the per-target counts of the
\* ConnectionManager are always the numbers of tracked sessions.
THEOREM AccountingCorrect == Spec => []SessionAccounting
<1>1. IInv => SessionAccounting
  BY DEF IInv
<1> QED
  BY <1>1, Inductive, PTL

\* Open TCP connections are held by tracked sessions only.
LEMMA ConnectionsAreTracked ==
    ASSUME IInv
    PROVE  /\ VncConnections \subseteq sessions
           /\ \A t \in Target : {r \in VncConnections : target[r] = t} \subseteq SessionsOf(t)
  BY DEF IInv, HandlerInv, InSession, VncConnections, SessionsOf

\* No VNC server ever sees more connections of the proxy than the limit allows,
\* and all of them together no more than the total limit.
THEOREM LimitsRespected == Spec => []VncServersAreNotOverloaded
<1>1. IInv => VncServersAreNotOverloaded
  <2> SUFFICES ASSUME IInv PROVE VncServersAreNotOverloaded
    OBVIOUS
  <2>1. sessions \subseteq Request /\ VncConnections \subseteq sessions
    BY ConnectionsAreTracked DEF IInv, TypeOK
  <2>2. Cardinality(VncConnections) <= MaxConnections
    <3>1. IsFiniteSet(sessions) /\ Cardinality(sessions) \in Nat
      BY <2>1, RequestSetsFinite
    <3>2. Cardinality(VncConnections) \in Nat
      BY RequestSetsFinite DEF VncConnections
    <3>3. Cardinality(VncConnections) <= Cardinality(sessions)
      BY <2>1, <3>1, FS_Subset
    <3> QED
      BY <3>1, <3>2, <3>3, LimitAssumption DEF IInv, TotalInv
  <2>3. ASSUME NEW t \in Target
        PROVE  Cardinality({r \in VncConnections : target[r] = t}) <= MaxPerTarget
    <3> DEFINE C == {r \in VncConnections : target[r] = t}
    <3>1. C \subseteq SessionsOf(t) /\ SessionsOf(t) \subseteq Request
      BY <2>1, ConnectionsAreTracked DEF SessionsOf
    <3>2. IsFiniteSet(SessionsOf(t)) /\ Cardinality(SessionsOf(t)) \in Nat
      BY <3>1, RequestSetsFinite
    <3>3. Cardinality(C) \in Nat
      BY RequestSetsFinite DEF VncConnections
    <3>4. Cardinality(C) <= Cardinality(SessionsOf(t))
      BY <3>1, <3>2, FS_Subset
    <3>5. Cardinality(SessionsOf(t)) <= MaxPerTarget
      BY <3>2, LimitAssumption DEF IInv, SessionAccounting, TypeOK
    <3> QED
      BY <3>2, <3>3, <3>4, <3>5, LimitAssumption
  <2> QED
    BY <2>2, <2>3 DEF VncServersAreNotOverloaded
<1> QED
  BY <1>1, Inductive, PTL

-----------------------------------------------------------------------------
(* The pool of sessions. *)

\* A step that moves neither a handler to its end, nor a session, nor a connection.
PoolStutters == UNCHANGED <<target, sessions, VncConnections, Ended>>

\* The pool counts as the proxy does.
LEMMA PoolCounts == \A S : Pool!Cardinality(S) = Cardinality(S)
  BY DEF Pool!Cardinality, Cardinality

\* The proxy starts with an empty pool.
LEMMA PoolInit == Init => Pool!Init
  BY DEF Init, Pool!Init, VncConnections, Ended

\* A handler that ends before TryAdd, or is refused there, never holds a slot.
LEMMA EndsUnserved ==
    ASSUME IInv, NEW r \in Request, pc[r] \in PC \ (InSession \cup {"done"}),
           pc' = [pc EXCEPT ![r] = "done"], UNCHANGED <<target, sessions, tcp>>
    PROVE  Pool!Refuse(r)
<1>1. r \notin sessions /\ r \notin Ended
  BY DEF IInv, HandlerInv, Ended
<1>2. Ended' = Ended \cup {r}
  BY DEF IInv, TypeOK, Ended
<1>3. VncConnections' = VncConnections
  BY DEF VncConnections
<1> QED
  BY <1>1, <1>2, <1>3 DEF Pool!Refuse

\* A slot is taken within the limits, as counted by the sessions themselves.
LEMMA SlotIsTaken ==
    ASSUME IInv, NEW r \in Request, TryAdd(r), ~AtLimit(r)
    PROVE  Pool!Take(r)
<1>1. r \notin sessions /\ r \notin Ended
  BY DEF IInv, HandlerInv, TryAdd, InSession, Ended
<1>2. Cardinality(sessions) < MaxConnections
  <2>1. Cardinality(sessions) \in Nat
    BY RequestSetsFinite DEF IInv, TypeOK
  <2> QED
    BY <2>1, LimitAssumption DEF AtLimit
<1>3. Cardinality({q \in sessions : target[q] = target[r]}) < MaxPerTarget
  <2>1. PICK t \in Target : t = target[r]
    BY DEF IInv, TypeOK
  <2>2. targetCounts[t] = Cardinality(SessionsOf(t))
    BY DEF IInv, SessionAccounting
  <2>3. targetCounts[t] \in 0..MaxPerTarget /\ ~(targetCounts[t] >= MaxPerTarget)
    BY <2>1 DEF AtLimit, IInv, TypeOK
  <2>4. Cardinality(SessionsOf(t)) < MaxPerTarget
    BY <2>2, <2>3, LimitAssumption
  <2> QED
    BY <2>1, <2>4 DEF SessionsOf
<1>4. sessions' = sessions \cup {r} /\ UNCHANGED <<target, tcp>> /\ pc' = [pc EXCEPT ![r] = "dial"]
  BY DEF TryAdd, managerVars
<1>5. VncConnections' = VncConnections /\ Ended' = Ended
  BY <1>1, <1>4 DEF VncConnections, Ended, IInv, TypeOK
<1> QED
  <2>1. r \notin sessions \cup Ended /\ UNCHANGED <<target, VncConnections, Ended>>
    BY <1>1, <1>4, <1>5
  <2> QED
    BY <1>2, <1>3, <1>4, <2>1, PoolCounts, Zenon DEF Pool!Take

\* The TCP connection of a session opens or is closed while the handler stays in Run.
LEMMA ConnectionMoves ==
    ASSUME IInv, NEW r \in Request, pc[r] \in InSession, pc'[r] \in InSession,
           \E at \in PC : pc' = [pc EXCEPT ![r] = at], UNCHANGED <<target, sessions>>
    PROVE  /\ tcp' = [tcp EXCEPT ![r] = "open"] => Pool!Open(r) \/ PoolStutters
           /\ tcp' = [tcp EXCEPT ![r] = "closed"] => Pool!Close(r) \/ PoolStutters
           /\ tcp' = tcp => PoolStutters
<1>1. Ended' = Ended
  BY DEF Ended, IInv, TypeOK, InSession
<1>2. r \in sessions
  BY DEF IInv, HandlerInv
<1>3. ASSUME tcp' = [tcp EXCEPT ![r] = "open"] PROVE Pool!Open(r) \/ PoolStutters
  <2>1. VncConnections' = VncConnections \cup {r}
    BY <1>3 DEF VncConnections, IInv, TypeOK
  <2> QED
    BY <1>1, <1>2, <2>1 DEF Pool!Open, PoolStutters
<1>4. ASSUME tcp' = [tcp EXCEPT ![r] = "closed"] PROVE Pool!Close(r) \/ PoolStutters
  <2>1. VncConnections' = VncConnections \ {r}
    BY <1>4 DEF VncConnections, IInv, TypeOK
  <2> QED
    BY <1>1, <2>1 DEF Pool!Close, PoolStutters
<1>5. ASSUME tcp' = tcp PROVE PoolStutters
  BY <1>1, <1>5 DEF VncConnections, PoolStutters
<1> QED
  BY <1>3, <1>4, <1>5

\* Remove gives back a slot that no connection uses any more.
LEMMA SlotComesBack == ASSUME IInv, NEW r \in Request, Cleanup(r) PROVE Pool!GiveBack(r)
<1>1. pc[r] = "cleanup" /\ pc' = [pc EXCEPT ![r] = "done"] /\ UNCHANGED <<target, tcp>>
  BY DEF Cleanup
<1>2. r \in sessions /\ r \notin VncConnections
  BY <1>1 DEF IInv, HandlerInv, InSession, VncConnections
<1>3. sessions' = sessions \ {r}
  BY CleanupCounts
<1>4. VncConnections' = VncConnections /\ Ended' = Ended \cup {r}
  BY <1>1 DEF VncConnections, Ended, IInv, TypeOK
<1> QED
  BY <1>1, <1>2, <1>3, <1>4 DEF Pool!GiveBack

\* Every step of the proxy is a step of the pool or leaves it alone.
LEMMA PoolStep == IInv /\ [Next]_vars => [Pool!Next]_Pool!poolVars
<1> SUFFICES ASSUME IInv, [Next]_vars PROVE Pool!Next \/ PoolStutters
  BY DEF PoolStutters, Pool!poolVars
<1> USE DEF handlerVars, managerVars, limiterVars, shutdownVars
<1>1. ASSUME NEW r \in Request, Arrive(r) \/ CheckRate(r) \/ Upgrade(r)
      PROVE  Pool!Next \/ PoolStutters
  <2>1. /\ pc[r] \in PC \ (InSession \cup {"done"}) /\ UNCHANGED <<target, sessions, tcp>>
        /\ \E at \in PC \ InSession : pc' = [pc EXCEPT ![r] = at]
    BY <1>1 DEF Arrive, CheckRate, Upgrade, PC, InSession
  <2>2. CASE pc' = [pc EXCEPT ![r] = "done"]
    BY <2>1, <2>2, EndsUnserved DEF Pool!Next
  <2>3. ASSUME NEW at \in PC, at # "done", pc' = [pc EXCEPT ![r] = at] PROVE PoolStutters
    BY <2>1, <2>3 DEF PoolStutters, VncConnections, Ended, IInv, TypeOK
  <2> QED
    BY <2>1, <2>2, <2>3
<1>2. ASSUME NEW r \in Request, TryAdd(r) PROVE Pool!Next
  <2>1. CASE AtLimit(r)
    <3>1. /\ pc[r] \in PC \ (InSession \cup {"done"}) /\ UNCHANGED <<target, sessions, tcp>>
          /\ pc' = [pc EXCEPT ![r] = "done"]
      BY <1>2, <2>1 DEF TryAdd, PC, InSession
    <3> QED
      BY <3>1, EndsUnserved DEF Pool!Next
  <2>2. CASE ~AtLimit(r)
    BY <1>2, <2>2, SlotIsTaken DEF Pool!Next
  <2> QED
    BY <2>1, <2>2
<1>3. ASSUME NEW r \in Request,
             \/ Dial(r) \/ HandshakeOk(r) \/ HandshakeFail(r) \/ SendSessionInit(r)
             \/ RunReturns(r)
      PROVE  Pool!Next \/ PoolStutters
  <2>1. /\ pc[r] \in InSession /\ UNCHANGED <<target, sessions>>
        /\ \E at \in InSession : pc' = [pc EXCEPT ![r] = at]
    BY <1>3 DEF Dial, HandshakeOk, HandshakeFail, SendSessionInit, RunReturns, InSession
  <2>2. \/ tcp' = tcp \/ tcp' = [tcp EXCEPT ![r] = "open"] \/ tcp' = [tcp EXCEPT ![r] = "closed"]
    BY <1>3 DEF Dial, HandshakeOk, HandshakeFail, SendSessionInit, RunReturns
  <2>3. pc'[r] \in InSession /\ \E at \in PC : pc' = [pc EXCEPT ![r] = at]
    BY <2>1 DEF InSession, PC, IInv, TypeOK
  <2> QED
    BY <2>1, <2>2, <2>3, ConnectionMoves DEF Pool!Next
<1>4. ASSUME NEW r \in Request,
             \/ VncSpeaks(r) \/ DownReadFails(r) \/ DownWrite(r)
             \/ BrowserSpeaks(r) \/ UpReadFails(r) \/ UpWriteOk(r) \/ UpWriteFails(r)
             \/ BrowserCloses(r) \/ VncCloses(r) \/ ShutdownCloses(r)
      PROVE  PoolStutters
  <2>1. /\ UNCHANGED <<pc, target, sessions>>
        /\ \A q \in Request : tcp'[q] \in {"open", "eof"} <=> tcp[q] \in {"open", "eof"}
    BY <1>4 DEF IInv, TypeOK, VncSpeaks, DownReadFails, DownWrite, BrowserSpeaks,
       UpReadFails, UpWriteOk, UpWriteFails, BrowserCloses, VncCloses, ShutdownCloses
  <2> QED
    BY <2>1 DEF PoolStutters, VncConnections, Ended
<1>5. ASSUME NEW r \in Request, Cleanup(r) PROVE Pool!Next
  BY <1>5, SlotComesBack DEF Pool!Next
<1>6. CASE \/ TimePasses \/ ShutdownBegins \/ ShutdownSnapshot \/ ShutdownHttp
           \/ ShutdownReturns \/ UNCHANGED vars
  BY <1>6 DEF TimePasses, ShutdownBegins, ShutdownSnapshot, ShutdownHttp,
     ShutdownReturns, vars, PoolStutters, VncConnections, Ended
<1> QED
  BY <1>1, <1>2, <1>3, <1>4, <1>5, <1>6 DEF Next

\* The proxy implements the pool of sessions, for every set of requests, every choice of
\* targets and every limit: slots are taken within the limits, used by their holders only
\* and given back once, after the connection was closed (handleWebSocket, Run,
\* ConnectionManager).
THEOREM ProxyImplementsPool == Spec => ImplementsSessionPool
  BY PoolInit, PoolStep, Inductive, PTL DEF Spec, ImplementsSessionPool, Pool!Spec
=============================================================================
