------------------------- MODULE RateLimiterProofs -------------------------
(***************************************************************************)
(* What RateLimiter guarantees for every number of addresses and attempts   *)
(* and every setting of the window and the lockouts.  The argument: what    *)
(* purging has removed from the front of an address's timestamps has left   *)
(* the window for good, so the number of recent failures, and with it every *)
(* answer of IsAllowed, is that of the complete history.                    *)
(***************************************************************************)
EXTENDS RateLimiter, FiniteSetTheorems, FunctionTheorems, TLAPS

\* What is left of timestamps h after its first n entries were purged.
Remaining(h, n) == SubSeq(h, n + 1, Len(h))

\* s is h without a prefix that has left the window at time t.
PurgedFrom(s, h, t) ==
    \E n \in 0..Len(h) :
        /\ s = Remaining(h, n)
        /\ \A i \in 1..n : h[i] <= t - Window

\* The inductive invariant: failures is the history without a prefix that has
\* left the window.
LimiterInv ==
    /\ LimiterTypeOK
    /\ \A a \in IP : PurgedFrom(failures[a], history[a], now)

-----------------------------------------------------------------------------
(* Counting. *)

\* The failures of a sequence of timestamps that countRecent counts.
RecentAt(h, c) == {i \in DOMAIN h : h[i] > c}

\* What a purge keeps: the entries of h from n + 1 on.
LEMMA RemainingFacts ==
    ASSUME NEW S, NEW h \in Seq(S), NEW n \in 0..Len(h)
    PROVE  /\ Remaining(h, n) \in Seq(S)
           /\ Len(Remaining(h, n)) = Len(h) - n
           /\ \A i \in 1..(Len(h) - n) : Remaining(h, n)[i] = h[i + n]
<1>1. Len(h) \in Nat /\ \A i \in 1..Len(h) : h[i] \in S
  OBVIOUS
<1>2. Remaining(h, n) = [i \in 1..(Len(h) - n) |-> h[i + n]]
  BY <1>1 DEF Remaining
<1>3. Remaining(h, n) \in [1..(Len(h) - n) -> S]
  BY <1>1, <1>2
<1> QED
  BY <1>1, <1>2, <1>3

\* What Append adds to a sequence.
LEMMA AppendFacts ==
    ASSUME NEW S, NEW h \in Seq(S), NEW x \in S
    PROVE  /\ Append(h, x) \in Seq(S)
           /\ Len(Append(h, x)) = Len(h) + 1
           /\ \A i \in 1..Len(h) : Append(h, x)[i] = h[i]
           /\ Append(h, x)[Len(h) + 1] = x
  OBVIOUS

\* Sequences that agree everywhere are equal.
LEMMA SameSequence ==
    ASSUME NEW S, NEW u \in Seq(S), NEW v \in Seq(S), Len(u) = Len(v),
           \A i \in 1..Len(u) : u[i] = v[i]
    PROVE  u = v
  OBVIOUS

\* The recent failures are finitely many, and an earlier cutoff counts at least
\* as many (countRecent).
LEMMA RecentFinite ==
    ASSUME NEW h \in Seq(Nat), NEW c \in Int, NEW d \in Int, c <= d
    PROVE  /\ IsFiniteSet(RecentAt(h, c))
           /\ Cardinality(RecentAt(h, c)) \in Nat
           /\ Cardinality(RecentAt(h, d)) <= Cardinality(RecentAt(h, c))
<1>1. IsFiniteSet(1..Len(h))
  BY FS_Interval
<1>2. RecentAt(h, c) \subseteq 1..Len(h)
  BY DEF RecentAt
<1>3. IsFiniteSet(RecentAt(h, c))
  BY <1>1, <1>2, FS_Subset
<1>4. RecentAt(h, d) \subseteq RecentAt(h, c)
  BY DEF RecentAt
<1> QED
  BY <1>3, <1>4, FS_Subset, FS_CardinalityType

\* Dropping a prefix of expired timestamps changes no count (purgeExpired,
\* countRecent).
LEMMA PurgeKeepsCount ==
    ASSUME NEW h \in Seq(Nat), NEW n \in 0..Len(h), NEW c \in Int,
           \A i \in 1..n : h[i] <= c
    PROVE  /\ Remaining(h, n) \in Seq(Nat)
           /\ Cardinality(RecentAt(Remaining(h, n), c)) = Cardinality(RecentAt(h, c))
<1> DEFINE s == Remaining(h, n)
           A == RecentAt(s, c)
           B == RecentAt(h, c)
           f == [i \in A |-> i + n]
<1>1. /\ s \in Seq(Nat)
      /\ Len(s) = Len(h) - n
      /\ DOMAIN s = 1..Len(s) /\ DOMAIN h = 1..Len(h)
      /\ \A i \in 1..Len(s) : s[i] = h[i + n]
  BY DEF Remaining
<1> HIDE DEF s
<1>2. A \subseteq 1..Len(s) /\ B \subseteq 1..Len(h)
  BY <1>1 DEF RecentAt
<1>3. f \in Bijection(A, B)
  <2>1. f \in [A -> B]
    <3> SUFFICES ASSUME NEW i \in A PROVE i + n \in B
      OBVIOUS
    <3>1. i \in 1..Len(s) /\ s[i] > c
      BY <1>1 DEF RecentAt
    <3>2. i + n \in 1..Len(h) /\ h[i + n] = s[i]
      BY <1>1, <3>1
    <3> QED
      BY <1>1, <3>1, <3>2 DEF RecentAt
  <2>2. \A i, j \in A : f[i] = f[j] => i = j
    BY <1>2
  <2>3. \A j \in B : \E i \in A : f[i] = j
    <3> SUFFICES ASSUME NEW j \in B PROVE j - n \in A
      BY <1>2
    <3>1. j \in 1..Len(h) /\ h[j] > c
      BY <1>1 DEF RecentAt
    <3>2. j > n
      BY <3>1
    <3>3. j - n \in 1..Len(s)
      BY <1>1, <3>1, <3>2
    <3>4. s[j - n] = h[j]
      <4>1. s[j - n] = h[(j - n) + n]
        BY <1>1, <3>3
      <4> QED
        BY <4>1, <3>1
    <3> QED
      BY <1>1, <3>1, <3>3, <3>4 DEF RecentAt
  <2> QED
    BY <2>1, <2>2, <2>3, Fun_IsBij
<1>4. IsFiniteSet(A)
  BY <1>1, RecentFinite
<1>5. Cardinality(A) = Cardinality(B)
  BY <1>3, <1>4, FS_Bijection DEF ExistsBijection
<1> QED
  BY <1>1, <1>5 DEF s

\* A non-empty set of natural numbers has a least element.
LEMMA LeastNatural ==
    ASSUME NEW T \in SUBSET Nat, T # {}
    PROVE  \E x \in T : \A y \in T : x <= y
<1> DEFINE R == OpToRel(<, Nat)
<1>1. IsWellFoundedOn(R, Nat)
  BY NatLessThanWellFounded
<1>2. \A x, y \in Nat : y < x => <<y, x>> \in R
  BY DEF OpToRel
<1> HIDE DEF R
<1>3. PICK x \in T : \A y \in T : ~(<<y, x>> \in R)
  BY <1>1, WFMin
<1>4. ASSUME NEW y \in T PROVE x <= y
  <2>1. ~(y < x)
    BY <1>2, <1>3
  <2> QED
    BY <2>1
<1> QED
  BY <1>4

\* purgeExpired finds the first entry that is still in the window: the entries
\* it drops have all expired.
LEMMA ExpiredPrefix ==
    ASSUME NEW h \in Seq(Nat), now \in Nat
    PROVE  /\ Expired(h) \in 0..Len(h)
           /\ \A i \in 1..Expired(h) : h[i] <= now - Window
<1> DEFINE P(n) == /\ \A i \in 1..n : h[i] <= now - Window
                   /\ n < Len(h) => h[n + 1] > now - Window
           T == {i \in 1..Len(h) : h[i] > now - Window}
<1>0. now - Window \in Int /\ Len(h) \in Nat /\ \A i \in 1..Len(h) : h[i] \in Nat
  <2>1. now - Window \in Int
    BY RateLimitAssumption
  <2>2. Len(h) \in Nat /\ \A i \in 1..Len(h) : h[i] \in Nat
    OBVIOUS
  <2> QED
    BY <2>1, <2>2
<1>1. \E n \in 0..Len(h) : P(n)
  <2>1. CASE T = {}
    <3>1. P(Len(h))
      BY <1>0, <2>1
    <3> QED
      BY <1>0, <3>1
  <2>2. CASE T # {}
    <3>1. T \in SUBSET Nat
      BY <1>0
    <3>2. PICK x \in T : \A y \in T : x <= y
      <4> HIDE DEF T
      <4> QED
        BY <2>2, <3>1, LeastNatural
    <3>3. P(x - 1)
      BY <1>0, <3>2
    <3>4. x - 1 \in 0..Len(h)
      BY <1>0, <3>2
    <3> HIDE DEF P
    <3> QED
      BY <3>3, <3>4
  <2> QED
    BY <2>1, <2>2
<1>2. Expired(h) = CHOOSE n \in 0..Len(h) : P(n)
  BY DEF Expired
<1> QED
  BY <1>1, <1>2

\* IsAllowed answers the same with and without an expired prefix.
LEMMA PurgeKeepsAnswer ==
    ASSUME NEW h \in Seq(Nat), NEW n \in 0..Len(h), now \in Nat,
           \A i \in 1..n : h[i] <= now - Window
    PROVE  Allows(Remaining(h, n)) <=> Allows(h)
<1> DEFINE s == Remaining(h, n)
<1>1. now - Window \in Int /\ MaxAttempts \in Nat \ {0}
  BY RateLimitAssumption
<1>2. countRecent(s, now) = countRecent(h, now)
  BY <1>1, PurgeKeepsCount DEF countRecent, RecentAt
<1>3. s \in Seq(Nat) /\ Len(s) = Len(h) - n /\ \A i \in 1..Len(s) : s[i] = h[i + n]
  BY DEF Remaining
<1> HIDE DEF s
<1>4. CASE n < Len(h)
  <2>1. s # <<>> /\ h # <<>>
    BY <1>3, <1>4
  <2>2. LastFailure(s) = LastFailure(h)
    <3>1. Len(s) \in 1..Len(s) /\ Len(s) + n = Len(h)
      BY <1>3, <1>4
    <3>2. s[Len(s)] = h[Len(s) + n]
      BY <1>3, <3>1
    <3> QED
      BY <3>1, <3>2 DEF LastFailure
  <2> QED
    BY <1>2, <2>1, <2>2 DEF Allows, s
<1>5. CASE n = Len(h)
  <2>1. s = <<>>
    BY <1>3, <1>5
  <2>2. RecentAt(s, now - Window) = {}
    BY <2>1 DEF RecentAt
  <2>3. countRecent(s, now) = 0
    BY <2>2, FS_EmptySet DEF countRecent, RecentAt
  <2>4. countRecent(h, now) < MaxAttempts
    BY <1>1, <1>2, <2>3
  <2>5. Allows(s)
    BY <2>1 DEF Allows
  <2>6. Allows(h)
    BY <2>4 DEF Allows
  <2> QED
    BY <2>5, <2>6 DEF s
<1> QED
  BY <1>4, <1>5

\* A sequence of timestamps up to now is one of timestamps up to any later time.
LEMMA TimestampsWiden ==
    ASSUME NEW m \in Nat, NEW k \in Nat, m <= k, NEW h \in Seq(0..m)
    PROVE  h \in Seq(0..k) /\ h \in Seq(Nat)
<1>1. Len(h) \in Nat /\ h \in [1..Len(h) -> 0..m]
  OBVIOUS
<1>2. h \in [1..Len(h) -> 0..k] /\ h \in [1..Len(h) -> Nat]
  BY <1>1
<1> QED
  BY <1>1, <1>2

-----------------------------------------------------------------------------
(* The inductive invariant. *)

\* Every step preserves the types; a purge drops no more than there is
\* (all operations of the limiter).
LEMMA LimiterStepTypes == LimiterTypeOK /\ [LimiterNext]_limiterVars => LimiterTypeOK'
<1> SUFFICES ASSUME LimiterTypeOK, [LimiterNext]_limiterVars PROVE LimiterTypeOK'
  OBVIOUS
<1> USE RateLimitAssumption
<1>1. now \in Nat /\ \A a \in IP : failures[a] \in Seq(Nat) /\ history[a] \in Seq(Nat)
  BY TimestampsWiden DEF LimiterTypeOK
<1>2. ASSUME NEW k \in Attempt, Ask(k) PROVE LimiterTypeOK'
  BY <1>2 DEF LimiterTypeOK, Ask
<1>3. ASSUME NEW k \in Attempt, RecordFailure(k) PROVE LimiterTypeOK'
  <2>1. \A h \in Seq(0..now) : Append(h, now) \in Seq(0..now)
    BY <1>1
  <2>2. failures' \in [IP -> Seq(0..now)] /\ history' \in [IP -> Seq(0..now)]
    <3>1. CASE Enabled
      <4>1. /\ failures' = [failures EXCEPT ![ip[k]] = Append(failures[ip[k]], now)]
            /\ history' = [history EXCEPT ![ip[k]] = Append(history[ip[k]], now)]
        BY <1>3, <3>1 DEF RecordFailure
      <4>2. /\ Append(failures[ip[k]], now) \in Seq(0..now)
            /\ Append(history[ip[k]], now) \in Seq(0..now)
        BY <2>1 DEF LimiterTypeOK
      <4> QED
        BY <4>1, <4>2 DEF LimiterTypeOK
    <3>2. CASE ~Enabled
      BY <1>3, <3>2 DEF LimiterTypeOK, RecordFailure
    <3> QED
      BY <3>1, <3>2
  <2> QED
    BY <1>3, <2>2 DEF LimiterTypeOK, RecordFailure
<1>4. ASSUME NEW k \in Attempt, ClearFailures(k) PROVE LimiterTypeOK'
  <2>1. <<>> \in Seq(0..now)
    OBVIOUS
  <2> QED
    BY <1>4, <2>1 DEF LimiterTypeOK, ClearFailures
<1>5. ASSUME purgeExpired PROVE LimiterTypeOK'
  <2>1. ASSUME NEW a \in IP
        PROVE  SubSeq(failures[a], Expired(failures[a]) + 1, Len(failures[a])) \in Seq(0..now)
    <3>1. Expired(failures[a]) \in 0..Len(failures[a])
      BY <1>1, ExpiredPrefix
    <3>2. failures[a] \in Seq(0..now)
      BY DEF LimiterTypeOK
    <3> QED
      BY <3>1, <3>2, RemainingFacts DEF Remaining
  <2> QED
    BY <1>5, <2>1 DEF LimiterTypeOK, purgeExpired
<1>6. ASSUME StopCleanup PROVE LimiterTypeOK'
  BY <1>6 DEF LimiterTypeOK, StopCleanup
<1>7. ASSUME ClockTick PROVE LimiterTypeOK'
  <2>1. \A h \in Seq(0..now) : h \in Seq(0..(now + 1))
    BY <1>1, TimestampsWiden
  <2> QED
    BY <1>1, <1>7, <2>1 DEF LimiterTypeOK, ClockTick
<1>8. ASSUME UNCHANGED limiterVars PROVE LimiterTypeOK'
  BY <1>8 DEF LimiterTypeOK, limiterVars
<1> QED
  BY <1>2, <1>3, <1>4, <1>5, <1>6, <1>7, <1>8 DEF LimiterNext

\* The types hold in every reachable state (all operations of the limiter).
THEOREM LimiterTypeCorrect == LimiterSpec => []LimiterTypeOK
<1>1. LimiterInit => LimiterTypeOK
  <2>1. <<>> \in Seq(0..0)
    OBVIOUS
  <2> QED
    BY <2>1, RateLimitAssumption DEF LimiterInit, LimiterTypeOK
<1> QED
  BY <1>1, LimiterStepTypes, PTL DEF LimiterSpec

\* A failure that is recorded is appended to both (RecordFailure).
LEMMA PurgedAppend ==
    ASSUME NEW h \in Seq(Nat), NEW s, NEW t \in Nat, NEW x \in Nat, PurgedFrom(s, h, t)
    PROVE  PurgedFrom(Append(s, x), Append(h, x), t)
<1>1. PICK n \in 0..Len(h) : s = Remaining(h, n) /\ \A i \in 1..n : h[i] <= t - Window
  BY DEF PurgedFrom
<1> DEFINE g == Append(h, x)
<1>2. /\ g \in Seq(Nat) /\ Len(g) = Len(h) + 1 /\ Len(h) \in Nat
      /\ \A i \in 1..Len(h) : g[i] = h[i]
      /\ g[Len(h) + 1] = x
  BY AppendFacts
<1> HIDE DEF g
<1>n. n \in Nat /\ n <= Len(h)
  OBVIOUS
<1>3. ASSUME NEW i \in 1..n PROVE g[i] <= t - Window
  <2>1. i \in 1..Len(h)
    BY <1>2, <1>n
  <2>2. g[i] = h[i] /\ h[i] <= t - Window
    BY <1>1, <1>2, <2>1
  <2> QED
    BY <2>2
<1>4. Append(s, x) = Remaining(g, n)
  <2> DEFINE L == Append(s, x)
             R == Remaining(g, n)
  <2>1. /\ s \in Seq(Nat) /\ Len(s) = Len(h) - n
        /\ \A i \in 1..(Len(h) - n) : s[i] = h[i + n]
    BY <1>1, RemainingFacts
  <2>2. /\ R \in Seq(Nat) /\ Len(R) = Len(h) + 1 - n
        /\ \A i \in 1..(Len(h) + 1 - n) : R[i] = g[i + n]
    <3>1. n \in 0..Len(g)
      BY <1>2
    <3>2. /\ R \in Seq(Nat) /\ Len(R) = Len(g) - n
          /\ \A i \in 1..(Len(g) - n) : R[i] = g[i + n]
      BY <1>2, <3>1, RemainingFacts
    <3> QED
      BY <1>2, <3>2
  <2>3. /\ L \in Seq(Nat) /\ Len(L) = Len(h) - n + 1
        /\ \A i \in 1..(Len(h) - n) : L[i] = s[i]
        /\ L[Len(h) - n + 1] = x
    <3>1. /\ L \in Seq(Nat) /\ Len(L) = Len(s) + 1
          /\ \A i \in 1..Len(s) : L[i] = s[i]
          /\ L[Len(s) + 1] = x
      BY <2>1, AppendFacts
    <3> HIDE DEF L
    <3> QED
      BY <2>1, <3>1
  <2> HIDE DEF L, R
  <2>4. ASSUME NEW i \in 1..(Len(h) + 1 - n) PROVE L[i] = R[i]
    <3>1. CASE i <= Len(h) - n
      <4>1. i \in 1..(Len(h) - n) /\ i + n \in 1..Len(h)
        BY <1>2, <3>1
      <4> QED
        BY <1>2, <2>1, <2>2, <2>3, <4>1
    <3>2. CASE i = Len(h) - n + 1
      <4>1. i + n = Len(h) + 1
        BY <1>2, <3>2
      <4> QED
        BY <1>2, <2>2, <2>3, <3>2, <4>1
    <3>3. i <= Len(h) - n \/ i = Len(h) - n + 1
      BY <1>2, <1>n
    <3> QED
      BY <3>1, <3>2, <3>3
  <2>5. L = R
    <3>1. Len(L) = Len(R) /\ Len(L) = Len(h) + 1 - n
      BY <1>2, <2>2, <2>3
    <3> QED
      BY <2>2, <2>3, <2>4, <3>1, SameSequence
  <2> QED
    BY <2>5 DEF L, R
<1>5. n \in 0..Len(g)
  BY <1>2
<1> QED
  BY <1>3, <1>4, <1>5 DEF PurgedFrom, g

\* What has left the window stays outside it (ClockTick).
LEMMA PurgedLater ==
    ASSUME NEW h \in Seq(Nat), NEW s, NEW t \in Nat, PurgedFrom(s, h, t)
    PROVE  PurgedFrom(s, h, t + 1)
<1>1. PICK n \in 0..Len(h) : s = Remaining(h, n) /\ \A i \in 1..n : h[i] <= t - Window
  BY DEF PurgedFrom
<1>2. ASSUME NEW i \in 1..n PROVE h[i] <= (t + 1) - Window
  <2>1. h[i] \in Nat /\ h[i] <= t - Window
    BY <1>1
  <2>2. Window \in Nat
    BY RateLimitAssumption
  <2> QED
    BY <2>1, <2>2
<1> QED
  BY <1>1, <1>2 DEF PurgedFrom

\* One purge after another drops a longer prefix (purgeExpired).
LEMMA PurgedAgain ==
    ASSUME NEW h \in Seq(Nat), NEW s, now \in Nat, PurgedFrom(s, h, now)
    PROVE  PurgedFrom(Remaining(s, Expired(s)), h, now)
<1>1. PICK n \in 0..Len(h) : s = Remaining(h, n) /\ \A i \in 1..n : h[i] <= now - Window
  BY DEF PurgedFrom
<1>2. s \in Seq(Nat) /\ Len(s) = Len(h) - n /\ \A i \in 1..Len(s) : s[i] = h[i + n]
  BY <1>1 DEF Remaining
<1> DEFINE m == Expired(s)
<1>3. m \in 0..Len(s) /\ \A i \in 1..m : s[i] <= now - Window
  BY <1>2, ExpiredPrefix
<1> HIDE DEF m
<1>4. n + m \in 0..Len(h)
  BY <1>2, <1>3
<1>5. \A i \in 1..(n + m) : h[i] <= now - Window
  <2> SUFFICES ASSUME NEW i \in 1..(n + m), i > n PROVE h[i] <= now - Window
    BY <1>1, <1>3
  <2>1. i - n \in 1..m /\ i - n \in 1..Len(s) /\ (i - n) + n = i
    BY <1>3
  <2> QED
    BY <1>2, <1>3, <2>1
<1>6. Remaining(s, m) = Remaining(h, n + m)
  <2> DEFINE u == Remaining(s, m)
             v == Remaining(h, n + m)
  <2>1. u \in Seq(Nat) /\ Len(u) = Len(s) - m /\ \A i \in 1..(Len(s) - m) : u[i] = s[i + m]
    BY <1>2, <1>3, RemainingFacts
  <2>2. /\ v \in Seq(Nat) /\ Len(v) = Len(h) - (n + m)
        /\ \A i \in 1..(Len(h) - (n + m)) : v[i] = h[i + (n + m)]
    BY <1>4, RemainingFacts
  <2> HIDE DEF u, v
  <2>3. Len(u) = Len(v) /\ Len(h) \in Nat
    BY <1>2, <1>3, <2>1, <2>2
  <2>4. ASSUME NEW i \in 1..Len(u) PROVE u[i] = v[i]
    <3>1. i + m \in 1..Len(s) /\ (i + m) + n = i + (n + m)
      BY <1>2, <1>3, <2>1, <2>3
    <3>2. u[i] = s[i + m] /\ s[i + m] = h[(i + m) + n]
      BY <1>2, <2>1, <3>1
    <3>3. v[i] = h[i + (n + m)]
      BY <2>2, <2>3
    <3> QED
      BY <3>1, <3>2, <3>3
  <2>5. u = v
    BY <2>1, <2>2, <2>3, <2>4, SameSequence
  <2> QED
    BY <2>5 DEF u, v
<1> QED
  BY <1>4, <1>5, <1>6 DEF PurgedFrom, m

LEMMA LimiterStep == LimiterInv /\ [LimiterNext]_limiterVars => LimiterInv'
<1> SUFFICES ASSUME LimiterInv, [LimiterNext]_limiterVars PROVE \A a \in IP : PurgedFrom(failures[a], history[a], now)'
  BY LimiterStepTypes DEF LimiterInv
<1> SUFFICES ASSUME NEW a \in IP PROVE PurgedFrom(failures'[a], history'[a], now')
  OBVIOUS
<1>1. /\ LimiterTypeOK /\ now \in Nat /\ history[a] \in Seq(Nat)
      /\ PurgedFrom(failures[a], history[a], now)
  BY TimestampsWiden, RateLimitAssumption DEF LimiterInv, LimiterTypeOK
<1>2. ASSUME NEW k \in Attempt, RecordFailure(k), Enabled
      PROVE  PurgedFrom(failures'[a], history'[a], now')
  <2>1. /\ failures' = [failures EXCEPT ![ip[k]] = Append(failures[ip[k]], now)]
        /\ history' = [history EXCEPT ![ip[k]] = Append(history[ip[k]], now)]
        /\ now' = now
    BY <1>2 DEF RecordFailure
  <2>2. CASE a = ip[k]
    <3>1. failures'[a] = Append(failures[a], now) /\ history'[a] = Append(history[a], now)
      BY <1>1, <2>1, <2>2 DEF LimiterTypeOK
    <3> QED
      BY <1>1, <2>1, <3>1, PurgedAppend
  <2>3. CASE a # ip[k]
    BY <1>1, <2>1, <2>3 DEF LimiterTypeOK
  <2> QED
    BY <2>2, <2>3
<1>3. ASSUME NEW k \in Attempt, ClearFailures(k), Enabled
      PROVE  PurgedFrom(failures'[a], history'[a], now')
  <2>1. /\ failures' = [failures EXCEPT ![ip[k]] = <<>>]
        /\ history' = [history EXCEPT ![ip[k]] = <<>>]
        /\ now' = now
    BY <1>3 DEF ClearFailures
  <2>2. CASE a = ip[k]
    <3>1. failures'[a] = <<>> /\ history'[a] = <<>>
      BY <1>1, <2>1, <2>2 DEF LimiterTypeOK
    <3>2. Remaining(<<>>, 0) = <<>>
      BY DEF Remaining
    <3> QED
      BY <3>1, <3>2 DEF PurgedFrom
  <2>3. CASE a # ip[k]
    BY <1>1, <2>1, <2>3 DEF LimiterTypeOK
  <2> QED
    BY <2>2, <2>3
<1>4. ASSUME purgeExpired PROVE PurgedFrom(failures'[a], history'[a], now')
  <2>1. failures'[a] = Remaining(failures[a], Expired(failures[a])) /\ history' = history /\ now' = now
    BY <1>4 DEF purgeExpired, Remaining
  <2> QED
    BY <1>1, <2>1, PurgedAgain
<1>5. ASSUME ClockTick PROVE PurgedFrom(failures'[a], history'[a], now')
  BY <1>1, <1>5, PurgedLater DEF ClockTick
<1>6. ASSUME UNCHANGED <<now, failures, history>>
      PROVE  PurgedFrom(failures'[a], history'[a], now')
  BY <1>1, <1>6
<1>7. ASSUME NEW k \in Attempt, RecordFailure(k) \/ ClearFailures(k), ~Enabled
      PROVE  UNCHANGED <<now, failures, history>>
  BY <1>7 DEF RecordFailure, ClearFailures
<1>8. ASSUME (\E k \in Attempt : Ask(k)) \/ StopCleanup \/ UNCHANGED limiterVars
      PROVE  UNCHANGED <<now, failures, history>>
  BY <1>8 DEF Ask, StopCleanup, limiterVars
<1> QED
  BY <1>2, <1>3, <1>4, <1>5, <1>6, <1>7, <1>8 DEF LimiterNext

\* The inductive invariant holds in every reachable state: what purgeExpired has
\* dropped had left the window, whenever it ran.
THEOREM LimiterInductive == LimiterSpec => []LimiterInv
<1>1. LimiterInit => LimiterInv
  <2> SUFFICES ASSUME LimiterInit PROVE LimiterInv
    OBVIOUS
  <2>1. <<>> \in Seq(0..0) /\ Remaining(<<>>, 0) = <<>>
    BY DEF Remaining
  <2>2. LimiterTypeOK
    BY <2>1, RateLimitAssumption DEF LimiterInit, LimiterTypeOK
  <2>3. \A a \in IP : PurgedFrom(failures[a], history[a], now)
    BY <2>1 DEF LimiterInit, PurgedFrom
  <2> QED
    BY <2>2, <2>3 DEF LimiterInv
<1> QED
  BY <1>1, LimiterStep, PTL DEF LimiterSpec

\* IsAllowed answers as if nothing had ever been purged (purgeExpired,
\* countRecent).
THEOREM PurgeInvisible == LimiterSpec => []PurgeIsInvisible
<1>1. LimiterInv => PurgeIsInvisible
  <2> SUFFICES ASSUME LimiterInv, NEW a \in IP PROVE Allows(failures[a]) <=> Allows(history[a])
    BY DEF PurgeIsInvisible, IsAllowed
  <2>1. now \in Nat /\ history[a] \in Seq(Nat) /\ PurgedFrom(failures[a], history[a], now)
    BY TimestampsWiden, RateLimitAssumption DEF LimiterInv, LimiterTypeOK
  <2> QED
    BY <2>1, PurgeKeepsAnswer DEF PurgedFrom
<1> QED
  BY <1>1, LimiterInductive, PTL

-----------------------------------------------------------------------------
(* Lockouts. *)

\* A lockout of d failures is at least the shortest of c or more, and more failures
\* make none shorter if the configured lockouts grow (lockoutDuration).
LEMMA LockoutBounds ==
    ASSUME NEW c \in Nat, NEW d \in Nat, c <= d
    PROVE  /\ lockoutDuration(c) \in Nat /\ lockoutDuration(d) \in Nat
           /\ LockoutFrom(c) \in Nat
           /\ LockoutFrom(c) <= lockoutDuration(d)
           /\ LockoutsGrow => lockoutDuration(c) <= lockoutDuration(d)
<1>1. /\ LockoutDuration \in Nat /\ Lockout2 \in Nat /\ Lockout3 \in Nat
      /\ Failures2 \in Nat /\ Failures3 \in Nat /\ Failures2 <= Failures3
  BY RateLimitAssumption
<1> QED
  BY <1>1 DEF lockoutDuration, LockoutFrom, LockoutsGrow

\* An earlier time counts at least as many of the same failures (countRecent).
LEMMA CountFalls ==
    ASSUME NEW h \in Seq(Nat), NEW t \in Nat, NEW u \in Nat, t <= u
    PROVE  /\ countRecent(h, t) \in Nat /\ countRecent(h, u) \in Nat
           /\ countRecent(h, u) <= countRecent(h, t)
<1>1. t - Window \in Int /\ u - Window \in Int /\ t - Window <= u - Window
  BY RateLimitAssumption
<1>2. Cardinality(RecentAt(h, u - Window)) \in Nat
  BY <1>1, RecentFinite
<1>3. /\ Cardinality(RecentAt(h, t - Window)) \in Nat
      /\ Cardinality(RecentAt(h, u - Window)) <= Cardinality(RecentAt(h, t - Window))
  BY <1>1, RecentFinite
<1> QED
  BY <1>2, <1>3 DEF countRecent, RecentAt

\* The timestamp of the last failure is a time.
LEMMA LastType ==
    ASSUME NEW h \in Seq(Nat), h # <<>>
    PROVE  LastFailure(h) \in Nat /\ Len(h) \in 1..Len(h)
  BY DEF LastFailure

\* A burst of failures locks its address out for as long as its tier says, however the
\* lockouts are configured, whatever is purged meanwhile and however the attempts
\* overlap (IsAllowed, RecordFailure).
THEOREM BurstLockedOut == LimiterSpec => []BurstIsLockedOut
<1>1. LimiterTypeOK /\ PurgeIsInvisible => BurstIsLockedOut
  <2> SUFFICES ASSUME LimiterTypeOK, PurgeIsInvisible, NEW a \in IP,
                      NEW n \in MaxAttempts..Len(history[a]), Enabled,
                      now <= LastFailure(history[a]) + LockoutFrom(n),
                      countRecent(history[a], LastFailure(history[a]) + LockoutFrom(n)) >= n
               PROVE  ~IsAllowed(a)
    BY DEF BurstIsLockedOut
  <2> DEFINE h == history[a]
             end == LastFailure(h) + LockoutFrom(n)
             count == countRecent(h, now)
  <2>1. now \in Nat /\ h \in Seq(Nat) /\ MaxAttempts \in Nat \ {0}
    BY TimestampsWiden, RateLimitAssumption DEF LimiterTypeOK
  <2>n. n \in Nat /\ n >= MaxAttempts /\ n <= Len(h) /\ h # <<>> /\ LockoutFrom(n) \in Nat
    <3>1. n \in Nat /\ n >= MaxAttempts /\ n <= Len(h) /\ Len(h) \in Nat
      BY <2>1
    <3>2. h # <<>>
      BY <2>1, <3>1
    <3> QED
      BY <3>1, <3>2, LockoutBounds
  <2>2. LastFailure(h) \in Nat /\ end \in Nat
    BY <2>1, <2>n, LastType
  <2>3. count \in Nat /\ countRecent(h, end) \in Nat /\ countRecent(h, end) <= count
    BY <2>1, <2>2, CountFalls
  <2>4. n <= count /\ ~(count < MaxAttempts)
    BY <2>1, <2>n, <2>3
  <2>5. lockoutDuration(count) \in Nat /\ LockoutFrom(n) <= lockoutDuration(count)
    BY <2>n, <2>3, <2>4, LockoutBounds
  <2>6. ~(now > LastFailure(h) + lockoutDuration(count))
    BY <2>1, <2>n, <2>2, <2>5
  <2>7. ~Allows(h)
    BY <2>n, <2>4, <2>6 DEF Allows
  <2> QED
    BY <2>7 DEF PurgeIsInvisible
<1> QED
  BY <1>1, LimiterTypeCorrect, PurgeInvisible, PTL

-----------------------------------------------------------------------------
(* LimiterRefinesLock. *)

\* A further failure never lets a locked address in (RecordFailure, IsAllowed).
LEMMA FailureKeepsLock ==
    ASSUME NEW h \in Seq(Nat), now \in Nat, ~Allows(h)
    PROVE  ~Allows(Append(h, now))
<1> DEFINE g == Append(h, now)
           cut == now - Window
<1>1. g \in Seq(Nat) /\ Len(g) = Len(h) + 1 /\ (\A i \in 1..Len(h) : g[i] = h[i])
      /\ g[Len(h) + 1] = now
  BY AppendFacts
<1> HIDE DEF g
<1>2. cut \in Int /\ MaxAttempts \in Nat
  BY RateLimitAssumption
<1>3. RecentAt(h, cut) \subseteq RecentAt(g, cut)
  <2>1. \A i \in DOMAIN h : i \in DOMAIN g /\ g[i] = h[i]
    <3>1. DOMAIN h = 1..Len(h) /\ DOMAIN g = 1..Len(g) /\ Len(h) \in Nat
      BY <1>1
    <3>2. 1..Len(h) \subseteq 1..Len(g)
      BY <1>1, <3>1
    <3> QED
      BY <1>1, <3>1, <3>2, Zenon
  <2> QED
    BY <2>1, Zenon DEF RecentAt
<1>4. IsFiniteSet(RecentAt(g, cut)) /\ Cardinality(RecentAt(g, cut)) \in Nat
  BY <1>1, <1>2, RecentFinite
<1>5. Cardinality(RecentAt(h, cut)) \in Nat
  BY <1>2, RecentFinite
<1>6. Cardinality(RecentAt(h, cut)) <= Cardinality(RecentAt(g, cut))
  BY <1>3, <1>4, FS_Subset
<1>7. countRecent(h, now) \in Nat /\ countRecent(g, now) \in Nat
      /\ countRecent(h, now) <= countRecent(g, now)
  BY <1>4, <1>5, <1>6 DEF countRecent, RecentAt
<1>8. ~(countRecent(h, now) < MaxAttempts) /\ Enabled
  BY DEF Allows
<1>9. ~(countRecent(g, now) < MaxAttempts)
  BY <1>2, <1>7, <1>8
<1>10. LastFailure(g) = now /\ g # <<>>
  BY <1>1 DEF LastFailure
<1>11. ~(now > LastFailure(g) + lockoutDuration(countRecent(g, now)))
  BY <1>7, <1>10, LockoutBounds
<1> QED
  BY <1>8, <1>9, <1>10, <1>11 DEF Allows, g

\* If the lockouts grow, time lets nobody be locked who was not: the count of recent
\* failures falls, and with it the lockout (IsAllowed).
LEMMA TimeOnlyUnlocks ==
    ASSUME LimiterTypeOK, ClockTick, LockoutsGrow, NEW a \in IP, Allows(failures[a])
    PROVE  Allows(failures[a])'
<1> DEFINE h == failures[a]
           count == countRecent(h, now)
           later == countRecent(h, now + 1)
<1>1. now \in Nat /\ now + 1 \in Nat /\ h \in Seq(Nat) /\ MaxAttempts \in Nat
  BY TimestampsWiden, RateLimitAssumption DEF LimiterTypeOK
<1>2. now' = now + 1 /\ failures'[a] = h
  BY DEF ClockTick
<1>3. count \in Nat /\ later \in Nat /\ later <= count
  BY <1>1, CountFalls
<1>4. /\ lockoutDuration(count) \in Nat /\ lockoutDuration(later) \in Nat
      /\ lockoutDuration(later) <= lockoutDuration(count)
  BY <1>3, LockoutBounds
<1>5. CASE ~Enabled \/ h = <<>>
  BY <1>2, <1>5 DEF Allows
<1>6. CASE count < MaxAttempts
  <2>1. later < MaxAttempts
    BY <1>1, <1>3, <1>6
  <2> QED
    BY <1>2, <2>1 DEF Allows
<1>7. CASE h # <<>> /\ now > LastFailure(h) + lockoutDuration(count)
  <2>1. LastFailure(h) \in Nat
    BY <1>1, <1>7, LastType
  <2>2. now + 1 > LastFailure(h) + lockoutDuration(later)
    BY <1>1, <1>4, <1>7, <2>1
  <2> QED
    BY <1>2, <2>2 DEF Allows
<1> QED
  BY <1>5, <1>6, <1>7 DEF Allows

\* Every step of the limiter is a step of the abstract lock, or leaves both of its
\* sets alone.
LEMMA NextRefines == LimiterTypeOK /\ [LimiterNext]_limiterVars => [AuthLock!Next]_AuthLock!lockVars
<1> DEFINE Suspects == {a \in IP : failures[a] # <<>>}
<1> SUFFICES ASSUME LimiterTypeOK, [LimiterNext]_limiterVars PROVE [AuthLock!Next]_AuthLock!lockVars
  OBVIOUS
<1>1. now \in Nat /\ \A a \in IP : failures[a] \in Seq(Nat)
  BY TimestampsWiden, RateLimitAssumption DEF LimiterTypeOK
<1>2. ASSUME UNCHANGED <<now, failures>> PROVE UNCHANGED AuthLock!lockVars
  BY <1>2 DEF Locked, IsAllowed, Allows, countRecent, LastFailure, AuthLock!lockVars
<1>3. ASSUME NEW k \in Attempt, RecordFailure(k), Enabled
      PROVE  AuthLock!RecordFailure(ip[k])
  <2>1. /\ ip[k] \in IP /\ now' = now
        /\ failures' = [failures EXCEPT ![ip[k]] = Append(failures[ip[k]], now)]
    BY <1>3 DEF RecordFailure, LimiterTypeOK
  <2>2. ASSUME NEW a \in IP, a # ip[k]
        PROVE  /\ Allows(failures[a])' <=> Allows(failures[a])
               /\ failures'[a] = failures[a]
    <3>1. failures'[a] = failures[a]
      BY <2>1, <2>2 DEF LimiterTypeOK
    <3> QED
      BY <2>1, <3>1 DEF Allows, countRecent, LastFailure
  <2>3. (failures[ip[k]])' = Append(failures[ip[k]], now) /\ failures'[ip[k]] # <<>>
    <3>1. failures'[ip[k]] = Append(failures[ip[k]], now) /\ ip' = ip
      BY <2>1, <1>3 DEF LimiterTypeOK, RecordFailure
    <3>2. Append(failures[ip[k]], now) # <<>>
      <4>1. failures[ip[k]] \in Seq(Nat)
        BY <1>1, <2>1
      <4>2. Len(Append(failures[ip[k]], now)) = Len(failures[ip[k]]) + 1 /\ Len(failures[ip[k]]) \in Nat
        BY <1>1, <4>1, AppendFacts
      <4>3. Len(<<>>) = 0
        OBVIOUS
      <4> QED
        BY <4>2, <4>3
    <3> QED
      BY <3>1, <3>2
  <2>4. ASSUME ~Allows(failures[ip[k]]) PROVE ~Allows(failures[ip[k]])'
    <3>1. ~Allows(Append(failures[ip[k]], now))
      BY <1>1, <2>1, <2>4, FailureKeepsLock
    <3> QED
      BY <2>1, <2>3, <3>1 DEF Allows, countRecent, LastFailure
  <2>5. ip' = ip
    BY <1>3 DEF RecordFailure
  <2>6. Locked' \in {Locked, Locked \union {ip[k]}}
    BY <2>1, <2>2, <2>4, <2>5 DEF Locked, IsAllowed
  <2>7. Suspects' = Suspects \union {ip[k]}
    BY <2>1, <2>2, <2>3
  <2> QED
    BY <2>6, <2>7 DEF AuthLock!RecordFailure
<1>4. ASSUME NEW k \in Attempt, ClearFailures(k), Enabled
      PROVE  AuthLock!ClearFailures(ip[k])
  <2>1. /\ ip[k] \in IP /\ now' = now /\ ip' = ip
        /\ failures' = [failures EXCEPT ![ip[k]] = <<>>]
    BY <1>4 DEF ClearFailures, LimiterTypeOK
  <2>2. ASSUME NEW a \in IP, a # ip[k]
        PROVE  /\ Allows(failures[a])' <=> Allows(failures[a])
               /\ failures'[a] = failures[a]
    <3>1. failures'[a] = failures[a]
      BY <2>1, <2>2 DEF LimiterTypeOK
    <3> QED
      BY <2>1, <3>1 DEF Allows, countRecent, LastFailure
  <2>3. failures'[ip[k]] = <<>>
    BY <2>1 DEF LimiterTypeOK
  <2>4. Allows(failures[ip[k]])'
    BY <2>1, <2>3 DEF Allows
  <2>5. Locked' = Locked \ {ip[k]}
    BY <2>1, <2>2, <2>4 DEF Locked, IsAllowed
  <2>6. Suspects' = Suspects \ {ip[k]}
    BY <2>1, <2>2, <2>3
  <2> QED
    BY <2>5, <2>6 DEF AuthLock!ClearFailures
<1>5. ASSUME purgeExpired PROVE AuthLock!TimePasses
  <2>1. ASSUME NEW a \in IP
        PROVE  /\ Allows(failures[a])' <=> Allows(failures[a])
               /\ failures[a] = <<>> => failures'[a] = <<>>
    <3>1. failures'[a] = Remaining(failures[a], Expired(failures[a])) /\ now' = now
      BY <1>5 DEF purgeExpired, Remaining
    <3>2. Expired(failures[a]) \in 0..Len(failures[a])
      BY <1>1, ExpiredPrefix
    <3>3. Allows(Remaining(failures[a], Expired(failures[a]))) <=> Allows(failures[a])
      BY <1>1, ExpiredPrefix, PurgeKeepsAnswer
    <3>4. ASSUME failures[a] = <<>> PROVE failures'[a] = <<>>
      <4>1. Remaining(<<>>, 0) = <<>> /\ Expired(failures[a]) = 0
        BY <3>2, <3>4 DEF Remaining
      <4> QED
        BY <3>1, <3>4, <4>1
    <3> QED
      BY <3>1, <3>3, <3>4 DEF Allows, countRecent, LastFailure
  <2>2. Locked' = Locked
    BY <2>1 DEF Locked, IsAllowed
  <2>3. Suspects' \subseteq Suspects
    BY <2>1
  <2>4. Locked' \subseteq Suspects'
    BY DEF Locked, IsAllowed, Allows
  <2> QED
    BY <2>2, <2>3, <2>4 DEF AuthLock!TimePasses
<1>6. ASSUME ClockTick PROVE AuthLock!TimePasses
  <2>1. LockoutsGrow => Locked' \subseteq Locked
    BY <1>6, TimeOnlyUnlocks DEF Locked, IsAllowed
  <2>2. Suspects' = Suspects
    BY <1>6 DEF ClockTick
  <2>3. Locked' \subseteq Suspects'
    BY DEF Locked, IsAllowed, Allows
  <2> QED
    BY <2>1, <2>2, <2>3 DEF AuthLock!TimePasses
<1>7. ASSUME NEW k \in Attempt, RecordFailure(k) \/ ClearFailures(k), ~Enabled
      PROVE  UNCHANGED <<now, failures>>
  BY <1>7 DEF RecordFailure, ClearFailures
<1>8. ASSUME (\E k \in Attempt : Ask(k)) \/ StopCleanup \/ UNCHANGED limiterVars
      PROVE  UNCHANGED <<now, failures>>
  BY <1>8 DEF Ask, StopCleanup, limiterVars
<1>9. \A k \in Attempt : ip[k] \in IP
  BY DEF LimiterTypeOK
<1> HIDE DEF Suspects
<1>10. ASSUME NEW k \in Attempt, RecordFailure(k) \/ ClearFailures(k), Enabled PROVE AuthLock!Next
  <2>1. PICK a \in IP : a = ip[k]
    BY <1>9
  <2>2. AuthLock!RecordFailure(a) \/ AuthLock!ClearFailures(a)
    BY <1>3, <1>4, <1>10, <2>1 DEF AuthLock!RecordFailure, AuthLock!ClearFailures
  <2> QED
    BY <2>2, Zenon DEF AuthLock!Next
<1>11. ASSUME purgeExpired \/ ClockTick PROVE AuthLock!Next
  BY <1>5, <1>6, <1>11, Zenon DEF AuthLock!Next
<1>12. AuthLock!Next \/ UNCHANGED AuthLock!lockVars
  BY <1>2, <1>7, <1>8, <1>10, <1>11, Zenon DEF LimiterNext
<1> QED
  BY <1>12

\* The limiter implements the abstract lock that the model of the proxy uses, however
\* its lockouts are configured (IsAllowed, RecordFailure, ClearFailures, purgeExpired).
THEOREM LimiterRefinesLock == LimiterSpec => ImplementsAuthLock
<1>1. LimiterInit => AuthLock!Init
  BY DEF LimiterInit, AuthLock!Init, Locked, IsAllowed, Allows
<1> QED
  BY <1>1, NextRefines, LimiterTypeCorrect, PTL DEF LimiterSpec, ImplementsAuthLock, AuthLock!Spec

=============================================================================
