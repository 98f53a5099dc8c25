---------------------------- MODULE RateLimiter ----------------------------
(***************************************************************************)
(* wsproxy/ratelimit.go: the limiter of failed authentication attempts.     *)
(* Every request asks IsAllowed when it arrives, and its handshake, much    *)
(* later, reports a failure or a success; attempts of one address overlap.  *)
(* A background goroutine purges what has left the window.                  *)
(*                                                                          *)
(* Time is counted in ticks.  The tiers of lockoutDuration are constants    *)
(* here (10 failures and 5m, 20 failures and 1h in the code), so that a     *)
(* small instance reaches them.                                             *)
(***************************************************************************)
EXTENDS Integers, Sequences, FiniteSets

CONSTANTS
    IP,                \* client addresses
    Attempt,           \* the attempts of one behaviour
    Enabled,           \* config.Enabled
    Window,            \* config.Window
    MaxAttempts,       \* config.MaxAttempts
    LockoutDuration,   \* config.LockoutDuration, the first tier
    Failures2, Lockout2, Failures3, Lockout3,   \* the tiers above it
    MaxTime            \* bound: the clock's last tick

\* The tiers begin in order; nothing orders the lockouts themselves, since the
\* first is configured and the others are not.  NewServer replaces a MaxAttempts
\* of zero.
ASSUME RateLimitAssumption ==
    /\ IsFiniteSet(Attempt)
    /\ Enabled \in BOOLEAN
    /\ MaxTime \in Nat
    /\ MaxAttempts \in Nat \ {0}
    /\ {Window, LockoutDuration, Failures2, Lockout2, Failures3, Lockout3} \subseteq Nat
    /\ Failures2 <= Failures3

VARIABLES
    now,        \* the clock
    ip,         \* [Attempt -> its address]: fixed for a behaviour
    attempt,    \* [Attempt -> how far it has come]
    failures,   \* rl.failures; an absent key reads as the empty sequence
    cleaning,   \* the background goroutine runs
    history     \* failures, had nothing ever been purged: a history variable

limiterVars == <<now, ip, attempt, failures, cleaning, history>>

-----------------------------------------------------------------------------
LastFailure(timestamps) == timestamps[Len(timestamps)]

\* The failures in the window that ends at time t.
countRecent(timestamps, t) ==
    Cardinality({i \in DOMAIN timestamps : timestamps[i] > t - Window})

lockoutDuration(failCount) ==
    IF failCount >= Failures3 THEN Lockout3
    ELSE IF failCount >= Failures2 THEN Lockout2
    ELSE LockoutDuration

\* Faulty variant: the lockout starts one failure late.
AllowsOneMore(timestamps) ==
    \/ countRecent(timestamps, now) <= MaxAttempts
    \/ now > LastFailure(timestamps) + lockoutDuration(countRecent(timestamps, now))

\* What IsAllowed makes of the timestamps of an address.
Allows(timestamps) ==
    \/ ~Enabled
    \/ timestamps = <<>>
    \/ countRecent(timestamps, now) < MaxAttempts
    \/ now > LastFailure(timestamps) + lockoutDuration(countRecent(timestamps, now))

IsAllowed(a) == Allows(failures[a])

LimiterInit ==
    /\ now = 0
    /\ ip \in [Attempt -> IP]
    /\ attempt = [k \in Attempt |-> "idle"]
    /\ failures = [a \in IP |-> <<>>]
    /\ cleaning = TRUE
    /\ history = [a \in IP |-> <<>>]

\* handleWebSocket asks; a refused attempt ends there.
Ask(k) ==
    /\ attempt[k] = "idle"
    /\ attempt' = [attempt EXCEPT ![k] = IF IsAllowed(ip[k]) THEN "trying" ELSE "refused"]
    /\ UNCHANGED <<now, ip, failures, cleaning, history>>

\* Faulty variant: one map entry serves all addresses.
RecordFailureForAll(k) ==
    /\ attempt[k] = "trying"
    /\ attempt' = [attempt EXCEPT ![k] = "failed"]
    /\ failures' = [a \in IP |-> Append(failures[a], now)]
    /\ history' = failures'
    /\ UNCHANGED <<now, ip, cleaning>>

RecordFailure(k) ==
    /\ attempt[k] = "trying"
    /\ attempt' = [attempt EXCEPT ![k] = "failed"]
    /\ IF Enabled
       THEN /\ failures' = [failures EXCEPT ![ip[k]] = Append(@, now)]
            /\ history' = [history EXCEPT ![ip[k]] = Append(@, now)]
       ELSE UNCHANGED <<failures, history>>
    /\ UNCHANGED <<now, ip, cleaning>>

ClearFailures(k) ==
    /\ attempt[k] = "trying"
    /\ attempt' = [attempt EXCEPT ![k] = "passed"]
    /\ IF Enabled
       THEN /\ failures' = [failures EXCEPT ![ip[k]] = <<>>]
            /\ history' = [history EXCEPT ![ip[k]] = <<>>]
       ELSE UNCHANGED <<failures, history>>
    /\ UNCHANGED <<now, ip, cleaning>>

\* Faulty variant: entries older than the lockout are dropped.
purgeExpiredLocked ==
    /\ cleaning
    /\ failures' = [a \in IP |->
          SelectSeq(failures[a], LAMBDA t : t > now - LockoutDuration)]
    /\ UNCHANGED <<now, ip, attempt, cleaning, history>>

\* How many entries precede the first one that is still in the window.
Expired(timestamps) ==
    CHOOSE n \in 0..Len(timestamps) :
        /\ \A i \in 1..n : timestamps[i] <= now - Window
        /\ n < Len(timestamps) => timestamps[n + 1] > now - Window

purgeExpired ==
    /\ cleaning
    /\ failures' = [a \in IP |->
          SubSeq(failures[a], Expired(failures[a]) + 1, Len(failures[a]))]
    /\ UNCHANGED <<now, ip, attempt, cleaning, history>>

\* StopCleanup, up to the return of the background goroutine.
StopCleanup ==
    /\ cleaning
    /\ cleaning' = FALSE
    /\ UNCHANGED <<now, ip, attempt, failures, history>>

ClockTick ==
    /\ now < MaxTime
    /\ now' = now + 1
    /\ UNCHANGED <<ip, attempt, failures, cleaning, history>>

LimiterNext ==
    \/ \E k \in Attempt : Ask(k) \/ RecordFailure(k) \/ ClearFailures(k)
    \/ purgeExpired \/ StopCleanup \/ ClockTick

LimiterSpec == LimiterInit /\ [][LimiterNext]_limiterVars

-----------------------------------------------------------------------------
(* Properties. *)

\* The type of every variable; timestamps are never in the future.
LimiterTypeOK ==
    /\ now \in 0..MaxTime
    /\ ip \in [Attempt -> IP]
    /\ attempt \in [Attempt -> {"idle", "trying", "refused", "failed", "passed"}]
    /\ failures \in [IP -> Seq(0..now)]
    /\ cleaning \in BOOLEAN
    /\ history \in [IP -> Seq(0..now)]

Locked == {a \in IP : ~IsAllowed(a)}

\* More failures never make for a shorter lockout, as with the default of 30s.
LockoutsGrow == LockoutDuration <= Lockout2 /\ Lockout2 <= Lockout3

AuthLock == INSTANCE AuthLock
    WITH suspects <- {a \in IP : failures[a] # <<>>}, locked <- Locked, Escalating <- LockoutsGrow

\* The limiter is what the proxy's model takes it for: a failure locks at most
\* its own address, a success clears its own, purging and the clock lock nobody
\* without failures on record, and nobody at all if the lockouts grow with the
\* failures, although a lockout depends on how many of them are still in the
\* window (IsAllowed, RecordFailure, ClearFailures, purgeExpired).
ImplementsAuthLock == AuthLock!Spec

\* The background goroutine is invisible: whenever it runs, and whether StopCleanup has
\* ended it or not, IsAllowed answers as if nothing had ever been purged
\* (purgeExpired, countRecent: both decide what is old).
PurgeIsInvisible == \A a \in IP : IsAllowed(a) <=> Allows(history[a])

\* The shortest lockout of an address with n or more failures: with the default
\* configuration the lockout of n failures.
LockoutFrom(n) ==
    IF n >= Failures3 THEN Lockout3
    ELSE LET upper == IF Lockout2 <= Lockout3 THEN Lockout2 ELSE Lockout3
         IN  IF n >= Failures2 \/ upper <= LockoutDuration THEN upper ELSE LockoutDuration

\* However the attempts of an address overlap, since checking and recording are
\* separate steps: n failures, at least MaxAttempts, that are all still in the window
\* when the lockout of n or more failures ends keep the address out until it ends, for
\* every tier of lockouts (IsAllowed, lockoutDuration, RecordFailure, purgeExpired).
BurstIsLockedOut ==
    \A a \in IP : \A n \in MaxAttempts..Len(history[a]) :
        LET end == LastFailure(history[a]) + LockoutFrom(n)
        IN  Enabled /\ now <= end /\ countRecent(history[a], end) >= n => ~IsAllowed(a)
=============================================================================
