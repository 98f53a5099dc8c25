------------------------------ MODULE AuthLock ------------------------------
(***************************************************************************)
(* What the rest of the proxy may rely on of the rate limiter: suspects are *)
(* the addresses with failures on record, and locked the ones among them    *)
(* that are refused.  A failed attempt may make its own address a suspect   *)
(* and lock it; a successful one clears its own address.  Time forgets      *)
(* suspects and unlocks; when longer lockouts do not come with more         *)
(* failures (Escalating is FALSE) it may also lock a suspect once more,     *)
(* as a shorter lockout gives way to a longer one.  RateLimiter implements  *)
(* this specification.                                                      *)
(***************************************************************************)
CONSTANTS IP, Escalating

VARIABLES suspects, locked

lockVars == <<suspects, locked>>

Init == suspects = {} /\ locked = {}

RecordFailure(ip) ==
    \E new \in {{}, {ip}} :
        /\ suspects' = suspects \union new
        /\ locked' \in {locked, locked \union new}

ClearFailures(ip) ==
    /\ suspects' = suspects \ {ip}
    /\ locked' = locked \ {ip}

TimePasses ==
    /\ suspects' \in SUBSET suspects
    /\ locked' \in SUBSET suspects'
    /\ Escalating => locked' \subseteq locked

Next ==
    \/ TimePasses
    \/ \E ip \in IP : RecordFailure(ip) \/ ClearFailures(ip)

Spec == Init /\ [][Next]_lockVars
=============================================================================
