----------------------------- MODULE MCWsProxy -----------------------------
(* WsProxy on small instances: two requests, to two targets or to one, or    *)
(* one request where one session is enough.                                  *)
EXTENDS WsProxy

CONSTANTS r1, r2, t1, t2, a1

TwoRequests == {r1, r2}
OneRequest == {r1}
TwoTargets == {t1, t2}
OneTarget == {t1}
OneIP == {a1}

=============================================================================
