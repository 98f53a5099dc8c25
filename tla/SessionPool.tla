---------------------------- MODULE SessionPool ----------------------------
(***************************************************************************)
(* What the owner of the VNC servers may rely on of the proxy: a request    *)
(* takes a slot of a pool that is limited in all and for each target,       *)
(* connects to its target only while it holds the slot, and gives the slot  *)
(* back once, after the connection is closed.  WsProxy implements this      *)
(* specification, whatever its handlers, relays and Shutdown do meanwhile.  *)
(***************************************************************************)
EXTENDS Naturals, FiniteSets

CONSTANTS Request, Target, MaxConnections, MaxPerTarget

VARIABLES
    wants,  \* [Request -> the target it names]
    held,   \* requests that hold a slot
    conns,  \* requests that have a connection to their target
    spent   \* requests that were refused, or have given their slot back

poolVars == <<wants, held, conns, spent>>

Init ==
    /\ wants \in [Request -> Target]
    /\ held = {} /\ conns = {} /\ spent = {}

Take(r) ==
    /\ r \notin held \cup spent
    /\ Cardinality(held) < MaxConnections
    /\ Cardinality({q \in held : wants[q] = wants[r]}) < MaxPerTarget
    /\ held' = held \cup {r}
    /\ UNCHANGED <<wants, conns, spent>>

Refuse(r) ==
    /\ r \notin held \cup spent
    /\ spent' = spent \cup {r}
    /\ UNCHANGED <<wants, held, conns>>

Open(r) ==
    /\ r \in held \ conns
    /\ conns' = conns \cup {r}
    /\ UNCHANGED <<wants, held, spent>>

Close(r) ==
    /\ r \in conns
    /\ conns' = conns \ {r}
    /\ UNCHANGED <<wants, held, spent>>

GiveBack(r) ==
    /\ r \in held \ conns
    /\ held' = held \ {r}
    /\ spent' = spent \cup {r}
    /\ UNCHANGED <<wants, conns>>

Next == \E r \in Request : Take(r) \/ Refuse(r) \/ Open(r) \/ Close(r) \/ GiveBack(r)

Spec == Init /\ [][Next]_poolVars
=============================================================================
