----------------------------- MODULE ClientConn -----------------------------
(* routing.ClientConn: the sub-connections a gRPC balancer keeps, one for    *)
(* each address. A client connection c is a record: c.conns maps an address  *)
(* to its sub-connection, c.evts holds what the balancer's goroutine has     *)
(* still to handle, in order. Of a sub-connection, "real" is the state gRPC  *)
(* has it in, "state" the one the listener recorded, and "timer" what became *)
(* of the flag connecting: "no" when it is down, "wait" while a goroutine    *)
(* waits for the reconnect interval to pass, "sent" between its Connect and  *)
(* the reset of the flag.                                                    *)
EXTENDS Naturals, SequencesExt

NewClientConn == [conns |-> [a \in {} |-> {}], evts |-> <<>>]

Addrs(c) == DOMAIN c.conns

(* A change of state as the listener of address a is told of it.             *)
StateEvent(a, state, failed) == [op |-> "state", addr |-> a, state |-> state, failed |-> failed]

Becomes(c, a, state, failed) ==
    [c EXCEPT !.conns[a].real = state, !.evts = Append(@, StateEvent(a, state, failed))]

(* SubConn.Connect does nothing unless the sub-connection is idle.           *)
GrpcConnect(c, a) == IF c.conns[a].real = "Idle" THEN Becomes(c, a, "Connecting", FALSE) ELSE c

connectNow(c, a) == [GrpcConnect(c, a) EXCEPT !.conns[a].timer = "no"]

(* At once if the last attempt is a reconnect interval ago, else in a        *)
(* goroutine, and not at all while another attempt is under way.             *)
connect(c, a) ==
    IF c.conns[a].timer # "no" THEN {c}
    ELSE {connectNow(c, a), [c EXCEPT !.conns[a].timer = "wait"]}

(* Streams on a connection that is shut down go on until they end.           *)
shutdown(c, addrs) ==
    [conns |-> [a \in Addrs(c) \ addrs |-> c.conns[a]],
     evts |-> c.evts \o SetToSeq({StateEvent(a, "Shutdown", FALSE) : a \in addrs \cap Addrs(c)})]

(* A new sub-connection has made no attempt yet, so it connects at once.     *)
Open(c, a) ==
    connectNow([c EXCEPT !.conns = (a :> [real |-> "Idle", state |-> "Idle", timer |-> "no"]) @@ @], a)

ConnectKeeps(c, addrs) == FoldSet(LAMBDA a, x : Open(x, a), c, addrs \ Addrs(c))

Connect(c, addrs) ==
    FoldSet(LAMBDA a, x : Open(x, a), shutdown(c, Addrs(c) \ addrs), addrs \ Addrs(c))

ListenFailures(c, e) ==
    IF e.addr \notin Addrs(c) THEN {c}
    ELSE {[x EXCEPT !.conns[e.addr].state = e.state] : x \in IF e.failed THEN connect(c, e.addr) ELSE {c}}

(* The listener finds the sub-connection by its address, so that it also     *)
(* takes what a predecessor at the same address still had to say.            *)
Listen(c, e) ==
    IF e.addr \notin Addrs(c) THEN {c}
    ELSE {[x EXCEPT !.conns[e.addr].state = e.state] :
            x \in IF e.state = "Idle" \/ e.failed THEN connect(c, e.addr) ELSE {c}}

State(c, a) == IF a \in Addrs(c) THEN c.conns[a].state ELSE "Idle"

IsReady(c, a) == State(c, a) = "Ready"

SubConnReady(c) == {a \in Addrs(c) : IsReady(c, a)}

InState(c, state) == {a \in Addrs(c) : c.conns[a].state = state}

(* The first of these states that some sub-connection is in.                 *)
AggState(c) ==
    LET present == SelectSeq(<<"Ready", "Connecting", "TransientFailure">>, LAMBDA s : InState(c, s) # {})
    IN  CASE present # <<>> -> Head(present)
          [] present = <<>> /\ Addrs(c) # {} /\ InState(c, "Shutdown") = Addrs(c) -> "Shutdown"
          [] OTHER -> "Idle"
=============================================================================
