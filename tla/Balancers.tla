----------------------------- MODULE Balancers -----------------------------
(* The three gRPC balancers over routing.ClientConn: of the control client,  *)
(* which keeps a connection to the leader only; of the data client, which    *)
(* routes by partition; and of the API client, which spreads its calls over  *)
(* the API servers. A balancer b has its kind, its client connection cc, what *)
(* it knows of the cluster, and pub, the connectivity state and the picker   *)
(* it handed to gRPC last. A configuration cfg is what the resolver hands    *)
(* over: the address of every server, for every partition its leader, its    *)
(* replicas and an ETag over both, and the ETag of the whole.                *)
EXTENDS ClientConn

CONSTANTS Parts, Nobody, Proxy

NoETag == 0

NewBalancer(kind) ==
    [kind |-> kind, cc |-> NewClientConn, leader |-> Nobody, etag |-> NoETag, parts |-> <<>>,
     pub |-> [state |-> "Idle", picker |-> <<>>]]

AddressOf(cfg, s) == IF s \in DOMAIN cfg.addr THEN cfg.addr[s] ELSE Nobody

AllAddresses(cfg) == Range(cfg.addr)

(* The control plane is one partition to its client.                         *)
LeaderAddress(cfg) == AddressOf(cfg, cfg.parts[0].leader)

(* A partition whose ETag did not change is kept as it is, addresses         *)
(* included.                                                                 *)
updatePartitions(old, cfg) ==
    [p \in DOMAIN cfg.parts |->
        IF old # <<>> /\ old[p].etag = cfg.parts[p].etag THEN old[p]
        ELSE [etag |-> cfg.parts[p].etag, leader |-> AddressOf(cfg, cfg.parts[p].leader),
              replicas |-> {AddressOf(cfg, s) : s \in cfg.parts[p].replicas}]]

(* Ready with the leaders of 80% of the partitions connected, failed with    *)
(* 20% of the connections failing.                                           *)
getLBConnectivityState(b) ==
    LET available == {p \in DOMAIN b.parts : IsReady(b.cc, b.parts[p].leader)}
        count == Cardinality(Addrs(b.cc))
    IN  CASE count = 0 -> "Idle"
          [] count > 0 /\ 10 * Cardinality(available) >= 8 * Cardinality(DOMAIN b.parts) -> "Ready"
          [] OTHER -> IF 10 * Cardinality(InState(b.cc, "TransientFailure")) >= 2 * count
                      THEN "TransientFailure" ELSE "Connecting"

(* The picker of the API client holds the connections that were ready when   *)
(* it was made; the other two look their connections up when they pick.      *)
updateState(b) ==
    [b EXCEPT !.pub =
        CASE b.kind = "control" -> [state |-> AggState(b.cc), picker |-> <<b.leader>>]
          [] b.kind = "data" -> [state |-> getLBConnectivityState(b), picker |-> b.parts]
          [] b.kind \in {"api", "proxy"} -> [state |-> AggState(b.cc), picker |-> SetToSeq(SubConnReady(b.cc))]]

ControlUpdate(b, cfg) ==
    IF LeaderAddress(cfg) = b.leader THEN b
    ELSE updateState([b EXCEPT !.leader = LeaderAddress(cfg), !.cc = Connect(@, {LeaderAddress(cfg)})])

DataUpdate(b, cfg) ==
    IF b.etag = cfg.etag THEN b
    ELSE updateState([b EXCEPT !.parts = updatePartitions(@, cfg), !.etag = cfg.etag,
                               !.cc = Connect(@, AllAddresses(cfg))])

ApiUpdate(b, cfg) ==
    IF b.etag = cfg.etag THEN b
    ELSE updateState([b EXCEPT !.etag = cfg.etag,
                               !.cc = Connect(@, IF b.kind = "proxy" THEN {Proxy} ELSE AllAddresses(cfg))])

UpdateClientConnState(b, cfg) ==
    CASE b.kind = "control" -> ControlUpdate(b, cfg)
      [] b.kind = "data" -> DataUpdate(b, cfg)
      [] b.kind \in {"api", "proxy"} -> ApiUpdate(b, cfg)

(* The addresses a call may be sent to; none when it has to wait for the     *)
(* next picker. Reads of a snapshot go to any replica, other calls on the    *)
(* data to the leader.                                                       *)
ControlPick(b) == {a \in Range(b.pub.picker) : a \in Addrs(b.cc)}

DataPick(b, p, snapshotRead) ==
    IF b.pub.picker = <<>> THEN {}
    ELSE {a \in IF snapshotRead THEN b.pub.picker[p].replicas ELSE {b.pub.picker[p].leader} : IsReady(b.cc, a)}

ApiPick(b) == Range(b.pub.picker)

(* The balancer's goroutine takes the next update of the resolver or change  *)
(* of a connection's state.                                                  *)
HandleEvent(b, e) ==
    IF e.op = "update" THEN {UpdateClientConnState(b, e.cfg)}
    ELSE {IF e.addr \in Addrs(b.cc) THEN updateState([b EXCEPT !.cc = c]) ELSE b : c \in Listen(b.cc, e)}
=============================================================================
