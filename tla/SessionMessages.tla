-------------------------- MODULE SessionMessages --------------------------
(***************************************************************************)
(* What the control leader and a data server tell each other over a        *)
(* session (control/server/leader/sessions: configs.go, tracker.go, etag.go*)
(* and receive.go; session/session.go; control/control.go), and what the   *)
(* validators at both ends ask of it.  A message that is refused ends the  *)
(* stream.                                                                 *)
(*                                                                         *)
(* part is the part field of a cluster (ControlFSM), servers a set of data *)
(* server ids, leader[p] the name of the replica that leads p, 0 if none.  *)
(* Ids and names are never 0; "" is an address that is missing.            *)
(***************************************************************************)
EXTENDS ControlFSM

(* The hash of some strings, in any order; never the empty string *)
makeETag(values) == <<values>>

NoETag == <<>>

-----------------------------------------------------------------------------
(* To the server: its configuration *)

ReplicaConfig(n, r) == [name |-> n, server |-> r.server, state |-> r.state]

PartitionConfig(part, p) ==
    [id |-> p, etag |-> part[p].version,
     replicas |-> [n \in DOMAIN part[p].replicas |-> ReplicaConfig(n, part[p].replicas[n])]]

(* The partitions server s has a replica of *)
OfServerIn(part, s) == {p \in DOMAIN part : \E n \in DOMAIN part[p].replicas : part[p].replicas[n].server = s}

makeDataServerConfigs(servers, part) ==
    [s \in servers |->
        [etag  |-> makeETag({<<p, part[p].version>> : p \in OfServerIn(part, s)}),
         parts |-> [p \in OfServerIn(part, s) |-> PartitionConfig(part, p)]]]

ValidReplicaConfig(r) == r.name # 0 /\ r.server # 0 /\ r.state \in ReplicaStates

ValidPartitionConfig(x) == \A n \in DOMAIN x.replicas : ValidReplicaConfig(x.replicas[n])

ValidDataServerConfig(cfg) ==
    /\ cfg.etag # NoETag
    /\ \A p \in DOMAIN cfg.parts : cfg.parts[p].id = p /\ ValidPartitionConfig(cfg.parts[p])

-----------------------------------------------------------------------------
(* To the server: the list of data servers *)

(* The leader last reported may be a replica that has gone *)
ListPartition(part, p, leader) ==
    [id |-> p,
     leader |-> IF leader \in DOMAIN part[p].replicas THEN part[p].replicas[leader].server ELSE 0,
     replicas |-> {part[p].replicas[n].server : n \in {m \in DOMAIN part[p].replicas : IsServing(part[p].replicas[m].state)}}]

updateDataServerList(servers, address, part, leader) ==
    LET parts == [p \in DOMAIN part |-> ListPartition(part, p, leader[p])]
        items == [s \in servers |-> [id |-> s, address |-> address[s]]]
    IN  [servers |-> items, parts |-> parts, count |-> Cardinality(DOMAIN part),
         etag |-> makeETag({items[s] : s \in servers} \cup {parts[p] : p \in DOMAIN parts})]

ValidServer(x) == x.id # 0 /\ x.address # ""

ValidDataServers(x) ==
    /\ x.etag # NoETag /\ x.servers # NoFn /\ x.parts # NoFn
    /\ \A s \in DOMAIN x.servers : ValidServer(x.servers[s]) /\ x.servers[s].id = s
    /\ Cardinality(DOMAIN x.parts) = x.count
    /\ \A p \in DOMAIN x.parts :
          /\ x.parts[p].id = p /\ p < x.count
          /\ x.parts[p].leader \in DOMAIN x.servers \cup {0}
          /\ x.parts[p].replicas \subseteq DOMAIN x.servers

-----------------------------------------------------------------------------
(* To the tracker: a heartbeat, if the server has a configuration *)

newHeartbeat(etag, status) == IF etag = NoETag THEN {} ELSE {[etag |-> etag, replicas |-> status]}

ValidHeartbeat(x) == x.etag # NoETag

(* Mutant of handleDataServerStatus: the last partition is out of range *)
handleDataServerStatusShort(x, count) == \A p \in DOMAIN x.replicas : p < count - 1

(* handleDataServerStatus accepts partitions the cluster has *)
handleDataServerStatus(x, count) == \A p \in DOMAIN x.replicas : p < count

=============================================================================
