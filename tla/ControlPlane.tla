---------------------------- MODULE ControlPlane ----------------------------
(***************************************************************************)
(* The control plane at work: servers that register, the leader's assigner *)
(* and session tracker, each acting on a copy of the replicated state that *)
(* may be old, and data servers that follow the configuration they are     *)
(* sent and report how far they are.                                       *)
(*                                                                         *)
(*   cluster     the state of the FSM after the committed log              *)
(*   cache       store.cluster of the control server that leads            *)
(*   header      the AssignmentsVersion its store.mainLoop copied first    *)
(*               while it clones the live state, -1 when it is not cloning *)
(*   behind      the copy of the control server that will lead next, once  *)
(*               that server has stopped to follow; NewFSM before          *)
(*   tracker     of the leader's session tracker: the partitions it last   *)
(*               saw, the replicas known as ready, the dirty partitions    *)
(*   id[s]       the identity data server s has stored, 0 before           *)
(*   local[s]    the replica data server s runs for each partition         *)
(*   restored    the replicas that completed their restore                 *)
(*   faults      how often the leader changed or a data server restarted   *)
(***************************************************************************)
EXTENDS Assigner, SessionMessages, Sequences

CONSTANTS
    ControlIds,     \* the ids of the control servers
    Servers,        \* data servers, each with its registration token
    Registered0,    \* the data servers that have registered at the start, a sequence
    Seated,         \* how many of them before the initial assignments, 0 if these are still to come
    Partitions,     \* partition ids, 0 .. PartitionCount - 1
    MaxVersion,     \* bound on AssignmentsVersion
    MaxFaults,      \* changes of leader and restarts of data servers, together
    MaxLag          \* how many assignment versions the next leader may be behind

ASSUME ControlPlaneAssumption ==
    /\ ControlIds \subseteq Nat \ {0}
    /\ \E i \in ControlIds : \A j \in ControlIds : j <= i
    /\ Registered0 \in Seq(Servers) /\ Seated \in 0 .. Len(Registered0)
    /\ \A i, j \in DOMAIN Registered0 : i # j => Registered0[i] # Registered0[j]
    /\ IsFiniteSet(Partitions) /\ Partitions # {} /\ Partitions = 0 .. Cardinality(Partitions) - 1

VARIABLES cluster, cache, header, behind, tracker, id, local, restored, faults

vars == <<cluster, cache, header, behind, tracker, id, local, restored, faults>>

NoReplica == [name |-> 0, state |-> "Stopped", ready |-> FALSE]

ReadyIn(part) ==
    UNION {{<<p, n>> : n \in {m \in DOMAIN part[p].replicas : part[p].replicas[m].ready}} : p \in DOMAIN part}

Known(part) == UNION {{<<p, n>> : n \in DOMAIN part[p].replicas} : p \in DOMAIN part}

(* newStatusTracker, and the partitions the tracker starts with *)
newTracker(c) == [version |-> c.asgVersion, servers |-> DataServers(c), part |-> c.part,
                  ready |-> ReadyIn(c.part), dirty |-> {}]

(* The registrations of the data servers ss, one after the other *)
RegisterAll(c, ss) ==
    LET new == c.lastId + 1 .. c.lastId + Len(ss) IN
    [c EXCEPT !.lastId = @ + Len(ss), !.regVersion = @ + Len(ss),
              !.items = [i \in DOMAIN @ \cup new |-> IF i \in new THEN "Data" ELSE @[i]],
              !.tokens = [s \in DOMAIN @ \cup {ss[k] : k \in DOMAIN ss} |->
                  IF s \in DOMAIN @ THEN @[s] ELSE c.lastId + CHOOSE k \in DOMAIN ss : ss[k] = s]]

(* A cluster that was bootstrapped, where some data servers registered and  *)
(* the initial assignments may have been made.                              *)
Cluster0 ==
    LET booted == applyBootstrap(NewFSM, "scout", ControlIds, Partitions)
        first == RegisterAll(booted, SubSeq(Registered0, 1, Seated))
        seated == IF Seated = 0 THEN first
                  ELSE applyInitAssignments(first, CHOOSE add \in initAssignments(first) : TRUE)
    IN  RegisterAll(seated, SubSeq(Registered0, Seated + 1, Len(Registered0)))

Init ==
    /\ cluster = Cluster0
    /\ cache = Cluster0
    /\ header = -1
    /\ behind = NewFSM
    /\ tracker = newTracker(Cluster0)
    /\ id = [s \in Servers |-> IF s \in DOMAIN Cluster0.tokens THEN Cluster0.tokens[s] ELSE 0]
    /\ local = [s \in Servers |-> [p \in Partitions |-> NoReplica]]
    /\ restored = {}
    /\ faults = 0

-----------------------------------------------------------------------------
(* Control servers *)

(* The bootstrapper writes its command again when it saw no answer. *)
Bootstrap ==
    /\ cluster' = applyBootstrap(cluster, "scout", ControlIds, Partitions)
    /\ UNCHANGED <<cache, header, behind, tracker, id, local, restored, faults>>

(* store.mainLoop clones the live state without its lock: it copies the     *)
(* version fields first and the replicas later, and commands may be applied *)
(* in between.  It only runs when the FSM has applied something new.        *)
CloneBegins ==
    /\ header = -1
    /\ cluster # cache
    /\ faults = 0
    /\ header' = cluster.asgVersion
    /\ UNCHANGED <<cluster, cache, behind, tracker, id, local, restored, faults>>

(* The tracker's events for new servers and partitions: it takes partitions *)
(* of another version only, forgets replicas that are gone and takes new    *)
(* ones with the status they have.                                          *)
TrackerSync(c) ==
    [tracker EXCEPT !.servers = DataServers(c), !.version = c.asgVersion,
        !.part = IF c.asgVersion = tracker.version THEN @ ELSE c.part,
        !.ready = IF c.asgVersion = tracker.version THEN @
                  ELSE (@ \cap Known(c.part)) \cup (ReadyIn(c.part) \ Known(tracker.part))]

(* The store replaces its copy and the tracker receives the new one.  *)
Publish ==
    /\ \/ header # -1 /\ cache' = [cluster EXCEPT !.asgVersion = header]
       \/ header = -1 /\ faults > 0 /\ cluster # cache /\ cache' = cluster
    /\ tracker' = TrackerSync(cache')
    /\ header' = -1
    /\ UNCHANGED <<cluster, behind, id, local, restored, faults>>

(* Another control server becomes the leader.  Its FSM may be behind the    *)
(* log, so its store may hold the copy of any earlier time, and the new     *)
(* role's tracker starts from that copy: nothing brings it up to date first.*)
FallBehind ==
    /\ behind = NewFSM /\ faults < MaxFaults
    /\ behind' = cluster
    /\ faults' = faults + 1
    /\ UNCHANGED <<cluster, cache, header, tracker, id, local, restored>>

Elect ==
    /\ behind # NewFSM /\ behind.asgVersion < cluster.asgVersion
    /\ cache' = behind /\ behind' = NewFSM
    /\ header' = -1
    /\ tracker' = newTracker(behind)
    /\ UNCHANGED <<cluster, id, local, restored, faults>>

(* A tick of the assigner; the command fails when its version is old. *)
Assign ==
    /\ DataServers(cache) # {}
    /\ cluster.asgVersion < MaxVersion
    /\ behind # NewFSM => cluster.asgVersion < behind.asgVersion + MaxLag
    /\ \/ /\ ~HasAssignments(cache)
          /\ \E add \in initAssignments(cache) : cluster' = applyInitAssignments(cluster, add)
       \/ /\ HasAssignments(cache)
          /\ \E cmd \in updateAssignments(cache) :
                /\ ~IsEmptyUpdate(cmd)
                /\ cluster' = applyUpdateAssignments(cluster, cmd)
    /\ UNCHANGED <<cache, header, behind, tracker, id, local, restored, faults>>

writeLatestStatus ==
    /\ tracker.dirty # {}
    /\ LET S == {x \in Known(tracker.part) : x[1] \in tracker.dirty} IN
       cluster' = applyUpdateStatus(cluster,
                      {[pid |-> x[1], name |-> x[2], ready |-> x \in tracker.ready] : x \in S})
    /\ tracker' = [tracker EXCEPT !.dirty = {}]
    /\ UNCHANGED <<cache, header, behind, id, local, restored, faults>>

-----------------------------------------------------------------------------
(* Data servers *)

(* A registration; the reply may be lost, the server then tries again with  *)
(* the same token.                                                          *)
Register(s, replied, expired) ==
    /\ id[s] = 0
    /\ expired => s \in DOMAIN cluster.tokens
    /\ cluster' = applyRegister(cluster, s, "Data", expired)
    /\ id' = [id EXCEPT ![s] = IF replied THEN Registered(cluster, s, expired) ELSE 0]
    /\ UNCHANGED <<cache, header, behind, tracker, local, restored, faults>>

(* The replica of server s in the partitions the tracker has seen *)
Assigned(s, p) ==
    {n \in DOMAIN tracker.part[p].replicas : tracker.part[p].replicas[n].server = id[s]}

(* replica.transitionToState: a replica never goes back to an earlier       *)
(* state, it stops instead.                                                 *)
transitionToState(old, name, state) ==
    LET was == IF old.name = name THEN old.state ELSE "Stopped" IN
    IF state = was THEN old
    ELSE IF \/ state = "Joining" /\ was = "Stopped"
            \/ state = "Voter" /\ was \in {"Stopped", "Joining"}
            \/ state = "Leaving"
    THEN [name |-> name, state |-> state, ready |-> state = "Voter"]
    ELSE [name |-> name, state |-> "Stopped", ready |-> FALSE]

(* The server has a session: the tracker knows its id. *)
HasSession(s) == id[s] \in tracker.servers

(* The controller of server s takes the configuration of its session. *)
syncPartitions(s) ==
    LET next == [p \in Partitions |->
            IF Assigned(s, p) = {} THEN NoReplica
            ELSE LET n == CHOOSE m \in Assigned(s, p) : TRUE IN
                 transitionToState(local[s][p], n, tracker.part[p].replicas[n].state)]
    IN  /\ HasSession(s)
        /\ next # local[s]
        /\ local' = [local EXCEPT ![s] = next]
        /\ UNCHANGED <<cluster, cache, header, behind, tracker, id, restored, faults>>

(* A joining replica has streamed its data from a serving one. *)
Restore(s, p) ==
    /\ local[s][p].state = "Joining" /\ ~local[s][p].ready
    /\ \E t \in Servers : local[t][p].state = "Voter"
    /\ local' = [local EXCEPT ![s][p].ready = TRUE]
    /\ restored' = restored \cup {<<p, local[s][p].name>>}
    /\ UNCHANGED <<cluster, cache, header, behind, tracker, id, faults>>

(* A leaving replica has dropped its data. *)
Cleanup(s, p) ==
    /\ local[s][p].state = "Leaving" /\ ~local[s][p].ready
    /\ local' = [local EXCEPT ![s][p].ready = TRUE]
    /\ UNCHANGED <<cluster, cache, header, behind, tracker, id, restored, faults>>

(* The status of every replica that server s runs *)
GetStatus(s) == [p \in {q \in Partitions : local[s][q].state # "Stopped"} |-> local[s][p]]

(* A heartbeat reaches the tracker, which skips replicas it does not know. *)
Heartbeat(s) ==
    LET known == {<<p, GetStatus(s)[p].name>> : p \in DOMAIN GetStatus(s)} \cap Known(tracker.part)
        ready == {x \in known : local[s][x[1]].ready}
    IN  /\ HasSession(s)
        /\ known # {}
        /\ tracker' = [tracker EXCEPT !.ready = (@ \ known) \cup ready,
                                      !.dirty = @ \cup {x[1] : x \in known}]
        /\ UNCHANGED <<cluster, cache, header, behind, id, local, restored, faults>>

Restart(s) ==
    /\ faults < MaxFaults
    /\ \E p \in Partitions : local[s][p].state # "Stopped"
    /\ local' = [local EXCEPT ![s] = [p \in Partitions |-> NoReplica]]
    /\ faults' = faults + 1
    /\ UNCHANGED <<cluster, cache, header, behind, tracker, id, restored>>

Next ==
    \/ Bootstrap \/ CloneBegins \/ Publish \/ FallBehind \/ Elect
    \/ Assign \/ writeLatestStatus
    \/ \E s \in Servers :
          \/ \E replied, expired \in BOOLEAN : Register(s, replied, expired)
          \/ syncPartitions(s) \/ Heartbeat(s) \/ Restart(s)
          \/ \E p \in Partitions : Restore(s, p) \/ Cleanup(s, p)

Spec == Init /\ [][Next]_vars

(* The leader's loops and tickers run, registrations are tried again until  *)
(* one is answered in time, and servers work and send heartbeats.           *)
Fairness ==
    /\ WF_vars(CloneBegins \/ Publish)
    /\ WF_vars(Assign) /\ WF_vars(writeLatestStatus)
    /\ \A s \in Servers :
          /\ WF_vars(Register(s, TRUE, FALSE))
          /\ WF_vars(syncPartitions(s)) /\ WF_vars(Heartbeat(s))
          /\ WF_vars(\E p \in Partitions : Restore(s, p) \/ Cleanup(s, p))

FairSpec == Spec /\ Fairness

-----------------------------------------------------------------------------
(* Properties *)

Replicas(c, p) == {c.part[p].replicas[n] : n \in DOMAIN c.part[p].replicas}

(* No data server holds two replicas of one partition, whatever mix of old  *)
(* copies the assigner worked from (README: the assigner's objective; FSM:  *)
(* "two replicas on the same server would be redundant").                   *)
OneReplicaPerServer ==
    \A p \in DOMAIN cluster.part : \A n, m \in DOMAIN cluster.part[p].replicas :
        n # m => cluster.part[p].replicas[n].server # cluster.part[p].replicas[m].server

(* A replica is removed from service only when the others suffice: with     *)
(* assignments made, the number of serving replicas of a partition never    *)
(* falls below the replication factor, or what it had when it is less.      *)
ServingKept ==
    [][\A p \in DOMAIN cluster.part :
          Cardinality(Serving(cluster', p)) < Cardinality(Serving(cluster, p))
              => Cardinality(Serving(cluster', p)) >= ReplicationFactor]_cluster

(* A replica that was added while the cluster runs becomes a voter only     *)
(* after it has completed its restore on its server: the ready flag crosses *)
(* the heartbeat, the tracker, the status command, the store's copy and the *)
(* assigner without ever being taken for another replica's.                 *)
VotersRestored ==
    \A p \in DOMAIN cluster.part : \A n \in DOMAIN cluster.part[p].replicas :
        cluster.part[p].replicas[n].state = "Voter" /\ cluster.part[p].replicas[n].created > 1
            => <<p, n>> \in restored

(* However often a server has to repeat its registration, it gets one       *)
(* identity, no other server gets the same, and no control server has it.   *)
OneIdentity ==
    /\ \A s, t \in Servers : s # t /\ id[s] # 0 => id[s] # id[t]
    /\ \A s \in Servers : id[s] # 0 => cluster.tokens[s] = id[s]
    /\ Cardinality(DataServers(cluster)) = Cardinality(DOMAIN cluster.tokens)
    /\ \A i \in ControlIds : cluster.name # "" => cluster.items[i] = "Control"

(* No message of a session is refused by the validator that receives it,    *)
(* which would end the stream and with it the server's way to learn of      *)
(* changes: whatever replica was last reported as the leader, in or out of  *)
(* the assignments by now, the list names servers that are in it.           *)
SessionsAccepted ==
    LET configs == makeDataServerConfigs(tracker.servers, tracker.part)
        address == [s \in tracker.servers |-> "address"]
        lists == {updateDataServerList(tracker.servers, address, tracker.part, [p \in Partitions |-> n]) :
                  n \in 0 .. Max({cluster.part[p].lastReplica : p \in Partitions})}
    IN  \A s \in Servers : HasSession(s) =>
          /\ ValidDataServerConfig(configs[id[s]])
          /\ \A list \in lists : ValidDataServers(list)
          /\ \A x \in newHeartbeat(configs[id[s]].etag, GetStatus(s)) :
                ValidHeartbeat(x) /\ handleDataServerStatus(x, Cardinality(Partitions))

(* Configurations with one ETag are the same configuration, whichever copy  *)
(* of the assignments they were made from: of the log, of the leader's      *)
(* store, of its tracker or of the control server that leads next.  A       *)
(* server whose heartbeat has the ETag of its session is up to date.        *)
ETagsTruthful ==
    LET copies == {cluster.part, cache.part, behind.part, tracker.part}
        all == {makeDataServerConfigs(DataServers(cluster), part) : part \in copies}
    IN  \A a, b \in all : \A s \in DataServers(cluster) : a[s].etag = b[s].etag => a[s] = b[s]

Balanced ==
    /\ DataServers(cluster) = {id[s] : s \in Servers}
    /\ MaxImbalance(makeState(cluster)) <= 1
    /\ \A p \in Partitions : /\ \A r \in Replicas(cluster, p) : r.state = "Voter"
                             /\ Cardinality(Replicas(cluster, p)) = ReplicationFactor

(* In the end every partition has exactly as many serving replicas as the   *)
(* replication factor says, none are joining or leaving, and no two servers *)
(* differ by more than one replica.                                         *)
EventuallyBalanced == <>[]Balanced

=============================================================================
