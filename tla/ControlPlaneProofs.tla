------------------------- MODULE ControlPlaneProofs -------------------------
(***************************************************************************)
(* Proofs about the control plane: what the state machine keeps true under *)
(* every command, and from that the properties of the copies that leaders, *)
(* trackers and data servers work with.                                    *)
(***************************************************************************)
EXTENDS ControlPlane, FiniteSetTheorems, TLAPS

(* SMT is the default prover; Zenon is cited where it does better. *)
USE SMTT(60)

(* A replica as the state machine stores it. *)
ReplicaRecord == [server : Nat \ {0}, state : ReplicaStates, ready : BOOLEAN, created : Nat]

(* A partition: names that were given out, at most one replica on a server, *)
(* and none before the first version.                                       *)
PartOK(q) ==
    /\ q = [version |-> q.version, lastReplica |-> q.lastReplica, replicas |-> q.replicas]
    /\ q.version \in Nat /\ q.lastReplica \in Nat
    /\ q.replicas \in [DOMAIN q.replicas -> ReplicaRecord]
    /\ DOMAIN q.replicas \subseteq 1 .. q.lastReplica
    /\ \A n, m \in DOMAIN q.replicas : n # m => q.replicas[n].server # q.replicas[m].server
    /\ q.version = 0 => DOMAIN q.replicas = {}

(* The servers that have a replica of a partition. *)
ServersOf(q) == {q.replicas[n].server : n \in DOMAIN q.replicas}

(* The configuration of a partition, as a data server gets it, is the same. *)
SameConfig(q, r) ==
    /\ DOMAIN q.replicas = DOMAIN r.replicas
    /\ \A n \in DOMAIN q.replicas :
          q.replicas[n].server = r.replicas[n].server /\ q.replicas[n].state = r.replicas[n].state

(* The assignments of the whole cluster, or of none as in NewFSM. *)
PartsOK(part) ==
    /\ part = [p \in DOMAIN part |-> part[p]]
    /\ DOMAIN part \subseteq Partitions
    /\ \A p \in DOMAIN part : PartOK(part[p])

(* A cluster as the state machine keeps it once it is bootstrapped. *)
FSMOK(c) ==
    /\ c = [name |-> c.name, items |-> c.items, tokens |-> c.tokens, lastId |-> c.lastId,
            regVersion |-> c.regVersion, asgVersion |-> c.asgVersion, part |-> c.part]
    /\ c.name # "" /\ c.lastId \in Nat /\ c.asgVersion \in Nat
    /\ c.items \in [DOMAIN c.items -> ServerTypes]
    /\ DOMAIN c.items \subseteq 1 .. c.lastId
    /\ c.tokens \in [DOMAIN c.tokens -> DataServers(c)]
    /\ \A t, u \in DOMAIN c.tokens : t # u => c.tokens[t] # c.tokens[u]
    /\ \A i \in DataServers(c) : \E t \in DOMAIN c.tokens : c.tokens[t] = i
    /\ \A i \in ControlIds : i \in DOMAIN c.items /\ c.items[i] = "Control"
    /\ PartsOK(c.part) /\ DOMAIN c.part = Partitions
    /\ \A p \in Partitions : ServersOf(c.part[p]) \subseteq DataServers(c)
    /\ c.asgVersion = 0 => \A p \in Partitions : c.part[p].version = 0

(* A partition changes its configuration only together with its version. *)
Progress(old, new) ==
    /\ DOMAIN new = DOMAIN old
    /\ \A p \in DOMAIN old : \/ new[p].version > old[p].version
                             \/ new[p].version = old[p].version /\ SameConfig(old[p], new[p])

(* What a command may do to the cluster. *)
FSMStep(c, d) ==
    /\ FSMOK(d) /\ Progress(c.part, d.part)
    /\ DataServers(c) \subseteq DataServers(d)
    /\ \A t \in DOMAIN c.tokens : t \in DOMAIN d.tokens /\ d.tokens[t] = c.tokens[t]

(* Two copies that agree on a version agree on the configuration. *)
Agrees(a, b) == \A p \in DOMAIN a \cap DOMAIN b : a[p].version = b[p].version => SameConfig(a[p], b[p])

(* A copy is not ahead of the log. *)
Older(a, b) == \A p \in DOMAIN a : p \in DOMAIN b /\ a[p].version <= b[p].version

(* A set of copies of the assignments, c the latest. *)
CopiesOK(S, c) ==
    /\ \A a \in S : PartsOK(a) /\ Older(a, c)
    /\ \A a, b \in S : Agrees(a, b)

Copies == {cluster.part, cache.part, behind.part, tracker.part}

(* The inductive invariant: the cluster is as the state machine keeps it,   *)
(* all copies come from its past, the tracker's assignments are of the      *)
(* servers it knows, and an identity is the one of the token.               *)
IInv ==
    /\ FSMOK(cluster)
    /\ CopiesOK(Copies, cluster.part)
    /\ behind = NewFSM \/ FSMOK(behind)
    /\ DataServers(behind) \subseteq DataServers(cluster)
    /\ tracker = [version |-> tracker.version, servers |-> tracker.servers, part |-> tracker.part,
                  ready |-> tracker.ready, dirty |-> tracker.dirty]
    /\ tracker.servers \subseteq DataServers(cluster)
    /\ DOMAIN tracker.part = Partitions
    /\ \A p \in Partitions : ServersOf(tracker.part[p]) \subseteq tracker.servers
    /\ id \in [Servers -> Nat]
    /\ \A s \in Servers : id[s] # 0 => s \in DOMAIN cluster.tokens /\ cluster.tokens[s] = id[s]

-----------------------------------------------------------------------------
(* A new replica. *)
LEMMA NewReplica ==
    ASSUME NEW s, NEW state, NEW version
    PROVE  /\ Replica(s, state, version).server = s
           /\ s \in Nat \ {0} /\ state \in ReplicaStates /\ version \in Nat
                => Replica(s, state, version) \in ReplicaRecord
BY DEF Replica, ReplicaRecord

(* The rank of a server in a set of servers identifies it. *)
LEMMA RankOrders ==
    ASSUME NEW S \in SUBSET Nat, IsFiniteSet(S), NEW s \in S, NEW t \in S,
           Cardinality({x \in S : x <= s}) = Cardinality({x \in S : x <= t})
    PROVE  s = t
<1> DEFINE Low(y) == {x \in S : x <= y}
<1>1. IsFiniteSet(Low(s)) /\ IsFiniteSet(Low(t))
  BY FS_Subset
<1>2. CASE s <= t
  <2>1. Low(s) \subseteq Low(t)
    <3> SUFFICES ASSUME NEW x \in S, x <= s PROVE x <= t
      BY Zenon
    <3> QED BY <1>2
  <2>2. Low(s) = Low(t)
    BY <1>1, <2>1, FS_Subset
  <2> QED BY <1>2, <2>2
<1>3. CASE t <= s
  <2>1. Low(t) \subseteq Low(s)
    <3> SUFFICES ASSUME NEW x \in S, x <= t PROVE x <= s
      BY Zenon
    <3> QED BY <1>3
  <2>2. Low(s) = Low(t)
    BY <1>1, <2>1, FS_Subset
  <2> QED BY <1>3, <2>2
<1> QED BY <1>2, <1>3

(* New replicas get new names, on servers that had none. *)
LEMMA AddReplicasOK ==
    ASSUME NEW q, PartOK(q), NEW sids \in SUBSET (Nat \ {0}), IsFiniteSet(sids),
           sids \cap ServersOf(q) = {}, NEW state \in ReplicaStates, NEW version \in Nat,
           NEW v \in Nat \ {0}
    PROVE  /\ PartOK([AddReplicas(q, sids, state, version) EXCEPT !.version = v])
           /\ AddReplicas(q, sids, state, version) =
                [version |-> q.version,
                 lastReplica |-> AddReplicas(q, sids, state, version).lastReplica,
                 replicas |-> AddReplicas(q, sids, state, version).replicas]
           /\ ServersOf(AddReplicas(q, sids, state, version)) = ServersOf(q) \cup sids
<1> DEFINE Below(s) == {t \in sids : t <= s}
           Name(s) == q.lastReplica + Cardinality(Below(s))
           names == {Name(s) : s \in sids}
           last == q.lastReplica + Cardinality(sids)
           reps == [n \in names \cup DOMAIN q.replicas |->
                      IF n \in names THEN Replica(CHOOSE s \in sids : Name(s) = n, state, version) ELSE q.replicas[n]]
           r == AddReplicas(q, sids, state, version)
<1>1. r = [version |-> q.version, lastReplica |-> last, replicas |-> reps]
  <2>1. r = [q EXCEPT !.lastReplica = last, !.replicas = reps]
    BY DEF AddReplicas
  <2>2. q = [version |-> q.version, lastReplica |-> q.lastReplica, replicas |-> q.replicas]
    BY DEF PartOK
  <2> QED BY <2>1, <2>2, Zenon
<1>2. \A s \in sids : Cardinality(Below(s)) \in 1 .. Cardinality(sids)
  <2> TAKE s \in sids
  <2>1. Below(s) \subseteq sids /\ s \in Below(s)
    OBVIOUS
  <2>2. IsFiniteSet(Below(s)) /\ Cardinality(Below(s)) <= Cardinality(sids)
    BY <2>1, FS_Subset
  <2>3. Cardinality(Below(s)) \in Nat /\ Cardinality(sids) \in Nat
    BY <2>2, FS_CardinalityType
  <2>4. Cardinality(Below(s)) # 0
    BY <2>1, <2>2, FS_EmptySet
  <2> QED BY <2>2, <2>3, <2>4
<1>3. Cardinality(sids) \in Nat
  BY FS_CardinalityType
<1> HIDE DEF Below
<1>4. q.lastReplica \in Nat /\ DOMAIN q.replicas \subseteq 1 .. q.lastReplica
  BY DEF PartOK
<1>5. last \in Nat /\ names \subseteq q.lastReplica + 1 .. last
  BY <1>2, <1>3, <1>4
<1>6. names \cap DOMAIN q.replicas = {}
  BY <1>4, <1>5
<1>7. DOMAIN reps \subseteq 1 .. last
  BY <1>3, <1>4, <1>5
<1>8. \A n \in names : /\ (CHOOSE s \in sids : Name(s) = n) \in sids
                       /\ Name(CHOOSE s \in sids : Name(s) = n) = n
  <2> HIDE DEF Name
  <2> QED OBVIOUS
<1> DEFINE srv(n) == CHOOSE s \in sids : Name(s) = n
<1> HIDE DEF Name
<1>9. \A n \in names : reps[n] = Replica(srv(n), state, version)
  OBVIOUS
<1>10. \A n \in DOMAIN q.replicas : reps[n] = q.replicas[n]
  BY <1>6
<1>11. DOMAIN reps = names \cup DOMAIN q.replicas
  OBVIOUS
<1>12. \A n \in names : srv(n) \in sids
  BY <1>8
<1>13. \A n, k \in names : n # k => srv(n) # srv(k)
  BY <1>8
<1>14. \A s \in sids : Name(s) \in names /\ srv(Name(s)) = s
  <2> TAKE s \in sids
  <2>1. Name(s) \in names
    OBVIOUS
  <2>2. srv(Name(s)) \in sids /\ Name(srv(Name(s))) = Name(s)
    BY <2>1, <1>8
  <2>3. \A t \in sids : Name(t) = Name(s) => t = s
    <3> SUFFICES ASSUME NEW t \in sids, Name(t) = Name(s) PROVE t = s
      OBVIOUS
    <3>1. Cardinality(Below(t)) = Cardinality(Below(s))
      BY <1>2, <1>3, <1>4 DEF Name
    <3> QED BY <3>1, RankOrders DEF Below
  <2> QED BY <2>1, <2>2, <2>3
<1> HIDE DEF names, reps, srv, last
<1>15. reps \in [DOMAIN reps -> ReplicaRecord]
  <2>1. \A n \in DOMAIN reps : reps[n] \in ReplicaRecord
    <3>1. \A n \in DOMAIN q.replicas : q.replicas[n] \in ReplicaRecord
      BY DEF PartOK
    <3>2. \A n \in names : reps[n] \in ReplicaRecord
      <4> TAKE n \in names
      <4>1. srv(n) \in Nat \ {0} /\ reps[n] = Replica(srv(n), state, version)
        BY <1>9, <1>12, Zenon
      <4> QED BY <4>1, NewReplica
    <3> QED BY <1>10, <1>11, <3>1, <3>2
  <2>2. reps = [n \in DOMAIN reps |-> reps[n]]
    BY DEF reps
  <2> QED BY <2>1, <2>2
<1>16. \A n \in names : reps[n].server = srv(n)
  BY <1>9, NewReplica
<1>17. \A n, k \in DOMAIN reps : n # k => reps[n].server # reps[k].server
  <2>1. \A n \in DOMAIN q.replicas : q.replicas[n].server \notin sids
    BY DEF ServersOf
  <2>2. \A n, k \in DOMAIN q.replicas : n # k => q.replicas[n].server # q.replicas[k].server
    BY DEF PartOK
  <2> QED BY <1>10, <1>11, <1>12, <1>13, <1>16, <2>1, <2>2
<1>18. {reps[n].server : n \in DOMAIN reps} = ServersOf(q) \cup sids
  <2>1. \A n \in DOMAIN reps : reps[n].server \in ServersOf(q) \cup sids
    BY <1>10, <1>11, <1>12, <1>16 DEF ServersOf
  <2>2. \A s \in sids : s \in {reps[n].server : n \in DOMAIN reps}
    BY <1>11, <1>14, <1>16
  <2>3. \A s \in ServersOf(q) : s \in {reps[n].server : n \in DOMAIN reps}
    BY <1>10, <1>11 DEF ServersOf
  <2> QED BY <2>1, <2>2, <2>3, Zenon
<1>19. r.version = q.version /\ r.lastReplica = last /\ r.replicas = reps
  BY <1>1
<1>20. [r EXCEPT !.version = v] = [version |-> v, lastReplica |-> last, replicas |-> reps]
  BY <1>1
<1>21. PartOK([version |-> v, lastReplica |-> last, replicas |-> reps])
  BY <1>5, <1>7, <1>15, <1>17 DEF PartOK
<1>22. ServersOf(r) = ServersOf(q) \cup sids
  BY <1>18, <1>19 DEF ServersOf
<1> QED BY <1>1, <1>19, <1>20, <1>21, <1>22

-----------------------------------------------------------------------------
(* The commands, whatever they ask for *)

(* A command that changes nothing is a step of the state machine. *)
LEMMA NoChange ==
    ASSUME NEW c, FSMOK(c)
    PROVE  FSMStep(c, c)
<1>1. Progress(c.part, c.part)
  BY Zenon DEF FSMOK, PartsOK, PartOK, Progress, SameConfig
<1> QED BY <1>1 DEF FSMStep

(* A bootstrapped state machine stays as it is when it is bootstrapped again. *)
LEMMA BootstrapOK ==
    ASSUME NEW c, FSMOK(c), NEW name, NEW ids, NEW pids
    PROVE  FSMStep(c, applyBootstrap(c, name, ids, pids))
<1>1. applyBootstrap(c, name, ids, pids) = c
  BY Zenon DEF applyBootstrap, FSMOK
<1> QED BY <1>1, NoChange

(* The data servers are finitely many, none has the id 0. *)
LEMMA DataServersFinite ==
    ASSUME NEW c, FSMOK(c)
    PROVE  DataServers(c) \in SUBSET (Nat \ {0}) /\ IsFiniteSet(DataServers(c))
<1>1. DataServers(c) \in SUBSET (1 .. c.lastId) /\ c.lastId \in Nat
  BY Zenon DEF FSMOK, DataServers
<1>2. IsFiniteSet(1 .. c.lastId)
  BY <1>1, FS_Interval
<1> QED BY <1>1, <1>2, FS_Subset

(* Every replica is on a data server. *)
LEMMA OnDataServers ==
    ASSUME NEW c, FSMOK(c)
    PROVE  DOMAIN c.part = Partitions /\ \A p \in Partitions : ServersOf(c.part[p]) \subseteq DataServers(c)
BY Zenon DEF FSMOK

(* The registration of a server keeps the state machine consistent. *)
LEMMA RegisterOK ==
    ASSUME NEW c, FSMOK(c), NEW token, NEW expired
    PROVE  /\ FSMStep(c, applyRegister(c, token, "Data", expired))
           /\ token \in DOMAIN applyRegister(c, token, "Data", expired).tokens
           /\ Registered(c, token, expired) \in
                {0, applyRegister(c, token, "Data", expired).tokens[token]}
<1>1. CASE token \in DOMAIN c.tokens
  BY <1>1, NoChange DEF applyRegister, Registered
<1>2. CASE token \notin DOMAIN c.tokens
  <2> DEFINE new == c.lastId + 1
             items == Put(c.items, new, "Data")
             tokens == Put(c.tokens, token, new)
             d == [name |-> c.name, items |-> items, tokens |-> tokens, lastId |-> new,
                   regVersion |-> c.regVersion + 1, asgVersion |-> c.asgVersion, part |-> c.part]
  <2>1. applyRegister(c, token, "Data", expired) = d
    <3>1. c = [name |-> c.name, items |-> c.items, tokens |-> c.tokens, lastId |-> c.lastId,
               regVersion |-> c.regVersion, asgVersion |-> c.asgVersion, part |-> c.part]
      BY Zenon DEF FSMOK
    <3>2. applyRegister(c, token, "Data", expired) =
            [c EXCEPT !.lastId = new, !.regVersion = c.regVersion + 1, !.items = items, !.tokens = tokens]
      BY <1>2 DEF applyRegister
    <3> QED BY <3>1, <3>2, Zenon
  <2>2. c.lastId \in Nat /\ DOMAIN c.items \subseteq 1 .. c.lastId /\ c.items \in [DOMAIN c.items -> ServerTypes]
    BY Zenon DEF FSMOK
  <2>3. DOMAIN items = DOMAIN c.items \cup {new} /\ new \notin DOMAIN c.items /\ new \in Nat \ {0}
    BY <2>2 DEF Put
  <2>4. items[new] = "Data" /\ \A i \in DOMAIN c.items : items[i] = c.items[i]
    BY <2>2, <2>3 DEF Put
  <2>5. items \in [DOMAIN items -> ServerTypes] /\ DOMAIN items \subseteq 1 .. new
    BY <2>2, <2>3, <2>4 DEF Put, ServerTypes
  <2>6. DataServers(d) = DataServers(c) \cup {new} /\ new \notin DataServers(c)
    BY <2>3, <2>4 DEF DataServers
  <2>7. /\ DOMAIN tokens = DOMAIN c.tokens \cup {token} /\ tokens[token] = new
        /\ \A t \in DOMAIN c.tokens : tokens[t] = c.tokens[t]
    BY <1>2 DEF Put
  <2>8. c.tokens \in [DOMAIN c.tokens -> DataServers(c)]
    BY Zenon DEF FSMOK
  <2>9. tokens \in [DOMAIN tokens -> DataServers(d)]
    BY <2>6, <2>7, <2>8 DEF Put
  <2>10. \A t, u \in DOMAIN tokens : t # u => tokens[t] # tokens[u]
    <3>1. \A t, u \in DOMAIN c.tokens : t # u => c.tokens[t] # c.tokens[u]
      BY Zenon DEF FSMOK
    <3>2. \A t \in DOMAIN c.tokens : c.tokens[t] # new
      BY <2>6, <2>8
    <3> HIDE DEF tokens, new
    <3> QED BY <2>7, <3>1, <3>2
  <2>11. \A i \in DataServers(d) : \E t \in DOMAIN tokens : tokens[t] = i
    BY <2>6, <2>7, Zenon DEF FSMOK
  <2>12. \A i \in ControlIds : i \in DOMAIN items /\ items[i] = "Control"
    BY <2>3, <2>4, Zenon DEF FSMOK
  <2>13. \A p \in Partitions : ServersOf(c.part[p]) \subseteq DataServers(d)
    BY <2>6, Zenon DEF FSMOK
  <2> HIDE DEF items, tokens, new
  <2>14. d.tokens = tokens /\ d.part = c.part
    OBVIOUS
  <2>15. FSMOK(d)
    BY <2>3, <2>5, <2>9, <2>10, <2>11, <2>12, <2>13, Zenon DEF FSMOK
  <2>16. Progress(c.part, d.part)
    BY <2>14, NoChange DEF FSMStep
  <2> HIDE DEF d
  <2>17. FSMStep(c, d)
    BY <2>6, <2>7, <2>14, <2>15, <2>16 DEF FSMStep
  <2>18. Registered(c, token, expired) = tokens[token]
    BY <1>2, <2>7 DEF Registered, new
  <2> QED BY <2>1, <2>7, <2>14, <2>17, <2>18
<1> QED BY <1>1, <1>2

(* A change of the partitions is a step of the state machine. *)
LEMMA PartsChange ==
    ASSUME NEW c, FSMOK(c), NEW part, NEW v \in Nat, NEW d, d = [c EXCEPT !.asgVersion = v, !.part = part],
           PartsOK(part), Progress(c.part, part),
           \A p \in Partitions : ServersOf(part[p]) \subseteq DataServers(c),
           v = 0 => \A p \in Partitions : part[p].version = 0
    PROVE  FSMStep(c, d) /\ d.tokens = c.tokens
<1>1. d = [name |-> c.name, items |-> c.items, tokens |-> c.tokens, lastId |-> c.lastId,
           regVersion |-> c.regVersion, asgVersion |-> v, part |-> part]
  <2>1. c = [name |-> c.name, items |-> c.items, tokens |-> c.tokens, lastId |-> c.lastId,
             regVersion |-> c.regVersion, asgVersion |-> c.asgVersion, part |-> c.part]
    BY Zenon DEF FSMOK
  <2> QED BY <2>1, Zenon
<1>2. DataServers(d) = DataServers(c)
  BY <1>1 DEF DataServers
<1>3. DOMAIN part = Partitions
  BY Zenon DEF Progress, FSMOK
<1>4. FSMOK(d)
  BY <1>1, <1>2, <1>3, Zenon DEF FSMOK
<1> QED BY <1>1, <1>2, <1>4 DEF FSMStep

(* Ready flags are not part of the configuration. *)
LEMMA UpdateReadyOK ==
    ASSUME NEW q, PartOK(q), NEW p, NEW status, \A x \in status : x.ready \in BOOLEAN
    PROVE  /\ PartOK(updateReady(q, p, status)) /\ SameConfig(q, updateReady(q, p, status))
           /\ updateReady(q, p, status).version = q.version
           /\ ServersOf(updateReady(q, p, status)) = ServersOf(q)
<1> DEFINE Of(n) == {x \in status : x.pid = p /\ x.name = n}
           old == q.replicas
           reps == [n \in DOMAIN old |->
                      IF Of(n) = {} THEN old[n] ELSE [old[n] EXCEPT !.ready = (CHOOSE x \in Of(n) : TRUE).ready]]
           r == [version |-> q.version, lastReplica |-> q.lastReplica, replicas |-> reps]
<1>1. /\ q = [version |-> q.version, lastReplica |-> q.lastReplica, replicas |-> q.replicas]
      /\ q.version \in Nat /\ q.lastReplica \in Nat
      /\ old \in [DOMAIN old -> ReplicaRecord]
      /\ DOMAIN old \subseteq 1 .. q.lastReplica
      /\ \A n, m \in DOMAIN old : n # m => old[n].server # old[m].server
      /\ q.version = 0 => DOMAIN old = {}
  BY DEF PartOK
<1>2. updateReady(q, p, status) = r
  <2>1. updateReady(q, p, status) = [q EXCEPT !.replicas = reps]
    BY DEF updateReady
  <2> HIDE DEF reps
  <2> QED BY <1>1, <2>1
<1>3. ASSUME NEW n \in DOMAIN old
      PROVE  reps[n] \in ReplicaRecord /\ reps[n].server = old[n].server /\ reps[n].state = old[n].state
  <2>1. old[n] \in ReplicaRecord
    BY <1>1
  <2>2. CASE Of(n) # {}
    <3> DEFINE x == CHOOSE x \in Of(n) : TRUE
    <3>1. x \in Of(n)
      BY <2>2
    <3>2. x.ready \in BOOLEAN
      BY <3>1
    <3>3. reps[n] = [old[n] EXCEPT !.ready = x.ready]
      BY <2>2
    <3> HIDE DEF x, reps
    <3> QED BY <2>1, <3>2, <3>3 DEF ReplicaRecord
  <2> QED BY <2>1, <2>2
<1>4. DOMAIN reps = DOMAIN old /\ reps = [n \in DOMAIN old |-> reps[n]]
  OBVIOUS
<1> HIDE DEF reps
<1>5. reps \in [DOMAIN old -> ReplicaRecord]
  BY <1>3, <1>4
<1>6. r.version = q.version /\ r.lastReplica = q.lastReplica /\ r.replicas = reps
  OBVIOUS
<1>7. \A n, m \in DOMAIN reps : n # m => reps[n].server # reps[m].server
  BY <1>1, <1>3, <1>4
<1> HIDE DEF old
<1>8. PartOK(r)
  BY <1>1, <1>4, <1>5, <1>7 DEF PartOK
<1>9. SameConfig(q, r) /\ ServersOf(r) = ServersOf(q)
  BY <1>3, <1>4, <1>6, ZenonT(30) DEF SameConfig, ServersOf, old
<1> QED BY <1>2, <1>6, <1>8, <1>9

(* So does a change of the status of a server. *)
LEMMA UpdateStatusOK ==
    ASSUME NEW c, FSMOK(c), NEW status, \A x \in status : x.ready \in BOOLEAN
    PROVE  FSMStep(c, applyUpdateStatus(c, status))
<1> DEFINE part == [p \in Partitions |-> updateReady(c.part[p], p, status)]
<1>1. DOMAIN c.part = Partitions /\ \A p \in Partitions : PartOK(c.part[p])
  BY Zenon DEF FSMOK, PartsOK
<1>2. applyUpdateStatus(c, status) = [c EXCEPT !.asgVersion = c.asgVersion, !.part = part]
  <2>1. applyUpdateStatus(c, status) = [c EXCEPT !.part = part]
    BY <1>1 DEF applyUpdateStatus
  <2>2. c = [name |-> c.name, items |-> c.items, tokens |-> c.tokens, lastId |-> c.lastId,
             regVersion |-> c.regVersion, asgVersion |-> c.asgVersion, part |-> c.part]
    BY Zenon DEF FSMOK
  <2> HIDE DEF part
  <2> QED BY <2>1, <2>2, Zenon
<1>3. \A p \in Partitions : /\ PartOK(part[p]) /\ SameConfig(c.part[p], part[p])
                            /\ part[p].version = c.part[p].version
                            /\ ServersOf(part[p]) = ServersOf(c.part[p])
  BY <1>1, UpdateReadyOK
<1>4. DOMAIN part = Partitions /\ part = [p \in DOMAIN part |-> part[p]]
  OBVIOUS
<1> HIDE DEF part
<1>5. PartsOK(part) /\ Progress(c.part, part)
  BY <1>1, <1>3, <1>4 DEF PartsOK, Progress
<1>6. /\ c.asgVersion \in Nat
      /\ c.asgVersion = 0 => \A p \in Partitions : part[p].version = 0
      /\ \A p \in Partitions : ServersOf(part[p]) \subseteq DataServers(c)
  BY <1>3, Zenon DEF FSMOK
<1> QED BY <1>2, <1>5, <1>6, PartsChange, Zenon

(* So do the first assignments of partitions to servers. *)
LEMMA InitAssignmentsOK ==
    ASSUME NEW c, FSMOK(c), NEW add
    PROVE  FSMStep(c, applyInitAssignments(c, add)) /\ applyInitAssignments(c, add).tokens = c.tokens
<1> DEFINE sids(p) == {x.sid : x \in {y \in add : y.pid = p}}
           refused == \/ HasAssignments(c)
                      \/ \E x \in add : x.pid \notin DOMAIN c.part \/ x.sid \notin DataServers(c)
                      \/ {x.pid : x \in add} # DOMAIN c.part
           part == [p \in DOMAIN c.part |-> [AddReplicas(c.part[p], sids(p), "Voter", 1) EXCEPT !.version = 1]]
<1>1. CASE refused
  <2>1. applyInitAssignments(c, add) = c
    BY <1>1 DEF applyInitAssignments
  <2> QED BY <2>1, NoChange
<1>2. CASE ~refused
  <2>1. DOMAIN c.part = Partitions /\ \A p \in Partitions : PartOK(c.part[p])
    BY Zenon DEF FSMOK, PartsOK
  <2>2. applyInitAssignments(c, add) = [c EXCEPT !.asgVersion = 1, !.part = part]
    BY <1>2 DEF applyInitAssignments
  <2>3. c.asgVersion = 0
    <3>1. c.asgVersion \in Nat
      BY Zenon DEF FSMOK
    <3>2. ~HasAssignments(c)
      BY <1>2
    <3> QED BY <3>1, <3>2 DEF HasAssignments
  <2>4. ASSUME NEW p \in Partitions
        PROVE  PartOK(part[p]) /\ part[p].version = 1 /\ c.part[p].version = 0
               /\ ServersOf(part[p]) \subseteq DataServers(c)
    <3> DEFINE q == c.part[p]
               S == sids(p)
               r == AddReplicas(q, S, "Voter", 1)
    <3>1. PartOK(q) /\ q.version = 0
      BY <2>1, <2>3, ZenonT(30) DEF FSMOK
    <3>2. ServersOf(q) = {}
      BY <3>1 DEF PartOK, ServersOf
    <3>3. S \subseteq DataServers(c)
      BY <1>2
    <3>4. S \in SUBSET (Nat \ {0}) /\ IsFiniteSet(S)
      BY <3>3, DataServersFinite, FS_Subset
    <3>5. part[p] = [r EXCEPT !.version = 1]
      BY <2>1
    <3> HIDE DEF part, S, q, sids
    <3>6. /\ PartOK([r EXCEPT !.version = 1])
          /\ r = [version |-> q.version, lastReplica |-> r.lastReplica, replicas |-> r.replicas]
          /\ ServersOf(r) = ServersOf(q) \cup S
      <4>1. S \cap ServersOf(q) = {} /\ "Voter" \in ReplicaStates /\ 1 \in Nat /\ 1 \in Nat \ {0}
        BY <3>2 DEF ReplicaStates
      <4> QED BY <3>1, <3>4, <4>1, AddReplicasOK
    <3> HIDE DEF r
    <3>7. part[p].version = 1 /\ part[p].replicas = r.replicas
      <4>1. r = [version |-> q.version, lastReplica |-> r.lastReplica, replicas |-> r.replicas]
        BY <3>6
      <4> QED BY <3>5, <4>1
    <3>8. ServersOf(part[p]) = S
      BY <3>2, <3>6, <3>7, Zenon DEF ServersOf
    <3> QED BY <3>1, <3>3, <3>5, <3>6, <3>7, <3>8 DEF q
  <2>5. DOMAIN part = Partitions /\ part = [p \in DOMAIN part |-> part[p]]
    BY <2>1
  <2> HIDE DEF part
  <2>6. PartsOK(part)
    BY <2>4, <2>5 DEF PartsOK
  <2>7. Progress(c.part, part)
    BY <2>1, <2>4, <2>5 DEF Progress
  <2>8. 1 \in Nat /\ 1 # 0 /\ \A p \in Partitions : ServersOf(part[p]) \subseteq DataServers(c)
    BY <2>4
  <2> DEFINE d == applyInitAssignments(c, add)
  <2> HIDE DEF d
  <2>9. d = [c EXCEPT !.asgVersion = 1, !.part = part]
    BY <2>2 DEF d
  <2>10. FSMStep(c, d) /\ d.tokens = c.tokens
    BY <2>6, <2>7, <2>8, <2>9, PartsChange, Zenon
  <2> QED BY <2>10 DEF d
<1> QED BY <1>1, <1>2

(* A valid update leaves at most one replica on a server, in a new version. *)
LEMMA UpdatePartitionOK ==
    ASSUME NEW q, PartOK(q), NEW p, NEW cmd, NEW v \in Nat, NEW D \in SUBSET (Nat \ {0}), IsFiniteSet(D),
           ServersOf(q) \subseteq D,
           \A x \in cmd.add : x.pid = p => x.sid \in D /\ x.sid \notin ServersOf(q),
           \A x \in cmd.update : x.pid = p => x.state \in ReplicaStates
    PROVE  /\ PartOK(updatePartition(q, p, cmd, v))
           /\ updatePartition(q, p, cmd, v).version = q.version + 1
           /\ ServersOf(updatePartition(q, p, cmd, v)) \subseteq D
<1> DEFINE sids == {x.sid : x \in {y \in cmd.add : y.pid = p}}
           Updates(n) == {x \in cmd.update : x.pid = p /\ x.name = n}
           gone == {x.name : x \in {y \in cmd.remove : y.pid = p}}
           a == AddReplicas(q, sids, "Joining", v)
           reps == [n \in DOMAIN a.replicas \ gone |->
                      IF Updates(n) = {} THEN a.replicas[n]
                      ELSE [a.replicas[n] EXCEPT !.state = (CHOOSE x \in Updates(n) : TRUE).state]]
           r == updatePartition(q, p, cmd, v)
<1>1. r = [a EXCEPT !.version = a.version + 1, !.replicas = reps]
  BY DEF updatePartition
<1>2. sids \subseteq D /\ sids \cap ServersOf(q) = {}
  OBVIOUS
<1>3. sids \in SUBSET (Nat \ {0}) /\ IsFiniteSet(sids)
  BY <1>2, FS_Subset, Zenon
<1>4. q.version \in Nat
  BY DEF PartOK
<1> HIDE DEF sids
<1>5. /\ PartOK([a EXCEPT !.version = q.version + 1])
      /\ a = [version |-> q.version, lastReplica |-> a.lastReplica, replicas |-> a.replicas]
      /\ ServersOf(a) = ServersOf(q) \cup sids
  BY <1>2, <1>3, <1>4, AddReplicasOK DEF ReplicaStates
<1>a. a = [version |-> q.version, lastReplica |-> a.lastReplica, replicas |-> a.replicas] /\ a.version = q.version
  BY <1>5
<1> DEFINE b == [version |-> q.version + 1, lastReplica |-> a.lastReplica, replicas |-> a.replicas]
<1> HIDE DEF a
<1>6. [a EXCEPT !.version = q.version + 1] = b
  BY <1>5
<1>7. PartOK(b)
  BY <1>5, <1>6
<1>8. /\ a.lastReplica \in Nat
      /\ a.replicas \in [DOMAIN a.replicas -> ReplicaRecord]
      /\ DOMAIN a.replicas \subseteq 1 .. a.lastReplica
      /\ \A n, m \in DOMAIN a.replicas : n # m => a.replicas[n].server # a.replicas[m].server
  BY <1>7 DEF PartOK
<1>9. ASSUME NEW n \in DOMAIN a.replicas \ gone
      PROVE  reps[n] \in ReplicaRecord /\ reps[n].server = a.replicas[n].server
  <2>1. a.replicas[n] \in ReplicaRecord
    BY <1>8
  <2>2. CASE Updates(n) # {}
    <3> DEFINE x == CHOOSE x \in Updates(n) : TRUE
    <3>1. x \in Updates(n)
      BY <2>2
    <3>2. x.state \in ReplicaStates
      BY <3>1
    <3>3. reps[n] = [a.replicas[n] EXCEPT !.state = x.state]
      BY <2>2
    <3> HIDE DEF x, reps, Updates
    <3> QED BY <2>1, <3>2, <3>3 DEF ReplicaRecord
  <2> QED BY <2>1, <2>2
<1>10. DOMAIN reps = DOMAIN a.replicas \ gone /\ reps = [n \in DOMAIN reps |-> reps[n]]
  OBVIOUS
<1> HIDE DEF reps, gone, Updates, r
<1>11. r = [version |-> q.version + 1, lastReplica |-> a.lastReplica, replicas |-> reps]
  BY <1>1, <1>a, Zenon
<1>12. reps \in [DOMAIN reps -> ReplicaRecord]
  BY <1>9, <1>10
<1>13. \A n, m \in DOMAIN reps : n # m => reps[n].server # reps[m].server
  BY <1>8, <1>9, <1>10
<1>14. PartOK(r)
  BY <1>4, <1>8, <1>10, <1>11, <1>12, <1>13 DEF PartOK
<1>15. ServersOf(r) \subseteq ServersOf(a)
  BY <1>9, <1>10, <1>11 DEF ServersOf
<1> QED BY <1>2, <1>5, <1>11, <1>14, <1>15 DEF r

(* So does the change of an assignment whose etag is the current one. *)
LEMMA UpdateAssignmentsOK ==
    ASSUME NEW c, FSMOK(c), NEW cmd
    PROVE  FSMStep(c, applyUpdateAssignments(c, cmd))
<1> DEFINE Changed(p) == \E x \in cmd.add \cup cmd.update \cup cmd.remove : x.pid = p
           refused == \/ cmd.ifMatch # 0 /\ cmd.ifMatch # c.asgVersion
                      \/ ~HasAssignments(c)
                      \/ ~ValidUpdateAssignments(c, cmd)
           part == [p \in DOMAIN c.part |->
                      IF Changed(p) THEN updatePartition(c.part[p], p, cmd, c.asgVersion + 1) ELSE c.part[p]]
<1>1. CASE refused
  <2>1. applyUpdateAssignments(c, cmd) = c
    BY <1>1 DEF applyUpdateAssignments
  <2> QED BY <2>1, NoChange
<1>2. CASE ~refused
  <2>1. DOMAIN c.part = Partitions /\ \A p \in Partitions : PartOK(c.part[p])
    BY Zenon DEF FSMOK, PartsOK
  <2>2. applyUpdateAssignments(c, cmd) = [c EXCEPT !.asgVersion = c.asgVersion + 1, !.part = part]
    BY <1>2 DEF applyUpdateAssignments
  <2>3. c.asgVersion \in Nat /\ \A p \in Partitions : ServersOf(c.part[p]) \subseteq DataServers(c)
    BY Zenon DEF FSMOK
  <2>4. ValidUpdateAssignments(c, cmd)
    BY <1>2
  <2>5. ASSUME NEW p \in Partitions
        PROVE  /\ PartOK(part[p]) /\ ServersOf(part[p]) \subseteq DataServers(c)
               /\ \/ part[p] = c.part[p]
                  \/ part[p].version = c.part[p].version + 1
    <3>1. CASE ~Changed(p)
      <4>1. part[p] = c.part[p]
        BY <2>1, <3>1
      <4> QED BY <2>1, <2>3, <4>1
    <3>2. CASE Changed(p)
      <4> DEFINE q == c.part[p]
                 v == c.asgVersion + 1
      <4>1. part[p] = updatePartition(q, p, cmd, v)
        BY <2>1, <3>2
      <4>2. \A x \in cmd.add : x.pid = p => x.sid \in DataServers(c) /\ x.sid \notin ServersOf(q)
        BY <2>4 DEF ValidUpdateAssignments, OnServer, ServersOf
      <4>3. \A x \in cmd.update : x.pid = p => x.state \in ReplicaStates
        BY <2>4 DEF ValidUpdateAssignments, ValidTransition, ReplicaStates
      <4>4. PartOK(q) /\ v \in Nat /\ ServersOf(q) \subseteq DataServers(c)
        BY <2>1, <2>3
      <4>5. DataServers(c) \in SUBSET (Nat \ {0}) /\ IsFiniteSet(DataServers(c))
        BY DataServersFinite
      <4> HIDE DEF part, q, v
      <4>6. /\ PartOK(updatePartition(q, p, cmd, v))
            /\ updatePartition(q, p, cmd, v).version = q.version + 1
            /\ ServersOf(updatePartition(q, p, cmd, v)) \subseteq DataServers(c)
        BY <4>2, <4>3, <4>4, <4>5, UpdatePartitionOK
      <4> QED BY <4>1, <4>6 DEF q
    <3> QED BY <3>1, <3>2
  <2>6. DOMAIN part = Partitions /\ part = [p \in DOMAIN part |-> part[p]]
    BY <2>1
  <2> HIDE DEF part
  <2>7. PartsOK(part)
    BY <2>5, <2>6 DEF PartsOK
  <2>8. Progress(c.part, part)
    <3>1. \A p \in Partitions : c.part[p].version \in Nat /\ SameConfig(c.part[p], c.part[p])
      BY <2>1, Zenon DEF PartOK, SameConfig
    <3>2. \A p \in Partitions : \/ part[p].version > c.part[p].version
                                \/ part[p].version = c.part[p].version /\ SameConfig(c.part[p], part[p])
      <4> TAKE p \in Partitions
      <4>1. CASE part[p] = c.part[p]
        BY <3>1, <4>1
      <4>2. CASE part[p].version = c.part[p].version + 1
        <5>1. c.part[p].version \in Nat
          BY <3>1
        <5>2. part[p].version > c.part[p].version
          BY <4>2, <5>1
        <5> QED BY <5>2
      <4> QED BY <2>5, <4>1, <4>2
    <3> QED BY <2>1, <2>6, <3>2 DEF Progress
  <2>9. c.asgVersion + 1 \in Nat /\ c.asgVersion + 1 # 0
    BY <2>3
  <2> QED BY <2>2, <2>5, <2>7, <2>8, <2>9, PartsChange, Zenon
<1> QED BY <1>1, <1>2

-----------------------------------------------------------------------------
(* The cluster at the start *)

(* So does the registration of several servers. *)
LEMMA RegisterAllOK ==
    ASSUME NEW c, FSMOK(c), NEW ss \in Seq(Servers),
           \A i, j \in DOMAIN ss : i # j => ss[i] # ss[j],
           \A i \in DOMAIN ss : ss[i] \notin DOMAIN c.tokens
    PROVE  /\ FSMOK(RegisterAll(c, ss))
           /\ DOMAIN RegisterAll(c, ss).tokens = DOMAIN c.tokens \cup {ss[k] : k \in DOMAIN ss}
<1> DEFINE n == Len(ss)
           last == c.lastId + n
           new == c.lastId + 1 .. last
           items == [i \in DOMAIN c.items \cup new |-> IF i \in new THEN "Data" ELSE c.items[i]]
           Index(s) == CHOOSE k \in DOMAIN ss : ss[k] = s
           range == {ss[k] : k \in DOMAIN ss}
           tokens == [s \in DOMAIN c.tokens \cup range |->
                        IF s \in DOMAIN c.tokens THEN c.tokens[s] ELSE c.lastId + Index(s)]
           r == RegisterAll(c, ss)
<1>1. r = [c EXCEPT !.lastId = last, !.regVersion = c.regVersion + n, !.items = items, !.tokens = tokens]
  BY DEF RegisterAll
<1>2. n \in Nat /\ DOMAIN ss = 1 .. n
  OBVIOUS
<1> HIDE DEF n
<1>3. /\ c.lastId \in Nat /\ DOMAIN c.items \subseteq 1 .. c.lastId
      /\ c.items \in [DOMAIN c.items -> ServerTypes] /\ c.tokens \in [DOMAIN c.tokens -> DataServers(c)]
  BY Zenon DEF FSMOK
<1>4. last \in Nat /\ new \subseteq 1 .. last /\ 1 .. c.lastId \subseteq 1 .. last /\ new \cap 1 .. c.lastId = {}
  BY <1>2, <1>3
<1>5. /\ DOMAIN items = DOMAIN c.items \cup new
      /\ \A i \in new : items[i] = "Data"
      /\ \A i \in DOMAIN c.items : items[i] = c.items[i]
  BY <1>3, <1>4
<1>6. items \in [DOMAIN items -> ServerTypes] /\ DOMAIN items \subseteq 1 .. last
  BY <1>3, <1>4, <1>5 DEF ServerTypes
<1>7. \A k \in 1 .. n : ss[k] \in range /\ Index(ss[k]) = k
  BY <1>2
<1>8. \A s \in range : Index(s) \in 1 .. n /\ ss[Index(s)] = s
  BY <1>2
<1>9. range \cap DOMAIN c.tokens = {}
  OBVIOUS
<1> HIDE DEF Index, range
<1>10. /\ DOMAIN tokens = DOMAIN c.tokens \cup range
       /\ \A s \in DOMAIN c.tokens : tokens[s] = c.tokens[s]
       /\ \A s \in range : tokens[s] = c.lastId + Index(s)
  BY <1>9
<1>11. r = [name |-> c.name, items |-> items, tokens |-> tokens, lastId |-> last,
            regVersion |-> c.regVersion + n, asgVersion |-> c.asgVersion, part |-> c.part]
  <2>1. c = [name |-> c.name, items |-> c.items, tokens |-> c.tokens, lastId |-> c.lastId,
             regVersion |-> c.regVersion, asgVersion |-> c.asgVersion, part |-> c.part]
    BY Zenon DEF FSMOK
  <2> HIDE DEF r, items, tokens, last
  <2> QED BY <1>1, <2>1, ZenonT(30)
<1> HIDE DEF r
<1>12. DataServers(r) = DataServers(c) \cup new /\ DataServers(c) \cap new = {}
  BY <1>3, <1>4, <1>5, <1>11 DEF DataServers
<1>13. \A s \in range : tokens[s] \in new
  BY <1>2, <1>3, <1>8, <1>10
<1>14. \A i \in new : \E s \in range : tokens[s] = i
  <2> TAKE i \in new
  <2>1. i - c.lastId \in 1 .. n /\ c.lastId + (i - c.lastId) = i
    BY <1>2, <1>3
  <2>2. ss[i - c.lastId] \in range /\ tokens[ss[i - c.lastId]] = i
    BY <1>7, <1>10, <2>1
  <2> QED BY <2>2
<1>15. \A s, t \in range : s # t => tokens[s] # tokens[t]
  <2> SUFFICES ASSUME NEW s \in range, NEW t \in range, tokens[s] = tokens[t] PROVE s = t
    OBVIOUS
  <2>1. Index(s) = Index(t)
    BY <1>2, <1>3, <1>8, <1>10
  <2> QED BY <1>8, <2>1
<1>16. tokens = [s \in DOMAIN tokens |-> tokens[s]]
  OBVIOUS
<1> HIDE DEF items, tokens, last, new
<1>17. tokens \in [DOMAIN tokens -> DataServers(r)]
  BY <1>3, <1>10, <1>12, <1>13, <1>16
<1>18. \A t, u \in DOMAIN tokens : t # u => tokens[t] # tokens[u]
  <2>1. \A t, u \in DOMAIN c.tokens : t # u => c.tokens[t] # c.tokens[u]
    BY Zenon DEF FSMOK
  <2>2. \A t \in DOMAIN c.tokens : tokens[t] \in DataServers(c)
    BY <1>3, <1>10
  <2> QED BY <1>10, <1>12, <1>13, <1>15, <2>1, <2>2
<1>19. \A i \in DataServers(r) : \E t \in DOMAIN tokens : tokens[t] = i
  <2>1. \A i \in DataServers(c) : \E t \in DOMAIN c.tokens : c.tokens[t] = i
    BY ZenonT(30) DEF FSMOK
  <2> QED BY <1>10, <1>12, <1>14, <2>1
<1>20. \A i \in ControlIds : i \in DOMAIN items /\ items[i] = "Control"
  BY <1>5, ZenonT(30) DEF FSMOK
<1>21. \A p \in Partitions : ServersOf(c.part[p]) \subseteq DataServers(r)
  BY <1>12, ZenonT(30) DEF FSMOK
<1>22. FSMOK(r)
  <2>1. /\ r.name = c.name /\ r.items = items /\ r.tokens = tokens /\ r.lastId = last
        /\ r.asgVersion = c.asgVersion /\ r.part = c.part
        /\ r = [name |-> r.name, items |-> r.items, tokens |-> r.tokens, lastId |-> r.lastId,
                regVersion |-> r.regVersion, asgVersion |-> r.asgVersion, part |-> r.part]
    BY <1>11
  <2>2. /\ c.name # "" /\ c.asgVersion \in Nat /\ PartsOK(c.part) /\ DOMAIN c.part = Partitions
        /\ c.asgVersion = 0 => \A p \in Partitions : c.part[p].version = 0
    BY Zenon DEF FSMOK
  <2> QED BY <1>4, <1>6, <1>17, <1>18, <1>19, <1>20, <1>21, <2>1, <2>2, ZenonT(30) DEF FSMOK
<1> QED BY <1>10, <1>11, <1>22 DEF r, range

(* What Bootstrap makes of an empty state machine. *)
LEMMA BootedOK ==
    LET booted == applyBootstrap(NewFSM, "scout", ControlIds, Partitions)
    IN  FSMOK(booted) /\ DOMAIN booted.tokens = {}
<1> DEFINE max == CHOOSE i \in ControlIds : \A j \in ControlIds : j <= i
           items == [i \in ControlIds |-> "Control"]
           part == [p \in Partitions |-> NewPartition]
           b == [name |-> "scout", items |-> items, tokens |-> NoFn, lastId |-> max,
                 regVersion |-> 1, asgVersion |-> 0, part |-> part]
<1>1. max \in ControlIds /\ \A j \in ControlIds : j <= max
  BY ControlPlaneAssumption, Zenon
<1>2. ControlIds \subseteq 1 .. max /\ max \in Nat
  <2> HIDE DEF max
  <2> QED BY <1>1, ControlPlaneAssumption
<1>3. applyBootstrap(NewFSM, "scout", ControlIds, Partitions) = b
  <2>1. applyBootstrap(NewFSM, "scout", ControlIds, Partitions) =
          [NewFSM EXCEPT !.name = "scout", !.regVersion = 1, !.lastId = max, !.items = items, !.part = part]
    BY <1>1, Zenon DEF applyBootstrap, NewFSM
  <2> HIDE DEF max, items, part
  <2> QED BY <2>1, Zenon DEF NewFSM
<1>4. DataServers(b) = {}
  BY DEF DataServers
<1>5. NoFn \in [{} -> {}] /\ DOMAIN NoFn = {}
  BY DEF NoFn
<1>6. NewPartition.version = 0 /\ ServersOf(NewPartition) = {} /\ PartOK(NewPartition)
  BY <1>5 DEF PartOK, ServersOf, NewPartition
<1>7. PartsOK(part) /\ DOMAIN part = Partitions
  BY <1>6 DEF PartsOK
<1>8. items \in [DOMAIN items -> ServerTypes] /\ DOMAIN items = ControlIds
  BY DEF ServerTypes
<1>9. \A p \in Partitions : part[p].version = 0 /\ ServersOf(part[p]) \subseteq DataServers(b)
  BY <1>4, <1>6
<1>10. \A i \in ControlIds : items[i] = "Control"
  OBVIOUS
<1> HIDE DEF max, items, part
<1>11. FSMOK(b)
  BY <1>2, <1>4, <1>5, <1>7, <1>8, <1>9, <1>10 DEF FSMOK
<1> QED BY <1>3, <1>5, <1>11

(* The state machine of the initial cluster is consistent. *)
LEMMA Cluster0OK == FSMOK(Cluster0)
<1> DEFINE booted == applyBootstrap(NewFSM, "scout", ControlIds, Partitions)
           n == Len(Registered0)
           ss == SubSeq(Registered0, 1, Seated)
           first == RegisterAll(booted, ss)
           add == CHOOSE add \in initAssignments(first) : TRUE
           seated == IF Seated = 0 THEN first ELSE applyInitAssignments(first, add)
           tt == SubSeq(Registered0, Seated + 1, n)
<1>1. Cluster0 = RegisterAll(seated, tt)
  BY DEF Cluster0
<1>2. /\ Registered0 \in Seq(Servers) /\ Seated \in 0 .. n /\ n \in Nat /\ DOMAIN Registered0 = 1 .. n
      /\ \A i, j \in 1 .. n : i # j => Registered0[i] # Registered0[j]
  BY ControlPlaneAssumption
<1>3. /\ ss \in Seq(Servers) /\ DOMAIN ss = 1 .. Seated
      /\ \A i \in 1 .. Seated : ss[i] = Registered0[i]
  BY <1>2
<1>4. /\ tt \in Seq(Servers) /\ DOMAIN tt = 1 .. n - Seated
      /\ \A i \in 1 .. n - Seated : tt[i] = Registered0[Seated + i]
  BY <1>2
<1>5. FSMOK(booted) /\ DOMAIN booted.tokens = {}
  BY BootedOK
<1> HIDE DEF booted, n, ss, tt
<1>6. \A i, j \in DOMAIN ss : i # j => ss[i] # ss[j]
  BY <1>2, <1>3
<1>7. \A i, j \in DOMAIN tt : i # j => tt[i] # tt[j]
  BY <1>2, <1>4
<1>8. FSMOK(first) /\ DOMAIN first.tokens = {ss[k] : k \in DOMAIN ss}
  <2>1. \A i \in DOMAIN ss : ss[i] \notin DOMAIN booted.tokens
    BY <1>5
  <2>2. FSMOK(first) /\ DOMAIN first.tokens = DOMAIN booted.tokens \cup {ss[k] : k \in DOMAIN ss}
    BY <1>3, <1>5, <1>6, <2>1, RegisterAllOK, Zenon
  <2> QED BY <1>5, <2>2
<1> HIDE DEF first, add
<1>9. FSMOK(seated) /\ seated.tokens = first.tokens
  BY <1>8, InitAssignmentsOK DEF FSMStep
<1> HIDE DEF seated
<1>10. \A i \in DOMAIN tt : tt[i] \notin DOMAIN seated.tokens
  <2> SUFFICES ASSUME NEW i \in DOMAIN tt, NEW k \in DOMAIN ss, tt[i] = ss[k] PROVE FALSE
    BY <1>8, <1>9
  <2> QED BY <1>2, <1>3, <1>4
<1> QED BY <1>1, <1>4, <1>7, <1>9, <1>10, RegisterAllOK, Zenon

-----------------------------------------------------------------------------
(* The copies *)

(* After a command, the older copies and the new assignments agree. *)
LEMMA CopiesGrow ==
    ASSUME NEW S, NEW c \in S, CopiesOK(S, c), NEW d, PartsOK(d), Progress(c, d)
    PROVE  CopiesOK(S \cup {d}, d)
<1>1. \A a \in S : PartsOK(a) /\ Older(a, c)
  BY DEF CopiesOK
<1>2. ASSUME NEW a \in S \cup {d}, NEW p \in DOMAIN a
      PROVE  a[p].version \in Nat
  BY <1>1 DEF PartsOK, PartOK
<1>3. DOMAIN d = DOMAIN c
  BY DEF Progress
<1>4. ASSUME NEW a \in S \cup {d}
      PROVE  Older(a, d)
  <2>1. CASE a = d
    BY <1>2, <2>1 DEF Older
  <2>2. CASE a \in S
    <3> SUFFICES ASSUME NEW p \in DOMAIN a PROVE p \in DOMAIN d /\ a[p].version <= d[p].version
      BY DEF Older
    <3>1. p \in DOMAIN c /\ a[p].version <= c[p].version
      BY <1>1, <2>2 DEF Older
    <3>2. d[p].version >= c[p].version
      BY <1>2, <1>3, <3>1 DEF Progress
    <3> QED BY <1>2, <1>3, <3>1, <3>2
  <2> QED BY <2>1, <2>2
<1>5. ASSUME NEW a \in S
      PROVE  Agrees(a, d) /\ Agrees(d, a)
  <2> SUFFICES ASSUME NEW p \in DOMAIN a \cap DOMAIN d, a[p].version = d[p].version
               PROVE  SameConfig(a[p], d[p]) /\ SameConfig(d[p], a[p])
    BY DEF Agrees
  <2>1. a[p].version <= c[p].version /\ a[p].version \in Nat /\ c[p].version \in Nat
    BY <1>1, <1>2, <1>3 DEF Older
  <2>2. d[p].version = c[p].version /\ SameConfig(c[p], d[p])
    BY <1>2, <1>3, <2>1 DEF Progress
  <2>3. SameConfig(a[p], c[p])
    BY <1>3, <2>2 DEF CopiesOK, Agrees
  <2> QED BY <2>2, <2>3 DEF SameConfig
<1>6. Agrees(d, d)
  BY DEF Agrees, SameConfig
<1>7. PartsOK(d)
  OBVIOUS
<1> QED BY <1>1, <1>4, <1>5, <1>6, <1>7 DEF CopiesOK

(* What is true of all copies is true of some. *)
LEMMA CopiesFewer ==
    ASSUME NEW S, NEW c, CopiesOK(S, c), NEW T \in SUBSET S
    PROVE  CopiesOK(T, c)
BY DEF CopiesOK

(* An empty state machine has no assignments and no servers. *)
LEMMA NothingYet == NewFSM.part = NoFn /\ DataServers(NewFSM) = {} /\ PartsOK(NoFn) /\ DOMAIN NoFn = {}
<1>1. NewFSM.part = NoFn /\ NewFSM.items = NoFn /\ DOMAIN NoFn = {} /\ NoFn = [p \in {} |-> NoFn[p]]
  BY DEF NewFSM, NoFn
<1> QED BY <1>1 DEF DataServers, PartsOK

-----------------------------------------------------------------------------
(* The invariant *)

(* The initial state satisfies the invariant. *)
LEMMA InitInv == Init => IInv
<1> SUFFICES ASSUME Init PROVE IInv
  OBVIOUS
<1>1. FSMOK(Cluster0)
  BY Cluster0OK
<1> DEFINE c == Cluster0
<1>2. cluster = c /\ cache = c /\ behind = NewFSM /\ tracker = newTracker(c)
  BY DEF Init
<1>3. id = [s \in Servers |-> IF s \in DOMAIN c.tokens THEN c.tokens[s] ELSE 0]
  BY DEF Init
<1> HIDE DEF c
<1>4. /\ tracker.servers = DataServers(c) /\ tracker.part = c.part
      /\ tracker = [version |-> tracker.version, servers |-> tracker.servers, part |-> tracker.part,
                    ready |-> tracker.ready, dirty |-> tracker.dirty]
  BY <1>2 DEF newTracker
<1>5. Copies = {c.part, NoFn}
  BY <1>2, <1>4, NothingYet DEF Copies
<1>6. PartsOK(c.part) /\ DOMAIN c.part = Partitions /\ \A p \in Partitions : c.part[p].version \in Nat
  BY <1>1, Zenon DEF FSMOK, PartsOK, PartOK, c
<1>7. CopiesOK({c.part, NoFn}, c.part)
  <2>1. Older(c.part, c.part) /\ Older(NoFn, c.part)
    BY <1>6, NothingYet DEF Older
  <2>2. \A a, b \in {c.part, NoFn} : Agrees(a, b)
    BY NothingYet DEF Agrees, SameConfig
  <2> QED BY <1>6, <2>1, <2>2, NothingYet DEF CopiesOK
<1>8. c.tokens \in [DOMAIN c.tokens -> DataServers(c)] /\ DataServers(c) \subseteq Nat
  BY <1>1, DataServersFinite, Zenon DEF FSMOK, c
<1>9. id \in [Servers -> Nat] /\ \A s \in Servers : id[s] # 0 => s \in DOMAIN c.tokens /\ c.tokens[s] = id[s]
  BY <1>3, <1>8
<1>10. \A p \in Partitions : ServersOf(c.part[p]) \subseteq DataServers(c)
  BY <1>1, Zenon DEF FSMOK, c
<1>11. DataServers(behind) \subseteq DataServers(cluster)
  BY <1>2, NothingYet
<1>12. FSMOK(cluster)
  BY <1>1, <1>2 DEF c
<1> QED BY <1>2, <1>4, <1>5, <1>6, <1>7, <1>9, <1>10, <1>11, <1>12 DEF IInv

(* A command of the state machine, while the copies stay. *)
LEMMA CommandStep ==
    ASSUME IInv, FSMStep(cluster, cluster'), UNCHANGED <<cache, behind>>,
           tracker' = [version |-> tracker'.version, servers |-> tracker'.servers, part |-> tracker'.part,
                       ready |-> tracker'.ready, dirty |-> tracker'.dirty],
           tracker'.part = tracker.part, tracker'.servers = tracker.servers,
           id' \in [Servers -> Nat],
           \A s \in Servers : id'[s] \notin {0, id[s]} =>
                s \in DOMAIN cluster'.tokens /\ cluster'.tokens[s] = id'[s]
    PROVE  IInv'
<1>1. FSMOK(cluster') /\ PartsOK(cluster'.part) /\ Progress(cluster.part, cluster'.part)
  BY Zenon DEF FSMStep, FSMOK
<1>2. Copies' \subseteq Copies \cup {cluster'.part} /\ cluster.part \in Copies
  BY DEF Copies
<1>3. CopiesOK(Copies \cup {cluster'.part}, cluster'.part)
  BY <1>1, <1>2, CopiesGrow DEF IInv
<1>4. CopiesOK(Copies', cluster'.part)
  BY <1>2, <1>3, CopiesFewer
<1>5. DataServers(cluster) \subseteq DataServers(cluster')
  BY DEF FSMStep
<1>6. DataServers(behind') \subseteq DataServers(cluster') /\ tracker'.servers \subseteq DataServers(cluster')
  BY <1>5 DEF IInv
<1>7. \A s \in Servers : id'[s] # 0 => s \in DOMAIN cluster'.tokens /\ cluster'.tokens[s] = id'[s]
  <2> TAKE s \in Servers
  <2>1. CASE id'[s] = id[s]
    BY <2>1 DEF IInv, FSMStep
  <2>2. CASE id'[s] # id[s]
    BY <2>2
  <2> QED BY <2>1, <2>2
<1>8. (behind = NewFSM \/ FSMOK(behind))'
  BY DEF IInv
<1>9. DOMAIN tracker'.part = Partitions /\ \A p \in Partitions : ServersOf(tracker'.part[p]) \subseteq tracker'.servers
  BY DEF IInv
<1> QED BY <1>1, <1>4, <1>6, <1>7, <1>8, <1>9, ZenonT(30) DEF IInv

(* The copies change, the state machine does not. *)
LEMMA CopyStep ==
    ASSUME IInv, UNCHANGED <<cluster, id>>, Copies' \subseteq Copies \cup {NoFn},
           behind' = NewFSM \/ behind' = cluster \/ behind' = behind,
           tracker' = [version |-> tracker'.version, servers |-> tracker'.servers, part |-> tracker'.part,
                       ready |-> tracker'.ready, dirty |-> tracker'.dirty],
           tracker'.servers \subseteq DataServers(cluster),
           DOMAIN tracker'.part = Partitions,
           \A p \in Partitions : ServersOf(tracker'.part[p]) \subseteq tracker'.servers
    PROVE  IInv'
<1>1. CopiesOK(Copies \cup {NoFn}, cluster.part)
  <2>1. PartsOK(NoFn) /\ Older(NoFn, cluster.part) /\ \A a \in Copies \cup {NoFn} : Agrees(a, NoFn) /\ Agrees(NoFn, a)
    BY NothingYet DEF Older, Agrees
  <2> QED BY <2>1 DEF IInv, CopiesOK
<1>2. CopiesOK(Copies', cluster'.part)
  BY <1>1, CopiesFewer
<1>3. behind' = NewFSM \/ FSMOK(behind')
  BY DEF IInv
<1>4. DataServers(behind') \subseteq DataServers(cluster')
  BY NothingYet DEF IInv
<1>5. FSMOK(cluster') /\ tracker'.servers \subseteq DataServers(cluster')
  BY DEF IInv
<1>6. id' \in [Servers -> Nat] /\ \A s \in Servers : id'[s] # 0 => s \in DOMAIN cluster'.tokens /\ cluster'.tokens[s] = id'[s]
  BY DEF IInv
<1> QED BY <1>2, <1>3, <1>4, <1>5, <1>6 DEF IInv

(* Every step keeps the invariant. *)
LEMMA NextInv == IInv /\ [Next]_vars => IInv'
<1> SUFFICES ASSUME IInv, [Next]_vars PROVE IInv'
  OBVIOUS
<1> DEFINE Shaped(t) == t = [version |-> t.version, servers |-> t.servers, part |-> t.part,
                             ready |-> t.ready, dirty |-> t.dirty]
<1>1. FSMOK(cluster) /\ Shaped(tracker) /\ id \in [Servers -> Nat]
  BY DEF IInv
<1>2. ASSUME FSMStep(cluster, cluster'), UNCHANGED <<cache, behind, tracker, id>>
      PROVE  IInv'
  BY <1>1, <1>2, CommandStep DEF Shaped
<1>3. ASSUME UNCHANGED <<cluster, cache, behind, id>>, Shaped(tracker'),
             tracker'.part = tracker.part, tracker'.servers = tracker.servers
      PROVE  IInv'
  <2>1. Copies' \subseteq Copies \cup {NoFn}
    BY <1>3 DEF Copies
  <2>2. tracker'.servers \subseteq DataServers(cluster) /\ DOMAIN tracker'.part = Partitions
        /\ \A p \in Partitions : ServersOf(tracker'.part[p]) \subseteq tracker'.servers
    BY <1>3 DEF IInv
  <2> QED BY <1>3, <2>1, <2>2, CopyStep DEF Shaped
<1>4. ASSUME UNCHANGED <<cluster, cache, behind, tracker, id>>
      PROVE  IInv'
  BY <1>1, <1>3, <1>4
<1>5. CASE Bootstrap
  <2>1. FSMStep(cluster, cluster')
    BY <1>1, <1>5, BootstrapOK DEF Bootstrap
  <2> QED BY <1>2, <1>5, <2>1 DEF Bootstrap
<1>6. CASE CloneBegins
  BY <1>4, <1>6 DEF CloneBegins
<1>7. CASE Publish
  <2>1. /\ cache'.part = cluster.part /\ DataServers(cache') = DataServers(cluster)
        /\ UNCHANGED <<cluster, behind, id>> /\ tracker' = TrackerSync(cache')
    <3>1. cluster = [name |-> cluster.name, items |-> cluster.items, tokens |-> cluster.tokens,
                     lastId |-> cluster.lastId, regVersion |-> cluster.regVersion,
                     asgVersion |-> cluster.asgVersion, part |-> cluster.part]
      BY <1>1, Zenon DEF FSMOK
    <3>2. cache'.part = cluster.part /\ cache'.items = cluster.items
      BY <1>7, <3>1 DEF Publish
    <3> QED BY <1>7, <3>2 DEF Publish, DataServers
  <2>2. /\ Shaped(tracker') /\ tracker'.servers = DataServers(cluster)
        /\ tracker'.part \in {tracker.part, cluster.part}
    BY <1>1, <2>1, Zenon DEF TrackerSync
  <2>3. Copies' \subseteq Copies \cup {NoFn}
    BY <2>1, <2>2 DEF Copies
  <2>4. DOMAIN tracker'.part = Partitions /\ \A p \in Partitions : ServersOf(tracker'.part[p]) \subseteq tracker'.servers
    <3>1. \A p \in Partitions : /\ ServersOf(tracker.part[p]) \subseteq DataServers(cluster)
                                /\ ServersOf(cluster.part[p]) \subseteq DataServers(cluster)
      BY <1>1, OnDataServers DEF IInv
    <3>2. DOMAIN tracker.part = Partitions /\ DOMAIN cluster.part = Partitions
      BY <1>1, OnDataServers DEF IInv
    <3> QED BY <2>2, <3>1, <3>2
  <2> QED BY <2>1, <2>2, <2>3, <2>4, CopyStep DEF Shaped
<1>8. CASE FallBehind
  <2>1. UNCHANGED <<cluster, cache, tracker, id>> /\ behind' = cluster
    BY <1>8 DEF FallBehind
  <2>2. Copies' \subseteq Copies \cup {NoFn}
    BY <2>1 DEF Copies
  <2> QED BY <1>1, <2>1, <2>2, CopyStep DEF IInv
<1>9. CASE Elect
  <2>1. UNCHANGED <<cluster, id>> /\ cache' = behind /\ behind' = NewFSM /\ FSMOK(behind) /\ tracker' = newTracker(behind)
    BY <1>9 DEF Elect, IInv
  <2>2. Shaped(tracker') /\ tracker'.servers = DataServers(behind) /\ tracker'.part = behind.part
    BY <2>1 DEF newTracker
  <2>3. Copies' \subseteq Copies \cup {NoFn}
    BY <2>1, <2>2, NothingYet DEF Copies
  <2>4. tracker'.servers \subseteq DataServers(cluster) /\ DOMAIN tracker'.part = Partitions
        /\ \A p \in Partitions : ServersOf(tracker'.part[p]) \subseteq tracker'.servers
    <3>1. DataServers(behind) \subseteq DataServers(cluster)
      BY DEF IInv
    <3> QED BY <2>1, <2>2, <3>1, OnDataServers
  <2> QED BY <2>1, <2>2, <2>3, <2>4, CopyStep DEF Shaped
<1>10. CASE Assign
  <2>1. FSMStep(cluster, cluster')
    BY <1>1, <1>10, InitAssignmentsOK, UpdateAssignmentsOK DEF Assign
  <2> QED BY <1>2, <1>10, <2>1 DEF Assign
<1>11. CASE writeLatestStatus
  <2> DEFINE S == {x \in Known(tracker.part) : x[1] \in tracker.dirty}
             status == {[pid |-> x[1], name |-> x[2], ready |-> x \in tracker.ready] : x \in S}
  <2>1. cluster' = applyUpdateStatus(cluster, status) /\ tracker' = [tracker EXCEPT !.dirty = {}]
        /\ UNCHANGED <<cache, behind, id>>
    BY <1>11 DEF writeLatestStatus
  <2>2. \A x \in status : x.ready \in BOOLEAN
    <3> SUFFICES ASSUME NEW y \in S
                 PROVE  [pid |-> y[1], name |-> y[2], ready |-> y \in tracker.ready].ready \in BOOLEAN
      BY Zenon
    <3> QED OBVIOUS
  <2> HIDE DEF status
  <2>3. FSMStep(cluster, cluster')
    BY <1>1, <2>1, <2>2, UpdateStatusOK
  <2>4. Shaped(tracker') /\ tracker'.part = tracker.part /\ tracker'.servers = tracker.servers
    BY <1>1, <2>1
  <2> QED BY <1>1, <2>1, <2>3, <2>4, CommandStep DEF Shaped
<1>12. ASSUME NEW s \in Servers, NEW replied \in BOOLEAN, NEW expired \in BOOLEAN, Register(s, replied, expired)
       PROVE  IInv'
  <2> DEFINE next == applyRegister(cluster, s, "Data", expired)
             given == Registered(cluster, s, expired)
  <2>1. /\ cluster' = next /\ UNCHANGED <<cache, behind, tracker>>
        /\ id' = [id EXCEPT ![s] = IF replied THEN given ELSE 0]
    BY <1>12 DEF Register
  <2>2. FSMStep(cluster, next) /\ s \in DOMAIN next.tokens /\ given \in {0, next.tokens[s]}
    BY <1>1, RegisterOK
  <2> HIDE DEF next, given
  <2>3. next.tokens[s] \in Nat
    BY <2>2, DataServersFinite, ZenonT(30) DEF FSMStep, FSMOK
  <2>4. id' \in [Servers -> Nat]
    BY <1>1, <2>1, <2>2, <2>3
  <2>5. \A t \in Servers : id'[t] \notin {0, id[t]} => t \in DOMAIN cluster'.tokens /\ cluster'.tokens[t] = id'[t]
    BY <1>1, <2>1, <2>2
  <2> QED BY <1>1, <2>1, <2>2, <2>4, <2>5, CommandStep DEF Shaped
<1>13. ASSUME NEW s \in Servers, Heartbeat(s)
       PROVE  IInv'
  <2>1. UNCHANGED <<cluster, cache, behind, id>>
    BY <1>13 DEF Heartbeat
  <2>2. \E ready, dirty : tracker' = [tracker EXCEPT !.ready = ready, !.dirty = dirty]
    BY <1>13, Zenon DEF Heartbeat
  <2>3. Shaped(tracker') /\ tracker'.part = tracker.part /\ tracker'.servers = tracker.servers
    BY <1>1, <2>2, Zenon
  <2> QED BY <1>3, <2>1, <2>3
<1>14. ASSUME NEW s \in Servers, syncPartitions(s) \/ Restart(s) \/ \E p \in Partitions : Restore(s, p) \/ Cleanup(s, p)
       PROVE  IInv'
  BY <1>4, <1>14 DEF syncPartitions, Restart, Restore, Cleanup
<1>15. CASE UNCHANGED vars
  BY <1>4, <1>15 DEF vars
<1> QED BY <1>5, <1>6, <1>7, <1>8, <1>9, <1>10, <1>11, <1>12, <1>13, <1>14, <1>15 DEF Next

(* What follows is true of every reachable state of the control plane. *)
THEOREM ControlPlaneInvariant == Spec => []IInv
BY InitInv, NextInv, PTL DEF Spec

-----------------------------------------------------------------------------
(* The properties *)

(* Whatever old copy the assigner works from, the state machine never puts  *)
(* two replicas of a partition on one server.                               *)
THEOREM NoTwoReplicas == Spec => []OneReplicaPerServer
<1>1. IInv => OneReplicaPerServer
  BY Zenon DEF IInv, FSMOK, PartsOK, PartOK, OneReplicaPerServer
<1> QED BY <1>1, ControlPlaneInvariant, PTL

(* A data server keeps the identity of its token, however often it has to   *)
(* repeat its registration, and shares it with no other server.             *)
THEOREM Identities == Spec => []OneIdentity
<1>1. ASSUME IInv PROVE OneIdentity
  <2> DEFINE tokens == cluster.tokens
             D == DataServers(cluster)
             T == DOMAIN tokens
  <2>1. /\ tokens \in [T -> D] /\ \A t, u \in T : t # u => tokens[t] # tokens[u]
        /\ \A i \in D : \E t \in T : tokens[t] = i
    BY <1>1, Zenon DEF IInv, FSMOK
  <2>2. tokens \in Bijection(T, D)
    BY <2>1 DEF Bijection, Injection, Surjection, IsInjective
  <2>3. IsFiniteSet(D)
    BY <1>1, DataServersFinite DEF IInv
  <2>4. IsFiniteSet(T) /\ (Cardinality(T) = Cardinality(D) <=> tokens \in Surjection(T, D))
    BY <2>2, <2>3, FS_Injection DEF Bijection
  <2>5. Cardinality(D) = Cardinality(T)
    BY <2>2, <2>4 DEF Bijection
  <2>6. \A s \in Servers : id[s] # 0 => s \in T /\ tokens[s] = id[s]
    BY <1>1 DEF IInv
  <2>7. \A s, t \in Servers : s # t /\ id[s] # 0 => id[s] # id[t]
    BY <2>1, <2>6
  <2>8. \A i \in ControlIds : cluster.items[i] = "Control"
    BY <1>1, ZenonT(30) DEF IInv, FSMOK
  <2> QED BY <2>5, <2>6, <2>7, <2>8, ZenonT(30) DEF OneIdentity
<1> QED BY <1>1, ControlPlaneInvariant, PTL

(* Two configurations with the ETag of a server are the same, even when     *)
(* they were made from copies of different control servers.                 *)
THEOREM ETags == Spec => []ETagsTruthful
<1>1. ASSUME IInv PROVE ETagsTruthful
  <2> DEFINE D == DataServers(cluster)
  <2>1. ASSUME NEW a \in Copies, NEW b \in Copies, NEW s \in D,
               makeDataServerConfigs(D, a)[s].etag = makeDataServerConfigs(D, b)[s].etag
        PROVE  makeDataServerConfigs(D, a)[s] = makeDataServerConfigs(D, b)[s]
    <3> DEFINE A == OfServerIn(a, s)
               B == OfServerIn(b, s)
               etagA == makeETag({<<p, a[p].version>> : p \in A})
               etagB == makeETag({<<p, b[p].version>> : p \in B})
               partsA == [p \in A |-> PartitionConfig(a, p)]
               partsB == [p \in B |-> PartitionConfig(b, p)]
    <3>1. /\ makeDataServerConfigs(D, a)[s] = [etag |-> etagA, parts |-> partsA]
          /\ makeDataServerConfigs(D, b)[s] = [etag |-> etagB, parts |-> partsB]
      BY Zenon DEF makeDataServerConfigs
    <3>2. etagA = etagB
      <4> HIDE DEF etagA, etagB, partsA, partsB
      <4> QED BY <2>1, <3>1
    <3>3. {<<p, a[p].version>> : p \in A} = {<<p, b[p].version>> : p \in B}
      BY <3>2 DEF makeETag
    <3> HIDE DEF etagA, etagB, A, B
    <3>4. A = B /\ \A p \in A : a[p].version = b[p].version
      <4>1. \A p \in A : p \in B /\ a[p].version = b[p].version
        <5> TAKE p \in A
        <5>1. <<p, a[p].version>> \in {<<q, b[q].version>> : q \in B}
          BY <3>3, Zenon
        <5> QED BY <5>1
      <4>2. \A p \in B : p \in A
        <5> TAKE p \in B
        <5>1. <<p, b[p].version>> \in {<<q, a[q].version>> : q \in A}
          BY <3>3, ZenonT(30)
        <5> QED BY <5>1
      <4> QED BY <4>1, <4>2
    <3>5. ASSUME NEW p \in A PROVE PartitionConfig(a, p) = PartitionConfig(b, p)
      <4>1. p \in DOMAIN a \cap DOMAIN b /\ a[p].version = b[p].version
        BY <3>4 DEF A, B, OfServerIn
      <4>2. SameConfig(a[p], b[p])
        BY <1>1, <4>1 DEF IInv, CopiesOK, Agrees
      <4> DEFINE ra == a[p].replicas
                 rb == b[p].replicas
      <4>3. \A n \in DOMAIN ra : ReplicaConfig(n, ra[n]) = ReplicaConfig(n, rb[n])
        BY <4>2 DEF SameConfig, ReplicaConfig
      <4>4. DOMAIN ra = DOMAIN rb
        BY <4>2 DEF SameConfig
      <4>5. [n \in DOMAIN ra |-> ReplicaConfig(n, ra[n])] = [n \in DOMAIN rb |-> ReplicaConfig(n, rb[n])]
        BY <4>3, <4>4
      <4> QED BY <4>1, <4>5 DEF PartitionConfig
    <3>6. partsA = partsB
      BY <3>4, <3>5
    <3> QED BY <3>1, <3>2, <3>6
  <2> QED BY <2>1 DEF ETagsTruthful, Copies
<1> QED BY <1>1, ControlPlaneInvariant, PTL

(* No message between the tracker and a data server is refused, whatever    *)
(* replica was last reported as the leader of its partition.                *)
THEOREM NoMessageRefused == Spec => []SessionsAccepted
<1>1. ASSUME IInv PROVE SessionsAccepted
  <2> DEFINE part == tracker.part
             servers == tracker.servers
             count == Cardinality(Partitions)
             configs == makeDataServerConfigs(servers, part)
             address == [s \in servers |-> "address"]
             List(n) == updateDataServerList(servers, address, part, [p \in Partitions |-> n])
             lists == {List(n) : n \in 0 .. Max({cluster.part[p].lastReplica : p \in Partitions})}
  <2>1. /\ DOMAIN part = Partitions /\ \A p \in Partitions : PartOK(part[p])
        /\ \A p \in Partitions : ServersOf(part[p]) \subseteq servers
    BY <1>1 DEF IInv, CopiesOK, Copies, PartsOK
  <2>2. servers \subseteq Nat \ {0}
    BY <1>1, DataServersFinite, Zenon DEF IInv
  <2>3. count \in Nat /\ Partitions # {} /\ \A p \in Partitions : p < count
    BY ControlPlaneAssumption, FS_CardinalityType
  <2> SUFFICES ASSUME NEW s \in Servers, HasSession(s)
               PROVE  /\ ValidDataServerConfig(configs[id[s]])
                      /\ \A list \in lists : ValidDataServers(list)
                      /\ \A x \in newHeartbeat(configs[id[s]].etag, GetStatus(s)) :
                            ValidHeartbeat(x) /\ handleDataServerStatus(x, count)
    BY Zenon DEF SessionsAccepted
  <2>4. id[s] \in servers
    BY DEF HasSession
  <2> HIDE DEF count
  <2>5. ValidDataServerConfig(configs[id[s]])
    <3> DEFINE etag == makeETag({<<p, part[p].version>> : p \in OfServerIn(part, id[s])})
               parts == [p \in OfServerIn(part, id[s]) |-> PartitionConfig(part, p)]
    <3>1. configs[id[s]] = [etag |-> etag, parts |-> parts]
      BY <2>4 DEF makeDataServerConfigs
    <3>2. etag # NoETag
      BY DEF makeETag, NoETag
    <3>3. ASSUME NEW p \in DOMAIN parts
          PROVE  parts[p].id = p /\ ValidPartitionConfig(parts[p])
      <4> DEFINE reps == part[p].replicas
      <4>1. p \in Partitions /\ parts[p] = PartitionConfig(part, p)
        BY <2>1, ZenonT(30) DEF OfServerIn
      <4>2. /\ PartitionConfig(part, p).id = p
            /\ PartitionConfig(part, p).replicas = [n \in DOMAIN reps |-> ReplicaConfig(n, reps[n])]
        BY DEF PartitionConfig
      <4>3. \A n \in DOMAIN reps : n # 0 /\ reps[n] \in ReplicaRecord
        <5>1. PartOK(part[p])
          BY <2>1, <4>1
        <5>2. /\ reps \in [DOMAIN reps -> ReplicaRecord] /\ DOMAIN reps \subseteq 1 .. part[p].lastReplica
              /\ part[p].lastReplica \in Nat
          BY <5>1, ZenonT(30) DEF PartOK
        <5> QED BY <5>2
      <4>4. \A n \in DOMAIN reps : ValidReplicaConfig(ReplicaConfig(n, reps[n]))
        BY <4>3, ZenonT(30) DEF ValidReplicaConfig, ReplicaConfig, ReplicaRecord
      <4> QED BY <4>1, <4>2, <4>4, ZenonT(30) DEF ValidPartitionConfig
    <3> HIDE DEF etag, parts
    <3> QED BY <3>1, <3>2, <3>3 DEF ValidDataServerConfig
  <2>6. ASSUME NEW n
        PROVE  ValidDataServers(List(n))
    <3> DEFINE leader == [p \in Partitions |-> n]
               parts == [p \in DOMAIN part |-> ListPartition(part, p, leader[p])]
               items == [t \in servers |-> [id |-> t, address |-> address[t]]]
               etag == makeETag({items[t] : t \in servers} \cup {parts[p] : p \in DOMAIN parts})
    <3>1. List(n) = [servers |-> items, parts |-> parts, count |-> Cardinality(DOMAIN part), etag |-> etag]
      BY Zenon DEF updateDataServerList
    <3>2. etag # NoETag
      BY DEF makeETag, NoETag
    <3>3. DOMAIN items = servers /\ items # NoFn
      BY <2>4, NothingYet
    <3>4. \A t \in servers : ValidServer(items[t]) /\ items[t].id = t
      BY <2>2, Zenon DEF ValidServer
    <3>5. DOMAIN parts = Partitions /\ parts # NoFn
      BY <2>1, <2>3, NothingYet
    <3>6. ASSUME NEW p \in Partitions
          PROVE  /\ parts[p].id = p /\ parts[p].leader \in servers \cup {0}
                 /\ parts[p].replicas \subseteq servers
      <4>1. parts[p] = ListPartition(part, p, leader[p])
        BY <2>1
      <4>2. \A m \in DOMAIN part[p].replicas : part[p].replicas[m].server \in servers
        BY <2>1 DEF ServersOf
      <4> HIDE DEF leader, parts
      <4> DEFINE reps == part[p].replicas
                 serving == {m \in DOMAIN reps : IsServing(reps[m].state)}
      <4>3. parts[p] = [id |-> p,
                        leader |-> IF leader[p] \in DOMAIN reps THEN reps[leader[p]].server ELSE 0,
                        replicas |-> {reps[m].server : m \in serving}]
        BY <4>1, Zenon DEF ListPartition
      <4>4. {reps[m].server : m \in serving} \subseteq servers
        BY <4>2
      <4>5. (IF leader[p] \in DOMAIN reps THEN reps[leader[p]].server ELSE 0) \in servers \cup {0}
        BY <4>2
      <4> HIDE DEF reps, serving
      <4> QED BY <4>3, <4>4, <4>5
    <3>7. Cardinality(DOMAIN parts) = Cardinality(DOMAIN part) /\ Cardinality(DOMAIN part) = count
      BY <2>1, <3>5 DEF count
    <3> HIDE DEF etag, parts, items, List
    <3>8. /\ List(n).servers = items /\ List(n).parts = parts /\ List(n).etag = etag /\ List(n).count = count
      BY <3>1, <3>7
    <3> QED BY <2>3, <3>2, <3>3, <3>4, <3>5, <3>6, <3>7, <3>8 DEF ValidDataServers
  <2>7. ASSUME NEW x \in newHeartbeat(configs[id[s]].etag, GetStatus(s))
        PROVE  ValidHeartbeat(x) /\ handleDataServerStatus(x, count)
    <3>1. x = [etag |-> configs[id[s]].etag, replicas |-> GetStatus(s)] /\ configs[id[s]].etag # NoETag
      BY DEF newHeartbeat
    <3>2. DOMAIN GetStatus(s) \subseteq Partitions
      BY DEF GetStatus
    <3> HIDE DEF configs
    <3>3. x.etag # NoETag /\ DOMAIN x.replicas \subseteq Partitions
      BY <3>1, <3>2
    <3> QED BY <2>3, <3>3 DEF ValidHeartbeat, handleDataServerStatus
  <2>8. \A list \in lists : ValidDataServers(list)
    <3> HIDE DEF List
    <3> QED BY <2>6, Zenon
  <2> QED BY <2>5, <2>7, <2>8, ZenonT(30)
<1> QED BY <1>1, ControlPlaneInvariant, PTL
=============================================================================
