----------------------------- MODULE Membership -----------------------------
(***************************************************************************)
(* The Raft group of one partition while the control plane moves its       *)
(* replicas: the assigner's steps for the partition, the data servers that *)
(* follow them when their configuration arrives (controller, replica,      *)
(* joining, serving, leaving), the role a serving replica has after a      *)
(* change of leadership, and the leader that brings the configuration of   *)
(* the group in line, one server at a time.                                *)
(*                                                                         *)
(*   cluster    the control plane's state, of partition 0                  *)
(*   srv[s]     of data server s:                                          *)
(*     cfg      the replicas of the partition, as configured last          *)
(*     name     its replica, 0 for none; state and ready of that replica   *)
(*     isLeader what Serving.mainLoop knows; role is what it runs          *)
(*     notice   what raft.LeaderChan holds                                 *)
(*     upd      updateRaftServers at work                                  *)
(*     failed   its last updateRaftServers met an error, or was left out   *)
(*   raft       external: the committed configuration of the group, and    *)
(*              the leader's replica, 0 for none                           *)
(*   faults     leaders lost for no reason, and failed changes             *)
(***************************************************************************)
EXTENDS Assigner, SequencesExt

CONSTANTS
    ControlId,    \* the id of the control server
    Tokens,       \* a sequence: registration tokens of the data servers
    Seated,       \* how many of them hold the first replicas
    MaxVersion,   \* bound on AssignmentsVersion
    MaxFaults

VARIABLES cluster, srv, raft, faults

vars == <<cluster, srv, raft, faults>>

Pid == 0

NoUpdate == [on |-> FALSE, old |-> NoFn, todo |-> {}, err |-> FALSE]

Configured(c) == [n \in DOMAIN c.part[Pid].replicas |->
                    [server |-> c.part[Pid].replicas[n].server, state |-> c.part[Pid].replicas[n].state]]

(* TryMakeRaftServerList: a leaving replica is no member. *)
TryMakeRaftServerList(cfg) ==
    [n \in {m \in DOMAIN cfg : cfg[m].state # "Leaving"} |-> IF cfg[n].state = "Joining" THEN "Nonvoter" ELSE "Voter"]

Cluster0 ==
    LET Add(c, ts) == FoldLeft(LAMBDA d, t : applyRegister(d, t, "Data", FALSE), c, ts)
        first == Add(applyBootstrap(NewFSM, "scout", {ControlId}, {Pid}), SubSeq(Tokens, 1, Seated))
        seated == applyInitAssignments(first, CHOOSE add \in initAssignments(first) : TRUE)
        Up == {[pid |-> Pid, name |-> n, ready |-> TRUE] : n \in DOMAIN seated.part[Pid].replicas}
    IN  Add(applyUpdateStatus(seated, Up), SubSeq(Tokens, Seated + 1, Len(Tokens)))

Servers == DataServers(Cluster0)

Stopped(cfg) == [cfg |-> cfg, name |-> 0, state |-> "Stopped", ready |-> FALSE, isLeader |-> FALSE,
                 role |-> "none", notice |-> "none", upd |-> NoUpdate, failed |-> FALSE]

(* The local replica of a configuration; getLocalReplicaConfig *)
getLocalReplicaConfig(s, cfg) == {n \in DOMAIN cfg : cfg[n].server = s}

FirstLeader == CHOOSE n \in DOMAIN Configured(Cluster0) : TRUE

(* The first replicas serve, have bootstrapped their group, and one leads. *)
Init ==
    /\ cluster = Cluster0
    /\ srv = [s \in Servers |->
                LET cfg == Configured(Cluster0) IN
                IF getLocalReplicaConfig(s, cfg) = {} THEN Stopped(cfg)
                ELSE LET n == CHOOSE m \in getLocalReplicaConfig(s, cfg) : TRUE IN
                     [Stopped(cfg) EXCEPT !.name = n, !.state = "Voter", !.ready = TRUE, !.isLeader = n = FirstLeader,
                                          !.role = IF n = FirstLeader THEN "leader" ELSE "follower"]]
    /\ raft = [conf |-> TryMakeRaftServerList(Configured(Cluster0)), leader |-> FirstLeader]
    /\ faults = 0

-----------------------------------------------------------------------------
(* Control plane *)

(* A tick of the assigner.  The load of other partitions decides whether a  *)
(* free server gets a replica of this one.                                  *)
Assign ==
    LET curr == makeState(cluster)
        Joined(st) == {AddJoining(st, s, Pid) : s \in {t \in Servers : canAddReplica(st, t, Pid)}}
        next == UNION {{st} \cup Joined(st) : st \in removeExtra(TransitionToServing(RemoveLeaving(curr)), Pid)}
    IN  /\ cluster.asgVersion < MaxVersion
        /\ \E st \in next :
             LET cmd == makeUpdateAssignments(cluster.asgVersion, curr, st) IN
             /\ ~IsEmptyUpdate(cmd)
             /\ cluster' = applyUpdateAssignments(cluster, cmd)
        /\ UNCHANGED <<srv, raft, faults>>

(* The status of a replica reaches the control plane. *)
Report(s) ==
    /\ srv[s].name \in DOMAIN cluster.part[Pid].replicas
    /\ cluster' = applyUpdateStatus(cluster, {[pid |-> Pid, name |-> srv[s].name, ready |-> srv[s].ready]})
    /\ UNCHANGED <<srv, raft, faults>>

-----------------------------------------------------------------------------
(* Raft, as the code in src/ uses it *)

Running(n) == \E s \in Servers : srv[s].name = n /\ srv[s].state \in {"Joining", "Voter"}

Voters(conf) == {n \in DOMAIN conf : conf[n] = "Voter"}

HasQuorum(conf) == 2 * Cardinality({n \in Voters(conf) : Running(n)}) > Cardinality(Voters(conf))

Notify(n, value) == [s \in Servers |-> IF n # 0 /\ srv[s].name = n THEN [srv[s] EXCEPT !.notice = value] ELSE srv[s]]

Elect(n) ==
    /\ raft.leader = 0 /\ n \in Voters(raft.conf) /\ Running(n) /\ HasQuorum(raft.conf)
    /\ raft' = [raft EXCEPT !.leader = n]
    /\ srv' = Notify(n, "leader")
    /\ UNCHANGED <<cluster, faults>>

StepDown ==
    /\ raft.leader # 0
    /\ \/ ~HasQuorum(raft.conf) /\ UNCHANGED faults
       \/ HasQuorum(raft.conf) /\ faults < MaxFaults /\ faults' = faults + 1
    /\ raft' = [raft EXCEPT !.leader = 0]
    /\ srv' = Notify(raft.leader, "follower")
    /\ UNCHANGED cluster

-----------------------------------------------------------------------------
(* Serving *)

(* updateRaftServers, up to its first call: only a leader's role goes on,   *)
(* with the difference of the configuration of the group and its own.       *)
updateRaftServers(x) ==
    LET new == TryMakeRaftServerList(x.cfg) IN
    IF x.role # "leader" THEN x
    ELSE [x EXCEPT !.failed = FALSE,
                   !.upd = [on |-> TRUE, old |-> raft.conf, err |-> FALSE,
                            todo |-> {n \in DOMAIN new : n \notin DOMAIN raft.conf \/ raft.conf[n] # new[n]}]]

(* update: the role follows what is known of the leadership. *)
update(x) == updateRaftServers([x EXCEPT !.role = IF x.isLeader THEN "leader" ELSE "follower"])

(* Mutation of LeaderChan: a new leader's role starts, but the group is     *)
(* only looked at when the configuration changes.                           *)
LeaderChanRoleOnly(s) ==
    /\ srv[s].state = "Voter" /\ srv[s].notice # "none" /\ ~srv[s].upd.on
    /\ LET next == srv[s].notice = "leader" IN
       srv' = [srv EXCEPT ![s].notice = "none", ![s].isLeader = next, ![s].role = IF next THEN "leader" ELSE "follower"]
    /\ UNCHANGED <<cluster, raft, faults>>

(* Serving.mainLoop takes a change of leadership.  The channel holds the    *)
(* last value only: a leadership lost and won again is no change.           *)
LeaderChan(s) ==
    /\ srv[s].state = "Voter" /\ srv[s].notice # "none" /\ ~srv[s].upd.on
    /\ LET next == srv[s].notice = "leader"
           x == [srv[s] EXCEPT !.notice = "none", !.isLeader = next]
       IN  srv' = [srv EXCEPT ![s] = IF next = srv[s].isLeader THEN [x EXCEPT !.failed = @ \/ next] ELSE update(x)]
    /\ UNCHANGED <<cluster, raft, faults>>

(* AddOrUpdateServer of one of the servers still to do.  It is refused when *)
(* leadership is lost, which ends the update; it is done when the changed   *)
(* group has a quorum; or it fails otherwise, and the update goes on.       *)
AddOrUpdateServer(s, n) ==
    LET suffrage == TryMakeRaftServerList(srv[s].cfg)[n]
        conf == [m \in DOMAIN raft.conf \cup {n} |-> IF m = n THEN suffrage ELSE raft.conf[m]]
    IN  /\ srv[s].upd.on /\ n \in srv[s].upd.todo
        /\ \/ /\ raft.leader # srv[s].name
              /\ srv' = [srv EXCEPT ![s].upd = NoUpdate]
              /\ UNCHANGED <<raft, faults>>
           \/ /\ raft.leader = srv[s].name /\ HasQuorum(conf)
              /\ raft' = [raft EXCEPT !.conf = conf]
              /\ srv' = [srv EXCEPT ![s].upd.todo = @ \ {n}]
              /\ UNCHANGED faults
           \/ /\ raft.leader = srv[s].name /\ faults < MaxFaults
              /\ faults' = faults + 1
              /\ srv' = [srv EXCEPT ![s].upd.todo = @ \ {n}, ![s].upd.err = TRUE]
              /\ UNCHANGED raft
        /\ UNCHANGED cluster

(* Removals come last, and not after an error. *)
RemoveServers(s) ==
    LET upd == srv[s].upd
        gone == DOMAIN upd.old \ DOMAIN TryMakeRaftServerList(srv[s].cfg)
        lost == raft.leader # srv[s].name
    IN  /\ upd.on /\ upd.todo = {}
        /\ \/ /\ upd.err \/ gone = {} \/ lost
              /\ srv' = [srv EXCEPT ![s].upd = NoUpdate, ![s].failed = @ \/ upd.err]
              /\ UNCHANGED <<raft, faults>>
           \/ /\ ~upd.err /\ ~lost
              /\ \E n \in gone :
                   LET conf == [m \in DOMAIN raft.conf \ {n} |-> raft.conf[m]] IN
                   \/ /\ HasQuorum(conf)
                      /\ raft' = [raft EXCEPT !.conf = conf]
                      /\ srv' = [srv EXCEPT ![s].upd.old = [m \in DOMAIN @ \ {n} |-> @[m]]]
                      /\ UNCHANGED faults
                   \/ /\ faults < MaxFaults /\ faults' = faults + 1
                      /\ srv' = [srv EXCEPT ![s].upd.old = [m \in DOMAIN @ \ {n} |-> @[m]], ![s].failed = TRUE]
                      /\ UNCHANGED raft
        /\ UNCHANGED cluster

-----------------------------------------------------------------------------
(* Data servers *)

(* The instance that state new starts after state old, none when the        *)
(* transition is not a valid one.                                           *)
transitionToState(x, old, new) ==
    LET valid == CASE new = "Joining" -> old = "Stopped"
                   [] new = "Voter"   -> old \in {"Stopped", "Joining"}
                   [] OTHER           -> TRUE
    IN  IF new = old THEN IF new = "Voter" THEN update(x) ELSE x
        ELSE [Stopped(x.cfg) EXCEPT !.name = x.name,
                                    !.state = IF valid THEN new ELSE "Stopped",
                                    !.ready = valid /\ new = "Voter",
                                    !.role = IF valid /\ new = "Voter" THEN "follower" ELSE "none"]

(* syncPartitions: a replica that is no longer the server's stops; the one  *)
(* it has in the new configuration starts, or takes its state there, after  *)
(* what it did before has stopped.                                          *)
syncPartitions(s, cfg) ==
    LET mine == getLocalReplicaConfig(s, cfg)
        n == CHOOSE m \in mine : TRUE
        old == IF srv[s].name = n THEN srv[s].state ELSE "Stopped"
    IN  IF mine = {} THEN Stopped(cfg)
        ELSE transitionToState([srv[s] EXCEPT !.cfg = cfg, !.name = n], old, cfg[n].state)

(* The configuration of the session arrives.  Stopping a replica ends its   *)
(* Raft instance.                                                           *)
Deliver(s) ==
    /\ srv[s].cfg # Configured(cluster) /\ ~srv[s].upd.on
    /\ srv' = [srv EXCEPT ![s] = syncPartitions(s, Configured(cluster))]
    /\ raft' = IF srv[s].name = raft.leader /\ srv'[s].state # srv[s].state THEN [raft EXCEPT !.leader = 0] ELSE raft
    /\ UNCHANGED <<cluster, faults>>

(* A joining replica is fed by the group and completes its restore. *)
Restore(s) ==
    /\ srv[s].state = "Joining" /\ ~srv[s].ready
    /\ raft.leader # 0 /\ srv[s].name \in DOMAIN raft.conf
    /\ srv' = [srv EXCEPT ![s].ready = TRUE]
    /\ UNCHANGED <<cluster, raft, faults>>

(* A leaving replica drops its Raft state and its data. *)
Cleanup(s) ==
    /\ srv[s].state = "Leaving" /\ ~srv[s].ready
    /\ srv' = [srv EXCEPT ![s].ready = TRUE]
    /\ UNCHANGED <<cluster, raft, faults>>

-----------------------------------------------------------------------------
Update(s) == \/ \E n \in srv[s].upd.todo : AddOrUpdateServer(s, n)
             \/ RemoveServers(s)

Next ==
    \/ Assign \/ StepDown
    \/ \E n \in DOMAIN raft.conf : Elect(n)
    \/ \E s \in Servers : Report(s) \/ LeaderChan(s) \/ Update(s) \/ Deliver(s) \/ Restore(s) \/ Cleanup(s)

Spec == Init /\ [][Next]_vars

Fairness ==
    /\ WF_vars(\E n \in DOMAIN raft.conf : Elect(n))
    /\ WF_vars(StepDown /\ UNCHANGED faults)
    /\ \A s \in Servers :
         WF_vars(LeaderChan(s)) /\ WF_vars(Update(s) /\ UNCHANGED faults) /\ WF_vars(Deliver(s))

FairSpec == Spec /\ Fairness
-----------------------------------------------------------------------------
(* The group does not lose its quorum while a replica of three is replaced  *)
(* (updateRaftServers): however late the servers and a leader see what the  *)
(* control plane decided, whoever leads with whichever configuration, and   *)
(* though the replica that leaves drops its Raft state without waiting for  *)
(* the group, more than half of the voters are replicas that a server runs. *)
QuorumKept == HasQuorum(raft.conf)

(* When the assignments stay, the group ends with exactly their members,    *)
(* under a leader whose role serves as the leader (updateRole), unless the  *)
(* leader's last update failed: it is not tried again after an error of a   *)
(* change, nor made when LeaderChan's value of a lost leadership has been   *)
(* replaced by that of the next, which mainLoop takes for no change.        *)
MembersFollow ==
    <>[](\/ /\ raft.conf = TryMakeRaftServerList(Configured(cluster))
            /\ \E s \in Servers : raft.leader # 0 /\ srv[s].name = raft.leader /\ srv[s].role = "leader"
         \/ \E s \in Servers : srv[s].failed /\ srv[s].role = "leader")
=============================================================================
