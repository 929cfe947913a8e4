----------------------------- MODULE ControlFSM -----------------------------
(***************************************************************************)
(* The replicated state machine of the control plane                       *)
(* (internal/control/server/storage: fsm*.go, commands.go): the registered *)
(* servers and the assignment of partition replicas to data servers.       *)
(*                                                                         *)
(* A cluster is a record c:                                                *)
(*   c.name        the name set by Bootstrap, "" before                    *)
(*   c.items[id]   the type of the registered server id                    *)
(*   c.tokens[t]   the id given to registration token t                    *)
(*   c.lastId      the last server id given out                            *)
(*   c.regVersion  Servers.RegisterVersion                                 *)
(*   c.asgVersion  Partitions.AssignmentsVersion                           *)
(*   c.part[pid]   [version, lastReplica, replicas], replicas[n] for the   *)
(*                 replica with the n-th name                              *)
(* Versions that are bumped by every change, times, tags and addresses     *)
(* carry no more information than the change itself and are left out; a    *)
(* replica's creation time is the version it was created at.               *)
(***************************************************************************)
EXTENDS Integers, FiniteSets

ServerTypes == {"Control", "Data", "Api"}

ReplicaStates == {"Joining", "NonVoter", "Voter", "Leaving"}

IsServing(state) == state \in {"Voter", "NonVoter"}

Replica(sid, state, created) == [server |-> sid, state |-> state, ready |-> FALSE, created |-> created]

NoFn == [x \in {} |-> 0]

(* Function f with value v at k *)
Put(f, k, v) == [x \in DOMAIN f \cup {k} |-> IF x = k THEN v ELSE f[x]]

NewPartition == [version |-> 0, lastReplica |-> 0, replicas |-> NoFn]

NewFSM == [name |-> "", items |-> NoFn, tokens |-> NoFn, lastId |-> 0,
           regVersion |-> 0, asgVersion |-> 0, part |-> NoFn]

DataServers(c) == {id \in DOMAIN c.items : c.items[id] = "Data"}

HasAssignments(c) == c.asgVersion > 0

OnServer(c, pid, sid) == {n \in DOMAIN c.part[pid].replicas : c.part[pid].replicas[n].server = sid}

Serving(c, pid) == {n \in DOMAIN c.part[pid].replicas : IsServing(c.part[pid].replicas[n].state)}

-----------------------------------------------------------------------------
(* Commands.  Each apply operator gives the next state, which is c when the *)
(* command is refused.                                                      *)

(* Only the first Bootstrap counts.  *)
applyBootstrap(c, name, ids, pids) ==
    IF c.name # "" THEN c
    ELSE [c EXCEPT !.name = name, !.regVersion = 1,
                   !.lastId = IF ids = {} THEN 0 ELSE CHOOSE i \in ids : \A j \in ids : j <= i,
                   !.items = [i \in ids |-> "Control"],
                   !.part = [p \in pids |-> NewPartition]]

(* Mutation of applyRegister: the token is not looked up. *)
applyRegisterAgain(c, token, type, expired) ==
    LET id == c.lastId + 1 IN
    [c EXCEPT !.lastId = id, !.regVersion = @ + 1,
              !.items = Put(@, id, type), !.tokens = Put(@, token, id)]

(* A token that was used before gets the id it was given then, or an error  *)
(* when it has expired.                                                     *)
applyRegister(c, token, type, expired) ==
    LET id == c.lastId + 1 IN
    IF token \in DOMAIN c.tokens THEN c
    ELSE [c EXCEPT !.lastId = id, !.regVersion = @ + 1,
                   !.items = Put(@, id, type), !.tokens = Put(@, token, id)]

(* RegisterResult, 0 for an error. *)
Registered(c, token, expired) ==
    IF token \in DOMAIN c.tokens THEN (IF expired THEN 0 ELSE c.tokens[token]) ELSE c.lastId + 1

(* Replicas for the servers in sids, named one after the other. *)
AddReplicas(part, sids, state, version) ==
    LET Name(s) == part.lastReplica + Cardinality({t \in sids : t <= s})
        names == {Name(s) : s \in sids}
    IN  [part EXCEPT !.lastReplica = @ + Cardinality(sids),
                     !.replicas = [n \in names \cup DOMAIN @ |->
                         IF n \in names THEN Replica(CHOOSE s \in sids : Name(s) = n, state, version) ELSE @[n]]]

(* add: a set of [pid, sid] *)
applyInitAssignments(c, add) ==
    LET sids(p) == {x.sid : x \in {y \in add : y.pid = p}} IN
    IF \/ HasAssignments(c)
       \/ \E x \in add : x.pid \notin DOMAIN c.part \/ x.sid \notin DataServers(c)
       \/ {x.pid : x \in add} # DOMAIN c.part
    THEN c
    ELSE [c EXCEPT !.asgVersion = 1,
                   !.part = [p \in DOMAIN @ |->
                       [AddReplicas(@[p], sids(p), "Voter", 1) EXCEPT !.version = 1]]]

(* isValidReplicaTransition, for a replica that exists *)
ValidTransition(old, new) ==
    \/ new = "Voter"    /\ old \in {"Joining", "NonVoter"}
    \/ new = "NonVoter" /\ old \in {"Joining", "Voter"}
    \/ new = "Leaving"

(* validateUpdateAssignments: every part of the command is checked against  *)
(* the state before all of them.                                            *)
ValidUpdateAssignments(c, cmd) ==
    /\ cmd.add \cup cmd.update \cup cmd.remove # {}
    /\ \A x \in cmd.add : /\ x.pid \in DOMAIN c.part /\ x.sid \in DataServers(c)
                          /\ OnServer(c, x.pid, x.sid) = {}
    /\ \A x \in cmd.update :
          /\ x.pid \in DOMAIN c.part /\ x.name \in DOMAIN c.part[x.pid].replicas
          /\ ValidTransition(c.part[x.pid].replicas[x.name].state, x.state)
          /\ IsServing(x.state) \/ Serving(c, x.pid) # {x.name}
    /\ \A x \in cmd.remove :
          /\ x.pid \in DOMAIN c.part /\ x.name \in DOMAIN c.part[x.pid].replicas
          /\ c.part[x.pid].replicas[x.name].state = "Leaving"

(* Mutation of applyUpdateAssignments: additions are applied without the    *)
(* checks that come first.                                                  *)
applyUpdateBlind(c, cmd) ==
    [c EXCEPT !.asgVersion = @ + 1,
              !.part = [p \in DOMAIN @ |->
                  AddReplicas(@[p], {x.sid : x \in {y \in cmd.add : y.pid = p}}, "Joining", c.asgVersion + 1)]]

(* The part of a command for partition p: replicas to add, with version v,  *)
(* to change and to remove.  Additions come first, then updates and removals*)
updatePartition(q, p, cmd, v) ==
    LET sids == {x.sid : x \in {y \in cmd.add : y.pid = p}}
        Updates(n) == {x \in cmd.update : x.pid = p /\ x.name = n}
        gone == {x.name : x \in {y \in cmd.remove : y.pid = p}}
        added == AddReplicas(q, sids, "Joining", v)
    IN  [added EXCEPT !.version = @ + 1,
                      !.replicas = [n \in DOMAIN @ \ gone |->
                          IF Updates(n) = {} THEN @[n]
                          ELSE [@[n] EXCEPT !.state = (CHOOSE x \in Updates(n) : TRUE).state]]]

(* cmd: [ifMatch, add, update, remove] of sets of [pid, sid], [pid, name,   *)
(* state] and [pid, name].                                                  *)
applyUpdateAssignments(c, cmd) ==
    LET Changed(p) == \E x \in cmd.add \cup cmd.update \cup cmd.remove : x.pid = p
    IN  IF \/ cmd.ifMatch # 0 /\ cmd.ifMatch # c.asgVersion
           \/ ~HasAssignments(c)
           \/ ~ValidUpdateAssignments(c, cmd)
        THEN c
        ELSE [c EXCEPT !.asgVersion = @ + 1,
                       !.part = [p \in DOMAIN @ |->
                           IF Changed(p) THEN updatePartition(@[p], p, cmd, c.asgVersion + 1) ELSE @[p]]]

updateReady(q, p, status) ==
    LET Of(n) == {x \in status : x.pid = p /\ x.name = n} IN
    [q EXCEPT !.replicas = [n \in DOMAIN @ |->
        IF Of(n) = {} THEN @[n] ELSE [@[n] EXCEPT !.ready = (CHOOSE x \in Of(n) : TRUE).ready]]]

(* Ready of the replicas the session tracker reports, a set of [pid, name,  *)
(* ready]; replicas that are gone are skipped.                              *)
applyUpdateStatus(c, status) ==
    [c EXCEPT !.part = [p \in DOMAIN @ |-> updateReady(@[p], p, status)]]

=============================================================================
