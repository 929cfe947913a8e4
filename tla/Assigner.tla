------------------------------ MODULE Assigner ------------------------------
(***************************************************************************)
(* The partition assigner of the control leader                            *)
(* (internal/control/server/leader/partitions): from the replicas it sees  *)
(* it computes the next ones and the commands that lead there.             *)
(*                                                                         *)
(* A State is a record st:                                                 *)
(*   st.servers                      the data servers                      *)
(*   st.joining, serving, leaving    sets of <<sid, pid>>                  *)
(*   st.replica[<<sid, pid>>]        [name, created, ready] of the replicas*)
(*                                   that were there at the start          *)
(* Where the code leaves the order open (map iteration, an unstable sort,  *)
(* a shuffle) the operators give the set of the possible next states.      *)
(***************************************************************************)
EXTENDS ControlFSM, FiniteSetsExt

CONSTANTS
    ReplicationFactor,
    MaxJoining,
    MaxJoiningForServer,
    MaxJoiningForPartition

ASSUME AssignerConfig ==
    {ReplicationFactor, MaxJoining, MaxJoiningForServer, MaxJoiningForPartition} \subseteq Nat \ {0}

OfServer(pairs, sid) == {x \in pairs : x[1] = sid}

OfPartition(pairs, pid) == {x \in pairs : x[2] = pid}

(* Leaving replicas count as already removed. *)
TotalCount(st, sid) == Cardinality(OfServer(st.joining, sid)) + Cardinality(OfServer(st.serving, sid))

HasReplica(st, sid, pid) == <<sid, pid>> \in DOMAIN st.replica \cup st.joining \cup st.serving \cup st.leaving

MaxImbalance(st) ==
    IF st.servers = {} THEN 0
    ELSE LET counts == {TotalCount(st, s) : s \in st.servers} IN Max(counts) - Min(counts)

makeState(c) ==
    LET In(P(_)) == UNION {{<<c.part[p].replicas[n].server, p>> :
                              n \in {m \in DOMAIN c.part[p].replicas : P(c.part[p].replicas[m].state)}} :
                           p \in DOMAIN c.part}
        All == In(LAMBDA s : TRUE)
        Info(x) == LET n == CHOOSE m \in OnServer(c, x[2], x[1]) : TRUE
                       r == c.part[x[2]].replicas[n]
                   IN  [name |-> n, created |-> r.created, ready |-> r.ready]
    IN  [servers |-> DataServers(c),
         joining |-> In(LAMBDA s : s = "Joining"),
         serving |-> In(IsServing),
         leaving |-> In(LAMBDA s : s = "Leaving"),
         replica |-> [x \in All |-> Info(x)]]

AddJoining(st, sid, pid) == [st EXCEPT !.joining = @ \cup {<<sid, pid>>}]

TransitionJoiningToServing(st, xs) == [st EXCEPT !.joining = @ \ xs, !.serving = @ \cup xs]

TransitionServingToLeaving(st, xs) == [st EXCEPT !.serving = @ \ xs, !.leaving = @ \cup xs]

canAddReplica(st, sid, pid) ==
    /\ Cardinality(st.joining) < MaxJoining
    /\ Cardinality(OfServer(st.joining, sid)) < MaxJoiningForServer
    /\ Cardinality(OfPartition(st.joining, pid)) < MaxJoiningForPartition
    /\ ~HasReplica(st, sid, pid)

(* Mutation of RemoveLeaving: only replicas that are not ready go. *)
RemoveLeavingInverted(st) == [st EXCEPT !.leaving = {x \in @ : st.replica[x].ready}]

(* removeLeaving and transitionToServing *)
RemoveLeaving(st) == [st EXCEPT !.leaving = {x \in @ : ~st.replica[x].ready}]

(* Mutation of TransitionToServing: a replica is promoted before it is ready. *)
TransitionEarly(st) == TransitionJoiningToServing(st, st.joining)

TransitionToServing(st) == TransitionJoiningToServing(st, {x \in st.joining : st.replica[x].ready})

(* What the first k elements of S can be after a sort by the preorder le. *)
Firsts(k, S, le(_, _)) ==
    {A \in kSubset(k, S) : \A x \in A, y \in S \ A : le(x, y)}

(* An added replica changes canAddReplica for the next candidate by its    *)
(* count only: the loop takes the first candidates that pass.              *)
addMissing(st, pid) ==
    LET joining == Cardinality(OfPartition(st.joining, pid))
        total == joining + Cardinality(OfPartition(st.serving, pid))
        count == Min({ReplicationFactor - total, MaxJoiningForPartition - joining})
        candidates == {s \in st.servers : canAddReplica(st, s, pid)}
        added == Min({count, MaxJoining - Cardinality(st.joining), Cardinality(candidates)})
        Joins(s) == Cardinality(OfServer(st.joining, s))
        le(s, t) == \/ TotalCount(st, s) < TotalCount(st, t)
                    \/ TotalCount(st, s) = TotalCount(st, t) /\ Joins(s) <= Joins(t)
    IN  IF count <= 0 \/ candidates = {} THEN {st}
        ELSE {[st EXCEPT !.joining = @ \cup (A \X {pid})] : A \in Firsts(added, candidates, le)}

(* Mutation of removeExtra: one replica too many. *)
removeExtraOne(st, pid) ==
    LET serving == OfPartition(st.serving, pid)
        extra == Cardinality(serving) - ReplicationFactor
    IN  IF extra < 0 THEN {st}
        ELSE {TransitionServingToLeaving(st, gone) : gone \in kSubset(extra + 1, serving)}

removeExtra(st, pid) ==
    LET serving == OfPartition(st.serving, pid)
        count == Cardinality(serving) - ReplicationFactor
        le(x, y) == \/ TotalCount(st, x[1]) > TotalCount(st, y[1])
                    \/ /\ TotalCount(st, x[1]) = TotalCount(st, y[1])
                       /\ st.replica[x].created <= st.replica[y].created
    IN  IF count <= 0 THEN {st}
        ELSE {TransitionServingToLeaving(st, gone) : gone \in Firsts(count, serving, le)}

(* One round of rebalance: the fullest server that can give a replica to a  *)
(* server with at least two fewer, to the emptiest such server.  {} at the  *)
(* end.                                                                     *)
rebalanceOnce(st) ==
    LET Movable(s, t) == {p \in {x[2] : x \in OfServer(st.serving, s)} : canAddReplica(st, t, p)}
        Dests(s) == {t \in st.servers : TotalCount(st, s) - TotalCount(st, t) > 1 /\ Movable(s, t) # {}}
        Fullest == {s \in st.servers : /\ Dests(s) # {}
                                       /\ \A u \in st.servers : TotalCount(st, u) > TotalCount(st, s) => Dests(u) = {}}
        Emptiest(s) == {t \in Dests(s) : \A u \in Dests(s) : TotalCount(st, t) <= TotalCount(st, u)}
    IN  UNION {UNION {{AddJoining(st, t, p) : p \in Movable(s, t)} :
                      t \in Emptiest(s)} : s \in Fullest}

(* Rebalancing ends after at most MaxJoining rounds: each adds one. *)
rebalance(st) ==
    LET Round(i, S) == UNION {IF rebalanceOnce(x) = {} THEN {x} ELSE rebalanceOnce(x) : x \in S}
    IN  FoldSet(Round, {st}, 1 .. MaxJoining)

(* Next; the partitions are taken in the order of their ids. *)
NextStates(curr, pids) ==
    LET Each(Op(_, _), S) == MapThenFoldSet(LAMBDA p, T : UNION {Op(x, p) : x \in T}, S, LAMBDA p : p, Max, pids)
        balanced == Each(removeExtra, Each(addMissing, {TransitionToServing(RemoveLeaving(curr))}))
    IN  UNION {IF MaxImbalance(x) > 1 THEN rebalance(x) ELSE {x} : x \in balanced}

(* The command that leads from curr to next. *)
makeUpdateAssignments(version, curr, next) ==
    LET Name(x) == curr.replica[x].name IN
    [ifMatch |-> version,
     add     |-> {[pid |-> x[2], sid |-> x[1]] : x \in next.joining \ curr.joining},
     update  |-> {[pid |-> x[2], name |-> Name(x), state |-> "Voter"] : x \in next.serving \ curr.serving}
                 \cup {[pid |-> x[2], name |-> Name(x), state |-> "Leaving"] : x \in next.leaving \ curr.leaving},
     remove  |-> {[pid |-> x[2], name |-> Name(x)] : x \in curr.leaving \ next.leaving}]

IsEmptyUpdate(cmd) == cmd.add \cup cmd.update \cup cmd.remove = {}

updateAssignments(c) ==
    LET curr == makeState(c) IN
    {makeUpdateAssignments(c.asgVersion, curr, next) : next \in NextStates(curr, DOMAIN c.part)}

(* initAssignments deals the replicas out like cards, to the servers in any *)
(* order.                                                                   *)
initAssignments(c) ==
    LET n == Cardinality(DataServers(c))
        k == Min({ReplicationFactor, n})
        Rank(p) == Cardinality({q \in DOMAIN c.part : q < p})
        Deal(order) == {[pid |-> p, sid |-> order[((Rank(p) * k + j) % n) + 1]] : p \in DOMAIN c.part, j \in 1 .. k}
    IN  {Deal(order) : order \in Bijection(1 .. n, DataServers(c))}

=============================================================================
