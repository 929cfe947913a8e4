--------------------------- MODULE TwoPhaseCommit ---------------------------
(***************************************************************************)
(* Distributed transactions: the API server that coordinates them          *)
(* (internal/api/server/txn/processor_2pc.go, client_retry.go), the        *)
(* transaction managers of the partitions (TxnManager.tla, reached through *)
(* Service and writer), and the watchdog of the principal partition        *)
(* (internal/data/server/txn/watchdog_2pc.go), over calls that can fail    *)
(* before or after they were executed.                                     *)
(*                                                                         *)
(* Each request is a batch of its own, so a partition's state is its       *)
(* manager's; a partition survives a change of leader, the watchdog of the *)
(* principal's leader does not.  Read-only work is left to Partition.tla,  *)
(* and with it maxTimestamp.                                               *)
(***************************************************************************)
EXTENDS TxnManager

CONSTANTS Txns,
          Pids,         \* the partitions
          Body,         \* Body[t][p]: the actions of t on p; p takes part if there are any
          Principal,    \* Principal[t]
          Lossy,        \* operations whose call may fail, executed or not
          Late,         \* operations that can be executed after their call failed
          Crashes,      \* whether the API server can crash
          MaxAttempts,  \* RetryPolicy.MaxAttempts of the API server
          Clocks,       \* what the clocks of the partitions may be at first
          MaxLeaders    \* bound: changes of leader of the principals

Participants == [t \in Txns |-> {p \in Pids : Body[t][p] # {}}]

Others(t) == Participants[t] \ {Principal[t]}

Operations == {"Prepare", "StoreDecision", "Commit", "Abort"}

ASSUME TwoPhaseAssumption ==
    /\ \A t \in Txns : Principal[t] \in Participants[t] /\ Others(t) # {}
    /\ Lossy \subseteq Operations /\ Late \subseteq Operations
    /\ Crashes \in BOOLEAN /\ Clocks \subseteq [Pids -> Nat]
    /\ MaxAttempts \in Nat \ {0} /\ MaxLeaders \in Nat

VARIABLES m,        \* m[p]: the manager of partition p
          clock,    \* clock[p]: the HLC of its leader
          pc,       \* pc[t]: where processor2PC.Process stands
          call,     \* call[t][p]: the answer to the call made of p, or Waiting
          tries,    \* tries[t][p]: attempts of clientRetrier.Prepare
          cts,      \* cts[t]: the commit timestamp of the decision
          told,     \* told[t]: what the client gets when Process returns
          net,      \* requests on their way
          dog,      \* the watchdogs
          leaders   \* changes of leader so far

api == <<pc, call, tries, cts, told>>
vars == <<m, clock, api, net, dog, leaders>>

Waiting == Status("waiting", 0)

Max2(a, b) == IF a < b THEN b ELSE a

-----------------------------------------------------------------------------
(* Service.Prepare, Commit, Abort and StoreDecision, writer.prepareBatch    *)
(* and Manager.ApplyBatch for one command.  A timestamp that is not stored  *)
(* anywhere does not advance the clock.                                     *)
Command(t, op, p, ts, release) ==
    [op |-> op, id |-> t, txn |-> Body[t][p], principal |-> Principal[t],
     pids |-> IF p = Principal[t] THEN Participants[t] ELSE {},
     ts |-> Max2(clock[p], ts) + 1, cts |-> ts, release |-> release]

ApplyOne(p, c) ==
    LET r == Apply(m[p], p, c) IN [r EXCEPT !.m = FinishBatch(r.m, r.writes, r.done, r.m.maxTs)]

(* Mutation of Execute: the commit timestamp is not merged into the clock. *)
ExecuteUnmerged(p, c) ==
    LET r == ApplyOne(p, c) IN
    /\ m' = [m EXCEPT ![p] = r.m]
    /\ clock' = [clock EXCEPT ![p] = IF r.m = m[p] \/ c.op = "Commit" THEN @ ELSE c.ts]

Execute(p, c) ==
    LET r == ApplyOne(p, c) IN
    /\ m' = [m EXCEPT ![p] = r.m]
    /\ clock' = [clock EXCEPT ![p] = IF r.m = m[p] \/ c.op = "Commit" THEN Max2(@, c.cts) ELSE c.ts]

(* What the caller gets back. *)
Answer(r) == IF r.err = "none" THEN r.status ELSE Status(r.err, 0)

-----------------------------------------------------------------------------
(* The coordinator: one Process call for each transaction. *)

Request(t, op, p) == [txn |-> t, op |-> op, pid |-> p,
                      cts |-> IF op \in {"StoreDecision", "Commit"} THEN cts'[t] ELSE 0]

(* The operation that the calls of a phase make. *)
PhaseOp == [prepare1 |-> "Prepare", prepare |-> "Prepare", store |-> "StoreDecision",
            commit |-> "Commit", commit1 |-> "Commit", abort |-> "Abort", abort1 |-> "Abort"]

Running(t) == pc[t] \in DOMAIN PhaseOp

(* Enter a phase by calling the participants in P. *)
Enter(t, phase, P) ==
    /\ pc' = [pc EXCEPT ![t] = phase]
    /\ call' = [call EXCEPT ![t] = [p \in Participants[t] |-> IF p \in P THEN Waiting ELSE NoStatus]]
    /\ net' = net \cup {Request(t, PhaseOp[phase], p) : p \in P}

Exit(t, to) ==
    /\ pc' = [pc EXCEPT ![t] = to]
    /\ call' = [call EXCEPT ![t] = [p \in Participants[t] |-> NoStatus]]
    /\ net' = net

Tell(t, what) == told' = [told EXCEPT ![t] = what]

Finish(t, what) == Exit(t, "returned") /\ Tell(t, what) /\ UNCHANGED cts

Asked(t) == {p \in Participants[t] : call[t][p] # NoStatus}

Failed(t) == {p \in Asked(t) : call[t][p].state \notin States}

(* clientRetrier repeats a Prepare that met a lock. *)
MustRetry(t, p) ==
    /\ pc[t] \in {"prepare1", "prepare"}
    /\ call[t][p].state = "Failed" /\ call[t][p].code = "LockFailed"
    /\ tries[t][p] < MaxAttempts

Answered(t) == \A p \in Participants[t] : call[t][p] # Waiting /\ ~MustRetry(t, p)

(* Mutation of Abort: the principal is asked with the others. *)
AbortAtOnce(t, what) == Enter(t, "abort", Participants[t]) /\ Tell(t, what)

(* Mutation of Abort: the principal is forgotten if no other is to abort. *)
AbortForgetsPrincipal(t, what) ==
    LET P == {p \in Others(t) : ~IsFinal(call[t][p].state)} IN
    /\ IF P # {} THEN Enter(t, "abort", P) ELSE Exit(t, "returned")
    /\ Tell(t, what)

(* abort: participants whose answer was final are left out, the others are  *)
(* asked, whatever they answered to Prepare; the principal comes last.      *)
Abort(t, what) ==
    LET P == {p \in Others(t) : ~IsFinal(call[t][p].state)} IN
    /\ IF P # {} THEN Enter(t, "abort", P) ELSE Enter(t, "abort1", {Principal[t]})
    /\ Tell(t, what)

Begin(t) ==
    /\ pc[t] = "idle"
    /\ UNCHANGED <<m, clock, tries, cts, told, dog, leaders>>
    /\ Enter(t, "prepare1", {Principal[t]})

Retry(t, p) ==
    /\ MustRetry(t, p)
    /\ tries' = [tries EXCEPT ![t] = [@ EXCEPT ![p] = @ + 1]]
    /\ call' = [call EXCEPT ![t] = [@ EXCEPT ![p] = Waiting]]
    /\ UNCHANGED <<m, clock, pc, cts, told, dog, leaders>>
    /\ net' = net \cup {Request(t, "Prepare", p)}

(* prepare: the principal was asked first; nobody is asked to abort if it   *)
(* failed.                                                                  *)
PrincipalPrepared(t) ==
    LET s == call[t][Principal[t]].state IN
    /\ pc[t] = "prepare1" /\ Answered(t)
    /\ \/ s \notin States /\ Finish(t, "error")
       \/ s \in States \ {"Prepared"} /\ Finish(t, "failure")
       \/ /\ s = "Prepared"
          /\ cts' = [cts EXCEPT ![t] = call[t][Principal[t]].ts]
          /\ Enter(t, "prepare", Others(t)) /\ UNCHANGED told
    /\ UNCHANGED <<m, clock, tries, dog, leaders>>

(* The rest of prepare, and decide.  cts collects the greatest timestamp.   *)
OthersPrepared(t) ==
    /\ pc[t] = "prepare" /\ Answered(t)
    /\ \/ Failed(t) # {} /\ UNCHANGED cts /\ Abort(t, "error")
       \/ /\ Failed(t) = {} /\ \E p \in Others(t) : call[t][p].state # "Prepared"
          /\ UNCHANGED cts
          /\ Abort(t, "failure")
       \/ /\ \A p \in Others(t) : call[t][p].state = "Prepared"
          /\ \E x \in {cts[t]} \cup {call[t][p].ts : p \in Others(t)} :
                /\ cts[t] <= x /\ \A p \in Others(t) : call[t][p].ts <= x
                /\ cts' = [cts EXCEPT ![t] = x]
          /\ Enter(t, "store", {Principal[t]}) /\ UNCHANGED told
    /\ UNCHANGED <<m, clock, tries, dog, leaders>>

(* Mutation of Stored: the principal is asked to commit with the others. *)
StoredCommitsAtOnce(t) ==
    LET s == call[t][Principal[t]].state IN
    /\ pc[t] = "store" /\ Answered(t)
    /\ \/ s \notin States /\ UNCHANGED cts /\ Abort(t, "error")
       \/ s \in States \ {"Decided"} /\ Finish(t, "error")
       \/ s = "Decided" /\ UNCHANGED <<cts, told>> /\ Enter(t, "commit", Participants[t])
    /\ UNCHANGED <<m, clock, tries, dog, leaders>>

(* StoreDecision failed, found the transaction timed out, or decided.       *)
Stored(t) ==
    LET s == call[t][Principal[t]].state IN
    /\ pc[t] = "store" /\ Answered(t)
    /\ \/ s \notin States /\ UNCHANGED cts /\ Abort(t, "error")
       \/ s \in States \ {"Decided"} /\ Finish(t, "error")
       \/ s = "Decided" /\ UNCHANGED <<cts, told>> /\ Enter(t, "commit", Others(t))
    /\ UNCHANGED <<m, clock, tries, dog, leaders>>

(* Mutation of OthersCommitted: failed participants are not noticed. *)
OthersCommittedUnchecked(t) ==
    /\ pc[t] = "commit" /\ Answered(t)
    /\ UNCHANGED <<cts, told>>
    /\ Enter(t, "commit1", {Principal[t]})
    /\ UNCHANGED <<m, clock, tries, dog, leaders>>

(* commit: the principal is asked last, and only if the others committed.   *)
OthersCommitted(t) ==
    /\ pc[t] = "commit" /\ Answered(t)
    /\ \/ (\E p \in Others(t) : call[t][p].state # "Committed") /\ Finish(t, "error")
       \/ /\ \A p \in Others(t) : call[t][p].state = "Committed"
          /\ UNCHANGED <<cts, told>>
          /\ Enter(t, "commit1", {Principal[t]})
    /\ UNCHANGED <<m, clock, tries, dog, leaders>>

PrincipalCommitted(t) ==
    /\ pc[t] = "commit1" /\ Answered(t)
    /\ Finish(t, IF call[t][Principal[t]].state = "Committed" THEN "success" ELSE "error")
    /\ UNCHANGED <<m, clock, tries, dog, leaders>>

(* abort: a call that failed, other than with NotFound, sends two results,  *)
(* so that the loop may end before every call has; the principal is asked   *)
(* only if none failed.                                                     *)
AbortFailed(t) == Failed(t) \ {p \in Asked(t) : call[t][p] = Waiting \/ call[t][p].state = "NotFound"}

AbortSucceeded(t) == {p \in Asked(t) : call[t][p] # Waiting} \ AbortFailed(t)

OthersAborted(t) ==
    /\ pc[t] = "abort"
    /\ \/ /\ AbortFailed(t) # {}
          /\ 2 * Cardinality(AbortFailed(t)) + Cardinality(AbortSucceeded(t)) >= Cardinality(Asked(t))
          /\ Exit(t, "returned")
       \/ AbortSucceeded(t) = Asked(t) /\ Enter(t, "abort1", {Principal[t]})
    /\ UNCHANGED <<m, clock, tries, cts, told, dog, leaders>>

(* The principal's failure sends two results as well, to a channel that     *)
(* holds one and that nobody reads yet: abort never returns.                *)
PrincipalAborted(t) ==
    /\ pc[t] = "abort1" /\ Answered(t)
    /\ Exit(t, IF AbortFailed(t) # {} THEN "hung" ELSE "returned")
    /\ UNCHANGED <<m, clock, tries, cts, told, dog, leaders>>

(* The API server stops.  *)
Crash(t) ==
    /\ Crashes /\ Running(t)
    /\ pc' = [pc EXCEPT ![t] = "crashed"]
    /\ call' = [call EXCEPT ![t] = [p \in Participants[t] |-> NoStatus]]
    /\ net' = {r \in net : r.txn # t \/ r.op \in Late}
    /\ UNCHANGED <<m, clock, tries, cts, told, dog, leaders>>

Coordinate(t) ==
    \/ Begin(t) \/ PrincipalPrepared(t) \/ OthersPrepared(t) \/ Stored(t)
    \/ OthersCommitted(t) \/ PrincipalCommitted(t) \/ OthersAborted(t) \/ PrincipalAborted(t)
    \/ \E p \in Participants[t] : Retry(t, p)

-----------------------------------------------------------------------------
(* Calls.  The rpc layer repeats a call; it fails when the deadline passes, *)
(* when the connection breaks, or when the partition loses its leader.      *)

Awaits(t, op, p) == Running(t) /\ PhaseOp[pc[t]] = op /\ call[t][p] = Waiting

(* watchdog2PC.UpdateStatus, called by the Service for every status.        *)
NoJob == [phase |-> "none", left |-> {}, decision |-> 0]

NoDog == [all |-> "none", queue |-> {}, updates |-> {}, job |-> NoJob]

Update(t, p, c, r) ==
    IF p # Principal[t] \/ r.err # "none" THEN dog
    ELSE [dog EXCEPT ![t].updates = @ \cup
            {[state |-> r.status.state, pids |-> IF c.op = "Prepare" THEN c.pids ELSE {},
              decision |-> IF c.op = "StoreDecision" THEN c.cts ELSE 0]}]

(* A request is executed, and answered unless the answer is lost. *)
Deliver(r) ==
    LET c == Command(r.txn, r.op, r.pid, r.cts, FALSE) IN
    /\ r \in net
    /\ Execute(r.pid, c)
    /\ net' = net \ {r}
    /\ dog' = Update(r.txn, r.pid, c, ApplyOne(r.pid, c))
    /\ \/ /\ Awaits(r.txn, r.op, r.pid)
          /\ call' = [call EXCEPT ![r.txn] = [@ EXCEPT ![r.pid] = Answer(ApplyOne(r.pid, c))]]
       \/ (r.op \in Lossy \/ ~Awaits(r.txn, r.op, r.pid)) /\ UNCHANGED call
    /\ UNCHANGED <<pc, tries, cts, told, leaders>>

Resend(t, p) ==
    /\ Running(t) /\ PhaseOp[pc[t]] \in Lossy /\ call[t][p] = Waiting
    /\ UNCHANGED <<m, clock, api, dog, leaders>>
    /\ Request(t, PhaseOp[pc[t]], p) \notin net
    /\ net' = net \cup {Request(t, PhaseOp[pc[t]], p)}

CallFails(t, p) ==
    /\ Running(t) /\ PhaseOp[pc[t]] \in Lossy /\ call[t][p] = Waiting
    /\ call' = [call EXCEPT ![t] = [@ EXCEPT ![p] = Status("error", 0)]]
    /\ UNCHANGED <<m, clock, pc, tries, cts, told, dog, leaders>>
    /\ net' = IF PhaseOp[pc[t]] \in Late THEN net ELSE net \ {Request(t, PhaseOp[pc[t]], p)}

-----------------------------------------------------------------------------
(* The watchdog of the principal partition's leader.                        *)
(*   all      the state it knows of, "none" if the map has no entry         *)
(*   queue    the prepared and decided queues (order only delays an entry)  *)
(*   updates  calls of UpdateStatus that mainLoop has not received yet      *)
(*   job      the goroutine running abort or commit                         *)

(* mainLoop receives an update: only transactions in the map are followed.  *)
TakeUpdate(t) ==
    \E u \in dog[t].updates :
        LET d == [dog[t] EXCEPT !.updates = @ \ {u}] IN
        /\ dog' = [dog EXCEPT ![t] =
              CASE d.all = "none" -> d
                [] d.all # "none" /\ u.state \in {"Prepared", "Decided"} ->
                      [d EXCEPT !.all = u.state, !.queue = @ \cup {u}]
                [] d.all # "none" /\ u.state \in {"Committed", "Aborted"} -> [d EXCEPT !.all = "none"]
                [] OTHER -> d]
        /\ UNCHANGED <<m, clock, api, net, leaders>>

(* checkTimedout: an entry is taken off its queue and, if the map still has *)
(* it in the state the queue is for, its job is started.                    *)
Expire(t) ==
    \E q \in dog[t].queue :
        LET d == [dog[t] EXCEPT !.queue = @ \ {q}]
            expected == IF q.state = "Decided" THEN "Decided" ELSE "Prepared"
        IN  /\ dog' = [dog EXCEPT ![t] =
                  IF d.all # expected THEN d
                  ELSE [d EXCEPT !.all = "none",
                          !.job = [phase |-> IF q.state = "Decided" THEN "commit" ELSE "mark",
                                   left |-> q.pids \ {Principal[t]}, decision |-> q.decision]]]
            /\ UNCHANGED <<m, clock, api, net, leaders>>

DogDone(t) == dog' = [dog EXCEPT ![t].job = NoJob]

DogLeft(t, phase, P) == dog' = [dog EXCEPT ![t].job.phase = phase, ![t].job.left = P]

(* abort: mark the transaction, and stop if the decision was faster. *)
DogMark(t) ==
    LET c == Command(t, "MarkTimedout", Principal[t], 0, FALSE) IN
    /\ dog[t].job.phase = "mark"
    /\ Execute(Principal[t], c)
    /\ IF ApplyOne(Principal[t], c).err = "none" THEN DogLeft(t, "abort", dog[t].job.left) ELSE DogDone(t)
    /\ UNCHANGED <<api, net, leaders>>

(* abort and commit call the participants until they have done it.          *)
DogCall(t, p) ==
    LET op == IF dog[t].job.phase = "abort" THEN "Abort" ELSE "Commit"
        c  == Command(t, op, p, dog[t].job.decision, FALSE)
        a  == Answer(ApplyOne(p, c)).state
    IN  /\ dog[t].job.phase \in {"abort", "commit"} /\ p \in dog[t].job.left
        /\ Execute(p, c)
        /\ \/ /\ a = "NotFound" \/ (op = "Abort" /\ IsFinal(a)) \/ (op = "Commit" /\ a = "Committed")
              /\ DogLeft(t, dog[t].job.phase, dog[t].job.left \ {p})
           \/ op \in Lossy /\ UNCHANGED dog
        /\ UNCHANGED <<api, net, leaders>>

(* abort: lastly, release the principal's locks. *)
DogRelease(t) ==
    /\ dog[t].job.phase = "abort" /\ dog[t].job.left = {}
    /\ Execute(Principal[t], Command(t, "MarkTimedout", Principal[t], 0, TRUE))
    /\ DogDone(t)
    /\ UNCHANGED <<api, net, leaders>>

(* commit: lastly, commit the principal. *)
DogCommit(t) ==
    LET p == Principal[t]
        c == Command(t, "Commit", p, dog[t].job.decision, FALSE)
        a == Answer(ApplyOne(p, c)).state
    IN  /\ dog[t].job.phase = "commit" /\ dog[t].job.left = {}
        /\ Execute(p, c)
        /\ a \in {"Committed", "NotFound"}
        /\ dog' = [Update(t, p, c, ApplyOne(p, c)) EXCEPT ![t].job = NoJob]
        /\ UNCHANGED <<api, net, leaders>>

(* A principal partition gets a new leader, whose watchdog loads what is    *)
(* running (loadRunning); the old one's goroutines are cancelled.  Its      *)
(* clock goes on from the old one's: Partition.tla is about when it is not. *)
ChangeLeader(p) ==
    /\ leaders < MaxLeaders
    /\ leaders' = leaders + 1
    /\ dog' = [t \in Txns |->
                  IF Principal[t] # p THEN dog[t]
                  ELSE IF IsRunning(m[p], t)
                  THEN [NoDog EXCEPT !.all = m[p].status[t].state, !.queue = {getRunning(m[p], t)}]
                  ELSE NoDog]
    /\ UNCHANGED <<m, clock, api, net>>

-----------------------------------------------------------------------------
Init ==
    /\ m = [p \in Pids |-> NewManager(Txns)]
    /\ clock \in Clocks
    /\ pc = [t \in Txns |-> "idle"]
    /\ call = [t \in Txns |-> [p \in Participants[t] |-> NoStatus]]
    /\ tries = [t \in Txns |-> [p \in Participants[t] |-> 1]]
    /\ cts = [t \in Txns |-> 0]
    /\ told = [t \in Txns |-> "nothing"]
    /\ net = {}
    /\ dog = [t \in Txns |-> NoDog]
    /\ leaders = 0

Watch(t) ==
    \/ TakeUpdate(t) \/ Expire(t) \/ DogMark(t) \/ DogRelease(t) \/ DogCommit(t)
    \/ \E p \in Participants[t] : DogCall(t, p)

Next ==
    \/ \E t \in Txns : Coordinate(t) \/ Crash(t) \/ Watch(t)
    \/ \E t \in Txns : \E p \in Participants[t] : Resend(t, p) \/ CallFails(t, p)
    \/ \E r \in net : Deliver(r)
    \/ \E p \in Pids : ChangeLeader(p)

Spec == Init /\ [][Next]_vars

(* Processes, the watchdog and the network keep working. *)
Fairness ==
    /\ \A t \in Txns : WF_vars(Coordinate(t)) /\ WF_vars(Watch(t))
    /\ WF_vars(\E r \in net : Deliver(r))

FairSpec == Spec /\ Fairness

-----------------------------------------------------------------------------
State(t, p) == m[p].status[t].state

Locked(t, p) == ~m[p].prepared[t].released

TypeOK ==
    /\ \A t \in Txns : \A p \in Participants[t] :
          State(t, p) \in States /\ m[p].prepared[t].locks \subseteq BuildLocks(Body[t][p])
    /\ \A t \in Txns : /\ told[t] \in {"nothing", "success", "failure", "error"}
                        /\ dog[t].all \in {"none", "Prepared", "Decided", "Timedout"}
                        /\ dog[t].job.left \subseteq Others(t)
    /\ \A r \in net : r.txn \in Txns /\ r.op \in Operations /\ r.pid \in Participants[r.txn]

AbstractState ==
    [t \in Txns |-> [p \in Participants[t] |->
        CASE State(t, p) = "none"                    -> "working"
          [] State(t, p) \in {"Prepared", "Decided"} -> "prepared"
          [] State(t, p) = "Committed"               -> "committed"
          [] OTHER                                   -> "aborted"]]

AbstractAt ==
    [t \in Txns |-> [p \in Participants[t] |->
        IF State(t, p) = "Committed" THEN m[p].status[t].ts ELSE m[p].prepared[t].ts]]

Atomic == INSTANCE AtomicCommit WITH state <- AbstractState, at <- AbstractAt

(* The protocol is an atomic commitment: whatever calls fail or come late,  *)
(* and whoever coordinates, no participant commits before all are prepared, *)
(* all commit at one timestamp, and none commits where another aborted.     *)
AtomicCommitment == Atomic!Spec

(* The client is told the truth: success means committed everywhere at the  *)
(* decided timestamp, failure that no participant will ever have committed  *)
(* (processor2PC.Process).                                                  *)
TruthTold ==
    \A t \in Txns : pc[t] = "returned" =>
        /\ told[t] = "success" =>
              \A p \in Participants[t] : State(t, p) = "Committed" /\ m[p].status[t].ts = cts[t]
        /\ told[t] = "failure" =>
              \A p \in Participants[t] : State(t, p) \notin {"Committed", "Decided"}

Conflict(t, u, p) == t # u /\ ~AllCompatible(BuildLocks(Body[t][p]), BuildLocks(Body[u][p]))

(* Conflicting transactions commit at different timestamps, in the order in *)
(* which they held their locks: the later one prepares above the earlier    *)
(* one's commit, because Commit merges its timestamp into the clock.        *)
WritesOrdered ==
    \A p \in Pids : \A t, u \in Txns :
        Conflict(t, u, p) /\ State(t, p) = "Committed" /\ State(u, p) \in {"Prepared", "Decided", "Committed"}
            => \/ m[p].status[t].ts < m[p].prepared[u].ts
               \/ State(u, p) = "Committed" /\ m[p].status[u].ts < m[p].prepared[t].ts

(* The principal is the last to commit. *)
CommittedLast ==
    \A t \in Txns : State(t, Principal[t]) = "Committed" =>
        \A p \in Others(t) : State(t, p) = "Committed"

(* The principal is the last to abort: when it has released its locks, no   *)
(* participant holds any.                                                   *)
AbortedLast ==
    \A t \in Txns : State(t, Principal[t]) \in {"Aborted", "Timedout"} /\ ~Locked(t, Principal[t]) =>
        \A p \in Others(t) : ~Locked(t, p)

(* Without lost calls every call of Process returns and no locks are left,  *)
(* whatever the transactions conflict in: lock failures are not waited for. *)
AllReturn ==
    <>[](\A t \in Txns : pc[t] = "returned" /\ \A p \in Participants[t] : ~Locked(t, p))

(* Process returns, unless the server crashes. *)
ProcessEnds == \A t \in Txns : pc[t] # "idle" ~> pc[t] \in {"returned", "crashed"}

(* The watchdog takes care of a transaction that stays prepared. *)
PreparedEnds == \A t \in Txns : State(t, Principal[t]) = "Prepared" ~> State(t, Principal[t]) # "Prepared"

=============================================================================
