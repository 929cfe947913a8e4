------------------------------ MODULE Partition ------------------------------
(***************************************************************************)
(* The leader of one partition: the writer that turns concurrent requests  *)
(* into timestamped batches (writer.go, service.go), the Raft log that     *)
(* carries them to the manager (manager_apply.go), and the reader that     *)
(* serves read-only transactions from the multi-version store (reader.go). *)
(*                                                                         *)
(* Raft is external: batches that were flushed are applied in order, and a *)
(* change of leader keeps some prefix of those not applied yet.  The clock *)
(* is the leader's HLC, of which MonotonicClock.tla states what is used.   *)
(* ApplyBatch holds the manager's lock; each of its commands is a step, in *)
(* the order of the code, during which nobody else takes the lock.         *)
(***************************************************************************)
EXTENDS TxnManager, Sequences

CONSTANTS Single,         \* ids of transactions on this partition only
          Distributed,    \* ids of two-phase commit transactions
          Body,           \* Body[id]: the actions of id on this partition
          Queries,        \* bodies of read-only transactions
          Pid,            \* this partition
          Principal,      \* Principal[id]: the principal partition of id
          MaxBatchSize,   \* bound: commands in a batch (and a config value)
          MaxClock,       \* bound: greatest timestamp
          MaxLog,         \* bound: batches in the log that are not applied
          MaxLeaders,     \* bound: changes of leader
          Stray,          \* whether decisions may come that no coordinator would take
          BatchConflicts, \* whether one batch may hold conflicting new writes
          Retention       \* whether finished transactions are forgotten

Ids == Single \cup Distributed

ASSUME PartitionAssumption ==
    /\ Single \cap Distributed = {}
    /\ MaxBatchSize \in Nat /\ MaxClock \in Nat \ {0} /\ MaxLog \in Nat /\ MaxLeaders \in Nat
    /\ Stray \in BOOLEAN /\ BatchConflicts \in BOOLEAN /\ Retention \in BOOLEAN
    /\ \A txn \in {Body[id] : id \in Ids} \cup Queries : \A a \in txn :
          /\ a.first \in Int /\ a.last \in Int
          /\ a.op \in Writes => a.last = a.first + 1

VARIABLES m,        \* the manager's state
          clock,    \* the leader's HLC
          log,      \* batches given to Raft and not applied yet
          batch,    \* the batch ApplyBatch is working on, or NoBatch
          rd,       \* the read-only request in progress
          leaders,  \* changes of leader so far
          oldest,   \* transactions up to here may be cleaned up
          gone,     \* history: ids cleaned up; no request is retried so late
          served,   \* history: served[q] is the greatest timestamp q was read at
          stale     \* history: a read-only transaction missed an earlier write

vars == <<m, clock, log, batch, rd, leaders, oldest, gone, served, stale>>

Stamps == 1 .. MaxClock

Command(op, id, cts, release) ==
    [op |-> op, id |-> id, txn |-> Body[id], pids |-> {}, principal |-> Principal[id],
     ts |-> 0, cts |-> cts, release |-> release]

(* What the Service methods and the watchdog ask the writer to apply. *)
RequestsOf(id) ==
    IF id \in Single THEN {Command("Autocommit", id, 0, FALSE)}
    ELSE {Command("Prepare", id, 0, FALSE), Command("Abort", id, 0, FALSE),
          Command("MarkTimedout", id, 0, FALSE), Command("MarkTimedout", id, 0, TRUE)}
         \cup {Command("Commit", id, t, FALSE) : t \in Stamps}
         \cup {Command("StoreDecision", id, t, FALSE) : t \in Stamps}

Requests == UNION {RequestsOf(id) : id \in Ids}

NoBatch == [cmds |-> <<>>, todo |-> {}, writes |-> {}, done |-> {}, maxTs |-> 0,
            bumps |-> FALSE, active |-> FALSE]

NoRead == [phase |-> "idle", txn |-> {}, ts |-> 0]

Maximum(S) == CHOOSE x \in S : \A y \in S : y <= x

-----------------------------------------------------------------------------
(* prepareBatch: the order in which commands get their timestamps. *)
StampRank == [Autocommit |-> 1, Prepare |-> 2, Abort |-> 3, StoreDecision |-> 4,
              MarkTimedout |-> 5, Commit |-> 6]

(* ApplyBatch: the order in which they are applied. *)
ApplyRank == [Abort |-> 1, MarkTimedout |-> 2, Commit |-> 3, Autocommit |-> 4,
              Prepare |-> 5, StoreDecision |-> 6]

Before(rank, cs, i, j) ==
    \/ rank[cs[i].op] < rank[cs[j].op]
    \/ rank[cs[i].op] = rank[cs[j].op] /\ i < j

(* hlc.Now is called once for each command but Commit. *)
Stamped(cs) == {i \in DOMAIN cs : cs[i].op # "Commit"}

(* The lists are stamped in the order of the batch, and that of the commits *)
(* is its last: the timestamps follow on each other.                        *)
Stamp(cs, base) ==
    [i \in DOMAIN cs |-> IF i \in Stamped(cs) THEN [cs[i] EXCEPT !.ts = base + i] ELSE cs[i]]

Ticks(cs) == Maximum({0} \cup Stamped(cs))

(* Service.Commit and Service.StoreDecision first merge their timestamp     *)
(* into the clock.                                                          *)
Merged(cs) == Maximum({clock} \cup {cs[i].cts : i \in DOMAIN cs})

(* A batch has one list for each kind of command. *)
IsBatch(cs) == \A i, j \in DOMAIN cs : i < j => StampRank[cs[i].op] <= StampRank[cs[j].op]

CommandsOf(cs) == {cs[i] : i \in DOMAIN cs}

Pending == (UNION {CommandsOf(log[i].cmds) : i \in DOMAIN log}) \cup CommandsOf(batch.cmds)

Decisions == {"Commit", "StoreDecision"}

(* A coordinator commits what is prepared, at one timestamp that is not     *)
(* below the prepare timestamps (processor2PC.decide).                      *)
FromCoordinator(c, cs) ==
    c.op \in Decisions =>
        /\ m.prepared[c.id].present /\ c.cts >= m.prepared[c.id].ts
        /\ m.prepared[c.id].decision \in {0, c.cts}
        /\ m.status[c.id].state = "Committed" => m.status[c.id].ts = c.cts
        /\ \A d \in Pending \cup CommandsOf(cs) : d.id = c.id /\ d.op \in Decisions => d.cts = c.cts

(* Two new transactions of one batch, one of which takes no locks.          *)
ConflictInBatch(cs) ==
    \E i, j \in DOMAIN cs :
        /\ i # j
        /\ cs[i].op = "Autocommit" /\ cs[j].op \in {"Autocommit", "Prepare"}
        /\ ~AllCompatible(BuildLocks(cs[i].txn), BuildLocks(cs[j].txn))

-----------------------------------------------------------------------------
(* The first leader has written its first timestamp (startLeader). *)
Init ==
    /\ m = [NewManager(Ids) EXCEPT !.maxTs = 1]
    /\ clock = 1
    /\ log = <<>>
    /\ batch = NoBatch
    /\ rd = NoRead
    /\ leaders = 0
    /\ oldest = 0
    /\ gone = {}
    /\ served = [q \in Queries |-> 0]
    /\ stale = FALSE

(* The writer's mainLoop flushes the commands cs; bump says that the        *)
(* reader's UpdateTimestamp is among them.                                  *)
Flush(cs, bump) ==
    LET last  == Merged(cs) + Ticks(cs)
        maxTs == Maximum({0} \cup {cs[i].cts : i \in {j \in DOMAIN cs : cs[j].op = "Commit"}}
                             \cup (IF Stamped(cs) = {} THEN {} ELSE {last})
                             \cup (IF bump THEN {rd.ts} ELSE {}))
    IN  /\ Len(log) < MaxLog
        /\ cs # <<>> \/ bump
        /\ IsBatch(cs)
        /\ bump => rd.phase = "bump"
        /\ \A i \in DOMAIN cs : cs[i].id \notin gone
        /\ \A i \in DOMAIN cs : cs[i].op \in {"StoreDecision", "MarkTimedout"} => cs[i].principal = Pid
        /\ Stray \/ \A i \in DOMAIN cs : FromCoordinator(cs[i], cs)
        /\ BatchConflicts \/ ~ConflictInBatch(cs)
        /\ last <= MaxClock
        /\ clock' = last
        /\ log' = Append(log, [cmds |-> Stamp(cs, Merged(cs)), todo |-> DOMAIN cs, writes |-> {},
                               done |-> {}, maxTs |-> maxTs, bumps |-> bump, active |-> TRUE])
        /\ rd' = IF bump THEN [rd EXCEPT !.phase = "wait"] ELSE rd
        /\ UNCHANGED <<m, batch, leaders, oldest, gone, served, stale>>

(* Raft delivers the next batch and ApplyBatch takes the lock. *)
BeginApply ==
    /\ batch = NoBatch /\ log # <<>>
    /\ batch' = Head(log)
    /\ log' = Tail(log)
    /\ UNCHANGED <<m, clock, rd, leaders, oldest, gone, served, stale>>

(* ApplyBatch applies the next command. *)
ApplyCommand ==
    \E i \in batch.todo :
        /\ \A j \in batch.todo \ {i} : Before(ApplyRank, batch.cmds, i, j)
        /\ LET r == Apply(m, Pid, batch.cmds[i]) IN
           /\ m' = r.m
           /\ batch' = [batch EXCEPT !.todo = @ \ {i}, !.writes = @ \cup r.writes, !.done = @ \cup r.done]
        /\ UNCHANGED <<clock, log, rd, leaders, oldest, gone, served, stale>>

(* ApplyBatch stores the versions, releases locks, sets maxTimestamp, cleans *)
(* up and unlocks; the waiting callers are answered.                         *)
EndApply ==
    LET n == FinishBatch(m, batch.writes, batch.done, batch.maxTs) IN
    /\ batch.active /\ batch.todo = {}
    /\ m' = cleanup(n, oldest)
    /\ gone' = gone \cup Cleanable(n, oldest)
    /\ batch' = NoBatch
    /\ rd' = IF batch.bumps /\ rd.phase = "wait" THEN [rd EXCEPT !.phase = "recheck"] ELSE rd
    /\ UNCHANGED <<clock, log, leaders, oldest, served, stale>>

(* Time passes: another timestamp falls out of CleanAfterReadWrite. *)
Age ==
    /\ Retention /\ oldest < clock
    /\ oldest' = oldest + 1
    /\ UNCHANGED <<m, clock, log, batch, rd, leaders, gone, served, stale>>

-----------------------------------------------------------------------------
(* Once its timestamp is fixed a read only looks at the store (fetchResults, *)
(* without the manager's lock), where it finds the same versions whenever it *)
(* looks, as SnapshotStable says.                                            *)
Serve(txn, ts) == served' = [served EXCEPT ![txn] = Maximum({@, ts})]

LockFree == ~batch.active

(* The newest version, over the keys of txn, that any request was told of. *)
NewestStored(txn) ==
    Maximum({0} \cup {r.ts : r \in {d \in m.db : \E a \in txn : d.key \in a.first .. a.last - 1}})

(* reader.AutocommitReadOnly, and PrepareReadOnly for the timestamp it      *)
(* answers with: read at the safe time.                                     *)
ReadOnly(txn) ==
    /\ LockFree
    /\ Serve(txn, SafeTimestamp(m, txn))
    /\ stale' = (stale \/ SafeTimestamp(m, txn) < NewestStored(txn))
    /\ UNCHANGED <<m, clock, log, batch, rd, leaders, oldest, gone>>

(* AutocommitSnapshotRead and CommitReadOnly at a timestamp that the        *)
(* service has merged into the clock: checkSafeTimestamp.                   *)
SnapshotRead(txn, ts) ==
    /\ rd = NoRead /\ LockFree
    /\ clock' = Maximum({clock, ts})
    /\ \/ ts <= SafeTimestamp(m, txn) /\ Serve(txn, ts) /\ rd' = rd
       \/ ts > SafeTimestamp(m, txn) /\ HasConflict(m, txn) /\ UNCHANGED <<rd, served>>
       \/ /\ ts > SafeTimestamp(m, txn) /\ ~HasConflict(m, txn)
          /\ rd' = [phase |-> "bump", txn |-> txn, ts |-> ts]
          /\ served' = served
    /\ UNCHANGED <<m, log, batch, leaders, oldest, gone, stale>>

(* The UpdateTimestamp was applied; check again. *)
Recheck ==
    /\ rd.phase = "recheck" /\ LockFree
    /\ rd' = NoRead
    /\ \/ rd.ts <= SafeTimestamp(m, rd.txn) /\ Serve(rd.txn, rd.ts)
       \/ rd.ts > SafeTimestamp(m, rd.txn) /\ served' = served
    /\ UNCHANGED <<m, clock, log, batch, leaders, oldest, gone, stale>>

-----------------------------------------------------------------------------
(* Another replica becomes the leader.  Its clock is merely beyond the      *)
(* maxTimestamp it has applied (Service.startLeader).                       *)
ChangeLeader ==
    /\ leaders < MaxLeaders
    /\ leaders' = leaders + 1
    /\ \E n \in 0 .. Len(log) : log' = SubSeq(log, 1, n)
    /\ clock' \in m.maxTs .. MaxClock
    /\ rd' = NoRead
    /\ UNCHANGED <<m, batch, oldest, gone, served, stale>>

Next ==
    \/ \E n \in 0 .. MaxBatchSize : \E cs \in [1 .. n -> Requests], bump \in BOOLEAN : Flush(cs, bump)
    \/ BeginApply \/ ApplyCommand \/ EndApply \/ Age
    \/ \E txn \in Queries : ReadOnly(txn)
    \/ \E txn \in Queries, ts \in Stamps : SnapshotRead(txn, ts)
    \/ Recheck \/ ChangeLeader

Spec == Init /\ [][Next]_vars

-----------------------------------------------------------------------------
TypeOK ==
    /\ \A id \in Ids : /\ m.status[id].state \in States
                       /\ m.status[id].ts \in 0 .. MaxClock
                       /\ m.prepared[id].present \in BOOLEAN
                       /\ m.prepared[id].released \in BOOLEAN
                       /\ m.prepared[id].locks \subseteq BuildLocks(Body[id])
    /\ m.maxTs \in 0 .. MaxClock
    /\ clock \in 0 .. MaxClock

(* Two-phase locking: the transactions that hold locks at the same time     *)
(* never conflict, whatever is prepared, committed, aborted, timed out,     *)
(* released and forgotten in whatever batches (checkLocks, releaseLocks).   *)
LockExclusion ==
    \A a, b \in Ids :
        a # b /\ ~m.prepared[a].released /\ ~m.prepared[b].released
            => AllCompatible(m.prepared[a].locks, m.prepared[b].locks)

(* A read at a timestamp is repeatable: no version is ever stored, at or    *)
(* below a timestamp at which its key was read, by a commit, an autocommit  *)
(* or a batch that was already on its way (safeTimestampForLocks).          *)
SnapshotStable ==
    [][\A v \in m'.db \ m.db : \A q \in Queries : \A a \in q :
          v.key \in a.first .. a.last - 1 => v.ts > served[q]]_vars

(* Each version follows on the one before it as its action demands: an      *)
(* insert on none or a deletion, an update or delete on a living value. No  *)
(* commit invalidates what validate found for another transaction.          *)
VersionsValid ==
    \A v \in m.db : \/ v.op = "Upsert"
                    \/ (v.op # "Insert") = (v.ts > 1 /\ Exists(m.db, v.ts - 1, v.key))

(* A commit decision is never revoked: the transaction stays decided until  *)
(* it commits at the decision's timestamp, and then stays committed as long *)
(* as it is remembered (applyStoreDecision against applyAbort,              *)
(* applyMarkTimedout and applyCommit).                                      *)
DecisionBinding ==
    [][\A id \in Ids :
          /\ m.status[id].state = "Decided" =>
                \/ m'.status[id] = m.status[id] /\ m'.prepared[id].decision = m.prepared[id].decision
                \/ m'.status[id].state = "Committed" /\ m'.status[id].ts = m.prepared[id].decision
          /\ m.status[id].state = "Committed" => m'.status[id] \in {m.status[id], NoStatus}]_vars

(* Locks outlive the transaction's record nowhere: whoever holds locks is   *)
(* in a state from which a command can still release them, and a forgotten  *)
(* transaction holds none (cleanup, applyMarkTimedout).                     *)
LocksReleasable ==
    \A id \in Ids : ~m.prepared[id].released =>
        \/ m.status[id].state \in {"Prepared", "Decided", "Timedout"}
        \/ m.status[id].state = "Committed" /\ id \in batch.done

(* A replica restored from a snapshot goes on where the one that took it    *)
(* was: what a snapshot leaves out can be rebuilt from the rest, so no lock *)
(* is lost or revived (Manager.Snapshot, Manager.Restore).                  *)
SnapshotComplete == LockFree => Restore(Snapshot(m), m.db) = m

(* Strong serializability demands that a read-only transaction sees what    *)
(* was committed, and acknowledged, before it began.                        *)
ReadsAreFresh == ~stale

=============================================================================
