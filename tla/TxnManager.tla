----------------------------- MODULE TxnManager -----------------------------
(***************************************************************************)
(* The deterministic transaction state machine of one partition            *)
(* (internal/data/server/txn: manager.go, manager_apply.go,                *)
(* manager_locks.go, status.go; the lock rules of internal/data/           *)
(* data_txn.go; the multi-version store it writes to).                     *)
(*                                                                         *)
(* The manager's state is a record m:                                      *)
(*   m.status[id]    the entry of the status map; state "none" if absent   *)
(*   m.prepared[id]  the entry of the prepared map; NoPrepared if absent   *)
(*   m.maxTs         maxTimestamp                                          *)
(*   m.db            the versions stored in the MVCC database              *)
(*                                                                         *)
(* A transaction is the set of its actions on this partition.  Keys are    *)
(* integers of one keyspace, and an action covers the keys first .. last-1 *)
(* (one key, unless it reads or locks a range).  A stored version names    *)
(* the transaction that wrote it instead of a value.                       *)
(***************************************************************************)
EXTENDS Integers, FiniteSets

Writes == {"Insert", "Update", "Upsert", "Delete"}
Locking == {"LockKey", "LockRange"}

(* An action on one key; excl and check matter for the Lock actions only. *)
On(op, key) == [op |-> op, first |-> key, last |-> key + 1, excl |-> FALSE, check |-> "none"]

-----------------------------------------------------------------------------
(* data_txn.go *)

BuildLock(a) == [first |-> a.first, last |-> a.last,
                 excl |-> a.op \in Writes \/ (a.op \in Locking /\ a.excl)]

BuildLocks(txn) == {BuildLock(a) : a \in txn}

(* keyLocksCompatible, rangeLocksCompatible, rangeLockCompatibleWithKeyLock *)
CompatibleWith(l, k) ==
    \/ l.last <= k.first
    \/ k.last <= l.first
    \/ ~l.excl /\ ~k.excl

AllCompatible(L, M) == \A l \in L, k \in M : CompatibleWith(l, k)

FinalStates == {"Committed", "Aborted", "Failed", "Timedout"}
States == {"none", "Prepared", "Decided"} \cup FinalStates

IsFinal(state) == state \in FinalStates

-----------------------------------------------------------------------------
(* The MVCC store.  Timestamp 0 reads the newest version. *)

Visible(db, ts, key) == {r \in db : r.key = key /\ (ts = 0 \/ r.ts <= ts)}

Newest(R) == {r \in R : \A q \in R : q.ts <= r.ts}

(* The versions a read of key at ts returns: one or none. *)
Get(db, ts, key) == {r \in Newest(Visible(db, ts, key)) : r.op # "Delete"}

Exists(db, ts, key) == Get(db, ts, key) # {}

ExistsInRange(db, ts, first, last) == \E key \in first .. last - 1 : Exists(db, ts, key)

Put(db, records) ==
    {r \in db : \A w \in records : w.key # r.key \/ w.ts # r.ts} \cup records

-----------------------------------------------------------------------------
(* status.go; ParticipantPids is only filled in by applyCommit, and code    *)
(* tells a lock failure from a failed validation.                           *)
Status(state, ts) == [state |-> state, ts |-> ts, code |-> "", pids |-> {}]

NoStatus == Status("none", 0)

newStatus(ts, state) == Status(state, ts)

newFailedStatus(ts, code) == [Status("Failed", ts) EXCEPT !.code = code]

NoPrepared == [present |-> FALSE, txn |-> {}, pids |-> {}, ts |-> 0,
               locks |-> {}, released |-> TRUE, decision |-> 0]

NewManager(Ids) ==
    [status |-> [id \in Ids |-> NoStatus], prepared |-> [id \in Ids |-> NoPrepared],
     maxTs |-> 0, db |-> {}]

SetStatus(m, id, s) == [m EXCEPT !.status = [@ EXCEPT ![id] = s]]

SetPrepared(m, id, p) == [m EXCEPT !.prepared = [@ EXCEPT ![id] = p]]

Released(p) == [[p EXCEPT !.locks = {}] EXCEPT !.released = TRUE]

(* What a command returns: the state, the reply, the versions to store and  *)
(* the transactions whose locks the batch releases once they are stored.    *)
Applied(m, s, writes, done) ==
    [m |-> m, err |-> "none", status |-> s, writes |-> writes, done |-> done]

Return(m, s) == Applied(m, s, {}, {})

Error(m, err) == [Return(m, NoStatus) EXCEPT !.err = err]

-----------------------------------------------------------------------------
(* manager_locks.go *)

Held(m) == UNION {m.prepared[id].locks : id \in {i \in DOMAIN m.prepared : ~m.prepared[i].released}}

checkLocks(m, txn) == AllCompatible(BuildLocks(txn), Held(m))

releaseLocks(m, id) == SetPrepared(m, id, Released(m.prepared[id]))

(* The prepared transactions a reader of txn has to stay below. *)
Conflicting(m, txn) ==
    {id \in DOMAIN m.prepared :
        /\ ~m.prepared[id].released
        /\ ~IsFinal(m.status[id].state)
        /\ ~AllCompatible(BuildLocks(txn), m.prepared[id].locks)}

(* safeTimestampForLocks: whether there are conflicts, and the timestamp up *)
(* to which txn can read.                                                   *)
HasConflict(m, txn) == Conflicting(m, txn) # {}

(* Mutation of SafeTimestamp: the prepared transactions are ignored. *)
SafeTimestampMax(m, txn) == m.maxTs

SafeTimestamp(m, txn) ==
    CHOOSE t \in {m.maxTs} \cup {m.prepared[id].ts - 1 : id \in Conflicting(m, txn)} :
        t <= m.maxTs /\ \A id \in Conflicting(m, txn) : t < m.prepared[id].ts

-----------------------------------------------------------------------------
(* manager_apply.go *)

(* What validate demands of the keys an action covers. *)
Expected(a) ==
    CASE a.op = "Insert"               -> "absent"
      [] a.op \in {"Update", "Delete"} -> "present"
      [] a.op \in Locking              -> a.check
      [] OTHER                         -> "none"

(* Mutation of validate: the store is read at the timestamp itself. *)
validateAtTimestamp(m, ts, txn) ==
    \A a \in txn : \/ Expected(a) = "none"
                   \/ (Expected(a) = "present") = ExistsInRange(m.db, ts, a.first, a.last)

validate(m, ts, txn) ==
    \A a \in txn : \/ Expected(a) = "none"
                   \/ (Expected(a) = "present") = ExistsInRange(m.db, ts - 1, a.first, a.last)

buildWriteRecords(id, ts, txn) ==
    {[key |-> a.first, ts |-> ts, op |-> a.op, txn |-> id] : a \in {w \in txn : w.op \in Writes}}

(* What a new transaction meets: its own earlier status, a lock of another, *)
(* a failed validation, or nothing.                                         *)
Admission(m, c) ==
    IF m.status[c.id].state # "none" THEN m.status[c.id].state
    ELSE IF ~checkLocks(m, c.txn) THEN "LockFailed"
    ELSE IF ~validate(m, c.ts, c.txn) THEN "Invalid"
    ELSE "admit"

(* What a later command of a transaction meets. *)
Found(m, c) ==
    IF m.prepared[c.id].present THEN m.status[c.id].state ELSE "none"

(* The same for the commands only the principal partition accepts. *)
FoundAtPrincipal(m, pid, c) ==
    IF m.status[c.id].state # "none" /\ c.principal # pid THEN "denied" ELSE Found(m, c)

applyAutocommit(m, c) ==
    LET found == Admission(m, c)
        t == newStatus(c.ts, "Committed")
    IN  CASE found \in {"Committed", "Failed"} -> Return(m, m.status[c.id])
          [] found \in {"LockFailed", "Invalid"} -> Return(m, newFailedStatus(c.ts, found))
          [] found = "admit" ->
                Applied(SetStatus(m, c.id, t), t, buildWriteRecords(c.id, c.ts, c.txn), {})
          [] OTHER -> Error(m, "FailedPrecondition")

(* Mutation of applyPrepare: the locks of the others are not checked. *)
applyPrepareUnchecked(m, c) ==
    LET t == newStatus(c.ts, "Prepared")
        p == [present |-> TRUE, txn |-> c.txn, pids |-> c.pids, ts |-> c.ts,
              locks |-> BuildLocks(c.txn), released |-> FALSE, decision |-> 0]
    IN  IF m.status[c.id].state = "none" /\ validate(m, c.ts, c.txn)
        THEN Return(SetPrepared(SetStatus(m, c.id, t), c.id, p), t)
        ELSE Error(m, "FailedPrecondition")

applyPrepare(m, c) ==
    LET found == Admission(m, c)
        t == newStatus(c.ts, "Prepared")
        p == [present |-> TRUE, txn |-> c.txn, pids |-> c.pids, ts |-> c.ts,
              locks |-> BuildLocks(c.txn), released |-> FALSE, decision |-> 0]
    IN  CASE found \in {"Prepared", "Failed"} -> Return(m, m.status[c.id])
          [] found \in {"LockFailed", "Invalid"} -> Return(m, newFailedStatus(c.ts, found))
          [] found = "admit" -> Return(SetPrepared(SetStatus(m, c.id, t), c.id, p), t)
          [] OTHER -> Error(m, "FailedPrecondition")

(* Mutation of applyCommit: the locks are released before the batch's       *)
(* versions are stored.                                                     *)
applyCommitReleasesEarly(m, c) ==
    LET found == Found(m, c)
        p == m.prepared[c.id]
        t == [newStatus(c.cts, "Committed") EXCEPT !.pids = p.pids]
    IN  IF \/ found = "Decided" /\ c.cts = p.decision
           \/ found = "Prepared" /\ c.cts >= m.status[c.id].ts
        THEN Applied(SetStatus(releaseLocks(m, c.id), c.id, t), t,
                     buildWriteRecords(c.id, c.cts, p.txn), {})
        ELSE Error(m, "FailedPrecondition")

(* The locks are released after the batch's versions are stored. *)
applyCommit(m, c) ==
    LET found == Found(m, c)
        p == m.prepared[c.id]
        t == [newStatus(c.cts, "Committed") EXCEPT !.pids = p.pids]
    IN  CASE found = "none" -> Error(m, "NotFound")
          [] found = "Committed" -> Return(m, m.status[c.id])
          [] \/ found = "Decided" /\ c.cts # p.decision
             \/ found = "Prepared" /\ c.cts < m.status[c.id].ts -> Error(m, "InvalidRequest")
          [] \/ found = "Decided" /\ c.cts = p.decision
             \/ found = "Prepared" /\ c.cts >= m.status[c.id].ts ->
                Applied(SetStatus(m, c.id, t), t, buildWriteRecords(c.id, c.cts, p.txn), {c.id})
          [] OTHER -> Error(m, "FailedPrecondition")

applyAbort(m, c) ==
    LET found == Found(m, c)
        t == newStatus(c.ts, "Aborted")
    IN  CASE found = "none" -> Error(m, "NotFound")
          [] found \in {"Aborted", "Timedout"} -> Return(m, m.status[c.id])
          [] found = "Prepared" -> Return(SetStatus(releaseLocks(m, c.id), c.id, t), t)
          [] OTHER -> Error(m, "FailedPrecondition")

(* Mutation of applyStoreDecision: a timeout is overruled. *)
applyStoreDecisionOverrules(m, pid, c) ==
    LET found == FoundAtPrincipal(m, pid, c)
        p == m.prepared[c.id]
        t == newStatus(c.ts, "Decided")
    IN  IF found \in {"Prepared", "Timedout"}
        THEN Return(SetPrepared(SetStatus(m, c.id, t), c.id, [p EXCEPT !.decision = c.cts]), t)
        ELSE Error(m, "FailedPrecondition")

(* Only commit decisions reach the manager (Service.StoreDecision). *)
applyStoreDecision(m, pid, c) ==
    LET found == FoundAtPrincipal(m, pid, c)
        p == m.prepared[c.id]
        t == newStatus(c.ts, "Decided")
    IN  CASE found = "none" -> Error(m, "NotFound")
          [] found = "denied" -> Error(m, "PermissionDenied")
          [] found \in {"Decided", "Timedout"} -> Return(m, m.status[c.id])
          [] found = "Prepared" /\ c.cts < m.status[c.id].ts -> Error(m, "InvalidRequest")
          [] found = "Prepared" /\ c.cts >= m.status[c.id].ts ->
                Return(SetPrepared(SetStatus(m, c.id, t), c.id, [p EXCEPT !.decision = c.cts]), t)
          [] OTHER -> Error(m, "FailedPrecondition")

(* Mutation of applyMarkTimedout: a decision is overruled. *)
applyMarkTimedoutOverrules(m, pid, c) ==
    LET found == FoundAtPrincipal(m, pid, c)
        t == newStatus(c.ts, "Timedout")
    IN  IF found \in {"Prepared", "Decided"}
        THEN Return(SetStatus(m, c.id, t), t)
        ELSE Error(m, "FailedPrecondition")

applyMarkTimedout(m, pid, c) ==
    LET found == FoundAtPrincipal(m, pid, c)
        t == newStatus(c.ts, "Timedout")
    IN  CASE found = "none" -> Error(m, "NotFound")
          [] found = "denied" -> Error(m, "PermissionDenied")
          [] found = "Timedout" ->
                Return(IF c.release THEN releaseLocks(m, c.id) ELSE m, m.status[c.id])
          [] found = "Prepared" -> Return(SetStatus(m, c.id, t), t)
          [] OTHER -> Error(m, "FailedPrecondition")

Apply(m, pid, c) ==
    CASE c.op = "Abort"         -> applyAbort(m, c)
      [] c.op = "MarkTimedout"  -> applyMarkTimedout(m, pid, c)
      [] c.op = "Commit"        -> applyCommit(m, c)
      [] c.op = "Autocommit"    -> applyAutocommit(m, c)
      [] c.op = "Prepare"       -> applyPrepare(m, c)
      [] c.op = "StoreDecision" -> applyStoreDecision(m, pid, c)

(* Mutation of FinishBatch: the completions are not run. *)
FinishBatchKeepsLocks(m, writes, done, maxTs) ==
    [m EXCEPT !.maxTs = maxTs, !.db = Put(@, writes)]

(* The end of ApplyBatch: the versions are stored, the locks of the         *)
(* committed transactions released, and maxTimestamp becomes the batch's.   *)
FinishBatch(m, writes, done, maxTs) ==
    [status   |-> m.status,
     prepared |-> [id \in DOMAIN m.prepared |->
                     IF id \in done THEN Released(m.prepared[id]) ELSE m.prepared[id]],
     maxTs    |-> maxTs,
     db       |-> Put(m.db, writes)]

(* cleanup forgets the final transactions not after oldest, unless one of   *)
(* them still holds locks.                                                  *)
Cleanable(m, oldest) ==
    {id \in DOMAIN m.status : /\ IsFinal(m.status[id].state)
                              /\ m.status[id].ts <= oldest
                              /\ m.prepared[id].present => m.prepared[id].released}

cleanup(m, oldest) ==
    LET gone == Cleanable(m, oldest) IN
    [status   |-> [id \in DOMAIN m.status |-> IF id \in gone THEN NoStatus ELSE m.status[id]],
     prepared |-> [id \in DOMAIN m.prepared |-> IF id \in gone THEN NoPrepared ELSE m.prepared[id]],
     maxTs    |-> m.maxTs,
     db       |-> m.db]

-----------------------------------------------------------------------------
(* manager.go: a snapshot leaves out the locks, which Restore rebuilds from *)
(* the transactions that still hold them.  The versions are not part of it. *)
Snapshot(m) ==
    [status   |-> m.status,
     prepared |-> [id \in DOMAIN m.prepared |-> [m.prepared[id] EXCEPT !.locks = {}]],
     maxTs    |-> m.maxTs]

(* Mutation of Restore: whether the locks were released is not looked at. *)
RestoreRelocks(snap, db) ==
    [status   |-> snap.status,
     prepared |-> [id \in DOMAIN snap.prepared |->
                     [snap.prepared[id] EXCEPT !.locks = BuildLocks(snap.prepared[id].txn)]],
     maxTs    |-> snap.maxTs,
     db       |-> db]

Restore(snap, db) ==
    [status   |-> snap.status,
     prepared |-> [id \in DOMAIN snap.prepared |->
                     LET p == snap.prepared[id] IN
                     IF p.released THEN p ELSE [p EXCEPT !.locks = BuildLocks(p.txn)]],
     maxTs    |-> snap.maxTs,
     db       |-> db]

(* getRunning: what the watchdog of a new leader is told of the            *)
(* transactions that still hold locks on their principal partition.         *)
IsRunning(m, id) == ~m.prepared[id].released

getRunning(m, id) == [state |-> m.status[id].state, pids |-> m.status[id].pids,
                      decision |-> m.prepared[id].decision]

=============================================================================
