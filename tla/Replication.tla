----------------------------- MODULE Replication -----------------------------
(***************************************************************************)
(* The replicas of one partition: the Raft log that feeds the storage FSM  *)
(* (storage/fsm.go), the RocksDB column family it writes to without a      *)
(* write-ahead log (storage/rocksdb), snapshots, crashes, and a replica    *)
(* that joins by streaming the store of another (joining/restore_fsm.go,   *)
(* serving/streamer.go) and leaves again (leaving/leaving.go).             *)
(*                                                                         *)
(* Raft is external: the log holds the committed batches, every batch one  *)
(* command, and a replica receives it entry by entry, or as a snapshot     *)
(* when the leader has compacted the entries it needs.                     *)
(*                                                                         *)
(*   log[i]      the command of index i, with its timestamps               *)
(*   outcome[i]  history: what the first replica that applied i did        *)
(*   rep[r]      of replica r:                                             *)
(*     mode      "out", "joining", "serving" or "leaving"                  *)
(*     up        its process runs                                          *)
(*     mem       the column family as it is read: [cf, recs, index, chk]   *)
(*     disk      what of it a crash leaves                                 *)
(*     mgr       the transaction manager of the serving FSM                *)
(*     applied   the index of the serving FSM                              *)
(*     snap      its last Raft snapshot: [index, mgr]                      *)
(*     have      the last index in its Raft log                            *)
(*     restore   the work of restoreFsm: [phase, min, from, rest]          *)
(*     reported  the control plane was told that it is ready               *)
(***************************************************************************)
EXTENDS TxnManager, Sequences

CONSTANTS
    Replicas,
    Initial,         \* the replicas that serve from the start
    Leader,          \* the one of them that leads
    Requests,        \* the commands clients may send
    Pid,
    MaxStreamingSize,
    MaxLog,          \* bound: entries of the log
    MaxCrashes,      \* bound: crashes
    MaxEvents,       \* bound: crashes, and how often a replica joins, together
    WithinMargins,   \* a replica that serves or restored is never behind the compacted
                     \* log, and no crash hits the memtables of one just restored
    Retention        \* ended transactions are forgotten, by each replica's own clock

ASSUME ReplicationAssumption ==
    /\ Leader \in Initial /\ Initial \subseteq Replicas
    /\ MaxStreamingSize \in Nat \ {0} /\ {MaxLog, MaxCrashes, MaxEvents} \subseteq Nat
    /\ WithinMargins \in BOOLEAN /\ Retention \in BOOLEAN

(* Requests have passed Txn.Validate: no key is empty, the least of them is *)
(* 1, and a write is of one key.                                            *)
ASSUME RequestsAssumption ==
    \A c \in Requests :
        /\ c.op \in {"Abort", "MarkTimedout", "Commit", "Autocommit", "Prepare", "StoreDecision"}
        /\ c = [op |-> c.op, id |-> c.id, txn |-> c.txn, pids |-> c.pids, principal |-> c.principal,
                ts |-> 0, cts |-> 0, release |-> c.release]
        /\ IsFiniteSet(c.txn)
        /\ \A a \in c.txn : /\ a.first \in Nat \ {0} /\ a.last \in Nat
                            /\ a.op \in Writes => a.last = a.first + 1

VARIABLES log, outcome, rep, crashes, joins

vars == <<log, outcome, rep, crashes, joins>>

Ids == {c.id : c \in Requests}

-----------------------------------------------------------------------------
(* kv/address.go: by key, the newest version of a key first.  The timestamp *)
(* of a stored version is never 0, so that Next never leaves the key.       *)

Before(a, b) == a.key < b.key \/ (a.key = b.key /\ a.ts > b.ts)

FirstAddress == [key |-> 0, ts |-> 0]

AddressOf(rec) == [key |-> rec.key, ts |-> rec.ts]

NextAddress(a) == [a EXCEPT !.ts = @ - 1]

(* GetStream: a pinned view of the records not before start. *)
GetStream(kv, start) == {x \in kv.recs : ~Before(AddressOf(x), start)}

(* The n first records of S. *)
FirstOf(S, n) == {x \in S : Cardinality({y \in S : Before(AddressOf(y), AddressOf(x))}) < n}

LastOf(S) == AddressOf(CHOOSE x \in S : \A y \in S : ~Before(AddressOf(x), AddressOf(y)))

-----------------------------------------------------------------------------
(* rocksdb_kv.go, column_family.go, merge.go *)

NoCheckpoint == [min |-> -1, last |-> FirstAddress, completed |-> FALSE]

NoCF == [cf |-> FALSE, recs |-> {}, index |-> 0, chk |-> NoCheckpoint]

(* A new family is tagged with its partition, and the tag is flushed. *)
initCF(kv) == [kv EXCEPT !.cf = TRUE]

(* A family without the tag is unknown. *)
probeCFs(kv) == IF kv.cf THEN kv ELSE NoCF

(* InitPartition keeps a family that is there. *)
InitPartition(kv) == IF kv.cf THEN kv ELSE initCF(kv)

mergeMaxIndex(index, operand) == IF operand > index THEN operand ELSE index

KVPut(kv, index, recs) ==
    [kv EXCEPT !.recs = Put(@, recs), !.index = mergeMaxIndex(@, index)]

GetIndex(kv) == kv.index

SyncPartition(s) == [s EXCEPT !.disk = s.mem]

(* The database is opened: with what is on disk. *)
openDB(s) == [s EXCEPT !.up = TRUE, !.mem = probeCFs(s.disk)]

-----------------------------------------------------------------------------
NoSnapshot == [index |-> 0, mgr |-> Snapshot(NewManager(Ids))]

Idle == [phase |-> "idle", min |-> 0, from |-> FirstAddress, rest |-> {}]

(* The manager of replica s, with the store it reads. *)
Manager(s) == [status |-> s.mgr.status, prepared |-> s.mgr.prepared,
               maxTs |-> s.mgr.maxTs, db |-> s.mem.recs]

WithoutStore(m) == [status |-> m.status, prepared |-> m.prepared, maxTs |-> m.maxTs]

(* FSM.Restore: the index and the manager, nothing of the store. *)
RestoreFSM(s) == [s EXCEPT !.applied = s.snap.index, !.mgr = WithoutStore(Restore(s.snap.mgr, {}))]

NewReplica(mode) ==
    RestoreFSM([mode |-> mode, up |-> TRUE, mem |-> NoCF, disk |-> NoCF, mgr |-> NoSnapshot.mgr,
                applied |-> 0, snap |-> NoSnapshot, have |-> 0, restore |-> Idle, reported |-> FALSE])

Init ==
    /\ log = <<>>
    /\ outcome = <<>>
    /\ rep = [r \in Replicas |-> NewReplica(IF r \in Initial THEN "serving" ELSE "out")]
    /\ crashes = 0
    /\ joins = 0

-----------------------------------------------------------------------------
(* The leader appends a command with the next timestamp (the first is 2: a  *)
(* read at 0 would be one of the newest versions); a commit, or a decision  *)
(* to, carries one of its coordinator that is not before the prepare.       *)
Stamp(i) == i + 1

PrepareTs(id) == {log[i].ts : i \in {j \in DOMAIN log : log[j].op = "Prepare" /\ log[j].id = id}}

Append1(c, cts) ==
    /\ rep[Leader].up
    /\ Len(log) < MaxLog
    /\ IF c.op \in {"Commit", "StoreDecision"}
       THEN cts <= Stamp(Len(log) + 1) /\ \E t \in PrepareTs(c.id) : t <= cts
       ELSE cts = 0
    /\ log' = Append(log, [c EXCEPT !.ts = Stamp(Len(log) + 1), !.cts = cts])
    /\ rep' = [rep EXCEPT ![Leader].have = Len(log) + 1]
    /\ UNCHANGED <<outcome, crashes, joins>>

(* A replica gets the next entry, unless the leader has compacted it. *)
Compacted(i) == i <= rep[Leader].snap.index

(* A replica that serves, restores or has restored. *)
Follows(r) == rep[r].mode = "serving" \/ rep[r].restore.phase # "idle" \/ rep[r].reported

Receive(r) ==
    /\ rep[r].up /\ rep[r].mode \in {"joining", "serving"}
    /\ rep[r].have < Len(log)
    /\ Compacted(rep[r].have + 1) => WithinMargins /\ Follows(r)
    /\ rep' = [rep EXCEPT ![r].have = @ + 1]
    /\ UNCHANGED <<log, outcome, crashes, joins>>

(* Or it is sent the leader's snapshot, which Raft stores and then gives to *)
(* the FSM: at once to the FSM of a serving replica, and to the restoreFsm  *)
(* of a joining one when that has nothing else to do.                       *)
InstallSnapshot(r) ==
    LET s == [rep[r] EXCEPT !.snap = rep[Leader].snap, !.have = rep[Leader].snap.index] IN
    /\ rep[r].up /\ rep[r].mode \in {"joining", "serving"}
    /\ Compacted(rep[r].have + 1)
    /\ WithinMargins => ~Follows(r)
    /\ rep' = [rep EXCEPT ![r] = IF s.mode = "serving" THEN RestoreFSM(s) ELSE s]
    /\ UNCHANGED <<log, outcome, crashes, joins>>

-----------------------------------------------------------------------------
(* storage/fsm.go *)

(* The outcome of log entry i for a replica in state s: the reply, what is  *)
(* stored, and the manager before anything is forgotten.                    *)
Outcome(s, i) ==
    LET a == Apply(Manager(s), Pid, log[i]) IN
    [status |-> a.status, err |-> a.err, writes |-> a.writes,
     mgr |-> WithoutStore(FinishBatch(a.m, a.writes, a.done, log[i].ts))]

(* FSM.Apply: ApplyBatch writes the versions and the index in one Put. *)
ApplyEntry(s, i, oldest) ==
    LET a == Apply(Manager(s), Pid, log[i])
        m == cleanup(FinishBatch(a.m, a.writes, a.done, log[i].ts), oldest)
        kv == IF s.applied = 0 THEN InitPartition(s.mem) ELSE s.mem
    IN  [s EXCEPT !.mgr = WithoutStore(m), !.applied = i, !.mem = KVPut(kv, i, a.writes),
                  !.disk.cf = kv.cf]

ApplyNext(r) ==
    LET s == rep[r]
        i == s.applied + 1
    IN  /\ s.up /\ s.mode = "serving"
        /\ s.applied < s.have
        /\ s.mem.cf \/ s.applied = 0
        /\ outcome' = IF i > Len(outcome) THEN Append(outcome, Outcome(s, i)) ELSE outcome
        /\ \E oldest \in (IF Retention THEN 0 .. Stamp(Len(log)) ELSE {0}) :
              rep' = [rep EXCEPT ![r] = ApplyEntry(s, i, oldest)]
        /\ UNCHANGED <<log, crashes, joins>>

(* Mutation of TakeSnapshot: the index is compared before the store is      *)
(* synced.                                                                  *)
TakeSnapshotUnsynced(r) ==
    LET s == rep[r] IN
    /\ s.up /\ s.mode = "serving"
    /\ s.applied > s.snap.index
    /\ s.mem.index = s.applied
    /\ rep' = [rep EXCEPT ![r].snap = [index |-> s.applied, mgr |-> Snapshot(Manager(s))]]
    /\ UNCHANGED <<log, outcome, crashes, joins>>

Persist(s) == [s EXCEPT !.snap = [index |-> s.applied, mgr |-> Snapshot(Manager(s))]]

(* FSM.Snapshot flushes the family and makes a snapshot only when the index *)
(* on disk is the one of the FSM.                                           *)
SnapshotFSM(s) ==
    LET synced == SyncPartition(s) IN
    IF GetIndex(synced.disk) = s.applied THEN Persist(synced) ELSE synced

TakeSnapshot(r) ==
    /\ rep[r].up /\ rep[r].mode = "serving" /\ rep[r].mem.cf
    /\ rep[r].applied > rep[r].snap.index
    /\ rep' = [rep EXCEPT ![r] = SnapshotFSM(rep[r])]
    /\ UNCHANGED <<log, outcome, crashes, joins>>

(* RocksDB writes its memtables to disk on its own; of interest only when a *)
(* crash can follow.                                                        *)
Flush(r) ==
    /\ rep[r].up /\ rep[r].disk # rep[r].mem /\ crashes < MaxCrashes
    /\ rep' = [rep EXCEPT ![r] = SyncPartition(rep[r])]
    /\ UNCHANGED <<log, outcome, crashes, joins>>

-----------------------------------------------------------------------------
(* joining/restore_fsm.go *)

Stopped(s) == [s EXCEPT !.up = FALSE, !.mem = s.disk, !.restore = Idle,
                        !.mgr = NoSnapshot.mgr, !.applied = 0]

(* Mutation of loadCheckpoint: a newer snapshot does not discard progress. *)
loadCheckpointAnyIndex(kv, min) ==
    IF kv.chk.completed THEN [kv |-> kv, phase |-> "ready", from |-> FirstAddress]
    ELSE [kv |-> kv, phase |-> "waiting",
          from |-> IF kv.chk.last = FirstAddress THEN FirstAddress ELSE NextAddress(kv.chk.last)]

(* loadCheckpoint: where to continue, or whether all is done.  Progress     *)
(* made for an older snapshot is dropped with the whole family.             *)
loadCheckpoint(kv, min) ==
    CASE kv.chk = NoCheckpoint -> [kv |-> kv, phase |-> "waiting", from |-> FirstAddress]
      [] kv.chk # NoCheckpoint /\ kv.chk.min < min -> [kv |-> NoCF, phase |-> "waiting", from |-> FirstAddress]
      [] kv.chk.min >= min /\ kv.chk.completed -> [kv |-> kv, phase |-> "ready", from |-> FirstAddress]
      [] kv.chk.min >= min /\ ~kv.chk.completed ->
            [kv |-> kv, phase |-> "waiting",
             from |-> IF kv.chk.last = FirstAddress THEN FirstAddress ELSE NextAddress(kv.chk.last)]

(* restoreAt begins: for a snapshot, or before the first entry of the log. *)
RestoreAt(r) ==
    LET s == rep[r]
        min == s.snap.index
        l == loadCheckpoint(InitPartition(s.mem), min)
        d == IF l.kv = NoCF THEN NoCF ELSE InitPartition(s.disk)
    IN  /\ s.up /\ s.mode = "joining"
        /\ min > 0 \/ s.have > 0
        /\ \/ s.restore.phase = "idle"
           \/ s.restore.phase = "ready" /\ s.restore.min < min
        /\ rep' = [rep EXCEPT ![r].mem = l.kv, ![r].disk = d,
                      ![r].restore = [phase |-> l.phase, min |-> min, from |-> l.from, rest |-> {}]]
        /\ UNCHANGED <<log, outcome, crashes, joins>>

(* The sponsor q must have applied what the snapshot stands for. *)
StreamPartition(r, q) ==
    /\ rep[r].up /\ rep[r].restore.phase = "waiting"
    /\ rep[q].up /\ rep[q].mode = "serving" /\ rep[q].mem.cf
    /\ GetIndex(rep[q].mem) >= rep[r].restore.min
    /\ rep' = [rep EXCEPT ![r].restore.phase = "streaming",
                          ![r].restore.rest = GetStream(rep[q].mem, rep[r].restore.from)]
    /\ UNCHANGED <<log, outcome, crashes, joins>>

(* A message of the stream is stored with the checkpoint; Put fails, and    *)
(* the process stops, when the family was dropped.                          *)
StreamRecv(r) ==
    LET s == rep[r]
        recs == FirstOf(s.restore.rest, MaxStreamingSize)
        completed == Cardinality(recs) < MaxStreamingSize
        last == IF recs = {} THEN FirstAddress ELSE LastOf(recs)
        chk == [min |-> s.restore.min, last |-> last, completed |-> completed]
        kv == [KVPut(s.mem, IF completed THEN s.restore.min ELSE 0, recs) EXCEPT !.chk = chk]
    IN  /\ s.up /\ s.restore.phase = "streaming"
        /\ rep' = [rep EXCEPT ![r] =
              IF ~s.mem.cf THEN Stopped(s)
              ELSE [s EXCEPT !.mem = kv,
                        !.restore = [phase |-> IF completed THEN "ready" ELSE "streaming", min |-> s.restore.min,
                                     from |-> IF completed THEN FirstAddress ELSE last,
                                     rest |-> s.restore.rest \ recs]]]
        /\ UNCHANGED <<log, outcome, crashes, joins>>

(* The stream breaks; the next one starts at the last address received. *)
StreamFails(r) ==
    /\ rep[r].restore.phase = "streaming"
    /\ rep' = [rep EXCEPT ![r].restore.phase = "waiting", ![r].restore.rest = {}]
    /\ UNCHANGED <<log, outcome, crashes, joins>>

-----------------------------------------------------------------------------
(* The configuration from the control plane and the process *)

Report(r) ==
    /\ rep[r].up /\ rep[r].mode = "joining" /\ rep[r].restore.phase = "ready" /\ ~rep[r].reported
    /\ rep' = [rep EXCEPT ![r].reported = TRUE]
    /\ UNCHANGED <<log, outcome, crashes, joins>>

Join(r) ==
    /\ rep[r].mode = "out" /\ rep[r].up
    /\ crashes + joins < MaxEvents /\ joins' = joins + 1
    /\ rep' = [rep EXCEPT ![r].mode = "joining"]
    /\ UNCHANGED <<log, outcome, crashes>>

(* The replica becomes a voter: a new FSM on the Raft log and snapshot the  *)
(* restoreFsm had.                                                          *)
Promote(r) ==
    /\ rep[r].mode = "joining" /\ rep[r].reported
    /\ rep' = [rep EXCEPT ![r] =
          IF rep[r].up THEN RestoreFSM([rep[r] EXCEPT !.mode = "serving", !.restore = Idle])
          ELSE [rep[r] EXCEPT !.mode = "serving"]]
    /\ UNCHANGED <<log, outcome, crashes, joins>>

Leave(r) ==
    /\ r # Leader /\ rep[r].mode = "serving"
    /\ rep' = [rep EXCEPT ![r].mode = "leaving", ![r].reported = FALSE,
                          ![r].mgr = NoSnapshot.mgr, ![r].applied = 0]
    /\ UNCHANGED <<log, outcome, crashes, joins>>

(* leaving.cleanup drops the Raft state, then the family; the replica may   *)
(* be removed before any of it is done.                                     *)
DropRaft(s) == [s EXCEPT !.have = 0, !.snap = NoSnapshot]

CleanupRaft(r) ==
    /\ rep[r].up /\ rep[r].mode = "leaving" /\ (rep[r].have > 0 \/ rep[r].snap.index > 0)
    /\ rep' = [rep EXCEPT ![r] = DropRaft(rep[r])]
    /\ UNCHANGED <<log, outcome, crashes, joins>>

CleanupDB(r) ==
    /\ rep[r].up /\ rep[r].mode = "leaving" /\ rep[r].have = 0 /\ rep[r].snap.index = 0
    /\ rep[r].mem.cf
    /\ rep' = [rep EXCEPT ![r].mem = NoCF, ![r].disk = NoCF]
    /\ UNCHANGED <<log, outcome, crashes, joins>>

Removed(r) ==
    /\ rep[r].mode = "leaving"
    /\ rep' = [rep EXCEPT ![r].mode = "out"]
    /\ UNCHANGED <<log, outcome, crashes, joins>>

(* The process is killed, or DBBreaker ends it: an operation on the store   *)
(* that keeps failing shuts the server down.                                *)
Crash(r) ==
    /\ rep[r].up /\ rep[r].mode # "out"
    /\ crashes < MaxCrashes /\ crashes + joins < MaxEvents /\ crashes' = crashes + 1
    /\ WithinMargins /\ (rep[r].reported \/ rep[r].mode = "serving") => rep[r].mem.chk = rep[r].disk.chk
    /\ rep' = [rep EXCEPT ![r] = Stopped(rep[r])]
    /\ UNCHANGED <<log, outcome, joins>>

Restart(r) ==
    /\ ~rep[r].up
    /\ rep' = [rep EXCEPT ![r] = IF rep[r].mode = "serving" THEN RestoreFSM(openDB(rep[r])) ELSE openDB(rep[r])]
    /\ UNCHANGED <<log, outcome, crashes, joins>>

Next ==
    \/ \E c \in Requests, cts \in 0 .. Stamp(MaxLog) : Append1(c, cts)
    \/ \E r \in Replicas :
          \/ Receive(r) \/ InstallSnapshot(r) \/ ApplyNext(r) \/ TakeSnapshot(r) \/ Flush(r)
          \/ RestoreAt(r) \/ StreamRecv(r) \/ StreamFails(r)
          \/ \E q \in Replicas : StreamPartition(r, q)
          \/ Report(r) \/ Join(r) \/ Promote(r) \/ Leave(r)
          \/ CleanupRaft(r) \/ CleanupDB(r) \/ Removed(r) \/ Crash(r) \/ Restart(r)

Spec == Init /\ [][Next]_vars

-----------------------------------------------------------------------------
(* Properties *)

TypeOK ==
    /\ Len(outcome) <= Len(log)
    /\ \A r \in Replicas :
          /\ rep[r].mode \in {"out", "joining", "serving", "leaving"}
          /\ rep[r].restore.phase \in {"idle", "waiting", "streaming", "ready"}
          /\ rep[r].mem.cf = rep[r].disk.cf
          /\ rep[r].snap.index <= rep[r].have /\ rep[r].have <= Len(log)
          /\ rep[r].mode = "serving" /\ rep[r].up => rep[r].applied \in rep[r].snap.index .. rep[r].have

Written(n) == UNION {outcome[i].writes : i \in 1 .. n}

(* What the first replica that applied the log wrote up to the index a      *)
(* serving replica stands at is in that replica's store, over crashes that  *)
(* lose the memtables, snapshots, compaction and a join by streaming.       *)
NoDataLoss ==
    \A r \in Replicas : rep[r].mode = "serving" /\ rep[r].up => Written(rep[r].applied) \subseteq rep[r].mem.recs

(* The index stored in a family, which the streamer and FSM.Snapshot rely   *)
(* on, is true of what the family holds, in memory and on disk.             *)
IndexTruthful ==
    \A r \in Replicas : \A kv \in {rep[r].mem, rep[r].disk} : Written(kv.index) \subseteq kv.recs

(* A command that is applied again, by another replica or by the same one   *)
(* after a restart, on a store that may hold the results of it and of later *)
(* commands, has the outcome it had the first time: the same reply and the  *)
(* same versions, and it leaves the manager in the same state.              *)
ReplayAgrees ==
    \A r \in Replicas :
        rep[r].up /\ rep[r].mode = "serving" /\ rep[r].applied < Len(outcome)
            => Outcome(rep[r], rep[r].applied + 1) = outcome[rep[r].applied + 1]

=============================================================================
