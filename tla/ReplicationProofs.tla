-------------------------- MODULE ReplicationProofs --------------------------
(***************************************************************************)
(* Theorems about Replication: whatever is lost in crashes, streamed again *)
(* or replayed, every serving replica goes through the states of the first *)
(* replica that applied the log, and holds what that one wrote.  Every     *)
(* step keeps the invariant of ReplicaProofs.                              *)
(***************************************************************************)
EXTENDS ReplicaProofs

USE ZenonT(30)

(* What no proof below uses. *)
HIDE DEF LeastOf, PredCount, PredSmaller, FirstOfClosed, FirstOfAll,
         LastOfIsLast, WriteConflicts, EntryStep, EffectOfEntry,
         ManagerStep, WriteRecords, HistoryFrame, StoredVersions,
         WrittenUnlocked, HeldSinceKept, LockedUnwrittenKept,
         LaterLockedKept, AddressesKept, OneRunKept, VersionsKept,
         SameValidation, UpdatedTwins, ReturnTwins, ApplyTwins,
         OutcomeTwins, LaterUnread, PutUnites, SnapshotOfServing,
         WrittenGrows, EarlierPosition, Positions, OwnPosition, StoreRecs,
         MessageFacts, ReceivedVersions, MergedIndex, TagRecord, Tagged,
         EntryApplied, NothingForgotten, Puts, SetStatusUpdates,
         SetBothUpdates, ReleaseUpdates, ReleasedFields, DecidedFields,
         ShapeOfPrepared, FinishBatchKeeps, ApplyEffects, RestoreSnapshot,
         FS_CardinalityType, FS_Surjection, FS_Subset, FS_Union, WFMin,
         NatLessThanWellFounded

-----------------------------------------------------------------------------
(* What the actions do to a replica *)

(* A replica gets more of the log. *)
LEMMA ReceiveOK ==
    ASSUME NEW s, ReplicaOK(s), History, NEW n, n \in s.have .. Len(log)
    PROVE  ReplicaOK([s EXCEPT !.have = n])
<1>1. Fields(s)
  BY DEF ReplicaOK
<1>2. PICK t : t = [s EXCEPT !.have = n]
  OBVIOUS
<1>3. Is(t, s.mode, s.up, s.mem, s.disk, s.mgr, s.applied, s.snap, n, s.restore, s.reported)
  <2> DEFINE x == [s EXCEPT !.have = n]
  <2>1. t = x
    BY <1>2
  <2>2. Is(s, s.mode, s.up, s.mem, s.disk, s.mgr, s.applied, s.snap, s.have, s.restore, s.reported)
    BY <1>1, FieldsIs
  <2>3. Is(x, s.mode, s.up, s.mem, s.disk, s.mgr, s.applied, s.snap, n, s.restore, s.reported)
    BY <2>2, SetHave
  <2> HIDE DEF x
  <2> QED BY <2>1, <2>3
<1>4. Len(log) \in Nat /\ N \in Nat
  BY HistoryFacts
<1>8. ReplicaOK(t)
  BY <1>3, <1>4, HaveGrows
<1> QED BY <1>2, <1>8

(* A joining replica is sent the snapshot of replica l. *)
LEMMA InstallOK ==
    ASSUME NEW s, ReplicaOK(s), History, NEW l, ReplicaOK(l), s.mode = "joining",
           s.restore.phase = "idle", ~s.reported
    PROVE  ReplicaOK([s EXCEPT !.snap = l.snap, !.have = l.snap.index])
<1>1. Fields(s)
  BY DEF ReplicaOK
<1>2. PICK t : t = [s EXCEPT !.snap = l.snap, !.have = l.snap.index]
  OBVIOUS
<1>3. Is(t, s.mode, s.up, s.mem, s.disk, s.mgr, s.applied, l.snap, l.snap.index, s.restore, s.reported)
  <2> DEFINE x == [s EXCEPT !.snap = l.snap]
             y == [x EXCEPT !.have = l.snap.index]
  <2>1. t = y
    BY <1>2
  <2>2. Is(s, s.mode, s.up, s.mem, s.disk, s.mgr, s.applied, s.snap, s.have, s.restore, s.reported)
    BY <1>1, FieldsIs
  <2>3. Is(x, s.mode, s.up, s.mem, s.disk, s.mgr, s.applied, l.snap, s.have, s.restore, s.reported)
    BY <2>2, SetSnap
  <2> HIDE DEF x
  <2>4. Is(y, s.mode, s.up, s.mem, s.disk, s.mgr, s.applied, l.snap, l.snap.index, s.restore, s.reported)
    BY <2>3, SetHave
  <2> HIDE DEF y
  <2> QED BY <2>1, <2>4
<1>4. SnapOK(l) /\ N \in Nat /\ N <= Len(log) /\ Len(log) \in Nat
  BY HistoryFacts DEF ReplicaOK
<1>5. SnapOK([snap |-> l.snap, have |-> l.snap.index])
  <2>1. l.snap.index \in 0 .. N /\ l.snap.mgr = Snapshot(With(After(l.snap.index), {}))
    BY <1>4 DEF SnapOK
  <2>2. l.snap.index \in l.snap.index .. Len(log)
    BY <1>4, <2>1, SMTT(60)
  <2> QED BY <1>4, <2>1, <2>2 DEF SnapOK
<1>8. ReplicaOK(t)
  BY <1>3, <1>5, Installs
<1> QED BY <1>2, <1>8

(* The store is written to disk. *)
LEMMA FlushOK ==
    ASSUME NEW s, ReplicaOK(s), History, s.up
    PROVE  ReplicaOK(SyncPartition(s))
<1>1. Fields(s)
  BY DEF ReplicaOK
<1>2. PICK t : t = [s EXCEPT !.disk = s.mem]
  OBVIOUS
<1>3. Is(t, s.mode, s.up, s.mem, s.mem, s.mgr, s.applied, s.snap, s.have, s.restore, s.reported)
  <2> DEFINE x == [s EXCEPT !.disk = s.mem]
  <2>1. t = x
    BY <1>2
  <2>2. Is(s, s.mode, s.up, s.mem, s.disk, s.mgr, s.applied, s.snap, s.have, s.restore, s.reported)
    BY <1>1, FieldsIs
  <2>3. Is(x, s.mode, s.up, s.mem, s.mem, s.mgr, s.applied, s.snap, s.have, s.restore, s.reported)
    BY <2>2, SetDisk
  <2> HIDE DEF x
  <2> QED BY <2>1, <2>3
<1>8. ReplicaOK(t)
  BY <1>3, Flushes
<1>9. SyncPartition(s) = [s EXCEPT !.disk = s.mem]
  BY <1>1 DEF SyncPartition
<1> QED BY <1>2, <1>8, <1>9

(* The stream of a restore breaks. *)
Broken(s) == [s EXCEPT !.restore.phase = "waiting", !.restore.rest = {}]

(* A restore with another phase and rest. *)
LEMMA RestoreRecord ==
    ASSUME NEW z, z = [phase |-> z.phase, min |-> z.min, from |-> z.from, rest |-> z.rest], NEW p, NEW q
    PROVE  [z EXCEPT !.phase = p, !.rest = q] = [phase |-> p, min |-> z.min, from |-> z.from, rest |-> q]
<1> DEFINE x == [z EXCEPT !.phase = p]
           y == [x EXCEPT !.rest = q]
<1>1. [z EXCEPT !.phase = p, !.rest = q] = y
  OBVIOUS
<1>2. x = [phase |-> p, min |-> z.min, from |-> z.from, rest |-> z.rest]
  BY SMTT(60)
<1> HIDE DEF x
<1>3. y = [phase |-> p, min |-> z.min, from |-> z.from, rest |-> q]
  BY <1>2, SMTT(60)
<1> QED BY <1>1, <1>3

(* What was received stays, and the rest is asked for again. *)
LEMMA BreaksOK ==
    ASSUME NEW s, ReplicaOK(s), History, s.restore.phase = "streaming"
    PROVE  ReplicaOK(Broken(s))
<1>1. Fields(s) /\ RestoreOK(s)
  BY DEF ReplicaOK
<1>4. PICK z : z = [s.restore EXCEPT !.phase = "waiting", !.rest = {}]
  OBVIOUS
<1>5. z = [phase |-> "waiting", min |-> s.restore.min, from |-> s.restore.from, rest |-> {}]
  BY <1>1, <1>4, RestoreRecord DEF RestoreOK
<1>2. PICK t : t = [s EXCEPT !.restore = z]
  OBVIOUS
<1>3. Is(t, s.mode, s.up, s.mem, s.disk, s.mgr, s.applied, s.snap, s.have, z, s.reported)
  <2> DEFINE w1 == [s EXCEPT !.restore = z]
  <2>1. t = w1
    BY <1>2
  <2>2. Is(s, s.mode, s.up, s.mem, s.disk, s.mgr, s.applied, s.snap, s.have, s.restore, s.reported)
    BY <1>1, FieldsIs
  <2>3. Is(w1, s.mode, s.up, s.mem, s.disk, s.mgr, s.applied, s.snap, s.have, z, s.reported)
    BY <2>2, SetRestore
  <2> HIDE DEF w1
  <2> QED BY <2>1, <2>3
<1>6. IsStore({})
  BY DEF IsStore
<1>8. ReplicaOK(t)
  BY <1>3, <1>5, <1>6, StreamBreaks
<1>9. Broken(s) = t
  BY <1>2, <1>4 DEF Broken
<1> QED BY <1>8, <1>9

(* The stream of a restore is opened, with what the sponsor has. *)
Opened(s, G) == [s EXCEPT !.restore.phase = "streaming", !.restore.rest = G]

(* A sponsor that has applied the snapshot streams all of it. *)
LEMMA OpensOK ==
    ASSUME NEW s, ReplicaOK(s), History, s.restore.phase = "waiting",
           NEW kv, FamilyOK(kv), kv.index >= s.restore.min
    PROVE  ReplicaOK(Opened(s, GetStream(kv, s.restore.from)))
<1>1. Fields(s) /\ RestoreOK(s)
  BY DEF ReplicaOK
<1>4. PICK z : z = [s.restore EXCEPT !.phase = "streaming", !.rest = GetStream(kv, s.restore.from)]
  OBVIOUS
<1>5. z = [phase |-> "streaming", min |-> s.restore.min, from |-> s.restore.from, rest |-> GetStream(kv, s.restore.from)]
  BY <1>1, <1>4, RestoreRecord DEF RestoreOK
<1>2. PICK t : t = [s EXCEPT !.restore = z]
  OBVIOUS
<1>3. Is(t, s.mode, s.up, s.mem, s.disk, s.mgr, s.applied, s.snap, s.have, z, s.reported)
  <2> DEFINE w1 == [s EXCEPT !.restore = z]
  <2>1. t = w1
    BY <1>2
  <2>2. Is(s, s.mode, s.up, s.mem, s.disk, s.mgr, s.applied, s.snap, s.have, s.restore, s.reported)
    BY <1>1, FieldsIs
  <2>3. Is(w1, s.mode, s.up, s.mem, s.disk, s.mgr, s.applied, s.snap, s.have, z, s.reported)
    BY <2>2, SetRestore
  <2> HIDE DEF w1
  <2> QED BY <2>1, <2>3
<1>8. ReplicaOK(t)
  BY <1>3, <1>5, StreamStarts
<1>9. Opened(s, GetStream(kv, s.restore.from)) = t
  BY <1>2, <1>4 DEF Opened
<1> QED BY <1>8, <1>9

(* The restore is reported. *)
LEMMA ReportOK1 ==
    ASSUME NEW s, ReplicaOK(s), History, s.mode = "joining", s.restore.phase = "ready"
    PROVE  ReplicaOK([s EXCEPT !.reported = TRUE])
<1>1. Fields(s)
  BY DEF ReplicaOK
<1>2. PICK t : t = [s EXCEPT !.reported = TRUE]
  OBVIOUS
<1>3. Is(t, s.mode, s.up, s.mem, s.disk, s.mgr, s.applied, s.snap, s.have, s.restore, TRUE)
  <2> DEFINE x == [s EXCEPT !.reported = TRUE]
  <2>1. t = x
    BY <1>2
  <2>2. Is(s, s.mode, s.up, s.mem, s.disk, s.mgr, s.applied, s.snap, s.have, s.restore, s.reported)
    BY <1>1, FieldsIs
  <2>3. Is(x, s.mode, s.up, s.mem, s.disk, s.mgr, s.applied, s.snap, s.have, s.restore, TRUE)
    BY <2>2, SetReported
  <2> HIDE DEF x
  <2> QED BY <2>1, <2>3
<1>8. ReplicaOK(t)
  BY <1>3, Reports
<1> QED BY <1>2, <1>8

(* A replica joins, whatever is left of an earlier membership. *)
LEMMA JoinOK ==
    ASSUME NEW s, ReplicaOK(s), History, s.mode = "out"
    PROVE  ReplicaOK([s EXCEPT !.mode = "joining"])
<1>1. Fields(s)
  BY DEF ReplicaOK
<1>2. PICK t : t = [s EXCEPT !.mode = "joining"]
  OBVIOUS
<1>3. Is(t, "joining", s.up, s.mem, s.disk, s.mgr, s.applied, s.snap, s.have, s.restore, s.reported)
  <2> DEFINE x == [s EXCEPT !.mode = "joining"]
  <2>1. t = x
    BY <1>2
  <2>2. Is(s, s.mode, s.up, s.mem, s.disk, s.mgr, s.applied, s.snap, s.have, s.restore, s.reported)
    BY <1>1, FieldsIs
  <2>3. Is(x, "joining", s.up, s.mem, s.disk, s.mgr, s.applied, s.snap, s.have, s.restore, s.reported)
    BY <2>2, SetMode
  <2> HIDE DEF x
  <2> QED BY <2>1, <2>3
<1>8. ReplicaOK(t)
  BY <1>3, Joins
<1> QED BY <1>2, <1>8

(* A replica leaves. *)
LEMMA LeaveOK ==
    ASSUME NEW s, ReplicaOK(s), History, s.mode = "serving"
    PROVE  ReplicaOK([s EXCEPT !.mode = "leaving", !.reported = FALSE, !.mgr = NoSnapshot.mgr, !.applied = 0])
<1>1. Fields(s)
  BY DEF ReplicaOK
<1>2. PICK t : t = [s EXCEPT !.mode = "leaving", !.reported = FALSE, !.mgr = NoSnapshot.mgr, !.applied = 0]
  OBVIOUS
<1>3. Is(t, "leaving", s.up, s.mem, s.disk, NoSnapshot.mgr, 0, s.snap, s.have, s.restore, FALSE)
  <2> DEFINE x == [s EXCEPT !.mode = "leaving"]
             y == [x EXCEPT !.reported = FALSE]
             z == [y EXCEPT !.mgr = NoSnapshot.mgr]
             u == [z EXCEPT !.applied = 0]
  <2>1. t = u
    BY <1>2
  <2>2. Is(s, s.mode, s.up, s.mem, s.disk, s.mgr, s.applied, s.snap, s.have, s.restore, s.reported)
    BY <1>1, FieldsIs
  <2>3. Is(x, "leaving", s.up, s.mem, s.disk, s.mgr, s.applied, s.snap, s.have, s.restore, s.reported)
    BY <2>2, SetMode
  <2> HIDE DEF x
  <2>4. Is(y, "leaving", s.up, s.mem, s.disk, s.mgr, s.applied, s.snap, s.have, s.restore, FALSE)
    BY <2>3, SetReported
  <2> HIDE DEF y
  <2>5. Is(z, "leaving", s.up, s.mem, s.disk, NoSnapshot.mgr, s.applied, s.snap, s.have, s.restore, FALSE)
    BY <2>4, SetMgr
  <2> HIDE DEF z
  <2>6. Is(u, "leaving", s.up, s.mem, s.disk, NoSnapshot.mgr, 0, s.snap, s.have, s.restore, FALSE)
    BY <2>5, SetApplied
  <2> HIDE DEF u
  <2> QED BY <2>1, <2>6
<1>8. ReplicaOK(t)
  BY <1>3, Leaves
<1> QED BY <1>2, <1>8

(* Its Raft state is dropped. *)
LEMMA CleanupRaftOK ==
    ASSUME NEW s, ReplicaOK(s), History, s.mode = "leaving"
    PROVE  ReplicaOK(DropRaft(s))
<1>1. Fields(s)
  BY DEF ReplicaOK
<1>2. PICK t : t = [s EXCEPT !.have = 0, !.snap = NoSnapshot]
  OBVIOUS
<1>3. Is(t, s.mode, s.up, s.mem, s.disk, s.mgr, s.applied, NoSnapshot, 0, s.restore, s.reported)
  <2> DEFINE x == [s EXCEPT !.have = 0]
             y == [x EXCEPT !.snap = NoSnapshot]
  <2>1. t = y
    BY <1>2
  <2>2. Is(s, s.mode, s.up, s.mem, s.disk, s.mgr, s.applied, s.snap, s.have, s.restore, s.reported)
    BY <1>1, FieldsIs
  <2>3. Is(x, s.mode, s.up, s.mem, s.disk, s.mgr, s.applied, s.snap, 0, s.restore, s.reported)
    BY <2>2, SetHave
  <2> HIDE DEF x
  <2>4. Is(y, s.mode, s.up, s.mem, s.disk, s.mgr, s.applied, NoSnapshot, 0, s.restore, s.reported)
    BY <2>3, SetSnap
  <2> HIDE DEF y
  <2> QED BY <2>1, <2>4
<1>8. ReplicaOK(t)
  BY <1>3, DropsRaft
<1>9. DropRaft(s) = [s EXCEPT !.have = 0, !.snap = NoSnapshot]
  BY <1>1 DEF DropRaft
<1> QED BY <1>2, <1>8, <1>9

(* Its family is dropped. *)
LEMMA CleanupDBOK ==
    ASSUME NEW s, ReplicaOK(s), History, s.mode = "leaving"
    PROVE  ReplicaOK([s EXCEPT !.mem = NoCF, !.disk = NoCF])
<1>1. Fields(s)
  BY DEF ReplicaOK
<1>2. PICK t : t = [s EXCEPT !.mem = NoCF, !.disk = NoCF]
  OBVIOUS
<1>3. Is(t, s.mode, s.up, NoCF, NoCF, s.mgr, s.applied, s.snap, s.have, s.restore, s.reported)
  <2> DEFINE x == [s EXCEPT !.mem = NoCF]
             y == [x EXCEPT !.disk = NoCF]
  <2>1. t = y
    BY <1>2
  <2>2. Is(s, s.mode, s.up, s.mem, s.disk, s.mgr, s.applied, s.snap, s.have, s.restore, s.reported)
    BY <1>1, FieldsIs
  <2>3. Is(x, s.mode, s.up, NoCF, s.disk, s.mgr, s.applied, s.snap, s.have, s.restore, s.reported)
    BY <2>2, SetMem
  <2> HIDE DEF x
  <2>4. Is(y, s.mode, s.up, NoCF, NoCF, s.mgr, s.applied, s.snap, s.have, s.restore, s.reported)
    BY <2>3, SetDisk
  <2> HIDE DEF y
  <2> QED BY <2>1, <2>4
<1>4. FamilyOK(NoCF)
  BY NoFamily
<1>8. ReplicaOK(t)
  BY <1>3, <1>4, DropsStore
<1> QED BY <1>2, <1>8

(* It is removed. *)
LEMMA RemovedOK ==
    ASSUME NEW s, ReplicaOK(s), History, s.mode = "leaving"
    PROVE  ReplicaOK([s EXCEPT !.mode = "out"])
<1>1. Fields(s)
  BY DEF ReplicaOK
<1>2. PICK t : t = [s EXCEPT !.mode = "out"]
  OBVIOUS
<1>3. Is(t, "out", s.up, s.mem, s.disk, s.mgr, s.applied, s.snap, s.have, s.restore, s.reported)
  <2> DEFINE x == [s EXCEPT !.mode = "out"]
  <2>1. t = x
    BY <1>2
  <2>2. Is(s, s.mode, s.up, s.mem, s.disk, s.mgr, s.applied, s.snap, s.have, s.restore, s.reported)
    BY <1>1, FieldsIs
  <2>3. Is(x, "out", s.up, s.mem, s.disk, s.mgr, s.applied, s.snap, s.have, s.restore, s.reported)
    BY <2>2, SetMode
  <2> HIDE DEF x
  <2> QED BY <2>1, <2>3
<1>8. ReplicaOK(t)
  BY <1>3, IsRemoved
<1> QED BY <1>2, <1>8

(* The process stops. *)
LEMMA StoppedOK ==
    ASSUME NEW s, ReplicaOK(s), History, s.up,
           s.reported \/ s.mode = "serving" => s.mem.chk = s.disk.chk
    PROVE  ReplicaOK(Stopped(s))
<1>1. Fields(s)
  BY DEF ReplicaOK
<1>2. PICK t : t = [s EXCEPT !.up = FALSE, !.mem = s.disk, !.restore = Idle, !.mgr = NoSnapshot.mgr, !.applied = 0]
  OBVIOUS
<1>3. Is(t, s.mode, FALSE, s.disk, s.disk, NoSnapshot.mgr, 0, s.snap, s.have, Idle, s.reported)
  <2> DEFINE x == [s EXCEPT !.up = FALSE]
             y == [x EXCEPT !.mem = s.disk]
             z == [y EXCEPT !.restore = Idle]
             u == [z EXCEPT !.mgr = NoSnapshot.mgr]
             v == [u EXCEPT !.applied = 0]
  <2>1. t = v
    BY <1>2
  <2>2. Is(s, s.mode, s.up, s.mem, s.disk, s.mgr, s.applied, s.snap, s.have, s.restore, s.reported)
    BY <1>1, FieldsIs
  <2>3. Is(x, s.mode, FALSE, s.mem, s.disk, s.mgr, s.applied, s.snap, s.have, s.restore, s.reported)
    BY <2>2, SetUp
  <2> HIDE DEF x
  <2>4. Is(y, s.mode, FALSE, s.disk, s.disk, s.mgr, s.applied, s.snap, s.have, s.restore, s.reported)
    BY <2>3, SetMem
  <2> HIDE DEF y
  <2>5. Is(z, s.mode, FALSE, s.disk, s.disk, s.mgr, s.applied, s.snap, s.have, Idle, s.reported)
    BY <2>4, SetRestore
  <2> HIDE DEF z
  <2>6. Is(u, s.mode, FALSE, s.disk, s.disk, NoSnapshot.mgr, s.applied, s.snap, s.have, Idle, s.reported)
    BY <2>5, SetMgr
  <2> HIDE DEF u
  <2>7. Is(v, s.mode, FALSE, s.disk, s.disk, NoSnapshot.mgr, 0, s.snap, s.have, Idle, s.reported)
    BY <2>6, SetApplied
  <2> HIDE DEF v
  <2> QED BY <2>1, <2>7
<1>4. IsStore({})
  BY DEF IsStore
<1>8. ReplicaOK(t)
  BY <1>3, <1>4, Stops
<1>9. Stopped(s) = [s EXCEPT !.up = FALSE, !.mem = s.disk, !.restore = Idle, !.mgr = NoSnapshot.mgr, !.applied = 0]
  BY <1>1 DEF Stopped
<1> QED BY <1>2, <1>8, <1>9

(* FSM.Snapshot. *)
LEMMA SnapshotFSMOK ==
    ASSUME NEW s, ReplicaOK(s), History, s.up, s.mode = "serving"
    PROVE  ReplicaOK(SnapshotFSM(s))
<1>1. PICK y : y = SyncPartition(s)
  OBVIOUS
<1>2. Is(s, s.mode, s.up, s.mem, s.disk, s.mgr, s.applied, s.snap, s.have, s.restore, s.reported)
  BY FieldsIs DEF ReplicaOK
<1>3. Is(y, s.mode, s.up, s.mem, s.mem, s.mgr, s.applied, s.snap, s.have, s.restore, s.reported)
  BY <1>1, <1>2, SetDisk DEF SyncPartition
<1>4. CASE GetIndex(y.disk) = s.applied
  <2>1. y.applied = s.applied /\ y.mgr = s.mgr /\ y.mem = s.mem
    BY <1>3 DEF Is
  <2>2. PICK snap : snap = [index |-> s.applied, mgr |-> Snapshot(Manager(s))]
    OBVIOUS
  <2>3. PICK t : t = [y EXCEPT !.snap = snap]
    OBVIOUS
  <2>4. Is(t, s.mode, s.up, s.mem, s.mem, s.mgr, s.applied, snap, s.have, s.restore, s.reported)
    BY <1>3, <2>3, SetSnap
  <2>5. ReplicaOK(t)
    BY <2>2, <2>4, Persists
  <2>6. Manager(y) = Manager(s)
    BY <2>1 DEF Manager
  <2>7. SnapshotFSM(s) = t
    BY <1>1, <1>4, <2>1, <2>2, <2>3, <2>6 DEF SnapshotFSM, Persist
  <2> QED BY <2>5, <2>7
<1>5. CASE GetIndex(y.disk) # s.applied
  <2>1. SnapshotFSM(s) = SyncPartition(s)
    BY <1>1, <1>5 DEF SnapshotFSM
  <2> QED BY <2>1, FlushOK
<1> QED BY <1>4, <1>5

(* restoreAt. *)
RestoredAt(s) ==
    LET l == loadCheckpoint(InitPartition(s.mem), s.snap.index) IN
    [s EXCEPT !.mem = l.kv, !.disk = IF l.kv = NoCF THEN NoCF ELSE InitPartition(s.disk),
              !.restore = [phase |-> l.phase, min |-> s.snap.index, from |-> l.from, rest |-> {}]]

(* A restore begins, where the last one for the snapshot ended. *)
LEMMA RestoresOK ==
    ASSUME NEW s, ReplicaOK(s), History, s.mode = "joining", s.up
    PROVE  ReplicaOK(RestoredAt(s))
<1> DEFINE kv == InitPartition(s.mem)
           l == loadCheckpoint(kv, s.snap.index)
           d == IF l.kv = NoCF THEN NoCF ELSE InitPartition(s.disk)
<1>1. /\ FamilyOK(s.mem) /\ FamilyOK(s.disk) /\ SnapOK(s) /\ ReportOK(s) /\ Fields(s) /\ s.up = TRUE
      /\ s.snap.index \in 0 .. N
  BY DEF ReplicaOK, SnapOK
<1>2. FamilyOK(kv) /\ kv.cf = TRUE /\ kv.recs = s.mem.recs /\ kv.chk = s.mem.chk
  BY <1>1, InitKeeps
<1> HIDE DEF kv
<1>3. Continues(l, kv, s.snap.index)
  BY <1>1, <1>2, Checkpoint
<1> HIDE DEF l
<1>4. /\ l.kv = kv \/ l.kv = NoCF
      /\ l.phase \in {"waiting", "ready"} /\ IsAddress(l.from)
      /\ l.phase = "waiting" => \A w \in Written(s.snap.index) : Before(AddressOf(w), l.from) => w \in l.kv.recs
      /\ l.phase = "ready" => l.kv = kv /\ kv.chk.completed /\ kv.chk.min >= s.snap.index
      /\ kv.chk.completed /\ kv.chk.min >= s.snap.index => l.phase = "ready"
  BY <1>3 DEF Continues
<1>5. FamilyOK(l.kv) /\ FamilyOK(d) /\ l.kv.cf = d.cf
  <2>1. CASE l.kv = NoCF
    BY <2>1, NoFamily
  <2>2. CASE l.kv # NoCF
    BY <1>1, <1>2, <1>4, <2>2, InitKeeps
  <2> QED BY <2>1, <2>2
<1> HIDE DEF d
<1>6. s.reported => l.phase = "ready"
  BY <1>1, <1>2, <1>4 DEF ReportOK
<1>7. PICK z : z = [phase |-> l.phase, min |-> s.snap.index, from |-> l.from, rest |-> {}]
  OBVIOUS
<1>8. l.phase = "ready" => l.kv.chk.completed /\ l.kv.chk.min >= s.snap.index
  BY <1>4
<1>9. PICK t : t = [s EXCEPT !.mem = l.kv, !.disk = d, !.restore = z]
  OBVIOUS
<1>10. Is(t, s.mode, s.up, l.kv, d, s.mgr, s.applied, s.snap, s.have, z, s.reported)
  <2> DEFINE w1 == [s EXCEPT !.mem = l.kv]
             w2 == [w1 EXCEPT !.disk = d]
             w3 == [w2 EXCEPT !.restore = z]
  <2>1. t = w3
    BY <1>9
  <2>2. Is(s, s.mode, s.up, s.mem, s.disk, s.mgr, s.applied, s.snap, s.have, s.restore, s.reported)
    BY <1>1, FieldsIs
  <2>3. Is(w1, s.mode, s.up, l.kv, s.disk, s.mgr, s.applied, s.snap, s.have, s.restore, s.reported)
    BY <2>2, SetMem
  <2> HIDE DEF w1
  <2>4. Is(w2, s.mode, s.up, l.kv, d, s.mgr, s.applied, s.snap, s.have, s.restore, s.reported)
    BY <2>3, SetDisk
  <2> HIDE DEF w2
  <2>5. Is(w3, s.mode, s.up, l.kv, d, s.mgr, s.applied, s.snap, s.have, z, s.reported)
    BY <2>4, SetRestore
  <2> HIDE DEF w3
  <2> QED BY <2>1, <2>5
<1>11. ReplicaOK(t)
  BY <1>1, <1>4, <1>5, <1>6, <1>7, <1>8, <1>10, Begins
<1>12. RestoredAt(s) = t
  BY <1>7, <1>9 DEF RestoredAt, l, kv, d
<1> QED BY <1>11, <1>12

(* A family with other records, index and checkpoint. *)
Rewritten(kv, R, j, c) == [[kv EXCEPT !.recs = R, !.index = j] EXCEPT !.chk = c]

(* The record that it is. *)
LEMMA FamilyRecord ==
    ASSUME NEW kv, FamilyOK(kv), NEW R, NEW j, NEW c
    PROVE  Rewritten(kv, R, j, c) = [cf |-> kv.cf, recs |-> R, index |-> j, chk |-> c]
<1> DEFINE x == [kv EXCEPT !.recs = R]
           y == [x EXCEPT !.index = j]
           z == [y EXCEPT !.chk = c]
<1>1. Rewritten(kv, R, j, c) = z
  BY DEF Rewritten
<1>2. x = [cf |-> kv.cf, recs |-> R, index |-> kv.index, chk |-> kv.chk]
  BY SMTT(60) DEF FamilyOK
<1> HIDE DEF x
<1>3. y = [cf |-> kv.cf, recs |-> R, index |-> j, chk |-> kv.chk]
  BY <1>2, SMTT(60)
<1> HIDE DEF y
<1>4. z = [cf |-> kv.cf, recs |-> R, index |-> j, chk |-> c]
  BY <1>3, SMTT(60)
<1> QED BY <1>1, <1>4

(* A message of the stream. *)
Received(s) ==
    LET recs == FirstOf(s.restore.rest, MaxStreamingSize)
        completed == Cardinality(recs) < MaxStreamingSize
        last == IF recs = {} THEN FirstAddress ELSE LastOf(recs)
        chk == [min |-> s.restore.min, last |-> last, completed |-> completed]
        kv == [KVPut(s.mem, IF completed THEN s.restore.min ELSE 0, recs) EXCEPT !.chk = chk]
    IN  IF ~s.mem.cf THEN Stopped(s)
        ELSE [s EXCEPT !.mem = kv,
                  !.restore = [phase |-> IF completed THEN "ready" ELSE "streaming", min |-> s.restore.min,
                               from |-> IF completed THEN FirstAddress ELSE last,
                               rest |-> s.restore.rest \ recs]]

(* A message is stored, or the process stops. *)
LEMMA ReceivedOK ==
    ASSUME NEW s, ReplicaOK(s), History, s.up, s.restore.phase = "streaming"
    PROVE  ReplicaOK(Received(s))
<1> DEFINE recs == FirstOf(s.restore.rest, MaxStreamingSize)
           last == IF recs = {} THEN FirstAddress ELSE LastOf(recs)
           completed == Cardinality(recs) < MaxStreamingSize
           kv == ReceivedFamily(s, recs, completed, last)
           rest == s.restore.rest \ recs
<1>1. /\ FamilyOK(s.mem) /\ SnapOK(s) /\ RestoreOK(s) /\ ReportOK(s) /\ Fields(s)
      /\ s.mode = "joining" /\ ~s.reported
  BY DEF ReplicaOK, RestoreOK, ReportOK
<1>2. CASE ~s.mem.cf
  <2>1. Received(s) = Stopped(s)
    BY <1>2 DEF Received
  <2>2. ~(s.reported \/ s.mode = "serving")
    BY <1>1
  <2> QED BY <2>1, <2>2, StoppedOK
<1>3. CASE s.mem.cf
  <2>1. /\ FamilyOK(kv) /\ kv.cf = s.mem.cf
        /\ kv.chk.completed = completed /\ kv.chk.min = s.restore.min
        /\ IsAddress(last) /\ IsStore(rest)
        /\ \A w \in Written(s.restore.min) : Before(AddressOf(w), last) => w \in kv.recs
        /\ Written(s.restore.min) \subseteq kv.recs \cup rest
    <3>1. completed \in BOOLEAN
      BY SMTT(60)
    <3>2. PICK S, a, c : S = recs /\ a = last /\ c = completed
      OBVIOUS
    <3>3. S = FirstOf(s.restore.rest, MaxStreamingSize) /\ a = (IF S = {} THEN FirstAddress ELSE LastOf(S))
      BY <3>2
    <3>4. c <=> Cardinality(S) < MaxStreamingSize
      BY <3>2
    <3> HIDE DEF completed, recs, last
    <3>5. c \in BOOLEAN
      BY <3>1, <3>2
    <3>6. MessageKept(s, S, c, a)
      BY <1>1, <1>3, <3>3, <3>4, <3>5, ReceivedKV
    <3>7. MessageKept(s, recs, completed, last)
      BY <3>2, <3>6
    <3> QED BY <3>7 DEF MessageKept
  <2>2. kv = [KVPut(s.mem, IF completed THEN s.restore.min ELSE 0, recs) EXCEPT
                 !.chk = [min |-> s.restore.min, last |-> last, completed |-> completed]]
    <3> HIDE DEF completed, last, recs
    <3>2. PICK R, j, c : /\ R = Put(s.mem.recs, recs)
                         /\ j = mergeMaxIndex(s.mem.index, IF completed THEN s.restore.min ELSE 0)
                         /\ c = [min |-> s.restore.min, last |-> last, completed |-> completed]
      OBVIOUS
    <3>3. KVPut(s.mem, IF completed THEN s.restore.min ELSE 0, recs) = [s.mem EXCEPT !.recs = R, !.index = j]
      BY <3>2 DEF KVPut
    <3>4. kv = [cf |-> s.mem.cf, recs |-> R, index |-> j, chk |-> c]
      BY <3>2 DEF ReceivedFamily
    <3>5. Rewritten(s.mem, R, j, c) = [cf |-> s.mem.cf, recs |-> R, index |-> j, chk |-> c]
      <4>1. FamilyOK(s.mem)
        BY <1>1
      <4> QED BY <4>1, FamilyRecord
    <3>6. [KVPut(s.mem, IF completed THEN s.restore.min ELSE 0, recs) EXCEPT !.chk = c] = Rewritten(s.mem, R, j, c)
      BY <3>3 DEF Rewritten
    <3> QED BY <3>2, <3>4, <3>5, <3>6
  <2>3. PICK z : z = [phase |-> IF completed THEN "ready" ELSE "streaming", min |-> s.restore.min,
                      from |-> IF completed THEN FirstAddress ELSE last, rest |-> rest]
    OBVIOUS
  <2>4. PICK t : t = [s EXCEPT !.mem = kv, !.restore = z]
    OBVIOUS
  <2>5. Received(s) = t
    BY <1>3, <2>2, <2>3, <2>4 DEF Received
  <2> HIDE DEF kv, rest, last, completed, recs
  <2>6. Is(t, s.mode, s.up, kv, s.disk, s.mgr, s.applied, s.snap, s.have, z, s.reported)
    <3> DEFINE w1 == [s EXCEPT !.mem = kv]
               w2 == [w1 EXCEPT !.restore = z]
    <3>1. t = w2
      BY <2>4
    <3>2. Is(s, s.mode, s.up, s.mem, s.disk, s.mgr, s.applied, s.snap, s.have, s.restore, s.reported)
      BY <1>1, FieldsIs
    <3>3. Is(w1, s.mode, s.up, kv, s.disk, s.mgr, s.applied, s.snap, s.have, s.restore, s.reported)
      BY <3>2, SetMem
    <3> HIDE DEF w1
    <3>4. Is(w2, s.mode, s.up, kv, s.disk, s.mgr, s.applied, s.snap, s.have, z, s.reported)
      BY <3>3, SetRestore
    <3> HIDE DEF w2
    <3> QED BY <3>1, <3>4
  <2>7. CASE completed
    <3>1. z = [phase |-> "ready", min |-> s.restore.min, from |-> FirstAddress, rest |-> rest]
      BY <2>3, <2>7
    <3>2. kv.chk.completed
      BY <2>1, <2>7
    <3>3. ReplicaOK(t)
      BY <1>3, <2>1, <2>6, <3>1, <3>2, ReceivesLast
    <3> QED BY <2>5, <3>3
  <2>8. CASE ~completed
    <3>1. z = [phase |-> "streaming", min |-> s.restore.min, from |-> last, rest |-> rest]
      BY <2>3, <2>8
    <3>2. ReplicaOK(t)
      BY <1>3, <2>1, <2>6, <3>1, ReceivesMore
    <3> QED BY <2>5, <3>2
  <2> QED BY <2>7, <2>8
<1> QED BY <1>2, <1>3

(* A replica becomes a voter, on the snapshot and the log that it has. *)
LEMMA PromoteOK ==
    ASSUME NEW s, ReplicaOK(s), History, s.mode = "joining", s.reported
    PROVE  ReplicaOK(IF s.up THEN RestoreFSM([s EXCEPT !.mode = "serving", !.restore = Idle])
                     ELSE [s EXCEPT !.mode = "serving"])
<1>1. Is(s, s.mode, s.up, s.mem, s.disk, s.mgr, s.applied, s.snap, s.have, s.restore, s.reported)
  BY FieldsIs DEF ReplicaOK
<1>2. CASE s.up
  <2>1. PICK x : x = [s EXCEPT !.mode = "serving"]
    OBVIOUS
  <2>2. PICK y : y = [x EXCEPT !.restore = Idle]
    OBVIOUS
  <2>3. [s EXCEPT !.mode = "serving", !.restore = Idle] = y
    BY <2>1, <2>2
  <2>4. Is(x, "serving", s.up, s.mem, s.disk, s.mgr, s.applied, s.snap, s.have, s.restore, s.reported)
    BY <1>1, <2>1, SetMode
  <2>5. Is(y, "serving", s.up, s.mem, s.disk, s.mgr, s.applied, s.snap, s.have, Idle, s.reported)
    BY <2>2, <2>4, SetRestore
  <2>6. y.snap = s.snap
    BY <2>5 DEF Is
  <2>7. PICK m : m = WithoutStore(Restore(s.snap.mgr, {}))
    OBVIOUS
  <2>8. PICK u : u = [y EXCEPT !.applied = s.snap.index]
    OBVIOUS
  <2>9. PICK t : t = [u EXCEPT !.mgr = m]
    OBVIOUS
  <2>10. RestoreFSM(y) = t
    BY <2>6, <2>7, <2>8, <2>9 DEF RestoreFSM
  <2>11. Is(u, "serving", s.up, s.mem, s.disk, s.mgr, s.snap.index, s.snap, s.have, Idle, s.reported)
    BY <2>5, <2>8, SetApplied
  <2>12. Is(t, "serving", s.up, s.mem, s.disk, m, s.snap.index, s.snap, s.have, Idle, s.reported)
    BY <2>9, <2>11, SetMgr
  <2>13. s.up = TRUE /\ s.mode \in {"joining", "serving"} /\ s.mode # "serving"
    BY <1>2 DEF ReplicaOK
  <2>14. ReplicaOK(t)
    BY <1>2, <2>7, <2>12, <2>13, Serves
  <2> QED BY <1>2, <2>3, <2>10, <2>14
<1>3. CASE ~s.up
  <2>1. PICK t : t = [s EXCEPT !.mode = "serving"]
    OBVIOUS
  <2>2. Is(t, "serving", s.up, s.mem, s.disk, s.mgr, s.applied, s.snap, s.have, s.restore, s.reported)
    BY <1>1, <2>1, SetMode
  <2>3. ReplicaOK(t)
    BY <1>3, <2>2, PromotedStopped
  <2> QED BY <1>3, <2>1, <2>3
<1> QED BY <1>2, <1>3

(* The process starts again, with what is on disk. *)
LEMMA RestartOK ==
    ASSUME NEW s, ReplicaOK(s), History, ~s.up
    PROVE  ReplicaOK(IF s.mode = "serving" THEN RestoreFSM(openDB(s)) ELSE openDB(s))
<1>1. Is(s, s.mode, s.up, s.mem, s.disk, s.mgr, s.applied, s.snap, s.have, s.restore, s.reported)
  BY FieldsIs DEF ReplicaOK
<1>2. probeCFs(s.disk) = s.mem
  BY DEF ReplicaOK, FamilyOK, probeCFs
<1>3. PICK x : x = [s EXCEPT !.up = TRUE]
  OBVIOUS
<1>4. PICK y : y = [x EXCEPT !.mem = s.mem]
  OBVIOUS
<1>5. openDB(s) = y
  BY <1>2, <1>3, <1>4 DEF openDB
<1>6. Is(x, s.mode, TRUE, s.mem, s.disk, s.mgr, s.applied, s.snap, s.have, s.restore, s.reported)
  BY <1>1, <1>3, SetUp
<1>7. Is(y, s.mode, TRUE, s.mem, s.disk, s.mgr, s.applied, s.snap, s.have, s.restore, s.reported)
  BY <1>4, <1>6, SetMem
<1>8. CASE s.mode = "serving"
  <2>1. y.snap = s.snap
    BY <1>7 DEF Is
  <2>2. PICK m : m = WithoutStore(Restore(s.snap.mgr, {}))
    OBVIOUS
  <2>3. PICK u : u = [y EXCEPT !.applied = s.snap.index]
    OBVIOUS
  <2>4. PICK t : t = [u EXCEPT !.mgr = m]
    OBVIOUS
  <2>5. RestoreFSM(y) = t
    BY <2>1, <2>2, <2>3, <2>4 DEF RestoreFSM
  <2>6. Is(u, s.mode, TRUE, s.mem, s.disk, s.mgr, s.snap.index, s.snap, s.have, s.restore, s.reported)
    BY <1>7, <2>3, SetApplied
  <2>7. Is(t, s.mode, TRUE, s.mem, s.disk, m, s.snap.index, s.snap, s.have, s.restore, s.reported)
    BY <2>4, <2>6, SetMgr
  <2>8. Is(t, "serving", TRUE, s.mem, s.disk, m, s.snap.index, s.snap, s.have, s.restore, s.reported)
    BY <1>8, <2>7
  <2>9. s.mode \in {"joining", "serving"} /\ s.mode # "joining"
    BY <1>8
  <2>10. ReplicaOK(t)
    BY <1>8, <2>2, <2>8, <2>9, Serves
  <2> QED BY <1>5, <1>8, <2>5, <2>10
<1>9. CASE s.mode # "serving"
  <2>1. ReplicaOK(y)
    BY <1>7, <1>9, OpensDB
  <2> QED BY <1>5, <1>9, <2>1
<1> QED BY <1>8, <1>9

(* The position after the last one. *)
LEMMA LastPosition ==
    ASSUME NEW n \in Nat
    PROVE  /\ n + 1 \in Nat /\ n + 1 > n /\ n < n + 1 /\ n <= n + 1 /\ n <= n
           /\ \A a \in Nat : a <= n => n + 1 \in a .. (n + 1) /\ (a < n \/ a = n)
           /\ \A a \in Nat : \A h \in a .. n : a < h => a < n
           /\ \A a \in Nat : a < n => a + 1 \in a .. n
BY SMTT(60)

-----------------------------------------------------------------------------
(* The steps *)

(* A step that leaves the log and the outcomes alone. *)
LEMMA Unmoved ==
    ASSUME History, log' = log, outcome' = outcome
    PROVE  History' /\ Grown
<1>1. N' = N /\ (\A i : After(i)' = After(i)) /\ (\A i : Written(i)' = Written(i))
  BY DEF N, After, Written
<1>2. History'
  <2>1. LogOK'
    BY <1>1 DEF History, LogOK
  <2>2. ManagersOK'
    BY <1>1 DEF History, ManagersOK
  <2>3. OneRun'
    BY <1>1 DEF History, OneRun
  <2>4. HeldSince'
    BY <1>1 DEF History, HeldSince
  <2>5. VersionsOK'
    BY <1>1 DEF History, VersionsOK
  <2>6. LockedUnwritten'
    BY <1>1 DEF History, LockedUnwritten
  <2>7. LaterLocked'
    BY <1>1 DEF History, LaterLocked
  <2>8. AddressesDiffer'
    BY <1>1, SMTT(60) DEF History, AddressesDiffer
  <2> QED BY <2>1, <2>2, <2>3, <2>4, <2>5, <2>6, <2>7, <2>8 DEF History
<1>3. N <= N' /\ Len(log) <= Len(log')
  BY <1>1, HistoryFacts, LastPosition
<1>4. Grown
  BY <1>1, <1>2, <1>3, HistoryGrown
<1> QED BY <1>2, <1>4

(* A step that changes one replica. *)
LEMMA OneChanges ==
    ASSUME ReplicasOK, Grown, NEW r \in Replicas, NEW t, ReplicaOK(t)',
           rep' = [rep EXCEPT ![r] = t], r = Leader => t.mode = "serving"
    PROVE  ReplicasOK'
<1>1. /\ rep = [x \in Replicas |-> rep[x]] /\ \A x \in Replicas : ReplicaOK(rep[x])
      /\ rep[Leader].mode = "serving"
  BY DEF ReplicasOK
<1>2. /\ rep' = [x \in Replicas |-> rep'[x]] /\ rep'[r] = t
      /\ \A x \in Replicas : x # r => rep'[x] = rep[x]
  BY <1>1
<1>3. ASSUME NEW x \in Replicas PROVE ReplicaOK(rep[x])'
  <2>1. CASE x = r
    BY <1>2, <2>1
  <2>2. CASE x # r
    <3>1. PICK s : s = rep[x]
      OBVIOUS
    <3>2. ReplicaOK(s)
      BY <1>1, <3>1
    <3>3. ReplicaOK(s)'
      BY <3>2, ReplicaGrown
    <3>4. s = rep'[x]
      BY <1>2, <2>2, <3>1
    <3> QED BY <3>3, <3>4
  <2> QED BY <2>1, <2>2
<1>4. rep'[Leader].mode = "serving"
  <2>1. Leader \in Replicas
    BY ReplicationAssumption
  <2> QED BY <1>1, <1>2, <2>1
<1> QED BY <1>2, <1>3, <1>4 DEF ReplicasOK

(* A step that changes one replica and nothing of the log. *)
LEMMA OneReplica ==
    ASSUME Inv, log' = log, outcome' = outcome, NEW r \in Replicas, NEW t, ReplicaOK(t),
           rep' = [rep EXCEPT ![r] = t], r = Leader => t.mode = "serving"
    PROVE  Inv'
<1>1. History' /\ Grown /\ ReplicasOK
  BY Unmoved DEF Inv
<1>2. ReplicaOK(t)'
  BY <1>1, ReplicaGrown
<1>3. ReplicasOK'
  BY <1>1, <1>2, OneChanges
<1> QED BY <1>1, <1>3 DEF Inv

(* The operations that do not change the mode of a replica. *)
LEMMA ModeKept ==
    ASSUME NEW s, Fields(s)
    PROVE  /\ SyncPartition(s).mode = s.mode /\ SnapshotFSM(s).mode = s.mode
           /\ Stopped(s).mode = s.mode /\ openDB(s).mode = s.mode /\ RestoreFSM(openDB(s)).mode = s.mode
           /\ \A i, o : ApplyEntry(s, i, o).mode = s.mode
           /\ \A n : [s EXCEPT !.have = n].mode = s.mode
<1>1. SyncPartition(s).mode = s.mode
  BY DEF Fields, SyncPartition
<1>2. SnapshotFSM(s).mode = s.mode
  BY DEF Fields, SyncPartition, SnapshotFSM, Persist
<1>3. Stopped(s).mode = s.mode
  BY DEF Fields, Stopped
<1>4. openDB(s).mode = s.mode
  BY DEF Fields, openDB
<1>5. RestoreFSM(openDB(s)).mode = s.mode
  BY DEF Fields, openDB, RestoreFSM
<1>6. \A i, o : ApplyEntry(s, i, o).mode = s.mode
  BY DEF Fields, ApplyEntry
<1>7. \A n : [s EXCEPT !.have = n].mode = s.mode
  BY DEF Fields
<1> QED BY <1>1, <1>2, <1>3, <1>4, <1>5, <1>6, <1>7

(* A replica gets the next entry. *)
LEMMA ReceiveStep ==
    ASSUME Inv, WithinMargins, ~Retention, NEW r \in Replicas, Receive(r)
    PROVE  Inv'
<1>1. PICK s : s = rep[r]
  OBVIOUS
<1>2. /\ ReplicaOK(s) /\ History /\ Fields(s) /\ (r = Leader => s.mode = "serving")
      /\ rep = [x \in Replicas |-> rep[x]]
  BY <1>1 DEF Inv, ReplicasOK, ReplicaOK
<1>3. s.have < Len(log)
  BY <1>1 DEF Receive
<1>4. PICK t : t = [s EXCEPT !.have = s.have + 1]
  OBVIOUS
<1>5. rep' = [rep EXCEPT ![r] = t] /\ log' = log /\ outcome' = outcome
  BY <1>1, <1>4 DEF Receive
<1>8. s.have + 1 \in s.have .. Len(log)
  <2>1. SnapOK(s) /\ Len(log) \in Nat /\ N \in Nat
    BY <1>2, HistoryFacts DEF ReplicaOK
  <2> QED BY <1>3, <2>1, StandsAt, LastPosition
<1>6. ReplicaOK(t)
  BY <1>2, <1>8, <1>4, ReceiveOK
<1>7. r = Leader => t.mode = "serving"
  BY <1>2, <1>4, ModeKept
<1> QED BY <1>5, <1>6, <1>7, OneReplica

(* A joining replica that has nothing is sent the snapshot. *)
LEMMA InstallStep ==
    ASSUME Inv, WithinMargins, ~Retention, NEW r \in Replicas, InstallSnapshot(r)
    PROVE  Inv'
<1>1. PICK s : s = rep[r]
  OBVIOUS
<1>2. /\ ReplicaOK(s) /\ History /\ Fields(s) /\ (r = Leader => s.mode = "serving")
      /\ rep = [x \in Replicas |-> rep[x]]
  BY <1>1 DEF Inv, ReplicasOK, ReplicaOK
<1>3. s.mode \in {"joining", "serving"} /\ s.mode # "serving" /\ s.restore.phase = "idle" /\ ~s.reported
  BY <1>1 DEF InstallSnapshot, Follows
<1>4. PICK t : t = [s EXCEPT !.snap = rep[Leader].snap, !.have = rep[Leader].snap.index]
  OBVIOUS
<1>5. rep' = [rep EXCEPT ![r] = t] /\ log' = log /\ outcome' = outcome
  <2>1. t.mode # "serving"
    <3>1. t.mode = s.mode
      BY <1>2, <1>4 DEF Fields
    <3> QED BY <1>3, <3>1
  <2> QED BY <1>1, <1>4, <2>1 DEF InstallSnapshot
<1>8. s.mode = "joining"
  BY <1>3
<1>9. ReplicaOK(rep[Leader])
  BY ReplicationAssumption DEF Inv, ReplicasOK
<1>6. ReplicaOK(t)
  BY <1>2, <1>3, <1>8, <1>9, <1>4, InstallOK
<1>7. r = Leader => t.mode = "serving"
  BY <1>2, <1>3
<1> QED BY <1>5, <1>6, <1>7, OneReplica

(* FSM.Snapshot. *)
LEMMA TakeSnapshotStep ==
    ASSUME Inv, WithinMargins, ~Retention, NEW r \in Replicas, TakeSnapshot(r)
    PROVE  Inv'
<1>1. PICK s : s = rep[r]
  OBVIOUS
<1>2. /\ ReplicaOK(s) /\ History /\ Fields(s) /\ (r = Leader => s.mode = "serving")
      /\ rep = [x \in Replicas |-> rep[x]]
  BY <1>1 DEF Inv, ReplicasOK, ReplicaOK
<1>3. s.up /\ s.mode = "serving"
  BY <1>1 DEF TakeSnapshot
<1>4. PICK t : t = SnapshotFSM(s)
  OBVIOUS
<1>5. rep' = [rep EXCEPT ![r] = t] /\ log' = log /\ outcome' = outcome
  BY <1>1, <1>4 DEF TakeSnapshot
<1>6. ReplicaOK(t)
  BY <1>2, <1>3, <1>4, SnapshotFSMOK
<1>7. r = Leader => t.mode = "serving"
  BY <1>2, <1>4, ModeKept
<1> QED BY <1>5, <1>6, <1>7, OneReplica

(* RocksDB writes to disk. *)
LEMMA FlushStep ==
    ASSUME Inv, WithinMargins, ~Retention, NEW r \in Replicas, Flush(r)
    PROVE  Inv'
<1>1. PICK s : s = rep[r]
  OBVIOUS
<1>2. /\ ReplicaOK(s) /\ History /\ Fields(s) /\ (r = Leader => s.mode = "serving")
      /\ rep = [x \in Replicas |-> rep[x]]
  BY <1>1 DEF Inv, ReplicasOK, ReplicaOK
<1>3. s.up
  BY <1>1 DEF Flush
<1>4. PICK t : t = SyncPartition(s)
  OBVIOUS
<1>5. rep' = [rep EXCEPT ![r] = t] /\ log' = log /\ outcome' = outcome
  BY <1>1, <1>4 DEF Flush
<1>6. ReplicaOK(t)
  BY <1>2, <1>3, <1>4, FlushOK
<1>7. r = Leader => t.mode = "serving"
  BY <1>2, <1>4, ModeKept
<1> QED BY <1>5, <1>6, <1>7, OneReplica

(* A restore begins. *)
LEMMA RestoreAtStep ==
    ASSUME Inv, WithinMargins, ~Retention, NEW r \in Replicas, RestoreAt(r)
    PROVE  Inv'
<1>1. PICK s : s = rep[r]
  OBVIOUS
<1>2. /\ ReplicaOK(s) /\ History /\ Fields(s) /\ (r = Leader => s.mode = "serving")
      /\ rep = [x \in Replicas |-> rep[x]]
  BY <1>1 DEF Inv, ReplicasOK, ReplicaOK
<1>3. s.up /\ s.mode = "joining"
  BY <1>1 DEF RestoreAt
<1>4. PICK t : t = RestoredAt(s)
  OBVIOUS
<1>5. rep' = [rep EXCEPT ![r] = t] /\ log' = log /\ outcome' = outcome
  BY <1>1, <1>4 DEF RestoreAt, RestoredAt
<1>6. ReplicaOK(t)
  BY <1>2, <1>3, <1>4, RestoresOK
<1>7. r = Leader => t.mode = "serving"
  BY <1>2, <1>3
<1> QED BY <1>5, <1>6, <1>7, OneReplica

(* A stream is opened. *)
LEMMA StreamPartitionStep ==
    ASSUME Inv, WithinMargins, ~Retention, NEW r \in Replicas, NEW q \in Replicas, StreamPartition(r, q)
    PROVE  Inv'
<1>1. PICK s : s = rep[r]
  OBVIOUS
<1>2. /\ ReplicaOK(s) /\ History /\ Fields(s) /\ (r = Leader => s.mode = "serving")
      /\ rep = [x \in Replicas |-> rep[x]]
  BY <1>1 DEF Inv, ReplicasOK, ReplicaOK
<1>3. s.restore.phase = "waiting" /\ rep[q].mem.index >= s.restore.min
  BY <1>1 DEF StreamPartition, GetIndex
<1>4. PICK t : t = Opened(s, GetStream(rep[q].mem, s.restore.from))
  OBVIOUS
<1>5. rep' = [rep EXCEPT ![r] = t] /\ log' = log /\ outcome' = outcome
  BY <1>1, <1>4 DEF StreamPartition, Opened
<1>8. FamilyOK(rep[q].mem)
  BY DEF Inv, ReplicasOK, ReplicaOK
<1>6. ReplicaOK(t)
  BY <1>2, <1>3, <1>8, <1>4, OpensOK
<1>7. r = Leader => t.mode = "serving"
  BY <1>2, <1>3 DEF ReplicaOK, RestoreOK
<1> QED BY <1>5, <1>6, <1>7, OneReplica

(* A message arrives. *)
LEMMA StreamRecvStep ==
    ASSUME Inv, WithinMargins, ~Retention, NEW r \in Replicas, StreamRecv(r)
    PROVE  Inv'
<1>1. PICK s : s = rep[r]
  OBVIOUS
<1>2. /\ ReplicaOK(s) /\ History /\ Fields(s) /\ (r = Leader => s.mode = "serving")
      /\ rep = [x \in Replicas |-> rep[x]]
  BY <1>1 DEF Inv, ReplicasOK, ReplicaOK
<1>3. s.up /\ s.restore.phase = "streaming"
  BY <1>1 DEF StreamRecv
<1>4. PICK t : t = Received(s)
  OBVIOUS
<1>5. rep' = [rep EXCEPT ![r] = t] /\ log' = log /\ outcome' = outcome
  BY <1>1, <1>4 DEF StreamRecv, Received
<1>6. ReplicaOK(t)
  BY <1>2, <1>3, <1>4, ReceivedOK
<1>7. r = Leader => t.mode = "serving"
  BY <1>2, <1>3 DEF ReplicaOK, RestoreOK
<1> QED BY <1>5, <1>6, <1>7, OneReplica

(* The stream breaks. *)
LEMMA StreamFailsStep ==
    ASSUME Inv, WithinMargins, ~Retention, NEW r \in Replicas, StreamFails(r)
    PROVE  Inv'
<1>1. PICK s : s = rep[r]
  OBVIOUS
<1>2. /\ ReplicaOK(s) /\ History /\ Fields(s) /\ (r = Leader => s.mode = "serving")
      /\ rep = [x \in Replicas |-> rep[x]]
  BY <1>1 DEF Inv, ReplicasOK, ReplicaOK
<1>3. s.restore.phase = "streaming"
  BY <1>1 DEF StreamFails
<1>4. PICK t : t = Broken(s)
  OBVIOUS
<1>5. rep' = [rep EXCEPT ![r] = t] /\ log' = log /\ outcome' = outcome
  BY <1>1, <1>4 DEF StreamFails, Broken
<1>6. ReplicaOK(t)
  BY <1>2, <1>3, <1>4, BreaksOK
<1>7. r = Leader => t.mode = "serving"
  BY <1>2, <1>3 DEF ReplicaOK, RestoreOK
<1> QED BY <1>5, <1>6, <1>7, OneReplica

(* The restore is reported. *)
LEMMA ReportStep ==
    ASSUME Inv, WithinMargins, ~Retention, NEW r \in Replicas, Report(r)
    PROVE  Inv'
<1>1. PICK s : s = rep[r]
  OBVIOUS
<1>2. /\ ReplicaOK(s) /\ History /\ Fields(s) /\ (r = Leader => s.mode = "serving")
      /\ rep = [x \in Replicas |-> rep[x]]
  BY <1>1 DEF Inv, ReplicasOK, ReplicaOK
<1>3. s.mode = "joining" /\ s.restore.phase = "ready"
  BY <1>1 DEF Report
<1>4. PICK t : t = [s EXCEPT !.reported = TRUE]
  OBVIOUS
<1>5. rep' = [rep EXCEPT ![r] = t] /\ log' = log /\ outcome' = outcome
  BY <1>1, <1>4 DEF Report
<1>6. ReplicaOK(t)
  BY <1>2, <1>3, <1>4, ReportOK1
<1>7. r = Leader => t.mode = "serving"
  BY <1>2, <1>3
<1> QED BY <1>5, <1>6, <1>7, OneReplica

(* A replica joins. *)
LEMMA JoinStep ==
    ASSUME Inv, WithinMargins, ~Retention, NEW r \in Replicas, Join(r)
    PROVE  Inv'
<1>1. PICK s : s = rep[r]
  OBVIOUS
<1>2. /\ ReplicaOK(s) /\ History /\ Fields(s) /\ (r = Leader => s.mode = "serving")
      /\ rep = [x \in Replicas |-> rep[x]]
  BY <1>1 DEF Inv, ReplicasOK, ReplicaOK
<1>3. s.mode = "out"
  BY <1>1 DEF Join
<1>4. PICK t : t = [s EXCEPT !.mode = "joining"]
  OBVIOUS
<1>5. rep' = [rep EXCEPT ![r] = t] /\ log' = log /\ outcome' = outcome
  BY <1>1, <1>4 DEF Join
<1>6. ReplicaOK(t)
  BY <1>2, <1>3, <1>4, JoinOK
<1>7. r = Leader => t.mode = "serving"
  BY <1>2, <1>3
<1> QED BY <1>5, <1>6, <1>7, OneReplica

(* A replica becomes a voter. *)
LEMMA PromoteStep ==
    ASSUME Inv, WithinMargins, ~Retention, NEW r \in Replicas, Promote(r)
    PROVE  Inv'
<1>1. PICK s : s = rep[r]
  OBVIOUS
<1>2. /\ ReplicaOK(s) /\ History /\ Fields(s) /\ (r = Leader => s.mode = "serving")
      /\ rep = [x \in Replicas |-> rep[x]]
  BY <1>1 DEF Inv, ReplicasOK, ReplicaOK
<1>3. s.mode = "joining" /\ s.reported
  BY <1>1 DEF Promote
<1>4. PICK t : t = IF s.up THEN RestoreFSM([s EXCEPT !.mode = "serving", !.restore = Idle])
                   ELSE [s EXCEPT !.mode = "serving"]
  OBVIOUS
<1>5. rep' = [rep EXCEPT ![r] = t] /\ log' = log /\ outcome' = outcome
  BY <1>1, <1>4 DEF Promote
<1>6. ReplicaOK(t)
  BY <1>2, <1>3, <1>4, PromoteOK
<1>7. r = Leader => t.mode = "serving"
  BY <1>2, <1>3
<1> QED BY <1>5, <1>6, <1>7, OneReplica

(* A replica leaves. *)
LEMMA LeaveStep ==
    ASSUME Inv, WithinMargins, ~Retention, NEW r \in Replicas, Leave(r)
    PROVE  Inv'
<1>1. PICK s : s = rep[r]
  OBVIOUS
<1>2. /\ ReplicaOK(s) /\ History /\ Fields(s) /\ (r = Leader => s.mode = "serving")
      /\ rep = [x \in Replicas |-> rep[x]]
  BY <1>1 DEF Inv, ReplicasOK, ReplicaOK
<1>3. s.mode = "serving" /\ r # Leader
  BY <1>1 DEF Leave
<1>4. PICK t : t = [s EXCEPT !.mode = "leaving", !.reported = FALSE, !.mgr = NoSnapshot.mgr, !.applied = 0]
  OBVIOUS
<1>5. rep' = [rep EXCEPT ![r] = t] /\ log' = log /\ outcome' = outcome
  BY <1>1, <1>4 DEF Leave
<1>6. ReplicaOK(t)
  BY <1>2, <1>3, <1>4, LeaveOK
<1>7. r = Leader => t.mode = "serving"
  BY <1>2, <1>3
<1> QED BY <1>5, <1>6, <1>7, OneReplica

(* Its Raft state is dropped. *)
LEMMA CleanupRaftStep ==
    ASSUME Inv, WithinMargins, ~Retention, NEW r \in Replicas, CleanupRaft(r)
    PROVE  Inv'
<1>1. PICK s : s = rep[r]
  OBVIOUS
<1>2. /\ ReplicaOK(s) /\ History /\ Fields(s) /\ (r = Leader => s.mode = "serving")
      /\ rep = [x \in Replicas |-> rep[x]]
  BY <1>1 DEF Inv, ReplicasOK, ReplicaOK
<1>3. s.mode = "leaving"
  BY <1>1 DEF CleanupRaft
<1>4. PICK t : t = DropRaft(s)
  OBVIOUS
<1>5. rep' = [rep EXCEPT ![r] = t] /\ log' = log /\ outcome' = outcome
  BY <1>1, <1>4 DEF CleanupRaft
<1>6. ReplicaOK(t)
  BY <1>2, <1>3, <1>4, CleanupRaftOK
<1>7. r = Leader => t.mode = "serving"
  BY <1>2, <1>3
<1> QED BY <1>5, <1>6, <1>7, OneReplica

(* Its family is dropped. *)
LEMMA CleanupDBStep ==
    ASSUME Inv, WithinMargins, ~Retention, NEW r \in Replicas, CleanupDB(r)
    PROVE  Inv'
<1>1. PICK s : s = rep[r]
  OBVIOUS
<1>2. /\ ReplicaOK(s) /\ History /\ Fields(s) /\ (r = Leader => s.mode = "serving")
      /\ rep = [x \in Replicas |-> rep[x]]
  BY <1>1 DEF Inv, ReplicasOK, ReplicaOK
<1>3. s.mode = "leaving"
  BY <1>1 DEF CleanupDB
<1>4. PICK t : t = [s EXCEPT !.mem = NoCF, !.disk = NoCF]
  OBVIOUS
<1>5. rep' = [rep EXCEPT ![r] = t] /\ log' = log /\ outcome' = outcome
  BY <1>1, <1>4 DEF CleanupDB
<1>6. ReplicaOK(t)
  BY <1>2, <1>3, <1>4, CleanupDBOK
<1>7. r = Leader => t.mode = "serving"
  BY <1>2, <1>3
<1> QED BY <1>5, <1>6, <1>7, OneReplica

(* It is removed. *)
LEMMA RemovedStep ==
    ASSUME Inv, WithinMargins, ~Retention, NEW r \in Replicas, Removed(r)
    PROVE  Inv'
<1>1. PICK s : s = rep[r]
  OBVIOUS
<1>2. /\ ReplicaOK(s) /\ History /\ Fields(s) /\ (r = Leader => s.mode = "serving")
      /\ rep = [x \in Replicas |-> rep[x]]
  BY <1>1 DEF Inv, ReplicasOK, ReplicaOK
<1>3. s.mode = "leaving"
  BY <1>1 DEF Removed
<1>4. PICK t : t = [s EXCEPT !.mode = "out"]
  OBVIOUS
<1>5. rep' = [rep EXCEPT ![r] = t] /\ log' = log /\ outcome' = outcome
  BY <1>1, <1>4 DEF Removed
<1>6. ReplicaOK(t)
  BY <1>2, <1>3, <1>4, RemovedOK
<1>7. r = Leader => t.mode = "serving"
  BY <1>2, <1>3
<1> QED BY <1>5, <1>6, <1>7, OneReplica

(* The process ends. *)
LEMMA CrashStep ==
    ASSUME Inv, WithinMargins, ~Retention, NEW r \in Replicas, Crash(r)
    PROVE  Inv'
<1>1. PICK s : s = rep[r]
  OBVIOUS
<1>2. /\ ReplicaOK(s) /\ History /\ Fields(s) /\ (r = Leader => s.mode = "serving")
      /\ rep = [x \in Replicas |-> rep[x]]
  BY <1>1 DEF Inv, ReplicasOK, ReplicaOK
<1>3. s.up /\ (s.reported \/ s.mode = "serving" => s.mem.chk = s.disk.chk)
  BY <1>1 DEF Crash
<1>4. PICK t : t = Stopped(s)
  OBVIOUS
<1>5. rep' = [rep EXCEPT ![r] = t] /\ log' = log /\ outcome' = outcome
  BY <1>1, <1>4 DEF Crash
<1>6. ReplicaOK(t)
  BY <1>2, <1>3, <1>4, StoppedOK
<1>7. r = Leader => t.mode = "serving"
  BY <1>2, <1>4, ModeKept
<1> QED BY <1>5, <1>6, <1>7, OneReplica

(* The process starts. *)
LEMMA RestartStep ==
    ASSUME Inv, WithinMargins, ~Retention, NEW r \in Replicas, Restart(r)
    PROVE  Inv'
<1>1. PICK s : s = rep[r]
  OBVIOUS
<1>2. /\ ReplicaOK(s) /\ History /\ Fields(s) /\ (r = Leader => s.mode = "serving")
      /\ rep = [x \in Replicas |-> rep[x]]
  BY <1>1 DEF Inv, ReplicasOK, ReplicaOK
<1>3. ~s.up
  BY <1>1 DEF Restart
<1>4. PICK t : t = IF s.mode = "serving" THEN RestoreFSM(openDB(s)) ELSE openDB(s)
  OBVIOUS
<1>5. rep' = [rep EXCEPT ![r] = t] /\ log' = log /\ outcome' = outcome
  BY <1>1, <1>4 DEF Restart
<1>6. ReplicaOK(t)
  BY <1>2, <1>3, <1>4, RestartOK
<1>7. r = Leader => t.mode = "serving"
  BY <1>2, <1>4, ModeKept
<1> QED BY <1>5, <1>6, <1>7, OneReplica

(* The next entry is applied: again, or for the first time by any replica.  *)
(* That one has written what was written before, and nothing else.          *)
LEMMA ApplyNextStep ==
    ASSUME Inv, WithinMargins, ~Retention, NEW r \in Replicas, ApplyNext(r)
    PROVE  Inv'
<1>1. PICK s : s = rep[r]
  OBVIOUS
<1>2. /\ ReplicaOK(s) /\ History /\ Fields(s) /\ (r = Leader => s.mode = "serving") /\ ReplicasOK
      /\ FamilyOK(s.mem) /\ SnapOK(s) /\ ServingOK(s) /\ IsStore(s.mem.recs)
  BY <1>1 DEF Inv, ReplicasOK, ReplicaOK, FamilyOK
<1>3. /\ s.up /\ s.mode = "serving" /\ s.applied < s.have /\ (s.mem.cf \/ s.applied = 0)
      /\ outcome' = IF s.applied + 1 > Len(outcome) THEN Append(outcome, Outcome(s, s.applied + 1)) ELSE outcome
      /\ rep' = [rep EXCEPT ![r] = ApplyEntry(s, s.applied + 1, 0)] /\ log' = log
  BY <1>1 DEF ApplyNext
<1>4. /\ s.applied \in Nat /\ s.applied <= N /\ N \in Nat /\ Len(log) \in Nat /\ s.applied < Len(log)
      /\ s.mgr = After(s.applied) /\ Written(s.applied) \subseteq s.mem.recs
  BY <1>2, <1>3, ServesAt, LastPosition
<1>5. PICK t : t = ApplyEntry(s, s.applied + 1, 0)
  OBVIOUS
<1>6. r = Leader => t.mode = "serving"
  <2>1. \A i, o : ApplyEntry(s, i, o).mode = s.mode
    BY <1>2, ModeKept
  <2> QED BY <1>3, <1>5, <2>1
<1>7. rep' = [rep EXCEPT ![r] = t]
  BY <1>3, <1>5
<1>8. CASE s.applied < N
  <2>1. outcome' = outcome
    BY <1>3, <1>4, <1>8, NextPosition DEF N
  <2>2. ReplicaOK(t)
    BY <1>2, <1>3, <1>5, <1>8, Applies DEF AppliesWell
  <2> QED BY <1>3, <1>6, <1>7, <2>1, <2>2, OneReplica
<1>9. CASE s.applied = N
  <2>1. s.mem.recs = Written(N)
    BY <1>2, <1>4, <1>9 DEF IsStore
  <2>2. Manager(s) = With(After(N), Written(N))
    BY <1>4, <1>9, <2>1 DEF Manager, With
  <2>3. Outcome(s, N + 1) = OutcomeOf(With(After(N), Written(N)), log[N + 1])
    BY <2>2 DEF Outcome, OutcomeOf
  <2>4. s.applied + 1 > Len(outcome) /\ N < Len(log)
    BY <1>4, <1>9, LastPosition DEF N
  <2>5. outcome' = Append(outcome, OutcomeOf(With(After(N), Written(N)), log[N + 1]))
    BY <1>3, <1>9, <2>3, <2>4
  <2>6. History' /\ N' = N + 1 /\ \A i \in 0 .. N : After(i)' = After(i) /\ Written(i)' = Written(i)
    BY <1>2, <1>3, <2>4, <2>5, HistoryApplies
  <2>7. \A i \in 1 .. N : outcome'[i] = outcome[i]
    <3>1. IsSeq(outcome)
      BY <1>2 DEF History, LogOK
    <3>2. \A e : \A i \in 1 .. N : Append(outcome, e)[i] = outcome[i]
      BY <3>1, AppendFacts DEF N
    <3> QED BY <2>5, <3>2
  <2>8. N <= N' /\ Len(log) <= Len(log')
    BY <1>3, <1>4, <2>6, LastPosition
  <2>9. Grown
    BY <1>2, <2>6, <2>7, <2>8, HistoryGrown
  <2>10. ReplicaOK(s)'
    BY <1>2, <2>9, ReplicaGrown
  <2>11. AppliesWell'
    BY Applies, PTL
  <2>12. s.applied < N'
    BY <1>4, <1>9, <2>6, LastPosition
  <2>13. ApplyEntry(s, s.applied + 1, 0)' = t
    BY <1>3, <1>5 DEF ApplyEntry
  <2>14. ReplicaOK(ApplyEntry(s, s.applied + 1, 0))'
    BY <1>3, <2>6, <2>10, <2>11, <2>12 DEF AppliesWell
  <2>15. ReplicaOK(t)'
    BY <2>13, <2>14
  <2>16. ReplicasOK'
    BY <1>2, <1>6, <1>7, <2>9, <2>15, OneChanges
  <2> QED BY <2>6, <2>16 DEF Inv
<1> QED BY <1>4, <1>8, <1>9, LastPosition

(* More of the log, for any replica. *)
HaveWell == \A s, n : History /\ ReplicaOK(s) /\ n \in s.have .. Len(log) => ReplicaOK([s EXCEPT !.have = n])

(* HaveWell holds in every state: ReceiveOK, for all replicas at once. *)
LEMMA HaveMore == HaveWell
  BY ReceiveOK DEF HaveWell

(* A command with its timestamps is an entry of the log. *)
LEMMA EntryAppended ==
    ASSUME NEW c \in Requests, NEW i \in Nat, NEW cts \in Nat, cts <= Stamp(i),
           NEW e, e = [c EXCEPT !.ts = Stamp(i), !.cts = cts]
    PROVE  IsEntry(e, i)
<1>1. /\ c.op \in CommandOps /\ c.id \in Ids /\ IsTxn(c.txn)
      /\ c = [op |-> c.op, id |-> c.id, txn |-> c.txn, pids |-> c.pids, principal |-> c.principal,
              ts |-> 0, cts |-> 0, release |-> c.release]
  BY RequestsAssumption DEF CommandOps, Ids, IsTxn
<1>2. e.op = c.op /\ e.id = c.id /\ e.txn = c.txn /\ e.ts = Stamp(i) /\ e.cts = cts
  BY <1>1
<1> QED BY <1>1, <1>2 DEF IsEntry

(* The leader appends a command. *)
LEMMA AppendStep ==
    ASSUME Inv, NEW c \in Requests, NEW cts \in 0 .. Stamp(MaxLog), Append1(c, cts)
    PROVE  Inv'
<1>1. PICK s : s = rep[Leader]
  OBVIOUS
<1>2. Leader \in Replicas /\ {MaxLog} \subseteq Nat
  BY ReplicationAssumption
<1>3. /\ ReplicaOK(s) /\ History /\ Fields(s) /\ s.mode = "serving" /\ SnapOK(s) /\ ReplicasOK
      /\ rep = [x \in Replicas |-> rep[x]] /\ IsSeq(log)
  BY <1>1, <1>2 DEF Inv, ReplicasOK, ReplicaOK, History, LogOK
<1>4. Len(log) \in Nat /\ N \in Nat /\ cts \in Nat
  <2>1. cts \in Nat
    BY <1>2, SMTT(60) DEF Stamp
  <2> QED BY <1>3, <2>1, HistoryFacts
<1>5. PICK n : n = Len(log) + 1
  OBVIOUS
<1>6. PICK e : e = [c EXCEPT !.ts = Stamp(n), !.cts = cts]
  OBVIOUS
<1>7. cts <= Stamp(n)
  <2>1. IF c.op \in {"Commit", "StoreDecision"} THEN cts <= Stamp(n) ELSE cts = 0
    BY <1>5 DEF Append1
  <2> QED BY <1>4, <1>5, <2>1, SMTT(60) DEF Stamp
<1>8. /\ log' = Append(log, e) /\ outcome' = outcome
      /\ rep' = [rep EXCEPT ![Leader] = [s EXCEPT !.have = n]]
  BY <1>1, <1>5, <1>6 DEF Append1
<1>9. n \in Nat
  BY <1>4, <1>5, LastPosition
<1>10. IsEntry(e, Len(log) + 1)
  BY <1>4, <1>5, <1>6, <1>7, <1>9, EntryAppended
<1>11. History'
  BY <1>3, <1>8, <1>10, HistoryLogs
<1>12. Len(log') = n
  BY <1>3, <1>5, <1>8, AppendFacts
<1>13. Grown
  <2>1. N' = N /\ (\A i : After(i)' = After(i)) /\ (\A i : Written(i)' = Written(i))
    BY <1>8 DEF N, After, Written
  <2>2. N <= N' /\ Len(log) <= Len(log')
    <3>1. N <= N /\ Len(log) <= Len(log) + 1
      BY <1>4, LastPosition
    <3> QED BY <1>5, <1>12, <2>1, <3>1
  <2> QED BY <1>3, <1>8, <1>11, <2>1, <2>2, HistoryGrown
<1>14. ReplicaOK(s)'
  BY <1>3, <1>13, ReplicaGrown
<1>16. HaveWell'
  BY HaveMore, PTL
<1>17. n \in s.have .. Len(log')
  <2>1. s.have \in Nat /\ s.have <= Len(log)
    BY <1>3, <1>4, StandsAt
  <2>2. Len(log) + 1 \in s.have .. (Len(log) + 1)
    BY <1>4, <2>1, LastPosition
  <2> QED BY <1>5, <1>12, <2>2
<1>18. PICK t : t = [s EXCEPT !.have = n]
  OBVIOUS
<1>19. ReplicaOK(t)'
  BY <1>11, <1>14, <1>16, <1>17, <1>18 DEF HaveWell
<1>20. t.mode = "serving"
  BY <1>3, <1>18, ModeKept
<1>21. rep' = [rep EXCEPT ![Leader] = t]
  BY <1>8, <1>18
<1>22. ReplicasOK'
  BY <1>2, <1>3, <1>13, <1>19, <1>20, <1>21, OneChanges
<1> QED BY <1>11, <1>22 DEF Inv

-----------------------------------------------------------------------------
(* The initial state *)

(* The manager of a new partition. *)
LEMMA NewManagerOK == MgrOK(WithoutStore(NewManager(Ids)), 0)
<1> DEFINE m == WithoutStore(NewManager(Ids))
<1>1. /\ m = [status |-> m.status, prepared |-> m.prepared, maxTs |-> m.maxTs]
      /\ m.status = [id \in Ids |-> NoStatus] /\ m.prepared = [id \in Ids |-> NoPrepared] /\ m.maxTs = 0
  BY DEF WithoutStore, NewManager
<1> HIDE DEF m
<1>2. \A id \in Ids : m.status[id] = NoStatus /\ m.prepared[id] = NoPrepared
  BY <1>1
<1>3. /\ NoPrepared.released = TRUE /\ NoPrepared.locks = {} /\ NoPrepared.txn = {} /\ NoPrepared.ts = 0
      /\ NoPrepared = [present |-> NoPrepared.present, txn |-> NoPrepared.txn, pids |-> NoPrepared.pids,
                       ts |-> NoPrepared.ts, locks |-> NoPrepared.locks,
                       released |-> NoPrepared.released, decision |-> NoPrepared.decision]
  BY DEF NoPrepared
<1>4. NoStatus.state = "none"
  BY DEF NoStatus, Status
<1>5. /\ With(m, {}).status = m.status /\ With(m, {}).prepared = m.prepared
      /\ With(m, {}) = [status |-> With(m, {}).status, prepared |-> With(m, {}).prepared,
                        maxTs |-> With(m, {}).maxTs, db |-> With(m, {}).db]
  BY DEF With
<1>6. NoPrepared.released \in BOOLEAN /\ NoStatus.state \in States
  <2>1. NoStatus.state \in States
    BY <1>4 DEF States, FinalStates
  <2> QED BY <1>3, <2>1
<1>7. Shape(With(m, {}), Ids)
  <2>1. m.status = [i \in Ids |-> m.status[i]] /\ m.prepared = [i \in Ids |-> m.prepared[i]]
    BY <1>1
  <2>2. \A i \in Ids : m.prepared[i] =
          [present |-> m.prepared[i].present, txn |-> m.prepared[i].txn,
           pids |-> m.prepared[i].pids, ts |-> m.prepared[i].ts,
           locks |-> m.prepared[i].locks, released |-> m.prepared[i].released,
           decision |-> m.prepared[i].decision]
    BY <1>2, <1>3
  <2>3. \A i \in Ids : m.prepared[i].released \in BOOLEAN /\ m.status[i].state \in States
    BY <1>2, <1>6
  <2> QED BY <1>5, <2>1, <2>2, <2>3 DEF Shape
<1>8. EntryOK(NoStatus, NoPrepared, 0)
  <2>1. IsTxn({})
    BY FS_EmptySet DEF IsTxn
  <2>2. NoStatus.state \notin {"Prepared", "Decided"} /\ ~IsFinal(NoStatus.state)
    BY <1>4 DEF IsFinal, FinalStates
  <2>3. NoPrepared.ts \in Nat /\ NoPrepared.ts <= Stamp(0)
    BY <1>3, SMTT(60) DEF Stamp
  <2> QED BY <1>3, <2>1, <2>2, <2>3 DEF EntryOK
<1>9. \A id \in Ids : EntryOK(m.status[id], m.prepared[id], 0) /\ ~Holds(m, id)
  BY <1>2, <1>3, <1>8 DEF Holds
<1>10. m = WithoutStore(m)
  BY <1>1 DEF WithoutStore
<1>11. MgrOK(m, 0)
  BY <1>7, <1>9, <1>10 DEF MgrOK
<1> QED BY <1>11 DEF m

(* The history of an empty log. *)
LEMMA NoHistory ==
    ASSUME log = <<>>, outcome = <<>>
    PROVE  History /\ N = 0
<1>1. N = 0 /\ Len(log) = 0 /\ IsSeq(log) /\ IsSeq(outcome)
  <2>1. <<>> \in Seq(Nat)
    BY SMTT(60)
  <2> QED BY <2>1 DEF N, IsSeq
<1>2. 1 .. N = {} /\ 0 .. N = {0} /\ 1 .. Len(log) = {}
  BY <1>1, SMTT(60)
<1>3. After(0) = WithoutStore(NewManager(Ids)) /\ Written(N) = {}
  BY <1>2 DEF After, Written
<1>4. MgrOK(After(0), 0)
  BY <1>3, NewManagerOK
<1>5. LogOK
  BY <1>1, <1>2, SMTT(60) DEF LogOK, N
<1>6. ManagersOK
  BY <1>2, <1>4 DEF ManagersOK
<1>7. OneRun
  BY <1>2 DEF OneRun
<1>8. HeldSince
  BY <1>1, <1>2 DEF HeldSince
<1>9. VersionsOK
  BY <1>2, <1>3, FS_EmptySet DEF VersionsOK
<1>10. LockedUnwritten
  BY <1>2 DEF LockedUnwritten
<1>11. LaterLocked
  BY <1>2 DEF LaterLocked
<1>12. AddressesDiffer
  BY <1>2 DEF AddressesDiffer
<1> QED BY <1>1, <1>5, <1>6, <1>7, <1>8, <1>9, <1>10, <1>11, <1>12 DEF History

(* A replica that has nothing yet. *)
LEMMA NewReplicaOK ==
    ASSUME History, NEW mode, mode \in {"serving", "out"}
    PROVE  ReplicaOK(NewReplica(mode)) /\ NewReplica(mode).mode = mode
<1>1. N \in Nat /\ Len(log) \in Nat /\ Written(0) = {} /\ Written(-1) = {} /\ MgrOK(After(0), 0)
  <2>1. MgrOK(After(0), 0)
    BY HistoryFacts, ZeroPosition DEF History, ManagersOK
  <2> QED BY <2>1, HistoryFacts
<1>2. /\ NoSnapshot = [index |-> NoSnapshot.index, mgr |-> NoSnapshot.mgr] /\ NoSnapshot.index = 0
      /\ NoSnapshot.mgr = Snapshot(NewManager(Ids))
  BY DEF NoSnapshot
<1>3. NewManager(Ids) = With(After(0), {})
  BY DEF NewManager, With, After, WithoutStore
<1>4. NoSnapshot.mgr = Snapshot(With(After(0), {}))
  BY <1>2, <1>3
<1>5. WithoutStore(Restore(NoSnapshot.mgr, {})) = After(0)
  BY <1>1, <1>4, RestoresManager
<1>6. PICK up, reported : up = TRUE /\ reported = FALSE
  OBVIOUS
<1> DEFINE x == [mode |-> mode, up |-> up, mem |-> NoCF, disk |-> NoCF, mgr |-> NoSnapshot.mgr,
                 applied |-> 0, snap |-> NoSnapshot, have |-> 0, restore |-> Idle, reported |-> reported]
<1>7. PICK s : s = x
  OBVIOUS
<1>8. Is(s, mode, up, NoCF, NoCF, NoSnapshot.mgr, 0, NoSnapshot, 0, Idle, reported)
  BY <1>7 DEF Is
<1>9. NewReplica(mode) = RestoreFSM(s)
  BY <1>6, <1>7 DEF NewReplica
<1>10. s.snap = NoSnapshot
  BY <1>8 DEF Is
<1>11. PICK t : t = RestoreFSM(s)
  OBVIOUS
<1>12. t = [[s EXCEPT !.applied = 0] EXCEPT !.mgr = After(0)]
  BY <1>2, <1>5, <1>10, <1>11 DEF RestoreFSM
<1>13. Is(t, mode, up, NoCF, NoCF, After(0), 0, NoSnapshot, 0, Idle, reported)
  BY <1>8, <1>12, SetApplied, SetMgr
<1>14. /\ t.mode = mode /\ t.up = up /\ t.mem = NoCF /\ t.disk = NoCF /\ t.mgr = After(0)
       /\ t.applied = 0 /\ t.snap = NoSnapshot /\ t.have = 0 /\ t.restore = Idle /\ t.reported = reported
       /\ Fields(t)
  BY <1>13 DEF Is, Fields
<1>15. FamilyOK(NoCF) /\ NoCF.recs = {}
  BY NoFamily
<1>18. SnapOK(t)
  BY <1>1, <1>2, <1>4, <1>14, ZeroPosition DEF SnapOK
<1>19. RestoreOK(t)
  BY <1>14, IdleIs DEF RestoreOK, Phases
<1>20. ReportOK(t)
  BY <1>6, <1>14, IdleIs DEF ReportOK
<1>21. ServingOK(t)
  BY <1>1, <1>2, <1>14, <1>15, ZeroPosition DEF ServingOK
<1>22. ReplicaOK(t)
  BY <1>6, <1>14, <1>15, <1>18, <1>19, <1>20, <1>21 DEF ReplicaOK
<1> QED BY <1>9, <1>11, <1>14, <1>22

(* The initial state. *)
LEMMA InitOK ==
    ASSUME Init
    PROVE  Inv
<1>1. History
  BY NoHistory DEF Init
<1>2. rep = [r \in Replicas |-> NewReplica(IF r \in Initial THEN "serving" ELSE "out")]
  BY DEF Init
<1>3. Leader \in Replicas /\ Leader \in Initial
  BY ReplicationAssumption
<1>4. ASSUME NEW r \in Replicas PROVE ReplicaOK(rep[r]) /\ (r = Leader => rep[r].mode = "serving")
  <2>1. PICK mode : mode = IF r \in Initial THEN "serving" ELSE "out"
    OBVIOUS
  <2>2. rep[r] = NewReplica(mode)
    BY <1>2, <2>1
  <2>3. mode \in {"serving", "out"} /\ (r = Leader => mode = "serving")
    BY <1>3, <2>1
  <2> QED BY <1>1, <2>2, <2>3, NewReplicaOK
<1>5. rep = [r \in Replicas |-> rep[r]]
  BY <1>2
<1> QED BY <1>1, <1>3, <1>4, <1>5 DEF Inv, ReplicasOK

-----------------------------------------------------------------------------
(* The theorems *)

(* Every step of the system, and every stuttering one, keeps the invariant. *)
LEMMA NextOK ==
    ASSUME Inv, WithinMargins, ~Retention, [Next]_vars
    PROVE  Inv'
<1>1. ASSUME NEW c \in Requests, NEW cts \in 0 .. Stamp(MaxLog), Append1(c, cts) PROVE Inv'
  BY <1>1, AppendStep
<1>2. ASSUME NEW r \in Replicas,
             \/ Receive(r) \/ InstallSnapshot(r) \/ ApplyNext(r) \/ TakeSnapshot(r) \/ Flush(r)
             \/ RestoreAt(r) \/ StreamRecv(r) \/ StreamFails(r)
             \/ \E q \in Replicas : StreamPartition(r, q)
             \/ Report(r) \/ Join(r) \/ Promote(r) \/ Leave(r)
             \/ CleanupRaft(r) \/ CleanupDB(r) \/ Removed(r) \/ Crash(r) \/ Restart(r)
      PROVE  Inv'
  <2>1. CASE Receive(r)
    BY <2>1, ReceiveStep
  <2>2. CASE InstallSnapshot(r)
    BY <2>2, InstallStep
  <2>3. CASE ApplyNext(r)
    BY <2>3, ApplyNextStep
  <2>4. CASE TakeSnapshot(r)
    BY <2>4, TakeSnapshotStep
  <2>5. CASE Flush(r)
    BY <2>5, FlushStep
  <2>6. CASE RestoreAt(r)
    BY <2>6, RestoreAtStep
  <2>7. CASE StreamRecv(r)
    BY <2>7, StreamRecvStep
  <2>8. CASE StreamFails(r)
    BY <2>8, StreamFailsStep
  <2>9. ASSUME NEW q \in Replicas, StreamPartition(r, q) PROVE Inv'
    BY <2>9, StreamPartitionStep
  <2>10. CASE Report(r)
    BY <2>10, ReportStep
  <2>11. CASE Join(r)
    BY <2>11, JoinStep
  <2>12. CASE Promote(r)
    BY <2>12, PromoteStep
  <2>13. CASE Leave(r)
    BY <2>13, LeaveStep
  <2>14. CASE CleanupRaft(r)
    BY <2>14, CleanupRaftStep
  <2>15. CASE CleanupDB(r)
    BY <2>15, CleanupDBStep
  <2>16. CASE Removed(r)
    BY <2>16, RemovedStep
  <2>17. CASE Crash(r)
    BY <2>17, CrashStep
  <2>18. CASE Restart(r)
    BY <2>18, RestartStep
  <2> QED BY <1>2, <2>1, <2>2, <2>3, <2>4, <2>5, <2>6, <2>7, <2>8, <2>9, <2>10, <2>11, <2>12, <2>13,
             <2>14, <2>15, <2>16, <2>17, <2>18
<1>3. CASE UNCHANGED vars
  <2>1. log' = log /\ outcome' = outcome /\ rep' = rep
    BY <1>3 DEF vars
  <2>2. History' /\ Grown /\ ReplicasOK
    BY <2>1, Unmoved DEF Inv
  <2>3. \A r \in Replicas : ReplicaOK(rep[r])'
    <3>1. ASSUME NEW r \in Replicas PROVE ReplicaOK(rep[r])'
      <4>1. PICK s : s = rep[r]
        OBVIOUS
      <4>2. ReplicaOK(s) /\ rep'[r] = s
        BY <2>1, <2>2, <4>1 DEF ReplicasOK
      <4>3. ReplicaOK(s)'
        BY <2>2, <4>2, ReplicaGrown
      <4> QED BY <4>2, <4>3
    <3> QED BY <3>1
  <2>4. ReplicasOK'
    BY <2>1, <2>2, <2>3 DEF ReplicasOK
  <2> QED BY <2>2, <2>4 DEF Inv
<1> QED BY <1>1, <1>2, <1>3 DEF Next

(* Inv is an invariant: while a replica that follows is never overtaken by  *)
(* the compaction of the log, and no transaction is forgotten.              *)
THEOREM ReplicationInvariant ==
    ASSUME WithinMargins, ~Retention
    PROVE  Spec => []Inv
<1>1. Init => Inv
  BY InitOK
<1>2. Inv /\ [Next]_vars => Inv'
  BY NextOK
<1> QED BY <1>1, <1>2, PTL DEF Spec

(* Every version that was written up to the position of a serving replica   *)
(* is in its store (NoDataLoss).                                            *)
THEOREM NothingLost ==
    ASSUME WithinMargins, ~Retention
    PROVE  Spec => []NoDataLoss
<1>1. Inv => NoDataLoss
  BY DEF Inv, ReplicasOK, ReplicaOK, ServingOK, NoDataLoss
<1> QED BY <1>1, ReplicationInvariant, PTL

(* The index that is stored with a family, in memory and on disk, is true   *)
(* of what the family holds (IndexTruthful).                                *)
THEOREM IndexesTruthful ==
    ASSUME WithinMargins, ~Retention
    PROVE  Spec => []IndexTruthful
<1>1. Inv => IndexTruthful
  <2>1. ASSUME Inv, NEW r \in Replicas, NEW kv \in {rep[r].mem, rep[r].disk}
        PROVE  Written(kv.index) \subseteq kv.recs
    <3>1. FamilyOK(kv)
      BY <2>1 DEF Inv, ReplicasOK, ReplicaOK
    <3> QED BY <3>1 DEF FamilyOK
  <2> QED BY <2>1 DEF IndexTruthful
<1> QED BY <1>1, ReplicationInvariant, PTL

(* A command that is applied again has the outcome of the first time,       *)
(* whatever later results the store already holds (ReplayAgrees).           *)
THEOREM ReplaysAgree ==
    ASSUME WithinMargins, ~Retention
    PROVE  Spec => []ReplayAgrees
<1>1. Inv => ReplayAgrees
  <2>1. ASSUME Inv, NEW r \in Replicas, rep[r].up, rep[r].mode = "serving", rep[r].applied < Len(outcome)
        PROVE  Outcome(rep[r], rep[r].applied + 1) = outcome[rep[r].applied + 1]
    <3>1. PICK s : s = rep[r]
      OBVIOUS
    <3>2. History /\ ServingOK(s) /\ SnapOK(s) /\ IsStore(s.mem.recs)
      BY <2>1, <3>1 DEF Inv, ReplicasOK, ReplicaOK, FamilyOK
    <3>3. /\ s.applied \in Nat /\ N \in Nat /\ s.applied < N /\ s.mgr = After(s.applied)
          /\ Written(s.applied) \subseteq s.mem.recs /\ s.mem.recs \subseteq Written(N)
      BY <2>1, <3>1, <3>2, ServesAt DEF IsStore, N
    <3>4. PICK i : i = s.applied + 1
      OBVIOUS
    <3>5. i \in 1 .. N /\ i - 1 = s.applied
      BY <3>3, <3>4, NextPosition
    <3>6. Manager(s) = With(After(i - 1), s.mem.recs)
      BY <3>3, <3>5 DEF Manager, With
    <3>7. Outcome(s, i) = OutcomeOf(With(After(i - 1), s.mem.recs), log[i])
      BY <3>6 DEF Outcome, OutcomeOf
    <3>8. Written(i - 1) \subseteq s.mem.recs
      BY <3>3, <3>5
    <3>9. Outcome(s, i) = outcome[i]
      BY <3>2, <3>3, <3>5, <3>7, <3>8, Replays
    <3> QED BY <3>1, <3>4, <3>9
  <2> QED BY <2>1 DEF ReplayAgrees
<1> QED BY <1>1, ReplicationInvariant, PTL

=============================================================================
