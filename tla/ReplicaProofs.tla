---------------------------- MODULE ReplicaProofs ----------------------------
(***************************************************************************)
(* The history of a partition and its replicas: the inductive invariant of *)
(* Replication and the lemmas its proof rests on.                          *)
(*                                                                         *)
(* The invariant has two parts.  History is about the outcomes alone: the  *)
(* managers they lead to are the ones of one run over the log, and what is *)
(* written later at an earlier timestamp was locked in between.  Replicas  *)
(* relates every store, checkpoint, snapshot and stream to that history.   *)
(***************************************************************************)
EXTENDS Replication, TxnManagerProofs, FiniteSetTheorems, WellFoundedInduction

USE ZenonT(30)

(* What no proof below uses. *)
HIDE DEF SetPreparedUpdates, AutocommitEffect, PrepareEffect, CommitEffect,
         AbortEffect, StoreDecisionEffect, MarkTimedoutEffect, ApplyEffect,
         UpdatedTouches, ApplyTransition, CleanupKeeps, ApplyMoves,
         UpdatedEntry, ApplyReplies, ApplyResult, ApplyWrites, RestoreEntry,
         FS_NatSurjection, FS_NatBijection, FS_CountingElements,
         FS_SurjCardinalityBound, FS_Bijection, FS_SameCardinalityBij,
         FS_SurjSameCardinalityImpliesInj, FS_Image, FS_Injection,
         FS_PigeonHole, FS_AddElement, FS_RemoveElement, FS_Singleton,
         FS_Interval, FS_BoundedSetOfNaturals, FS_Induction,
         FS_FiniteSubsetsOfFinite, FS_StrictSubsetOrderingWellFounded,
         FS_WFInduction, FS_MajoritiesIntersect, FS_Intersection,
         FS_Difference, FS_UNION, FS_Product, FS_SUBSET, EmptyIsWellFounded,
         IsWellFoundedOnSubset, IsWellFoundedOnSubrelation, MinWF,
         WellFoundedIsIrreflexive, WellFoundedIsAsymmetric,
         WFSetLessThanIrreflexive, SetLessTransitive, WFInduction,
         WFDefOnUnique, WFInductiveDefLemma, TransitiveClosureThm,
         TransitiveClosureMinimal, TCTCTC, TCRTC, RTCTC,
         TransitiveClosureChopLast, TransitiveClosureWF, WFInductiveDef,
         WFInductiveDefType, PreImageWellFounded, WFLexPairOrdering,
         WFLexProductOrdering, NatInduction, DownwardNatInduction,
         GeneralNatInduction, SmallestNatural, RecursiveFcnOfNat,
         NatInductiveDef, RecursiveFcnOfNatType, NatInductiveDefType,
         RecursiveFcnOfNatUnique, NatInductiveUnique, FiniteNatInductiveDef,
         FiniteNatInductiveDefType, FiniteNatInductiveUnique

-----------------------------------------------------------------------------
(* The history *)

N == Len(outcome)

(* The manager after the first i entries of the log. *)
After(i) == IF i = 0 THEN WithoutStore(NewManager(Ids)) ELSE outcome[i].mgr

With(m, db) == [status |-> m.status, prepared |-> m.prepared, maxTs |-> m.maxTs, db |-> db]

OutcomeOf(m, c) ==
    LET a == Apply(m, Pid, c) IN
    [status |-> a.status, err |-> a.err, writes |-> a.writes,
     mgr |-> WithoutStore(FinishBatch(a.m, a.writes, a.done, c.ts))]

IsTxn(txn) ==
    /\ IsFiniteSet(txn)
    /\ \A a \in txn : /\ a.first \in Nat \ {0} /\ a.last \in Nat
                      /\ a.op \in Writes => a.last = a.first + 1

(* An entry of the log. *)
IsEntry(c, i) ==
    /\ c.op \in CommandOps /\ c.id \in Ids /\ IsTxn(c.txn)
    /\ c.ts = Stamp(i) /\ c.cts \in Nat /\ c.cts <= Stamp(i)

IsSeq(q) == \E S : q \in Seq(S)

LogOK ==
    /\ IsSeq(log) /\ IsSeq(outcome) /\ Len(outcome) <= Len(log)
    /\ \A i \in 1 .. Len(log) : IsEntry(log[i], i)

(* The status s and the prepared entry p of a transaction, after entry i. *)
EntryOK(s, p, i) ==
    /\ p.released => p.locks = {}
    /\ ~p.released => p.locks = BuildLocks(p.txn) /\ p.ts >= 2
    /\ IsTxn(p.txn) /\ p.ts \in Nat /\ p.ts <= Stamp(i)
    /\ s.state \in {"Prepared", "Decided"} => ~p.released
    /\ s.state = "Prepared" => s.ts = p.ts
    /\ s.state = "Decided" => p.decision \in Nat /\ p.decision >= p.ts
    /\ IsFinal(s.state) => s.ts \in Nat \ {0}

Holds(m, id) == ~m.prepared[id].released

MgrOK(m, i) ==
    /\ m = WithoutStore(m) /\ Shape(With(m, {}), Ids)
    /\ \A id \in Ids : EntryOK(m.status[id], m.prepared[id], i)
    /\ \A x, y \in Ids : x # y /\ Holds(m, x) /\ Holds(m, y)
                           => AllCompatible(m.prepared[x].locks, m.prepared[y].locks)

ManagersOK == \A i \in 0 .. N : MgrOK(After(i), i)

(* The outcomes are those of one run over the log. *)
OneRun == \A i \in 1 .. N : outcome[i] = OutcomeOf(With(After(i - 1), Written(i - 1)), log[i])

(* A transaction that holds its locks has held them since it was prepared. *)
HeldSince ==
    \A id \in Ids, i \in 0 .. N :
        Holds(After(N), id) /\ After(N).prepared[id].ts <= Stamp(i)
            => Holds(After(i), id) /\ After(i).prepared[id].txn = After(N).prepared[id].txn

IsVersion(w, i) == w.key \in Nat \ {0} /\ w.ts \in Nat /\ 2 <= w.ts /\ w.ts <= Stamp(i)

VersionsOK ==
    IsFiniteSet(Written(N)) /\ \A i \in 1 .. N : \A w \in outcome[i].writes : IsVersion(w, i)

WritesKey(txn, key) == \E a \in txn : a.op \in Writes /\ a.first = key

(* What a transaction locks has no version since it was prepared. *)
LockedUnwritten ==
    \A id \in Ids, i \in 1 .. N : \A w \in outcome[i].writes :
        Holds(After(N), id) /\ WritesKey(After(N).prepared[id].txn, w.key)
            => w.ts < After(N).prepared[id].ts

(* A version that a later entry writes at an earlier timestamp was locked   *)
(* when the earlier entry was applied.                                      *)
LaterLocked ==
    \A i \in 1 .. N : \A j \in i .. N : \A w \in outcome[j].writes :
        \/ w.ts >= Stamp(i)
        \/ \E id \in Ids : Holds(After(i - 1), id) /\ WritesKey(After(i - 1).prepared[id].txn, w.key)

SameAddress(v, w) == v.key = w.key /\ v.ts = w.ts

(* No two entries write the same version. *)
AddressesDiffer ==
    \A i, j \in 1 .. N : \A v \in outcome[i].writes, w \in outcome[j].writes :
        SameAddress(v, w) => i = j

History ==
    /\ LogOK /\ ManagersOK /\ OneRun /\ HeldSince
    /\ VersionsOK /\ LockedUnwritten /\ LaterLocked /\ AddressesDiffer

-----------------------------------------------------------------------------
(* The replicas *)

(* S holds written versions only, and with one all of the same address. *)
IsStore(S) ==
    /\ S \subseteq Written(N)
    /\ \A v \in S, w \in Written(N) : SameAddress(v, w) => w \in S

IsAddress(a) == a = [key |-> a.key, ts |-> a.ts] /\ a.key \in Int /\ a.ts \in Int

(* The index and the checkpoint of a family are true of what it holds. *)
FamilyOK(kv) ==
    /\ kv = [cf |-> kv.cf, recs |-> kv.recs, index |-> kv.index, chk |-> kv.chk]
    /\ kv.cf \in BOOLEAN /\ (~kv.cf => kv = NoCF)
    /\ IsStore(kv.recs)
    /\ kv.index \in 0 .. N /\ Written(kv.index) \subseteq kv.recs
    /\ kv.chk = [min |-> kv.chk.min, last |-> kv.chk.last, completed |-> kv.chk.completed]
    /\ kv.chk.min \in -1 .. N /\ IsAddress(kv.chk.last) /\ kv.chk.completed \in BOOLEAN
    /\ kv.chk.completed => Written(kv.chk.min) \subseteq kv.recs
    /\ \A w \in Written(kv.chk.min) : ~Before(kv.chk.last, AddressOf(w)) => w \in kv.recs

SnapOK(s) ==
    /\ s.snap = [index |-> s.snap.index, mgr |-> s.snap.mgr]
    /\ s.snap.index \in 0 .. N /\ s.snap.mgr = Snapshot(With(After(s.snap.index), {}))
    /\ s.have \in s.snap.index .. Len(log)

Phases == {"idle", "waiting", "streaming", "ready"}

(* All of the restored snapshot is in the store, or is still to be streamed. *)
RestoreOK(s) ==
    /\ s.restore = [phase |-> s.restore.phase, min |-> s.restore.min,
                    from |-> s.restore.from, rest |-> s.restore.rest]
    /\ s.restore.phase \in Phases /\ IsAddress(s.restore.from) /\ IsStore(s.restore.rest)
    /\ s.restore.phase # "idle" => s.mode = "joining" /\ s.up /\ s.restore.min = s.snap.index
    /\ s.restore.phase \in {"waiting", "streaming"} =>
          \A w \in Written(s.restore.min) : Before(AddressOf(w), s.restore.from) => w \in s.mem.recs
    /\ s.restore.phase = "streaming" => Written(s.restore.min) \subseteq s.mem.recs \cup s.restore.rest
    /\ s.restore.phase = "ready" => s.mem.chk.completed /\ s.mem.chk.min >= s.snap.index

ReportOK(s) ==
    /\ s.reported \in BOOLEAN
    /\ s.reported => s.mode \in {"joining", "serving"} /\ s.restore.phase \in {"idle", "ready"}
    /\ s.reported /\ s.mode = "joining" => s.mem.chk.completed /\ s.mem.chk.min >= s.snap.index

(* A serving replica stands where the history stood, and so it will after a *)
(* crash.                                                                   *)
ServingOK(s) ==
    s.mode = "serving" =>
        /\ s.mem.chk = s.disk.chk => Written(s.snap.index) \subseteq s.disk.recs
        /\ s.up => /\ s.applied \in s.snap.index .. s.have /\ s.applied <= N
                   /\ s.mgr = After(s.applied) /\ Written(s.applied) \subseteq s.mem.recs

Fields(s) ==
    s = [mode |-> s.mode, up |-> s.up, mem |-> s.mem, disk |-> s.disk, mgr |-> s.mgr,
         applied |-> s.applied, snap |-> s.snap, have |-> s.have, restore |-> s.restore,
         reported |-> s.reported]

ReplicaOK(s) ==
    /\ Fields(s)
    /\ s.mode \in {"out", "joining", "serving", "leaving"} /\ s.up \in BOOLEAN
    /\ FamilyOK(s.mem) /\ FamilyOK(s.disk) /\ s.mem.cf = s.disk.cf
    /\ ~s.up => s.mem = s.disk
    /\ SnapOK(s) /\ RestoreOK(s) /\ ReportOK(s) /\ ServingOK(s)

ReplicasOK ==
    /\ rep = [r \in Replicas |-> rep[r]] /\ \A r \in Replicas : ReplicaOK(rep[r])
    /\ rep[Leader].mode = "serving"

Inv == History /\ ReplicasOK

-----------------------------------------------------------------------------
(* Streams: the first n records of a store *)

Pred(S, x) == {y \in S : Before(AddressOf(y), AddressOf(x))}

IsRecs(S) == IsFiniteSet(S) /\ \A x \in S : x.key \in Int /\ x.ts \in Int

(* A set of numbers that is not empty has a least one. *)
LEMMA LeastOf ==
    ASSUME NEW T, T \subseteq Nat, T # {}
    PROVE  \E x \in T : \A y \in T : x <= y
<1>1. PICK x \in T : \A y \in T : ~(<<y, x>> \in OpToRel(<, Nat))
  BY WFMin, NatLessThanWellFounded
<1>2. \A y \in T : ~(y < x)
  BY <1>1 DEF OpToRel
<1>3. x \in Nat /\ \A y \in T : y \in Nat
  OBVIOUS
<1> QED BY <1>2, <1>3, SMTT(60)

(* The number of records before another is a natural number. *)
LEMMA PredCount ==
    ASSUME NEW S, IsRecs(S), NEW x
    PROVE  IsFiniteSet(Pred(S, x)) /\ Cardinality(Pred(S, x)) \in Nat
<1>1. Pred(S, x) \in SUBSET S /\ IsFiniteSet(S)
  BY DEF Pred, IsRecs
<1>2. IsFiniteSet(Pred(S, x))
  BY <1>1, FS_Subset
<1> QED BY <1>2, FS_CardinalityType

(* The earlier a record, the fewer are before it. *)
LEMMA PredSmaller ==
    ASSUME NEW S, IsRecs(S), NEW x \in S, NEW y \in S, Before(AddressOf(y), AddressOf(x))
    PROVE  Cardinality(Pred(S, y)) < Cardinality(Pred(S, x))
<1>1. x.key \in Int /\ x.ts \in Int /\ y.key \in Int /\ y.ts \in Int
  BY DEF IsRecs
<1>2. \A z \in S : z \in Pred(S, y) => z \in Pred(S, x)
  BY <1>1, SMTT(60) DEF Pred, Before, AddressOf, IsRecs
<1>3. Pred(S, y) \in SUBSET Pred(S, x)
  BY <1>2 DEF Pred
<1>4. y \in Pred(S, x) /\ y \notin Pred(S, y)
  BY <1>1, SMTT(60) DEF Pred, Before, AddressOf
<1>5. /\ IsFiniteSet(Pred(S, x)) /\ Cardinality(Pred(S, x)) \in Nat
      /\ Cardinality(Pred(S, y)) \in Nat
  BY PredCount
<1>6. /\ Cardinality(Pred(S, y)) <= Cardinality(Pred(S, x))
      /\ Cardinality(Pred(S, x)) = Cardinality(Pred(S, y)) => Pred(S, x) = Pred(S, y)
  BY <1>3, <1>5, FS_Subset
<1>7. Cardinality(Pred(S, x)) # Cardinality(Pred(S, y))
  BY <1>4, <1>6
<1> QED BY <1>5, <1>6, <1>7, SMTT(60)

(* A message of the stream holds with a record all that are not after it.   *)
LEMMA FirstOfClosed ==
    ASSUME NEW S, IsRecs(S), NEW n \in Nat, NEW x \in FirstOf(S, n), NEW y \in S,
           ~Before(AddressOf(x), AddressOf(y))
    PROVE  y \in FirstOf(S, n)
<1>1. x \in S /\ Cardinality(Pred(S, x)) < n
  BY DEF FirstOf, Pred
<1>2. x.key \in Int /\ x.ts \in Int /\ y.key \in Int /\ y.ts \in Int
  BY <1>1 DEF IsRecs
<1>3. Cardinality(Pred(S, y)) \in Nat /\ Cardinality(Pred(S, x)) \in Nat
  BY PredCount
<1>4. CASE Before(AddressOf(y), AddressOf(x))
  <2>1. Cardinality(Pred(S, y)) < Cardinality(Pred(S, x))
    BY <1>1, <1>4, PredSmaller
  <2>2. Cardinality(Pred(S, y)) < n
    BY <1>1, <1>3, <2>1, SMTT(60)
  <2> QED BY <2>2 DEF FirstOf, Pred
<1>5. CASE ~Before(AddressOf(y), AddressOf(x))
  <2>1. y.key = x.key /\ y.ts = x.ts
    BY <1>2, <1>5, SMTT(60) DEF Before, AddressOf
  <2>2. AddressOf(y) = AddressOf(x)
    BY <2>1 DEF AddressOf
  <2>3. Cardinality(Pred(S, y)) < n
    BY <1>1, <2>2 DEF Pred
  <2> QED BY <2>3 DEF FirstOf, Pred
<1> QED BY <1>4, <1>5

(* A message that is not full is the last one. *)
LEMMA FirstOfAll ==
    ASSUME NEW S, IsRecs(S), NEW n \in Nat, Cardinality(FirstOf(S, n)) < n
    PROVE  FirstOf(S, n) = S
<1> DEFINE F == FirstOf(S, n)
           Count(x) == Cardinality(Pred(S, x))
           T == {Count(x) : x \in S \ F}
<1>1. F \subseteq S /\ \A x \in S : x \in F <=> Count(x) < n
  BY DEF FirstOf, Pred
<1>2. \A x : Count(x) \in Nat
  BY PredCount
<1>3. ASSUME S # F PROVE FALSE
  <2>1. T \subseteq Nat /\ T # {}
    BY <1>1, <1>2, <1>3
  <2>2. PICK k \in T : \A y \in T : k <= y
    BY <2>1, LeastOf
  <2>3. PICK x \in S \ F : k = Count(x)
    BY <2>2
  <2>4. \A y \in S \ F : Count(x) <= Count(y)
    BY <2>2, <2>3
  <2>5. \A y \in Pred(S, x) : y \in S /\ Count(y) < Count(x)
    BY <2>3, PredSmaller DEF Pred
  <2>6. Pred(S, x) \subseteq F
    <3> SUFFICES ASSUME NEW y \in Pred(S, x) PROVE y \in F
      OBVIOUS
    <3> QED BY <1>2, <2>4, <2>5, SMTT(60)
  <2>7. IsFiniteSet(F)
    BY <1>1, FS_Subset DEF IsRecs
  <2> HIDE DEF F
  <2>8. Count(x) <= Cardinality(F) /\ Cardinality(F) \in Nat
    BY <2>6, <2>7, FS_Subset, FS_CardinalityType
  <2>9. ~(Count(x) < n)
    BY <1>1, <2>3
  <2>10. Cardinality(F) < n
    BY DEF F
  <2> QED BY <1>2, <2>8, <2>9, <2>10, SMTT(60)
<1> QED BY <1>3

(* Nothing in a message is after its last address. *)
LEMMA LastOfIsLast ==
    ASSUME NEW S, IsRecs(S), S # {}
    PROVE  /\ \E x \in S : LastOf(S) = AddressOf(x)
           /\ \A y \in S : ~Before(LastOf(S), AddressOf(y))
<1> DEFINE Count(x) == Cardinality(Pred(S, x))
           n == Cardinality(S)
           T == {n - Count(x) : x \in S}
<1>1. n \in Nat /\ \A x : Count(x) \in Nat /\ Count(x) <= n
  <2>1. IsFiniteSet(S) /\ \A x : Pred(S, x) \in SUBSET S
    BY DEF IsRecs, Pred
  <2>2. n \in Nat
    BY <2>1, FS_CardinalityType
  <2>3. \A x : Count(x) <= n
    BY <2>1, FS_Subset
  <2>4. \A x : Count(x) \in Nat
    BY PredCount
  <2> QED BY <2>2, <2>3, <2>4
<1> HIDE DEF n, Count
<1>2. T \subseteq Nat /\ T # {}
  BY <1>1, SMTT(60)
<1>3. PICK k \in T : \A y \in T : k <= y
  BY <1>2, LeastOf
<1>4. PICK x \in S : k = n - Count(x)
  BY <1>3
<1>5. \A y \in S : Count(y) <= Count(x)
  BY <1>1, <1>3, <1>4, SMTT(60)
<1>6. \A y \in S : ~Before(AddressOf(x), AddressOf(y))
  <2> SUFFICES ASSUME NEW y \in S, Before(AddressOf(x), AddressOf(y)) PROVE FALSE
    OBVIOUS
  <2>1. Count(x) < Count(y)
    BY PredSmaller DEF Count
  <2> QED BY <1>1, <1>5, <2>1, SMTT(60)
<1> DEFINE z == CHOOSE v \in S : \A y \in S : ~Before(AddressOf(v), AddressOf(y))
<1>7. z \in S /\ \A y \in S : ~Before(AddressOf(z), AddressOf(y))
  BY <1>4, <1>6
<1>8. LastOf(S) = AddressOf(z)
  BY DEF LastOf
<1> HIDE DEF z
<1> QED BY <1>7, <1>8

-----------------------------------------------------------------------------
(* One entry of the log *)

(* Two transactions, one of which writes a key the other covers, conflict. *)
LEMMA WriteConflicts ==
    ASSUME NEW T, NEW U, IsTxn(T), NEW k \in Nat, WritesKey(T, k), IsTxn(U),
           NEW a \in U, a.first <= k, k < a.last
    PROVE  ~AllCompatible(BuildLocks(U), BuildLocks(T)) /\ ~AllCompatible(BuildLocks(T), BuildLocks(U))
<1>1. PICK b \in T : b.op \in Writes /\ b.first = k
  BY DEF WritesKey
<1>2. b.last = k + 1 /\ a.first \in Nat /\ a.last \in Nat
  BY <1>1 DEF IsTxn
<1>3. ~CompatibleWith(BuildLock(a), BuildLock(b)) /\ ~CompatibleWith(BuildLock(b), BuildLock(a))
  <2>1. /\ BuildLock(a).first = a.first /\ BuildLock(a).last = a.last
        /\ BuildLock(b).first = k /\ BuildLock(b).last = k + 1
    BY <1>1, <1>2 DEF BuildLock
  <2>2. BuildLock(b).excl
    BY <1>1 DEF BuildLock
  <2> QED BY <1>2, <2>1, <2>2, SMTT(60) DEF CompatibleWith
<1>4. BuildLock(a) \in BuildLocks(U) /\ BuildLock(b) \in BuildLocks(T)
  BY <1>1 DEF BuildLocks
<1> QED BY <1>3, <1>4 DEF AllCompatible

(* What becomes of the entries of the transaction that c, the log entry     *)
(* after i, is for: they are s and q then.                                  *)
EntryResult(n, c, i, s, q, writes) ==
    /\ EntryOK(s, q, i + 1)
    /\ ~q.released =>
          \/ /\ ~n.prepared[c.id].released
             /\ q.ts = n.prepared[c.id].ts /\ q.txn = n.prepared[c.id].txn
          \/ q.ts = c.ts /\ q.locks = BuildLocks(c.txn) /\ checkLocks(n, c.txn)
    /\ \/ writes = {}
       \/ /\ checkLocks(n, c.txn) /\ writes = buildWriteRecords(c.id, c.ts, c.txn)
          /\ q = n.prepared[c.id]
       \/ /\ ~n.prepared[c.id].released /\ n.prepared[c.id].ts <= c.cts /\ q.released
          /\ writes = buildWriteRecords(c.id, c.cts, n.prepared[c.id].txn)

(* A command leaves its transaction in good order. *)
LEMMA EntryStep ==
    ASSUME NEW n, NEW c, NEW i \in Nat, IsEntry(c, i + 1), NEW s, NEW p, NEW q, NEW writes, NEW done,
           Effect(n, c, s, p, writes, done),
           IsPrepared(n.prepared[c.id]), EntryOK(n.status[c.id], n.prepared[c.id], i),
           q = IF c.id \in done THEN Released(p) ELSE p
    PROVE  EntryResult(n, c, i, s, q, writes)
<1> DEFINE old == n.status[c.id]
           was == n.prepared[c.id]
<1>1. /\ IsTxn(c.txn) /\ c.ts = i + 2 /\ c.cts \in Nat /\ c.cts <= i + 2
      /\ i + 1 \in Nat /\ Stamp(i) = i + 1 /\ Stamp(i + 1) = i + 2
  BY SMTT(60) DEF IsEntry, Stamp
<1>2. /\ Released(was).released = TRUE /\ Released(was).locks = {} /\ Released(was).ts = was.ts
      /\ Released(was).txn = was.txn /\ Released(was).decision = was.decision
  BY ReleasedFields
<1>3. EntryOK(old, was, i) /\ was.released \in BOOLEAN
  BY DEF IsPrepared
<1>4. \/ s = old /\ p = was /\ writes = {} /\ done = {}
      \/ /\ c.op = "Autocommit" /\ old.state = "none" /\ s.state = "Committed" /\ s.ts = c.ts
         /\ checkLocks(n, c.txn) /\ p = was /\ writes = buildWriteRecords(c.id, c.ts, c.txn) /\ done = {}
      \/ /\ c.op = "Prepare" /\ old.state = "none" /\ s.state = "Prepared" /\ s.ts = c.ts
         /\ checkLocks(n, c.txn) /\ p = NewPrepared(c) /\ writes = {} /\ done = {}
      \/ /\ c.op = "Commit" /\ old.state \in {"Prepared", "Decided"} /\ s.state = "Committed"
         /\ old.state = "Prepared" => c.cts >= old.ts
         /\ old.state = "Decided" => c.cts = was.decision
         /\ s.ts = c.cts /\ p = was /\ writes = buildWriteRecords(c.id, c.cts, was.txn)
         /\ done = {c.id}
      \/ /\ c.op # "Commit" /\ old.state = "Prepared" /\ s.ts = c.ts /\ writes = {} /\ done = {}
         /\ \/ s.state = "Aborted" /\ p = Released(was)
            \/ s.state = "Decided" /\ c.cts >= old.ts /\ p = [was EXCEPT !.decision = c.cts]
            \/ s.state = "Timedout" /\ p = was
      \/ old.state = "Timedout" /\ s = old /\ p = Released(was) /\ writes = {} /\ done = {}
  BY DEF Effect
<1> DEFINE d == [was EXCEPT !.decision = c.cts]
<1>5. d.released = was.released /\ d.locks = was.locks /\ d.decision = c.cts /\ d.ts = was.ts /\ d.txn = was.txn
  <2>1. IsPrepared(was)
    OBVIOUS
  <2> HIDE DEF was
  <2> QED BY <2>1, DecidedFields
<1>6. /\ NewPrepared(c).released = FALSE /\ NewPrepared(c).locks = BuildLocks(c.txn)
      /\ NewPrepared(c).ts = c.ts /\ NewPrepared(c).txn = c.txn
  BY DEF NewPrepared
<1>0. /\ c.ts \in Nat /\ c.ts >= 2 /\ c.ts \in Nat \ {0} /\ c.ts <= Stamp(i + 1)
      /\ \A x \in Nat : x <= Stamp(i) => x <= Stamp(i + 1)
      /\ \A x, y \in Nat : x >= 2 /\ x <= y => y \in Nat \ {0}
  BY <1>1, SMTT(60)
<1> HIDE DEF old, was, d
<1>7. CASE s = old /\ q = was /\ writes = {}
  <2>1. EntryOK(s, q, i + 1)
    BY <1>0, <1>3, <1>7 DEF EntryOK
  <2> QED BY <1>7, <2>1 DEF was, EntryResult
<1>8. CASE /\ old.state = "none" /\ s.state = "Committed" /\ s.ts = c.ts /\ q = was
           /\ checkLocks(n, c.txn) /\ writes = buildWriteRecords(c.id, c.ts, c.txn)
  <2>1. EntryOK(s, q, i + 1)
    BY <1>0, <1>3, <1>8 DEF EntryOK
  <2> QED BY <1>8, <2>1 DEF was, EntryResult
<1>9. CASE /\ s.state = "Prepared" /\ s.ts = c.ts /\ q = NewPrepared(c)
           /\ checkLocks(n, c.txn) /\ writes = {}
  <2>1. EntryOK(s, q, i + 1)
    BY <1>0, <1>1, <1>6, <1>9 DEF EntryOK, IsFinal, FinalStates
  <2> QED BY <1>6, <1>9, <2>1 DEF EntryResult
<1>10. CASE /\ old.state \in {"Prepared", "Decided"} /\ s.state = "Committed"
            /\ old.state = "Prepared" => c.cts >= old.ts
            /\ old.state = "Decided" => c.cts = was.decision
            /\ s.ts = c.cts /\ q = Released(was) /\ writes = buildWriteRecords(c.id, c.cts, was.txn)
  <2>1. ~was.released /\ was.ts \in Nat /\ was.ts >= 2 /\ was.ts <= i + 1 /\ IsTxn(was.txn)
    BY <1>1, <1>3, <1>10 DEF EntryOK
  <2>2. was.ts <= c.cts
    BY <1>1, <1>3, <1>10, <2>1 DEF EntryOK
  <2>3. s.ts \in Nat \ {0}
    BY <1>0, <1>1, <1>10, <2>1, <2>2
  <2>4. EntryOK(s, q, i + 1)
    BY <1>0, <1>2, <1>3, <1>10, <2>1, <2>3 DEF EntryOK
  <2> QED BY <1>2, <1>10, <2>1, <2>2, <2>4 DEF was, EntryResult
<1>11. CASE old.state = "Prepared" /\ s.ts = c.ts /\ writes = {} /\ s.state = "Aborted" /\ q = Released(was)
  BY <1>0, <1>2, <1>3, <1>11 DEF EntryOK, EntryResult
<1>12. CASE /\ old.state = "Prepared" /\ s.ts = c.ts /\ writes = {}
            /\ s.state = "Decided" /\ c.cts >= old.ts /\ q = d
  <2>1. EntryOK(s, q, i + 1)
    BY <1>0, <1>1, <1>3, <1>5, <1>12 DEF EntryOK, IsFinal, FinalStates
  <2> QED BY <1>3, <1>5, <1>12, <2>1 DEF was, EntryResult
<1>13. CASE old.state = "Prepared" /\ s.ts = c.ts /\ writes = {} /\ s.state = "Timedout" /\ q = was
  BY <1>0, <1>3, <1>13 DEF EntryOK, was, EntryResult
<1>14. CASE old.state = "Timedout" /\ s = old /\ writes = {} /\ q = Released(was)
  BY <1>0, <1>2, <1>3, <1>14 DEF EntryOK, EntryResult
<1>15. /\ done = {} => q = p
       /\ done = {c.id} => q = Released(p)
  OBVIOUS
<1> QED BY <1>4, <1>7, <1>8, <1>9, <1>10, <1>11, <1>12, <1>13, <1>14, <1>15 DEF d

(* What of x still holds locks in y did so for the same transaction, or was *)
(* prepared by c.                                                           *)
Keeps(x, y, c) ==
    \A id \in Ids : Holds(y, id) =>
        \/ /\ Holds(x, id) /\ y.prepared[id].ts = x.prepared[id].ts
           /\ y.prepared[id].txn = x.prepared[id].txn
        \/ id = c.id /\ y.prepared[id].ts = c.ts

(* What c stores, when it takes the manager from x to y. *)
Stores(x, y, c, writes) ==
    \/ writes = {}
    \/ /\ checkLocks(x, c.txn) /\ writes = buildWriteRecords(c.id, c.ts, c.txn)
       /\ \A id \in Ids : y.prepared[id] = x.prepared[id]
    \/ /\ Holds(x, c.id) /\ x.prepared[c.id].ts <= c.cts /\ ~Holds(y, c.id)
       /\ writes = buildWriteRecords(c.id, c.cts, x.prepared[c.id].txn)

(* A log entry takes its transaction through one of the moves of Effect. *)
LEMMA EffectOfEntry ==
    ASSUME NEW n, NEW c, c.id \in Ids, c.op \in CommandOps, Shape(n, Ids), NEW r, r = Apply(n, Pid, c)
    PROVE  \E s, p : Touched(n, r.m, Ids, c.id, s, p) /\ Effect(n, c, s, p, r.writes, r.done)
<1> DEFINE R == Apply(n, Pid, c)
<1>1. \E s, p : /\ Touched(n, R.m, Ids, c.id, s, p) /\ Effect(n, c, s, p, R.writes, R.done)
                /\ R.m.maxTs = n.maxTs /\ R.m.db = n.db
  BY ApplyEffects
<1> HIDE DEF R
<1>2. r = R
  BY DEF R
<1> QED BY <1>1, <1>2

(* A log entry takes a manager to the next: locks stay compatible, and only *)
(* what is locked, or was not locked at all, is written.                    *)
LEMMA ManagerStep ==
    ASSUME NEW x, NEW D, NEW c, NEW i \in Nat, MgrOK(x, i), IsEntry(c, i + 1),
           NEW r, r = Apply(With(x, D), Pid, c),
           NEW y, y = WithoutStore(FinishBatch(r.m, r.writes, r.done, c.ts))
    PROVE  MgrOK(y, i + 1) /\ Keeps(x, y, c) /\ Stores(x, y, c, r.writes)
<1> DEFINE m == With(x, D)
           n == FinishBatch(r.m, r.writes, r.done, c.ts)
<1>1. m.status = x.status /\ m.prepared = x.prepared /\ Shape(m, Ids)
  <2>1. Shape(With(x, {}), Ids)
    BY DEF MgrOK
  <2> QED BY <2>1 DEF Shape, With
<1>2. c.id \in Ids /\ c.op \in CommandOps
  BY DEF IsEntry
<1>3. r = Apply(m, Pid, c)
  OBVIOUS
<1> HIDE DEF m
<1>4. PICK s, p : Touched(m, r.m, Ids, c.id, s, p) /\ Effect(m, c, s, p, r.writes, r.done)
  BY <1>1, <1>2, <1>3, EffectOfEntry
<1>5. Finished(r.m, n, Ids, r.done, c.ts)
  <2>1. Shape(r.m, Ids)
    BY <1>4 DEF Touched
  <2> QED BY <2>1, FinishBatchKeeps
<1>6. r.done \subseteq {c.id}
  BY <1>4 DEF Effect
<1>7. y.status = n.status /\ y.prepared = n.prepared /\ y = WithoutStore(y) /\ Shape(With(y, {}), Ids)
  <2>1. y = WithoutStore(n) /\ Shape(n, Ids)
    BY <1>5 DEF Finished
  <2> HIDE DEF n
  <2>2. /\ y = [status |-> n.status, prepared |-> n.prepared, maxTs |-> n.maxTs]
        /\ y.status = n.status /\ y.prepared = n.prepared
    BY <2>1, SMTT(60) DEF WithoutStore
  <2>3. y = WithoutStore(y)
    BY <2>2 DEF WithoutStore
  <2> DEFINE z == With(y, {})
  <2>4. /\ z = [status |-> n.status, prepared |-> n.prepared, maxTs |-> n.maxTs, db |-> {}]
        /\ z.status = n.status /\ z.prepared = n.prepared
    BY <2>2, SMTT(60) DEF With
  <2>5. z = [status |-> z.status, prepared |-> z.prepared, maxTs |-> z.maxTs, db |-> z.db]
    BY <2>4
  <2> HIDE DEF z
  <2>6. Shape(z, Ids)
    BY <2>1, <2>4, <2>5 DEF Shape
  <2> QED BY <2>2, <2>3, <2>6 DEF z
<1> HIDE DEF n
<1>8. \A id \in Ids \ {c.id} : y.status[id] = x.status[id] /\ y.prepared[id] = x.prepared[id]
  BY <1>1, <1>4, <1>5, <1>6, <1>7, SMTT(60) DEF Touched, Finished
<1> DEFINE q == IF c.id \in r.done THEN Released(p) ELSE p
<1>9. y.status[c.id] = s /\ y.prepared[c.id] = q
  BY <1>2, <1>4, <1>5, <1>7 DEF Touched, Finished
<1>10. \A id \in Ids : EntryOK(x.status[id], x.prepared[id], i) /\ IsPrepared(x.prepared[id])
  <2>1. \A id \in Ids : IsPrepared(m.prepared[id])
    BY <1>1, ShapeOfPrepared
  <2> QED BY <1>1, <2>1 DEF MgrOK
<1> HIDE DEF q
<1>11. q = IF c.id \in r.done THEN Released(p) ELSE p
  BY DEF q
<1>12. checkLocks(m, c.txn) <=> checkLocks(x, c.txn)
  BY <1>1 DEF checkLocks, Held
<1>13. /\ EntryOK(s, q, i + 1)
       /\ ~q.released =>
              \/ /\ ~x.prepared[c.id].released
                 /\ q.ts = x.prepared[c.id].ts /\ q.txn = x.prepared[c.id].txn
              \/ q.ts = c.ts /\ q.locks = BuildLocks(c.txn) /\ checkLocks(x, c.txn)
       /\ \/ r.writes = {}
          \/ /\ checkLocks(x, c.txn) /\ r.writes = buildWriteRecords(c.id, c.ts, c.txn)
             /\ q = x.prepared[c.id]
          \/ /\ ~x.prepared[c.id].released /\ x.prepared[c.id].ts <= c.cts /\ q.released
             /\ r.writes = buildWriteRecords(c.id, c.cts, x.prepared[c.id].txn)
  <2>1. IsPrepared(m.prepared[c.id]) /\ EntryOK(m.status[c.id], m.prepared[c.id], i)
    BY <1>1, <1>2, <1>10
  <2>2. EntryResult(m, c, i, s, q, r.writes)
    BY <1>4, <1>11, <2>1, EntryStep
  <2> QED BY <1>1, <1>12, <2>2 DEF EntryResult
<1>14. \A id \in Ids : EntryOK(y.status[id], y.prepared[id], i + 1)
  <2> TAKE id \in Ids
  <2>1. CASE id = c.id
    BY <1>9, <1>13, <2>1
  <2>2. CASE id # c.id
    <3>1. EntryOK(x.status[id], x.prepared[id], i) /\ y.status[id] = x.status[id] /\ y.prepared[id] = x.prepared[id]
      BY <1>8, <1>10, <2>2
    <3> QED BY <3>1, SMTT(60) DEF EntryOK, Stamp
  <2> QED BY <2>1, <2>2
<1>15. ASSUME NEW a \in Ids, a # c.id, Holds(y, a), Holds(y, c.id)
       PROVE  /\ AllCompatible(y.prepared[a].locks, y.prepared[c.id].locks)
              /\ AllCompatible(y.prepared[c.id].locks, y.prepared[a].locks)
  <2> DEFINE L == y.prepared[a].locks
             K == y.prepared[c.id].locks
  <2>1. y.prepared[a] = x.prepared[a] /\ Holds(x, a)
    BY <1>8, <1>15 DEF Holds
  <2>2. ~q.released /\ K = q.locks
    BY <1>9, <1>15 DEF Holds
  <2>3. CASE ~x.prepared[c.id].released /\ q.txn = x.prepared[c.id].txn
    <3>1. q.locks = BuildLocks(q.txn) /\ x.prepared[c.id].locks = BuildLocks(x.prepared[c.id].txn)
      BY <1>2, <1>10, <1>13, <2>2, <2>3 DEF EntryOK
    <3>2. K = x.prepared[c.id].locks
      BY <2>2, <2>3, <3>1
    <3> QED BY <1>2, <1>15, <2>1, <2>3, <3>2 DEF MgrOK, Holds
  <2>4. CASE q.locks = BuildLocks(c.txn) /\ checkLocks(x, c.txn)
    <3>1. a \in DOMAIN x.prepared
      BY <1>1 DEF Shape
    <3>2. L \subseteq Held(x)
      BY <2>1, <3>1 DEF Held, Holds
    <3>3. \A k \in K, l \in L : CompatibleWith(k, l)
      BY <2>2, <2>4, <3>2 DEF checkLocks, AllCompatible
    <3>4. \A k \in K, l \in L : CompatibleWith(l, k)
      BY <3>3 DEF CompatibleWith
    <3> QED BY <3>3, <3>4 DEF AllCompatible
  <2> QED BY <1>13, <2>2, <2>3, <2>4
<1>16. \A a, b \in Ids : a # b /\ Holds(y, a) /\ Holds(y, b)
                            => AllCompatible(y.prepared[a].locks, y.prepared[b].locks)
  <2> SUFFICES ASSUME NEW a \in Ids, NEW b \in Ids, a # b, Holds(y, a), Holds(y, b)
               PROVE  AllCompatible(y.prepared[a].locks, y.prepared[b].locks)
    OBVIOUS
  <2>1. CASE a = c.id \/ b = c.id
    BY <1>15, <2>1
  <2>2. CASE a # c.id /\ b # c.id
    <3>1. y.prepared[a] = x.prepared[a] /\ y.prepared[b] = x.prepared[b]
      BY <1>8, <2>2
    <3> QED BY <3>1 DEF MgrOK, Holds
  <2> QED BY <2>1, <2>2
<1>17. MgrOK(y, i + 1)
  BY <1>7, <1>14, <1>16 DEF MgrOK
<1>18. Keeps(x, y, c)
  <2> SUFFICES ASSUME NEW id \in Ids, Holds(y, id)
               PROVE  \/ /\ Holds(x, id) /\ y.prepared[id].ts = x.prepared[id].ts
                         /\ y.prepared[id].txn = x.prepared[id].txn
                      \/ id = c.id /\ y.prepared[id].ts = c.ts
    BY DEF Keeps
  <2>1. CASE id = c.id
    BY <1>9, <1>13, <2>1 DEF Holds
  <2>2. CASE id # c.id
    BY <1>8, <2>2 DEF Holds
  <2> QED BY <2>1, <2>2
<1>19. Stores(x, y, c, r.writes)
  <2>1. CASE q = x.prepared[c.id]
    <3>1. \A id \in Ids : y.prepared[id] = x.prepared[id]
      BY <1>8, <1>9, <2>1
    <3> QED BY <1>9, <1>13, <3>1 DEF Stores, Holds
  <2>2. CASE q # x.prepared[c.id]
    BY <1>9, <1>13, <2>2 DEF Stores, Holds
  <2> QED BY <2>1, <2>2
<1> QED BY <1>17, <1>18, <1>19

-----------------------------------------------------------------------------
(* The history grows *)

(* Appending to a sequence. *)
LEMMA AppendFacts ==
    ASSUME NEW q, IsSeq(q), NEW e
    PROVE  /\ IsSeq(Append(q, e)) /\ Len(q) \in Nat /\ Len(Append(q, e)) = Len(q) + 1
           /\ Append(q, e)[Len(q) + 1] = e /\ \A i \in 1 .. Len(q) : Append(q, e)[i] = q[i]
<1>1. PICK S : q \in Seq(S)
  BY DEF IsSeq
<1>2. q \in Seq(S \cup {e}) /\ e \in S \cup {e}
  BY <1>1, SMTT(60)
<1>3. Append(q, e) \in Seq(S \cup {e})
  BY <1>2, SMTT(60)
<1> QED BY <1>2, <1>3, SMTT(60) DEF IsSeq

(* The versions a command stores are of keys that its transaction writes. *)
LEMMA WriteRecords ==
    ASSUME NEW id, NEW ts, NEW T, IsTxn(T)
    PROVE  /\ IsFiniteSet(buildWriteRecords(id, ts, T))
           /\ \A w \in buildWriteRecords(id, ts, T) :
                 /\ w.ts = ts /\ w.key \in Nat \ {0} /\ WritesKey(T, w.key)
                 /\ \E a \in T : a.first <= w.key /\ w.key < a.last
<1> DEFINE U == {a \in T : a.op \in Writes}
           B == buildWriteRecords(id, ts, T)
           f == [a \in U |-> [key |-> a.first, ts |-> ts, op |-> a.op, txn |-> id]]
<1>1. IsFiniteSet(U)
  <2>1. IsFiniteSet(T) /\ U \in SUBSET T
    BY DEF IsTxn
  <2> QED BY <2>1, FS_Subset
<1>2. \A w \in B : \E a \in U : w = [key |-> a.first, ts |-> ts, op |-> a.op, txn |-> id]
  BY DEF buildWriteRecords
<1>3. f \in Surjection(U, B)
  <2>1. \A a \in U : [key |-> a.first, ts |-> ts, op |-> a.op, txn |-> id] \in B
    BY DEF buildWriteRecords
  <2> HIDE DEF U, B
  <2>2. f \in [U -> B]
    BY <2>1
  <2>3. \A w \in B : \E a \in U : f[a] = w
    BY <1>2
  <2> HIDE DEF f
  <2> QED BY <2>2, <2>3 DEF Surjection
<1>4. IsFiniteSet(B)
  BY <1>1, <1>3, FS_Surjection
<1>5. ASSUME NEW w \in B
      PROVE  /\ w.ts = ts /\ w.key \in Nat \ {0} /\ WritesKey(T, w.key)
             /\ \E a \in T : a.first <= w.key /\ w.key < a.last
  <2>1. PICK a \in U : w = [key |-> a.first, ts |-> ts, op |-> a.op, txn |-> id]
    BY <1>2
  <2>2. /\ a \in T /\ a.op \in Writes /\ w.key = a.first /\ w.ts = ts
        /\ a.first \in Nat \ {0} /\ a.last = a.first + 1
    BY <2>1 DEF IsTxn
  <2> QED BY <2>2, SMTT(60) DEF WritesKey
<1> QED BY <1>4, <1>5

(* The history with one more entry, that leads to manager y and stores W. *)
Extended(k, y, W) ==
    /\ k \in Nat /\ N' = k + 1
    /\ \A i \in 1 .. k : outcome'[i] = outcome[i]
    /\ outcome'[k + 1].writes = W /\ After(k + 1)' = y
    /\ \A i \in 0 .. k : After(i)' = After(i) /\ Written(i)' = Written(i)
    /\ Written(k + 1)' = Written(k) \cup W

(* What stays when one more entry is applied. *)
LEMMA HistoryFrame ==
    ASSUME IsSeq(outcome), NEW o, outcome' = Append(outcome, o), NEW k, k = N
    PROVE  Extended(k, o.mgr, o.writes) /\ IsSeq(outcome)' /\ outcome'[k + 1] = o
<1> DEFINE q == Append(outcome, o)
<1>0. /\ IsSeq(q) /\ Len(outcome) \in Nat /\ Len(q) = Len(outcome) + 1
      /\ q[Len(outcome) + 1] = o /\ \A i \in 1 .. Len(outcome) : q[i] = outcome[i]
  BY AppendFacts
<1>q. k = Len(outcome) /\ N' = Len(outcome') /\ outcome' = q
  BY DEF N
<1> HIDE DEF q
<1>1. /\ k \in Nat /\ N' = k + 1 /\ outcome'[k + 1] = o
      /\ \A i \in 1 .. k : outcome'[i] = outcome[i]
  BY <1>0, <1>q
<1>s. IsSeq(outcome)'
  BY <1>0, <1>q DEF IsSeq
<1>2. After(k + 1)' = o.mgr
  BY <1>1, SMTT(60) DEF After
<1>3. ASSUME NEW i \in 0 .. k PROVE After(i)' = After(i)
  <2>1. i = 0 \/ i \in 1 .. k
    BY <1>1, SMTT(60)
  <2> QED BY <1>1, <2>1 DEF After
<1>4. ASSUME NEW i \in 0 .. k PROVE Written(i)' = Written(i)
  <2>1. \A j \in 1 .. i : j \in 1 .. k
    BY <1>1, SMTT(60)
  <2>2. \A j \in 1 .. i : outcome'[j].writes = outcome[j].writes
    BY <1>1, <2>1
  <2>3. {outcome'[j].writes : j \in 1 .. i} = {outcome[j].writes : j \in 1 .. i}
    BY <2>2
  <2> QED BY <2>3 DEF Written
<1>5. Written(k + 1)' = Written(k) \cup o.writes
  <2>1. Written(k + 1)' = UNION {outcome'[j].writes : j \in 1 .. (k + 1)}
    BY DEF Written
  <2>2. ASSUME NEW w PROVE w \in Written(k + 1)' <=> w \in Written(k) \/ w \in o.writes
    <3>1. w \in Written(k + 1)' <=> \E j \in 1 .. (k + 1) : w \in outcome'[j].writes
      BY <2>1
    <3>2. w \in Written(k) <=> \E j \in 1 .. k : w \in outcome[j].writes
      BY DEF Written
    <3>3. \A j : j \in 1 .. (k + 1) <=> j \in 1 .. k \/ j = k + 1
      BY <1>1, SMTT(60)
    <3> QED BY <1>1, <3>1, <3>2, <3>3
  <2> QED BY <2>2
<1> QED BY <1>1, <1>s, <1>2, <1>3, <1>4, <1>5 DEF Extended

(* What an entry stores is new, or is locked by its transaction. *)
LEMMA StoredVersions ==
    ASSUME NEW x, NEW y, NEW c, NEW k \in Nat, NEW W, MgrOK(x, k), IsEntry(c, k + 1), Stores(x, y, c, W)
    PROVE  /\ IsFiniteSet(W)
           /\ \A w \in W : /\ IsVersion(w, k + 1)
                           /\ \/ w.ts = k + 2
                              \/ /\ Holds(x, c.id) /\ x.prepared[c.id].ts <= w.ts
                                 /\ WritesKey(x.prepared[c.id].txn, w.key)
<1>1. /\ c.id \in Ids /\ IsTxn(c.txn) /\ c.ts = k + 2 /\ c.cts \in Nat /\ c.cts <= k + 2
      /\ c.ts \in Nat /\ 2 <= c.ts /\ c.ts <= Stamp(k + 1) /\ c.cts <= Stamp(k + 1)
  BY SMTT(60) DEF IsEntry, Stamp
<1>2. CASE W = {}
  BY <1>2, FS_EmptySet
<1>3. CASE W = buildWriteRecords(c.id, c.ts, c.txn)
  <2>1. IsTxn(c.txn)
    BY <1>1
  <2>2. /\ IsFiniteSet(buildWriteRecords(c.id, c.ts, c.txn))
        /\ \A w \in buildWriteRecords(c.id, c.ts, c.txn) : w.ts = c.ts /\ w.key \in Nat \ {0}
    BY <2>1, WriteRecords, SMTT(60)
  <2> QED BY <1>1, <1>3, <2>2 DEF IsVersion
<1>4. CASE /\ Holds(x, c.id) /\ x.prepared[c.id].ts <= c.cts
           /\ W = buildWriteRecords(c.id, c.cts, x.prepared[c.id].txn)
  <2>1. EntryOK(x.status[c.id], x.prepared[c.id], k)
    BY <1>1 DEF MgrOK
  <2>2. IsTxn(x.prepared[c.id].txn) /\ x.prepared[c.id].ts \in Nat /\ x.prepared[c.id].ts >= 2
    BY <1>4, <2>1 DEF EntryOK, Holds
  <2>3. /\ IsFiniteSet(buildWriteRecords(c.id, c.cts, x.prepared[c.id].txn))
        /\ \A w \in buildWriteRecords(c.id, c.cts, x.prepared[c.id].txn) :
              w.ts = c.cts /\ w.key \in Nat \ {0} /\ WritesKey(x.prepared[c.id].txn, w.key)
    BY <2>2, WriteRecords, SMTT(60)
  <2>4. 2 <= c.cts
    BY <1>1, <1>4, <2>2, SMTT(60)
  <2> QED BY <1>1, <1>4, <2>3, <2>4 DEF IsVersion
<1> QED BY <1>2, <1>3, <1>4 DEF Stores

(* What an entry stores is locked by nobody once it is stored. *)
LEMMA WrittenUnlocked ==
    ASSUME NEW x, NEW y, NEW c, NEW k \in Nat, NEW W, MgrOK(x, k), IsEntry(c, k + 1),
           Keeps(x, y, c), Stores(x, y, c, W), NEW w \in W,
           NEW id \in Ids, Holds(y, id), WritesKey(y.prepared[id].txn, w.key)
    PROVE  FALSE
<1>1. c.id \in Ids /\ IsTxn(c.txn) /\ \A a \in Ids : EntryOK(x.status[a], x.prepared[a], k)
  BY DEF IsEntry, MgrOK
<1>2. \A a \in Ids : Holds(x, a) => x.prepared[a].locks = BuildLocks(x.prepared[a].txn) /\ IsTxn(x.prepared[a].txn)
  BY <1>1 DEF EntryOK, Holds
<1>3. CASE /\ checkLocks(x, c.txn) /\ W = buildWriteRecords(c.id, c.ts, c.txn)
           /\ \A a \in Ids : y.prepared[a] = x.prepared[a]
  <2>1. Holds(x, id) /\ WritesKey(x.prepared[id].txn, w.key)
    BY <1>3 DEF Holds
  <2>2. w.key \in Nat /\ \E a \in c.txn : a.first <= w.key /\ w.key < a.last
    BY <1>1, <1>3, WriteRecords
  <2>3. ~AllCompatible(BuildLocks(c.txn), x.prepared[id].locks)
    BY <1>1, <1>2, <2>1, <2>2, WriteConflicts
  <2>4. id \in DOMAIN x.prepared
    BY DEF MgrOK, Shape, With
  <2>5. x.prepared[id].locks \subseteq Held(x)
    BY <2>1, <2>4 DEF Held, Holds
  <2> QED BY <1>3, <2>3, <2>5 DEF checkLocks, AllCompatible
<1>4. CASE /\ Holds(x, c.id) /\ ~Holds(y, c.id)
           /\ W = buildWriteRecords(c.id, c.cts, x.prepared[c.id].txn)
  <2>1. id # c.id
    BY <1>4
  <2>2. Holds(x, id) /\ WritesKey(x.prepared[id].txn, w.key)
    BY <2>1 DEF Keeps
  <2>3. w.key \in Nat /\ \E a \in x.prepared[c.id].txn : a.first <= w.key /\ w.key < a.last
    BY <1>1, <1>2, <1>4, WriteRecords, SMTT(60)
  <2>4. ~AllCompatible(x.prepared[id].locks, x.prepared[c.id].locks)
    BY <1>1, <1>2, <1>4, <2>2, <2>3, WriteConflicts
  <2> QED BY <1>1, <1>4, <2>1, <2>2, <2>4 DEF MgrOK
<1> QED BY <1>3, <1>4 DEF Stores

(* HeldSince, after one more entry. *)
LEMMA HeldSinceKept ==
    ASSUME NEW k, k = N, NEW y, NEW W, NEW c, HeldSince, Extended(k, y, W), MgrOK(y, k + 1),
           c.ts = k + 2, Keeps(After(k), y, c)
    PROVE  HeldSince'
<1>1. k \in Nat /\ N' = k + 1 /\ After(k + 1)' = y /\ \A i \in 0 .. k : After(i)' = After(i)
  BY DEF Extended
<1>2. After(N)' = y
  BY <1>1 DEF After
<1> SUFFICES ASSUME NEW id \in Ids, NEW i \in 0 .. (k + 1), Holds(y, id), y.prepared[id].ts <= Stamp(i)
             PROVE  Holds(After(i)', id) /\ After(i)'.prepared[id].txn = y.prepared[id].txn
  BY <1>1, <1>2 DEF HeldSince, Holds
<1>3. CASE i = k + 1
  BY <1>1, <1>3
<1>4. CASE i # k + 1
  <2>1. i \in 0 .. k /\ Stamp(i) <= k + 1 /\ Stamp(i) \in Nat
    BY <1>1, <1>4, SMTT(60) DEF Stamp
  <2>2. y.prepared[id].ts # c.ts
    BY <1>1, <2>1, SMTT(60)
  <2>3. /\ Holds(After(k), id) /\ y.prepared[id].ts = After(k).prepared[id].ts
        /\ y.prepared[id].txn = After(k).prepared[id].txn
    BY <2>2 DEF Keeps
  <2> QED BY <1>1, <2>1, <2>3 DEF HeldSince
<1> QED BY <1>3, <1>4

(* LockedUnwritten, after one more entry. *)
LEMMA LockedUnwrittenKept ==
    ASSUME NEW k, k = N, NEW y, NEW W, NEW c, Extended(k, y, W), MgrOK(After(k), k), IsEntry(c, k + 1),
           Keeps(After(k), y, c), Stores(After(k), y, c, W), LockedUnwritten, VersionsOK
    PROVE  LockedUnwritten'
<1>1. /\ k \in Nat /\ N' = k + 1 /\ After(k + 1)' = y /\ outcome'[k + 1].writes = W
      /\ \A i \in 1 .. k : outcome'[i] = outcome[i]
  BY DEF Extended
<1>2. After(N)' = y
  BY <1>1 DEF After
<1>3. c.ts = k + 2
  BY <1>1, SMTT(60) DEF IsEntry, Stamp
<1> SUFFICES ASSUME NEW id \in Ids, NEW i \in 1 .. (k + 1), NEW w \in outcome'[i].writes,
                    Holds(y, id), WritesKey(y.prepared[id].txn, w.key)
             PROVE  w.ts < y.prepared[id].ts
  BY <1>1, <1>2 DEF LockedUnwritten, Holds, WritesKey
<1>4. CASE i = k + 1
  BY <1>1, <1>4, WrittenUnlocked
<1>5. CASE i # k + 1
  <2>1. i \in 1 .. k /\ w \in outcome[i].writes
    BY <1>1, <1>5, SMTT(60)
  <2>2. CASE /\ Holds(After(k), id) /\ y.prepared[id].ts = After(k).prepared[id].ts
             /\ y.prepared[id].txn = After(k).prepared[id].txn
    BY <2>1, <2>2 DEF LockedUnwritten
  <2>3. CASE y.prepared[id].ts = c.ts
    <3>1. w.ts \in Nat /\ w.ts <= i + 1
      BY <2>1 DEF VersionsOK, IsVersion, Stamp
    <3> QED BY <1>1, <1>3, <2>1, <2>3, <3>1, SMTT(60)
  <2> QED BY <2>2, <2>3 DEF Keeps
<1> QED BY <1>4, <1>5

(* LaterLocked, after one more entry. *)
LEMMA LaterLockedKept ==
    ASSUME NEW k, k = N, NEW y, NEW W, NEW c, Extended(k, y, W), MgrOK(After(k), k), IsEntry(c, k + 1),
           Stores(After(k), y, c, W), LaterLocked, HeldSince
    PROVE  LaterLocked'
<1>1. /\ k \in Nat /\ N' = k + 1 /\ outcome'[k + 1].writes = W
      /\ \A i \in 1 .. k : outcome'[i] = outcome[i]
      /\ \A i \in 0 .. k : After(i)' = After(i)
  BY DEF Extended
<1> SUFFICES ASSUME NEW i \in 1 .. (k + 1), NEW j \in i .. (k + 1), NEW w \in outcome'[j].writes,
                    ~(w.ts >= Stamp(i))
             PROVE  \E id \in Ids : /\ Holds(After(i - 1)', id)
                                    /\ WritesKey(After(i - 1)'.prepared[id].txn, w.key)
  BY <1>1 DEF LaterLocked, Holds, WritesKey
<1>2. i - 1 \in 0 .. k /\ After(i - 1)' = After(i - 1)
  BY <1>1, SMTT(60)
<1>3. CASE j # k + 1
  <2>1. i \in 1 .. k /\ j \in i .. k /\ w \in outcome[j].writes
    BY <1>1, <1>3, SMTT(60)
  <2> QED BY <1>2, <2>1 DEF LaterLocked
<1>4. CASE j = k + 1
  <2> DEFINE p == After(k).prepared[c.id]
  <2>1. /\ IsVersion(w, k + 1)
        /\ \/ w.ts = k + 2
           \/ Holds(After(k), c.id) /\ p.ts <= w.ts /\ WritesKey(p.txn, w.key)
    BY <1>1, <1>4, StoredVersions
  <2>2. w.ts \in Nat /\ Stamp(i) = i + 1 /\ Stamp(i - 1) = i
    BY <1>1, <2>1, SMTT(60) DEF IsVersion, Stamp
  <2>3. w.ts # k + 2 /\ w.ts <= i
    BY <1>1, <2>2, SMTT(60)
  <2>4. Holds(After(k), c.id) /\ p.ts <= w.ts /\ WritesKey(p.txn, w.key)
    BY <2>1, <2>3
  <2>5. c.id \in Ids /\ EntryOK(After(k).status[c.id], p, k)
    BY DEF IsEntry, MgrOK
  <2>6. p.ts \in Nat
    BY <2>5 DEF EntryOK
  <2> HIDE DEF p
  <2>7. p.ts <= Stamp(i - 1)
    BY <1>1, <2>2, <2>3, <2>4, <2>6, SMTT(60)
  <2>8. Holds(After(i - 1), c.id) /\ After(i - 1).prepared[c.id].txn = p.txn
    BY <1>2, <2>4, <2>5, <2>7 DEF HeldSince, p
  <2> QED BY <1>2, <2>4, <2>5, <2>8
<1> QED BY <1>3, <1>4

(* AddressesDiffer, after one more entry. *)
LEMMA AddressesKept ==
    ASSUME NEW k, k = N, NEW y, NEW W, NEW c, Extended(k, y, W), MgrOK(After(k), k), IsEntry(c, k + 1),
           Stores(After(k), y, c, W), LockedUnwritten, AddressesDiffer, VersionsOK
    PROVE  AddressesDiffer'
<1>1. /\ k \in Nat /\ N' = k + 1 /\ outcome'[k + 1].writes = W
      /\ \A i \in 1 .. k : outcome'[i] = outcome[i]
  BY DEF Extended
<1>2. ASSUME NEW i \in 1 .. k, NEW v \in outcome[i].writes, NEW w \in W PROVE v.key # w.key \/ v.ts # w.ts
  <2> DEFINE p == After(k).prepared[c.id]
  <2>1. /\ IsVersion(w, k + 1)
        /\ \/ w.ts = k + 2
           \/ Holds(After(k), c.id) /\ p.ts <= w.ts /\ WritesKey(p.txn, w.key)
    BY <1>1, StoredVersions
  <2>2. v.ts \in Nat /\ v.ts <= i + 1 /\ w.ts \in Nat
    BY <1>2, <2>1 DEF VersionsOK, IsVersion, Stamp
  <2>3. CASE w.ts = k + 2
    BY <1>1, <2>2, <2>3, SMTT(60)
  <2>4. CASE Holds(After(k), c.id) /\ p.ts <= w.ts /\ WritesKey(p.txn, w.key)
    <3>1. c.id \in Ids /\ EntryOK(After(k).status[c.id], p, k)
      BY DEF IsEntry, MgrOK
    <3>2. p.ts \in Nat
      BY <3>1 DEF EntryOK
    <3>3. v.key = w.key => v.ts < p.ts
      BY <1>2, <2>4, <3>1 DEF LockedUnwritten
    <3> HIDE DEF p
    <3> QED BY <2>2, <2>4, <3>2, <3>3, SMTT(60)
  <2> QED BY <2>1, <2>3, <2>4
<1>3. ASSUME NEW i \in 1 .. (k + 1), NEW j \in 1 .. (k + 1),
             NEW v \in outcome'[i].writes, NEW w \in outcome'[j].writes, SameAddress(v, w)
      PROVE  i = j
  <2>1. v.key = w.key /\ v.ts = w.ts
    BY <1>3 DEF SameAddress
  <2>2. (i \in 1 .. k \/ i = k + 1) /\ (j \in 1 .. k \/ j = k + 1)
    BY <1>1, SMTT(60)
  <2> QED BY <1>1, <1>2, <1>3, <2>1, <2>2 DEF AddressesDiffer
<1> QED BY <1>1, <1>3 DEF AddressesDiffer, SameAddress

(* OneRun, after one more entry. *)
LEMMA OneRunKept ==
    ASSUME NEW k, k = N, NEW y, NEW W, Extended(k, y, W), log' = log, OneRun,
           outcome'[k + 1] = OutcomeOf(With(After(k), Written(k)), log[k + 1])
    PROVE  OneRun'
<1>1. /\ k \in Nat /\ N' = k + 1
      /\ \A i \in 1 .. k : outcome'[i] = outcome[i]
      /\ \A i \in 0 .. k : After(i)' = After(i) /\ Written(i)' = Written(i)
  BY DEF Extended
<1> SUFFICES ASSUME NEW i \in 1 .. (k + 1)
             PROVE  outcome'[i] = OutcomeOf(With(After(i - 1)', Written(i - 1)'), log'[i])
  BY <1>1 DEF OneRun, OutcomeOf, With
<1>2. i - 1 \in 0 .. k /\ After(i - 1)' = After(i - 1) /\ Written(i - 1)' = Written(i - 1)
  BY <1>1, SMTT(60)
<1>3. CASE i = k + 1
  <2>1. i - 1 = k
    BY <1>1, <1>3, SMTT(60)
  <2> QED BY <1>2, <1>3, <2>1
<1>4. CASE i # k + 1
  <2>1. i \in 1 .. k
    BY <1>1, <1>4, SMTT(60)
  <2> QED BY <1>1, <1>2, <2>1 DEF OneRun
<1> QED BY <1>3, <1>4

(* VersionsOK, after one more entry. *)
LEMMA VersionsKept ==
    ASSUME NEW k, k = N, NEW y, NEW W, NEW c, Extended(k, y, W), MgrOK(After(k), k), IsEntry(c, k + 1),
           Stores(After(k), y, c, W), VersionsOK
    PROVE  VersionsOK'
<1>1. /\ k \in Nat /\ N' = k + 1 /\ outcome'[k + 1].writes = W
      /\ \A i \in 1 .. k : outcome'[i] = outcome[i]
      /\ Written(k + 1)' = Written(k) \cup W
  BY DEF Extended
<1>2. Written(N)' = Written(k) \cup W
  BY <1>1 DEF Written
<1>3. IsFiniteSet(W) /\ \A w \in W : IsVersion(w, k + 1)
  BY <1>1, StoredVersions
<1>4. IsFiniteSet(Written(N)')
  BY <1>2, <1>3, FS_Union DEF VersionsOK
<1>5. ASSUME NEW i \in 1 .. (k + 1), NEW w \in outcome'[i].writes PROVE IsVersion(w, i)
  <2>1. i \in 1 .. k \/ i = k + 1
    BY <1>1, SMTT(60)
  <2> QED BY <1>1, <1>3, <1>5, <2>1 DEF VersionsOK
<1> QED BY <1>1, <1>4, <1>5 DEF VersionsOK, IsVersion

(* An entry that is applied for the first time extends the history. *)
LEMMA HistoryApplies ==
    ASSUME History, N < Len(log), log' = log,
           outcome' = Append(outcome, OutcomeOf(With(After(N), Written(N)), log[N + 1]))
    PROVE  History' /\ N' = N + 1 /\ \A i \in 0 .. N : After(i)' = After(i) /\ Written(i)' = Written(i)
<1> DEFINE C == log[N + 1]
           O == OutcomeOf(With(After(N), Written(N)), C)
           R == Apply(With(After(N), Written(N)), Pid, C)
<1>1. PICK k, c, o, r : k = N /\ c = C /\ o = O /\ r = R
  OBVIOUS
<1>2. /\ IsSeq(outcome) /\ Len(outcome) <= Len(log) /\ MgrOK(After(k), k)
      /\ k \in Nat /\ IsEntry(c, k + 1)
  <2>1. IsSeq(outcome) /\ IsSeq(log) /\ Len(outcome) <= Len(log)
    BY DEF History, LogOK
  <2>2. k \in Nat /\ Len(log) \in Nat
    BY <1>1, <2>1, AppendFacts DEF N
  <2>3. k + 1 \in 1 .. Len(log) /\ k \in 0 .. N
    BY <1>1, <2>2, SMTT(60)
  <2> QED BY <1>1, <2>1, <2>2, <2>3 DEF History, LogOK, ManagersOK
<1> DEFINE y == WithoutStore(FinishBatch(r.m, r.writes, r.done, c.ts))
<1>3. o.writes = r.writes /\ o.mgr = y
  BY <1>1 DEF OutcomeOf
<1>4. Extended(k, o.mgr, o.writes) /\ IsSeq(outcome)' /\ outcome'[k + 1] = o
  <2>1. outcome' = Append(outcome, o)
    BY <1>1
  <2> QED BY <1>1, <1>2, <2>1, HistoryFrame
<1>5. r = Apply(With(After(k), Written(k)), Pid, c) /\ o = OutcomeOf(With(After(k), Written(k)), log[k + 1])
  BY <1>1
<1> HIDE DEF C, O, R
<1>6. MgrOK(o.mgr, k + 1) /\ Keeps(After(k), o.mgr, c) /\ Stores(After(k), o.mgr, c, o.writes)
  <2>1. MgrOK(y, k + 1) /\ Keeps(After(k), y, c) /\ Stores(After(k), y, c, r.writes)
    BY <1>2, <1>5, ManagerStep
  <2> QED BY <1>3, <2>1
<1> HIDE DEF y
<1>7. N' = k + 1 /\ \A i \in 0 .. k : After(i)' = After(i) /\ Written(i)' = Written(i)
  BY <1>4 DEF Extended
<1>8. LogOK'
  <2>1. N' <= Len(log')
    BY <1>1, <1>2, <1>7, SMTT(60) DEF N
  <2> QED BY <1>2, <1>4, <2>1 DEF History, LogOK, N, IsEntry, IsSeq
<1>9. ManagersOK'
  <2> SUFFICES ASSUME NEW i \in 0 .. (k + 1) PROVE MgrOK(After(i)', i)
    BY <1>7 DEF ManagersOK, MgrOK
  <2>1. i \in 0 .. k \/ i = k + 1
    BY <1>2, SMTT(60)
  <2>2. After(k + 1)' = o.mgr
    BY <1>4 DEF Extended
  <2> QED BY <1>1, <1>6, <1>7, <2>1, <2>2 DEF History, ManagersOK
<1>10. c.ts = k + 2
  BY <1>2, SMTT(60) DEF IsEntry, Stamp
<1>11. OneRun'
  BY <1>1, <1>4, <1>5, OneRunKept DEF History
<1>12. HeldSince'
  BY <1>1, <1>4, <1>6, <1>10, HeldSinceKept DEF History
<1>13. VersionsOK' /\ LockedUnwritten'
  BY <1>1, <1>2, <1>4, <1>6, VersionsKept, LockedUnwrittenKept DEF History
<1>14. LaterLocked' /\ AddressesDiffer'
  BY <1>1, <1>2, <1>4, <1>6, LaterLockedKept, AddressesKept DEF History
<1> QED BY <1>1, <1>7, <1>8, <1>9, <1>11, <1>12, <1>13, <1>14 DEF History

(* Commands that are appended leave the history alone. *)
LEMMA HistoryLogs ==
    ASSUME History, NEW c, IsEntry(c, Len(log) + 1), log' = Append(log, c), outcome' = outcome
    PROVE  History'
<1>1. IsSeq(log) /\ IsSeq(outcome) /\ N <= Len(log)
  BY DEF History, LogOK, N
<1> DEFINE q == Append(log, c)
           l == Len(log)
<1>2. /\ IsSeq(q) /\ l \in Nat /\ Len(q) = l + 1 /\ N \in Nat
      /\ q[l + 1] = c /\ \A i \in 1 .. l : q[i] = log[i]
  BY <1>1, AppendFacts DEF N
<1>3. N' = N /\ log' = q /\ \A i : After(i)' = After(i) /\ Written(i)' = Written(i)
  BY DEF N, After, Written
<1> HIDE DEF q
<1>4. \A i \in 1 .. N : i \in 1 .. l /\ q[i] = log[i]
  BY <1>1, <1>2, SMTT(60)
<1>5. ASSUME NEW i \in 1 .. (l + 1) PROVE IsEntry(q[i], i)
  <2>1. i \in 1 .. l \/ i = l + 1
    BY <1>2, SMTT(60)
  <2> QED BY <1>2, <2>1 DEF History, LogOK
<1> HIDE DEF l
<1>6. LogOK'
  <2>1. N <= l + 1
    BY <1>1, <1>2, SMTT(60) DEF l
  <2>2. IsSeq(q) /\ IsSeq(outcome) /\ N <= Len(q) /\ \A i \in 1 .. Len(q) : IsEntry(q[i], i)
    BY <1>1, <1>2, <1>5, <2>1
  <2> QED BY <1>3, <2>2 DEF LogOK, N, IsSeq, IsEntry
<1>7. OneRun'
  <2>1. ASSUME NEW i \in 1 .. N PROVE outcome[i] = OutcomeOf(With(After(i - 1), Written(i - 1)), q[i])
    BY <1>4 DEF History, OneRun
  <2>2. ASSUME NEW i \in 1 .. N PROVE (outcome[i] = OutcomeOf(With(After(i - 1), Written(i - 1)), log[i]))'
    BY <1>3, <2>1
  <2> QED BY <1>3, <2>2 DEF OneRun
<1>8. ManagersOK'
  BY <1>3 DEF History, ManagersOK, MgrOK
<1>9. HeldSince'
  BY <1>3 DEF History, HeldSince, Holds
<1>10. VersionsOK'
  BY <1>3 DEF History, VersionsOK, IsVersion
<1>11. LockedUnwritten'
  BY <1>3 DEF History, LockedUnwritten, Holds, WritesKey
<1>12. LaterLocked'
  <2>1. \A i : After(i - 1)' = After(i - 1)
    BY <1>3
  <2> QED BY <1>3, <2>1, SMTT(60) DEF History, LaterLocked, Holds, WritesKey
<1>13. AddressesDiffer'
  BY <1>3, SMTT(60) DEF History, AddressesDiffer, SameAddress
<1> QED BY <1>6, <1>7, <1>8, <1>9, <1>10, <1>11, <1>12, <1>13 DEF History

-----------------------------------------------------------------------------
(* An entry applied again *)

(* Validation reads the versions a transaction covers, as of its timestamp. *)
LEMMA SameValidation ==
    ASSUME NEW x, NEW D, NEW E, NEW ts, NEW T,
           \A a \in T : \A key \in a.first .. (a.last - 1) : Visible(D, ts - 1, key) = Visible(E, ts - 1, key)
    PROVE  validate(With(x, D), ts, T) <=> validate(With(x, E), ts, T)
<1>1. With(x, D).db = D /\ With(x, E).db = E
  BY DEF With
<1>2. ASSUME NEW a \in T
      PROVE  ExistsInRange(D, ts - 1, a.first, a.last) = ExistsInRange(E, ts - 1, a.first, a.last)
  <2>1. \A key \in a.first .. (a.last - 1) : Exists(D, ts - 1, key) <=> Exists(E, ts - 1, key)
    BY DEF Exists, Get
  <2> QED BY <2>1 DEF ExistsInRange
<1> QED BY <1>1, <1>2 DEF validate

(* Two managers, and two results, that differ in the store at most. *)
Twins(m, n) == m.status = n.status /\ m.prepared = n.prepared

SameResult(a, b) ==
    /\ a.status = b.status /\ a.err = b.err /\ a.writes = b.writes /\ a.done = b.done
    /\ Twins(a.m, b.m)

(* Managers that differ in their stores only, after the same update. *)
LEMMA UpdatedTwins ==
    ASSUME NEW m, NEW n, Twins(m, n), NEW m1, NEW n1, NEW id, NEW s, NEW p,
           Updated(m, m1, id, s, p), Updated(n, n1, id, s, p)
    PROVE  Twins(m1, n1)
BY DEF Twins, Updated

(* Their replies and errors. *)
LEMMA ReturnTwins ==
    ASSUME NEW m, NEW n, Twins(m, n)
    PROVE  /\ \A s, W, d : SameResult(Applied(m, s, W, d), Applied(n, s, W, d))
           /\ \A s : SameResult(Return(m, s), Return(n, s))
           /\ \A e : SameResult(Error(m, e), Error(n, e))
<1>1. \A s, W, d : SameResult(Applied(m, s, W, d), Applied(n, s, W, d))
  BY DEF SameResult, Applied
<1>2. \A s : SameResult(Return(m, s), Return(n, s))
  BY <1>1 DEF Return
<1>3. \A e : SameResult(Error(m, e), Error(n, e))
  BY DEF SameResult, Error, Return, Applied
<1> QED BY <1>1, <1>2, <1>3

(* A command has the same result for both, if they agree on what is valid. *)
LEMMA ApplyTwins ==
    ASSUME NEW m, NEW n, Twins(m, n), Shape(m, Ids), Shape(n, Ids), NEW c, c.id \in Ids, c.op \in CommandOps,
           m.status[c.id].state = "none" /\ checkLocks(m, c.txn)
              => (validate(m, c.ts, c.txn) <=> validate(n, c.ts, c.txn))
    PROVE  SameResult(Apply(m, Pid, c), Apply(n, Pid, c))
<1>1. m.status = n.status /\ m.prepared = n.prepared
  BY DEF Twins
<1>2. Admission(m, c) = Admission(n, c)
  <2>1. checkLocks(m, c.txn) <=> checkLocks(n, c.txn)
    BY <1>1 DEF checkLocks, Held
  <2> QED BY <1>1, <2>1 DEF Admission
<1>3. Found(m, c) = Found(n, c) /\ FoundAtPrincipal(m, Pid, c) = FoundAtPrincipal(n, Pid, c)
  BY <1>1 DEF Found, FoundAtPrincipal
<1>4. /\ \A s, W, d : SameResult(Applied(m, s, W, d), Applied(n, s, W, d))
      /\ \A s : SameResult(Return(m, s), Return(n, s))
      /\ \A e : SameResult(Error(m, e), Error(n, e))
  BY ReturnTwins
<1>5. \A s : Twins(SetStatus(m, c.id, s), SetStatus(n, c.id, s))
  <2> TAKE s
  <2>1. /\ Updated(m, SetStatus(m, c.id, s), c.id, s, m.prepared[c.id])
        /\ Updated(n, SetStatus(n, c.id, s), c.id, s, m.prepared[c.id])
    BY <1>1, SetStatusUpdates
  <2> QED BY <2>1, UpdatedTwins
<1>6. \A s, p : Twins(SetPrepared(SetStatus(m, c.id, s), c.id, p), SetPrepared(SetStatus(n, c.id, s), c.id, p))
  <2> TAKE s, p
  <2>1. /\ Updated(m, SetPrepared(SetStatus(m, c.id, s), c.id, p), c.id, s, p)
        /\ Updated(n, SetPrepared(SetStatus(n, c.id, s), c.id, p), c.id, s, p)
    BY SetBothUpdates
  <2> QED BY <2>1, UpdatedTwins
<1>7. /\ Twins(releaseLocks(m, c.id), releaseLocks(n, c.id))
      /\ \A s : Twins(SetStatus(releaseLocks(m, c.id), c.id, s), SetStatus(releaseLocks(n, c.id), c.id, s))
  BY <1>1, ReleaseUpdates, UpdatedTwins
<1>8. SameResult(applyAutocommit(m, c), applyAutocommit(n, c))
  <2>1. \A s, W, d : SameResult(Applied(SetStatus(m, c.id, s), s, W, d), Applied(SetStatus(n, c.id, s), s, W, d))
    BY <1>5, ReturnTwins
  <2> QED BY <1>1, <1>2, <1>4, <2>1 DEF applyAutocommit
<1>9. SameResult(applyPrepare(m, c), applyPrepare(n, c))
  <2>1. \A s, p : SameResult(Return(SetPrepared(SetStatus(m, c.id, s), c.id, p), s),
                             Return(SetPrepared(SetStatus(n, c.id, s), c.id, p), s))
    BY <1>6, ReturnTwins
  <2> QED BY <1>1, <1>2, <1>4, <2>1 DEF applyPrepare
<1>10. SameResult(applyCommit(m, c), applyCommit(n, c))
  <2>1. \A s, W, d : SameResult(Applied(SetStatus(m, c.id, s), s, W, d), Applied(SetStatus(n, c.id, s), s, W, d))
    BY <1>5, ReturnTwins
  <2> QED BY <1>1, <1>3, <1>4, <2>1, SMTT(60) DEF applyCommit
<1>11. SameResult(applyAbort(m, c), applyAbort(n, c))
  <2>1. \A s : SameResult(Return(SetStatus(releaseLocks(m, c.id), c.id, s), s),
                          Return(SetStatus(releaseLocks(n, c.id), c.id, s), s))
    BY <1>7, ReturnTwins
  <2> QED BY <1>1, <1>3, <1>4, <2>1 DEF applyAbort
<1>12. SameResult(applyStoreDecision(m, Pid, c), applyStoreDecision(n, Pid, c))
  <2>1. \A s, p : SameResult(Return(SetPrepared(SetStatus(m, c.id, s), c.id, p), s),
                             Return(SetPrepared(SetStatus(n, c.id, s), c.id, p), s))
    BY <1>6, ReturnTwins
  <2> QED BY <1>1, <1>3, <1>4, <2>1, SMTT(60) DEF applyStoreDecision
<1>13. SameResult(applyMarkTimedout(m, Pid, c), applyMarkTimedout(n, Pid, c))
  <2>1. \A s : SameResult(Return(SetStatus(m, c.id, s), s), Return(SetStatus(n, c.id, s), s))
    BY <1>5, ReturnTwins
  <2>2. \A s : SameResult(Return(releaseLocks(m, c.id), s), Return(releaseLocks(n, c.id), s))
    BY <1>7, ReturnTwins
  <2> QED BY <1>1, <1>3, <1>4, <2>1, <2>2 DEF applyMarkTimedout
<1> QED BY <1>8, <1>9, <1>10, <1>11, <1>12, <1>13 DEF Apply, CommandOps

(* So has the entry of the log. *)
LEMMA OutcomeTwins ==
    ASSUME NEW m, NEW n, NEW c, SameResult(Apply(m, Pid, c), Apply(n, Pid, c))
    PROVE  OutcomeOf(m, c) = OutcomeOf(n, c)
<1> DEFINE R == Apply(m, Pid, c)
           Q == Apply(n, Pid, c)
<1>1. /\ R.status = Q.status /\ R.err = Q.err /\ R.writes = Q.writes /\ R.done = Q.done
      /\ R.m.status = Q.m.status /\ R.m.prepared = Q.m.prepared
  BY DEF SameResult, Twins
<1>2. /\ OutcomeOf(m, c) = [status |-> R.status, err |-> R.err, writes |-> R.writes,
                            mgr |-> WithoutStore(FinishBatch(R.m, R.writes, R.done, c.ts))]
      /\ OutcomeOf(n, c) = [status |-> Q.status, err |-> Q.err, writes |-> Q.writes,
                            mgr |-> WithoutStore(FinishBatch(Q.m, Q.writes, Q.done, c.ts))]
  BY DEF OutcomeOf
<1> HIDE DEF R, Q
<1>3. WithoutStore(FinishBatch(R.m, R.writes, R.done, c.ts)) = WithoutStore(FinishBatch(Q.m, Q.writes, Q.done, c.ts))
  BY <1>1 DEF WithoutStore, FinishBatch
<1> QED BY <1>1, <1>2, <1>3

(* What a later entry has written does not change what an entry reads: it   *)
(* was locked, or is newer.                                                 *)
LEMMA LaterUnread ==
    ASSUME History, NEW i \in 1 .. N, NEW D, Written(i - 1) \subseteq D, D \subseteq Written(N),
           NEW c, c = log[i], checkLocks(After(i - 1), c.txn),
           NEW a \in c.txn, NEW key \in a.first .. (a.last - 1)
    PROVE  Visible(D, c.ts - 1, key) = Visible(Written(i - 1), c.ts - 1, key)
<1>1. /\ N \in Nat /\ i \in 1 .. Len(log) /\ i - 1 \in 0 .. N
      /\ IsEntry(c, i) /\ MgrOK(After(i - 1), i - 1) /\ c.ts = i + 1 /\ IsTxn(c.txn)
  <2>1. IsSeq(outcome) /\ IsSeq(log) /\ N <= Len(log)
    BY DEF History, LogOK, N
  <2>2. N \in Nat /\ Len(log) \in Nat
    BY <2>1, AppendFacts DEF N
  <2>3. i \in 1 .. Len(log) /\ i - 1 \in 0 .. N
    BY <2>1, <2>2, SMTT(60)
  <2>4. IsEntry(c, i) /\ MgrOK(After(i - 1), i - 1)
    BY <2>3 DEF History, LogOK, ManagersOK
  <2> QED BY <2>2, <2>3, <2>4 DEF IsEntry, Stamp
<1>2. a.first \in Nat \ {0} /\ a.last \in Nat /\ key \in Nat /\ a.first <= key /\ key < a.last
  BY <1>1, SMTT(60) DEF IsTxn
<1>3. ASSUME NEW r \in D, r.key = key, r.ts <= c.ts - 1 PROVE r \in Written(i - 1)
  <2>1. PICK j \in 1 .. N : r \in outcome[j].writes
    BY <1>3 DEF Written
  <2>2. CASE j < i
    <3>1. j \in 1 .. (i - 1)
      BY <1>1, <2>2, SMTT(60)
    <3> QED BY <2>1, <3>1 DEF Written
  <2>3. CASE j >= i
    <3>1. j \in i .. N
      BY <1>1, <2>3, SMTT(60)
    <3>2. r.ts \in Nat
      BY <2>1 DEF History, VersionsOK, IsVersion
    <3>3. ~(r.ts >= Stamp(i))
      BY <1>1, <1>3, <3>2, SMTT(60) DEF Stamp
    <3>4. PICK id \in Ids : Holds(After(i - 1), id) /\ WritesKey(After(i - 1).prepared[id].txn, r.key)
      BY <2>1, <3>1, <3>3 DEF History, LaterLocked
    <3> DEFINE p == After(i - 1).prepared[id]
    <3>5. EntryOK(After(i - 1).status[id], p, i - 1) /\ id \in DOMAIN After(i - 1).prepared
      BY <1>1 DEF MgrOK, Shape, With
    <3>6. p.locks = BuildLocks(p.txn) /\ IsTxn(p.txn)
      BY <3>4, <3>5 DEF EntryOK, Holds
    <3>7. ~AllCompatible(BuildLocks(c.txn), p.locks)
      BY <1>1, <1>2, <1>3, <3>4, <3>6, WriteConflicts
    <3>8. p.locks \subseteq Held(After(i - 1))
      BY <3>4, <3>5 DEF Held, Holds
    <3> QED BY <3>7, <3>8 DEF checkLocks, AllCompatible
  <2> QED BY <1>1, <2>2, <2>3, SMTT(60)
<1>4. c.ts - 1 # 0
  BY <1>1, SMTT(60)
<1> QED BY <1>3, <1>4 DEF Visible

(* An entry that is applied again has the outcome it had. *)
LEMMA Replays ==
    ASSUME History, NEW i \in 1 .. N, NEW D, Written(i - 1) \subseteq D, D \subseteq Written(N)
    PROVE  OutcomeOf(With(After(i - 1), D), log[i]) = outcome[i]
<1> DEFINE x == After(i - 1)
           E == Written(i - 1)
           m == With(x, D)
           n == With(x, E)
           c == log[i]
<1>1. IsEntry(c, i) /\ MgrOK(x, i - 1)
  <2>1. IsSeq(outcome) /\ IsSeq(log) /\ N <= Len(log)
    BY DEF History, LogOK, N
  <2>2. N \in Nat /\ Len(log) \in Nat
    BY <2>1, AppendFacts DEF N
  <2>3. i \in 1 .. Len(log) /\ i - 1 \in 0 .. N
    BY <2>1, <2>2, SMTT(60)
  <2> QED BY <2>3 DEF History, LogOK, ManagersOK
<1>2. c.id \in Ids /\ c.op \in CommandOps
  BY <1>1 DEF IsEntry
<1>3. Twins(m, n) /\ m.status = x.status /\ m.prepared = x.prepared /\ Shape(m, Ids) /\ Shape(n, Ids)
  <2>1. Shape(With(x, {}), Ids)
    BY <1>1 DEF MgrOK
  <2> HIDE DEF x, E
  <2>2. \A db : With(x, db) = [status |-> x.status, prepared |-> x.prepared, maxTs |-> x.maxTs, db |-> db]
    BY DEF With
  <2>3. ASSUME NEW db
        PROVE  With(x, db).status = x.status /\ With(x, db).prepared = x.prepared /\ Shape(With(x, db), Ids)
    <3> DEFINE z == With(x, db)
    <3>1. /\ z.status = x.status /\ z.prepared = x.prepared
          /\ z = [status |-> z.status, prepared |-> z.prepared, maxTs |-> z.maxTs, db |-> z.db]
      BY <2>2, SMTT(60)
    <3>2. With(x, {}).status = x.status /\ With(x, {}).prepared = x.prepared
      BY <2>2, SMTT(60)
    <3> HIDE DEF z
    <3>3. Shape(z, Ids)
      BY <2>1, <3>1, <3>2 DEF Shape
    <3> QED BY <3>1, <3>3 DEF z
  <2>4. /\ m.status = x.status /\ m.prepared = x.prepared /\ Shape(m, Ids)
        /\ n.status = x.status /\ n.prepared = x.prepared /\ Shape(n, Ids)
    BY <2>3
  <2> HIDE DEF m, n
  <2> QED BY <2>4 DEF Twins
<1>4. ASSUME checkLocks(m, c.txn) PROVE validate(m, c.ts, c.txn) <=> validate(n, c.ts, c.txn)
  <2>1. checkLocks(x, c.txn)
    <3> HIDE DEF m, n, x, E, c
    <3> QED BY <1>3, <1>4 DEF checkLocks, Held
  <2>2. \A a \in c.txn : \A key \in a.first .. (a.last - 1) : Visible(D, c.ts - 1, key) = Visible(E, c.ts - 1, key)
    BY <2>1, LaterUnread
  <2> QED BY <2>2, SameValidation
<1>5. SameResult(Apply(m, Pid, c), Apply(n, Pid, c))
  <2> HIDE DEF m, n, c
  <2> QED BY <1>2, <1>3, <1>4, ApplyTwins
<1>6. outcome[i] = OutcomeOf(n, c)
  BY DEF History, OneRun
<1>7. OutcomeOf(m, c) = OutcomeOf(n, c)
  BY <1>5, OutcomeTwins
<1> QED BY <1>6, <1>7

-----------------------------------------------------------------------------
(* Stores *)

(* The facts about the history that the replicas need. *)
LEMMA HistoryFacts ==
    ASSUME History
    PROVE  /\ N \in Nat /\ Len(log) \in Nat /\ N <= Len(log)
           /\ Written(-1) = {} /\ Written(0) = {}
           /\ \A i \in -1 .. N : \A j \in i .. N : Written(i) \subseteq Written(j)
           /\ IsRecs(Written(N)) /\ \A w \in Written(N) : w.key \in Nat \ {0} /\ w.ts \in Nat
           /\ \A i \in 1 .. N : IsStore(outcome[i].writes) /\ Written(i) = Written(i - 1) \cup outcome[i].writes
<1>1. N \in Nat /\ Len(log) \in Nat /\ N <= Len(log)
  <2>1. IsSeq(outcome) /\ IsSeq(log) /\ N <= Len(log)
    BY DEF History, LogOK, N
  <2> QED BY <2>1, AppendFacts DEF N
<1>2. Written(-1) = {} /\ Written(0) = {}
  <2>1. 1 .. -1 = {} /\ 1 .. 0 = {}
    BY SMTT(60)
  <2> QED BY <2>1 DEF Written
<1>3. ASSUME NEW i \in -1 .. N, NEW j \in i .. N PROVE Written(i) \subseteq Written(j)
  <2>1. \A n \in 1 .. i : n \in 1 .. j
    BY <1>1, SMTT(60)
  <2> QED BY <2>1 DEF Written
<1>4. \A w \in Written(N) : \E i \in 1 .. N : w \in outcome[i].writes
  BY DEF Written
<1>5. \A w \in Written(N) : w.key \in Nat \ {0} /\ w.ts \in Nat
  BY <1>4 DEF History, VersionsOK, IsVersion
<1>6. IsRecs(Written(N))
  BY <1>5, SMTT(60) DEF IsRecs, History, VersionsOK
<1>7. ASSUME NEW i \in 1 .. N PROVE IsStore(outcome[i].writes)
  <2>1. outcome[i].writes \subseteq Written(N)
    BY <1>7 DEF Written
  <2>2. ASSUME NEW v \in outcome[i].writes, NEW w \in Written(N), SameAddress(v, w) PROVE w \in outcome[i].writes
    BY <1>4, <1>7, <2>2 DEF History, AddressesDiffer
  <2> QED BY <2>1, <2>2 DEF IsStore
<1>8. ASSUME NEW i \in 1 .. N PROVE Written(i) = Written(i - 1) \cup outcome[i].writes
  <2>1. \A n : n \in 1 .. i <=> n \in 1 .. (i - 1) \/ n = i
    BY <1>1, SMTT(60)
  <2>2. \A w : w \in Written(i) <=> w \in Written(i - 1) \/ w \in outcome[i].writes
    BY <2>1 DEF Written
  <2> QED BY <2>2
<1> QED BY <1>1, <1>2, <1>3, <1>5, <1>6, <1>7, <1>8

(* Put overwrites a version with itself at most. *)
LEMMA PutUnites ==
    ASSUME NEW S, NEW T, IsStore(S), IsStore(T)
    PROVE  Put(S, T) = S \cup T /\ IsStore(S \cup T)
<1>1. ASSUME NEW r \in S, NEW w \in T, w.key = r.key, w.ts = r.ts PROVE r \in T
  <2>1. r \in Written(N) /\ SameAddress(w, r)
    BY <1>1 DEF IsStore, SameAddress
  <2> QED BY <1>1, <2>1 DEF IsStore
<1>2. Put(S, T) = S \cup T
  BY <1>1 DEF Put
<1>3. IsStore(S \cup T)
  BY DEF IsStore
<1> QED BY <1>2, <1>3

(* The history goes on. *)
Grown ==
    /\ N \in Nat /\ N' \in Nat /\ N <= N'
    /\ Len(log) \in Nat /\ Len(log') \in Nat /\ Len(log) <= Len(log')
    /\ \A i \in 0 .. N : After(i)' = After(i)
    /\ \A i \in -1 .. N : Written(i)' = Written(i)
    /\ \A S : IsStore(S) => IsStore(S)'

(* The past does not change when the log or the outcomes get longer. *)
LEMMA HistoryGrown ==
    ASSUME History, History', N <= N', Len(log) <= Len(log'),
           \A i \in 0 .. N : After(i)' = After(i) /\ Written(i)' = Written(i),
           \A i \in 1 .. N : outcome'[i] = outcome[i]
    PROVE  Grown
<1>1. N \in Nat /\ Len(log) \in Nat
  BY HistoryFacts
<1>2. N' \in Nat /\ Len(log') \in Nat
  <2>1. (IsSeq(outcome) /\ IsSeq(log))'
    BY DEF History, LogOK
  <2>2. IsSeq(outcome') /\ IsSeq(log')
    BY <2>1
  <2>3. Len(outcome') \in Nat /\ Len(log') \in Nat
    BY <2>2, AppendFacts
  <2> QED BY <2>3 DEF N
<1>3. ASSUME NEW i \in -1 .. N PROVE Written(i)' = Written(i)
  <2>1. i \in 0 .. N \/ i = -1
    BY <1>1, SMTT(60)
  <2>2. 1 .. -1 = {}
    BY SMTT(60)
  <2>3. Written(-1)' = {} /\ Written(-1) = {}
    BY <2>2 DEF Written
  <2> QED BY <2>1, <2>3
<1>4. ASSUME NEW S, IsStore(S) PROVE IsStore(S)'
  <2>1. \A i \in 1 .. N : i \in 1 .. N'
    BY <1>1, <1>2, SMTT(60)
  <2>2. Written(N) \subseteq Written(N)'
    BY <2>1 DEF Written
  <2>3. ASSUME NEW v \in S, NEW w \in Written(N)', SameAddress(v, w) PROVE w \in S
    <3>1. PICK i \in 1 .. N : v \in outcome[i].writes
      BY <1>4 DEF IsStore, Written
    <3>2. PICK j \in 1 .. N' : w \in outcome'[j].writes
      BY DEF Written
    <3>3. i \in 1 .. N' /\ v \in outcome'[i].writes
      BY <2>1, <3>1
    <3>4. i = j
      <4>1. \A m, n \in 1 .. N' : \A a \in outcome'[m].writes, b \in outcome'[n].writes :
                SameAddress(a, b) => m = n
        BY DEF History, AddressesDiffer
      <4> QED BY <2>3, <3>2, <3>3, <4>1
    <3>5. w \in Written(N)
      BY <3>1, <3>2, <3>4 DEF Written
    <3> QED BY <1>4, <2>3, <3>5 DEF IsStore
  <2>4. S \subseteq Written(N)'
    BY <1>4, <2>2 DEF IsStore
  <2> QED BY <2>3, <2>4 DEF IsStore, SameAddress
<1> QED BY <1>1, <1>2, <1>3, <1>4 DEF Grown

(* A replica that did nothing is in good order still. *)
LEMMA ReplicaGrown ==
    ASSUME Grown, NEW s, ReplicaOK(s)
    PROVE  ReplicaOK(s)'
<1>1. N \in Nat /\ N' \in Nat /\ N <= N' /\ Len(log) \in Nat /\ Len(log') \in Nat /\ Len(log) <= Len(log')
  BY DEF Grown
<1>2. \A i \in 0 .. N : After(i)' = After(i) /\ i \in 0 .. N' /\ i \in -1 .. N
  BY <1>1, SMTT(60) DEF Grown
<1>3. \A i \in -1 .. N : Written(i)' = Written(i) /\ i \in -1 .. N'
  BY <1>1, SMTT(60) DEF Grown
<1>4. \A S : IsStore(S) => IsStore(S)'
  BY DEF Grown
<1>5. ASSUME NEW kv, FamilyOK(kv) PROVE FamilyOK(kv)'
  <2>1. kv.index \in 0 .. N /\ kv.chk.min \in -1 .. N /\ IsStore(kv.recs)
    BY <1>5 DEF FamilyOK
  <2>2. /\ kv.index \in 0 .. N' /\ kv.chk.min \in -1 .. N' /\ IsStore(kv.recs)'
        /\ Written(kv.index)' = Written(kv.index) /\ Written(kv.chk.min)' = Written(kv.chk.min)
    BY <1>2, <1>3, <1>4, <2>1
  <2> QED BY <1>5, <2>2 DEF FamilyOK, IsAddress, Before, AddressOf, NoCF, NoCheckpoint, FirstAddress
<1>6. SnapOK(s) /\ s.snap.index \in 0 .. N
  BY DEF ReplicaOK, SnapOK
<1>7. s.snap.index \in 0 .. N' /\ After(s.snap.index)' = After(s.snap.index) /\ Written(s.snap.index)' = Written(s.snap.index)
  BY <1>2, <1>3, <1>6
<1>8. s.have \in s.snap.index .. Len(log')
  BY <1>1, <1>6, SMTT(60) DEF SnapOK
<1>9. SnapOK(s)'
  BY <1>6, <1>7, <1>8 DEF SnapOK, Snapshot, With
<1>10. RestoreOK(s)'
  <2>1. RestoreOK(s) /\ IsStore(s.restore.rest)
    BY DEF ReplicaOK, RestoreOK
  <2>2. s.restore.phase # "idle" => Written(s.restore.min)' = Written(s.restore.min)
    BY <1>7, <2>1 DEF RestoreOK
  <2>3. s.restore.phase \in {"waiting", "streaming"} => s.restore.phase # "idle"
    OBVIOUS
  <2>4. s.restore.phase = "streaming" => s.restore.phase # "idle"
    OBVIOUS
  <2>5. IsStore(s.restore.rest)'
    BY <1>4, <2>1
  <2> QED BY <2>1, <2>2, <2>3, <2>4, <2>5 DEF RestoreOK, Phases, IsAddress, Before, AddressOf
<1>11. ReportOK(s)'
  BY DEF ReplicaOK, ReportOK
<1>12. ServingOK(s)'
  <2>1. ASSUME s.mode = "serving", s.up
        PROVE  s.applied \in 0 .. N /\ s.applied <= N' /\ s.applied \in s.snap.index .. s.have
    BY <1>1, <1>6, <2>1, SMTT(60) DEF ReplicaOK, ServingOK, SnapOK
  <2>2. ASSUME s.mode = "serving", s.up
        PROVE  After(s.applied)' = After(s.applied) /\ Written(s.applied)' = Written(s.applied)
    BY <1>2, <1>3, <2>1, <2>2
  <2> QED BY <1>7, <2>1, <2>2 DEF ReplicaOK, ServingOK
<1>13. FamilyOK(s.mem)' /\ FamilyOK(s.disk)'
  BY <1>5 DEF ReplicaOK
<1> QED BY <1>9, <1>10, <1>11, <1>12, <1>13 DEF ReplicaOK, Fields

-----------------------------------------------------------------------------
(* The steps of a replica *)

(* The fields of a replica. *)
Is(s, mode, up, mem, disk, mgr, applied, snap, have, restore, reported) ==
    s = [mode |-> mode, up |-> up, mem |-> mem, disk |-> disk, mgr |-> mgr, applied |-> applied,
         snap |-> snap, have |-> have, restore |-> restore, reported |-> reported]

(* Where a replica stands in the log: at its snapshot, or anywhere up to    *)
(* the end of what it has.                                                  *)
LEMMA StandsAt ==
    ASSUME NEW s, SnapOK(s), N \in Nat, Len(log) \in Nat
    PROVE  /\ s.snap.index \in s.snap.index .. s.have /\ s.snap.index <= N /\ s.have <= Len(log)
           /\ s.have \in Nat
           /\ \A g \in s.have .. Len(log) : g \in s.snap.index .. Len(log)
           /\ \A a \in s.snap.index .. s.have :
                 /\ a \in Nat /\ a \in a .. s.have /\ s.have \in a .. Len(log)
                 /\ a <= N => a \in 0 .. N
<1>1. s.snap.index \in 0 .. N /\ s.have \in s.snap.index .. Len(log)
  BY DEF SnapOK
<1> QED BY <1>1, SMTT(60)

(* The positions of a log. *)
LEMMA ZeroPosition ==
    ASSUME NEW n \in Nat
    PROVE  0 \in 0 .. n /\ 0 \in 0 .. 0 /\ 0 <= n /\ \A i \in 0 .. n : i \in Nat /\ i \in -1 .. n
BY SMTT(60)

(* Nothing is restored. *)
LEMMA IdleIs ==
    /\ Idle = [phase |-> Idle.phase, min |-> Idle.min, from |-> Idle.from, rest |-> Idle.rest]
    /\ Idle.phase = "idle" /\ IsAddress(FirstAddress) /\ IsAddress(Idle.from) /\ IsStore(Idle.rest)
<1>1. IsAddress(FirstAddress)
  BY SMTT(60) DEF IsAddress, FirstAddress
<1>2. IsStore({})
  BY DEF IsStore
<1> QED BY <1>1, <1>2 DEF Idle

(* A longer Raft log. *)
LEMMA HaveGrows ==
    ASSUME NEW s, ReplicaOK(s), NEW n, n \in s.have .. Len(log), Len(log) \in Nat, N \in Nat,
           NEW t, Is(t, s.mode, s.up, s.mem, s.disk, s.mgr, s.applied, s.snap, n, s.restore, s.reported)
    PROVE  ReplicaOK(t)
<1>0. /\ Fields(s) /\ FamilyOK(s.mem) /\ FamilyOK(s.disk) /\ SnapOK(s) /\ RestoreOK(s) /\ ReportOK(s)
      /\ ServingOK(s) /\ s.mode \in {"out", "joining", "serving", "leaving"} /\ s.up \in BOOLEAN
      /\ s.mem.cf = s.disk.cf /\ (~s.up => s.mem = s.disk)
  BY DEF ReplicaOK
<1>1. /\ Fields(t) /\ t.mode = s.mode /\ t.up = s.up /\ t.mem = s.mem /\ t.disk = s.disk
      /\ t.mgr = s.mgr /\ t.applied = s.applied /\ t.snap = s.snap /\ t.have = n
      /\ t.restore = s.restore /\ t.reported = s.reported
  BY DEF Is, Fields
<1>2. SnapOK(t)
  BY <1>0, <1>1, StandsAt DEF SnapOK
<1>3. RestoreOK(t)
  BY <1>0, <1>1 DEF RestoreOK
<1>4. ReportOK(t)
  BY <1>0, <1>1 DEF ReportOK
<1>5. ServingOK(t)
  <2>1. ASSUME s.mode = "serving", s.up PROVE s.applied \in s.snap.index .. n
    BY <1>0, <2>1, SMTT(60) DEF ServingOK, SnapOK
  <2> QED BY <1>0, <1>1, <2>1 DEF ServingOK
<1> QED BY <1>0, <1>1, <1>2, <1>3, <1>4, <1>5 DEF ReplicaOK

(* A replica that does not follow yet gets a snapshot. *)
LEMMA Installs ==
    ASSUME NEW s, ReplicaOK(s), NEW snap, SnapOK([snap |-> snap, have |-> snap.index]),
           s.mode = "joining", s.restore.phase = "idle", ~s.reported,
           NEW t, Is(t, s.mode, s.up, s.mem, s.disk, s.mgr, s.applied, snap, snap.index, s.restore,
              s.reported)
    PROVE  ReplicaOK(t)
<1>0. /\ Fields(s) /\ FamilyOK(s.mem) /\ FamilyOK(s.disk) /\ SnapOK(s) /\ RestoreOK(s) /\ ReportOK(s)
      /\ ServingOK(s) /\ s.mode \in {"out", "joining", "serving", "leaving"} /\ s.up \in BOOLEAN
      /\ s.mem.cf = s.disk.cf /\ (~s.up => s.mem = s.disk)
  BY DEF ReplicaOK
<1>1. /\ Fields(t) /\ t.mode = s.mode /\ t.up = s.up /\ t.mem = s.mem /\ t.disk = s.disk
      /\ t.mgr = s.mgr /\ t.applied = s.applied /\ t.snap = snap /\ t.have = snap.index
      /\ t.restore = s.restore /\ t.reported = s.reported
  BY DEF Is, Fields
<1>2. SnapOK(t)
  BY <1>0, <1>1 DEF SnapOK
<1>3. RestoreOK(t)
  BY <1>0, <1>1 DEF RestoreOK
<1>4. ReportOK(t)
  BY <1>0, <1>1 DEF ReportOK
<1>5. ServingOK(t)
  BY <1>0, <1>1 DEF ServingOK
<1> QED BY <1>0, <1>1, <1>2, <1>3, <1>4, <1>5 DEF ReplicaOK

(* The store is synced. *)
LEMMA Flushes ==
    ASSUME NEW s, ReplicaOK(s), History, s.up,
           NEW t, Is(t, s.mode, s.up, s.mem, s.mem, s.mgr, s.applied, s.snap, s.have, s.restore,
              s.reported)
    PROVE  ReplicaOK(t)
<1>0. /\ Fields(s) /\ FamilyOK(s.mem) /\ FamilyOK(s.disk) /\ SnapOK(s) /\ RestoreOK(s) /\ ReportOK(s)
      /\ ServingOK(s) /\ s.mode \in {"out", "joining", "serving", "leaving"} /\ s.up \in BOOLEAN
      /\ s.mem.cf = s.disk.cf /\ (~s.up => s.mem = s.disk)
  BY DEF ReplicaOK
<1>1. /\ Fields(t) /\ t.mode = s.mode /\ t.up = s.up /\ t.mem = s.mem /\ t.disk = s.mem
      /\ t.mgr = s.mgr /\ t.applied = s.applied /\ t.snap = s.snap /\ t.have = s.have
      /\ t.restore = s.restore /\ t.reported = s.reported
  BY DEF Is, Fields
<1>2. SnapOK(t)
  BY <1>0, <1>1 DEF SnapOK
<1>3. RestoreOK(t)
  BY <1>0, <1>1 DEF RestoreOK
<1>4. ReportOK(t)
  BY <1>0, <1>1 DEF ReportOK
<1>5. ServingOK(t)
  <2>1. ASSUME s.mode = "serving" PROVE Written(s.snap.index) \subseteq s.mem.recs
    <3>1. /\ s.snap.index \in -1 .. N /\ s.applied \in s.snap.index .. N
          /\ Written(s.applied) \subseteq s.mem.recs
      BY <1>0, <2>1, HistoryFacts, SMTT(60) DEF ServingOK, SnapOK
    <3>2. Written(s.snap.index) \subseteq Written(s.applied)
      BY <3>1, HistoryFacts
    <3> QED BY <3>1, <3>2
  <2> QED BY <1>0, <1>1, <2>1 DEF ServingOK
<1> QED BY <1>0, <1>1, <1>2, <1>3, <1>4, <1>5 DEF ReplicaOK

(* A broken stream. *)
LEMMA StreamBreaks ==
    ASSUME NEW s, ReplicaOK(s), IsStore({}), s.restore.phase = "streaming", NEW z,
           z = [phase |-> "waiting", min |-> s.restore.min, from |-> s.restore.from, rest |-> {}],
           NEW t, Is(t, s.mode, s.up, s.mem, s.disk, s.mgr, s.applied, s.snap, s.have, z, s.reported)
    PROVE  ReplicaOK(t)
<1>0. /\ Fields(s) /\ FamilyOK(s.mem) /\ FamilyOK(s.disk) /\ SnapOK(s) /\ RestoreOK(s) /\ ReportOK(s)
      /\ ServingOK(s) /\ s.mode \in {"out", "joining", "serving", "leaving"} /\ s.up \in BOOLEAN
      /\ s.mem.cf = s.disk.cf /\ (~s.up => s.mem = s.disk)
  BY DEF ReplicaOK
<1>1. /\ Fields(t) /\ t.mode = s.mode /\ t.up = s.up /\ t.mem = s.mem /\ t.disk = s.disk
      /\ t.mgr = s.mgr /\ t.applied = s.applied /\ t.snap = s.snap /\ t.have = s.have
      /\ t.restore = z /\ t.reported = s.reported
  BY DEF Is, Fields
<1>6. /\ t.restore = [phase |-> t.restore.phase, min |-> t.restore.min,
                         from |-> t.restore.from, rest |-> t.restore.rest]
      /\ t.restore.phase = "waiting" /\ t.restore.min = s.restore.min
      /\ t.restore.from = s.restore.from /\ t.restore.rest = {}
  BY <1>1, SMTT(60)
<1>2. SnapOK(t)
  BY <1>0, <1>1 DEF SnapOK
<1>3. RestoreOK(t)
  BY <1>0, <1>1, <1>6 DEF RestoreOK, Phases
<1>4. ReportOK(t)
  BY <1>0, <1>1, <1>6 DEF ReportOK
<1>5. ServingOK(t)
  BY <1>0, <1>1, <1>6 DEF ServingOK, RestoreOK
<1> QED BY <1>0, <1>1, <1>2, <1>3, <1>4, <1>5 DEF ReplicaOK

(* The restored replica reports. *)
LEMMA Reports ==
    ASSUME NEW s, ReplicaOK(s), s.mode = "joining", s.restore.phase = "ready",
           NEW t, Is(t, s.mode, s.up, s.mem, s.disk, s.mgr, s.applied, s.snap, s.have, s.restore, TRUE)
    PROVE  ReplicaOK(t)
<1>0. /\ Fields(s) /\ FamilyOK(s.mem) /\ FamilyOK(s.disk) /\ SnapOK(s) /\ RestoreOK(s) /\ ReportOK(s)
      /\ ServingOK(s) /\ s.mode \in {"out", "joining", "serving", "leaving"} /\ s.up \in BOOLEAN
      /\ s.mem.cf = s.disk.cf /\ (~s.up => s.mem = s.disk)
  BY DEF ReplicaOK
<1>1. /\ Fields(t) /\ t.mode = s.mode /\ t.up = s.up /\ t.mem = s.mem /\ t.disk = s.disk
      /\ t.mgr = s.mgr /\ t.applied = s.applied /\ t.snap = s.snap /\ t.have = s.have
      /\ t.restore = s.restore /\ t.reported = TRUE
  BY DEF Is, Fields
<1>2. SnapOK(t)
  BY <1>0, <1>1 DEF SnapOK
<1>3. RestoreOK(t)
  BY <1>0, <1>1 DEF RestoreOK
<1>4. ReportOK(t)
  BY <1>0, <1>1 DEF ReportOK, RestoreOK
<1>5. ServingOK(t)
  BY <1>0, <1>1 DEF ServingOK
<1> QED BY <1>0, <1>1, <1>2, <1>3, <1>4, <1>5 DEF ReplicaOK

(* A replica that was out joins. *)
LEMMA Joins ==
    ASSUME NEW s, ReplicaOK(s), s.mode = "out",
           NEW t, Is(t, "joining", s.up, s.mem, s.disk, s.mgr, s.applied, s.snap, s.have, s.restore,
              s.reported)
    PROVE  ReplicaOK(t)
<1>0. /\ Fields(s) /\ FamilyOK(s.mem) /\ FamilyOK(s.disk) /\ SnapOK(s) /\ RestoreOK(s) /\ ReportOK(s)
      /\ ServingOK(s) /\ s.mode \in {"out", "joining", "serving", "leaving"} /\ s.up \in BOOLEAN
      /\ s.mem.cf = s.disk.cf /\ (~s.up => s.mem = s.disk)
  BY DEF ReplicaOK
<1>1. /\ Fields(t) /\ t.mode = "joining" /\ t.up = s.up /\ t.mem = s.mem /\ t.disk = s.disk
      /\ t.mgr = s.mgr /\ t.applied = s.applied /\ t.snap = s.snap /\ t.have = s.have
      /\ t.restore = s.restore /\ t.reported = s.reported
  BY DEF Is, Fields
<1>2. SnapOK(t)
  BY <1>0, <1>1 DEF SnapOK
<1>3. RestoreOK(t)
  BY <1>0, <1>1 DEF RestoreOK, Phases
<1>4. ReportOK(t)
  BY <1>0, <1>1 DEF ReportOK
<1>5. ServingOK(t)
  BY <1>0, <1>1 DEF ServingOK
<1> QED BY <1>0, <1>1, <1>2, <1>3, <1>4, <1>5 DEF ReplicaOK

(* A replica leaves. *)
LEMMA Leaves ==
    ASSUME NEW s, ReplicaOK(s), s.mode = "serving",
           NEW t, Is(t, "leaving", s.up, s.mem, s.disk, NoSnapshot.mgr, 0, s.snap, s.have, s.restore,
              FALSE)
    PROVE  ReplicaOK(t)
<1>0. /\ Fields(s) /\ FamilyOK(s.mem) /\ FamilyOK(s.disk) /\ SnapOK(s) /\ RestoreOK(s) /\ ReportOK(s)
      /\ ServingOK(s) /\ s.mode \in {"out", "joining", "serving", "leaving"} /\ s.up \in BOOLEAN
      /\ s.mem.cf = s.disk.cf /\ (~s.up => s.mem = s.disk)
  BY DEF ReplicaOK
<1>1. /\ Fields(t) /\ t.mode = "leaving" /\ t.up = s.up /\ t.mem = s.mem /\ t.disk = s.disk
      /\ t.mgr = NoSnapshot.mgr /\ t.applied = 0 /\ t.snap = s.snap /\ t.have = s.have
      /\ t.restore = s.restore /\ t.reported = FALSE
  BY DEF Is, Fields
<1>2. SnapOK(t)
  BY <1>0, <1>1 DEF SnapOK
<1>3. RestoreOK(t)
  BY <1>0, <1>1 DEF RestoreOK, Phases
<1>4. ReportOK(t)
  BY <1>0, <1>1 DEF ReportOK
<1>5. ServingOK(t)
  BY <1>0, <1>1 DEF ServingOK
<1> QED BY <1>0, <1>1, <1>2, <1>3, <1>4, <1>5 DEF ReplicaOK

(* A leaving replica drops its Raft state. *)
LEMMA DropsRaft ==
    ASSUME NEW s, ReplicaOK(s), History, s.mode = "leaving",
           NEW t, Is(t, s.mode, s.up, s.mem, s.disk, s.mgr, s.applied, NoSnapshot, 0, s.restore,
              s.reported)
    PROVE  ReplicaOK(t)
<1>0. /\ Fields(s) /\ FamilyOK(s.mem) /\ FamilyOK(s.disk) /\ SnapOK(s) /\ RestoreOK(s) /\ ReportOK(s)
      /\ ServingOK(s) /\ s.mode \in {"out", "joining", "serving", "leaving"} /\ s.up \in BOOLEAN
      /\ s.mem.cf = s.disk.cf /\ (~s.up => s.mem = s.disk)
  BY DEF ReplicaOK
<1>1. /\ Fields(t) /\ t.mode = s.mode /\ t.up = s.up /\ t.mem = s.mem /\ t.disk = s.disk
      /\ t.mgr = s.mgr /\ t.applied = s.applied /\ t.snap = NoSnapshot /\ t.have = 0
      /\ t.restore = s.restore /\ t.reported = s.reported
  BY DEF Is, Fields
<1>2. SnapOK(t)
  <2>1. /\ NoSnapshot.index = 0 /\ NoSnapshot.mgr = Snapshot(NewManager(Ids))
        /\ NoSnapshot = [index |-> NoSnapshot.index, mgr |-> NoSnapshot.mgr]
    BY DEF NoSnapshot
  <2>2. Snapshot(NewManager(Ids)) = Snapshot(With(After(0), {}))
    BY DEF After, With, WithoutStore, Snapshot, NewManager
  <2>3. 0 \in 0 .. N /\ 0 \in 0 .. Len(log)
    BY HistoryFacts, ZeroPosition
  <2> QED BY <1>1, <2>1, <2>2, <2>3 DEF SnapOK
<1>3. RestoreOK(t)
  BY <1>0, <1>1 DEF RestoreOK, Phases
<1>4. ReportOK(t)
  BY <1>0, <1>1 DEF ReportOK
<1>5. ServingOK(t)
  BY <1>0, <1>1 DEF ServingOK
<1> QED BY <1>0, <1>1, <1>2, <1>3, <1>4, <1>5 DEF ReplicaOK

(* A leaving replica drops its store. *)
LEMMA DropsStore ==
    ASSUME NEW s, ReplicaOK(s), FamilyOK(NoCF), s.mode = "leaving",
           NEW t, Is(t, s.mode, s.up, NoCF, NoCF, s.mgr, s.applied, s.snap, s.have, s.restore, s.reported)
    PROVE  ReplicaOK(t)
<1>0. /\ Fields(s) /\ FamilyOK(s.mem) /\ FamilyOK(s.disk) /\ SnapOK(s) /\ RestoreOK(s) /\ ReportOK(s)
      /\ ServingOK(s) /\ s.mode \in {"out", "joining", "serving", "leaving"} /\ s.up \in BOOLEAN
      /\ s.mem.cf = s.disk.cf /\ (~s.up => s.mem = s.disk)
  BY DEF ReplicaOK
<1>1. /\ Fields(t) /\ t.mode = s.mode /\ t.up = s.up /\ t.mem = NoCF /\ t.disk = NoCF
      /\ t.mgr = s.mgr /\ t.applied = s.applied /\ t.snap = s.snap /\ t.have = s.have
      /\ t.restore = s.restore /\ t.reported = s.reported
  BY DEF Is, Fields
<1>2. SnapOK(t)
  BY <1>0, <1>1 DEF SnapOK
<1>3. RestoreOK(t)
  BY <1>0, <1>1 DEF RestoreOK, Phases
<1>4. ReportOK(t)
  BY <1>0, <1>1 DEF ReportOK
<1>5. ServingOK(t)
  BY <1>0, <1>1 DEF ServingOK
<1> QED BY <1>0, <1>1, <1>2, <1>3, <1>4, <1>5 DEF ReplicaOK

(* A leaving replica is out. *)
LEMMA IsRemoved ==
    ASSUME NEW s, ReplicaOK(s), s.mode = "leaving",
           NEW t, Is(t, "out", s.up, s.mem, s.disk, s.mgr, s.applied, s.snap, s.have, s.restore,
              s.reported)
    PROVE  ReplicaOK(t)
<1>0. /\ Fields(s) /\ FamilyOK(s.mem) /\ FamilyOK(s.disk) /\ SnapOK(s) /\ RestoreOK(s) /\ ReportOK(s)
      /\ ServingOK(s) /\ s.mode \in {"out", "joining", "serving", "leaving"} /\ s.up \in BOOLEAN
      /\ s.mem.cf = s.disk.cf /\ (~s.up => s.mem = s.disk)
  BY DEF ReplicaOK
<1>1. /\ Fields(t) /\ t.mode = "out" /\ t.up = s.up /\ t.mem = s.mem /\ t.disk = s.disk
      /\ t.mgr = s.mgr /\ t.applied = s.applied /\ t.snap = s.snap /\ t.have = s.have
      /\ t.restore = s.restore /\ t.reported = s.reported
  BY DEF Is, Fields
<1>2. SnapOK(t)
  BY <1>0, <1>1 DEF SnapOK
<1>3. RestoreOK(t)
  BY <1>0, <1>1 DEF RestoreOK, Phases
<1>4. ReportOK(t)
  BY <1>0, <1>1 DEF ReportOK
<1>5. ServingOK(t)
  BY <1>0, <1>1 DEF ServingOK
<1> QED BY <1>0, <1>1, <1>2, <1>3, <1>4, <1>5 DEF ReplicaOK

(* A replica stops, and what is not on disk is lost. *)
LEMMA Stops ==
    ASSUME NEW s, ReplicaOK(s), IsStore({}), s.up,
           s.reported \/ s.mode = "serving" => s.mem.chk = s.disk.chk,
           NEW t, Is(t, s.mode, FALSE, s.disk, s.disk, NoSnapshot.mgr, 0, s.snap, s.have, Idle, s.reported)
    PROVE  ReplicaOK(t)
<1>0. /\ Fields(s) /\ FamilyOK(s.mem) /\ FamilyOK(s.disk) /\ SnapOK(s) /\ RestoreOK(s) /\ ReportOK(s)
      /\ ServingOK(s) /\ s.mode \in {"out", "joining", "serving", "leaving"} /\ s.up \in BOOLEAN
      /\ s.mem.cf = s.disk.cf /\ (~s.up => s.mem = s.disk)
  BY DEF ReplicaOK
<1>1. /\ Fields(t) /\ t.mode = s.mode /\ t.up = FALSE /\ t.mem = s.disk /\ t.disk = s.disk
      /\ t.mgr = NoSnapshot.mgr /\ t.applied = 0 /\ t.snap = s.snap /\ t.have = s.have
      /\ t.restore = Idle /\ t.reported = s.reported
  BY DEF Is, Fields
<1>2. SnapOK(t)
  BY <1>0, <1>1 DEF SnapOK
<1>3. RestoreOK(t)
  BY <1>1, IdleIs DEF RestoreOK, Phases
<1>4. ReportOK(t)
  BY <1>0, <1>1, IdleIs DEF ReportOK
<1>5. ServingOK(t)
  BY <1>0, <1>1 DEF ServingOK
<1> QED BY <1>0, <1>1, <1>2, <1>3, <1>4, <1>5 DEF ReplicaOK

(* A manager restored from the snapshot of the history's is that manager. *)
LEMMA RestoresManager ==
    ASSUME NEW x, NEW i, MgrOK(x, i)
    PROVE  WithoutStore(Restore(Snapshot(With(x, {})), {})) = x
<1> DEFINE m == With(x, {})
<1>1. Shape(m, Ids) /\ x = WithoutStore(x)
  BY DEF MgrOK
<1>2. m.status = x.status /\ m.prepared = x.prepared /\ m.maxTs = x.maxTs /\ m.db = {}
  BY DEF With
<1>3. \A id \in Ids : /\ m.prepared[id].released => m.prepared[id].locks = {}
                      /\ ~m.prepared[id].released => m.prepared[id].locks = BuildLocks(m.prepared[id].txn)
  BY <1>2 DEF MgrOK, EntryOK
<1> HIDE DEF m
<1>4. Restore(Snapshot(m), m.db) = m
  BY <1>1, <1>3, RestoreSnapshot
<1>5. WithoutStore(m) = x
  BY <1>1, <1>2 DEF WithoutStore
<1>6. WithoutStore(Restore(Snapshot(m), {})) = x
  BY <1>2, <1>4, <1>5
<1> QED BY <1>6 DEF m

(* The snapshot of a serving replica is the one of the history. *)
LEMMA SnapshotOfServing ==
    ASSUME NEW s, NEW x, s.mgr = x
    PROVE  Snapshot(Manager(s)) = Snapshot(With(x, {}))
BY DEF Snapshot, Manager, With

(* More of the log has written more. *)
LEMMA WrittenGrows ==
    ASSUME History, NEW i \in -1 .. N, NEW j \in 0 .. N, i <= j, NEW S, Written(j) \subseteq S
    PROVE  Written(i) \subseteq S
<1>1. j \in i .. N
  BY HistoryFacts, SMTT(60)
<1> QED BY <1>1, HistoryFacts

(* Where a serving replica stands. *)
LEMMA ServesAt ==
    ASSUME NEW s, SnapOK(s), ServingOK(s), History, s.mode = "serving", s.up
    PROVE  /\ s.applied \in s.snap.index .. s.have /\ s.applied <= N
           /\ s.mgr = After(s.applied) /\ Written(s.applied) \subseteq s.mem.recs
           /\ s.applied \in s.applied .. s.have /\ s.have \in s.applied .. Len(log)
           /\ s.applied \in Nat /\ s.applied \in 0 .. N /\ N \in Nat /\ Len(log) \in Nat
<1>1. /\ s.applied \in s.snap.index .. s.have /\ s.applied <= N
      /\ s.mgr = After(s.applied) /\ Written(s.applied) \subseteq s.mem.recs
  BY DEF ServingOK
<1>2. N \in Nat /\ Len(log) \in Nat
  BY HistoryFacts
<1> QED BY <1>1, <1>2, StandsAt

(* The position after another. *)
LEMMA NextPosition ==
    ASSUME NEW n \in Nat, NEW a \in Nat, a < n
    PROVE  a + 1 \in 1 .. n /\ a + 1 \in 0 .. n /\ (a + 1) - 1 = a /\ ~(a + 1 > n)
BY SMTT(60)

(* A position is before another, or is not. *)
LEMMA EarlierPosition ==
    ASSUME NEW n \in Nat, NEW i \in 0 .. n, NEW j \in -1 .. n
    PROVE  j >= i <=> ~(j < i)
BY SMTT(60)

(* FSM.Snapshot, when the index on disk is the one of the FSM. *)
LEMMA Persists ==
    ASSUME NEW s, ReplicaOK(s), History, s.up, s.mode = "serving", NEW snap,
           snap = [index |-> s.applied, mgr |-> Snapshot(Manager(s))],
           NEW t, Is(t, s.mode, s.up, s.mem, s.mem, s.mgr, s.applied, snap, s.have, s.restore, s.reported)
    PROVE  ReplicaOK(t)
<1>0. /\ Fields(s) /\ FamilyOK(s.mem) /\ FamilyOK(s.disk) /\ SnapOK(s) /\ RestoreOK(s) /\ ReportOK(s)
      /\ ServingOK(s) /\ s.mode \in {"out", "joining", "serving", "leaving"} /\ s.up \in BOOLEAN
      /\ s.mem.cf = s.disk.cf /\ (~s.up => s.mem = s.disk)
  BY DEF ReplicaOK
<1>1. /\ Fields(t) /\ t.mode = s.mode /\ t.up = s.up /\ t.mem = s.mem /\ t.disk = s.mem
      /\ t.mgr = s.mgr /\ t.applied = s.applied /\ t.snap = snap /\ t.have = s.have
      /\ t.restore = s.restore /\ t.reported = s.reported
  BY DEF Is, Fields
<1>6. /\ s.applied \in s.snap.index .. s.have /\ s.applied <= N
      /\ s.applied \in s.applied .. s.have /\ s.applied \in 0 .. N /\ s.have \in s.applied .. Len(log)
      /\ s.mgr = After(s.applied) /\ Written(s.applied) \subseteq s.mem.recs
      /\ snap.index = s.applied /\ snap.mgr = Snapshot(Manager(s))
  BY <1>0, ServesAt
<1>2. SnapOK(t)
  <2>1. Snapshot(Manager(s)) = Snapshot(With(After(s.applied), {}))
    BY <1>6, SnapshotOfServing
  <2> QED BY <1>1, <1>6, <2>1 DEF SnapOK
<1>3. RestoreOK(t)
  BY <1>0, <1>1 DEF RestoreOK, Phases
<1>4. ReportOK(t)
  BY <1>0, <1>1 DEF ReportOK
<1>5. ServingOK(t)
  BY <1>0, <1>1, <1>6 DEF ServingOK
<1> QED BY <1>0, <1>1, <1>2, <1>3, <1>4, <1>5 DEF ReplicaOK

(* One position of the log after another. *)
LEMMA Positions ==
    ASSUME NEW n \in Nat, NEW i \in 0 .. n, NEW j \in -1 .. n, j >= i
    PROVE  j \in 0 .. n /\ i \in -1 .. n /\ i <= j
BY SMTT(60)

(* No position of the log is after itself. *)
LEMMA OwnPosition ==
    ASSUME NEW n \in Nat, NEW i \in 0 .. n
    PROVE  i >= i
BY SMTT(60)

(* A replica begins to serve, or does so again. *)
LEMMA Serves ==
    ASSUME NEW s, ReplicaOK(s), History, s.mode \in {"joining", "serving"},
           s.mode = "joining" => s.reported /\ s.up, s.mode = "serving" => ~s.up, NEW up, up = TRUE, NEW m, m = s.mem,
           NEW z, z = Idle \/ (s.mode = "serving" /\ z = s.restore), NEW x, x = WithoutStore(Restore(s.snap.mgr, {})),
           NEW t, Is(t, "serving", up, m, s.disk, x, s.snap.index, s.snap, s.have, z, s.reported)
    PROVE  ReplicaOK(t)
<1>0. /\ Fields(s) /\ FamilyOK(s.mem) /\ FamilyOK(s.disk) /\ SnapOK(s) /\ RestoreOK(s) /\ ReportOK(s)
      /\ ServingOK(s) /\ s.mode \in {"out", "joining", "serving", "leaving"} /\ s.up \in BOOLEAN
      /\ s.mem.cf = s.disk.cf /\ (~s.up => s.mem = s.disk)
  BY DEF ReplicaOK
<1>1. /\ Fields(t) /\ t.mode = "serving" /\ t.up = up /\ t.mem = m /\ t.disk = s.disk /\ t.mgr = x
      /\ t.applied = s.snap.index /\ t.snap = s.snap /\ t.have = s.have /\ t.restore = z
      /\ t.reported = s.reported
  BY DEF Is, Fields
<1>7. t.up = TRUE
  BY <1>1
<1>2. SnapOK(t)
  BY <1>0, <1>1 DEF SnapOK
<1>8. z.phase = "idle"
  <2>1. s.mode = "serving" => s.restore.phase = "idle"
    BY <1>0 DEF RestoreOK
  <2> QED BY <2>1, IdleIs
<1>3. RestoreOK(t)
  <2>1. CASE z = Idle
    BY <1>1, <2>1, IdleIs DEF RestoreOK, Phases
  <2>2. CASE z = s.restore
    BY <1>0, <1>1, <1>8, <2>2 DEF RestoreOK
  <2> QED BY <2>1, <2>2
<1>4. ReportOK(t)
  BY <1>0, <1>1, <1>8 DEF ReportOK
<1>5. ServingOK(t)
  <2>1. Written(s.snap.index) \subseteq s.mem.recs /\ (s.mem.chk = s.disk.chk => Written(s.snap.index) \subseteq s.disk.recs)
    <3>1. CASE s.mode = "serving"
      BY <1>0, <3>1 DEF ServingOK
    <3>2. CASE s.mode = "joining"
      <4>1. s.mem.chk.completed /\ s.mem.chk.min >= s.snap.index
        BY <1>0, <3>2 DEF ReportOK
      <4>2. /\ s.mem.chk.min \in 0 .. N /\ s.snap.index \in -1 .. N /\ s.snap.index <= s.mem.chk.min
            /\ Written(s.mem.chk.min) \subseteq s.mem.recs
        <5>1. N \in Nat /\ s.snap.index \in 0 .. N
          BY <1>0, HistoryFacts DEF SnapOK
        <5>2. s.mem.chk.min \in -1 .. N /\ Written(s.mem.chk.min) \subseteq s.mem.recs
          BY <1>0, <4>1 DEF FamilyOK
        <5> QED BY <4>1, <5>1, <5>2, Positions
      <4>3. s.mem.chk = s.disk.chk => Written(s.mem.chk.min) \subseteq s.disk.recs
        BY <1>0, <4>1 DEF FamilyOK
      <4> QED BY <4>2, <4>3, WrittenGrows, SMTT(60)
    <3> QED BY <3>1, <3>2
  <2>2. s.snap.index \in s.snap.index .. s.have /\ s.snap.index <= N
    BY <1>0, HistoryFacts, StandsAt
  <2>3. x = After(s.snap.index)
    <3>1. s.snap.mgr = Snapshot(With(After(s.snap.index), {})) /\ MgrOK(After(s.snap.index), s.snap.index)
      BY <1>0 DEF SnapOK, History, ManagersOK
    <3> QED BY <3>1, RestoresManager
  <2> QED BY <1>1, <2>1, <2>2, <2>3 DEF ServingOK
<1> QED BY <1>0, <1>1, <1>2, <1>3, <1>4, <1>5, <1>7 DEF ReplicaOK

(* A replica that is down is made a voter. *)
LEMMA PromotedStopped ==
    ASSUME NEW s, ReplicaOK(s), History, ~s.up, s.mode = "joining", s.reported,
           NEW t, Is(t, "serving", s.up, s.mem, s.disk, s.mgr, s.applied, s.snap, s.have, s.restore,
              s.reported)
    PROVE  ReplicaOK(t)
<1>0. /\ Fields(s) /\ FamilyOK(s.mem) /\ FamilyOK(s.disk) /\ SnapOK(s) /\ RestoreOK(s) /\ ReportOK(s)
      /\ ServingOK(s) /\ s.mode \in {"out", "joining", "serving", "leaving"} /\ s.up \in BOOLEAN
      /\ s.mem.cf = s.disk.cf /\ (~s.up => s.mem = s.disk)
  BY DEF ReplicaOK
<1>1. /\ Fields(t) /\ t.mode = "serving" /\ t.up = s.up /\ t.mem = s.mem /\ t.disk = s.disk
      /\ t.mgr = s.mgr /\ t.applied = s.applied /\ t.snap = s.snap /\ t.have = s.have
      /\ t.restore = s.restore /\ t.reported = s.reported
  BY DEF Is, Fields
<1>2. SnapOK(t)
  BY <1>0, <1>1 DEF SnapOK
<1>3. RestoreOK(t)
  BY <1>0, <1>1 DEF RestoreOK, Phases
<1>4. ReportOK(t)
  BY <1>0, <1>1 DEF ReportOK
<1>5. ServingOK(t)
  <2>1. s.mem.chk.completed /\ s.mem.chk.min >= s.snap.index /\ s.mem = s.disk
    BY <1>0 DEF ReportOK
  <2>2. /\ s.disk.chk.min \in 0 .. N /\ s.snap.index \in -1 .. N /\ s.snap.index <= s.disk.chk.min
        /\ Written(s.disk.chk.min) \subseteq s.disk.recs
    <3>1. N \in Nat /\ s.snap.index \in 0 .. N
      BY <1>0, HistoryFacts DEF SnapOK
    <3>2. s.disk.chk.min \in -1 .. N /\ Written(s.disk.chk.min) \subseteq s.disk.recs
      BY <1>0, <2>1 DEF FamilyOK
    <3> QED BY <2>1, <3>1, <3>2, Positions
  <2>3. Written(s.snap.index) \subseteq s.disk.recs
    BY <2>2, WrittenGrows, SMTT(60)
  <2> QED BY <1>0, <1>1, <2>3 DEF ServingOK
<1> QED BY <1>0, <1>1, <1>2, <1>3, <1>4, <1>5 DEF ReplicaOK

(* A replica that does not serve starts again. *)
LEMMA OpensDB ==
    ASSUME NEW s, ReplicaOK(s), s.mode # "serving", ~s.up, NEW up, up = TRUE,
           NEW t, Is(t, s.mode, up, s.mem, s.disk, s.mgr, s.applied, s.snap, s.have, s.restore, s.reported)
    PROVE  ReplicaOK(t)
<1>0. /\ Fields(s) /\ FamilyOK(s.mem) /\ FamilyOK(s.disk) /\ SnapOK(s) /\ RestoreOK(s) /\ ReportOK(s)
      /\ ServingOK(s) /\ s.mode \in {"out", "joining", "serving", "leaving"} /\ s.up \in BOOLEAN
      /\ s.mem.cf = s.disk.cf /\ (~s.up => s.mem = s.disk)
  BY DEF ReplicaOK
<1>1. /\ Fields(t) /\ t.mode = s.mode /\ t.up = up /\ t.mem = s.mem /\ t.disk = s.disk
      /\ t.mgr = s.mgr /\ t.applied = s.applied /\ t.snap = s.snap /\ t.have = s.have
      /\ t.restore = s.restore /\ t.reported = s.reported
  BY DEF Is, Fields
<1>7. t.up = TRUE
  BY <1>1
<1>2. SnapOK(t)
  BY <1>0, <1>1 DEF SnapOK
<1>3. RestoreOK(t)
  BY <1>0, <1>1 DEF RestoreOK, Phases
<1>4. ReportOK(t)
  BY <1>0, <1>1 DEF ReportOK
<1>5. ServingOK(t)
  BY <1>0, <1>1 DEF ServingOK
<1> QED BY <1>0, <1>1, <1>2, <1>3, <1>4, <1>5, <1>7 DEF ReplicaOK

-----------------------------------------------------------------------------
(* Streams *)

(* A store is finite, and its records have addresses. *)
LEMMA StoreRecs ==
    ASSUME History, NEW S, IsStore(S)
    PROVE  IsRecs(S) /\ \A w \in S : w.key \in Nat \ {0} /\ w.ts \in Nat
<1>1. S \in SUBSET Written(N) /\ IsRecs(Written(N)) /\ \A w \in Written(N) : w.key \in Nat \ {0} /\ w.ts \in Nat
  BY HistoryFacts DEF IsStore
<1>2. IsFiniteSet(S)
  BY <1>1, FS_Subset DEF IsRecs
<1> QED BY <1>1, <1>2 DEF IsRecs

(* A message of the stream: it is a store, what is left is one too, and it  *)
(* has all that is not after its last address.                              *)
LEMMA MessageFacts ==
    ASSUME History, NEW rest, IsStore(rest), NEW recs, recs = FirstOf(rest, MaxStreamingSize)
    PROVE  /\ IsStore(recs) /\ recs \subseteq rest /\ IsStore(rest \ recs)
           /\ Cardinality(recs) < MaxStreamingSize => recs = rest
           /\ recs = {} => Cardinality(recs) < MaxStreamingSize
           /\ recs # {} => /\ IsAddress(LastOf(recs))
                           /\ \A w \in rest : ~Before(LastOf(recs), AddressOf(w)) => w \in recs
<1>1. IsRecs(rest) /\ MaxStreamingSize \in Nat /\ MaxStreamingSize > 0
  BY StoreRecs, ReplicationAssumption, SMTT(60)
<1>2. recs \subseteq rest
  BY DEF FirstOf
<1>3. \A x \in recs : \A y \in rest : ~Before(AddressOf(x), AddressOf(y)) => y \in recs
  BY <1>1, FirstOfClosed
<1>4. ASSUME NEW v \in rest, NEW w \in rest, SameAddress(v, w) PROVE v \in recs => w \in recs
  <2>1. v.key \in Int /\ v.ts \in Int /\ v.key = w.key /\ v.ts = w.ts
    BY <1>1, <1>4 DEF IsRecs, SameAddress
  <2>2. ~Before(AddressOf(v), AddressOf(w))
    BY <2>1, SMTT(60) DEF Before, AddressOf
  <2> QED BY <1>3, <1>4, <2>2
<1>5. \A v, w : SameAddress(v, w) => SameAddress(w, v)
  BY DEF SameAddress
<1>6. IsStore(recs)
  BY <1>2, <1>4 DEF IsStore
<1>7. IsStore(rest \ recs)
  BY <1>2, <1>4, <1>5 DEF IsStore
<1>8. Cardinality(recs) < MaxStreamingSize => recs = rest
  BY <1>1, FirstOfAll
<1>9. recs = {} => Cardinality(recs) < MaxStreamingSize
  BY <1>1, FS_EmptySet
<1>10. IsRecs(recs)
  BY <1>6, StoreRecs
<1>11. ASSUME recs # {}
       PROVE  IsAddress(LastOf(recs)) /\ \A w \in rest : ~Before(LastOf(recs), AddressOf(w)) => w \in recs
  <2>1. PICK x \in recs : LastOf(recs) = AddressOf(x)
    BY <1>10, <1>11, LastOfIsLast
  <2>2. x.key \in Int /\ x.ts \in Int
    BY <1>10 DEF IsRecs
  <2>3. IsAddress(AddressOf(x))
    BY <2>2 DEF IsAddress, AddressOf
  <2> QED BY <1>3, <2>1, <2>3
<1> QED BY <1>2, <1>6, <1>7, <1>8, <1>9, <1>11

(* The stream of a sponsor, whose family is kv, is opened. *)
LEMMA StreamStarts ==
    ASSUME NEW s, ReplicaOK(s), History, s.restore.phase = "waiting", NEW kv, FamilyOK(kv), kv.index >= s.restore.min,
           NEW G, G = GetStream(kv, s.restore.from), NEW z,
           z = [phase |-> "streaming", min |-> s.restore.min, from |-> s.restore.from, rest |-> G],
           NEW t, Is(t, s.mode, s.up, s.mem, s.disk, s.mgr, s.applied, s.snap, s.have, z, s.reported)
    PROVE  ReplicaOK(t)
<1>0. /\ Fields(s) /\ FamilyOK(s.mem) /\ FamilyOK(s.disk) /\ SnapOK(s) /\ RestoreOK(s) /\ ReportOK(s)
      /\ ServingOK(s) /\ s.mode \in {"out", "joining", "serving", "leaving"} /\ s.up \in BOOLEAN
      /\ s.mem.cf = s.disk.cf /\ (~s.up => s.mem = s.disk)
  BY DEF ReplicaOK
<1>1. /\ Fields(t) /\ t.mode = s.mode /\ t.up = s.up /\ t.mem = s.mem /\ t.disk = s.disk
      /\ t.mgr = s.mgr /\ t.applied = s.applied /\ t.snap = s.snap /\ t.have = s.have
      /\ t.restore = z /\ t.reported = s.reported
  BY DEF Is, Fields
<1>6. /\ t.restore = [phase |-> t.restore.phase, min |-> t.restore.min,
                      from |-> t.restore.from, rest |-> t.restore.rest]
      /\ t.restore.phase = "streaming" /\ t.restore.min = s.restore.min
      /\ t.restore.from = s.restore.from /\ t.restore.rest = G
  BY <1>1, SMTT(60)
<1>7. IsStore(G)
  <2>1. IsStore(kv.recs) /\ G = {x \in kv.recs : ~Before(AddressOf(x), s.restore.from)}
    BY DEF FamilyOK, GetStream
  <2>2. \A v, w : SameAddress(v, w) => AddressOf(v) = AddressOf(w)
    BY DEF SameAddress, AddressOf
  <2> QED BY <2>1, <2>2 DEF IsStore
<1>8. Written(s.restore.min) \subseteq s.mem.recs \cup G
  <2>1. /\ s.restore.min \in -1 .. N /\ kv.index \in 0 .. N /\ s.restore.min <= kv.index
        /\ Written(kv.index) \subseteq kv.recs
    <3>1. s.restore.min \in 0 .. N /\ N \in Nat
      BY <1>0, HistoryFacts DEF RestoreOK, SnapOK
    <3>2. kv.index \in 0 .. N /\ Written(kv.index) \subseteq kv.recs
      BY DEF FamilyOK
    <3>3. kv.index \in -1 .. N
      BY <3>1, <3>2, ZeroPosition
    <3> QED BY <3>1, <3>2, <3>3, Positions
  <2>2. Written(s.restore.min) \subseteq kv.recs
    BY <2>1, WrittenGrows
  <2>3. \A w \in Written(s.restore.min) : Before(AddressOf(w), s.restore.from) => w \in s.mem.recs
    BY <1>0 DEF RestoreOK
  <2> QED BY <2>2, <2>3 DEF GetStream
<1>2. SnapOK(t)
  BY <1>0, <1>1 DEF SnapOK
<1>3. RestoreOK(t)
  BY <1>0, <1>1, <1>6, <1>7, <1>8 DEF RestoreOK, Phases
<1>4. ReportOK(t)
  BY <1>0, <1>1 DEF ReportOK
<1>5. ServingOK(t)
  BY <1>0, <1>1 DEF ServingOK, RestoreOK
<1> QED BY <1>0, <1>1, <1>2, <1>3, <1>4, <1>5 DEF ReplicaOK

(* What the replica keeps of a message that it stores. *)
ReceivedFamily(s, recs, completed, last) ==
    [cf |-> s.mem.cf, recs |-> Put(s.mem.recs, recs),
     index |-> mergeMaxIndex(s.mem.index, IF completed THEN s.restore.min ELSE 0),
     chk |-> [min |-> s.restore.min, last |-> last, completed |-> completed]]

(* What is stored with a message: all up to the last of its addresses. *)
Stored(min, rest, old, recs, last, U) ==
    /\ Put(old, recs) = U /\ IsStore(U)
    /\ IsAddress(last) /\ IsStore(rest \ recs)
    /\ Cardinality(recs) < MaxStreamingSize => Written(min) \subseteq U
    /\ \A w \in Written(min) : ~Before(last, AddressOf(w)) => w \in U
    /\ \A w \in Written(min) : Before(AddressOf(w), last) => w \in U
    /\ Written(min) \subseteq U \cup (rest \ recs)

(* A message that is stored with what was there. *)
LEMMA ReceivedVersions ==
    ASSUME History, NEW min \in 0 .. N, NEW rest, IsStore(rest), NEW old, IsStore(old),
           Written(min) \subseteq old \cup rest,
           NEW recs, recs = FirstOf(rest, MaxStreamingSize),
           NEW last, last = IF recs = {} THEN FirstAddress ELSE LastOf(recs)
    PROVE  Stored(min, rest, old, recs, last, old \cup recs)
<1>1. /\ IsStore(recs) /\ recs \subseteq rest /\ IsStore(rest \ recs)
      /\ Cardinality(recs) < MaxStreamingSize => recs = rest
      /\ recs = {} => Cardinality(recs) < MaxStreamingSize
      /\ recs # {} => /\ IsAddress(LastOf(recs))
                      /\ \A w \in rest : ~Before(LastOf(recs), AddressOf(w)) => w \in recs
  BY MessageFacts
<1>2. Put(old, recs) = old \cup recs /\ IsStore(old \cup recs)
  BY <1>1, PutUnites
<1>3. IsAddress(last)
  <2>1. IsAddress(FirstAddress)
    BY SMTT(60) DEF IsAddress, FirstAddress
  <2> QED BY <1>1, <2>1
<1>4. Cardinality(recs) < MaxStreamingSize => Written(min) \subseteq old \cup recs
  BY <1>1
<1>5. ASSUME NEW w \in Written(min), ~Before(last, AddressOf(w)) PROVE w \in old \cup recs
  <2>1. CASE recs = {}
    BY <1>1, <1>4, <1>5, <2>1
  <2>2. CASE recs # {}
    BY <1>1, <1>5, <2>2
  <2> QED BY <2>1, <2>2
<1>6. ASSUME NEW w \in Written(min), Before(AddressOf(w), last) PROVE w \in old \cup recs
  <2>1. w \in Written(N)
    BY WrittenGrows, HistoryFacts, SMTT(60)
  <2>2. w.key \in Nat /\ w.ts \in Nat /\ last.key \in Int /\ last.ts \in Int
    BY <1>3, <2>1, HistoryFacts DEF IsAddress
  <2>3. ~Before(last, AddressOf(w))
    BY <1>6, <2>2, SMTT(60) DEF Before, AddressOf
  <2> QED BY <1>5, <2>3
<1> QED BY <1>1, <1>2, <1>3, <1>4, <1>5, <1>6 DEF Stored

(* The family with a message, and what is left of the stream. *)
MessageKept(s, recs, completed, last) ==
    LET kv == ReceivedFamily(s, recs, completed, last) IN
    /\ FamilyOK(kv) /\ kv.cf = s.mem.cf
    /\ kv.chk.completed = completed /\ kv.chk.min = s.restore.min
    /\ IsAddress(last) /\ IsStore(s.restore.rest \ recs)
    /\ \A w \in Written(s.restore.min) : Before(AddressOf(w), last) => w \in kv.recs
    /\ Written(s.restore.min) \subseteq kv.recs \cup (s.restore.rest \ recs)

(* The index of a family only grows. *)
LEMMA MergedIndex ==
    ASSUME NEW i \in Nat, NEW j \in Nat
    PROVE  mergeMaxIndex(i, j) \in {i, j} /\ mergeMaxIndex(i, 0) = i
BY SMTT(60) DEF mergeMaxIndex

(* A message is stored with its checkpoint. *)
LEMMA ReceivedKV ==
    ASSUME History, NEW s, FamilyOK(s.mem), SnapOK(s), RestoreOK(s), s.restore.phase = "streaming", s.mem.cf,
           NEW recs, recs = FirstOf(s.restore.rest, MaxStreamingSize),
           NEW completed \in BOOLEAN, completed <=> Cardinality(recs) < MaxStreamingSize,
           NEW last, last = IF recs = {} THEN FirstAddress ELSE LastOf(recs)
    PROVE  MessageKept(s, recs, completed, last)
<1> DEFINE min == s.restore.min
           rest == s.restore.rest
           old == s.mem.recs
           U == old \cup recs
           i == mergeMaxIndex(s.mem.index, IF completed THEN min ELSE 0)
           chk == [min |-> min, last |-> last, completed |-> completed]
           kv == ReceivedFamily(s, recs, completed, last)
<1>1. /\ IsStore(rest) /\ Written(min) \subseteq old \cup rest /\ IsStore(old) /\ min \in 0 .. N
  BY DEF RestoreOK, SnapOK, FamilyOK
<1>2. recs = FirstOf(rest, MaxStreamingSize) /\ s.mem.recs = old
  OBVIOUS
<1> HIDE DEF rest, old
<1>3. /\ Put(old, recs) = U /\ IsStore(U)
      /\ IsAddress(last) /\ IsStore(rest \ recs)
      /\ Cardinality(recs) < MaxStreamingSize => Written(min) \subseteq U
      /\ \A w \in Written(min) : ~Before(last, AddressOf(w)) => w \in U
      /\ \A w \in Written(min) : Before(AddressOf(w), last) => w \in U
      /\ Written(min) \subseteq U \cup (rest \ recs)
  <2> HIDE DEF min
  <2>1. Stored(min, rest, old, recs, last, U)
    BY <1>1, <1>2, ReceivedVersions
  <2> HIDE DEF U
  <2> QED BY <2>1 DEF Stored
<1>4. s.mem.recs \subseteq U
  BY <1>2
<1>5. completed => Written(min) \subseteq U
  BY <1>3
<1>6. kv = [cf |-> s.mem.cf, recs |-> U, index |-> i, chk |-> chk]
  BY <1>2, <1>3 DEF ReceivedFamily
<1>7. chk.min = min /\ chk.completed = completed
  OBVIOUS
<1>8. chk = [min |-> chk.min, last |-> chk.last, completed |-> chk.completed] /\ chk.last = last
  OBVIOUS
<1>9. s.mem.cf \in BOOLEAN /\ s.mem.index \in 0 .. N /\ Written(s.mem.index) \subseteq s.mem.recs /\ N \in Nat
  BY HistoryFacts DEF FamilyOK
<1>10. i = s.mem.index \/ (completed /\ i = min)
  <2>1. min \in Nat /\ s.mem.index \in Nat
    BY <1>1, <1>9, ZeroPosition
  <2> QED BY <2>1, MergedIndex
<1> HIDE DEF kv, U, min, i, chk
<1>11. i \in 0 .. N /\ Written(i) \subseteq U /\ min \in -1 .. N
  <2>1. min \in -1 .. N
    BY <1>1, <1>9, ZeroPosition
  <2> QED BY <1>1, <1>4, <1>5, <1>9, <1>10, <2>1
<1>12. kv.cf = s.mem.cf /\ kv.recs = U /\ kv.index = i /\ kv.chk = chk
  BY <1>6
<1>13. kv.chk.min = min /\ kv.chk.last = last /\ kv.chk.completed = completed
  BY <1>7, <1>8, <1>12
<1>14. FamilyOK(kv)
  BY <1>3, <1>5, <1>6, <1>8, <1>9, <1>11, <1>12, <1>13 DEF FamilyOK
<1> QED BY <1>3, <1>12, <1>13, <1>14 DEF MessageKept, kv, min, rest

(* A full message of the stream is stored. *)
LEMMA ReceivesMore ==
    ASSUME NEW s, ReplicaOK(s), History, s.restore.phase = "streaming", s.mem.cf,
           NEW kv, FamilyOK(kv), kv.cf = s.mem.cf, NEW rest, IsStore(rest),
           NEW last, IsAddress(last), \A w \in Written(s.restore.min) : Before(AddressOf(w), last) => w \in kv.recs,
           Written(s.restore.min) \subseteq kv.recs \cup rest,
           NEW z, z = [phase |-> "streaming", min |-> s.restore.min, from |-> last, rest |-> rest],
           NEW t, Is(t, s.mode, s.up, kv, s.disk, s.mgr, s.applied, s.snap, s.have, z, s.reported)
    PROVE  ReplicaOK(t)
<1>0. /\ Fields(s) /\ FamilyOK(s.mem) /\ FamilyOK(s.disk) /\ SnapOK(s) /\ RestoreOK(s) /\ ReportOK(s)
      /\ ServingOK(s) /\ s.mode \in {"out", "joining", "serving", "leaving"} /\ s.up \in BOOLEAN
      /\ s.mem.cf = s.disk.cf /\ (~s.up => s.mem = s.disk)
  BY DEF ReplicaOK
<1>1. /\ Fields(t) /\ t.mode = s.mode /\ t.up = s.up /\ t.mem = kv /\ t.disk = s.disk
      /\ t.mgr = s.mgr /\ t.applied = s.applied /\ t.snap = s.snap /\ t.have = s.have
      /\ t.restore = z /\ t.reported = s.reported
  BY DEF Is, Fields
<1>6. /\ t.restore = [phase |-> t.restore.phase, min |-> t.restore.min,
                      from |-> t.restore.from, rest |-> t.restore.rest]
      /\ t.restore.phase = "streaming" /\ t.restore.min = s.restore.min
      /\ t.restore.from = last /\ t.restore.rest = rest
  BY <1>1, SMTT(60)
<1>8. t.up = TRUE
  BY <1>0, <1>1 DEF RestoreOK
<1>2. SnapOK(t)
  BY <1>0, <1>1 DEF SnapOK
<1>3. RestoreOK(t)
  BY <1>0, <1>1, <1>6 DEF RestoreOK, Phases
<1>4. ReportOK(t)
  BY <1>0, <1>1, <1>6 DEF ReportOK
<1>5. ServingOK(t)
  BY <1>0, <1>1 DEF ServingOK, RestoreOK
<1> QED BY <1>0, <1>1, <1>2, <1>3, <1>4, <1>5, <1>8 DEF ReplicaOK

(* The last message of the stream is stored. *)
LEMMA ReceivesLast ==
    ASSUME NEW s, ReplicaOK(s), History, s.restore.phase = "streaming", s.mem.cf,
           NEW kv, FamilyOK(kv), kv.cf = s.mem.cf, NEW rest, IsStore(rest),
           kv.chk.completed, kv.chk.min = s.restore.min,
           NEW z, z = [phase |-> "ready", min |-> s.restore.min, from |-> FirstAddress, rest |-> rest],
           NEW t, Is(t, s.mode, s.up, kv, s.disk, s.mgr, s.applied, s.snap, s.have, z, s.reported)
    PROVE  ReplicaOK(t)
<1>0. /\ Fields(s) /\ FamilyOK(s.mem) /\ FamilyOK(s.disk) /\ SnapOK(s) /\ RestoreOK(s) /\ ReportOK(s)
      /\ ServingOK(s) /\ s.mode \in {"out", "joining", "serving", "leaving"} /\ s.up \in BOOLEAN
      /\ s.mem.cf = s.disk.cf /\ (~s.up => s.mem = s.disk)
  BY DEF ReplicaOK
<1>1. /\ Fields(t) /\ t.mode = s.mode /\ t.up = s.up /\ t.mem = kv /\ t.disk = s.disk
      /\ t.mgr = s.mgr /\ t.applied = s.applied /\ t.snap = s.snap /\ t.have = s.have
      /\ t.restore = z /\ t.reported = s.reported
  BY DEF Is, Fields
<1>6. /\ t.restore = [phase |-> t.restore.phase, min |-> t.restore.min,
                      from |-> t.restore.from, rest |-> t.restore.rest]
      /\ t.restore.phase = "ready" /\ t.restore.min = s.restore.min
      /\ t.restore.from = FirstAddress /\ t.restore.rest = rest
  BY <1>1, SMTT(60)
<1>7. IsAddress(FirstAddress) /\ kv.chk.min >= s.snap.index
  <2>1. IsAddress(FirstAddress)
    BY SMTT(60) DEF IsAddress, FirstAddress
  <2>2. s.restore.min = s.snap.index
    BY <1>0 DEF RestoreOK
  <2>3. N \in Nat /\ s.snap.index \in 0 .. N
    BY <1>0, HistoryFacts DEF SnapOK
  <2> QED BY <2>1, <2>2, <2>3, OwnPosition
<1>8. t.up = TRUE
  BY <1>0, <1>1 DEF RestoreOK
<1>2. SnapOK(t)
  BY <1>0, <1>1 DEF SnapOK
<1>3. RestoreOK(t)
  BY <1>0, <1>1, <1>6, <1>7 DEF RestoreOK, Phases
<1>4. ReportOK(t)
  BY <1>0, <1>1, <1>6 DEF ReportOK
<1>5. ServingOK(t)
  BY <1>0, <1>1 DEF ServingOK, RestoreOK
<1> QED BY <1>0, <1>1, <1>2, <1>3, <1>4, <1>5, <1>8 DEF ReplicaOK

-----------------------------------------------------------------------------
(* Checkpoints *)

(* A replica is its fields. *)
LEMMA FieldsIs ==
    ASSUME NEW s, Fields(s)
    PROVE  Is(s, s.mode, s.up, s.mem, s.disk, s.mgr, s.applied, s.snap, s.have, s.restore, s.reported)
  BY DEF Fields, Is

(* Replica s with another mode. *)
LEMMA SetMode ==
    ASSUME NEW a, NEW b, NEW c, NEW d, NEW e, NEW f, NEW g, NEW h, NEW i, NEW j,
           NEW s, Is(s, a, b, c, d, e, f, g, h, i, j), NEW v
    PROVE  Is([s EXCEPT !.mode = v], v, b, c, d, e, f, g, h, i, j)
  BY SMTT(60) DEF Is

(* Replica s with another up. *)
LEMMA SetUp ==
    ASSUME NEW a, NEW b, NEW c, NEW d, NEW e, NEW f, NEW g, NEW h, NEW i, NEW j,
           NEW s, Is(s, a, b, c, d, e, f, g, h, i, j), NEW v
    PROVE  Is([s EXCEPT !.up = v], a, v, c, d, e, f, g, h, i, j)
  BY SMTT(60) DEF Is

(* Replica s with another mem. *)
LEMMA SetMem ==
    ASSUME NEW a, NEW b, NEW c, NEW d, NEW e, NEW f, NEW g, NEW h, NEW i, NEW j,
           NEW s, Is(s, a, b, c, d, e, f, g, h, i, j), NEW v
    PROVE  Is([s EXCEPT !.mem = v], a, b, v, d, e, f, g, h, i, j)
  BY SMTT(60) DEF Is

(* Replica s with another disk. *)
LEMMA SetDisk ==
    ASSUME NEW a, NEW b, NEW c, NEW d, NEW e, NEW f, NEW g, NEW h, NEW i, NEW j,
           NEW s, Is(s, a, b, c, d, e, f, g, h, i, j), NEW v
    PROVE  Is([s EXCEPT !.disk = v], a, b, c, v, e, f, g, h, i, j)
  BY SMTT(60) DEF Is

(* Replica s with another mgr. *)
LEMMA SetMgr ==
    ASSUME NEW a, NEW b, NEW c, NEW d, NEW e, NEW f, NEW g, NEW h, NEW i, NEW j,
           NEW s, Is(s, a, b, c, d, e, f, g, h, i, j), NEW v
    PROVE  Is([s EXCEPT !.mgr = v], a, b, c, d, v, f, g, h, i, j)
  BY SMTT(60) DEF Is

(* Replica s with another applied. *)
LEMMA SetApplied ==
    ASSUME NEW a, NEW b, NEW c, NEW d, NEW e, NEW f, NEW g, NEW h, NEW i, NEW j,
           NEW s, Is(s, a, b, c, d, e, f, g, h, i, j), NEW v
    PROVE  Is([s EXCEPT !.applied = v], a, b, c, d, e, v, g, h, i, j)
  BY SMTT(60) DEF Is

(* Replica s with another snap. *)
LEMMA SetSnap ==
    ASSUME NEW a, NEW b, NEW c, NEW d, NEW e, NEW f, NEW g, NEW h, NEW i, NEW j,
           NEW s, Is(s, a, b, c, d, e, f, g, h, i, j), NEW v
    PROVE  Is([s EXCEPT !.snap = v], a, b, c, d, e, f, v, h, i, j)
  BY SMTT(60) DEF Is

(* Replica s with another have. *)
LEMMA SetHave ==
    ASSUME NEW a, NEW b, NEW c, NEW d, NEW e, NEW f, NEW g, NEW h, NEW i, NEW j,
           NEW s, Is(s, a, b, c, d, e, f, g, h, i, j), NEW v
    PROVE  Is([s EXCEPT !.have = v], a, b, c, d, e, f, g, v, i, j)
  BY SMTT(60) DEF Is

(* Replica s with another restore. *)
LEMMA SetRestore ==
    ASSUME NEW a, NEW b, NEW c, NEW d, NEW e, NEW f, NEW g, NEW h, NEW i, NEW j,
           NEW s, Is(s, a, b, c, d, e, f, g, h, i, j), NEW v
    PROVE  Is([s EXCEPT !.restore = v], a, b, c, d, e, f, g, h, v, j)
  BY SMTT(60) DEF Is

(* Replica s with another reported. *)
LEMMA SetReported ==
    ASSUME NEW a, NEW b, NEW c, NEW d, NEW e, NEW f, NEW g, NEW h, NEW i, NEW j,
           NEW s, Is(s, a, b, c, d, e, f, g, h, i, j), NEW v
    PROVE  Is([s EXCEPT !.reported = v], a, b, c, d, e, f, g, h, i, v)
  BY SMTT(60) DEF Is

(* No family is a family without records. *)
LEMMA NoFamily ==
    ASSUME History
    PROVE  FamilyOK(NoCF) /\ NoCF.recs = {} /\ NoCF.cf = FALSE /\ NoCF.chk.completed = FALSE /\ NoCF.chk.min = -1
<1>1. N \in Nat
  BY HistoryFacts
<1>2. Written(0) = {} /\ Written(-1) = {}
  BY SMTT(60) DEF Written
<1>3. IsStore({})
  BY DEF IsStore
<1>4. IsAddress(FirstAddress)
  BY SMTT(60) DEF IsAddress, FirstAddress
<1>5. /\ NoCF = [cf |-> NoCF.cf, recs |-> NoCF.recs, index |-> NoCF.index, chk |-> NoCF.chk]
      /\ NoCF.cf = FALSE /\ NoCF.recs = {} /\ NoCF.index = 0 /\ NoCF.chk = NoCheckpoint
  BY DEF NoCF
<1>6. /\ NoCheckpoint = [min |-> NoCheckpoint.min, last |-> NoCheckpoint.last, completed |-> NoCheckpoint.completed]
      /\ NoCheckpoint.min = -1 /\ NoCheckpoint.last = FirstAddress /\ NoCheckpoint.completed = FALSE
  BY DEF NoCheckpoint
<1>7. 0 \in 0 .. N /\ -1 \in -1 .. N
  BY <1>1, SMTT(60)
<1> QED BY <1>2, <1>3, <1>4, <1>5, <1>6, <1>7 DEF FamilyOK

(* The record of a family with another tag. *)
LEMMA TagRecord ==
    ASSUME NEW kv, kv = [cf |-> kv.cf, recs |-> kv.recs, index |-> kv.index, chk |-> kv.chk], NEW b
    PROVE  [kv EXCEPT !.cf = b] = [cf |-> b, recs |-> kv.recs, index |-> kv.index, chk |-> kv.chk]
  BY SMTT(60)

(* The tag of a family is set. *)
LEMMA Tagged ==
    ASSUME History, NEW kv, FamilyOK(kv)
    PROVE  /\ FamilyOK(initCF(kv)) /\ initCF(kv).cf = TRUE /\ initCF(kv).recs = kv.recs
           /\ initCF(kv).index = kv.index /\ initCF(kv).chk = kv.chk
<1>1. PICK b : b = TRUE
  OBVIOUS
<1> DEFINE d == [kv EXCEPT !.cf = b]
<1>2. initCF(kv) = d
  BY <1>1 DEF initCF
<1>3. kv = [cf |-> kv.cf, recs |-> kv.recs, index |-> kv.index, chk |-> kv.chk]
  BY DEF FamilyOK
<1>4. d = [cf |-> b, recs |-> kv.recs, index |-> kv.index, chk |-> kv.chk]
  BY <1>3, TagRecord
<1> HIDE DEF d
<1>5. d.cf = b /\ d.recs = kv.recs /\ d.index = kv.index /\ d.chk = kv.chk
  BY <1>4
<1>6. FamilyOK(d)
  BY <1>1, <1>4, <1>5 DEF FamilyOK
<1> QED BY <1>1, <1>2, <1>5, <1>6

(* InitPartition changes nothing but the tag of a family. *)
LEMMA InitKeeps ==
    ASSUME History, NEW kv, FamilyOK(kv)
    PROVE  LET d == InitPartition(kv) IN
           FamilyOK(d) /\ d.cf = TRUE /\ d.recs = kv.recs /\ d.index = kv.index /\ d.chk = kv.chk
<1>1. CASE kv.cf
  BY <1>1 DEF InitPartition, FamilyOK
<1>2. CASE ~kv.cf
  <2>1. InitPartition(kv) = initCF(kv)
    BY <1>2 DEF InitPartition
  <2> QED BY <2>1, Tagged
<1> QED BY <1>1, <1>2

(* Where a restore continues: nothing before that address is missing. *)
Continues(l, kv, min) ==
    /\ l.kv = kv \/ l.kv = NoCF
    /\ l.phase \in {"waiting", "ready"} /\ IsAddress(l.from)
    /\ l.phase = "waiting" => \A w \in Written(min) : Before(AddressOf(w), l.from) => w \in l.kv.recs
    /\ l.phase = "ready" => l.kv = kv /\ kv.chk.completed /\ kv.chk.min >= min
    /\ kv.chk.completed /\ kv.chk.min >= min => l.phase = "ready"

(* loadCheckpoint continues where the last stream for the same snapshot, or *)
(* a newer one, has ended.                                                  *)
LEMMA Checkpoint ==
    ASSUME History, NEW kv, FamilyOK(kv), NEW min \in 0 .. N
    PROVE  Continues(loadCheckpoint(kv, min), kv, min)
<1>1. /\ kv.chk = [min |-> kv.chk.min, last |-> kv.chk.last, completed |-> kv.chk.completed]
      /\ kv.chk.min \in -1 .. N /\ IsAddress(kv.chk.last) /\ kv.chk.completed \in BOOLEAN
      /\ \A w \in Written(kv.chk.min) : ~Before(kv.chk.last, AddressOf(w)) => w \in kv.recs
  BY DEF FamilyOK
<1>2. N \in Nat /\ Written(min) \subseteq Written(N)
  BY WrittenGrows, HistoryFacts, SMTT(60)
<1>3. IsAddress(FirstAddress) /\ (kv.chk.min >= min <=> ~(kv.chk.min < min))
  BY <1>1, <1>2, IdleIs, EarlierPosition
<1>4. \A w \in Written(min) : w.key \in Nat \ {0} /\ w.ts \in Nat
  BY <1>2, HistoryFacts
<1>5. \A w \in Written(min) : ~Before(AddressOf(w), FirstAddress)
  BY <1>4, SMTT(60) DEF Before, AddressOf, FirstAddress
<1>6. kv.chk = NoCheckpoint => kv.chk.min < min /\ ~kv.chk.completed
  <2>1. NoCheckpoint.min = -1 /\ NoCheckpoint.completed = FALSE /\ -1 < min
    BY SMTT(60) DEF NoCheckpoint
  <2> QED BY <2>1
<1>7. CASE kv.chk = NoCheckpoint
  <2>1. loadCheckpoint(kv, min) = [kv |-> kv, phase |-> "waiting", from |-> FirstAddress]
    BY <1>3, <1>6, <1>7 DEF loadCheckpoint
  <2>2. PICK l : l = loadCheckpoint(kv, min)
    OBVIOUS
  <2>3. l.kv = kv /\ l.phase = "waiting" /\ l.from = FirstAddress
    <3>1. l = [kv |-> kv, phase |-> "waiting", from |-> FirstAddress]
      BY <2>1, <2>2
    <3> QED BY <3>1
  <2>4. Continues(l, kv, min)
    BY <1>3, <1>5, <1>6, <1>7, <2>3 DEF Continues
  <2> QED BY <2>2, <2>4
<1>8. CASE kv.chk # NoCheckpoint /\ kv.chk.min < min
  <2>1. loadCheckpoint(kv, min) = [kv |-> NoCF, phase |-> "waiting", from |-> FirstAddress]
    BY <1>3, <1>8 DEF loadCheckpoint
  <2>2. PICK l : l = loadCheckpoint(kv, min)
    OBVIOUS
  <2>3. l.kv = NoCF /\ l.phase = "waiting" /\ l.from = FirstAddress
    <3>1. l = [kv |-> NoCF, phase |-> "waiting", from |-> FirstAddress]
      BY <2>1, <2>2
    <3> QED BY <3>1
  <2>5. ~(kv.chk.min >= min)
    BY <1>3, <1>8
  <2>4. Continues(l, kv, min)
    BY <1>3, <1>5, <2>3, <2>5 DEF Continues
  <2> QED BY <2>2, <2>4
<1>9. CASE kv.chk.min >= min /\ kv.chk.completed
  <2>1. loadCheckpoint(kv, min) = [kv |-> kv, phase |-> "ready", from |-> FirstAddress]
    BY <1>3, <1>6, <1>9 DEF loadCheckpoint
  <2>2. PICK l : l = loadCheckpoint(kv, min)
    OBVIOUS
  <2>3. l.kv = kv /\ l.phase = "ready" /\ l.from = FirstAddress
    <3>1. l = [kv |-> kv, phase |-> "ready", from |-> FirstAddress]
      BY <2>1, <2>2
    <3> QED BY <3>1
  <2>4. Continues(l, kv, min)
    BY <1>3, <1>9, <2>3 DEF Continues
  <2> QED BY <2>2, <2>4
<1>10. CASE kv.chk.min >= min /\ ~kv.chk.completed
  <2>0. PICK f : f = IF kv.chk.last = FirstAddress THEN FirstAddress ELSE NextAddress(kv.chk.last)
    OBVIOUS
  <2>1. loadCheckpoint(kv, min) = [kv |-> kv, phase |-> "waiting", from |-> f]
    BY <1>3, <1>6, <1>10, <2>0 DEF loadCheckpoint
  <2>2. PICK l : l = loadCheckpoint(kv, min)
    OBVIOUS
  <2>3. l.kv = kv /\ l.phase = "waiting" /\ l.from = f
    <3>1. l = [kv |-> kv, phase |-> "waiting", from |-> f]
      BY <2>1, <2>2
    <3> QED BY <3>1
  <2>5. IsAddress(f) /\ (f = FirstAddress \/ f = [key |-> kv.chk.last.key, ts |-> kv.chk.last.ts - 1])
    BY <1>1, <1>3, <2>0, SMTT(60) DEF IsAddress, NextAddress
  <2>6. ASSUME NEW w \in Written(min), Before(AddressOf(w), f) PROVE w \in kv.recs
    <3>1. f = [key |-> kv.chk.last.key, ts |-> kv.chk.last.ts - 1]
      BY <1>5, <2>5, <2>6
    <3>2. ~Before(kv.chk.last, AddressOf(w))
      <4>1. kv.chk.last.key \in Int /\ kv.chk.last.ts \in Int /\ w.key \in Nat /\ w.ts \in Nat
        BY <1>1, <1>4 DEF IsAddress
      <4>2. f.key = kv.chk.last.key /\ f.ts = kv.chk.last.ts - 1
        BY <3>1
      <4>3. w.key < f.key \/ (w.key = f.key /\ w.ts > f.ts)
        BY <2>6 DEF Before, AddressOf
      <4>4. ~(kv.chk.last.key < w.key) /\ ~(kv.chk.last.key = w.key /\ kv.chk.last.ts > w.ts)
        BY <4>1, <4>2, <4>3, SMTT(60)
      <4> QED BY <4>4 DEF Before, AddressOf
    <3>3. w \in Written(kv.chk.min)
      <4>1. kv.chk.min \in 0 .. N /\ min \in -1 .. N /\ min <= kv.chk.min
        BY <1>1, <1>2, <1>10, Positions
      <4> QED BY <4>1, WrittenGrows, SMTT(60)
    <3> QED BY <1>1, <3>2, <3>3
  <2>4. Continues(l, kv, min)
    BY <1>10, <2>3, <2>5, <2>6 DEF Continues
  <2> QED BY <2>2, <2>4
<1> QED BY <1>3, <1>7, <1>8, <1>9, <1>10

(* A restore begins with family kv. *)
LEMMA Begins ==
    ASSUME NEW s, ReplicaOK(s), History, s.mode = "joining", s.up = TRUE,
           NEW kv, FamilyOK(kv), NEW d, FamilyOK(d), kv.cf = d.cf,
           NEW p \in {"waiting", "ready"}, NEW f, IsAddress(f),
           p = "waiting" => \A w \in Written(s.snap.index) : Before(AddressOf(w), f) => w \in kv.recs,
           p = "ready" => kv.chk.completed /\ kv.chk.min >= s.snap.index, s.reported => p = "ready",
           NEW z, z = [phase |-> p, min |-> s.snap.index, from |-> f, rest |-> {}],
           NEW t, Is(t, s.mode, s.up, kv, d, s.mgr, s.applied, s.snap, s.have, z, s.reported)
    PROVE  ReplicaOK(t)
<1>0. /\ Fields(s) /\ FamilyOK(s.mem) /\ FamilyOK(s.disk) /\ SnapOK(s) /\ RestoreOK(s) /\ ReportOK(s)
      /\ ServingOK(s) /\ s.mode \in {"out", "joining", "serving", "leaving"} /\ s.up \in BOOLEAN
      /\ s.mem.cf = s.disk.cf /\ (~s.up => s.mem = s.disk)
  BY DEF ReplicaOK
<1>1. /\ Fields(t) /\ t.mode = s.mode /\ t.up = s.up /\ t.mem = kv /\ t.disk = d /\ t.mgr = s.mgr
      /\ t.applied = s.applied /\ t.snap = s.snap /\ t.have = s.have /\ t.restore = z
      /\ t.reported = s.reported
  BY DEF Is, Fields
<1>6. /\ t.restore = [phase |-> t.restore.phase, min |-> t.restore.min,
                      from |-> t.restore.from, rest |-> t.restore.rest]
      /\ t.restore.phase = p /\ t.restore.min = s.snap.index /\ t.restore.from = f /\ t.restore.rest = {}
  BY <1>1, SMTT(60)
<1>7. IsStore({})
  BY DEF IsStore
<1>2. SnapOK(t)
  BY <1>0, <1>1 DEF SnapOK
<1>3. RestoreOK(t)
  BY <1>0, <1>1, <1>6, <1>7 DEF RestoreOK, Phases
<1>4. ReportOK(t)
  BY <1>0, <1>1, <1>6 DEF ReportOK
<1>5. ServingOK(t)
  BY <1>0, <1>1 DEF ServingOK
<1> QED BY <1>0, <1>1, <1>2, <1>3, <1>4, <1>5 DEF ReplicaOK

(* The next entry is applied: the store has what was written by it. *)
LEMMA EntryApplied ==
    ASSUME NEW s, ReplicaOK(s), History, s.mode = "serving", s.up = TRUE, NEW i \in 1 .. N, i = s.applied + 1, s.applied < s.have,
           NEW kv, FamilyOK(kv), kv.cf = TRUE, kv.chk = s.mem.chk, Written(i) \subseteq kv.recs,
           NEW d, FamilyOK(d), d.cf = TRUE, d.recs = s.disk.recs, d.chk = s.disk.chk,
           NEW m, m = After(i),
           NEW t, Is(t, s.mode, s.up, kv, d, m, i, s.snap, s.have, s.restore, s.reported)
    PROVE  ReplicaOK(t)
<1>0. /\ Fields(s) /\ FamilyOK(s.mem) /\ FamilyOK(s.disk) /\ SnapOK(s) /\ RestoreOK(s) /\ ReportOK(s)
      /\ ServingOK(s) /\ s.mode \in {"out", "joining", "serving", "leaving"} /\ s.up \in BOOLEAN
      /\ s.mem.cf = s.disk.cf /\ (~s.up => s.mem = s.disk)
  BY DEF ReplicaOK
<1>1. /\ Fields(t) /\ t.mode = s.mode /\ t.up = s.up /\ t.mem = kv /\ t.disk = d /\ t.mgr = m
      /\ t.applied = i /\ t.snap = s.snap /\ t.have = s.have /\ t.restore = s.restore
      /\ t.reported = s.reported
  BY DEF Is, Fields
<1>2. SnapOK(t)
  BY <1>0, <1>1 DEF SnapOK
<1>3. RestoreOK(t)
  BY <1>0, <1>1 DEF RestoreOK
<1>4. ReportOK(t)
  BY <1>0, <1>1 DEF ReportOK
<1>5. ServingOK(t)
  <2>1. s.applied \in s.snap.index .. s.have /\ s.snap.index \in 0 .. N /\ s.have \in s.snap.index .. Len(log)
    BY <1>0 DEF ServingOK, SnapOK
  <2>2. N \in Nat /\ Len(log) \in Nat
    BY HistoryFacts
  <2>3. i \in s.snap.index .. s.have /\ i <= N
    BY <2>1, <2>2, SMTT(60)
  <2> QED BY <1>0, <1>1, <2>3 DEF ServingOK
<1> QED BY <1>0, <1>1, <1>2, <1>3, <1>4, <1>5 DEF ReplicaOK

(* Nothing is forgotten before the oldest timestamp is known. *)
LEMMA NothingForgotten ==
    ASSUME NEW i, NEW x, MgrOK(x, i), NEW f, WithoutStore(f) = x
    PROVE  WithoutStore(cleanup(f, 0)) = x
<1>1. f.status = x.status /\ f.prepared = x.prepared /\ f.maxTs = x.maxTs
  BY DEF WithoutStore
<1>2. /\ x.status = [id \in DOMAIN x.status |-> x.status[id]] /\ DOMAIN x.status = Ids
      /\ x.prepared = [id \in DOMAIN x.prepared |-> x.prepared[id]] /\ DOMAIN x.prepared = Ids
      /\ x = WithoutStore(x)
  BY DEF MgrOK, Shape, With
<1>3. \A id \in Ids : IsFinal(x.status[id].state) => x.status[id].ts \in Nat \ {0}
  BY DEF MgrOK, EntryOK
<1>4. Cleanable(f, 0) = {}
  BY <1>1, <1>2, <1>3, SMTT(60) DEF Cleanable
<1>5. cleanup(f, 0) = [status |-> x.status, prepared |-> x.prepared, maxTs |-> x.maxTs, db |-> f.db]
  BY <1>1, <1>2, <1>4 DEF cleanup
<1>6. PICK g : g = cleanup(f, 0)
  OBVIOUS
<1>7. g.status = x.status /\ g.prepared = x.prepared /\ g.maxTs = x.maxTs
  <2>1. g = [status |-> x.status, prepared |-> x.prepared, maxTs |-> x.maxTs, db |-> f.db]
    BY <1>5, <1>6
  <2> QED BY <2>1
<1> QED BY <1>2, <1>6, <1>7 DEF WithoutStore

(* What an entry writes is added to the family. *)
LEMMA Puts ==
    ASSUME History, NEW kv, FamilyOK(kv), kv.cf = TRUE, NEW i \in 1 .. N, Written(i - 1) \subseteq kv.recs,
           NEW W, IsStore(W), Written(i) = Written(i - 1) \cup W
    PROVE  LET d == KVPut(kv, i, W) IN
           FamilyOK(d) /\ d.cf = TRUE /\ d.chk = kv.chk /\ Written(i) \subseteq d.recs
<1> DEFINE R == Put(kv.recs, W)
           j == mergeMaxIndex(kv.index, i)
           a == [kv EXCEPT !.recs = R]
           d == [a EXCEPT !.index = j]
<1>1. KVPut(kv, i, W) = d
  BY DEF KVPut
<1>2. /\ kv = [cf |-> kv.cf, recs |-> kv.recs, index |-> kv.index, chk |-> kv.chk]
      /\ IsStore(kv.recs) /\ kv.index \in 0 .. N /\ Written(kv.index) \subseteq kv.recs
  BY DEF FamilyOK
<1>3. N \in Nat
  BY HistoryFacts
<1>4. R = kv.recs \cup W /\ IsStore(R)
  <2>1. Put(kv.recs, W) = kv.recs \cup W /\ IsStore(kv.recs \cup W)
    BY <1>2, PutUnites
  <2> QED BY <2>1
<1>5. j \in 0 .. N /\ (j = kv.index \/ j = i)
  <2>1. kv.index \in Nat /\ i \in Nat /\ i \in 0 .. N
    BY <1>2, <1>3, SMTT(60)
  <2> QED BY <1>2, <2>1, MergedIndex
<1>6. Written(i) \subseteq R /\ Written(j) \subseteq R /\ kv.recs \subseteq R
  <2> HIDE DEF R, j
  <2> QED BY <1>2, <1>3, <1>4, <1>5
<1> HIDE DEF R, j
<1>7. a = [cf |-> kv.cf, recs |-> R, index |-> kv.index, chk |-> kv.chk]
  BY <1>2, SMTT(60)
<1> HIDE DEF a
<1>8. d = [cf |-> kv.cf, recs |-> R, index |-> j, chk |-> kv.chk]
  BY <1>7, SMTT(60)
<1> HIDE DEF d
<1>9. d.cf = kv.cf /\ d.recs = R /\ d.index = j /\ d.chk = kv.chk
  BY <1>8
<1>10. FamilyOK(d)
  BY <1>4, <1>5, <1>6, <1>8, <1>9 DEF FamilyOK
<1> QED BY <1>1, <1>6, <1>9, <1>10

(* Any replica applies an entry that was applied before. *)
AppliesWell ==
    \A s : /\ History /\ ReplicaOK(s) /\ s.mode = "serving" /\ s.up
           /\ s.applied < N /\ s.applied < s.have /\ (s.mem.cf \/ s.applied = 0)
           => ReplicaOK(ApplyEntry(s, s.applied + 1, 0))

(* FSM.Apply again gives the managers and the versions of the first time. *)
LEMMA Applies == AppliesWell
<1> SUFFICES ASSUME NEW s, History, ReplicaOK(s), s.mode = "serving", s.up,
                    s.applied < N, s.applied < s.have, s.mem.cf \/ s.applied = 0
             PROVE  ReplicaOK(ApplyEntry(s, s.applied + 1, 0))
  BY DEF AppliesWell
<1> DEFINE D == s.mem.recs
           i == s.applied + 1
           c == log[i]
           e == Apply(Manager(s), Pid, c)
           F == FinishBatch(e.m, e.writes, e.done, c.ts)
           kv == IF s.applied = 0 THEN InitPartition(s.mem) ELSE s.mem
           W == outcome[i].writes
           b == kv.cf
           d == [s.disk EXCEPT !.cf = b]
           p == KVPut(kv, i, W)
           m == WithoutStore(cleanup(F, 0))
<1>1. /\ FamilyOK(s.mem) /\ FamilyOK(s.disk) /\ ServingOK(s) /\ SnapOK(s) /\ Fields(s) /\ s.up = TRUE
      /\ IsStore(D)
  BY DEF ReplicaOK, FamilyOK
<1>2. /\ s.applied \in Nat /\ i \in 1 .. N /\ i \in 0 .. N /\ i - 1 = s.applied /\ N \in Nat
      /\ s.mgr = After(s.applied) /\ Written(s.applied) \subseteq D
  <2>1. /\ s.applied \in Nat /\ N \in Nat
        /\ s.mgr = After(s.applied) /\ Written(s.applied) \subseteq D
    BY <1>1, ServesAt
  <2> QED BY <2>1, NextPosition
<1>3. D \subseteq Written(N)
  BY <1>1 DEF IsStore
<1>4. Manager(s) = With(After(i - 1), D)
  BY <1>2 DEF Manager, With
<1> HIDE DEF D, i
<1>5. OutcomeOf(With(After(i - 1), D), c) = outcome[i]
  BY <1>2, <1>3, Replays
<1>6. e.writes = W /\ WithoutStore(F) = outcome[i].mgr
  <2>1. outcome[i] = [status |-> e.status, err |-> e.err, writes |-> e.writes, mgr |-> WithoutStore(F)]
    BY <1>4, <1>5 DEF OutcomeOf
  <2> HIDE DEF e, F
  <2> QED BY <2>1, SMTT(60)
<1>7. After(i) = outcome[i].mgr /\ MgrOK(After(i), i)
  <2>1. i # 0
    BY <1>2, SMTT(60)
  <2> QED BY <1>2, <2>1 DEF After, History, ManagersOK
<1>8. m = After(i)
  <2> HIDE DEF F
  <2> QED BY <1>6, <1>7, NothingForgotten
<1>9. FamilyOK(kv) /\ kv.cf = TRUE /\ kv.recs = s.mem.recs /\ kv.chk = s.mem.chk
  <2>1. CASE s.applied = 0
    BY <1>1, <2>1, InitKeeps
  <2>2. CASE s.applied # 0
    BY <1>1, <2>2 DEF FamilyOK
  <2> QED BY <2>1, <2>2
<1>10. FamilyOK(d) /\ d.cf = TRUE /\ d.recs = s.disk.recs /\ d.chk = s.disk.chk
  <2> HIDE DEF kv
  <2>1. d = initCF(s.disk)
    BY <1>9 DEF initCF
  <2> HIDE DEF d
  <2> QED BY <1>1, <2>1, Tagged
<1>11. FamilyOK(p) /\ p.cf = TRUE /\ p.chk = kv.chk /\ Written(i) \subseteq p.recs
  <2>1. Written(i - 1) \subseteq kv.recs
    BY <1>2, <1>9 DEF D
  <2>2. IsStore(W) /\ Written(i) = Written(i - 1) \cup W
    BY <1>2, HistoryFacts
  <2> HIDE DEF kv, W
  <2> QED BY <1>2, <1>9, <2>1, <2>2, Puts
<1>12. ApplyEntry(s, i, 0) = [s EXCEPT !.mgr = m, !.applied = i, !.mem = p, !.disk = d]
  BY <1>6 DEF ApplyEntry
<1> HIDE DEF m, p, d, W, kv, F, e, c, b
<1>13. PICK t : t = [s EXCEPT !.mgr = m, !.applied = i, !.mem = p, !.disk = d]
  OBVIOUS
<1>14. Is(t, s.mode, s.up, p, d, m, i, s.snap, s.have, s.restore, s.reported)
  <2> DEFINE x == [s EXCEPT !.mgr = m]
             y == [x EXCEPT !.applied = i]
             z == [y EXCEPT !.mem = p]
             u == [z EXCEPT !.disk = d]
  <2>1. t = u
    BY <1>13
  <2>2. Is(s, s.mode, s.up, s.mem, s.disk, s.mgr, s.applied, s.snap, s.have, s.restore, s.reported)
    BY <1>1, FieldsIs
  <2>3. Is(x, s.mode, s.up, s.mem, s.disk, m, s.applied, s.snap, s.have, s.restore, s.reported)
    BY <2>2, SetMgr
  <2> HIDE DEF x
  <2>4. Is(y, s.mode, s.up, s.mem, s.disk, m, i, s.snap, s.have, s.restore, s.reported)
    BY <2>3, SetApplied
  <2> HIDE DEF y
  <2>5. Is(z, s.mode, s.up, p, s.disk, m, i, s.snap, s.have, s.restore, s.reported)
    BY <2>4, SetMem
  <2> HIDE DEF z
  <2>6. Is(u, s.mode, s.up, p, d, m, i, s.snap, s.have, s.restore, s.reported)
    BY <2>5, SetDisk
  <2> HIDE DEF u
  <2> QED BY <2>1, <2>6
<1>15. i = s.applied + 1
  BY DEF i
<1>16. p.chk = s.mem.chk
  BY <1>9, <1>11
<1>17. ReplicaOK(t)
  BY <1>1, <1>2, <1>8, <1>10, <1>11, <1>14, <1>15, <1>16, EntryApplied
<1> QED BY <1>12, <1>13, <1>17 DEF i
=============================================================================
