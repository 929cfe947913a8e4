-------------------------- MODULE PartitionProofs --------------------------
(***************************************************************************)
(* The two-phase locking of a partition is sound for every set of          *)
(* transactions, every batching of their commands, every loss of a suffix  *)
(* of the log at a change of leader and every schedule of the clean-up;    *)
(* the versions of a key follow on one another under one leader.           *)
(***************************************************************************)
EXTENDS Partition, TxnManagerProofs, WellFoundedInduction

(* SMT is the default prover; Zenon is cited where it does better. *)
USE ZenonT(30)

(* What no proof below uses. *)
HIDE DEF SetStatusUpdates, SetPreparedUpdates, SetBothUpdates,
         ReleaseUpdates, AutocommitEffect, PrepareEffect, CommitEffect,
         AbortEffect, StoreDecisionEffect, MarkTimedoutEffect,
         UpdatedTouches, ApplyMoves, UpdatedEntry, ApplyReplies,
         ApplyResult, ApplyWrites, RestoreEntry, EmptyIsWellFounded,
         IsWellFoundedOnSubset, IsWellFoundedOnSubrelation, MinWF,
         WellFoundedIsIrreflexive, WellFoundedIsAsymmetric,
         WFSetLessThanIrreflexive, SetLessTransitive, WFInduction,
         WFDefOnUnique, WFInductiveDefLemma, TransitiveClosureThm,
         TransitiveClosureMinimal, TCTCTC, TCRTC, RTCTC,
         TransitiveClosureChopLast, TransitiveClosureWF, WFInductiveDef,
         WFInductiveDefType, PreImageWellFounded, WFLexPairOrdering,
         WFLexProductOrdering, NatInduction, DownwardNatInduction,
         GeneralNatInduction, SmallestNatural, RecursiveFcnOfNat,
         NatInductiveDef, RecursiveFcnOfNatType, NatInductiveDefType,
         RecursiveFcnOfNatUnique, NatInductiveUnique, FiniteNatInductiveDef,
         FiniteNatInductiveDefType, FiniteNatInductiveUnique

Times == 0 .. MaxClock

Commands ==
    {c \in [op : CommandOps, id : Ids, txn : {Body[i] : i \in Ids}, pids : {{}},
            principal : {Principal[i] : i \in Ids}, ts : Times, cts : Times, release : BOOLEAN] :
        c.txn = Body[c.id]}

(* A batch that ApplyBatch has not begun with. *)
QueuedBatches ==
    {b \in [cmds : Seq(Commands), todo : SUBSET Nat, writes : {{}}, done : {{}},
            maxTs : Times, bumps : BOOLEAN, active : {TRUE}] :
        b.todo \subseteq DOMAIN b.cmds}

(* The layout of the records batch and rd. *)
BatchShape(b) == b = [cmds |-> b.cmds, todo |-> b.todo, writes |-> b.writes, done |-> b.done,
                      maxTs |-> b.maxTs, bumps |-> b.bumps, active |-> b.active]

ReadShape(r) == r = [phase |-> r.phase, txn |-> r.txn, ts |-> r.ts]

(* The facts about types that the commands rely on. *)
Typed ==
    /\ Shape(m, Ids)
    /\ \A id \in Ids : /\ m.status[id].ts \in Times
                       /\ m.prepared[id].present \in BOOLEAN
                       /\ m.prepared[id].locks \subseteq BuildLocks(Body[id])
    /\ m.maxTs \in Times
    /\ clock \in Times
    /\ log \in Seq(QueuedBatches)
    /\ batch.cmds \in Seq(Commands) /\ batch.todo \subseteq DOMAIN batch.cmds
    /\ batch.maxTs \in Times
    /\ BatchShape(batch)
    /\ ReadShape(rd) /\ rd.ts \in Times

(* The inductive invariant.  LockExclusion and LocksReleasable need nothing *)
(* beyond the types: a new transaction's locks are checked against all that *)
(* are held, and a command that takes a transaction out of the states from  *)
(* which its locks can be released releases them, or leaves that to the end *)
(* of its batch.                                                            *)
Inv == Typed /\ LockExclusion /\ LocksReleasable

-----------------------------------------------------------------------------
(* Maximum is the greatest element of a nonempty set of bounded numbers. *)
LEMMA MaximumInSet ==
    ASSUME NEW n \in Nat, NEW S, S \subseteq 0 .. n, S # {}
    PROVE  Maximum(S) \in S /\ \A y \in S : y <= Maximum(S)
<1> DEFINE T == {n - x : x \in S}
<1>1. \A x \in S : x \in Nat /\ x <= n /\ n - x \in T
  BY SMTT(60)
<1>2. \A t \in T : \E x \in S : t = n - x
  OBVIOUS
<1> HIDE DEF T
<1>3. T \subseteq Nat /\ T # {}
  <2>1. \A t \in T : t \in Nat
    BY <1>1, <1>2, SMTT(60)
  <2>2. T # {}
    BY <1>1
  <2> QED BY <2>1, <2>2
<1>4. PICK t \in T : \A u \in T : ~(<<u, t>> \in OpToRel(<, Nat))
  BY <1>3, WFMin, NatLessThanWellFounded
<1>5. \A u \in T : ~(u < t)
  BY <1>3, <1>4 DEF OpToRel
<1>6. PICK x \in S : t = n - x
  BY <1>2
<1>7. \A y \in S : y <= x
  BY <1>1, <1>5, <1>6, SMTT(60)
<1> QED BY <1>7 DEF Maximum

(* What the service asks the writer for is a command. *)
LEMMA RequestsAreCommands == Requests \subseteq Commands
<1>1. ASSUME NEW op \in CommandOps, NEW id \in Ids, NEW cts \in Times, NEW release \in BOOLEAN
      PROVE  Command(op, id, cts, release) \in Commands
  BY PartitionAssumption, SMTT(60) DEF Command, Commands, Times
<1>2. Stamps \subseteq Times /\ 0 \in Times
  BY PartitionAssumption, SMTT(60) DEF Stamps, Times
<1>3. \A id \in Ids : RequestsOf(id) \subseteq Commands
  BY <1>1, <1>2 DEF RequestsOf, CommandOps
<1> QED BY <1>3 DEF Requests

(* A timestamp given out by prepareBatch is at most the last one of the batch. *)
LEMMA StampBound ==
    ASSUME NEW n \in Nat, NEW cs \in [1 .. n -> Commands]
    PROVE  Ticks(cs) \in Nat /\ \A i \in Stamped(cs) : i \in Nat \ {0} /\ i <= Ticks(cs)
<1> DEFINE S == {0} \cup Stamped(cs)
<1>1. Stamped(cs) \subseteq 1 .. n
  BY DEF Stamped
<1>2. S \subseteq 0 .. n /\ S # {} /\ Ticks(cs) = Maximum(S)
  BY <1>1, SMTT(60) DEF Ticks
<1>3. Stamped(cs) \subseteq S
  OBVIOUS
<1> HIDE DEF S
<1>4. Ticks(cs) \in S /\ \A i \in S : i <= Ticks(cs)
  BY <1>2, MaximumInSet
<1>5. 0 .. n \subseteq Nat /\ 1 .. n \subseteq Nat \ {0}
  BY SMTT(60)
<1> QED BY <1>1, <1>2, <1>3, <1>4, <1>5

(* Commands with their timestamps are commands: no timestamp is beyond the clock. *)
LEMMA StampedCommands ==
    ASSUME NEW n \in Nat, NEW cs \in [1 .. n -> Commands], NEW base \in Nat,
           base + Ticks(cs) <= MaxClock
    PROVE  Stamp(cs, base) \in Seq(Commands) /\ DOMAIN Stamp(cs, base) = 1 .. n
<1>1. DOMAIN cs = 1 .. n /\ DOMAIN Stamp(cs, base) = 1 .. n
  BY DEF Stamp
<1>2. ASSUME NEW i \in 1 .. n PROVE Stamp(cs, base)[i] \in Commands
  <2> DEFINE t == base + i
  <2>1. cs[i] \in Commands
    BY <1>2
  <2>2. CASE i \in Stamped(cs)
    <3>1. t \in Times
      BY <2>2, StampBound, PartitionAssumption, SMTT(60) DEF Times
    <3>2. Stamp(cs, base)[i] = [cs[i] EXCEPT !.ts = t]
      BY <1>1, <1>2, <2>2 DEF Stamp
    <3> HIDE DEF t
    <3> QED BY <2>1, <3>1, <3>2 DEF Commands
  <2>3. CASE i \notin Stamped(cs)
    BY <1>1, <1>2, <2>1, <2>3 DEF Stamp
  <2> QED BY <2>2, <2>3
<1>3. Stamp(cs, base) \in [1 .. n -> Commands]
  BY <1>1, <1>2 DEF Stamp
<1> QED BY <1>1, <1>3, SMTT(60)

-----------------------------------------------------------------------------
(* The invariant holds for the first leader. *)
LEMMA InitInv == Init => Inv
<1> SUFFICES ASSUME Init PROVE Inv
  OBVIOUS
<1>1. /\ m = [NewManager(Ids) EXCEPT !.maxTs = 1] /\ clock = 1 /\ log = <<>>
      /\ batch = NoBatch /\ rd = NoRead
  BY DEF Init
<1>2. m = [status |-> [id \in Ids |-> NoStatus], prepared |-> [id \in Ids |-> NoPrepared],
           maxTs |-> 1, db |-> {}]
  BY <1>1 DEF NewManager
<1>3. \A id \in Ids : m.status[id] = NoStatus /\ m.prepared[id] = NoPrepared
  BY <1>2
<1>4. IsPrepared(NoPrepared) /\ NoStatus.state \in States /\ NoStatus.ts = 0
  BY DEF IsPrepared, NoPrepared, NoStatus, Status, States
<1>5. Shape(m, Ids)
  BY <1>2, <1>3, <1>4 DEF Shape, IsPrepared
<1>6. NoPrepared.released = TRUE /\ NoPrepared.present \in BOOLEAN /\ NoPrepared.locks = {}
  BY DEF NoPrepared
<1>7. 0 \in Times /\ 1 \in Times
  BY PartitionAssumption, SMTT(60) DEF Times
<1>8. Typed
  <2>1. m.maxTs = 1
    BY <1>2
  <2>2. /\ batch.cmds = <<>> /\ batch.todo = {} /\ batch.maxTs = 0
        /\ BatchShape(batch)
    BY <1>1 DEF NoBatch, BatchShape
  <2>3. ReadShape(rd) /\ rd.ts = 0
    BY <1>1 DEF NoRead, ReadShape
  <2>4. \A id \in Ids : /\ m.status[id].ts \in Times
                        /\ m.prepared[id].present \in BOOLEAN
                        /\ m.prepared[id].locks \subseteq BuildLocks(Body[id])
    BY <1>3, <1>4, <1>6, <1>7
  <2>5. log \in Seq(QueuedBatches) /\ batch.cmds \in Seq(Commands)
    BY <1>1, <2>2, SMTT(60)
  <2> QED BY <1>1, <1>5, <1>7, <2>1, <2>2, <2>3, <2>4, <2>5 DEF Typed
<1>9. LockExclusion /\ LocksReleasable
  BY <1>3, <1>6 DEF LockExclusion, LocksReleasable
<1> QED BY <1>8, <1>9 DEF Inv

(* A batch may be flushed at any time: it is well formed. *)
LEMMA FlushTyped ==
    ASSUME Typed, NEW n \in Nat, NEW cs \in [1 .. n -> Requests], NEW bump \in BOOLEAN, Flush(cs, bump)
    PROVE  Typed'
<1> DEFINE last == Merged(cs) + Ticks(cs)
           S == {0} \cup {cs[i].cts : i \in {j \in DOMAIN cs : cs[j].op = "Commit"}}
                    \cup (IF Stamped(cs) = {} THEN {} ELSE {last})
                    \cup (IF bump THEN {rd.ts} ELSE {})
           b == [cmds |-> Stamp(cs, Merged(cs)), todo |-> DOMAIN cs, writes |-> {},
                 done |-> {}, maxTs |-> Maximum(S), bumps |-> bump, active |-> TRUE]
<1>1. cs \in [1 .. n -> Commands] /\ DOMAIN cs = 1 .. n
  BY RequestsAreCommands
<1>2. \A i \in 1 .. n : cs[i].cts \in Times
  BY <1>1 DEF Commands
<1>3. clock \in Times /\ rd.ts \in Times /\ MaxClock \in Nat /\ 0 \in Times
  BY PartitionAssumption, SMTT(60) DEF Typed, Times
<1>4. Merged(cs) \in Times
  <2> DEFINE C == {clock} \cup {cs[i].cts : i \in DOMAIN cs}
  <2>1. C \subseteq Times /\ C # {} /\ Merged(cs) = Maximum(C)
    BY <1>1, <1>2, <1>3 DEF Merged
  <2> HIDE DEF C
  <2> QED BY <1>3, <2>1, MaximumInSet DEF Times
<1>5. Ticks(cs) \in Nat
  BY <1>1, StampBound
<1>6. last \in Times
  BY <1>3, <1>4, <1>5, SMTT(60) DEF Flush, Times
<1>7. Stamp(cs, Merged(cs)) \in Seq(Commands) /\ DOMAIN Stamp(cs, Merged(cs)) = 1 .. n
  BY <1>1, <1>3, <1>4, <1>5, <1>6, StampedCommands, SMTT(60) DEF Times
<1>8. Maximum(S) \in Times
  <2>1. S \subseteq Times /\ S # {}
    BY <1>1, <1>2, <1>3, <1>6
  <2> HIDE DEF S
  <2> QED BY <1>3, <2>1, MaximumInSet DEF Times
<1>9. /\ clock' = last /\ log' = Append(log, b)
      /\ rd' = (IF bump THEN [rd EXCEPT !.phase = "wait"] ELSE rd)
      /\ UNCHANGED <<m, batch>>
  BY DEF Flush
<1> HIDE DEF last, S
<1>10. b \in QueuedBatches
  BY <1>1, <1>7, <1>8, SMTT(60) DEF QueuedBatches
<1> HIDE DEF b
<1>11. log' \in Seq(QueuedBatches)
  BY <1>9, <1>10, SMTT(60) DEF Typed
<1>12. ReadShape(rd)' /\ rd'.ts \in Times
  BY <1>9 DEF Typed, ReadShape
<1> QED BY <1>6, <1>9, <1>11, <1>12 DEF Typed

(* Whether locks are compatible does not depend on the order they are compared in. *)
LEMMA CompatibleSymmetric ==
    ASSUME NEW L, NEW M, AllCompatible(L, M)
    PROVE  AllCompatible(M, L)
BY DEF AllCompatible, CompatibleWith

(* What ApplyCommand does to the manager: one transition of one transaction. *)
ApplyStep(c, s, p, done) ==
    /\ c \in Commands
    /\ Touched(m, m', Ids, c.id, s, p)
    /\ Transition(m, c, m.status[c.id], m.prepared[c.id], s, p, done)
    /\ Sources(c, m.status[c.id], m.prepared[c.id], s, p)
    /\ m'.maxTs = m.maxTs

(* A command alone does not change maxTimestamp. *)
LEMMA ApplyMaxTs ==
    ASSUME NEW n, NEW I, NEW c, c.id \in I, c.op \in CommandOps, Shape(n, I), NEW pid
    PROVE  Apply(n, pid, c).m.maxTs = n.maxTs
<1> DEFINE r == Apply(n, pid, c)
<1>1. \/ Untouched(n, r) \/ Autocommits(n, c, r) \/ Prepares(n, c, r) \/ Commits(n, c, r)
      \/ Aborts(n, c, r) \/ Decides(n, c, r) \/ TimesOut(n, c, r) \/ Releases(n, c, r)
  BY ApplyEffect
<1> HIDE DEF r
<1>2. r.m.maxTs = n.maxTs
  BY <1>1, SMTT(60) DEF Untouched, Autocommits, Prepares, Commits, Aborts, Decides, TimesOut, Releases, Updated
<1> QED BY <1>2 DEF r

(* A step of ApplyBatch is one of the transitions of ApplyTransition. *)
LEMMA ApplyCommandStep ==
    ASSUME Typed, ApplyCommand
    PROVE  \E c, s, p, done :
              /\ ApplyStep(c, s, p, done)
              /\ batch'.done = batch.done \cup done
              /\ batch'.cmds = batch.cmds /\ batch'.todo \subseteq batch.todo
              /\ batch'.maxTs = batch.maxTs /\ BatchShape(batch)'
<1>1. PICK i \in batch.todo :
        LET r == Apply(m, Pid, batch.cmds[i]) IN
        /\ m' = r.m
        /\ batch' = [batch EXCEPT !.todo = @ \ {i}, !.writes = @ \cup r.writes, !.done = @ \cup r.done]
  BY DEF ApplyCommand
<1> DEFINE c == batch.cmds[i]
           r == Apply(m, Pid, c)
<1>2. c \in Commands /\ c.id \in Ids /\ c.op \in CommandOps
  BY SMTT(60) DEF Typed, Commands
<1>3. Shape(m, Ids)
  BY DEF Typed
<1>4. PICK s, p : /\ Touched(m, r.m, Ids, c.id, s, p)
                  /\ Transition(m, c, m.status[c.id], m.prepared[c.id], s, p, r.done)
                  /\ Sources(c, m.status[c.id], m.prepared[c.id], s, p)
  BY <1>2, <1>3, ApplyTransition
<1>5. r.m.maxTs = m.maxTs
  BY <1>2, <1>3, ApplyMaxTs
<1>6. m' = r.m /\ batch' = [batch EXCEPT !.todo = @ \ {i}, !.writes = @ \cup r.writes, !.done = @ \cup r.done]
  BY <1>1
<1> HIDE DEF r, c
<1>7. ApplyStep(c, s, p, r.done)
  BY <1>2, <1>4, <1>5, <1>6 DEF ApplyStep
<1>8. /\ batch'.done = batch.done \cup r.done
      /\ batch'.cmds = batch.cmds /\ batch'.todo \subseteq batch.todo
      /\ batch'.maxTs = batch.maxTs /\ BatchShape(batch)'
  <2>1. batch = [cmds |-> batch.cmds, todo |-> batch.todo, writes |-> batch.writes, done |-> batch.done,
                 maxTs |-> batch.maxTs, bumps |-> batch.bumps, active |-> batch.active]
    BY DEF Typed, BatchShape
  <2>2. batch' = [cmds |-> batch.cmds, todo |-> batch.todo \ {i}, writes |-> batch.writes \cup r.writes,
                  done |-> batch.done \cup r.done, maxTs |-> batch.maxTs, bumps |-> batch.bumps,
                  active |-> batch.active]
    BY <1>6, <2>1
  <2> QED BY <2>2 DEF BatchShape
<1> QED BY <1>7, <1>8

(* Applying a command keeps the invariant. *)
LEMMA ApplyCommandInv ==
    ASSUME Inv, ApplyCommand
    PROVE  Inv'
<1>1. PICK c, s, p, done :
        /\ ApplyStep(c, s, p, done)
        /\ batch'.done = batch.done \cup done
        /\ batch'.cmds = batch.cmds /\ batch'.todo \subseteq batch.todo
        /\ batch'.maxTs = batch.maxTs /\ BatchShape(batch)'
  BY ApplyCommandStep DEF Inv
<1>2. /\ c.id \in Ids /\ c.ts \in Times /\ c.cts \in Times /\ c.txn = Body[c.id]
  BY <1>1 DEF ApplyStep, Commands
<1>3. /\ Shape(m', Ids) /\ m'.status[c.id] = s /\ m'.prepared[c.id] = p
      /\ \A i \in Ids \ {c.id} : m'.status[i] = m.status[i] /\ m'.prepared[i] = m.prepared[i]
  BY <1>1 DEF ApplyStep, Touched
<1>4. Transition(m, c, m.status[c.id], m.prepared[c.id], s, p, done)
  BY <1>1 DEF ApplyStep
<1>5. Typed'
  <2>1. \A id \in Ids : /\ m'.status[id].ts \in Times
                        /\ m'.prepared[id].present \in BOOLEAN
                        /\ m'.prepared[id].locks \subseteq BuildLocks(Body[id])
    <3>1. /\ s.ts \in {m.status[c.id].ts, c.ts, c.cts}
          /\ p.locks \in {m.prepared[c.id].locks, {}, BuildLocks(c.txn)}
          /\ p.present \in {m.prepared[c.id].present, TRUE}
      BY <1>1 DEF ApplyStep, Sources
    <3>2. \A id \in Ids : /\ m.status[id].ts \in Times
                          /\ m.prepared[id].present \in BOOLEAN
                          /\ m.prepared[id].locks \subseteq BuildLocks(Body[id])
      BY DEF Inv, Typed
    <3>3. s.ts \in Times /\ p.locks \subseteq BuildLocks(Body[c.id])
      BY <1>2, <3>1, <3>2
    <3>4. p.present \in BOOLEAN
      BY <1>2, <3>1, <3>2
    <3> QED BY <1>3, <3>2, <3>3, <3>4
  <2>2. m'.maxTs = m.maxTs
    BY <1>1 DEF ApplyStep
  <2>3. UNCHANGED <<clock, log, rd>>
    BY DEF ApplyCommand
  <2> QED BY <1>1, <1>3, <2>1, <2>2, <2>3 DEF Inv, Typed
<1>6. LockExclusion'
  <2>1. \A b \in Ids \ {c.id} : ~p.released /\ ~m.prepared[b].released
                                 => AllCompatible(p.locks, m.prepared[b].locks)
    <3> SUFFICES ASSUME NEW b \in Ids \ {c.id}, ~p.released, ~m.prepared[b].released
                 PROVE  AllCompatible(p.locks, m.prepared[b].locks)
      OBVIOUS
    <3>1. CASE p.locks = m.prepared[c.id].locks /\ p.released = m.prepared[c.id].released
      BY <1>2, <3>1 DEF Inv, LockExclusion
    <3>2. CASE p.locks = BuildLocks(c.txn) /\ checkLocks(m, c.txn)
      <4>1. DOMAIN m.prepared = Ids
        BY DEF Inv, Typed, Shape
      <4>2. m.prepared[b].locks \subseteq Held(m)
        BY <4>1 DEF Held
      <4> QED BY <3>2, <4>2 DEF checkLocks, AllCompatible
    <3> QED BY <1>4, <3>1, <3>2 DEF Transition
  <2>2. ASSUME NEW a \in Ids, NEW b \in Ids, a # b, ~m'.prepared[a].released, ~m'.prepared[b].released
        PROVE  AllCompatible(m'.prepared[a].locks, m'.prepared[b].locks)
    <3>1. CASE a = c.id
      BY <1>3, <2>1, <2>2, <3>1
    <3>2. CASE b = c.id
      BY <1>3, <2>1, <2>2, <3>2, CompatibleSymmetric
    <3>3. CASE a # c.id /\ b # c.id
      BY <1>3, <2>2, <3>3 DEF Inv, LockExclusion
    <3> QED BY <3>1, <3>2, <3>3
  <2> QED BY <2>2 DEF LockExclusion
<1>7. LocksReleasable'
  <2>1. \A id \in Ids : ~m.prepared[id].released =>
            \/ m.status[id].state \in {"Prepared", "Decided", "Timedout"}
            \/ m.status[id].state = "Committed" /\ id \in batch.done
    BY DEF Inv, LocksReleasable
  <2>2. ~p.released => \/ s.state \in {"Prepared", "Decided", "Timedout"}
                       \/ s.state = "Committed" /\ c.id \in batch.done \cup done
    BY <1>2, <1>4, <2>1 DEF Transition
  <2> QED BY <1>1, <1>3, <2>1, <2>2 DEF LocksReleasable
<1> QED BY <1>5, <1>6, <1>7 DEF Inv

(* Taking a batch off the log keeps the invariant. *)
LEMMA BeginApplyInv ==
    ASSUME Inv, BeginApply
    PROVE  Inv'
<1>1. /\ batch = NoBatch /\ log # <<>> /\ batch' = Head(log) /\ log' = Tail(log)
      /\ UNCHANGED <<m, clock, rd>>
  BY DEF BeginApply
<1>2. log \in Seq(QueuedBatches)
  BY DEF Inv, Typed
<1>3. batch' \in QueuedBatches /\ log' \in Seq(QueuedBatches)
  BY <1>1, <1>2, SMTT(60)
<1>4. /\ batch'.cmds \in Seq(Commands) /\ batch'.todo \subseteq DOMAIN batch'.cmds
      /\ batch'.maxTs \in Times /\ BatchShape(batch)'
  BY <1>3 DEF QueuedBatches, BatchShape
<1>5. Typed'
  BY <1>1, <1>3, <1>4 DEF Inv, Typed
<1>6. batch.done = {}
  BY <1>1 DEF NoBatch
<1>7. LocksReleasable'
  BY <1>1, <1>6 DEF Inv, LocksReleasable
<1>8. LockExclusion'
  BY <1>1 DEF Inv, LockExclusion
<1> QED BY <1>5, <1>7, <1>8 DEF Inv

(* What EndApply does to each transaction: nothing, release its locks, or   *)
(* forget it once it is final.                                              *)
EndStep(i) ==
    \/ /\ m'.status[i] = m.status[i]
       /\ m'.prepared[i] = IF i \in batch.done THEN Released(m.prepared[i]) ELSE m.prepared[i]
    \/ /\ IsFinal(m.status[i].state)
       /\ m'.status[i] = NoStatus /\ m'.prepared[i] = NoPrepared

(* What the end of a batch does to each transaction. *)
LEMMA EndApplyStep ==
    ASSUME Typed, EndApply
    PROVE  /\ Shape(m', Ids) /\ m'.maxTs = batch.maxTs
           /\ \A i \in Ids : EndStep(i)
<1> DEFINE n == FinishBatch(m, batch.writes, batch.done, batch.maxTs)
<1>1. Shape(m, Ids)
  BY DEF Typed
<1>2. /\ Shape(n, Ids) /\ n.status = m.status /\ n.maxTs = batch.maxTs
      /\ \A i \in Ids : /\ i \in batch.done => n.prepared[i] = Released(m.prepared[i])
                        /\ i \notin batch.done => n.prepared[i] = m.prepared[i]
  <2>1. Finished(m, n, Ids, batch.done, batch.maxTs)
    BY <1>1, FinishBatchKeeps
  <2> HIDE DEF n
  <2> QED BY <2>1 DEF Finished
<1>3. m' = cleanup(n, oldest)
  BY DEF EndApply
<1> HIDE DEF n
<1>4. /\ Shape(m', Ids) /\ m'.maxTs = n.maxTs
      /\ \A i \in Ids : \/ m'.status[i] = n.status[i] /\ m'.prepared[i] = n.prepared[i]
                        \/ /\ IsFinal(n.status[i].state)
                           /\ m'.status[i] = NoStatus /\ m'.prepared[i] = NoPrepared
  BY <1>2, <1>3, CleanupKeeps, SMTT(60)
<1>5. \A i \in Ids : EndStep(i)
  BY <1>2, <1>4 DEF EndStep
<1> QED BY <1>2, <1>4, <1>5

(* The end of a batch, with its clean-up, keeps the invariant. *)
LEMMA EndApplyInv ==
    ASSUME Inv, EndApply
    PROVE  Inv'
<1>1. /\ Shape(m', Ids) /\ m'.maxTs = batch.maxTs
      /\ \A i \in Ids : EndStep(i)
  BY EndApplyStep DEF Inv
<1>2. \A i \in Ids : IsPrepared(m.prepared[i])
  BY ShapeOfPrepared DEF Inv, Typed
<1>3. \A i \in Ids : /\ Released(m.prepared[i]).released = TRUE
                     /\ Released(m.prepared[i]).locks = {}
                     /\ Released(m.prepared[i]).present = m.prepared[i].present
  BY <1>2, ReleasedFields
<1>4. /\ NoPrepared.released = TRUE /\ NoPrepared.locks = {} /\ NoPrepared.present \in BOOLEAN
      /\ NoStatus.ts = 0 /\ NoStatus.state = "none"
  BY DEF NoPrepared, NoStatus, Status
<1>5. Typed'
  <2>1. \A id \in Ids : /\ m.status[id].ts \in Times
                        /\ m.prepared[id].present \in BOOLEAN
                        /\ m.prepared[id].locks \subseteq BuildLocks(Body[id])
    BY DEF Inv, Typed
  <2>2. 0 \in Times
    BY PartitionAssumption, SMTT(60) DEF Times
  <2>3. ASSUME NEW id \in Ids
        PROVE  /\ m'.status[id].ts \in Times
               /\ m'.prepared[id].present \in BOOLEAN
               /\ m'.prepared[id].locks \subseteq BuildLocks(Body[id])
    BY <1>1, <1>3, <1>4, <2>1, <2>2 DEF EndStep
  <2>4. UNCHANGED <<clock, log>> /\ batch' = NoBatch
    BY DEF EndApply
  <2>5. ReadShape(rd)' /\ rd'.ts \in Times
    BY DEF EndApply, Inv, Typed, ReadShape
  <2>6. /\ NoBatch.cmds \in Seq(Commands) /\ NoBatch.todo \subseteq DOMAIN NoBatch.cmds
        /\ NoBatch.maxTs \in Times /\ BatchShape(NoBatch)
    BY <2>2, SMTT(60) DEF NoBatch, BatchShape
  <2>7. batch.maxTs \in Times
    BY DEF Inv, Typed
  <2> QED BY <1>1, <2>3, <2>4, <2>5, <2>6, <2>7 DEF Inv, Typed
<1>6. \A i \in Ids : ~m'.prepared[i].released =>
          /\ m'.prepared[i] = m.prepared[i] /\ m'.status[i] = m.status[i] /\ i \notin batch.done
  BY <1>1, <1>3, <1>4 DEF EndStep
<1>7. LockExclusion'
  BY <1>6 DEF Inv, LockExclusion
<1>8. LocksReleasable'
  BY <1>6 DEF Inv, LocksReleasable
<1> QED BY <1>5, <1>7, <1>8 DEF Inv

(* The steps that leave the manager and the batch alone. *)
LEMMA OtherStepsInv ==
    ASSUME Inv, UNCHANGED <<m, batch>>, Typed'
    PROVE  Inv'
BY DEF Inv, LockExclusion, LocksReleasable

(* Every step keeps the invariant. *)
LEMMA NextInv ==
    ASSUME Inv, [Next]_vars
    PROVE  Inv'
<1>1. CASE \E n \in 0 .. MaxBatchSize : \E cs \in [1 .. n -> Requests], bump \in BOOLEAN : Flush(cs, bump)
  <2>1. PICK n \in 0 .. MaxBatchSize : \E cs \in [1 .. n -> Requests], bump \in BOOLEAN : Flush(cs, bump)
    BY <1>1
  <2>2. PICK cs \in [1 .. n -> Requests], bump \in BOOLEAN : Flush(cs, bump)
    BY <2>1
  <2>3. Typed'
    BY <2>2, FlushTyped, SMTT(60) DEF Inv
  <2>4. UNCHANGED <<m, batch>>
    BY <2>2 DEF Flush
  <2> QED BY <2>3, <2>4, OtherStepsInv
<1>2. CASE BeginApply
  BY <1>2, BeginApplyInv
<1>3. CASE ApplyCommand
  BY <1>3, ApplyCommandInv
<1>4. CASE EndApply
  BY <1>4, EndApplyInv
<1>5. CASE Age
  <2>1. UNCHANGED <<m, clock, log, batch, rd>>
    BY <1>5 DEF Age
  <2> QED BY <2>1, OtherStepsInv DEF Inv, Typed
<1>6. CASE \E txn \in Queries : ReadOnly(txn)
  <2>1. UNCHANGED <<m, clock, log, batch, rd>>
    BY <1>6 DEF ReadOnly
  <2> QED BY <2>1, OtherStepsInv DEF Inv, Typed
<1>7. CASE \E txn \in Queries, ts \in Stamps : SnapshotRead(txn, ts)
  <2>1. PICK txn \in Queries, ts \in Stamps : SnapshotRead(txn, ts)
    BY <1>7
  <2>2. UNCHANGED <<m, log, batch>>
    BY <2>1 DEF SnapshotRead
  <2>3. ts \in Times /\ clock \in Times /\ MaxClock \in Nat
    BY PartitionAssumption, SMTT(60) DEF Stamps, Times, Inv, Typed
  <2>4. clock' \in Times
    <3> DEFINE C == {clock, ts}
    <3>1. C \subseteq 0 .. MaxClock /\ C # {} /\ clock' = Maximum(C)
      BY <2>1, <2>3 DEF SnapshotRead, Times
    <3> HIDE DEF C
    <3> QED BY <2>3, <3>1, MaximumInSet DEF Times
  <2>5. ReadShape(rd)' /\ rd'.ts \in Times
    BY <2>1, <2>3, SMTT(60) DEF SnapshotRead, ReadShape, Inv, Typed
  <2> QED BY <2>2, <2>4, <2>5, OtherStepsInv DEF Inv, Typed
<1>8. CASE Recheck
  <2>1. UNCHANGED <<m, clock, log, batch>> /\ rd' = NoRead
    BY <1>8 DEF Recheck
  <2>2. ReadShape(rd)' /\ rd'.ts \in Times
    BY <2>1, PartitionAssumption, SMTT(60) DEF NoRead, ReadShape, Times
  <2> QED BY <2>1, <2>2, OtherStepsInv DEF Inv, Typed
<1>9. CASE ChangeLeader
  <2>1. UNCHANGED <<m, batch>> /\ rd' = NoRead /\ clock' \in m.maxTs .. MaxClock
    BY <1>9 DEF ChangeLeader
  <2>2. ReadShape(rd)' /\ rd'.ts \in Times
    BY <2>1, PartitionAssumption, SMTT(60) DEF NoRead, ReadShape, Times
  <2>3. clock' \in Times
    BY <2>1, PartitionAssumption, SMTT(60) DEF Times, Inv, Typed
  <2>4. log' \in Seq(QueuedBatches)
    <3>1. log \in Seq(QueuedBatches)
      BY DEF Inv, Typed
    <3>2. PICK n \in 0 .. Len(log) : log' = SubSeq(log, 1, n)
      BY <1>9 DEF ChangeLeader
    <3> QED BY <3>1, <3>2, SMTT(60)
  <2> QED BY <2>1, <2>2, <2>3, <2>4, OtherStepsInv DEF Inv, Typed
<1>10. CASE UNCHANGED vars
  BY <1>10, OtherStepsInv DEF vars, Inv, Typed
<1> QED BY <1>1, <1>2, <1>3, <1>4, <1>5, <1>6, <1>7, <1>8, <1>9, <1>10 DEF Next

(* Every reachable state satisfies the invariant. *)
THEOREM Invariance == Spec => []Inv
<1>1. Inv /\ [Next]_vars => Inv'
  BY NextInv
<1> QED BY <1>1, InitInv, PTL DEF Spec

(* The manager, the clock and the locks stay within their types: every      *)
(* timestamp that prepareBatch gives out and every lock that applyPrepare   *)
(* takes is one the requests account for.                                   *)
THEOREM TypeCorrect == Spec => []TypeOK
<1>1. Inv => TypeOK
  BY DEF Inv, Typed, TypeOK, Shape, Times
<1> QED BY <1>1, Invariance, PTL

(* Two-phase locking, for any transactions and batches: transactions that   *)
(* hold locks at the same time do not conflict (checkLocks, releaseLocks).  *)
THEOREM LocksExclude == Spec => []LockExclusion
<1>1. Inv => LockExclusion
  BY DEF Inv
<1> QED BY <1>1, Invariance, PTL

(* No lock is orphaned: whoever holds locks can still be made to release    *)
(* them, at the latest when the batch that commits it ends.                 *)
THEOREM LocksCanBeReleased == Spec => []LocksReleasable
<1>1. Inv => LocksReleasable
  BY DEF Inv
<1> QED BY <1>1, Invariance, PTL

(* A stored commit decision is never revoked, and neither is a commit, by   *)
(* any command, by the clean-up or by a change of leader.                   *)
THEOREM DecisionsBind == Spec => DecisionBinding
<1> DEFINE Binding(id) ==
        /\ m.status[id].state = "Decided" =>
              \/ m'.status[id] = m.status[id] /\ m'.prepared[id].decision = m.prepared[id].decision
              \/ m'.status[id].state = "Committed" /\ m'.status[id].ts = m.prepared[id].decision
        /\ m.status[id].state = "Committed" => m'.status[id] \in {m.status[id], NoStatus}
<1>1. ASSUME Inv, [Next]_vars, NEW id \in Ids PROVE Binding(id)
  <2>1. CASE ApplyCommand
    <3>1. PICK c, s, p, done : ApplyStep(c, s, p, done)
      BY <1>1, <2>1, ApplyCommandStep DEF Inv
    <3>2. /\ c.id \in Ids /\ m'.status[c.id] = s /\ m'.prepared[c.id] = p
          /\ \A i \in Ids \ {c.id} : m'.status[i] = m.status[i] /\ m'.prepared[i] = m.prepared[i]
          /\ Transition(m, c, m.status[c.id], m.prepared[c.id], s, p, done)
      BY <3>1 DEF ApplyStep, Touched, Commands
    <3>3. CASE id = c.id
      BY <3>2, <3>3 DEF Transition
    <3>4. CASE id # c.id
      BY <3>2, <3>4
    <3> QED BY <3>3, <3>4
  <2>2. CASE EndApply
    <3>1. EndStep(id)
      BY <1>1, <2>2, EndApplyStep DEF Inv
    <3>2. Released(m.prepared[id]).decision = m.prepared[id].decision
      <4>1. IsPrepared(m.prepared[id])
        BY <1>1, ShapeOfPrepared DEF Inv, Typed
      <4> QED BY <4>1, ReleasedFields
    <3> QED BY <3>1, <3>2 DEF EndStep, IsFinal, FinalStates
  <2>3. CASE UNCHANGED m
    BY <2>3
  <2>4. ApplyCommand \/ EndApply \/ UNCHANGED m
    BY <1>1 DEF Next, vars, Flush, BeginApply, Age, ReadOnly, SnapshotRead, Recheck, ChangeLeader
  <2> QED BY <2>1, <2>2, <2>3, <2>4
<1>2. Inv /\ [Next]_vars => [\A id \in Ids : Binding(id)]_vars
  BY <1>1
<1> QED BY <1>2, Invariance, PTL DEF Spec, DecisionBinding

-----------------------------------------------------------------------------
(* Snapshots *)

(* What a snapshot leaves out can be told from the rest. *)
Rebuildable ==
    \A id \in Ids : /\ m.prepared[id].released => m.prepared[id].locks = {}
                    /\ ~m.prepared[id].released => m.prepared[id].locks = BuildLocks(m.prepared[id].txn)

(* A step of ApplyBatch, with what it stores. *)
CommandStep(c, s, p, writes, done) ==
    /\ c \in Commands /\ c \in CommandsOf(batch.cmds)
    /\ Touched(m, m', Ids, c.id, s, p) /\ Effect(m, c, s, p, writes, done)
    /\ m'.maxTs = m.maxTs /\ m'.db = m.db
    /\ batch'.cmds = batch.cmds /\ batch'.maxTs = batch.maxTs /\ batch'.active = batch.active
    /\ batch'.writes = batch.writes \cup writes /\ batch'.done = batch.done \cup done

(* What is new to the manager was checked against the locks that are held   *)
(* and validated.                                                           *)
LEMMA NewAdmitted ==
    ASSUME NEW n, NEW I, NEW c, c.id \in I, Shape(n, I), NEW pid, c.op \in {"Autocommit", "Prepare"},
           Apply(n, pid, c).m # n
    PROVE  checkLocks(n, c.txn) /\ validate(n, c.ts, c.txn)
<1>1. Admission(n, c) = "admit"
  <2> SUFFICES ASSUME Admission(n, c) # "admit" PROVE Apply(n, pid, c).m = n
    OBVIOUS
  <2>1. applyAutocommit(n, c).m = n
    BY DEF applyAutocommit, Return, Applied, Error
  <2>2. applyPrepare(n, c).m = n
    BY DEF applyPrepare, Return, Applied, Error
  <2> QED BY <2>1, <2>2 DEF Apply
<1>2. n.status[c.id].state \in States
  BY DEF Shape
<1> QED BY <1>1, <1>2 DEF Admission, States, FinalStates

(* A step of ApplyBatch is one of the moves of Effect, for a command that   *)
(* was still to be applied.                                                 *)
TodoStep(i, s, p, writes, done) ==
    LET c == batch.cmds[i] IN
    /\ i \in batch.todo /\ batch'.todo = batch.todo \ {i}
    /\ CommandStep(c, s, p, writes, done)
    /\ c.op \in {"Autocommit", "Prepare"} /\ s # m.status[c.id] =>
          checkLocks(m, c.txn) /\ validate(m, c.ts, c.txn)

(* An element of a sequence over S is of S. *)
LEMMA ElementOf ==
    ASSUME NEW S, NEW q \in Seq(S), NEW i \in DOMAIN q
    PROVE  q[i] \in S
BY SMTT(60)

(* What the next command of a batch does to the manager and the batch. *)
LEMMA TodoEffect ==
    ASSUME Typed, ApplyCommand
    PROVE  \E i, s, p, writes, done : TodoStep(i, s, p, writes, done)
<1>1. PICK i \in batch.todo :
        LET r == Apply(m, Pid, batch.cmds[i]) IN
        /\ m' = r.m
        /\ batch' = [batch EXCEPT !.todo = @ \ {i}, !.writes = @ \cup r.writes, !.done = @ \cup r.done]
  BY DEF ApplyCommand
<1> DEFINE c == batch.cmds[i]
           r == Apply(m, Pid, c)
<1>2. c \in Commands /\ c.id \in Ids /\ c.op \in CommandOps /\ c \in CommandsOf(batch.cmds)
  <2>1. batch.cmds \in Seq(Commands) /\ i \in DOMAIN batch.cmds
    BY DEF Typed
  <2>2. c \in Commands
    BY <2>1, ElementOf
  <2>3. c.id \in Ids /\ c.op \in CommandOps
    BY <2>2 DEF Commands
  <2> QED BY <2>1, <2>2, <2>3 DEF CommandsOf
<1>3. Shape(m, Ids)
  BY DEF Typed
<1>4. PICK s, p : /\ Touched(m, r.m, Ids, c.id, s, p) /\ Effect(m, c, s, p, r.writes, r.done)
                  /\ r.m.maxTs = m.maxTs /\ r.m.db = m.db
  <2> HIDE DEF c
  <2> QED BY <1>2, <1>3, ApplyEffects
<1>5. m' = r.m /\ batch' = [batch EXCEPT !.todo = @ \ {i}, !.writes = @ \cup r.writes, !.done = @ \cup r.done]
  BY <1>1
<1> HIDE DEF r, c
<1>6. /\ batch'.cmds = batch.cmds /\ batch'.maxTs = batch.maxTs /\ batch'.active = batch.active
      /\ batch'.writes = batch.writes \cup r.writes /\ batch'.done = batch.done \cup r.done
      /\ batch'.todo = batch.todo \ {i}
  <2>1. batch = [cmds |-> batch.cmds, todo |-> batch.todo, writes |-> batch.writes, done |-> batch.done,
                 maxTs |-> batch.maxTs, bumps |-> batch.bumps, active |-> batch.active]
    BY DEF Typed, BatchShape
  <2>2. batch' = [cmds |-> batch.cmds, todo |-> batch.todo \ {i}, writes |-> batch.writes \cup r.writes,
                  done |-> batch.done \cup r.done, maxTs |-> batch.maxTs, bumps |-> batch.bumps,
                  active |-> batch.active]
    BY <1>5, <2>1
  <2> QED BY <2>2
<1>7. CommandStep(c, s, p, r.writes, r.done)
  BY <1>2, <1>4, <1>5, <1>6 DEF CommandStep
<1>8. c.op \in {"Autocommit", "Prepare"} /\ s # m.status[c.id] =>
          checkLocks(m, c.txn) /\ validate(m, c.ts, c.txn)
  <2>1. s # m.status[c.id] => r.m # m
    BY <1>4 DEF Touched
  <2>2. c.op \in {"Autocommit", "Prepare"} /\ r.m # m => checkLocks(m, c.txn) /\ validate(m, c.ts, c.txn)
    BY <1>2, <1>3, NewAdmitted, SMTT(60) DEF r
  <2> QED BY <2>1, <2>2
<1>9. TodoStep(i, s, p, r.writes, r.done)
  BY <1>6, <1>7, <1>8 DEF TodoStep, c
<1> QED BY <1>9

(* A step of ApplyBatch is one of the moves of Effect. *)
LEMMA ApplyCommandEffect ==
    ASSUME Typed, ApplyCommand
    PROVE  \E c, s, p, writes, done : CommandStep(c, s, p, writes, done)
<1>1. PICK i, s, p, writes, done : TodoStep(i, s, p, writes, done)
  BY TodoEffect
<1> QED BY <1>1 DEF TodoStep

(* The fields that the end of a prepared entry's life leaves alone. *)
LEMMA EntryFields ==
    ASSUME NEW p, IsPrepared(p), NEW d
    PROVE  /\ Released(p).released = TRUE /\ Released(p).locks = {} /\ Released(p).txn = p.txn
           /\ Released(p).ts = p.ts /\ Released(p).present = p.present
           /\ LET q == [p EXCEPT !.decision = d]
              IN  /\ q.released = p.released /\ q.locks = p.locks /\ q.txn = p.txn
                  /\ q.ts = p.ts /\ q.present = p.present
<1> DEFINE q == [p EXCEPT !.decision = d]
           l == [p EXCEPT !.locks = {}]
<1>1. p = [present |-> p.present, txn |-> p.txn, pids |-> p.pids, ts |-> p.ts,
           locks |-> p.locks, released |-> p.released, decision |-> p.decision]
  BY DEF IsPrepared
<1>2. q.txn = p.txn
  BY <1>1
<1>3. Released(p).txn = p.txn
  <2>1. l = [present |-> p.present, txn |-> p.txn, pids |-> p.pids, ts |-> p.ts,
             locks |-> {}, released |-> p.released, decision |-> p.decision]
    BY <1>1, SMTT(60)
  <2>2. l.txn = p.txn
    BY <2>1
  <2> HIDE DEF l
  <2>3. \A v : [l EXCEPT !.released = v].txn = p.txn
    BY <2>1
  <2> QED BY <2>3 DEF Released, l
<1> QED BY <1>2, <1>3, ReleasedFields, DecidedFields

(* A transaction's locks are those of its body until they are released. *)
LEMMA RebuildableNext ==
    ASSUME Inv, Rebuildable, [Next]_vars
    PROVE  Rebuildable'
<1>1. \A id \in Ids : IsPrepared(m.prepared[id])
  BY ShapeOfPrepared DEF Inv, Typed
<1>2. CASE ApplyCommand
  <2>1. PICK c, s, p, writes, done : CommandStep(c, s, p, writes, done)
    BY <1>2, ApplyCommandEffect DEF Inv
  <2>2. /\ c.id \in Ids /\ m'.prepared[c.id] = p /\ Effect(m, c, s, p, writes, done)
        /\ \A i \in Ids \ {c.id} : m'.prepared[i] = m.prepared[i]
    BY <2>1 DEF CommandStep, Touched, Commands
  <2> DEFINE was == m.prepared[c.id]
             q == [was EXCEPT !.decision = c.cts]
             n == NewPrepared(c)
  <2>3. /\ Released(was).released = TRUE /\ Released(was).locks = {}
        /\ q.released = was.released /\ q.locks = was.locks /\ q.txn = was.txn
    BY <1>1, <2>2, EntryFields
  <2>4. n.released = FALSE /\ n.locks = BuildLocks(n.txn)
    BY DEF NewPrepared
  <2>5. p \in {was, Released(was), q, n}
    BY <2>2 DEF Effect
  <2>6. was.released => was.locks = {}
    BY <2>2 DEF Rebuildable
  <2>7. ~was.released => was.locks = BuildLocks(was.txn)
    BY <2>2 DEF Rebuildable
  <2> HIDE DEF was, q, n
  <2>8. /\ p.released => p.locks = {}
        /\ ~p.released => p.locks = BuildLocks(p.txn)
    BY <2>3, <2>4, <2>5, <2>6, <2>7
  <2> QED BY <2>2, <2>8 DEF Rebuildable
<1>3. CASE EndApply
  <2>1. \A i \in Ids : EndStep(i)
    BY <1>3, EndApplyStep DEF Inv
  <2>2. NoPrepared.released = TRUE /\ NoPrepared.locks = {}
    BY DEF NoPrepared
  <2>3. \A i \in Ids : Released(m.prepared[i]).released = TRUE /\ Released(m.prepared[i]).locks = {}
    BY <1>1, ReleasedFields
  <2>4. \A i \in Ids : m'.prepared[i] \in {m.prepared[i], Released(m.prepared[i]), NoPrepared}
    BY <2>1 DEF EndStep
  <2> QED BY <2>2, <2>3, <2>4 DEF Rebuildable
<1>4. CASE UNCHANGED m
  BY <1>4 DEF Rebuildable
<1>5. ApplyCommand \/ EndApply \/ UNCHANGED m
  BY DEF Next, vars, Flush, BeginApply, Age, ReadOnly, SnapshotRead, Recheck, ChangeLeader
<1> QED BY <1>2, <1>3, <1>4, <1>5

(* Locks are in step with the transactions that hold them at all times. *)
LEMMA RebuildableInvariant == Spec => []Rebuildable
<1>1. Init => Rebuildable
  <2> SUFFICES ASSUME Init PROVE Rebuildable
    OBVIOUS
  <2>1. m = [status |-> [id \in Ids |-> NoStatus], prepared |-> [id \in Ids |-> NoPrepared],
             maxTs |-> 1, db |-> {}]
    BY DEF Init, NewManager
  <2>2. \A id \in Ids : m.prepared[id].released = TRUE /\ m.prepared[id].locks = {}
    BY <2>1 DEF NoPrepared
  <2> QED BY <2>2 DEF Rebuildable
<1>2. Inv /\ Rebuildable /\ [Next]_vars => Rebuildable'
  BY RebuildableNext
<1> QED BY <1>1, <1>2, Invariance, PTL DEF Spec

(* A replica restored from a snapshot holds the locks that the one that     *)
(* took it held, no more and no fewer (Manager.Snapshot, Manager.Restore).  *)
THEOREM SnapshotsRestore == Spec => []SnapshotComplete
<1>1. Inv /\ Rebuildable => SnapshotComplete
  <2> SUFFICES ASSUME Inv, Rebuildable PROVE Restore(Snapshot(m), m.db) = m
    BY DEF SnapshotComplete
  <2>1. Shape(m, Ids)
    BY DEF Inv, Typed
  <2>2. \A i \in Ids : /\ m.prepared[i].released => m.prepared[i].locks = {}
                       /\ ~m.prepared[i].released => m.prepared[i].locks = BuildLocks(m.prepared[i].txn)
    BY DEF Rebuildable
  <2> QED BY <2>1, <2>2, RestoreSnapshot
<1> QED BY <1>1, Invariance, RebuildableInvariant, PTL

-----------------------------------------------------------------------------
(* Reads *)

(* One leader, which gets decisions from coordinators only, and nothing is  *)
(* forgotten while commands are under way.  A new leader's clock need not   *)
(* be beyond the reads its predecessor served, so that they are not stable  *)
(* across a change of leader.                                               *)
OneLeader == MaxLeaders = 0 /\ ~Stray /\ ~Retention

(* An action of q reads key. *)
Reads(q, key) == \E a \in q : key \in a.first .. a.last - 1

(* The timestamps of the reads, the leader and the prepared transactions. *)
TimesOK ==
    /\ leaders = 0 /\ oldest = 0
    /\ served \in [Queries -> Times]
    /\ \A id \in Ids : m.prepared[id].ts \in Times
    /\ \A id \in Ids : m.status[id].state # "none" => m.status[id].ts > 0

(* The clock is ahead of all that was read, applied or flushed. *)
ClockAhead ==
    /\ m.maxTs <= clock /\ batch.maxTs <= clock /\ rd.ts <= clock
    /\ \A q \in Queries : served[q] <= clock
    /\ \A i \in DOMAIN log : log[i].maxTs <= clock

(* What is on its way will be stamped, or committed, after all reads. *)
Ahead(c) ==
    /\ c.op # "Commit" => c.ts > 0 /\ \A q \in Queries : c.ts > served[q]
    /\ c.op = "Commit" => /\ c.cts > 0 /\ m.prepared[c.id].present
                          /\ c.cts >= m.prepared[c.id].ts

CommandsAhead == \A c \in Pending : Ahead(c)

(* Batches are stamped in the order of the log. *)
StampedAfter(b, t) == \A c \in CommandsOf(b.cmds) : c.op # "Commit" => c.ts > t

LogOrdered ==
    \A j \in DOMAIN log :
        /\ StampedAfter(log[j], m.maxTs) /\ StampedAfter(log[j], batch.maxTs)
        /\ \A i \in 1 .. j - 1 : StampedAfter(log[j], log[i].maxTs)

(* What is prepared has not been read past. *)
PreparedAhead ==
    \A id \in Ids :
        /\ id \in batch.done => m.status[id].state = "Committed"
        /\ m.prepared[id].present => m.status[id].state # "none" /\ m.prepared[id].txn = Body[id]
        /\ m.status[id].state \in {"Prepared", "Decided"} =>
              /\ ~m.prepared[id].released
              /\ \A q \in Queries : \/ AllCompatible(BuildLocks(q), m.prepared[id].locks)
                                    \/ m.prepared[id].ts > served[q]

(* What a batch is about to store has not been read past. *)
WritesAhead ==
    /\ ~batch.active => batch.writes = {} /\ batch.cmds = <<>>
    /\ \A w \in batch.writes : \A q \in Queries : Reads(q, w.key) => w.ts > served[q]

StableInv == TimesOK /\ ClockAhead /\ CommandsAhead /\ LogOrdered /\ PreparedAhead /\ WritesAhead

(* Maximum of two numbers. *)
LEMMA MaximumOfTwo ==
    ASSUME NEW a \in Int, NEW b \in Int
    PROVE  /\ Maximum({a, b}) \in {a, b} /\ a <= Maximum({a, b}) /\ b <= Maximum({a, b})
<1>1. \E x \in {a, b} : \A y \in {a, b} : y <= x
  BY SMTT(60)
<1>2. Maximum({a, b}) \in {a, b} /\ \A y \in {a, b} : y <= Maximum({a, b})
  BY <1>1 DEF Maximum
<1> QED BY <1>2

(* A bound that exists can be chosen. *)
LEMMA ChooseBound ==
    ASSUME NEW T, NEW max, NEW C, NEW f, NEW t \in T, t <= max, \A id \in C : t < f[id].ts
    PROVE  LET x == CHOOSE u \in T : u <= max /\ \A id \in C : u < f[id].ts
           IN  x \in T /\ x <= max /\ \A id \in C : x < f[id].ts
OBVIOUS

(* The safe timestamp is below every conflicting transaction and not beyond *)
(* what was applied.                                                        *)
LEMMA SafeTimestampBounds ==
    ASSUME Typed, TimesOK, NEW q
    PROVE  /\ SafeTimestamp(m, q) \in Int /\ SafeTimestamp(m, q) <= m.maxTs
           /\ \A id \in Conflicting(m, q) : SafeTimestamp(m, q) < m.prepared[id].ts
<1> DEFINE C == Conflicting(m, q)
           T == {m.maxTs} \cup {m.prepared[id].ts - 1 : id \in C}
           R == {MaxClock - t : t \in T}
           Safe(t) == t <= m.maxTs /\ \A id \in C : t < m.prepared[id].ts
<1>1. C \subseteq Ids
  BY DEF Conflicting, Typed, Shape
<1>2. MaxClock \in Nat /\ m.maxTs \in Times /\ \A id \in C : m.prepared[id].ts \in Times
  BY <1>1, PartitionAssumption DEF Typed, TimesOK
<1> HIDE DEF C
<1>3. T \subseteq -1 .. MaxClock /\ T # {}
  BY <1>2, SMTT(60) DEF Times
<1>4. R \subseteq 0 .. MaxClock + 1 /\ R # {}
  <2>1. \A t \in -1 .. MaxClock : MaxClock - t \in 0 .. MaxClock + 1
    BY <1>2, SMTT(60)
  <2>2. m.maxTs \in T
    OBVIOUS
  <2> HIDE DEF T
  <2>3. \A r \in R : \E t \in T : r = MaxClock - t
    OBVIOUS
  <2>4. MaxClock - m.maxTs \in R
    BY <2>2
  <2> HIDE DEF R
  <2> QED BY <1>3, <2>1, <2>3, <2>4
<1>5. Maximum(R) \in R /\ \A y \in R : y <= Maximum(R)
  <2> HIDE DEF R
  <2>1. MaxClock + 1 \in Nat
    BY <1>2, SMTT(60)
  <2> QED BY <1>4, <2>1, MaximumInSet
<1>6. PICK t \in T : Maximum(R) = MaxClock - t
  BY <1>5
<1>7. \A u \in T : t <= u
  <2> SUFFICES ASSUME NEW u \in T PROVE t <= u
    OBVIOUS
  <2>1. MaxClock - u \in R
    OBVIOUS
  <2>2. MaxClock - u <= MaxClock - t
    BY <1>5, <1>6, <2>1
  <2>3. t \in Int /\ u \in Int
    BY <1>3, SMTT(60)
  <2> QED BY <1>2, <2>2, <2>3, SMTT(60)
<1>8. Safe(t)
  <2>1. m.maxTs \in T /\ \A id \in C : m.prepared[id].ts - 1 \in T
    OBVIOUS
  <2>2. t <= m.maxTs /\ \A id \in C : t <= m.prepared[id].ts - 1
    BY <1>7, <2>1
  <2>3. t \in Int
    BY <1>3, SMTT(60)
  <2> HIDE DEF T
  <2> QED BY <1>2, <2>2, <2>3, SMTT(60) DEF Times
<1>9. SafeTimestamp(m, q) = CHOOSE u \in T : u <= m.maxTs /\ \A id \in C : u < m.prepared[id].ts
  BY DEF SafeTimestamp, C
<1> HIDE DEF T
<1>10. SafeTimestamp(m, q) \in T /\ Safe(SafeTimestamp(m, q))
  BY <1>8, <1>9, ChooseBound, SMTT(60)
<1>11. SafeTimestamp(m, q) \in Int
  <2>1. \A x \in T : x \in Int
    BY <1>2, <1>3, SMTT(60)
  <2> QED BY <1>10, <2>1
<1> QED BY <1>10, <1>11 DEF C

(* The commands on their way are commands. *)
LEMMA PendingCommands ==
    ASSUME Typed
    PROVE  /\ Pending \subseteq Commands
           /\ \A i \in DOMAIN log : /\ log[i] \in QueuedBatches
                                    /\ CommandsOf(log[i].cmds) \subseteq Commands
                                    /\ CommandsOf(log[i].cmds) \subseteq Pending
<1>1. ASSUME NEW cs \in Seq(Commands) PROVE CommandsOf(cs) \subseteq Commands
  BY SMTT(60) DEF CommandsOf
<1>2. \A i \in DOMAIN log : log[i] \in QueuedBatches
  BY SMTT(60) DEF Typed
<1>3. \A i \in DOMAIN log : CommandsOf(log[i].cmds) \subseteq Commands
  <2> SUFFICES ASSUME NEW i \in DOMAIN log PROVE CommandsOf(log[i].cmds) \subseteq Commands
    OBVIOUS
  <2>1. log[i].cmds \in Seq(Commands)
    BY <1>2 DEF QueuedBatches
  <2> QED BY <1>1, <2>1
<1>4. CommandsOf(batch.cmds) \subseteq Commands
  BY <1>1 DEF Typed
<1>5. \A c \in Pending : c \in CommandsOf(batch.cmds) \/ \E i \in DOMAIN log : c \in CommandsOf(log[i].cmds)
  BY DEF Pending
<1>6. \A i \in DOMAIN log : \A c \in CommandsOf(log[i].cmds) : c \in Pending
  BY DEF Pending
<1> QED BY <1>2, <1>3, <1>4, <1>5, <1>6

(* Reading up to the safe timestamp passes nothing that is prepared or on   *)
(* its way.                                                                 *)
LEMMA ServeStable ==
    ASSUME Inv, StableInv, NEW q \in Queries, NEW ts \in Int, ts <= SafeTimestamp(m, q), LockFree,
           Serve(q, ts), UNCHANGED <<m, log, batch, leaders, oldest>>, clock' \in Int, clock <= clock',
           rd'.ts <= clock'
    PROVE  StableInv'
<1>1. /\ clock \in Int /\ m.maxTs \in Int /\ batch.maxTs \in Int /\ served \in [Queries -> Times]
      /\ \A i \in Times : i \in Int /\ i >= 0
      /\ m.maxTs \in Times /\ \A i \in Int : i >= 0 /\ i <= m.maxTs => i \in Times
  BY PartitionAssumption, SMTT(60) DEF Inv, Typed, StableInv, TimesOK, Times
<1>2. /\ SafeTimestamp(m, q) \in Int /\ SafeTimestamp(m, q) <= m.maxTs
      /\ \A id \in Conflicting(m, q) : SafeTimestamp(m, q) < m.prepared[id].ts
  BY SafeTimestampBounds DEF Inv, StableInv
<1>3. ts <= m.maxTs
  BY <1>1, <1>2, SMTT(60)
<1>4. served[q] \in Times /\ served[q] \in Int
  BY <1>1
<1> DEFINE x == Maximum({served[q], ts})
<1>5. x \in {served[q], ts} /\ served[q] <= x
  BY <1>4, MaximumOfTwo
<1>6. served' = [served EXCEPT ![q] = x]
  BY DEF Serve
<1> HIDE DEF x
<1>7. x \in Times /\ (x = served[q] \/ x = ts)
  BY <1>1, <1>3, <1>4, <1>5, SMTT(60)
<1>8. \A r \in Queries : served'[r] = served[r] \/ (r = q /\ served'[r] = ts)
  BY <1>1, <1>6, <1>7
<1>9. TimesOK'
  <2>1. served' \in [Queries -> Times]
    BY <1>1, <1>6, <1>7
  <2> QED BY <2>1 DEF StableInv, TimesOK
<1>10. ClockAhead'
  <2>1. m.maxTs <= clock /\ batch.maxTs <= clock
    BY DEF StableInv, ClockAhead
  <2>2. \A r \in Queries : served'[r] <= clock'
    <3> SUFFICES ASSUME NEW r \in Queries PROVE served'[r] <= clock'
      OBVIOUS
    <3>1. served[r] <= clock /\ served[r] \in Int
      BY <1>1 DEF StableInv, ClockAhead
    <3> QED BY <1>1, <1>3, <1>8, <2>1, <3>1, SMTT(60)
  <2>3. \A i \in DOMAIN log : log[i].maxTs <= clock'
    <3> SUFFICES ASSUME NEW i \in DOMAIN log PROVE log[i].maxTs <= clock'
      OBVIOUS
    <3>1. log[i].maxTs \in Int /\ log[i].maxTs <= clock
      BY <1>1, PendingCommands DEF Inv, StableInv, ClockAhead, QueuedBatches
    <3> QED BY <1>1, <3>1, SMTT(60)
  <2> QED BY <1>1, <2>1, <2>2, <2>3, SMTT(60) DEF ClockAhead
<1>11. CommandsAhead'
  <2>1. Pending' = Pending
    BY DEF Pending
  <2>2. CommandsOf(batch.cmds) = {}
    BY SMTT(60) DEF StableInv, WritesAhead, LockFree, CommandsOf
  <2>3. ASSUME NEW c \in Pending PROVE Ahead(c)'
    <3>1. PICK j \in DOMAIN log : c \in CommandsOf(log[j].cmds)
      BY <2>2 DEF Pending
    <3>2. c.op # "Commit" => c.ts > m.maxTs
      BY <3>1 DEF StableInv, LogOrdered, StampedAfter
    <3>3. Ahead(c)
      BY DEF StableInv, CommandsAhead
    <3>4. c.ts \in Int
      BY <1>1, PendingCommands DEF Inv, Commands
    <3>5. c.op # "Commit" => \A r \in Queries : c.ts > served'[r]
      BY <1>1, <1>3, <1>8, <3>2, <3>3, <3>4, SMTT(60) DEF Ahead
    <3> QED BY <3>3, <3>5 DEF Ahead
  <2> QED BY <2>1, <2>3 DEF CommandsAhead
<1>12. LogOrdered'
  BY DEF StableInv, LogOrdered
<1>13. PreparedAhead'
  <2> SUFFICES ASSUME NEW id \in Ids, m.status[id].state \in {"Prepared", "Decided"}, NEW r \in Queries,
                      ~AllCompatible(BuildLocks(r), m.prepared[id].locks)
               PROVE  m.prepared[id].ts > served'[r]
    BY DEF StableInv, PreparedAhead
  <2>1. ~m.prepared[id].released /\ m.prepared[id].ts > served[r]
    BY DEF StableInv, PreparedAhead
  <2>2. r = q => id \in Conflicting(m, q)
    BY <2>1 DEF Conflicting, IsFinal, FinalStates, Inv, Typed, Shape
  <2>3. m.prepared[id].ts \in Int
    BY <1>1 DEF StableInv, TimesOK
  <2>4. r = q => ts < m.prepared[id].ts
    BY <1>2, <2>2, <2>3, SMTT(60)
  <2> QED BY <1>8, <2>1, <2>3, <2>4
<1>14. WritesAhead'
  BY DEF StableInv, WritesAhead, LockFree
<1> QED BY <1>9, <1>10, <1>11, <1>12, <1>13, <1>14 DEF StableInv

(* The steps that only move the clock and the read request. *)
LEMMA IdleStable ==
    ASSUME Inv, StableInv, UNCHANGED <<m, log, batch, leaders, oldest, served>>, clock' \in Int,
           clock <= clock', rd'.ts <= clock'
    PROVE  StableInv'
<1>1. /\ clock \in Int /\ m.maxTs \in Int /\ batch.maxTs \in Int
      /\ \A i \in Times : i \in Int
  BY PartitionAssumption, SMTT(60) DEF Inv, Typed, Times
<1>2. ClockAhead'
  <2>1. \A r \in Queries : served[r] \in Int
    BY <1>1 DEF StableInv, TimesOK
  <2>2. \A i \in DOMAIN log : log[i].maxTs \in Int
    BY <1>1, PendingCommands DEF Inv, QueuedBatches
  <2> QED BY <1>1, <2>1, <2>2, SMTT(60) DEF StableInv, ClockAhead
<1>3. TimesOK' /\ LogOrdered' /\ PreparedAhead' /\ WritesAhead'
  BY DEF StableInv, TimesOK, LogOrdered, PreparedAhead, WritesAhead
<1>4. CommandsAhead'
  BY DEF StableInv, CommandsAhead, Pending, Ahead
<1> QED BY <1>2, <1>3, <1>4 DEF StableInv

(* Taking a batch off the log changes neither the commands on their way nor *)
(* their order.                                                             *)
LEMMA BeginStable ==
    ASSUME Inv, StableInv, BeginApply
    PROVE  StableInv'
<1>1. /\ batch = NoBatch /\ log # <<>> /\ batch' = Head(log) /\ log' = Tail(log)
      /\ UNCHANGED <<m, clock, rd, leaders, oldest, served>>
  BY DEF BeginApply
<1>2. log \in Seq(QueuedBatches) /\ Len(log) \in Nat /\ Len(log) >= 1
  BY <1>1, SMTT(60) DEF Inv, Typed
<1>3. /\ batch' = log[1] /\ 1 \in DOMAIN log
      /\ \A i \in DOMAIN log' : i \in Nat /\ i >= 1 /\ i + 1 \in DOMAIN log /\ log'[i] = log[i + 1]
  BY <1>1, <1>2, SMTT(60)
<1>4. TimesOK'
  BY <1>1 DEF StableInv, TimesOK
<1>5. ClockAhead'
  BY <1>1, <1>3 DEF StableInv, ClockAhead
<1>6. Pending' \subseteq Pending
  <2>1. \A c \in Pending' : \/ c \in CommandsOf(batch'.cmds)
                            \/ \E i \in DOMAIN log' : c \in CommandsOf(log'[i].cmds)
    BY DEF Pending, CommandsOf
  <2>2. \A i \in DOMAIN log : CommandsOf(log[i].cmds) \subseteq Pending
    BY PendingCommands DEF Inv
  <2>3. CommandsOf(batch'.cmds) = CommandsOf(log[1].cmds)
    BY <1>3
  <2>4. \A i \in DOMAIN log' : CommandsOf(log'[i].cmds) = CommandsOf(log[i + 1].cmds)
    BY <1>3
  <2> QED BY <1>3, <2>1, <2>2, <2>3, <2>4
<1>7. CommandsAhead'
  BY <1>1, <1>6 DEF StableInv, CommandsAhead, Ahead
<1>8. LogOrdered'
  <2> SUFFICES ASSUME NEW j \in DOMAIN log'
               PROVE  /\ StampedAfter(log'[j], m.maxTs) /\ StampedAfter(log'[j], log[1].maxTs)
                      /\ \A i \in 1 .. j - 1 : StampedAfter(log'[j], log'[i].maxTs)
    BY <1>1, <1>3 DEF LogOrdered, StampedAfter, CommandsOf
  <2>1. j \in Nat /\ j >= 1 /\ j + 1 \in DOMAIN log /\ log'[j] = log[j + 1]
    BY <1>3
  <2>2. /\ StampedAfter(log[j + 1], m.maxTs)
        /\ \A i \in 1 .. j : StampedAfter(log[j + 1], log[i].maxTs)
    BY <2>1, SMTT(60) DEF StableInv, LogOrdered
  <2>3. \A i \in 1 .. j - 1 : i \in DOMAIN log' /\ i + 1 \in 1 .. j /\ log'[i] = log[i + 1]
    BY <1>1, <1>2, <1>3, <2>1, SMTT(60)
  <2> QED BY <2>1, <2>2, <2>3, SMTT(60)
<1>9. PreparedAhead'
  <2>1. batch'.done = {}
    BY <1>3, PendingCommands DEF Inv, QueuedBatches
  <2> QED BY <1>1, <2>1 DEF StableInv, PreparedAhead
<1>10. WritesAhead'
  <2>1. batch'.active = TRUE /\ batch'.writes = {}
    BY <1>3, PendingCommands DEF Inv, QueuedBatches
  <2> QED BY <1>3, <2>1 DEF StableInv, WritesAhead
<1> QED BY <1>4, <1>5, <1>7, <1>8, <1>9, <1>10 DEF StableInv

(* The end of a batch: with nothing to forget, it only stores its versions, *)
(* releases locks and sets maxTimestamp.                                    *)
LEMMA EndStable ==
    ASSUME Inv, StableInv, EndApply
    PROVE  StableInv'
<1> DEFINE n == FinishBatch(m, batch.writes, batch.done, batch.maxTs)
<1>1. /\ UNCHANGED <<clock, log, leaders, oldest, served>> /\ batch' = NoBatch /\ m' = cleanup(n, oldest)
      /\ rd' = IF batch.bumps /\ rd.phase = "wait" THEN [rd EXCEPT !.phase = "recheck"] ELSE rd
  BY DEF EndApply
<1>2. /\ Shape(m', Ids) /\ m'.maxTs = batch.maxTs /\ \A i \in Ids : EndStep(i)
  BY EndApplyStep DEF Inv
<1>3. \A i \in Ids : m.status[i].ts \in Int /\ IsPrepared(m.prepared[i])
  BY ShapeOfPrepared, PartitionAssumption, SMTT(60) DEF Inv, Typed, Times
<1>4. \A i \in Ids : /\ Released(m.prepared[i]).ts = m.prepared[i].ts
                     /\ Released(m.prepared[i]).present = m.prepared[i].present
                     /\ Released(m.prepared[i]).txn = m.prepared[i].txn
  BY <1>3, EntryFields
<1>5. n.status = m.status
  BY DEF FinishBatch
<1>6. Cleanable(n, oldest) = {}
  <2>1. \A i \in DOMAIN m.status : i \in Ids
    BY DEF Inv, Typed, Shape
  <2>2. \A i \in Ids : IsFinal(m.status[i].state) => ~(m.status[i].ts <= oldest)
    BY <1>3, SMTT(60) DEF StableInv, TimesOK, IsFinal, FinalStates
  <2> HIDE DEF n
  <2> QED BY <1>5, <2>1, <2>2 DEF Cleanable
<1>7. \A i \in Ids : /\ m'.status[i] = m.status[i]
                     /\ m'.prepared[i] = n.prepared[i]
  <2>1. Finished(m, n, Ids, batch.done, batch.maxTs)
    BY FinishBatchKeeps DEF Inv, Typed
  <2>2. n.prepared = [i \in Ids |-> n.prepared[i]] /\ n.status = [i \in Ids |-> n.status[i]]
    <3> HIDE DEF n
    <3> QED BY <2>1 DEF Finished, Shape
  <2> HIDE DEF n
  <2>3. /\ m'.status = [i \in DOMAIN n.status |-> n.status[i]]
        /\ m'.prepared = [i \in DOMAIN n.prepared |-> n.prepared[i]]
    BY <1>1, <1>6 DEF cleanup
  <2> QED BY <1>5, <2>2, <2>3
<1>8. \A i \in Ids : m'.prepared[i] = IF i \in batch.done THEN Released(m.prepared[i]) ELSE m.prepared[i]
  BY <1>7 DEF FinishBatch, Inv, Typed, Shape
<1> HIDE DEF n
<1>9. \A i \in Ids : /\ m'.prepared[i].ts = m.prepared[i].ts
                     /\ m'.prepared[i].present = m.prepared[i].present
                     /\ m'.prepared[i].txn = m.prepared[i].txn
  BY <1>4, <1>8
<1>10. TimesOK'
  BY <1>1, <1>7, <1>9 DEF StableInv, TimesOK
<1>11. /\ NoBatch.maxTs = 0 /\ NoBatch.writes = {} /\ NoBatch.cmds = <<>> /\ NoBatch.done = {}
  BY DEF NoBatch
<1>12. ClockAhead'
  <2>1. rd'.ts = rd.ts
    BY <1>1 DEF Inv, Typed, ReadShape
  <2>2. 0 <= clock
    BY PartitionAssumption, SMTT(60) DEF Inv, Typed, Times
  <2> QED BY <1>1, <1>2, <1>11, <2>1, <2>2 DEF StableInv, ClockAhead
<1>13. Pending' \subseteq Pending
  <2>1. \A c \in Pending' : \E i \in DOMAIN log : c \in CommandsOf(log[i].cmds)
    BY <1>1, <1>11, SMTT(60) DEF Pending, CommandsOf
  <2> QED BY <2>1, PendingCommands DEF Inv
<1>14. CommandsAhead'
  <2> SUFFICES ASSUME NEW c \in Pending PROVE Ahead(c)'
    BY <1>13 DEF CommandsAhead
  <2>1. Ahead(c) /\ c.id \in Ids
    BY PendingCommands DEF Inv, StableInv, CommandsAhead, Commands
  <2> QED BY <1>1, <1>9, <2>1 DEF Ahead
<1>15. LogOrdered'
  <2> SUFFICES ASSUME NEW j \in DOMAIN log
               PROVE  /\ StampedAfter(log[j], batch.maxTs) /\ StampedAfter(log[j], 0)
                      /\ \A i \in 1 .. j - 1 : StampedAfter(log[j], log[i].maxTs)
    BY <1>1, <1>2, <1>11, SMTT(60) DEF LogOrdered, StampedAfter, CommandsOf
  <2>1. \A c \in CommandsOf(log[j].cmds) : c.op # "Commit" => c.ts > 0
    BY PendingCommands DEF Inv, StableInv, CommandsAhead, Ahead
  <2> QED BY <2>1 DEF StableInv, LogOrdered, StampedAfter
<1>16. PreparedAhead'
  <2> SUFFICES ASSUME NEW i \in Ids
               PROVE  /\ m'.prepared[i].present => m'.status[i].state # "none" /\ m'.prepared[i].txn = Body[i]
                      /\ m'.status[i].state \in {"Prepared", "Decided"} =>
                            /\ ~m'.prepared[i].released
                            /\ \A q \in Queries : \/ AllCompatible(BuildLocks(q), m'.prepared[i].locks)
                                                  \/ m'.prepared[i].ts > served[q]
    BY <1>1, <1>11 DEF PreparedAhead
  <2>1. /\ m.prepared[i].present => m.status[i].state # "none" /\ m.prepared[i].txn = Body[i]
        /\ m.status[i].state \in {"Prepared", "Decided"} =>
              /\ ~m.prepared[i].released
              /\ \A q \in Queries : \/ AllCompatible(BuildLocks(q), m.prepared[i].locks)
                                    \/ m.prepared[i].ts > served[q]
    BY DEF StableInv, PreparedAhead
  <2>2. i \in batch.done => m.status[i].state = "Committed"
    BY DEF StableInv, PreparedAhead
  <2> QED BY <1>7, <1>8, <1>9, <2>1, <2>2
<1>17. WritesAhead'
  BY <1>1, <1>11 DEF StableInv, WritesAhead
<1> QED BY <1>10, <1>12, <1>14, <1>15, <1>16, <1>17 DEF StableInv

(* Who reads a key conflicts with the lock of a transaction that writes it. *)
LEMMA WriteConflicts ==
    ASSUME NEW q \in Queries, NEW id \in Ids, NEW i, NEW ts, NEW w \in buildWriteRecords(i, ts, Body[id]),
           Reads(q, w.key)
    PROVE  w.ts = ts /\ ~AllCompatible(BuildLocks(q), BuildLocks(Body[id]))
<1>1. PICK a \in Body[id] : a.op \in Writes /\ w = [key |-> a.first, ts |-> ts, op |-> a.op, txn |-> i]
  BY DEF buildWriteRecords
<1>2. PICK b \in q : a.first \in b.first .. b.last - 1
  BY <1>1 DEF Reads
<1>3. a.first \in Int /\ a.last = a.first + 1 /\ b.first \in Int /\ b.last \in Int
  <2> DEFINE T == {Body[j] : j \in Ids} \cup Queries
  <2>1. q \in T /\ Body[id] \in T
    OBVIOUS
  <2>2. \A txn \in T : \A x \in txn : /\ x.first \in Int /\ x.last \in Int
                                      /\ x.op \in Writes => x.last = x.first + 1
    BY PartitionAssumption
  <2> HIDE DEF T
  <2> QED BY <1>1, <2>1, <2>2
<1>4. BuildLock(b) \in BuildLocks(q) /\ BuildLock(a) \in BuildLocks(Body[id])
  BY DEF BuildLocks
<1>5. ~CompatibleWith(BuildLock(b), BuildLock(a))
  <2> DEFINE k == BuildLock(a)
             l == BuildLock(b)
  <2>1. k.first = a.first /\ k.last = a.last /\ l.first = b.first /\ l.last = b.last
    BY DEF BuildLock
  <2>2. k.excl
    BY <1>1 DEF BuildLock
  <2> HIDE DEF k, l
  <2>3. ~(l.last <= k.first) /\ ~(k.last <= l.first)
    BY <1>2, <1>3, <2>1, SMTT(60)
  <2>4. ~CompatibleWith(l, k)
    BY <2>2, <2>3 DEF CompatibleWith
  <2> QED BY <2>4 DEF k, l
<1> QED BY <1>1, <1>4, <1>5 DEF AllCompatible

(* A command keeps what is on its way ahead of the reads, and what it       *)
(* stores is ahead of them.                                                 *)
LEMMA CommandStable ==
    ASSUME Inv, Rebuildable, StableInv, ApplyCommand
    PROVE  StableInv'
<1>1. PICK c, s, p, writes, done : CommandStep(c, s, p, writes, done)
  BY ApplyCommandEffect DEF Inv
<1> DEFINE old == m.status[c.id]
           was == m.prepared[c.id]
           dec == [was EXCEPT !.decision = c.cts]
           rel == Released(was)
           new == NewPrepared(c)
<1>2. /\ c \in Commands /\ c.id \in Ids /\ c.txn = Body[c.id] /\ c.ts \in Times /\ c.cts \in Times
      /\ c \in CommandsOf(batch.cmds)
  BY <1>1 DEF CommandStep, Commands
<1>3. /\ m'.status[c.id] = s /\ m'.prepared[c.id] = p
      /\ \A i \in Ids \ {c.id} : m'.status[i] = m.status[i] /\ m'.prepared[i] = m.prepared[i]
      /\ m'.maxTs = m.maxTs
      /\ batch'.cmds = batch.cmds /\ batch'.maxTs = batch.maxTs /\ batch'.active = batch.active
      /\ batch'.writes = batch.writes \cup writes /\ batch'.done = batch.done \cup done
  BY <1>1 DEF CommandStep, Touched
<1>4. UNCHANGED <<clock, log, rd, leaders, oldest, served>>
  BY DEF ApplyCommand
<1>5. c \in Pending /\ Ahead(c)
  BY <1>2 DEF Pending, StableInv, CommandsAhead
<1>6. /\ rel.released = TRUE /\ rel.ts = was.ts /\ rel.present = was.present /\ rel.txn = was.txn
      /\ dec.released = was.released /\ dec.locks = was.locks /\ dec.ts = was.ts
      /\ dec.present = was.present /\ dec.txn = was.txn
  <2>1. IsPrepared(was)
    BY <1>2, ShapeOfPrepared DEF Inv, Typed
  <2> QED BY <2>1, EntryFields
<1>7. /\ new.ts = c.ts /\ new.present = TRUE /\ new.txn = c.txn /\ new.released = FALSE
      /\ new.locks = BuildLocks(c.txn)
  BY DEF NewPrepared
<1>8. Effect(m, c, s, p, writes, done)
  BY <1>1 DEF CommandStep
<1>9. \/ s = old /\ p \in {was, rel} /\ writes = {} /\ done = {} /\ (p = was \/ old.state = "Timedout")
      \/ c.op = "Autocommit" /\ old.state = "none" /\ s.state = "Committed" /\ s.ts = c.ts /\ p = was /\ done = {}
         /\ writes = buildWriteRecords(c.id, c.ts, c.txn)
      \/ c.op = "Prepare" /\ old.state = "none" /\ s.state = "Prepared" /\ s.ts = c.ts /\ p = new
         /\ writes = {} /\ done = {}
      \/ c.op = "Commit" /\ old.state \in {"Prepared", "Decided"} /\ s.state = "Committed" /\ s.ts = c.cts
         /\ p = was /\ writes = buildWriteRecords(c.id, c.cts, was.txn) /\ done = {c.id}
      \/ c.op # "Commit" /\ old.state = "Prepared" /\ s.ts = c.ts /\ writes = {} /\ done = {}
         /\ \/ s.state = "Aborted" /\ p = rel
            \/ s.state = "Decided" /\ p = dec
            \/ s.state = "Timedout" /\ p = was
  <2> HIDE DEF new, rel, dec
  <2> QED BY <1>8 DEF Effect, new, rel, dec
<1> HIDE DEF rel, dec, new
<1>10. /\ was.present => old.state # "none" /\ was.txn = Body[c.id]
       /\ old.state \in {"Prepared", "Decided"} =>
              ~was.released /\ \A q \in Queries : AllCompatible(BuildLocks(q), was.locks) \/ was.ts > served[q]
       /\ c.id \in batch.done => old.state = "Committed"
       /\ old.state # "none" => old.ts > 0
       /\ was.ts \in Times /\ was.present \in BOOLEAN
       /\ ~was.released => was.locks = BuildLocks(was.txn)
  BY <1>2 DEF StableInv, PreparedAhead, TimesOK, Inv, Typed, Rebuildable
<1> HIDE DEF old, was
<1>11. was.present => p.present /\ p.ts = was.ts
  BY <1>6, <1>9, <1>10
<1>12. TimesOK'
  <2>1. p.ts \in Times
    BY <1>2, <1>6, <1>7, <1>9, <1>10
  <2>2. s.state # "none" => s.ts > 0
    BY <1>5, <1>9, <1>10, SMTT(60) DEF Ahead
  <2> QED BY <1>2, <1>3, <1>4, <2>1, <2>2 DEF StableInv, TimesOK
<1>13. ClockAhead'
  BY <1>3, <1>4 DEF StableInv, ClockAhead
<1>14. CommandsAhead'
  <2>1. Pending' = Pending
    BY <1>3, <1>4 DEF Pending
  <2> SUFFICES ASSUME NEW d \in Pending PROVE Ahead(d)'
    BY <2>1 DEF CommandsAhead
  <2>2. Ahead(d) /\ d.id \in Ids
    BY PendingCommands DEF Inv, StableInv, CommandsAhead, Commands
  <2>3. CASE d.id = c.id
    BY <1>3, <1>4, <1>11, <2>2, <2>3 DEF Ahead, was
  <2>4. CASE d.id # c.id
    BY <1>3, <1>4, <2>2, <2>4 DEF Ahead
  <2> QED BY <2>3, <2>4
<1>15. LogOrdered'
  BY <1>3, <1>4 DEF StableInv, LogOrdered
<1>16. PreparedAhead'
  <2>1. /\ c.id \in batch.done \cup done => s.state = "Committed"
        /\ p.present => s.state # "none" /\ p.txn = Body[c.id]
    BY <1>2, <1>6, <1>7, <1>9, <1>10, SMTT(60)
  <2>2. s.state \in {"Prepared", "Decided"} =>
            ~p.released /\ \A q \in Queries : AllCompatible(BuildLocks(q), p.locks) \/ p.ts > served[q]
    <3>1. CASE c.op = "Prepare" /\ p = new
      BY <1>5, <1>7, <3>1 DEF Ahead
    <3>2. CASE old.state \in {"Prepared", "Decided"} /\ p \in {was, dec}
      BY <1>6, <1>10, <3>2
    <3> QED BY <1>9, <3>1, <3>2
  <2>3. \A i \in Ids \ {c.id} : i \notin done
    BY <1>9
  <2> SUFFICES ASSUME NEW i \in Ids
               PROVE  /\ i \in batch'.done => m'.status[i].state = "Committed"
                      /\ m'.prepared[i].present => m'.status[i].state # "none" /\ m'.prepared[i].txn = Body[i]
                      /\ m'.status[i].state \in {"Prepared", "Decided"} =>
                            /\ ~m'.prepared[i].released
                            /\ \A q \in Queries : \/ AllCompatible(BuildLocks(q), m'.prepared[i].locks)
                                                  \/ m'.prepared[i].ts > served[q]
    BY <1>4 DEF PreparedAhead
  <2>4. CASE i = c.id
    BY <1>3, <2>1, <2>2, <2>4
  <2>5. CASE i # c.id
    BY <1>3, <2>3, <2>5 DEF StableInv, PreparedAhead
  <2> QED BY <2>4, <2>5
<1>17. WritesAhead'
  <2>1. ~(~batch.active)
    BY <1>2, SMTT(60) DEF StableInv, WritesAhead, CommandsOf
  <2>2. ASSUME NEW w \in writes, NEW q \in Queries, Reads(q, w.key) PROVE w.ts > served[q]
    <3>1. CASE c.op = "Autocommit" /\ writes = buildWriteRecords(c.id, c.ts, c.txn)
      <4>1. w.ts = c.ts
        BY <3>1, SMTT(60) DEF buildWriteRecords
      <4> QED BY <1>5, <3>1, <4>1 DEF Ahead
    <3>2. CASE /\ c.op = "Commit" /\ old.state \in {"Prepared", "Decided"}
               /\ writes = buildWriteRecords(c.id, c.cts, was.txn)
      <4>1. was.present /\ c.cts >= was.ts
        BY <1>5, <3>2 DEF Ahead, was
      <4>2. was.locks = BuildLocks(Body[c.id]) /\ was.txn = Body[c.id]
        BY <1>10, <3>2, <4>1
      <4>3. w.ts = c.cts /\ ~AllCompatible(BuildLocks(q), BuildLocks(Body[c.id]))
        BY <1>2, <2>2, <3>2, <4>2, WriteConflicts
      <4>4. was.ts > served[q]
        BY <1>10, <3>2, <4>2, <4>3
      <4>5. served[q] \in Int /\ was.ts \in Int /\ c.cts \in Int
        BY <1>2, <1>10, PartitionAssumption, SMTT(60) DEF StableInv, TimesOK, Times
      <4> QED BY <4>1, <4>3, <4>4, <4>5, SMTT(60)
    <3> QED BY <1>9, <2>2, <3>1, <3>2
  <2> QED BY <1>3, <1>4, <2>1, <2>2 DEF StableInv, WritesAhead
<1> QED BY <1>12, <1>13, <1>14, <1>15, <1>16, <1>17 DEF StableInv

(* prepareBatch stamps each command but Commit after base, and changes      *)
(* nothing else.                                                            *)
LEMMA StampFields ==
    ASSUME NEW n \in Nat, NEW cs \in [1 .. n -> Commands], NEW base \in Nat, NEW i \in 1 .. n
    PROVE  LET c == Stamp(cs, base)[i] IN
           /\ c.op = cs[i].op /\ c.id = cs[i].id /\ c.cts = cs[i].cts
           /\ cs[i].op # "Commit" => c.ts > base /\ c.ts <= base + Ticks(cs)
<1>1. DOMAIN cs = 1 .. n /\ cs[i] \in Commands
  OBVIOUS
<1>2. CASE i \in Stamped(cs)
  <2> DEFINE t == base + i
  <2>1. Ticks(cs) \in Nat /\ i <= Ticks(cs)
    BY <1>2, StampBound
  <2>2. t > base /\ t <= base + Ticks(cs)
    BY <2>1, SMTT(60)
  <2>3. Stamp(cs, base)[i] = [cs[i] EXCEPT !.ts = t]
    BY <1>1, <1>2 DEF Stamp
  <2> HIDE DEF t
  <2> QED BY <1>1, <2>2, <2>3 DEF Commands
<1>3. CASE i \notin Stamped(cs)
  <2>1. Stamp(cs, base)[i] = cs[i] /\ cs[i].op = "Commit"
    BY <1>1, <1>3 DEF Stamp, Stamped
  <2> QED BY <2>1
<1> QED BY <1>2, <1>3

(* A new batch is stamped after all that was read, applied or flushed, and  *)
(* its commits are at timestamps their participants have prepared below.    *)
LEMMA FlushStable ==
    ASSUME Inv, StableInv, OneLeader, NEW n \in Nat, NEW cs \in [1 .. n -> Requests], NEW bump \in BOOLEAN,
           Flush(cs, bump)
    PROVE  StableInv'
<1> DEFINE base == Merged(cs)
           last == base + Ticks(cs)
           S == {0} \cup {cs[i].cts : i \in {j \in DOMAIN cs : cs[j].op = "Commit"}}
                    \cup (IF Stamped(cs) = {} THEN {} ELSE {last})
                    \cup (IF bump THEN {rd.ts} ELSE {})
           b == [cmds |-> Stamp(cs, base), todo |-> DOMAIN cs, writes |-> {},
                 done |-> {}, maxTs |-> Maximum(S), bumps |-> bump, active |-> TRUE]
<1>1. /\ clock' = last /\ log' = Append(log, b) /\ last <= MaxClock
      /\ rd' = (IF bump THEN [rd EXCEPT !.phase = "wait"] ELSE rd)
      /\ \A i \in DOMAIN cs : FromCoordinator(cs[i], cs)
      /\ UNCHANGED <<m, batch, leaders, oldest, served>>
  BY DEF Flush, OneLeader
<1>2. cs \in [1 .. n -> Commands] /\ DOMAIN cs = 1 .. n
  BY RequestsAreCommands
<1>3. /\ clock \in Times /\ rd.ts \in Times /\ MaxClock \in Nat /\ 0 \in Times /\ m.maxTs \in Times
      /\ batch.maxTs \in Times /\ \A q \in Queries : served[q] \in Times
      /\ \A i \in 1 .. n : cs[i].cts \in Times
      /\ \A x \in Times : x \in Nat /\ x <= MaxClock
  BY <1>2, PartitionAssumption, SMTT(60) DEF Inv, Typed, Times, StableInv, TimesOK, Commands
<1>4. base \in Nat /\ clock <= base /\ \A i \in 1 .. n : cs[i].cts <= base
  <2> DEFINE C == {clock} \cup {cs[i].cts : i \in DOMAIN cs}
  <2>1. C \subseteq 0 .. MaxClock /\ C # {} /\ base = Maximum(C)
    BY <1>2, <1>3 DEF Merged, Times
  <2>2. clock \in C /\ \A i \in 1 .. n : cs[i].cts \in C
    BY <1>2
  <2> HIDE DEF C, base
  <2>3. base \in C /\ \A y \in C : y <= base
    BY <1>3, <2>1, MaximumInSet
  <2>4. \A x \in C : x \in Nat
    BY <1>3, <2>1, SMTT(60)
  <2>5. base \in Nat
    BY <2>3, <2>4
  <2> QED BY <2>2, <2>3, <2>5
<1> HIDE DEF base
<1>5. Ticks(cs) \in Nat
  BY <1>2, StampBound
<1>6. last \in Nat /\ base <= last /\ last \in 0 .. MaxClock
  BY <1>1, <1>3, <1>4, <1>5, SMTT(60)
<1> HIDE DEF last
<1>7. \A i \in 1 .. n : /\ b.cmds[i].op = cs[i].op /\ b.cmds[i].id = cs[i].id /\ b.cmds[i].cts = cs[i].cts
                        /\ cs[i].op # "Commit" => b.cmds[i].ts > base
  BY <1>2, <1>4, StampFields
<1>8. DOMAIN b.cmds = 1 .. n
  BY <1>2 DEF Stamp
<1>9. b.maxTs \in Nat /\ b.maxTs <= last
  <2>1. rd.ts <= clock
    BY DEF StableInv, ClockAhead
  <2>2. S \subseteq 0 .. MaxClock /\ S # {} /\ \A y \in S : y <= last
    BY <1>2, <1>3, <1>4, <1>6, <2>1, SMTT(60)
  <2> HIDE DEF S
  <2>3. Maximum(S) \in S
    BY <1>3, <2>2, MaximumInSet
  <2>4. \A x \in S : x \in Nat
    BY <1>3, <2>2, SMTT(60)
  <2>5. Maximum(S) \in Nat /\ Maximum(S) <= last
    BY <2>2, <2>3, <2>4
  <2> QED BY <2>5
<1> HIDE DEF S, b
<1>10. /\ log \in Seq(QueuedBatches) /\ Len(log) \in Nat
       /\ \A i \in DOMAIN log' : \/ i \in DOMAIN log /\ log'[i] = log[i]
                                 \/ i = Len(log) + 1 /\ log'[i] = b
       /\ \A i \in DOMAIN log' : \A k \in 1 .. i - 1 : k \in DOMAIN log /\ log'[k] = log[k]
       /\ \A i \in DOMAIN log : i \in Nat /\ i <= Len(log)
  BY <1>1, SMTT(60) DEF Inv, Typed
<1>11. ASSUME NEW c \in CommandsOf(b.cmds)
       PROVE  /\ c.op # "Commit" => c.ts > base
              /\ c.op = "Commit" => c.cts > 0 /\ m.prepared[c.id].present /\ c.cts >= m.prepared[c.id].ts
              /\ c.op # "Commit" => \A x \in Nat : x <= clock => c.ts > x
  <2>1. PICK i \in 1 .. n : c = b.cmds[i]
    BY <1>8 DEF CommandsOf
  <2>2. c.op # "Commit" => c.ts > base
    BY <1>7, <2>1
  <2>3. c.op # "Commit" => c.ts \in Nat
    <3>1. Stamp(cs, base) \in Seq(Commands)
      BY <1>2, <1>4, <1>6, StampedCommands, SMTT(60) DEF last
    <3>2. b.cmds \in Seq(Commands)
      BY <3>1 DEF b
    <3>3. c \in Commands
      BY <1>8, <2>1, <3>2, SMTT(60)
    <3> QED BY <1>3, <3>3 DEF Commands
  <2>4. ASSUME c.op = "Commit" PROVE c.cts > 0 /\ m.prepared[c.id].present /\ c.cts >= m.prepared[c.id].ts
    <3>1. cs[i].op = "Commit" /\ c.id = cs[i].id /\ c.cts = cs[i].cts /\ FromCoordinator(cs[i], cs)
      BY <1>1, <1>2, <1>7, <2>1, <2>4
    <3>2. cs[i].cts \in Stamps
      <4>1. cs[i] \in Requests
        OBVIOUS
      <4>2. PICK id \in Ids : cs[i] \in RequestsOf(id)
        BY <4>1 DEF Requests
      <4> QED BY <3>1, <4>2, SMTT(60) DEF RequestsOf, Command
    <3> QED BY <3>1, <3>2, SMTT(60) DEF FromCoordinator, Decisions, Stamps
  <2> QED BY <1>3, <1>4, <2>2, <2>3, <2>4, SMTT(60)
<1>12. TimesOK'
  BY <1>1 DEF StableInv, TimesOK
<1>13. ClockAhead'
  <2>1. clock <= clock'
    BY <1>1, <1>3, <1>4, <1>6, SMTT(60)
  <2>2. rd'.ts = rd.ts
    BY <1>1 DEF Inv, Typed, ReadShape
  <2>3. \A i \in DOMAIN log : log[i].maxTs \in Nat /\ log[i].maxTs <= clock
    BY <1>3, PendingCommands DEF Inv, StableInv, ClockAhead, QueuedBatches
  <2>4. \A i \in DOMAIN log' : log'[i].maxTs <= clock'
    BY <1>1, <1>3, <1>6, <1>9, <1>10, <2>1, <2>3, SMTT(60)
  <2>5. /\ m.maxTs <= clock' /\ batch.maxTs <= clock' /\ rd.ts <= clock'
        /\ \A q \in Queries : served[q] <= clock'
    BY <1>1, <1>3, <1>6, <2>1, SMTT(60) DEF StableInv, ClockAhead
  <2> QED BY <1>1, <2>2, <2>4, <2>5 DEF ClockAhead
<1>14. CommandsAhead'
  <2>1. \A c \in Pending' : \/ c \in CommandsOf(batch'.cmds)
                            \/ \E i \in DOMAIN log' : c \in CommandsOf(log'[i].cmds)
    BY DEF Pending, CommandsOf
  <2>2. CommandsOf(batch'.cmds) = CommandsOf(batch.cmds)
    BY <1>1
  <2>3. \A c \in Pending' : c \in Pending \/ c \in CommandsOf(b.cmds)
    <3>1. \A i \in DOMAIN log' : CommandsOf(log'[i].cmds) = CommandsOf(b.cmds) \/
                                 (i \in DOMAIN log /\ CommandsOf(log'[i].cmds) = CommandsOf(log[i].cmds))
      BY <1>10
    <3>2. CommandsOf(batch.cmds) \subseteq Pending /\ \A i \in DOMAIN log : CommandsOf(log[i].cmds) \subseteq Pending
      BY PendingCommands DEF Inv, Pending
    <3> QED BY <2>1, <2>2, <3>1, <3>2
  <2>4. ASSUME NEW c \in CommandsOf(b.cmds) PROVE Ahead(c)'
    <3>1. c.op # "Commit" => c.ts > 0 /\ \A q \in Queries : c.ts > served[q]
      BY <1>3, <1>11, <2>4, SMTT(60) DEF StableInv, ClockAhead
    <3> QED BY <1>1, <1>11, <3>1 DEF Ahead
  <2>5. ASSUME NEW c \in Pending PROVE Ahead(c)'
    BY <1>1 DEF StableInv, CommandsAhead, Ahead
  <2> QED BY <2>3, <2>4, <2>5 DEF CommandsAhead
<1>15. LogOrdered'
  <2> SUFFICES ASSUME NEW j \in DOMAIN log'
               PROVE  /\ StampedAfter(log'[j], m.maxTs) /\ StampedAfter(log'[j], batch.maxTs)
                      /\ \A i \in 1 .. j - 1 : StampedAfter(log'[j], log[i].maxTs)
    BY <1>1, <1>10 DEF LogOrdered, StampedAfter, CommandsOf
  <2>1. CASE j \in DOMAIN log /\ log'[j] = log[j]
    BY <2>1 DEF StableInv, LogOrdered
  <2>2. CASE j = Len(log) + 1 /\ log'[j] = b
    <3>1. \A x \in Nat : x <= clock => StampedAfter(b, x)
      BY <1>11 DEF StampedAfter
    <3>2. \A i \in 1 .. j - 1 : log[i].maxTs \in Nat /\ log[i].maxTs <= clock
      BY <1>3, <1>10, PendingCommands DEF Inv, StableInv, ClockAhead, QueuedBatches
    <3> QED BY <1>3, <2>2, <3>1, <3>2 DEF StableInv, ClockAhead
  <2> QED BY <1>10, <2>1, <2>2
<1>16. PreparedAhead'
  BY <1>1 DEF StableInv, PreparedAhead
<1>17. WritesAhead'
  BY <1>1 DEF StableInv, WritesAhead
<1> QED BY <1>12, <1>13, <1>14, <1>15, <1>16, <1>17 DEF StableInv

(* A snapshot read waits for a query the clients ask. *)
ReaderKnown == rd.phase # "idle" => rd.txn \in Queries

(* A read in progress is one of the queries. *)
LEMMA ReaderNext ==
    ASSUME Inv, ReaderKnown, [Next]_vars
    PROVE  ReaderKnown'
<1>1. ReadShape(rd)
  BY DEF Inv, Typed
<1>2. ASSUME NEW n \in 0 .. MaxBatchSize, NEW cs \in [1 .. n -> Requests], NEW bump \in BOOLEAN, Flush(cs, bump)
      PROVE  ReaderKnown'
  <2>1. rd' = rd \/ (bump /\ rd.phase = "bump" /\ rd' = [rd EXCEPT !.phase = "wait"])
    BY <1>2 DEF Flush
  <2>2. bump => rd.phase = "bump"
    BY <1>2 DEF Flush
  <2> QED BY <1>1, <2>1, <2>2 DEF ReaderKnown, ReadShape
<1>3. CASE EndApply
  <2>1. rd' = rd \/ (rd.phase = "wait" /\ rd' = [rd EXCEPT !.phase = "recheck"])
    BY <1>3 DEF EndApply
  <2> QED BY <1>1, <2>1 DEF ReaderKnown, ReadShape
<1>4. ASSUME NEW q \in Queries, NEW ts \in Stamps, SnapshotRead(q, ts)
      PROVE  ReaderKnown'
  BY <1>4, SMTT(60) DEF SnapshotRead, ReaderKnown
<1>5. CASE Recheck \/ ChangeLeader
  BY <1>5, SMTT(60) DEF Recheck, ChangeLeader, ReaderKnown, NoRead
<1>6. CASE UNCHANGED rd
  BY <1>6 DEF ReaderKnown
<1>7. BeginApply \/ ApplyCommand \/ Age \/ (\E q \in Queries : ReadOnly(q)) \/ UNCHANGED vars => UNCHANGED rd
  BY DEF BeginApply, ApplyCommand, Age, ReadOnly, vars
<1> QED BY <1>2, <1>3, <1>4, <1>5, <1>6, <1>7 DEF Next

(* No step of a leader that keeps its office breaks StableInv. *)
LEMMA StableNext ==
    ASSUME Inv, Rebuildable, ReaderKnown, StableInv, OneLeader, [Next]_vars
    PROVE  StableInv'
<1>1. /\ clock \in Int /\ rd.ts \in Int /\ \A x \in Times : x \in Int
      /\ rd.ts <= clock /\ NoRead.ts = 0 /\ 0 <= clock
      /\ \A ts \in Stamps : ts \in Int
  BY PartitionAssumption, SMTT(60) DEF Inv, Typed, StableInv, ClockAhead, Times, NoRead, Stamps
<1>2. ASSUME NEW n \in 0 .. MaxBatchSize, NEW cs \in [1 .. n -> Requests], NEW bump \in BOOLEAN, Flush(cs, bump)
      PROVE  StableInv'
  <2>1. n \in Nat
    BY PartitionAssumption, SMTT(60)
  <2> QED BY <1>2, <2>1, FlushStable
<1>3. CASE BeginApply
  BY <1>3, BeginStable
<1>4. CASE ApplyCommand
  BY <1>4, CommandStable
<1>5. CASE EndApply
  BY <1>5, EndStable
<1>6. ASSUME NEW q \in Queries, ReadOnly(q) PROVE StableInv'
  <2>1. SafeTimestamp(m, q) \in Int
    BY SafeTimestampBounds DEF Inv, StableInv
  <2>2. /\ LockFree /\ Serve(q, SafeTimestamp(m, q)) /\ UNCHANGED <<m, log, batch, leaders, oldest, clock, rd>>
    BY <1>6 DEF ReadOnly
  <2> QED BY <1>1, <2>1, <2>2, ServeStable, SMTT(60)
<1>7. ASSUME NEW q \in Queries, NEW ts \in Stamps, SnapshotRead(q, ts) PROVE StableInv'
  <2>1. /\ LockFree /\ clock' = Maximum({clock, ts}) /\ rd = NoRead
        /\ UNCHANGED <<m, log, batch, leaders, oldest>>
        /\ \/ ts <= SafeTimestamp(m, q) /\ Serve(q, ts) /\ rd' = rd
           \/ UNCHANGED <<rd, served>>
           \/ rd'.ts = ts /\ served' = served
    BY <1>7, SMTT(60) DEF SnapshotRead
  <2>2. ts \in Int
    BY <1>1
  <2>3. clock' \in Int /\ clock <= clock' /\ ts <= clock'
    BY <1>1, <2>1, <2>2, MaximumOfTwo
  <2>4. rd.ts <= clock'
    BY <1>1, <2>3, SMTT(60)
  <2>5. CASE ts <= SafeTimestamp(m, q) /\ Serve(q, ts) /\ rd' = rd
    <3>1. rd'.ts <= clock'
      BY <2>4, <2>5
    <3> QED BY <2>1, <2>2, <2>3, <2>5, <3>1, ServeStable
  <2>6. CASE served' = served /\ rd'.ts <= clock'
    BY <2>1, <2>3, <2>6, IdleStable
  <2> QED BY <2>1, <2>3, <2>4, <2>5, <2>6
<1>8. CASE Recheck
  <2>1. /\ LockFree /\ UNCHANGED <<m, log, batch, leaders, oldest, clock>> /\ rd' = NoRead
        /\ \/ rd.ts <= SafeTimestamp(m, rd.txn) /\ Serve(rd.txn, rd.ts)
           \/ served' = served
        /\ rd.txn \in Queries
    BY <1>8 DEF Recheck, ReaderKnown
  <2>2. clock' \in Int /\ clock <= clock' /\ rd'.ts <= clock'
    BY <1>1, <2>1, SMTT(60)
  <2>3. CASE rd.ts <= SafeTimestamp(m, rd.txn) /\ Serve(rd.txn, rd.ts)
    BY <1>1, <2>1, <2>2, <2>3, ServeStable
  <2>4. CASE served' = served
    BY <2>1, <2>2, <2>4, IdleStable
  <2> QED BY <2>1, <2>3, <2>4
<1>9. ~Age /\ ~ChangeLeader
  BY SMTT(60) DEF OneLeader, StableInv, TimesOK, Age, ChangeLeader
<1>10. CASE UNCHANGED vars
  <2>1. UNCHANGED <<m, log, batch, leaders, oldest, served, clock, rd>>
    BY <1>10 DEF vars
  <2>2. clock' \in Int /\ clock <= clock' /\ rd'.ts <= clock'
    BY <1>1, <2>1, SMTT(60)
  <2> QED BY <2>1, <2>2, IdleStable
<1> QED BY <1>2, <1>3, <1>4, <1>5, <1>6, <1>7, <1>8, <1>9, <1>10 DEF Next

(* The initial state: nothing was served and nothing is being read. *)
LEMMA StableInit ==
    ASSUME Init
    PROVE  StableInv /\ ReaderKnown
<1>1. /\ clock = 1 /\ log = <<>> /\ batch = NoBatch /\ rd = NoRead /\ leaders = 0 /\ oldest = 0
      /\ served = [q \in Queries |-> 0]
  BY DEF Init
<1>2. m = [status |-> [id \in Ids |-> NoStatus], prepared |-> [id \in Ids |-> NoPrepared],
           maxTs |-> 1, db |-> {}]
  BY DEF Init, NewManager
<1>3. 0 \in Times /\ 1 \in Times
  BY PartitionAssumption, SMTT(60) DEF Times
<1>4. \A id \in Ids : m.status[id] = NoStatus /\ m.prepared[id] = NoPrepared
  BY <1>2
<1>5. TimesOK
  <2>1. NoStatus.state = "none" /\ NoPrepared.ts = 0
    BY DEF NoStatus, Status, NoPrepared
  <2> QED BY <1>1, <1>3, <1>4, <2>1 DEF TimesOK
<1>6. ClockAhead
  BY <1>1, <1>2, SMTT(60) DEF ClockAhead, NoBatch, NoRead
<1>7. Pending = {}
  BY <1>1, SMTT(60) DEF Pending, CommandsOf, NoBatch
<1>8. CommandsAhead
  BY <1>7 DEF CommandsAhead
<1>9. LogOrdered
  BY <1>1, SMTT(60) DEF LogOrdered
<1>10. PreparedAhead
  <2>1. NoStatus.state = "none" /\ NoPrepared.present = FALSE /\ NoBatch.done = {}
    BY DEF NoStatus, Status, NoPrepared, NoBatch
  <2> QED BY <1>1, <1>4, <2>1 DEF PreparedAhead
<1>11. WritesAhead
  BY <1>1 DEF WritesAhead, NoBatch
<1>12. ReaderKnown
  BY <1>1 DEF ReaderKnown, NoRead
<1> QED BY <1>5, <1>6, <1>8, <1>9, <1>10, <1>11, <1>12 DEF StableInv

(* The versions a step stores are those of the batch it ends. *)
LEMMA StoredByBatch ==
    ASSUME Inv, [Next]_vars, NEW v \in m'.db \ m.db
    PROVE  v \in batch.writes
<1>1. CASE m' = m
  BY <1>1
<1>2. CASE ApplyCommand
  <2>1. m'.db = m.db
    BY <1>2, ApplyCommandEffect DEF Inv, CommandStep
  <2> QED BY <2>1
<1>3. CASE EndApply
  <2> DEFINE n == FinishBatch(m, batch.writes, batch.done, batch.maxTs)
  <2>1. m' = cleanup(n, oldest)
    BY <1>3 DEF EndApply
  <2>2. m'.db = n.db
    BY <2>1 DEF cleanup
  <2>3. n.db = Put(m.db, batch.writes)
    BY DEF FinishBatch
  <2> QED BY <2>2, <2>3 DEF Put
<1>4. ASSUME NEW n \in 0 .. MaxBatchSize, NEW cs \in [1 .. n -> Requests], NEW bump \in BOOLEAN, Flush(cs, bump)
      PROVE  m' = m
  BY <1>4 DEF Flush
<1>5. BeginApply \/ Age \/ (\E q \in Queries : ReadOnly(q)) \/ Recheck \/ ChangeLeader \/ UNCHANGED vars => m' = m
  BY DEF BeginApply, Age, ReadOnly, Recheck, ChangeLeader, vars
<1>6. ASSUME NEW q \in Queries, NEW ts \in Stamps, SnapshotRead(q, ts) PROVE m' = m
  BY <1>6 DEF SnapshotRead
<1> QED BY <1>1, <1>2, <1>3, <1>4, <1>5, <1>6 DEF Next

(* Reads are repeatable under one leader, for any transactions, queries and *)
(* batches: what was read at a timestamp is never added to at or below it   *)
(* (safeTimestampForLocks, prepareBatch, UpdateTimestamp).                  *)
THEOREM ReadsRepeatable == OneLeader => (Spec => SnapshotStable)
<1> DEFINE Stable == \A v \in m'.db \ m.db : \A q \in Queries : \A a \in q :
                        v.key \in a.first .. a.last - 1 => v.ts > served[q]
<1>1. Init => StableInv /\ ReaderKnown
  BY StableInit
<1>2. ASSUME Inv, StableInv, [Next]_vars
      PROVE  Stable
  <2> SUFFICES ASSUME NEW v \in m'.db \ m.db, NEW q \in Queries, NEW a \in q, v.key \in a.first .. a.last - 1
               PROVE  v.ts > served[q]
    OBVIOUS
  <2>1. v \in batch.writes /\ Reads(q, v.key)
    BY <1>2, StoredByBatch DEF Reads
  <2> QED BY <1>2, <2>1 DEF StableInv, WritesAhead
<1>3. ASSUME OneLeader
      PROVE  Spec => SnapshotStable
  <2>1. Inv /\ Rebuildable /\ ReaderKnown /\ StableInv /\ [Next]_vars => StableInv' /\ ReaderKnown'
    BY <1>3, StableNext, ReaderNext
  <2>2. Inv /\ StableInv /\ [Next]_vars => [Stable]_vars
    BY <1>2
  <2> HIDE DEF Stable
  <2>3. Spec => [][Stable]_vars
    BY <1>1, <2>1, <2>2, Invariance, RebuildableInvariant, PTL DEF Spec
  <2> QED BY <2>3 DEF SnapshotStable, Stable
<1> QED BY <1>3

-----------------------------------------------------------------------------
(* What validate finds when a transaction is prepared or committed at once  *)
(* still holds when its versions are stored, for every batching under one   *)
(* leader.                                                                  *)

(* One batch holds no conflicting new writes.  The code lets it, see        *)
(* PartitionSameBatch.cfg.                                                  *)
DistinctBatches == OneLeader /\ ~BatchConflicts

WritesKey(txn, key) == \E a \in txn : a.op \in Writes /\ a.first = key

(* The newest version of key is not a deletion. *)
Live(db, key) ==
    \E r \in db : r.key = key /\ r.op # "Delete" /\ \A q \in db : q.key = key => q.ts <= r.ts

(* A version by op can follow on those that are stored, at ts. *)
Fits(db, op, key, ts) ==
    /\ \A v \in db : v.key = key => v.ts < ts
    /\ op = "Insert" => ~Live(db, key)
    /\ op \in {"Update", "Delete"} => Live(db, key)

(* What is stored is older than what is on its way. *)
StoredBefore ==
    /\ clock >= 1
    /\ \A v \in m.db : /\ v.ts \in Times /\ v.ts > 1 /\ v.ts <= clock /\ v.op \in Writes
                       /\ \A c \in Pending : c.op # "Commit" => v.ts < c.ts

(* A batch's timestamps are bounded by its maxTimestamp, and its new        *)
(* transactions do not conflict.                                            *)
BatchInOrder(b) ==
    /\ \A c \in CommandsOf(b.cmds) : /\ c.op = "Commit" => c.cts <= b.maxTs
                                     /\ c.op # "Commit" => c.ts > 1 /\ c.ts <= b.maxTs
    /\ ~ConflictInBatch(b.cmds)

BatchesInOrder == BatchInOrder(batch) /\ \A i \in DOMAIN log : BatchInOrder(log[i])

Waiting(id) == m.status[id].state \in {"Prepared", "Decided"}

(* What a prepared transaction was validated against still holds. *)
PreparedFits ==
    \A id \in Ids : Waiting(id) =>
        /\ m.prepared[id].present /\ m.prepared[id].ts > 1
        /\ \A a \in Body[id] : a.op \in Writes => Fits(m.db, a.op, a.first, m.prepared[id].ts)

(* Who wrote w: a transaction that keeps its locks until w is stored, or an *)
(* autocommit of this batch.                                                *)
Writer(w) ==
    /\ w.txn \in Ids /\ WritesKey(Body[w.txn], w.key)
    /\ \/ /\ m.status[w.txn].state = "Committed" /\ ~m.prepared[w.txn].released
          /\ m.prepared[w.txn].txn = Body[w.txn]
       \/ \E i \in DOMAIN batch.cmds \ batch.todo :
             batch.cmds[i].op = "Autocommit" /\ batch.cmds[i].id = w.txn

(* What a batch is about to store follows on what is stored, and is the     *)
(* only thing to do so.                                                     *)
WritesFit ==
    \A w \in batch.writes :
        /\ w.ts \in Times /\ w.ts > 1 /\ w.ts <= batch.maxTs /\ w.op \in Writes
        /\ Writer(w) /\ Fits(m.db, w.op, w.key, w.ts)
        /\ \A u \in batch.writes : u.key = w.key => u.ts = w.ts
        /\ \A id \in Ids : Waiting(id) => ~WritesKey(Body[id], w.key)

ValidInv == StoredBefore /\ BatchesInOrder /\ PreparedFits /\ WritesFit /\ VersionsValid

-----------------------------------------------------------------------------
(* A read beyond all versions of a key finds the newest. *)
LEMMA ExistsLive ==
    ASSUME NEW db, NEW ts, NEW key, ts = 0 \/ \A v \in db : v.key = key => v.ts <= ts
    PROVE  Exists(db, ts, key) <=> Live(db, key)
<1>1. \A r : r \in Visible(db, ts, key) <=> r \in db /\ r.key = key
  BY DEF Visible
<1>2. \A r : r \in Get(db, ts, key) <=>
          /\ r \in db /\ r.key = key /\ r.op # "Delete"
          /\ \A q \in db : q.key = key => q.ts <= r.ts
  BY <1>1 DEF Get, Newest
<1> QED BY <1>2 DEF Exists, Live

(* Transactions that write the same key conflict. *)
LEMMA WritersConflict ==
    ASSUME NEW i \in Ids, NEW j \in Ids, NEW key, WritesKey(Body[i], key), WritesKey(Body[j], key)
    PROVE  ~AllCompatible(BuildLocks(Body[i]), BuildLocks(Body[j]))
<1>1. PICK a \in Body[i] : a.op \in Writes /\ a.first = key
  BY DEF WritesKey
<1>2. PICK b \in Body[j] : b.op \in Writes /\ b.first = key
  BY DEF WritesKey
<1>3. a.first \in Int /\ a.last = a.first + 1 /\ b.first \in Int /\ b.last = b.first + 1
  <2> DEFINE T == {Body[k] : k \in Ids} \cup Queries
  <2>1. Body[i] \in T /\ Body[j] \in T
    OBVIOUS
  <2>2. \A txn \in T : \A x \in txn : x.first \in Int /\ (x.op \in Writes => x.last = x.first + 1)
    BY PartitionAssumption
  <2> HIDE DEF T
  <2> QED BY <1>1, <1>2, <2>1, <2>2
<1>4. BuildLock(a) \in BuildLocks(Body[i]) /\ BuildLock(b) \in BuildLocks(Body[j])
  BY DEF BuildLocks
<1>5. ~CompatibleWith(BuildLock(a), BuildLock(b))
  <2> DEFINE k == BuildLock(a)
             l == BuildLock(b)
  <2>1. k.first = a.first /\ k.last = a.last /\ l.first = b.first /\ l.last = b.last
    BY DEF BuildLock
  <2>2. k.excl
    BY <1>1 DEF BuildLock
  <2> HIDE DEF k, l
  <2>3. ~(l.last <= k.first) /\ ~(k.last <= l.first)
    BY <1>1, <1>2, <1>3, <2>1, SMTT(60)
  <2>4. ~CompatibleWith(k, l)
    BY <2>2, <2>3 DEF CompatibleWith
  <2> QED BY <2>4 DEF k, l
<1> QED BY <1>4, <1>5 DEF AllCompatible

(* Who passes checkLocks writes no key of a transaction that holds locks. *)
LEMMA CheckedApart ==
    ASSUME Inv, Rebuildable, NEW i \in Ids, NEW j \in Ids, NEW key, WritesKey(Body[i], key),
           checkLocks(m, Body[i]), ~m.prepared[j].released, m.prepared[j].txn = Body[j]
    PROVE  ~WritesKey(Body[j], key)
<1>1. m.prepared[j].locks = BuildLocks(Body[j]) /\ DOMAIN m.prepared = Ids
  BY DEF Rebuildable, Inv, Typed, Shape
<1>2. BuildLocks(Body[j]) \subseteq Held(m)
  BY <1>1 DEF Held
<1>3. AllCompatible(BuildLocks(Body[i]), BuildLocks(Body[j]))
  BY <1>2 DEF checkLocks, AllCompatible
<1> QED BY <1>3, WritersConflict

(* What was validated fits. *)
LEMMA ValidatedFits ==
    ASSUME NEW i \in Ids, NEW ts \in Times, validate(m, ts, Body[i]), \A v \in m.db : v.ts \in Times /\ v.ts < ts,
           NEW a \in Body[i], a.op \in Writes
    PROVE  Fits(m.db, a.op, a.first, ts)
<1>1. a.first \in Int /\ a.last = a.first + 1
  <2> DEFINE T == {Body[k] : k \in Ids} \cup Queries
  <2>1. Body[i] \in T
    OBVIOUS
  <2>2. \A txn \in T : \A x \in txn : x.first \in Int /\ (x.op \in Writes => x.last = x.first + 1)
    BY PartitionAssumption
  <2> HIDE DEF T
  <2> QED BY <2>1, <2>2
<1>2. \A k : k \in a.first .. a.last - 1 <=> k = a.first
  BY <1>1, SMTT(60)
<1>3. ExistsInRange(m.db, ts - 1, a.first, a.last) <=> Exists(m.db, ts - 1, a.first)
  BY <1>2 DEF ExistsInRange
<1>4. \A t \in Times : t \in Int
  BY PartitionAssumption, SMTT(60) DEF Times
<1>5. \A v \in m.db : v.ts <= ts - 1
  <2> SUFFICES ASSUME NEW v \in m.db PROVE v.ts <= ts - 1
    OBVIOUS
  <2>1. v.ts \in Int /\ ts \in Int /\ v.ts < ts
    BY <1>4
  <2> QED BY <2>1, SMTT(60)
<1>6. Exists(m.db, ts - 1, a.first) <=> Live(m.db, a.first)
  BY <1>5, ExistsLive
<1>7. \/ Expected(a) = "none"
      \/ (Expected(a) = "present") = ExistsInRange(m.db, ts - 1, a.first, a.last)
  BY DEF validate
<1>8. /\ a.op = "Insert" => Expected(a) = "absent"
      /\ a.op \in {"Update", "Delete"} => Expected(a) = "present"
  BY DEF Expected, Locking
<1> QED BY <1>3, <1>6, <1>7, <1>8 DEF Fits

(* A new transaction writes no key that the batch is about to store. *)
LEMMA NewApart ==
    ASSUME Inv, Rebuildable, ValidInv, NEW i \in batch.todo, batch.cmds[i].op \in {"Autocommit", "Prepare"},
           checkLocks(m, batch.cmds[i].txn), NEW w \in batch.writes
    PROVE  ~WritesKey(Body[batch.cmds[i].id], w.key)
<1> DEFINE c == batch.cmds[i]
<1>1. batch.cmds \in Seq(Commands) /\ batch.todo \subseteq DOMAIN batch.cmds
  BY DEF Inv, Typed
<1>2. \A k \in DOMAIN batch.cmds : batch.cmds[k] \in Commands
  BY <1>1, SMTT(60)
<1>3. \A k \in DOMAIN batch.cmds : batch.cmds[k].id \in Ids /\ batch.cmds[k].txn = Body[batch.cmds[k].id]
  BY <1>2 DEF Commands
<1>4. c.id \in Ids /\ c.txn = Body[c.id]
  BY <1>1, <1>3
<1>5. w.txn \in Ids /\ WritesKey(Body[w.txn], w.key)
  BY DEF ValidInv, WritesFit, Writer
<1>6. CASE ~m.prepared[w.txn].released /\ m.prepared[w.txn].txn = Body[w.txn]
  BY <1>4, <1>5, <1>6, CheckedApart
<1>7. ASSUME NEW k \in DOMAIN batch.cmds \ batch.todo, batch.cmds[k].op = "Autocommit", batch.cmds[k].id = w.txn
      PROVE  ~WritesKey(Body[batch.cmds[i].id], w.key)
  <2>1. k # i /\ i \in DOMAIN batch.cmds
    BY <1>1, <1>7
  <2>2. ~ConflictInBatch(batch.cmds)
    BY DEF ValidInv, BatchesInOrder, BatchInOrder
  <2>3. AllCompatible(BuildLocks(batch.cmds[k].txn), BuildLocks(c.txn))
    BY <1>7, <2>1, <2>2 DEF ConflictInBatch
  <2>4. AllCompatible(BuildLocks(Body[w.txn]), BuildLocks(Body[c.id]))
    BY <1>3, <1>4, <1>7, <2>3
  <2> QED BY <1>4, <1>5, <2>4, WritersConflict
<1> QED BY <1>6, <1>7 DEF ValidInv, WritesFit, Writer

(* What a command adds to the batch follows on what is stored.              *)
NewFits(w) ==
    /\ w.ts \in Times /\ w.ts > 1 /\ w.ts <= batch'.maxTs /\ w.op \in Writes
    /\ Writer(w)' /\ Fits(m'.db, w.op, w.key, w.ts)
    /\ \A u \in batch'.writes : u.key = w.key => u.ts = w.ts
    /\ \A id \in Ids : Waiting(id)' => ~WritesKey(Body[id], w.key)

(* The transactions prepared hold the locks of their bodies. *)
LEMMA WaitingLocks ==
    ASSUME Inv, Rebuildable, StableInv, ValidInv, NEW id \in Ids, Waiting(id)
    PROVE  /\ ~m.prepared[id].released /\ m.prepared[id].txn = Body[id]
           /\ m.prepared[id].locks = BuildLocks(Body[id])
           /\ m.prepared[id].ts > 1
<1>1. m.prepared[id].present /\ m.prepared[id].ts > 1
  BY DEF ValidInv, PreparedFits
<1>2. ~m.prepared[id].released /\ m.prepared[id].txn = Body[id]
  BY <1>1 DEF StableInv, PreparedAhead, Waiting
<1> QED BY <1>1, <1>2 DEF Rebuildable

(* A command keeps what was validated. *)
LEMMA CommandValid ==
    ASSUME Inv, Rebuildable, StableInv, ValidInv, ApplyCommand
    PROVE  ValidInv'
<1>1. PICK i, s, p, writes, done : TodoStep(i, s, p, writes, done)
  BY TodoEffect DEF Inv
<1> DEFINE c == batch.cmds[i]
           old == m.status[c.id]
           was == m.prepared[c.id]
           dec == [was EXCEPT !.decision = c.cts]
           rel == Released(was)
           new == NewPrepared(c)
<1>2. /\ c \in Commands /\ c.id \in Ids /\ c.txn = Body[c.id] /\ c.ts \in Times /\ c.cts \in Times
      /\ c \in CommandsOf(batch.cmds) /\ i \in batch.todo
  BY <1>1 DEF TodoStep, CommandStep, Commands
<1>3. /\ m'.status[c.id] = s /\ m'.prepared[c.id] = p
      /\ \A k \in Ids \ {c.id} : m'.status[k] = m.status[k] /\ m'.prepared[k] = m.prepared[k]
      /\ m'.db = m.db
      /\ batch'.cmds = batch.cmds /\ batch'.maxTs = batch.maxTs
      /\ batch'.writes = batch.writes \cup writes /\ batch'.todo = batch.todo \ {i}
  BY <1>1 DEF TodoStep, CommandStep, Touched
<1>4. UNCHANGED <<clock, log>>
  BY DEF ApplyCommand
<1>5. c \in Pending /\ Ahead(c) /\ i \in DOMAIN batch.cmds
  BY <1>2 DEF Pending, StableInv, CommandsAhead, Inv, Typed
<1>6. /\ dec.released = was.released /\ dec.ts = was.ts /\ dec.present = was.present
      /\ rel.ts = was.ts /\ rel.present = was.present
  <2>1. IsPrepared(was)
    BY <1>2, ShapeOfPrepared DEF Inv, Typed
  <2> QED BY <2>1, EntryFields
<1>7. new.ts = c.ts /\ new.present = TRUE
  BY DEF NewPrepared
<1>8. Effect(m, c, s, p, writes, done)
  BY <1>1 DEF TodoStep, CommandStep
<1>9. \/ s = old /\ writes = {} /\ (p = was \/ (old.state = "Timedout" /\ p = rel))
      \/ /\ c.op = "Autocommit" /\ old.state = "none" /\ s.state = "Committed"
         /\ writes = buildWriteRecords(c.id, c.ts, c.txn)
      \/ /\ c.op = "Prepare" /\ old.state = "none" /\ s.state = "Prepared" /\ p = new /\ writes = {}
      \/ /\ c.op = "Commit" /\ old.state \in {"Prepared", "Decided"} /\ s.state = "Committed"
         /\ p = was /\ writes = buildWriteRecords(c.id, c.cts, was.txn)
      \/ /\ old.state = "Prepared" /\ writes = {}
         /\ \/ s.state \in {"Aborted", "Timedout"}
            \/ s.state = "Decided" /\ p = dec
  <2> HIDE DEF new, rel, dec
  <2> QED BY <1>8 DEF Effect, new, rel, dec
<1>10. c.op \in {"Autocommit", "Prepare"} /\ s # old => checkLocks(m, c.txn) /\ validate(m, c.ts, c.txn)
  BY <1>1 DEF TodoStep
<1> HIDE DEF rel, dec, new
<1>11. /\ c.op = "Commit" => c.cts <= batch.maxTs
       /\ c.op # "Commit" => c.ts > 1 /\ c.ts <= batch.maxTs
  BY <1>2 DEF ValidInv, BatchesInOrder, BatchInOrder
<1>12. c.op # "Commit" => \A v \in m.db : v.ts \in Times /\ v.ts < c.ts
  BY <1>5 DEF ValidInv, StoredBefore
<1>13. StoredBefore' /\ BatchesInOrder' /\ VersionsValid'
  <2>1. Pending' = Pending
    BY <1>3, <1>4 DEF Pending
  <2> QED BY <1>3, <1>4, <2>1 DEF ValidInv, StoredBefore, BatchesInOrder, BatchInOrder, VersionsValid
<1>14. old.state \in {"Prepared", "Decided"} =>
           /\ ~was.released /\ was.txn = Body[c.id] /\ was.ts > 1 /\ was.present
           /\ \A a \in Body[c.id] : a.op \in Writes => Fits(m.db, a.op, a.first, was.ts)
  <2>1. Waiting(c.id) <=> old.state \in {"Prepared", "Decided"}
    BY DEF Waiting
  <2>2. Waiting(c.id) => ~was.released /\ was.txn = Body[c.id] /\ was.ts > 1
    BY <1>2, WaitingLocks
  <2> QED BY <1>2, <2>1, <2>2 DEF ValidInv, PreparedFits
<1>15. ASSUME c.op \in {"Autocommit", "Prepare"}, s # old
       PROVE  /\ \A a \in Body[c.id] : a.op \in Writes => Fits(m.db, a.op, a.first, c.ts)
              /\ \A w \in batch.writes : ~WritesKey(Body[c.id], w.key)
  <2>1. validate(m, c.ts, Body[c.id]) /\ checkLocks(m, c.txn)
    BY <1>2, <1>10, <1>15
  <2>2. \A a \in Body[c.id] : a.op \in Writes => Fits(m.db, a.op, a.first, c.ts)
    BY <1>2, <1>12, <1>15, <2>1, ValidatedFits
  <2>3. \A w \in batch.writes : ~WritesKey(Body[c.id], w.key)
    BY <1>2, <1>15, <2>1, NewApart
  <2> QED BY <2>2, <2>3
<1> HIDE DEF old, was
<1>16. PreparedFits'
  <2> SUFFICES ASSUME NEW id \in Ids, Waiting(id)'
               PROVE  /\ m'.prepared[id].present /\ m'.prepared[id].ts > 1
                      /\ \A a \in Body[id] : a.op \in Writes => Fits(m.db, a.op, a.first, m'.prepared[id].ts)
    BY <1>3 DEF PreparedFits
  <2>1. CASE id # c.id
    BY <1>3, <2>1 DEF ValidInv, PreparedFits, Waiting
  <2>2. CASE id = c.id
    <3>1. s.state \in {"Prepared", "Decided"}
      BY <1>3, <2>2 DEF Waiting
    <3>2. CASE c.op = "Prepare" /\ old.state = "none" /\ p = new
      <4>1. s # old /\ c.op \in {"Autocommit", "Prepare"} /\ c.op # "Commit"
        BY <3>1, <3>2
      <4> QED BY <1>2, <1>3, <1>7, <1>11, <1>15, <2>2, <3>2, <4>1
    <3>3. CASE old.state \in {"Prepared", "Decided"} /\ p \in {was, dec}
      <4>1. p.ts = was.ts /\ p.present = was.present
        BY <1>6, <3>3
      <4> QED BY <1>3, <1>14, <2>2, <3>3, <4>1
    <3> QED BY <1>9, <3>1, <3>2, <3>3
  <2> QED BY <2>1, <2>2
<1>17. ASSUME NEW w \in writes
       PROVE  NewFits(w) /\ ~(\E u \in batch.writes : u.key = w.key)
  <2>1. CASE /\ c.op = "Autocommit" /\ old.state = "none" /\ s.state = "Committed"
             /\ writes = buildWriteRecords(c.id, c.ts, c.txn)
    <3>1. PICK a \in Body[c.id] : a.op \in Writes /\ w = [key |-> a.first, ts |-> c.ts, op |-> a.op, txn |-> c.id]
      BY <1>2, <1>17, <2>1 DEF buildWriteRecords
    <3>2. w.key = a.first /\ w.ts = c.ts /\ w.op = a.op /\ w.txn = c.id /\ WritesKey(Body[c.id], w.key)
      BY <3>1 DEF WritesKey
    <3>3. \A u \in writes : u.ts = c.ts
      BY <2>1, SMTT(60) DEF buildWriteRecords
    <3>4. \A u \in batch.writes : u.key # w.key
      BY <1>15, <2>1, <3>2
    <3>5. Writer(w)'
      <4>1. i \in DOMAIN batch'.cmds \ batch'.todo /\ batch'.cmds[i] = c
        BY <1>3, <1>5
      <4> QED BY <1>2, <2>1, <3>2, <4>1 DEF Writer
    <3>6. Fits(m'.db, w.op, w.key, w.ts)
      BY <1>3, <1>15, <2>1, <3>1, <3>2
    <3>7. ASSUME NEW id \in Ids, Waiting(id)' PROVE ~WritesKey(Body[id], w.key)
      <4>1. id # c.id /\ Waiting(id)
        BY <1>3, <2>1, <3>7 DEF Waiting
      <4>2. ~m.prepared[id].released /\ m.prepared[id].txn = Body[id]
        BY <4>1, WaitingLocks
      <4>3. checkLocks(m, Body[c.id])
        BY <1>2, <1>10, <2>1
      <4> QED BY <1>2, <3>2, <4>2, <4>3, CheckedApart
    <3> QED BY <1>2, <1>3, <1>11, <2>1, <3>1, <3>2, <3>3, <3>4, <3>5, <3>6, <3>7 DEF NewFits
  <2>2. CASE /\ c.op = "Commit" /\ old.state \in {"Prepared", "Decided"} /\ s.state = "Committed"
             /\ p = was /\ writes = buildWriteRecords(c.id, c.cts, was.txn)
    <3>1. PICK a \in Body[c.id] : a.op \in Writes /\ w = [key |-> a.first, ts |-> c.cts, op |-> a.op, txn |-> c.id]
      BY <1>14, <1>17, <2>2 DEF buildWriteRecords
    <3>2. w.key = a.first /\ w.ts = c.cts /\ w.op = a.op /\ w.txn = c.id /\ WritesKey(Body[c.id], w.key)
      BY <3>1 DEF WritesKey
    <3>3. \A u \in writes : u.ts = c.cts
      BY <2>2, SMTT(60) DEF buildWriteRecords
    <3>4. Waiting(c.id)
      BY <2>2 DEF Waiting, old
    <3>5. \A u \in batch.writes : u.key # w.key
      BY <1>2, <3>2, <3>4 DEF ValidInv, WritesFit
    <3>6. Writer(w)'
      BY <1>2, <1>3, <1>14, <2>2, <3>2 DEF Writer
    <3>7. c.cts >= was.ts /\ \A x \in Times : x \in Int
      <4>1. c.cts >= was.ts
        BY <1>5, <2>2 DEF Ahead, was
      <4>2. \A x \in Times : x \in Int
        BY PartitionAssumption, SMTT(60) DEF Times
      <4> QED BY <4>1, <4>2
    <3>8. was.ts \in Int /\ c.cts \in Int /\ \A v \in m.db : v.ts \in Int
      BY <1>2, <3>7 DEF StableInv, TimesOK, was, ValidInv, StoredBefore
    <3>9. Fits(m.db, a.op, a.first, c.cts)
      <4>1. Fits(m.db, a.op, a.first, was.ts)
        BY <1>14, <2>2, <3>1
      <4> QED BY <3>7, <3>8, <4>1, SMTT(60) DEF Fits
    <3>10. ASSUME NEW id \in Ids, Waiting(id)' PROVE ~WritesKey(Body[id], w.key)
      <4>1. id # c.id /\ Waiting(id)
        BY <1>3, <2>2, <3>10 DEF Waiting
      <4>2. ~m.prepared[id].released /\ m.prepared[id].locks = BuildLocks(Body[id])
        BY <4>1, WaitingLocks
      <4>3. ~m.prepared[c.id].released /\ m.prepared[c.id].locks = BuildLocks(Body[c.id])
        BY <1>2, <3>4, WaitingLocks
      <4>4. AllCompatible(BuildLocks(Body[id]), BuildLocks(Body[c.id]))
        BY <1>2, <4>1, <4>2, <4>3 DEF Inv, LockExclusion
      <4> QED BY <1>2, <3>2, <4>4, WritersConflict
    <3>11. c.cts > 1
      BY <1>14, <2>2, <3>7, <3>8, SMTT(60)
    <3> QED BY <1>2, <1>3, <1>11, <2>2, <3>1, <3>2, <3>3, <3>5, <3>6, <3>9, <3>10, <3>11 DEF NewFits
  <2> QED BY <1>9, <1>17, <2>1, <2>2
<1>18. ASSUME NEW w \in batch.writes
       PROVE  NewFits(w)
  <2>1. /\ w.ts \in Times /\ w.ts > 1 /\ w.ts <= batch.maxTs /\ w.op \in Writes
        /\ Writer(w) /\ Fits(m.db, w.op, w.key, w.ts)
        /\ \A u \in batch.writes : u.key = w.key => u.ts = w.ts
        /\ \A id \in Ids : Waiting(id) => ~WritesKey(Body[id], w.key)
    BY <1>18 DEF ValidInv, WritesFit
  <2>2. Writer(w)'
    <3>1. w.txn = c.id /\ old.state = "Committed" => s = old /\ p = was
      BY <1>9
    <3>2. w.txn \in Ids /\ WritesKey(Body[w.txn], w.key)
      BY <2>1 DEF Writer
    <3>3. CASE /\ m.status[w.txn].state = "Committed" /\ ~m.prepared[w.txn].released
               /\ m.prepared[w.txn].txn = Body[w.txn]
      <4>1. m'.status[w.txn] = m.status[w.txn] /\ m'.prepared[w.txn] = m.prepared[w.txn]
        BY <1>3, <3>1, <3>2, <3>3 DEF old, was
      <4> QED BY <3>2, <3>3, <4>1 DEF Writer
    <3>4. ASSUME NEW k \in DOMAIN batch.cmds \ batch.todo, batch.cmds[k].op = "Autocommit",
                 batch.cmds[k].id = w.txn
          PROVE  Writer(w)'
      <4>1. k \in DOMAIN batch'.cmds \ batch'.todo /\ batch'.cmds[k] = batch.cmds[k]
        BY <1>3, <3>4
      <4> QED BY <3>2, <3>4, <4>1 DEF Writer
    <3> QED BY <2>1, <3>3, <3>4 DEF Writer
  <2>3. ASSUME NEW id \in Ids, Waiting(id)' PROVE ~WritesKey(Body[id], w.key)
    <3>1. CASE Waiting(id)
      BY <2>1, <3>1
    <3>2. CASE ~Waiting(id)
      <4>1. id = c.id /\ s.state \in {"Prepared", "Decided"} /\ old.state \notin {"Prepared", "Decided"}
        BY <1>3, <2>3, <3>2 DEF Waiting, old
      <4>2. c.op = "Prepare" /\ s # old
        BY <1>9, <4>1
      <4> QED BY <1>15, <4>1, <4>2
    <3> QED BY <3>1, <3>2
  <2>4. \A u \in batch'.writes : u.key = w.key => u.ts = w.ts
    BY <1>3, <1>17, <2>1
  <2> QED BY <1>3, <2>1, <2>2, <2>3, <2>4 DEF NewFits
<1>19. WritesFit'
  BY <1>3, <1>17, <1>18 DEF WritesFit, NewFits
<1> QED BY <1>13, <1>16, <1>19 DEF ValidInv

(* Versions of other keys do not matter to a key. *)
LEMMA FitsUntouched ==
    ASSUME NEW db, NEW W, NEW op, NEW key, NEW ts, Fits(db, op, key, ts), \A w \in W : w.key # key
    PROVE  Fits(db \cup W, op, key, ts)
<1>1. Live(db \cup W, key) <=> Live(db, key)
  BY DEF Live
<1> QED BY <1>1 DEF Fits

(* The versions that a batch stores are valid, and the ones before stay so. *)
LEMMA StoredValid ==
    ASSUME Inv, ValidInv
    PROVE  LET db == m.db \cup batch.writes IN
           /\ Put(m.db, batch.writes) = db
           /\ \A v \in db : v.op = "Upsert" \/ ((v.op # "Insert") = (v.ts > 1 /\ Exists(db, v.ts - 1, v.key)))
<1> DEFINE W == batch.writes
           db == m.db \cup W
<1>1. \A t \in Times : t \in Int
  BY PartitionAssumption, SMTT(60) DEF Times
<1>2. \A v \in db : v.ts \in Int /\ v.ts > 1
  BY <1>1 DEF ValidInv, StoredBefore, WritesFit
<1>3. \A v \in m.db : \A w \in W : v.key = w.key => v.ts < w.ts
  BY DEF ValidInv, WritesFit, Fits
<1>4. \A v \in m.db : \A w \in W : w.key # v.key \/ w.ts # v.ts
  BY <1>2, <1>3, SMTT(60)
<1>5. Put(m.db, W) = db
  BY <1>4 DEF Put
<1>6. ASSUME NEW v \in db PROVE Exists(db, v.ts - 1, v.key) <=> Exists(m.db, v.ts - 1, v.key)
  <2>1. v.ts - 1 # 0 /\ v.ts \in Int
    BY <1>2, <1>6, SMTT(60)
  <2>2. \A w \in W : w.key = v.key => ~(w.ts <= v.ts - 1)
    <3>1. CASE v \in m.db
      <4>1. \A w \in W : w.key = v.key => v.ts < w.ts /\ w.ts \in Int
        BY <1>2, <1>3, <3>1
      <4> QED BY <2>1, <4>1, SMTT(60)
    <3>2. CASE v \in W
      <4>1. \A w \in W : w.key = v.key => w.ts = v.ts
        BY <3>2 DEF ValidInv, WritesFit
      <4> QED BY <2>1, <4>1, SMTT(60)
    <3> QED BY <1>6, <3>1, <3>2
  <2>3. Visible(db, v.ts - 1, v.key) = Visible(m.db, v.ts - 1, v.key)
    BY <2>1, <2>2 DEF Visible
  <2> QED BY <2>3 DEF Exists, Get
<1>7. ASSUME NEW v \in m.db PROVE v.op = "Upsert" \/ ((v.op # "Insert") = (v.ts > 1 /\ Exists(db, v.ts - 1, v.key)))
  <2>1. v.op = "Upsert" \/ ((v.op # "Insert") = (v.ts > 1 /\ Exists(m.db, v.ts - 1, v.key)))
    BY DEF ValidInv, VersionsValid
  <2> QED BY <1>6, <1>7, <2>1
<1>8. ASSUME NEW v \in W PROVE v.op = "Upsert" \/ ((v.op # "Insert") = (v.ts > 1 /\ Exists(db, v.ts - 1, v.key)))
  <2>1. v.op \in Writes /\ Fits(m.db, v.op, v.key, v.ts) /\ v.ts > 1 /\ v.ts \in Int
    BY <1>2 DEF ValidInv, WritesFit
  <2>2. \A r \in m.db : r.key = v.key => r.ts <= v.ts - 1
    <3>1. \A r \in m.db : r.key = v.key => r.ts < v.ts /\ r.ts \in Int
      BY <1>2, <2>1 DEF Fits
    <3> QED BY <2>1, <3>1, SMTT(60)
  <2>3. Exists(m.db, v.ts - 1, v.key) <=> Live(m.db, v.key)
    BY <2>2, ExistsLive
  <2>4. /\ v.op = "Insert" => ~Live(m.db, v.key)
        /\ v.op \in {"Update", "Delete"} => Live(m.db, v.key)
    BY <2>1 DEF Fits
  <2>5. Exists(db, v.ts - 1, v.key) <=> Live(m.db, v.key)
    BY <1>6, <1>8, <2>3
  <2>6. v.op \in {"Insert", "Update", "Delete", "Upsert"}
    BY <2>1 DEF Writes
  <2> HIDE DEF db, W
  <2> QED BY <2>1, <2>4, <2>5, <2>6
<1> QED BY <1>5, <1>7, <1>8

(* At the end of a batch its versions are stored, at keys that no prepared  *)
(* transaction writes.                                                      *)
LEMMA EndValid ==
    ASSUME Inv, StableInv, ValidInv, EndApply
    PROVE  ValidInv'
<1> DEFINE n == FinishBatch(m, batch.writes, batch.done, batch.maxTs)
<1>1. UNCHANGED <<clock, log>> /\ batch' = NoBatch /\ m' = cleanup(n, oldest)
  BY DEF EndApply
<1>2. m'.db = m.db \cup batch.writes
  <2>1. m'.db = n.db
    BY <1>1 DEF cleanup
  <2>2. n.db = Put(m.db, batch.writes)
    BY DEF FinishBatch
  <2> QED BY <2>1, <2>2, StoredValid
<1> HIDE DEF n
<1>3. VersionsValid'
  BY <1>2, StoredValid DEF VersionsValid
<1>4. /\ NoBatch.maxTs = 0 /\ NoBatch.writes = {} /\ NoBatch.cmds = <<>>
  BY DEF NoBatch
<1>5. BatchesInOrder' /\ WritesFit'
  <2>1. BatchInOrder(NoBatch)
    BY <1>4, SMTT(60) DEF BatchInOrder, CommandsOf, ConflictInBatch
  <2> QED BY <1>1, <1>4, <2>1 DEF ValidInv, BatchesInOrder, BatchInOrder, WritesFit
<1>6. StoredBefore'
  <2>1. \A c \in Pending' : \E j \in DOMAIN log : c \in CommandsOf(log[j].cmds)
    BY <1>1, <1>4, SMTT(60) DEF Pending, CommandsOf
  <2>2. \A t \in Times : t \in Int
    BY PartitionAssumption, SMTT(60) DEF Times
  <2>3. ASSUME NEW v \in m.db PROVE \A c \in Pending' : c.op # "Commit" => v.ts < c.ts
    BY <2>1, PendingCommands DEF Inv, ValidInv, StoredBefore
  <2>4. ASSUME NEW v \in batch.writes
        PROVE  /\ v.ts \in Times /\ v.ts > 1 /\ v.ts <= clock /\ v.op \in Writes
               /\ \A c \in Pending' : c.op # "Commit" => v.ts < c.ts
    <3>1. v.ts \in Times /\ v.ts > 1 /\ v.ts <= batch.maxTs /\ v.op \in Writes
      BY DEF ValidInv, WritesFit
    <3>2. v.ts \in Int /\ batch.maxTs \in Int /\ clock \in Int /\ batch.maxTs <= clock
      BY <2>2, <3>1 DEF Inv, Typed, StableInv, ClockAhead
    <3>3. ASSUME NEW c \in Pending', c.op # "Commit" PROVE v.ts < c.ts
      <4>1. PICK j \in DOMAIN log : c \in CommandsOf(log[j].cmds)
        BY <2>1
      <4>2. c.ts > batch.maxTs
        BY <3>3, <4>1 DEF StableInv, LogOrdered, StampedAfter
      <4>3. c.ts \in Int
        BY <2>2, <4>1, PendingCommands DEF Inv, Commands
      <4> QED BY <3>1, <3>2, <4>2, <4>3, SMTT(60)
    <3> QED BY <3>1, <3>2, <3>3, SMTT(60)
  <2> QED BY <1>1, <1>2, <2>3, <2>4 DEF ValidInv, StoredBefore
<1>7. PreparedFits'
  <2> SUFFICES ASSUME NEW id \in Ids, Waiting(id)'
               PROVE  /\ m'.prepared[id].present /\ m'.prepared[id].ts > 1
                      /\ \A a \in Body[id] : a.op \in Writes => Fits(m'.db, a.op, a.first, m'.prepared[id].ts)
    BY DEF PreparedFits
  <2>1. EndStep(id)
    BY EndApplyStep DEF Inv
  <2>2. NoStatus.state = "none"
    BY DEF NoStatus, Status
  <2>3. m'.status[id] = m.status[id] /\ Waiting(id)
    BY <2>1, <2>2 DEF EndStep, Waiting
  <2>4. id \notin batch.done
    BY <2>3 DEF StableInv, PreparedAhead, Waiting
  <2>5. m'.prepared[id] = m.prepared[id]
    BY <2>1, <2>3, <2>4 DEF EndStep, IsFinal, FinalStates, Waiting
  <2>6. ASSUME NEW a \in Body[id], a.op \in Writes PROVE Fits(m'.db, a.op, a.first, m.prepared[id].ts)
    <3>1. Fits(m.db, a.op, a.first, m.prepared[id].ts)
      BY <2>3, <2>6 DEF ValidInv, PreparedFits
    <3>2. WritesKey(Body[id], a.first)
      BY <2>6 DEF WritesKey
    <3>3. \A w \in batch.writes : w.key # a.first
      BY <2>3, <3>2 DEF ValidInv, WritesFit
    <3>4. Fits(m.db \cup batch.writes, a.op, a.first, m.prepared[id].ts)
      BY <3>1, <3>3, FitsUntouched
    <3> QED BY <1>2, <3>4
  <2> QED BY <2>3, <2>5, <2>6 DEF ValidInv, PreparedFits
<1> QED BY <1>3, <1>5, <1>6, <1>7 DEF ValidInv

(* A new batch is stamped after all that is stored, within its              *)
(* maxTimestamp, and does not conflict with itself.                         *)
LEMMA FlushValid ==
    ASSUME Inv, StableInv, ValidInv, DistinctBatches, NEW n \in Nat, NEW cs \in [1 .. n -> Requests],
           NEW bump \in BOOLEAN, Flush(cs, bump)
    PROVE  ValidInv'
<1> DEFINE base == Merged(cs)
           last == base + Ticks(cs)
           S == {0} \cup {cs[i].cts : i \in {j \in DOMAIN cs : cs[j].op = "Commit"}}
                    \cup (IF Stamped(cs) = {} THEN {} ELSE {last})
                    \cup (IF bump THEN {rd.ts} ELSE {})
           b == [cmds |-> Stamp(cs, base), todo |-> DOMAIN cs, writes |-> {},
                 done |-> {}, maxTs |-> Maximum(S), bumps |-> bump, active |-> TRUE]
<1>1. /\ clock' = last /\ log' = Append(log, b) /\ last <= MaxClock
      /\ ~ConflictInBatch(cs) /\ UNCHANGED <<m, batch>>
  BY DEF Flush, DistinctBatches
<1>2. cs \in [1 .. n -> Commands] /\ DOMAIN cs = 1 .. n
  BY RequestsAreCommands
<1>3. /\ clock \in Times /\ rd.ts \in Times /\ MaxClock \in Nat /\ 0 \in Times
      /\ \A i \in 1 .. n : cs[i].cts \in Times
      /\ \A x \in Times : x \in Nat /\ x <= MaxClock
  BY <1>2, PartitionAssumption, SMTT(60) DEF Inv, Typed, Times, Commands
<1>4. base \in Nat /\ clock <= base
  <2> DEFINE C == {clock} \cup {cs[i].cts : i \in DOMAIN cs}
  <2>1. C \subseteq 0 .. MaxClock /\ C # {} /\ base = Maximum(C)
    BY <1>2, <1>3 DEF Merged, Times
  <2>2. clock \in C
    OBVIOUS
  <2> HIDE DEF C, base
  <2>3. base \in C /\ \A y \in C : y <= base
    BY <1>3, <2>1, MaximumInSet
  <2>4. \A x \in C : x \in Nat
    BY <1>3, <2>1, SMTT(60)
  <2>5. base \in Nat
    BY <2>3, <2>4
  <2> QED BY <2>2, <2>3, <2>5
<1> HIDE DEF base
<1>5. Ticks(cs) \in Nat
  BY <1>2, StampBound
<1>6. last \in Nat /\ base <= last /\ last \in 0 .. MaxClock
  BY <1>1, <1>3, <1>4, <1>5, SMTT(60)
<1>7. \A i \in 1 .. n : /\ b.cmds[i].op = cs[i].op /\ b.cmds[i].id = cs[i].id /\ b.cmds[i].cts = cs[i].cts
                        /\ cs[i].op # "Commit" => b.cmds[i].ts > base /\ b.cmds[i].ts <= last
  BY <1>2, <1>4, StampFields
<1>8. b.cmds \in Seq(Commands) /\ DOMAIN b.cmds = 1 .. n
  BY <1>1, <1>2, <1>4, StampedCommands
<1> HIDE DEF last
<1>9. \A y \in S : y <= b.maxTs
  <2>1. S \subseteq 0 .. MaxClock /\ S # {}
    BY <1>2, <1>3, <1>6 DEF Times
  <2> HIDE DEF S
  <2> QED BY <1>3, <2>1, MaximumInSet
<1>10. /\ \A i \in 1 .. n : cs[i].op = "Commit" => cs[i].cts <= b.maxTs
       /\ \A i \in 1 .. n : cs[i].op # "Commit" => last <= b.maxTs
  <2>1. \A i \in 1 .. n : cs[i].op = "Commit" => cs[i].cts \in S
    BY <1>2
  <2>2. \A i \in 1 .. n : cs[i].op # "Commit" => last \in S
    BY <1>2 DEF Stamped
  <2> HIDE DEF S, b
  <2> QED BY <1>9, <2>1, <2>2
<1>11. b.maxTs \in Nat
  <2>1. S \subseteq 0 .. MaxClock /\ S # {}
    BY <1>2, <1>3, <1>6 DEF Times
  <2> HIDE DEF S
  <2>2. Maximum(S) \in S
    BY <1>3, <2>1, MaximumInSet
  <2>3. \A x \in S : x \in Nat
    BY <1>3, <2>1, SMTT(60)
  <2> QED BY <2>2, <2>3
<1> HIDE DEF S, b
<1>12. ASSUME NEW c \in CommandsOf(b.cmds)
       PROVE  /\ c.op = "Commit" => c.cts <= b.maxTs
              /\ c.op # "Commit" => c.ts > 1 /\ c.ts <= b.maxTs /\ \A x \in Nat : x <= clock => x < c.ts
  <2>1. PICK i \in 1 .. n : c = b.cmds[i]
    BY <1>8 DEF CommandsOf
  <2>2. c \in Commands
    BY <1>8, <2>1, SMTT(60)
  <2>3. c.ts \in Nat
    BY <1>3, <2>2 DEF Commands
  <2>4. clock >= 1
    BY DEF ValidInv, StoredBefore
  <2>5. /\ c.op = "Commit" => c.cts <= b.maxTs
        /\ c.op # "Commit" => c.ts > base /\ c.ts <= last /\ last <= b.maxTs
    BY <1>7, <1>10, <2>1
  <2>6. clock \in Nat
    BY <1>3
  <2> QED BY <1>4, <1>6, <1>11, <2>3, <2>4, <2>5, <2>6, SMTT(60)
<1>13. ~ConflictInBatch(b.cmds)
  <2>1. \A i \in 1 .. n : cs[i].txn = Body[cs[i].id]
    BY <1>2 DEF Commands
  <2>2. \A i \in 1 .. n : b.cmds[i].txn = Body[b.cmds[i].id]
    BY <1>8, SMTT(60) DEF Commands
  <2>3. \A i \in 1 .. n : b.cmds[i].txn = cs[i].txn /\ b.cmds[i].op = cs[i].op
    BY <1>7, <2>1, <2>2
  <2> QED BY <1>1, <1>2, <1>8, <2>3 DEF ConflictInBatch
<1>14. /\ log \in Seq(QueuedBatches)
       /\ \A i \in DOMAIN log' : \/ i \in DOMAIN log /\ log'[i] = log[i]
                                 \/ log'[i] = b
  BY <1>1, SMTT(60) DEF Inv, Typed
<1>15. BatchesInOrder'
  <2>1. BatchInOrder(b)
    BY <1>12, <1>13 DEF BatchInOrder
  <2>2. \A i \in DOMAIN log' : BatchInOrder(log'[i])
    BY <1>14, <2>1 DEF ValidInv, BatchesInOrder
  <2>3. BatchInOrder(batch')
    BY <1>1 DEF ValidInv, BatchesInOrder
  <2> QED BY <2>2, <2>3 DEF BatchesInOrder, BatchInOrder, CommandsOf, ConflictInBatch
<1>16. StoredBefore'
  <2>1. \A c \in Pending' : \/ c \in CommandsOf(batch'.cmds)
                            \/ \E i \in DOMAIN log' : c \in CommandsOf(log'[i].cmds)
    BY DEF Pending, CommandsOf
  <2>2. CommandsOf(batch'.cmds) = CommandsOf(batch.cmds)
    BY <1>1
  <2>3. \A c \in Pending' : c \in Pending \/ c \in CommandsOf(b.cmds)
    <3>1. \A i \in DOMAIN log' : CommandsOf(log'[i].cmds) = CommandsOf(b.cmds) \/
                                 (i \in DOMAIN log /\ CommandsOf(log'[i].cmds) = CommandsOf(log[i].cmds))
      BY <1>14
    <3>2. CommandsOf(batch.cmds) \subseteq Pending /\ \A i \in DOMAIN log : CommandsOf(log[i].cmds) \subseteq Pending
      BY PendingCommands DEF Inv, Pending
    <3> QED BY <2>1, <2>2, <3>1, <3>2
  <2>4. clock <= clock' /\ clock' \in Nat
    BY <1>1, <1>3, <1>4, <1>6, SMTT(60)
  <2>5. clock' >= 1
    BY <1>3, <2>4, SMTT(60) DEF ValidInv, StoredBefore
  <2>6. ASSUME NEW v \in m.db
        PROVE  /\ v.ts \in Times /\ v.ts > 1 /\ v.ts <= clock' /\ v.op \in Writes
               /\ \A c \in Pending' : c.op # "Commit" => v.ts < c.ts
    <3>1. /\ v.ts \in Times /\ v.ts > 1 /\ v.ts <= clock /\ v.op \in Writes
          /\ \A c \in Pending : c.op # "Commit" => v.ts < c.ts
      BY DEF ValidInv, StoredBefore
    <3>2. v.ts \in Nat /\ clock \in Nat
      BY <1>3, <3>1
    <3>3. \A c \in CommandsOf(b.cmds) : c.op # "Commit" => v.ts < c.ts
      BY <1>12, <3>1, <3>2
    <3>4. v.ts <= clock'
      BY <2>4, <3>1, <3>2, SMTT(60)
    <3> QED BY <2>3, <3>1, <3>3, <3>4
  <2> QED BY <1>1, <2>5, <2>6 DEF StoredBefore
<1>17. PreparedFits' /\ WritesFit' /\ VersionsValid'
  BY <1>1 DEF ValidInv, PreparedFits, WritesFit, VersionsValid, Waiting, Writer
<1> QED BY <1>15, <1>16, <1>17 DEF ValidInv

(* Taking a batch off the log keeps what is validated. *)
LEMMA BeginValid ==
    ASSUME Inv, ValidInv, BeginApply
    PROVE  ValidInv'
<1>1. /\ batch = NoBatch /\ log # <<>> /\ batch' = Head(log) /\ log' = Tail(log)
      /\ UNCHANGED <<m, clock>>
  BY DEF BeginApply
<1>2. log \in Seq(QueuedBatches) /\ Len(log) \in Nat /\ Len(log) >= 1
  BY <1>1, SMTT(60) DEF Inv, Typed
<1>3. /\ batch' = log[1] /\ 1 \in DOMAIN log
      /\ \A i \in DOMAIN log' : i + 1 \in DOMAIN log /\ log'[i] = log[i + 1]
  BY <1>1, <1>2, SMTT(60)
<1>4. Pending' \subseteq Pending
  <2>1. \A c \in Pending' : \/ c \in CommandsOf(batch'.cmds)
                            \/ \E i \in DOMAIN log' : c \in CommandsOf(log'[i].cmds)
    BY DEF Pending, CommandsOf
  <2>2. \A i \in DOMAIN log : CommandsOf(log[i].cmds) \subseteq Pending
    BY PendingCommands DEF Inv
  <2>3. CommandsOf(batch'.cmds) = CommandsOf(log[1].cmds)
    BY <1>3
  <2>4. \A i \in DOMAIN log' : CommandsOf(log'[i].cmds) = CommandsOf(log[i + 1].cmds)
    BY <1>3
  <2> QED BY <1>3, <2>1, <2>2, <2>3, <2>4
<1>5. StoredBefore'
  BY <1>1, <1>4 DEF ValidInv, StoredBefore
<1>6. BatchesInOrder'
  <2>1. \A i \in DOMAIN log : BatchInOrder(log[i])
    BY DEF ValidInv, BatchesInOrder
  <2>2. BatchInOrder(batch') /\ \A i \in DOMAIN log' : BatchInOrder(log'[i])
    BY <1>3, <2>1
  <2> QED BY <2>2 DEF BatchesInOrder, BatchInOrder, CommandsOf, ConflictInBatch
<1>7. WritesFit'
  <2>1. batch'.writes = {}
    BY <1>3, PendingCommands DEF Inv, QueuedBatches
  <2> QED BY <2>1 DEF WritesFit
<1>8. PreparedFits' /\ VersionsValid'
  BY <1>1 DEF ValidInv, PreparedFits, VersionsValid, Waiting
<1> QED BY <1>5, <1>6, <1>7, <1>8 DEF ValidInv

(* The steps that leave the manager, the log and the batch alone. *)
LEMMA IdleValid ==
    ASSUME ValidInv, UNCHANGED <<m, log, batch>>, clock \in Int, clock' \in Int, clock <= clock', \A t \in Times : t \in Int
    PROVE  ValidInv'
<1>1. Pending' = Pending
  BY DEF Pending
<1>2. StoredBefore'
  <2>1. \A v \in m.db : v.ts \in Int
    BY DEF ValidInv, StoredBefore
  <2> QED BY <1>1, <2>1, SMTT(60) DEF ValidInv, StoredBefore
<1>3. BatchesInOrder' /\ PreparedFits' /\ WritesFit' /\ VersionsValid'
  BY DEF ValidInv, BatchesInOrder, BatchInOrder, PreparedFits, WritesFit, VersionsValid, Waiting, Writer
<1> QED BY <1>2, <1>3 DEF ValidInv

(* No step breaks ValidInv. *)
LEMMA ValidNext ==
    ASSUME Inv, Rebuildable, StableInv, ValidInv, DistinctBatches, [Next]_vars
    PROVE  ValidInv'
<1>1. clock \in Int /\ \A x \in Times : x \in Int
  BY PartitionAssumption, SMTT(60) DEF Inv, Typed, Times
<1>2. ASSUME NEW n \in 0 .. MaxBatchSize, NEW cs \in [1 .. n -> Requests], NEW bump \in BOOLEAN, Flush(cs, bump)
      PROVE  ValidInv'
  <2>1. n \in Nat
    BY PartitionAssumption, SMTT(60)
  <2> QED BY <1>2, <2>1, FlushValid
<1>3. CASE BeginApply
  BY <1>3, BeginValid
<1>4. CASE ApplyCommand
  BY <1>4, CommandValid
<1>5. CASE EndApply
  BY <1>5, EndValid
<1>6. ASSUME NEW q \in Queries, NEW ts \in Stamps, SnapshotRead(q, ts) PROVE ValidInv'
  <2>1. clock' = Maximum({clock, ts}) /\ UNCHANGED <<m, log, batch>>
    BY <1>6 DEF SnapshotRead
  <2>2. ts \in Int
    BY PartitionAssumption, SMTT(60) DEF Stamps
  <2>3. clock' \in Int /\ clock <= clock'
    BY <1>1, <2>1, <2>2, MaximumOfTwo
  <2> QED BY <1>1, <2>1, <2>3, IdleValid
<1>7. CASE Recheck \/ (\E q \in Queries : ReadOnly(q)) \/ UNCHANGED vars
  <2>1. UNCHANGED <<m, log, batch, clock>>
    BY <1>7 DEF Recheck, ReadOnly, vars
  <2>2. clock' \in Int /\ clock <= clock'
    BY <1>1, <2>1, SMTT(60)
  <2> QED BY <1>1, <2>1, <2>2, IdleValid
<1>8. ~Age /\ ~ChangeLeader
  BY SMTT(60) DEF DistinctBatches, OneLeader, StableInv, TimesOK, Age, ChangeLeader
<1> QED BY <1>2, <1>3, <1>4, <1>5, <1>6, <1>7, <1>8 DEF Next

(* Nothing is prepared or written in the initial state. *)
LEMMA ValidInit ==
    ASSUME Init
    PROVE  ValidInv
<1>1. clock = 1 /\ log = <<>> /\ batch = NoBatch
  BY DEF Init
<1>2. m = [status |-> [id \in Ids |-> NoStatus], prepared |-> [id \in Ids |-> NoPrepared],
           maxTs |-> 1, db |-> {}]
  BY DEF Init, NewManager
<1>3. m.db = {} /\ \A id \in Ids : m.status[id] = NoStatus
  BY <1>2
<1>4. NoStatus.state = "none" /\ NoBatch.writes = {} /\ NoBatch.cmds = <<>>
  BY DEF NoStatus, Status, NoBatch
<1>5. StoredBefore /\ VersionsValid
  BY <1>1, <1>3, SMTT(60) DEF StoredBefore, VersionsValid
<1>6. BatchesInOrder
  BY <1>1, <1>4, SMTT(60) DEF BatchesInOrder, BatchInOrder, CommandsOf, ConflictInBatch
<1>7. PreparedFits /\ WritesFit
  BY <1>1, <1>3, <1>4 DEF PreparedFits, WritesFit, Waiting
<1> QED BY <1>5, <1>6, <1>7 DEF ValidInv

(* Every stored version follows on the one before it as its action demands, *)
(* for any transactions and batches under one leader: what validate found   *)
(* stays true until the versions are stored, since the transaction's locks  *)
(* keep others off its keys and every timestamp given out is beyond the     *)
(* versions stored before (validate, checkLocks, prepareBatch).             *)
THEOREM VersionsFollow == DistinctBatches => (Spec => []VersionsValid)
<1>1. Init => StableInv /\ ReaderKnown /\ ValidInv
  BY StableInit, ValidInit
<1>2. ASSUME DistinctBatches
      PROVE  Spec => []VersionsValid
  <2>1. /\ Inv /\ Rebuildable /\ ReaderKnown /\ StableInv /\ ValidInv /\ [Next]_vars =>
               StableInv' /\ ReaderKnown' /\ ValidInv'
    BY <1>2, StableNext, ReaderNext, ValidNext DEF DistinctBatches
  <2>2. ValidInv => VersionsValid
    BY DEF ValidInv
  <2> QED BY <1>1, <2>1, <2>2, Invariance, RebuildableInvariant, PTL DEF Spec
<1> QED BY <1>2
=============================================================================
