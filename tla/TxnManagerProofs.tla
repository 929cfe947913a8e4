-------------------------- MODULE TxnManagerProofs --------------------------
(***************************************************************************)
(* What a command can do to the state of a transaction manager, proved for *)
(* every state and every command.  The proofs about Partition.tla and      *)
(* TwoPhaseCommit.tla cite these facts instead of the code of              *)
(* manager_apply.go.                                                       *)
(***************************************************************************)
EXTENDS TxnManager, TLAPS

CommandOps == {"Abort", "MarkTimedout", "Commit", "Autocommit", "Prepare", "StoreDecision"}

(* The layout of the manager's state for the transactions in I. *)
Shape(m, I) ==
    /\ m = [status |-> m.status, prepared |-> m.prepared, maxTs |-> m.maxTs, db |-> m.db]
    /\ m.status = [i \in I |-> m.status[i]]
    /\ m.prepared = [i \in I |-> m.prepared[i]]
    /\ \A i \in I : m.prepared[i] =
          [present |-> m.prepared[i].present, txn |-> m.prepared[i].txn,
           pids |-> m.prepared[i].pids, ts |-> m.prepared[i].ts,
           locks |-> m.prepared[i].locks, released |-> m.prepared[i].released,
           decision |-> m.prepared[i].decision]
    /\ \A i \in I : m.prepared[i].released \in BOOLEAN /\ m.status[i].state \in States

(* n differs from m at most in transaction id, whose entries are s and p. *)
Updated(m, n, id, s, p) ==
    n = [status |-> [m.status EXCEPT ![id] = s], prepared |-> [m.prepared EXCEPT ![id] = p],
         maxTs |-> m.maxTs, db |-> m.db]

(* SetStatus and SetPrepared write one entry of one map. *)
LEMMA SetStatusUpdates ==
    ASSUME NEW m, NEW I, NEW id \in I, NEW s, Shape(m, I)
    PROVE  Updated(m, SetStatus(m, id, s), id, s, m.prepared[id])
<1>1. m.prepared = [m.prepared EXCEPT ![id] = m.prepared[id]]
  <2>1. m.prepared = [i \in I |-> m.prepared[i]]
    BY DEF Shape
  <2> QED BY <2>1
<1>2. SetStatus(m, id, s) = [status |-> [m.status EXCEPT ![id] = s], prepared |-> m.prepared,
                             maxTs |-> m.maxTs, db |-> m.db]
  <2>1. m = [status |-> m.status, prepared |-> m.prepared, maxTs |-> m.maxTs, db |-> m.db]
    BY DEF Shape
  <2> QED BY <2>1 DEF SetStatus
<1> QED BY <1>1, <1>2 DEF Updated

(* Setting an entry of the prepared map updates that entry only. *)
LEMMA SetPreparedUpdates ==
    ASSUME NEW m, NEW I, NEW id \in I, NEW p, Shape(m, I)
    PROVE  Updated(m, SetPrepared(m, id, p), id, m.status[id], p)
BY DEF Shape, Updated, SetPrepared

(* Setting both entries of a transaction updates these only. *)
LEMMA SetBothUpdates ==
    ASSUME NEW m, NEW I, NEW id \in I, NEW s, NEW p, Shape(m, I)
    PROVE  Updated(m, SetPrepared(SetStatus(m, id, s), id, p), id, s, p)
<1> DEFINE n == SetStatus(m, id, s)
<1>1. Updated(m, n, id, s, m.prepared[id])
  BY SetStatusUpdates
<1> HIDE DEF n
<1>2. n = [status |-> [m.status EXCEPT ![id] = s], prepared |-> n.prepared,
           maxTs |-> m.maxTs, db |-> m.db]
  BY <1>1 DEF Updated
<1>3. n.prepared = m.prepared
  <2>1. m.prepared = [i \in I |-> m.prepared[i]]
    BY DEF Shape
  <2>2. [m.prepared EXCEPT ![id] = m.prepared[id]] = m.prepared
    BY <2>1
  <2>3. n.prepared = [m.prepared EXCEPT ![id] = m.prepared[id]]
    BY <1>1 DEF Updated
  <2> QED BY <2>2, <2>3
<1>4. SetPrepared(n, id, p) = [status |-> [m.status EXCEPT ![id] = s],
                               prepared |-> [m.prepared EXCEPT ![id] = p],
                               maxTs |-> m.maxTs, db |-> m.db]
  BY <1>2, <1>3 DEF SetPrepared
<1> QED BY <1>4 DEF Updated, n

(* Releasing the locks of a transaction updates its entries only. *)
LEMMA ReleaseUpdates ==
    ASSUME NEW m, NEW I, NEW id \in I, NEW s, Shape(m, I)
    PROVE  /\ Updated(m, releaseLocks(m, id), id, m.status[id], Released(m.prepared[id]))
           /\ Updated(m, SetStatus(releaseLocks(m, id), id, s), id, s, Released(m.prepared[id]))
<1> DEFINE n == releaseLocks(m, id)
<1>1. Updated(m, n, id, m.status[id], Released(m.prepared[id]))
  BY SetPreparedUpdates DEF releaseLocks
<1> HIDE DEF n
<1>2. n.status = m.status
  <2>1. m.status = [i \in I |-> m.status[i]]
    BY DEF Shape
  <2>2. [m.status EXCEPT ![id] = m.status[id]] = m.status
    BY <2>1
  <2>3. n.status = [m.status EXCEPT ![id] = m.status[id]]
    BY <1>1 DEF Updated
  <2> QED BY <2>2, <2>3
<1>3. n = [status |-> n.status, prepared |-> [m.prepared EXCEPT ![id] = Released(m.prepared[id])],
           maxTs |-> m.maxTs, db |-> m.db]
  BY <1>1 DEF Updated
<1>4. SetStatus(n, id, s) = [status |-> [m.status EXCEPT ![id] = s],
                             prepared |-> [m.prepared EXCEPT ![id] = Released(m.prepared[id])],
                             maxTs |-> m.maxTs, db |-> m.db]
  BY <1>2, <1>3 DEF SetStatus
<1> QED BY <1>1, <1>4 DEF Updated, n

-----------------------------------------------------------------------------
(* What each command does, if it does anything. *)

NewPrepared(c) ==
    [present |-> TRUE, txn |-> c.txn, pids |-> c.pids, ts |-> c.ts,
     locks |-> BuildLocks(c.txn), released |-> FALSE, decision |-> 0]

Untouched(m, r) == r.m = m /\ r.done = {}

Autocommits(m, c, r) ==
    /\ m.status[c.id].state = "none" /\ checkLocks(m, c.txn)
    /\ Updated(m, r.m, c.id, newStatus(c.ts, "Committed"), m.prepared[c.id])
    /\ r.done = {}

Prepares(m, c, r) ==
    /\ m.status[c.id].state = "none" /\ checkLocks(m, c.txn)
    /\ Updated(m, r.m, c.id, newStatus(c.ts, "Prepared"), NewPrepared(c))
    /\ r.done = {}

CommittedStatus(m, c) == [newStatus(c.cts, "Committed") EXCEPT !.pids = m.prepared[c.id].pids]

Commits(m, c, r) ==
    /\ \/ m.status[c.id].state = "Prepared" /\ c.cts >= m.status[c.id].ts
       \/ m.status[c.id].state = "Decided" /\ c.cts = m.prepared[c.id].decision
    /\ Updated(m, r.m, c.id, CommittedStatus(m, c), m.prepared[c.id])
    /\ r.done = {c.id}

Aborts(m, c, r) ==
    /\ m.status[c.id].state = "Prepared"
    /\ Updated(m, r.m, c.id, newStatus(c.ts, "Aborted"), Released(m.prepared[c.id]))
    /\ r.done = {}

Decides(m, c, r) ==
    /\ m.status[c.id].state = "Prepared" /\ c.cts >= m.status[c.id].ts
    /\ Updated(m, r.m, c.id, newStatus(c.ts, "Decided"), [m.prepared[c.id] EXCEPT !.decision = c.cts])
    /\ r.done = {}

TimesOut(m, c, r) ==
    /\ m.status[c.id].state = "Prepared"
    /\ Updated(m, r.m, c.id, newStatus(c.ts, "Timedout"), m.prepared[c.id])
    /\ r.done = {}

Releases(m, c, r) ==
    /\ m.status[c.id].state = "Timedout"
    /\ Updated(m, r.m, c.id, m.status[c.id], Released(m.prepared[c.id]))
    /\ r.done = {}

(* An autocommit that is not admitted changes nothing. *)
LEMMA AutocommitEffect ==
    ASSUME NEW m, NEW I, NEW c, c.id \in I, Shape(m, I)
    PROVE  LET r == applyAutocommit(m, c) IN Untouched(m, r) \/ Autocommits(m, c, r)
<1> DEFINE s == newStatus(c.ts, "Committed")
<1>1. Updated(m, SetStatus(m, c.id, s), c.id, s, m.prepared[c.id])
  BY SetStatusUpdates
<1>2. CASE Admission(m, c) = "admit"
  <2>1. m.status[c.id].state = "none" /\ checkLocks(m, c.txn)
    BY <1>2 DEF Admission, Shape, States, FinalStates
  <2> QED BY <1>1, <1>2, <2>1 DEF applyAutocommit, Applied, Autocommits
<1>3. CASE Admission(m, c) # "admit"
  BY <1>3 DEF applyAutocommit, Untouched, Applied, Return, Error
<1> QED BY <1>2, <1>3

(* What applyPrepare does. *)
LEMMA PrepareEffect ==
    ASSUME NEW m, NEW I, NEW c, c.id \in I, Shape(m, I)
    PROVE  LET r == applyPrepare(m, c) IN Untouched(m, r) \/ Prepares(m, c, r)
<1> DEFINE s == newStatus(c.ts, "Prepared")
<1>1. Updated(m, SetPrepared(SetStatus(m, c.id, s), c.id, NewPrepared(c)), c.id, s, NewPrepared(c))
  BY SetBothUpdates
<1>2. CASE Admission(m, c) = "admit"
  <2>1. m.status[c.id].state = "none" /\ checkLocks(m, c.txn)
    BY <1>2 DEF Admission, Shape, States, FinalStates
  <2> QED BY <1>1, <1>2, <2>1 DEF applyPrepare, Applied, Return, Prepares, NewPrepared
<1>3. CASE Admission(m, c) # "admit"
  BY <1>3 DEF applyPrepare, Untouched, Applied, Return, Error
<1> QED BY <1>2, <1>3

(* What applyCommit does. *)
LEMMA CommitEffect ==
    ASSUME NEW m, NEW I, NEW c, c.id \in I, Shape(m, I)
    PROVE  LET r == applyCommit(m, c) IN Untouched(m, r) \/ Commits(m, c, r)
<1>1. Updated(m, SetStatus(m, c.id, CommittedStatus(m, c)), c.id, CommittedStatus(m, c), m.prepared[c.id])
  BY SetStatusUpdates
<1>2. Found(m, c) # "none" => Found(m, c) = m.status[c.id].state
  BY DEF Found
<1>3. Found(m, c) # "none" => Found(m, c) \in States
  BY <1>2 DEF Shape
<1> QED BY <1>1, <1>2, <1>3 DEF applyCommit, Applied, Return, Error, Commits, Untouched, CommittedStatus

(* What applyAbort does. *)
LEMMA AbortEffect ==
    ASSUME NEW m, NEW I, NEW c, c.id \in I, Shape(m, I)
    PROVE  LET r == applyAbort(m, c) IN Untouched(m, r) \/ Aborts(m, c, r)
<1> DEFINE s == newStatus(c.ts, "Aborted")
<1>1. Updated(m, SetStatus(releaseLocks(m, c.id), c.id, s), c.id, s, Released(m.prepared[c.id]))
  BY ReleaseUpdates
<1>2. Found(m, c) # "none" => Found(m, c) = m.status[c.id].state
  BY DEF Found
<1> QED BY <1>1, <1>2 DEF applyAbort, Applied, Return, Error, Aborts, Untouched

(* What applyStoreDecision does. *)
LEMMA StoreDecisionEffect ==
    ASSUME NEW m, NEW I, NEW c, c.id \in I, Shape(m, I), NEW pid
    PROVE  LET r == applyStoreDecision(m, pid, c) IN Untouched(m, r) \/ Decides(m, c, r)
<1> DEFINE s == newStatus(c.ts, "Decided")
           p == [m.prepared[c.id] EXCEPT !.decision = c.cts]
<1>1. Updated(m, SetPrepared(SetStatus(m, c.id, s), c.id, p), c.id, s, p)
  BY SetBothUpdates
<1>2. FoundAtPrincipal(m, pid, c) \notin {"none", "denied"} => FoundAtPrincipal(m, pid, c) = m.status[c.id].state
  BY DEF Found, FoundAtPrincipal
<1> HIDE DEF p
<1>3. ASSUME FoundAtPrincipal(m, pid, c) = "Prepared", c.cts >= m.status[c.id].ts
      PROVE  Decides(m, c, applyStoreDecision(m, pid, c))
  BY <1>1, <1>2, <1>3 DEF applyStoreDecision, Applied, Return, Decides, p
<1>4. ASSUME ~(FoundAtPrincipal(m, pid, c) = "Prepared" /\ c.cts >= m.status[c.id].ts)
      PROVE  Untouched(m, applyStoreDecision(m, pid, c))
  BY <1>4 DEF applyStoreDecision, Applied, Return, Error, Untouched
<1> QED BY <1>3, <1>4

(* What applyMarkTimedout does. *)
LEMMA MarkTimedoutEffect ==
    ASSUME NEW m, NEW I, NEW c, c.id \in I, Shape(m, I), NEW pid
    PROVE  LET r == applyMarkTimedout(m, pid, c) IN
           Untouched(m, r) \/ TimesOut(m, c, r) \/ Releases(m, c, r)
<1> DEFINE s == newStatus(c.ts, "Timedout")
<1>1. /\ Updated(m, SetStatus(m, c.id, s), c.id, s, m.prepared[c.id])
      /\ Updated(m, releaseLocks(m, c.id), c.id, m.status[c.id], Released(m.prepared[c.id]))
  BY SetStatusUpdates, ReleaseUpdates, Zenon
<1>2. FoundAtPrincipal(m, pid, c) \notin {"none", "denied"} => FoundAtPrincipal(m, pid, c) = m.status[c.id].state
  BY DEF Found, FoundAtPrincipal
<1> QED BY <1>1, <1>2 DEF applyMarkTimedout, Applied, Return, Error, TimesOut, Releases, Untouched

(* A command either changes nothing or is one of the seven transitions of   *)
(* the transaction it is for.                                               *)
THEOREM ApplyEffect ==
    ASSUME NEW m, NEW I, NEW c, c.id \in I, c.op \in CommandOps, Shape(m, I), NEW pid
    PROVE  LET r == Apply(m, pid, c) IN
           \/ Untouched(m, r) \/ Autocommits(m, c, r) \/ Prepares(m, c, r) \/ Commits(m, c, r)
           \/ Aborts(m, c, r) \/ Decides(m, c, r) \/ TimesOut(m, c, r) \/ Releases(m, c, r)
BY AutocommitEffect, PrepareEffect, CommitEffect, AbortEffect, StoreDecisionEffect, MarkTimedoutEffect
   DEF Apply, CommandOps

-----------------------------------------------------------------------------
(* A record of the prepared map. *)
IsPrepared(p) ==
    /\ p = [present |-> p.present, txn |-> p.txn, pids |-> p.pids, ts |-> p.ts,
            locks |-> p.locks, released |-> p.released, decision |-> p.decision]
    /\ p.released \in BOOLEAN

(* The fields of an entry whose locks were released. *)
LEMMA ReleasedFields ==
    ASSUME NEW p, IsPrepared(p)
    PROVE  /\ IsPrepared(Released(p)) /\ Released(p).released = TRUE /\ Released(p).decision = p.decision
           /\ Released(p).locks = {} /\ Released(p).present = p.present /\ Released(p).ts = p.ts
           /\ Released(p).txn = p.txn
<1> DEFINE q == [p EXCEPT !.locks = {}]
<1>1. Released(p) = [present |-> p.present, txn |-> p.txn, pids |-> p.pids, ts |-> p.ts,
                     locks |-> {}, released |-> TRUE, decision |-> p.decision]
  <2>1. p = [present |-> p.present, txn |-> p.txn, pids |-> p.pids, ts |-> p.ts,
             locks |-> p.locks, released |-> p.released, decision |-> p.decision]
    BY DEF IsPrepared
  <2>2. q = [present |-> p.present, txn |-> p.txn, pids |-> p.pids, ts |-> p.ts,
             locks |-> {}, released |-> p.released, decision |-> p.decision]
    BY <2>1
  <2> HIDE DEF q
  <2>3. \A v : [q EXCEPT !.released = v] =
            [present |-> p.present, txn |-> p.txn, pids |-> p.pids, ts |-> p.ts,
             locks |-> {}, released |-> v, decision |-> p.decision]
    BY <2>2
  <2> QED BY <2>3, Zenon DEF Released, q
<1> QED BY <1>1 DEF IsPrepared

(* The fields of an entry that got a decision. *)
LEMMA DecidedFields ==
    ASSUME NEW p, IsPrepared(p), NEW d
    PROVE  LET q == [p EXCEPT !.decision = d]
           IN  /\ IsPrepared(q) /\ q.released = p.released /\ q.locks = p.locks
               /\ q.decision = d /\ q.present = p.present /\ q.ts = p.ts /\ q.txn = p.txn
<1> DEFINE q == [p EXCEPT !.decision = d]
<1>1. q = [present |-> p.present, txn |-> p.txn, pids |-> p.pids, ts |-> p.ts,
           locks |-> p.locks, released |-> p.released, decision |-> d]
  <2>1. p = [present |-> p.present, txn |-> p.txn, pids |-> p.pids, ts |-> p.ts,
             locks |-> p.locks, released |-> p.released, decision |-> p.decision]
    BY DEF IsPrepared
  <2> QED BY <2>1
<1> HIDE DEF q
<1>2. /\ IsPrepared(q) /\ q.released = p.released /\ q.locks = p.locks
      /\ q.decision = d /\ q.present = p.present /\ q.ts = p.ts /\ q.txn = p.txn
  BY <1>1 DEF IsPrepared
<1> QED BY <1>2 DEF q

(* n is well formed and differs from m in the entries s and p of id only. *)
Touched(m, n, I, id, s, p) ==
    /\ Shape(n, I)
    /\ n.status[id] = s /\ n.prepared[id] = p
    /\ \A i \in I \ {id} : n.status[i] = m.status[i] /\ n.prepared[i] = m.prepared[i]

(* An update of one transaction leaves all others as they are. *)
LEMMA UpdatedTouches ==
    ASSUME NEW m, NEW n, NEW I, NEW id \in I, NEW s, NEW p, Shape(m, I), Updated(m, n, id, s, p),
           IsPrepared(p), s.state \in States
    PROVE  Touched(m, n, I, id, s, p)
<1>1. /\ m.status = [i \in I |-> m.status[i]] /\ m.prepared = [i \in I |-> m.prepared[i]]
      /\ \A i \in I : IsPrepared(m.prepared[i]) /\ m.status[i].state \in States
  BY DEF Shape, IsPrepared
<1>2. /\ n.status = [m.status EXCEPT ![id] = s]
      /\ n.prepared = [m.prepared EXCEPT ![id] = p]
      /\ n.maxTs = m.maxTs /\ n.db = m.db
  BY DEF Updated
<1>3. n.status = [i \in I |-> n.status[i]] /\ n.prepared = [i \in I |-> n.prepared[i]]
  BY <1>1, <1>2, Zenon
<1>4. /\ n.status[id] = s /\ n.prepared[id] = p
      /\ \A i \in I \ {id} : n.status[i] = m.status[i] /\ n.prepared[i] = m.prepared[i]
  BY <1>1, <1>2
<1>5. n = [status |-> n.status, prepared |-> n.prepared, maxTs |-> n.maxTs, db |-> n.db]
  <2>1. n = [status |-> [m.status EXCEPT ![id] = s], prepared |-> [m.prepared EXCEPT ![id] = p],
             maxTs |-> m.maxTs, db |-> m.db]
    BY DEF Updated
  <2> QED BY <1>2, <2>1
<1>6. \A i \in I : IsPrepared(n.prepared[i]) /\ n.status[i].state \in States
  BY <1>1, <1>4
<1>7. Shape(n, I)
  BY <1>3, <1>5, <1>6, Zenon DEF Shape, IsPrepared
<1> QED BY <1>4, <1>7 DEF Touched

(* The layout of one transaction's entries. *)
LEMMA ShapeOfPrepared ==
    ASSUME NEW m, NEW I, NEW id \in I, Shape(m, I)
    PROVE  IsPrepared(m.prepared[id]) /\ m.status[id].state \in States
BY DEF Shape, IsPrepared

(* The transitions of a transaction's life that one command can make: from  *)
(* the entries old and was of the status and the prepared map to new and    *)
(* now, with the locks of done still to be released.                        *)
Transition(m, c, old, was, new, now, done) ==
    \/ new = old /\ now = was /\ done = {}
    \/ old.state = "none" /\ new.state = "Committed" /\ now = was /\ done = {}
    \/ /\ old.state = "none" /\ new.state = "Prepared" /\ done = {}
       /\ now.locks = BuildLocks(c.txn) /\ checkLocks(m, c.txn) /\ now.released = FALSE
    \/ /\ old.state \in {"Prepared", "Decided"} /\ new.state = "Committed"
       /\ old.state = "Decided" => new.ts = was.decision
       /\ now = was /\ done = {c.id}
    \/ /\ old.state = "Prepared" /\ new.state \in {"Decided", "Timedout"}
       /\ now.locks = was.locks /\ now.released = was.released /\ done = {}
    \/ old.state = "Prepared" /\ new.state = "Aborted" /\ now.released = TRUE /\ done = {}
    \/ /\ old.state = "Timedout" /\ new = old /\ now.released = TRUE
       /\ now.decision = was.decision /\ done = {}

(* Where what the transition writes comes from. *)
Sources(c, old, was, new, now) ==
    /\ new.ts \in {old.ts, c.ts, c.cts}
    /\ now.locks \in {was.locks, {}, BuildLocks(c.txn)}
    /\ now.present \in {was.present, TRUE}

(* A command keeps the layout of the manager's state, leaves the other      *)
(* transactions alone, and takes its own through at most one transition.    *)
THEOREM ApplyTransition ==
    ASSUME NEW m, NEW I, NEW c, c.id \in I, c.op \in CommandOps, Shape(m, I), NEW pid
    PROVE  LET r == Apply(m, pid, c)
           IN  \E s, p : /\ Touched(m, r.m, I, c.id, s, p)
                         /\ Transition(m, c, m.status[c.id], m.prepared[c.id], s, p, r.done)
                         /\ Sources(c, m.status[c.id], m.prepared[c.id], s, p)
<1> DEFINE r == Apply(m, pid, c)
           was == m.prepared[c.id]
           Result == \E s, p : /\ Touched(m, r.m, I, c.id, s, p)
                               /\ Transition(m, c, m.status[c.id], was, s, p, r.done)
                               /\ Sources(c, m.status[c.id], was, s, p)
<1> SUFFICES Result
  OBVIOUS
<1>1. IsPrepared(was) /\ m.status[c.id].state \in States
  BY ShapeOfPrepared
<1>2. \/ Untouched(m, r) \/ Autocommits(m, c, r) \/ Prepares(m, c, r) \/ Commits(m, c, r)
      \/ Aborts(m, c, r) \/ Decides(m, c, r) \/ TimesOut(m, c, r) \/ Releases(m, c, r)
  BY ApplyEffect
<1> HIDE DEF r, was
<1>3. \A st \in States : \A ts : newStatus(ts, st).state = st /\ newStatus(ts, st).ts = ts
  BY DEF newStatus, Status
<1>4. ASSUME NEW s, NEW p, Updated(m, r.m, c.id, s, p), IsPrepared(p), s.state \in States,
             Transition(m, c, m.status[c.id], was, s, p, r.done),
             Sources(c, m.status[c.id], was, s, p)
      PROVE  Result
  <2>1. Touched(m, r.m, I, c.id, s, p)
    BY <1>4, UpdatedTouches, Zenon
  <2> QED BY <1>4, <2>1
<1> HIDE DEF Result
<1>5. CASE Untouched(m, r)
  <2>1. Touched(m, r.m, I, c.id, m.status[c.id], was)
    BY <1>5 DEF Untouched, Touched, was
  <2>2. /\ Transition(m, c, m.status[c.id], was, m.status[c.id], was, r.done)
        /\ Sources(c, m.status[c.id], was, m.status[c.id], was)
    BY <1>5 DEF Untouched, Transition, Sources
  <2> QED BY <2>1, <2>2, Zenon DEF Result
<1>6. CASE Autocommits(m, c, r)
  <2> DEFINE s == newStatus(c.ts, "Committed")
  <2>1. s.state = "Committed" /\ s.ts = c.ts
    BY <1>3 DEF States, FinalStates
  <2>2. Updated(m, r.m, c.id, s, was)
    BY <1>6 DEF Autocommits, was
  <2> HIDE DEF s
  <2>3. Transition(m, c, m.status[c.id], was, s, was, r.done) /\ Sources(c, m.status[c.id], was, s, was)
    BY <1>6, <2>1 DEF Autocommits, Transition, Sources
  <2>4. s.state \in States
    BY <2>1 DEF States, FinalStates
  <2> QED BY <1>1, <1>4, <2>2, <2>3, <2>4, Zenon
<1>7. CASE Prepares(m, c, r)
  <2> DEFINE s == newStatus(c.ts, "Prepared")
             p == NewPrepared(c)
  <2>1. s.state = "Prepared" /\ s.ts = c.ts
    BY <1>3 DEF States, FinalStates
  <2>2. IsPrepared(p) /\ p.locks = BuildLocks(c.txn) /\ p.released = FALSE /\ p.present = TRUE
    BY DEF IsPrepared, NewPrepared
  <2>3. Updated(m, r.m, c.id, s, p)
    BY <1>7 DEF Prepares, was
  <2> HIDE DEF s, p
  <2>4. Transition(m, c, m.status[c.id], was, s, p, r.done) /\ Sources(c, m.status[c.id], was, s, p)
    BY <1>7, <2>1, <2>2, Zenon DEF Prepares, Transition, Sources
  <2>5. s.state \in States
    BY <2>1 DEF States, FinalStates
  <2> QED BY <1>4, <2>2, <2>3, <2>4, <2>5, Zenon
<1>8. CASE Commits(m, c, r)
  <2> DEFINE s == CommittedStatus(m, c)
             p == was
  <2>1. s.state = "Committed" /\ s.ts = c.cts
    BY DEF CommittedStatus, newStatus, Status
  <2>2. IsPrepared(p)
    BY <1>1
  <2>3. Updated(m, r.m, c.id, s, p)
    BY <1>8 DEF Commits, was
  <2> HIDE DEF s
  <2>4. Transition(m, c, m.status[c.id], was, s, p, r.done) /\ Sources(c, m.status[c.id], was, s, p)
    BY <1>8, <2>1, <2>2 DEF Commits, Transition, Sources, was
  <2>5. s.state \in States
    BY <2>1 DEF States, FinalStates
  <2> QED BY <1>4, <2>2, <2>3, <2>4, <2>5, Zenon
<1>9. CASE Aborts(m, c, r)
  <2> DEFINE s == newStatus(c.ts, "Aborted")
             p == Released(was)
  <2>1. s.state = "Aborted" /\ s.ts = c.ts
    BY <1>3 DEF States, FinalStates
  <2>2. IsPrepared(p) /\ p.locks = {} /\ p.present = was.present /\ p.released = TRUE
    BY <1>1, ReleasedFields, Zenon
  <2>3. Updated(m, r.m, c.id, s, p)
    BY <1>9 DEF Aborts, was
  <2> HIDE DEF s, p
  <2>4. Transition(m, c, m.status[c.id], was, s, p, r.done) /\ Sources(c, m.status[c.id], was, s, p)
    BY <1>9, <2>1, <2>2 DEF Aborts, Transition, Sources
  <2>5. s.state \in States
    BY <2>1 DEF States, FinalStates
  <2> QED BY <1>4, <2>2, <2>3, <2>4, <2>5, Zenon
<1>10. CASE Decides(m, c, r)
  <2> DEFINE s == newStatus(c.ts, "Decided")
             p == [was EXCEPT !.decision = c.cts]
  <2>1. s.state = "Decided" /\ s.ts = c.ts
    BY <1>3 DEF States, FinalStates
  <2>2. IsPrepared(p) /\ p.locks = was.locks /\ p.released = was.released /\ p.present = was.present
    BY <1>1, DecidedFields, Zenon
  <2>3. Updated(m, r.m, c.id, s, p)
    BY <1>10 DEF Decides, was
  <2> HIDE DEF s, p
  <2>4. Transition(m, c, m.status[c.id], was, s, p, r.done) /\ Sources(c, m.status[c.id], was, s, p)
    BY <1>10, <2>1, <2>2 DEF Decides, Transition, Sources
  <2>5. s.state \in States
    BY <2>1 DEF States, FinalStates
  <2> QED BY <1>4, <2>2, <2>3, <2>4, <2>5, Zenon
<1>11. CASE TimesOut(m, c, r)
  <2> DEFINE s == newStatus(c.ts, "Timedout")
             p == was
  <2>1. s.state = "Timedout" /\ s.ts = c.ts
    BY <1>3 DEF States, FinalStates
  <2>2. IsPrepared(p)
    BY <1>1
  <2>3. Updated(m, r.m, c.id, s, p)
    BY <1>11 DEF TimesOut, was
  <2> HIDE DEF s
  <2>4. Transition(m, c, m.status[c.id], was, s, p, r.done) /\ Sources(c, m.status[c.id], was, s, p)
    BY <1>11, <2>1, <2>2 DEF TimesOut, Transition, Sources
  <2>5. s.state \in States
    BY <2>1 DEF States, FinalStates
  <2> QED BY <1>4, <2>2, <2>3, <2>4, <2>5, Zenon
<1>12. CASE Releases(m, c, r)
  <2> DEFINE s == m.status[c.id]
             p == Released(was)
  <2>1. s.state = "Timedout"
    BY <1>3, <1>12 DEF States, FinalStates, Releases
  <2>2. IsPrepared(p) /\ p.locks = {} /\ p.present = was.present /\ p.released = TRUE /\ p.decision = was.decision
    BY <1>1, ReleasedFields, Zenon
  <2>3. Updated(m, r.m, c.id, s, p)
    BY <1>12 DEF Releases, was
  <2> HIDE DEF s, p
  <2>4. Transition(m, c, m.status[c.id], was, s, p, r.done) /\ Sources(c, m.status[c.id], was, s, p)
    BY <1>12, <2>1, <2>2 DEF Releases, Transition, Sources, s
  <2>5. s.state \in States
    BY <2>1 DEF States, FinalStates
  <2> QED BY <1>4, <2>2, <2>3, <2>4, <2>5, Zenon
<1> QED BY <1>2, <1>5, <1>6, <1>7, <1>8, <1>9, <1>10, <1>11, <1>12

(* n is m with the locks of the transactions in done released. *)
Finished(m, n, I, done, maxTs) ==
    /\ Shape(n, I) /\ n.status = m.status /\ n.maxTs = maxTs
    /\ \A i \in I :
          /\ i \in done => n.prepared[i] = Released(m.prepared[i])
          /\ i \notin done => n.prepared[i] = m.prepared[i]

(* The end of a batch only releases the locks of the transactions in done.  *)
LEMMA FinishBatchKeeps ==
    ASSUME NEW m, NEW I, Shape(m, I), NEW writes, NEW done, NEW maxTs
    PROVE  Finished(m, FinishBatch(m, writes, done, maxTs), I, done, maxTs)
<1> DEFINE n == FinishBatch(m, writes, done, maxTs)
<1>1. /\ m.status = [i \in I |-> m.status[i]] /\ m.prepared = [i \in I |-> m.prepared[i]]
      /\ DOMAIN m.prepared = I
      /\ \A i \in I : IsPrepared(m.prepared[i]) /\ m.status[i].state \in States
  BY DEF Shape, IsPrepared
<1>2. /\ n.status = m.status
      /\ n.prepared = [i \in I |-> IF i \in done THEN Released(m.prepared[i]) ELSE m.prepared[i]]
      /\ n.maxTs = maxTs
      /\ n = [status |-> n.status, prepared |-> n.prepared, maxTs |-> n.maxTs, db |-> n.db]
  BY <1>1 DEF FinishBatch
<1> HIDE DEF n
<1>3. \A i \in I : IsPrepared(n.prepared[i])
  <2> SUFFICES ASSUME NEW i \in I PROVE IsPrepared(n.prepared[i])
    OBVIOUS
  <2>1. IsPrepared(Released(m.prepared[i]))
    BY <1>1, ReleasedFields, Zenon
  <2> QED BY <1>1, <1>2, <2>1
<1>4. Shape(n, I)
  BY <1>1, <1>2, <1>3, ZenonT(30) DEF Shape, IsPrepared
<1>5. \A i \in I : /\ i \in done => n.prepared[i] = Released(m.prepared[i])
                   /\ i \notin done => n.prepared[i] = m.prepared[i]
  BY <1>2
<1> QED BY <1>2, <1>4, <1>5 DEF n, Finished

(* cleanup forgets some finished transactions and keeps the others. *)
LEMMA CleanupKeeps ==
    ASSUME NEW m, NEW I, Shape(m, I), NEW oldest
    PROVE  LET n == cleanup(m, oldest) IN
           /\ Shape(n, I) /\ n.maxTs = m.maxTs
           /\ \A i \in I :
                 \/ n.status[i] = m.status[i] /\ n.prepared[i] = m.prepared[i]
                 \/ /\ IsFinal(m.status[i].state)
                    /\ n.status[i] = NoStatus /\ n.prepared[i] = NoPrepared
<1> DEFINE n == cleanup(m, oldest)
           gone == Cleanable(m, oldest)
<1>1. /\ m.status = [i \in I |-> m.status[i]] /\ m.prepared = [i \in I |-> m.prepared[i]]
      /\ DOMAIN m.prepared = I /\ DOMAIN m.status = I
      /\ \A i \in I : IsPrepared(m.prepared[i]) /\ m.status[i].state \in States
  BY DEF Shape, IsPrepared
<1>2. /\ n.status = [i \in I |-> IF i \in gone THEN NoStatus ELSE m.status[i]]
      /\ n.prepared = [i \in I |-> IF i \in gone THEN NoPrepared ELSE m.prepared[i]]
      /\ n.maxTs = m.maxTs
      /\ n = [status |-> n.status, prepared |-> n.prepared, maxTs |-> n.maxTs, db |-> n.db]
  BY <1>1 DEF cleanup
<1>3. \A i \in gone : IsFinal(m.status[i].state)
  BY DEF Cleanable
<1> HIDE DEF n, gone
<1>4. IsPrepared(NoPrepared) /\ NoStatus.state \in States
  BY DEF IsPrepared, NoPrepared, NoStatus, Status, States
<1>5. \A i \in I : IsPrepared(n.prepared[i]) /\ n.status[i].state \in States
  BY <1>1, <1>2, <1>4
<1>6. Shape(n, I)
  BY <1>2, <1>5, Zenon DEF Shape, IsPrepared
<1> QED BY <1>2, <1>3, <1>6 DEF n

-----------------------------------------------------------------------------
(* One command on one manager *)

ErrorCodes == {"NotFound", "FailedPrecondition", "InvalidRequest", "PermissionDenied"}

(* How a command c moves the entries s and p of its transaction to s2, p2;  *)
(* n is the manager before it.                                              *)
Moves(n, c, s, p, s2, p2) ==
    \/ /\ s2 = s /\ p2.ts = p.ts /\ p2.decision = p.decision
       /\ s.state # "Timedout" => p2.locks = p.locks /\ p2.released = p.released
    \/ /\ c.op = "Prepare" /\ s.state = "none" /\ s2.state = "Prepared" /\ s2.ts = c.ts
       /\ p2.ts = c.ts /\ p2.decision = 0
       /\ checkLocks(n, c.txn) /\ p2.locks = BuildLocks(c.txn) /\ p2.released = FALSE
    \/ /\ c.op = "Commit" /\ s.state \in {"Prepared", "Decided"} /\ s2.state = "Committed" /\ s2.ts = c.cts
       /\ p2.ts = p.ts /\ p2.decision = p.decision
    \/ /\ c.op = "Abort" /\ s.state = "Prepared" /\ s2.state = "Aborted" /\ s2.ts = c.ts
       /\ p2.ts = p.ts /\ p2.decision = p.decision
    \/ /\ c.op = "StoreDecision" /\ s.state = "Prepared" /\ s2.state = "Decided" /\ s2.ts = c.ts
       /\ p2.ts = p.ts /\ p2.decision = c.cts /\ p2.locks = p.locks /\ p2.released = p.released
    \/ /\ c.op = "MarkTimedout" /\ s.state = "Prepared" /\ s2.state = "Timedout" /\ s2.ts = c.ts
       /\ p2.ts = p.ts /\ p2.decision = p.decision

(* What the answer tells of the entry, which was s and becomes s2. *)
Replies(c, r, s, s2) ==
    \/ /\ r.err = "none" /\ r.status = s2
       /\ s2.state = "Decided" => c.op = "StoreDecision"
       /\ c.op = "MarkTimedout" => s2.state = "Timedout"
    \/ s2 = s /\ r.err = "none" /\ r.status.state = "Failed" /\ r.status.ts = c.ts /\ c.op = "Prepare"
    \/ s2 = s /\ r.err \in ErrorCodes

OnePhaseOps == {"Abort", "MarkTimedout", "Commit", "Prepare", "StoreDecision"}

(* Only Commit leaves locks to be released at the end of the batch. *)
LateRelease(c, old, s, done) ==
    done # {} => done = {c.id} /\ c.op = "Commit" /\ old.state # "Committed" /\ s.state = "Committed"

(* A transition of the manager, as a move of the transaction's entries. *)
Moved(n, n1, I, c, done) ==
    \E s, p : /\ Touched(n, n1, I, c.id, s, p)
              /\ Moves(n, c, n.status[c.id], n.prepared[c.id], s, p)
              /\ LateRelease(c, n.status[c.id], s, done)

(* Each command moves its transaction as its effects say. *)
LEMMA ApplyMoves ==
    ASSUME NEW n, NEW I, NEW c, c.id \in I, c.op \in OnePhaseOps, Shape(n, I), NEW pid
    PROVE  Moved(n, Apply(n, pid, c).m, I, c, Apply(n, pid, c).done)
<1> DEFINE r == Apply(n, pid, c)
           s0 == n.status[c.id]
           p0 == n.prepared[c.id]
<1> SUFFICES Moved(n, r.m, I, c, r.done)
  OBVIOUS
<1>1. IsPrepared(p0) /\ s0.state \in States
  BY ShapeOfPrepared
<1>2. \/ Untouched(n, r)
      \/ c.op = "Prepare" /\ Prepares(n, c, r)
      \/ c.op = "Commit" /\ Commits(n, c, r)
      \/ c.op = "Abort" /\ Aborts(n, c, r)
      \/ c.op = "StoreDecision" /\ Decides(n, c, r)
      \/ c.op = "MarkTimedout" /\ (TimesOut(n, c, r) \/ Releases(n, c, r))
  BY PrepareEffect, CommitEffect, AbortEffect, StoreDecisionEffect, MarkTimedoutEffect
     DEF Apply, OnePhaseOps
<1>3. \A st, ts : newStatus(ts, st).state = st /\ newStatus(ts, st).ts = ts
  BY DEF newStatus, Status
<1> HIDE DEF r
<1>4. ASSUME NEW s, NEW p, Updated(n, r.m, c.id, s, p), IsPrepared(p), s.state \in States,
             Moves(n, c, s0, p0, s, p), LateRelease(c, s0, s, r.done)
      PROVE  Moved(n, r.m, I, c, r.done)
  <2>1. Touched(n, r.m, I, c.id, s, p)
    BY <1>4, UpdatedTouches, Zenon
  <2> QED BY <1>4, <2>1 DEF Moved
<1>5. CASE Untouched(n, r)
  <2>1. Touched(n, r.m, I, c.id, s0, p0)
    BY <1>5 DEF Untouched, Touched
  <2>2. Moves(n, c, s0, p0, s0, p0) /\ LateRelease(c, s0, s0, r.done)
    BY <1>5 DEF Untouched, Moves, LateRelease
  <2> QED BY <2>1, <2>2, Zenon DEF Moved
<1>6. CASE c.op = "Prepare" /\ Prepares(n, c, r)
  <2> DEFINE s == newStatus(c.ts, "Prepared")
             p == NewPrepared(c)
  <2>1. s.state = "Prepared" /\ s.ts = c.ts
    BY <1>3
  <2>2. /\ IsPrepared(p) /\ p.locks = BuildLocks(c.txn) /\ p.released = FALSE
        /\ p.ts = c.ts /\ p.decision = 0
    BY DEF IsPrepared, NewPrepared
  <2>3. Updated(n, r.m, c.id, s, p) /\ r.done = {} /\ s0.state = "none" /\ checkLocks(n, c.txn)
    BY <1>6 DEF Prepares
  <2> HIDE DEF s, p
  <2>4. Moves(n, c, s0, p0, s, p) /\ s.state \in States /\ LateRelease(c, s0, s, r.done)
    BY <1>6, <2>1, <2>2, <2>3 DEF Moves, LateRelease, States
  <2> QED BY <1>4, <2>2, <2>3, <2>4, Zenon
<1>7. CASE c.op = "Commit" /\ Commits(n, c, r)
  <2> DEFINE s == CommittedStatus(n, c)
  <2>1. s.state = "Committed" /\ s.ts = c.cts
    BY DEF CommittedStatus, newStatus, Status
  <2>2. Updated(n, r.m, c.id, s, p0) /\ r.done = {c.id} /\ s0.state \in {"Prepared", "Decided"}
    BY <1>7 DEF Commits
  <2> HIDE DEF s
  <2>3. Moves(n, c, s0, p0, s, p0) /\ s.state \in States /\ LateRelease(c, s0, s, r.done)
    BY <1>7, <2>1, <2>2 DEF Moves, LateRelease, States, FinalStates
  <2> QED BY <1>1, <1>4, <1>7, <2>1, <2>2, <2>3, Zenon
<1>8. CASE c.op = "Abort" /\ Aborts(n, c, r)
  <2> DEFINE s == newStatus(c.ts, "Aborted")
             p == Released(p0)
  <2>1. s.state = "Aborted" /\ s.ts = c.ts
    BY <1>3
  <2>2. IsPrepared(p) /\ p.ts = p0.ts /\ p.decision = p0.decision
    BY <1>1, ReleasedFields, Zenon
  <2>3. Updated(n, r.m, c.id, s, p) /\ r.done = {} /\ s0.state = "Prepared"
    BY <1>8 DEF Aborts
  <2> HIDE DEF s, p
  <2>4. Moves(n, c, s0, p0, s, p) /\ s.state \in States /\ LateRelease(c, s0, s, r.done)
    BY <1>8, <2>1, <2>2, <2>3 DEF Moves, LateRelease, States, FinalStates
  <2> QED BY <1>4, <2>2, <2>3, <2>4, Zenon
<1>9. CASE c.op = "StoreDecision" /\ Decides(n, c, r)
  <2> DEFINE s == newStatus(c.ts, "Decided")
             p == [p0 EXCEPT !.decision = c.cts]
  <2>1. s.state = "Decided" /\ s.ts = c.ts
    BY <1>3
  <2>2. /\ IsPrepared(p) /\ p.ts = p0.ts /\ p.decision = c.cts
        /\ p.locks = p0.locks /\ p.released = p0.released
    BY <1>1, DecidedFields, Zenon
  <2>3. Updated(n, r.m, c.id, s, p) /\ r.done = {} /\ s0.state = "Prepared"
    BY <1>9 DEF Decides
  <2> HIDE DEF s, p
  <2>4. Moves(n, c, s0, p0, s, p) /\ s.state \in States /\ LateRelease(c, s0, s, r.done)
    BY <1>9, <2>1, <2>2, <2>3 DEF Moves, LateRelease, States, FinalStates
  <2> QED BY <1>4, <2>2, <2>3, <2>4, Zenon
<1>10. CASE c.op = "MarkTimedout" /\ TimesOut(n, c, r)
  <2> DEFINE s == newStatus(c.ts, "Timedout")
  <2>1. s.state = "Timedout" /\ s.ts = c.ts
    BY <1>3
  <2>2. Updated(n, r.m, c.id, s, p0) /\ r.done = {} /\ s0.state = "Prepared"
    BY <1>10 DEF TimesOut
  <2> HIDE DEF s
  <2>3. Moves(n, c, s0, p0, s, p0) /\ s.state \in States /\ LateRelease(c, s0, s, r.done)
    BY <1>10, <2>1, <2>2 DEF Moves, LateRelease, States, FinalStates
  <2> QED BY <1>1, <1>4, <2>2, <2>3, Zenon
<1>11. CASE c.op = "MarkTimedout" /\ Releases(n, c, r)
  <2> DEFINE p == Released(p0)
  <2>1. IsPrepared(p) /\ p.ts = p0.ts /\ p.decision = p0.decision
    BY <1>1, ReleasedFields, Zenon
  <2>2. Updated(n, r.m, c.id, s0, p) /\ r.done = {} /\ s0.state = "Timedout"
    BY <1>11 DEF Releases
  <2> HIDE DEF p
  <2>3. Moves(n, c, s0, p0, s0, p) /\ LateRelease(c, s0, s0, r.done)
    BY <1>11, <2>1, <2>2 DEF Moves, LateRelease
  <2> QED BY <1>1, <1>4, <2>1, <2>2, <2>3, Zenon
<1> QED BY <1>2, <1>5, <1>6, <1>7, <1>8, <1>9, <1>10, <1>11

(* An update sets the entry it is for. *)
LEMMA UpdatedEntry ==
    ASSUME NEW n, NEW n1, NEW I, NEW id \in I, NEW s, NEW p, Shape(n, I), Updated(n, n1, id, s, p)
    PROVE  n1.status[id] = s
BY DEF Shape, Updated

(* The answer of a command tells of the entry it leaves. *)
LEMMA ApplyReplies ==
    ASSUME NEW n, NEW I, NEW c, c.id \in I, c.op \in OnePhaseOps, Shape(n, I), NEW pid
    PROVE  Replies(c, Apply(n, pid, c), n.status[c.id], Apply(n, pid, c).m.status[c.id])
<1> DEFINE s0 == n.status[c.id]
<1>1. s0.state \in States
  BY ShapeOfPrepared
<1>2. CASE c.op = "Prepare"
  <2> DEFINE s == newStatus(c.ts, "Prepared")
             n1 == SetPrepared(SetStatus(n, c.id, s), c.id, NewPrepared(c))
  <2>1. Updated(n, n1, c.id, s, NewPrepared(c))
    BY SetBothUpdates
  <2>2. n1.status[c.id] = s /\ s.state = "Prepared"
    <3>1. n1.status[c.id] = s
      BY <2>1, UpdatedEntry, Zenon
    <3>2. s.state = "Prepared"
      BY DEF newStatus, Status
    <3> QED BY <3>1, <3>2
  <2>3. Apply(n, pid, c) = applyPrepare(n, c)
    BY <1>2 DEF Apply
  <2>4. \A code : newFailedStatus(c.ts, code).state = "Failed" /\ newFailedStatus(c.ts, code).ts = c.ts
    BY DEF newFailedStatus, Status
  <2>5. CASE Admission(n, c) = "admit"
    <3>1. applyPrepare(n, c) = Return(n1, s)
      BY <2>5 DEF applyPrepare, NewPrepared
    <3> HIDE DEF n1, s
    <3> QED BY <1>2, <2>2, <2>3, <3>1 DEF Return, Applied, Replies
  <2>6. CASE Admission(n, c) \in {"Prepared", "Failed"}
    <3>1. applyPrepare(n, c) = Return(n, s0)
      BY <2>6 DEF applyPrepare
    <3>2. s0.state # "Decided"
      BY <2>6 DEF Admission
    <3> QED BY <1>2, <2>3, <3>1, <3>2 DEF Return, Applied, Replies
  <2>7. CASE Admission(n, c) \in {"LockFailed", "Invalid"}
    <3>1. applyPrepare(n, c) = Return(n, newFailedStatus(c.ts, Admission(n, c)))
      BY <2>7 DEF applyPrepare
    <3> QED BY <1>2, <2>3, <2>4, <3>1 DEF Return, Applied, Replies
  <2>8. CASE Admission(n, c) \notin {"admit", "Prepared", "Failed", "LockFailed", "Invalid"}
    <3>1. applyPrepare(n, c) = Error(n, "FailedPrecondition")
      BY <2>8 DEF applyPrepare
    <3> QED BY <1>2, <2>3, <3>1 DEF Error, Return, Applied, Replies, ErrorCodes
  <2> QED BY <2>5, <2>6, <2>7, <2>8
<1>3. CASE c.op = "Commit"
  <2> DEFINE s == CommittedStatus(n, c)
             n1 == SetStatus(n, c.id, s)
  <2>1. Updated(n, n1, c.id, s, n.prepared[c.id])
    BY SetStatusUpdates
  <2>2. n1.status[c.id] = s /\ s.state = "Committed"
    <3>1. n1.status[c.id] = s
      BY <2>1, UpdatedEntry, Zenon
    <3>2. s.state = "Committed"
      BY DEF CommittedStatus, newStatus, Status
    <3> QED BY <3>1, <3>2
  <2>3. Apply(n, pid, c) = applyCommit(n, c)
    BY <1>3 DEF Apply
  <2>4. Found(n, c) # "none" => Found(n, c) = s0.state
    BY DEF Found
  <2>5. \/ \E e \in ErrorCodes : applyCommit(n, c) = Error(n, e)
        \/ s0.state = "Committed" /\ applyCommit(n, c) = Return(n, s0)
        \/ \E w : applyCommit(n, c) = Applied(n1, s, w, {c.id})
    BY <1>1, <2>4 DEF applyCommit, ErrorCodes, CommittedStatus
  <2> HIDE DEF n1, s
  <2> QED BY <1>3, <2>2, <2>3, <2>5 DEF Error, Return, Applied, Replies
<1>4. CASE c.op = "Abort"
  <2> DEFINE s == newStatus(c.ts, "Aborted")
             n1 == SetStatus(releaseLocks(n, c.id), c.id, s)
  <2>1. Updated(n, n1, c.id, s, Released(n.prepared[c.id]))
    BY ReleaseUpdates
  <2>2. n1.status[c.id] = s /\ s.state = "Aborted"
    <3>1. n1.status[c.id] = s
      BY <2>1, UpdatedEntry, Zenon
    <3>2. s.state = "Aborted"
      BY DEF newStatus, Status
    <3> QED BY <3>1, <3>2
  <2>3. Apply(n, pid, c) = applyAbort(n, c)
    BY <1>4 DEF Apply
  <2>4. Found(n, c) # "none" => Found(n, c) = s0.state
    BY DEF Found
  <2>5. \/ \E e \in ErrorCodes : applyAbort(n, c) = Error(n, e)
        \/ s0.state \in {"Aborted", "Timedout"} /\ applyAbort(n, c) = Return(n, s0)
        \/ applyAbort(n, c) = Return(n1, s)
    BY <1>1, <2>4 DEF applyAbort, ErrorCodes
  <2> HIDE DEF n1, s
  <2> QED BY <1>4, <2>2, <2>3, <2>5 DEF Error, Return, Applied, Replies
<1>5. CASE c.op = "StoreDecision"
  <2> DEFINE s == newStatus(c.ts, "Decided")
             n1 == SetPrepared(SetStatus(n, c.id, s), c.id, [n.prepared[c.id] EXCEPT !.decision = c.cts])
  <2>1. Updated(n, n1, c.id, s, [n.prepared[c.id] EXCEPT !.decision = c.cts])
    BY SetBothUpdates
  <2>2. n1.status[c.id] = s /\ s.state = "Decided"
    <3>1. n1.status[c.id] = s
      BY <2>1, UpdatedEntry, Zenon
    <3>2. s.state = "Decided"
      BY DEF newStatus, Status
    <3> QED BY <3>1, <3>2
  <2>3. Apply(n, pid, c) = applyStoreDecision(n, pid, c)
    BY <1>5 DEF Apply
  <2>4. \/ \E e \in ErrorCodes : applyStoreDecision(n, pid, c) = Error(n, e)
        \/ applyStoreDecision(n, pid, c) = Return(n, s0)
        \/ applyStoreDecision(n, pid, c) = Return(n1, s)
    BY DEF applyStoreDecision, ErrorCodes
  <2> HIDE DEF n1, s
  <2> QED BY <1>5, <2>2, <2>3, <2>4 DEF Error, Return, Applied, Replies
<1>6. CASE c.op = "MarkTimedout"
  <2> DEFINE s == newStatus(c.ts, "Timedout")
             n1 == SetStatus(n, c.id, s)
             n2 == releaseLocks(n, c.id)
  <2>1. /\ Updated(n, n1, c.id, s, n.prepared[c.id])
        /\ Updated(n, n2, c.id, s0, Released(n.prepared[c.id]))
    BY SetStatusUpdates, ReleaseUpdates, Zenon
  <2>2. n1.status[c.id] = s /\ n2.status[c.id] = s0 /\ s.state = "Timedout"
    <3>1. n1.status[c.id] = s /\ n2.status[c.id] = s0
      BY <2>1, UpdatedEntry, Zenon
    <3>2. s.state = "Timedout"
      BY DEF newStatus, Status
    <3> QED BY <3>1, <3>2
  <2>3. Apply(n, pid, c) = applyMarkTimedout(n, pid, c)
    BY <1>6 DEF Apply
  <2>4. FoundAtPrincipal(n, pid, c) \notin {"none", "denied"} => FoundAtPrincipal(n, pid, c) = s0.state
    BY DEF Found, FoundAtPrincipal
  <2>5. \/ \E e \in ErrorCodes : applyMarkTimedout(n, pid, c) = Error(n, e)
        \/ /\ s0.state = "Timedout"
           /\ applyMarkTimedout(n, pid, c) \in {Return(n, s0), Return(n2, s0)}
        \/ applyMarkTimedout(n, pid, c) = Return(n1, s)
    BY <2>4 DEF applyMarkTimedout, ErrorCodes
  <2> HIDE DEF n1, n2, s
  <2> QED BY <1>6, <2>2, <2>3, <2>5 DEF Error, Return, Applied, Replies
<1> QED BY <1>2, <1>3, <1>4, <1>5, <1>6 DEF OnePhaseOps

IsResult(r) == r = [m |-> r.m, err |-> r.err, status |-> r.status, writes |-> r.writes, done |-> r.done]

(* The layout of what a command returns. *)
LEMMA ApplyResult ==
    ASSUME NEW n, NEW c, c.op \in OnePhaseOps, NEW pid
    PROVE  IsResult(Apply(n, pid, c))
<1> DEFINE r == Apply(n, pid, c)
<1>1. ASSUME NEW n1, NEW s, NEW w, NEW done
      PROVE  IsResult(Applied(n1, s, w, done))
  BY DEF Applied, IsResult
<1>2. ASSUME NEW n1, NEW e
      PROVE  IsResult(Error(n1, e))
  BY DEF Error, Return, Applied, IsResult
<1>3. \/ \E n1, s, w, done : r = Applied(n1, s, w, done)
      \/ \E n1, e : r = Error(n1, e)
  <2>1. CASE c.op = "Prepare"
    BY <2>1 DEF Apply, applyPrepare, Return
  <2>2. CASE c.op = "Commit"
    BY <2>2 DEF Apply, applyCommit, Return
  <2>3. CASE c.op = "Abort"
    BY <2>3 DEF Apply, applyAbort, Return
  <2>4. CASE c.op = "StoreDecision"
    BY <2>4 DEF Apply, applyStoreDecision, Return
  <2>5. CASE c.op = "MarkTimedout"
    BY <2>5 DEF Apply, applyMarkTimedout, Return
  <2> QED BY <2>1, <2>2, <2>3, <2>4, <2>5 DEF OnePhaseOps
<1> HIDE DEF r
<1>4. IsResult(r)
  BY <1>1, <1>2, <1>3
<1> QED BY <1>4 DEF r

-----------------------------------------------------------------------------
(* How a command c moves the entries of its transaction to s and p, what it *)
(* stores and whose locks it leaves to the end of the batch; n is the       *)
(* manager before it.                                                       *)
Effect(n, c, s, p, writes, done) ==
    LET old == n.status[c.id]
        was == n.prepared[c.id]
    IN  \/ s = old /\ p = was /\ writes = {} /\ done = {}
        \/ /\ c.op = "Autocommit" /\ old.state = "none" /\ s.state = "Committed" /\ s.ts = c.ts
           /\ checkLocks(n, c.txn) /\ p = was /\ writes = buildWriteRecords(c.id, c.ts, c.txn) /\ done = {}
        \/ /\ c.op = "Prepare" /\ old.state = "none" /\ s.state = "Prepared" /\ s.ts = c.ts
           /\ checkLocks(n, c.txn) /\ p = NewPrepared(c) /\ writes = {} /\ done = {}
        \/ /\ c.op = "Commit" /\ old.state \in {"Prepared", "Decided"} /\ s.state = "Committed"
           /\ old.state = "Prepared" => c.cts >= old.ts
           /\ old.state = "Decided" => c.cts = was.decision
           /\ s.ts = c.cts /\ p = was /\ writes = buildWriteRecords(c.id, c.cts, was.txn)
           /\ done = {c.id}
        \/ /\ c.op # "Commit" /\ old.state = "Prepared" /\ s.ts = c.ts /\ writes = {} /\ done = {}
           /\ \/ s.state = "Aborted" /\ p = Released(was)
              \/ s.state = "Decided" /\ c.cts >= old.ts /\ p = [was EXCEPT !.decision = c.cts]
              \/ s.state = "Timedout" /\ p = was
        \/ old.state = "Timedout" /\ s = old /\ p = Released(was) /\ writes = {} /\ done = {}

(* Only the two kinds of commit store versions. *)
LEMMA ApplyWrites ==
    ASSUME NEW n, NEW I, NEW c, c.id \in I, c.op \in CommandOps, Shape(n, I), NEW pid
    PROVE  LET r == Apply(n, pid, c) IN
           \/ Untouched(n, r) /\ r.writes = {}
           \/ c.op = "Autocommit" /\ Autocommits(n, c, r) /\ r.writes = buildWriteRecords(c.id, c.ts, c.txn)
           \/ c.op = "Prepare" /\ Prepares(n, c, r) /\ r.writes = {}
           \/ /\ c.op = "Commit" /\ Commits(n, c, r)
              /\ r.writes = buildWriteRecords(c.id, c.cts, n.prepared[c.id].txn)
           \/ c.op # "Commit" /\ (Aborts(n, c, r) \/ Decides(n, c, r) \/ TimesOut(n, c, r)) /\ r.writes = {}
           \/ Releases(n, c, r) /\ r.writes = {}
<1>1. CASE c.op = "Autocommit"
  <2> DEFINE r == applyAutocommit(n, c)
  <2>1. Apply(n, pid, c) = r
    BY <1>1 DEF Apply
  <2>2. Untouched(n, r) \/ Autocommits(n, c, r)
    BY AutocommitEffect
  <2>3. Admission(n, c) = "admit" => r.writes = buildWriteRecords(c.id, c.ts, c.txn)
    BY DEF applyAutocommit, Applied
  <2>4. Admission(n, c) # "admit" => r.writes = {} /\ Untouched(n, r)
    BY DEF applyAutocommit, Applied, Return, Error, Untouched
  <2>5. Admission(n, c) = "admit" => Autocommits(n, c, r)
    <3>1. SUFFICES ASSUME Admission(n, c) = "admit" PROVE Autocommits(n, c, r)
      OBVIOUS
    <3>2. n.status[c.id].state = "none" /\ checkLocks(n, c.txn)
      BY <3>1 DEF Admission, Shape, States, FinalStates
    <3>3. Updated(n, SetStatus(n, c.id, newStatus(c.ts, "Committed")), c.id, newStatus(c.ts, "Committed"), n.prepared[c.id])
      BY SetStatusUpdates
    <3> QED BY <3>1, <3>2, <3>3 DEF applyAutocommit, Applied, Autocommits
  <2> QED BY <1>1, <2>1, <2>3, <2>4, <2>5, Zenon
<1>2. CASE c.op = "Prepare"
  <2> DEFINE r == applyPrepare(n, c)
  <2>1. Apply(n, pid, c) = r
    BY <1>2 DEF Apply
  <2>2. Untouched(n, r) \/ Prepares(n, c, r)
    BY PrepareEffect
  <2>3. r.writes = {}
    BY DEF applyPrepare, Applied, Return, Error
  <2> QED BY <1>2, <2>1, <2>2, <2>3, ZenonT(30)
<1>3. CASE c.op = "Commit"
  <2> DEFINE r == applyCommit(n, c)
  <2>1. Apply(n, pid, c) = r
    BY <1>3 DEF Apply
  <2>2. Untouched(n, r) \/ Commits(n, c, r)
    BY CommitEffect
  <2>3. \/ r.writes = buildWriteRecords(c.id, c.cts, n.prepared[c.id].txn) /\ r.done = {c.id}
        \/ r.writes = {} /\ r.done = {}
    BY DEF applyCommit, Applied, Return, Error
  <2>4. Untouched(n, r) => r.done = {}
    BY DEF Untouched
  <2>5. Commits(n, c, r) => r.done = {c.id}
    BY DEF Commits
  <2> HIDE DEF r
  <2> QED BY <1>3, <2>1, <2>2, <2>3, <2>4, <2>5, ZenonT(30)
<1>4. CASE c.op = "Abort"
  <2> DEFINE r == applyAbort(n, c)
  <2>1. Apply(n, pid, c) = r
    BY <1>4 DEF Apply
  <2>2. Untouched(n, r) \/ Aborts(n, c, r)
    BY AbortEffect
  <2>3. r.writes = {}
    BY DEF applyAbort, Applied, Return, Error
  <2> QED BY <1>4, <2>1, <2>2, <2>3, Zenon
<1>5. CASE c.op = "StoreDecision"
  <2> DEFINE r == applyStoreDecision(n, pid, c)
  <2>1. Apply(n, pid, c) = r
    BY <1>5 DEF Apply
  <2>2. Untouched(n, r) \/ Decides(n, c, r)
    BY StoreDecisionEffect
  <2>3. r.writes = {}
    BY DEF applyStoreDecision, Applied, Return, Error
  <2> QED BY <1>5, <2>1, <2>2, <2>3, ZenonT(30)
<1>6. CASE c.op = "MarkTimedout"
  <2> DEFINE r == applyMarkTimedout(n, pid, c)
  <2>1. Apply(n, pid, c) = r
    BY <1>6 DEF Apply
  <2>2. Untouched(n, r) \/ TimesOut(n, c, r) \/ Releases(n, c, r)
    BY MarkTimedoutEffect
  <2>3. r.writes = {}
    BY DEF applyMarkTimedout, Applied, Return, Error
  <2> QED BY <1>6, <2>1, <2>2, <2>3, Zenon
<1> QED BY <1>1, <1>2, <1>3, <1>4, <1>5, <1>6, Zenon DEF CommandOps

(* A command takes its transaction through one of the moves of Effect. *)
LEMMA ApplyEffects ==
    ASSUME NEW n, NEW I, NEW c, c.id \in I, c.op \in CommandOps, Shape(n, I), NEW pid
    PROVE  LET r == Apply(n, pid, c)
           IN  \E s, p : /\ Touched(n, r.m, I, c.id, s, p) /\ Effect(n, c, s, p, r.writes, r.done)
                         /\ r.m.maxTs = n.maxTs /\ r.m.db = n.db
<1> DEFINE r == Apply(n, pid, c)
           was == n.prepared[c.id]
           Result == \E s, p : /\ Touched(n, r.m, I, c.id, s, p) /\ Effect(n, c, s, p, r.writes, r.done)
                               /\ r.m.maxTs = n.maxTs /\ r.m.db = n.db
<1> SUFFICES Result
  OBVIOUS
<1>1. IsPrepared(was) /\ n.status[c.id].state \in States
  BY ShapeOfPrepared
<1>2. \/ Untouched(n, r) /\ r.writes = {}
      \/ c.op = "Autocommit" /\ Autocommits(n, c, r) /\ r.writes = buildWriteRecords(c.id, c.ts, c.txn)
      \/ c.op = "Prepare" /\ Prepares(n, c, r) /\ r.writes = {}
      \/ /\ c.op = "Commit" /\ Commits(n, c, r)
         /\ r.writes = buildWriteRecords(c.id, c.cts, n.prepared[c.id].txn)
      \/ c.op # "Commit" /\ (Aborts(n, c, r) \/ Decides(n, c, r) \/ TimesOut(n, c, r)) /\ r.writes = {}
      \/ Releases(n, c, r) /\ r.writes = {}
  BY ApplyWrites, Zenon
<1> HIDE DEF r
<1>3. \A st \in States : \A ts : newStatus(ts, st).state = st /\ newStatus(ts, st).ts = ts
  BY DEF newStatus, Status
<1>4. ASSUME NEW s, NEW p, Updated(n, r.m, c.id, s, p), IsPrepared(p), s.state \in States,
             Effect(n, c, s, p, r.writes, r.done)
      PROVE  Result
  <2>1. Touched(n, r.m, I, c.id, s, p)
    BY <1>4, UpdatedTouches, Zenon
  <2>2. r.m.maxTs = n.maxTs /\ r.m.db = n.db
    BY <1>4 DEF Updated
  <2> QED BY <1>4, <2>1, <2>2
<1> HIDE DEF Result
<1>5. CASE Untouched(n, r) /\ r.writes = {}
  <2>1. Touched(n, r.m, I, c.id, n.status[c.id], was) /\ r.m = n
    BY <1>5 DEF Untouched, Touched
  <2>2. Effect(n, c, n.status[c.id], was, r.writes, r.done)
    BY <1>5 DEF Effect, Untouched
  <2> QED BY <2>1, <2>2, Zenon DEF Result
<1>6. CASE c.op = "Autocommit" /\ Autocommits(n, c, r) /\ r.writes = buildWriteRecords(c.id, c.ts, c.txn)
  <2> DEFINE s == newStatus(c.ts, "Committed")
  <2>1. s.state = "Committed" /\ s.ts = c.ts /\ s.state \in States
    BY <1>3 DEF States, FinalStates
  <2>2. /\ Updated(n, r.m, c.id, s, was) /\ n.status[c.id].state = "none" /\ r.done = {}
        /\ checkLocks(n, c.txn)
    BY <1>6 DEF Autocommits
  <2> HIDE DEF s
  <2>3. Effect(n, c, s, was, r.writes, r.done)
    BY <1>6, <2>1, <2>2 DEF Effect
  <2> QED BY <1>1, <1>4, <2>1, <2>2, <2>3, Zenon
<1>7. CASE c.op = "Prepare" /\ Prepares(n, c, r) /\ r.writes = {}
  <2> DEFINE s == newStatus(c.ts, "Prepared")
             p == NewPrepared(c)
  <2>1. s.state = "Prepared" /\ s.ts = c.ts /\ s.state \in States
    BY <1>3 DEF States, FinalStates
  <2>2. IsPrepared(p)
    BY DEF IsPrepared, NewPrepared
  <2>3. /\ Updated(n, r.m, c.id, s, p) /\ n.status[c.id].state = "none" /\ r.done = {}
        /\ checkLocks(n, c.txn)
    BY <1>7 DEF Prepares
  <2>4. Effect(n, c, s, p, r.writes, r.done)
    <3> HIDE DEF s
    <3> QED BY <1>7, <2>1, <2>3 DEF Effect
  <2> HIDE DEF s, p
  <2> QED BY <1>4, <2>1, <2>2, <2>3, <2>4, Zenon
<1>8. CASE /\ c.op = "Commit" /\ Commits(n, c, r)
           /\ r.writes = buildWriteRecords(c.id, c.cts, n.prepared[c.id].txn)
  <2> DEFINE s == CommittedStatus(n, c)
  <2>1. s.state = "Committed" /\ s.ts = c.cts /\ s.state \in States
    BY DEF CommittedStatus, newStatus, Status, States, FinalStates
  <2>2. /\ Updated(n, r.m, c.id, s, was) /\ n.status[c.id].state \in {"Prepared", "Decided"} /\ r.done = {c.id}
        /\ n.status[c.id].state = "Prepared" => c.cts >= n.status[c.id].ts
        /\ n.status[c.id].state = "Decided" => c.cts = was.decision
    BY <1>8 DEF Commits
  <2> HIDE DEF s
  <2>3. Effect(n, c, s, was, r.writes, r.done)
    BY <1>8, <2>1, <2>2 DEF Effect
  <2> QED BY <1>1, <1>4, <2>1, <2>2, <2>3, Zenon
<1>9. CASE c.op # "Commit" /\ Aborts(n, c, r) /\ r.writes = {}
  <2> DEFINE s == newStatus(c.ts, "Aborted")
             p == Released(was)
  <2>1. s.state = "Aborted" /\ s.ts = c.ts /\ s.state \in States
    BY <1>3 DEF States, FinalStates
  <2>2. IsPrepared(p)
    BY <1>1, ReleasedFields, Zenon
  <2>3. Updated(n, r.m, c.id, s, p) /\ n.status[c.id].state = "Prepared" /\ r.done = {}
    BY <1>9 DEF Aborts
  <2>4. Effect(n, c, s, p, r.writes, r.done)
    <3> HIDE DEF s
    <3> QED BY <1>9, <2>1, <2>3 DEF Effect
  <2> HIDE DEF s, p
  <2> QED BY <1>4, <2>1, <2>2, <2>3, <2>4, Zenon
<1>10. CASE c.op # "Commit" /\ Decides(n, c, r) /\ r.writes = {}
  <2> DEFINE s == newStatus(c.ts, "Decided")
             p == [was EXCEPT !.decision = c.cts]
  <2>1. s.state = "Decided" /\ s.ts = c.ts /\ s.state \in States
    BY <1>3 DEF States
  <2>2. IsPrepared(p)
    BY <1>1, DecidedFields, Zenon
  <2>3. /\ Updated(n, r.m, c.id, s, p) /\ n.status[c.id].state = "Prepared" /\ r.done = {}
        /\ c.cts >= n.status[c.id].ts
    BY <1>10 DEF Decides
  <2>4. Effect(n, c, s, p, r.writes, r.done)
    <3>1. p = [n.prepared[c.id] EXCEPT !.decision = c.cts]
      OBVIOUS
    <3> HIDE DEF s, p, was
    <3> QED BY <1>10, <2>1, <2>3, <3>1, Zenon DEF Effect
  <2> HIDE DEF s, p
  <2> QED BY <1>4, <2>1, <2>2, <2>3, <2>4, Zenon
<1>11. CASE c.op # "Commit" /\ TimesOut(n, c, r) /\ r.writes = {}
  <2> DEFINE s == newStatus(c.ts, "Timedout")
  <2>1. s.state = "Timedout" /\ s.ts = c.ts /\ s.state \in States
    BY <1>3 DEF States, FinalStates
  <2>2. Updated(n, r.m, c.id, s, was) /\ n.status[c.id].state = "Prepared" /\ r.done = {}
    BY <1>11 DEF TimesOut
  <2> HIDE DEF s
  <2>3. Effect(n, c, s, was, r.writes, r.done)
    BY <1>11, <2>1, <2>2 DEF Effect
  <2> QED BY <1>1, <1>4, <2>1, <2>2, <2>3, Zenon
<1>12. CASE Releases(n, c, r) /\ r.writes = {}
  <2> DEFINE p == Released(was)
  <2>1. IsPrepared(p)
    BY <1>1, ReleasedFields, Zenon
  <2>2. Updated(n, r.m, c.id, n.status[c.id], p) /\ n.status[c.id].state = "Timedout" /\ r.done = {}
    BY <1>12 DEF Releases
  <2>3. Effect(n, c, n.status[c.id], p, r.writes, r.done)
    BY <1>12, <2>2 DEF Effect
  <2> HIDE DEF p
  <2> QED BY <1>1, <1>4, <2>1, <2>2, <2>3, Zenon
<1> QED BY <1>2, <1>5, <1>6, <1>7, <1>8, <1>9, <1>10, <1>11, <1>12, ZenonT(30)

-----------------------------------------------------------------------------
(* The restored locks of one transaction are the ones it had. *)
LEMMA RestoreEntry ==
    ASSUME NEW p, IsPrepared(p), p.released => p.locks = {}, ~p.released => p.locks = BuildLocks(p.txn)
    PROVE  LET r == [p EXCEPT !.locks = {}]
           IN  p = IF r.released THEN r ELSE [r EXCEPT !.locks = BuildLocks(r.txn)]
<1> DEFINE r == [p EXCEPT !.locks = {}]
<1>1. p = [present |-> p.present, txn |-> p.txn, pids |-> p.pids, ts |-> p.ts,
           locks |-> p.locks, released |-> p.released, decision |-> p.decision]
  BY DEF IsPrepared
<1>2. r = [present |-> p.present, txn |-> p.txn, pids |-> p.pids, ts |-> p.ts,
           locks |-> {}, released |-> p.released, decision |-> p.decision]
  BY <1>1
<1> HIDE DEF r
<1>3. r.released = p.released /\ r.txn = p.txn
  BY <1>2
<1>4. \A L : [r EXCEPT !.locks = L] =
          [present |-> p.present, txn |-> p.txn, pids |-> p.pids, ts |-> p.ts,
           locks |-> L, released |-> p.released, decision |-> p.decision]
  BY <1>2
<1>5. p.released => r = p
  BY <1>1, <1>2
<1>6. ~p.released => [r EXCEPT !.locks = BuildLocks(r.txn)] = p
  <2> SUFFICES ASSUME ~p.released PROVE [r EXCEPT !.locks = BuildLocks(r.txn)] = p
    OBVIOUS
  <2> DEFINE B == BuildLocks(r.txn)
  <2>1. p.locks = B
    BY <1>3
  <2> HIDE DEF B
  <2>2. [r EXCEPT !.locks = B] = p
    BY <1>1, <1>4, <2>1, Zenon
  <2> QED BY <2>2 DEF B
<1> DEFINE e == [r EXCEPT !.locks = BuildLocks(r.txn)]
<1> HIDE DEF e
<1>7. p = IF r.released THEN r ELSE e
  BY <1>3, <1>5, <1>6 DEF IsPrepared, e
<1> QED BY <1>7, Zenon DEF r, e

(* A snapshot restores the manager it was taken of, locks included. *)
LEMMA RestoreSnapshot ==
    ASSUME NEW m, NEW I, Shape(m, I),
           \A i \in I : /\ m.prepared[i].released => m.prepared[i].locks = {}
                        /\ ~m.prepared[i].released => m.prepared[i].locks = BuildLocks(m.prepared[i].txn)
    PROVE  Restore(Snapshot(m), m.db) = m
<1>1. /\ m = [status |-> m.status, prepared |-> m.prepared, maxTs |-> m.maxTs, db |-> m.db]
      /\ m.prepared = [i \in I |-> m.prepared[i]] /\ DOMAIN m.prepared = I
  BY DEF Shape
<1> DEFINE snap == Snapshot(m)
           Back(r) == IF r.released THEN r ELSE [r EXCEPT !.locks = BuildLocks(r.txn)]
<1>2. /\ snap.status = m.status /\ snap.maxTs = m.maxTs
      /\ snap.prepared = [i \in I |-> [m.prepared[i] EXCEPT !.locks = {}]]
  BY <1>1 DEF Snapshot
<1>3. Restore(snap, m.db) = [status |-> snap.status, prepared |-> [i \in DOMAIN snap.prepared |-> Back(snap.prepared[i])],
                             maxTs |-> snap.maxTs, db |-> m.db]
  BY DEF Restore
<1>4. \A i \in I : m.prepared[i] = Back([m.prepared[i] EXCEPT !.locks = {}])
  <2> SUFFICES ASSUME NEW i \in I PROVE m.prepared[i] = Back([m.prepared[i] EXCEPT !.locks = {}])
    BY Zenon
  <2>1. IsPrepared(m.prepared[i])
    BY ShapeOfPrepared
  <2>2. /\ m.prepared[i].released => m.prepared[i].locks = {}
        /\ ~m.prepared[i].released => m.prepared[i].locks = BuildLocks(m.prepared[i].txn)
    BY Zenon
  <2> DEFINE p == m.prepared[i]
  <2> HIDE DEF p
  <2>3. IsPrepared(p) /\ (p.released => p.locks = {}) /\ (~p.released => p.locks = BuildLocks(p.txn))
    BY <2>1, <2>2 DEF p
  <2>4. p = Back([p EXCEPT !.locks = {}])
    BY <2>3, RestoreEntry, Zenon
  <2> QED BY <2>4 DEF p
<1> HIDE DEF snap, Back
<1>5. DOMAIN snap.prepared = I /\ \A i \in I : snap.prepared[i] = [m.prepared[i] EXCEPT !.locks = {}]
  BY <1>2
<1>6. \A i \in I : Back(snap.prepared[i]) = m.prepared[i]
  BY <1>4, <1>5, ZenonT(30)
<1>7. [i \in DOMAIN snap.prepared |-> Back(snap.prepared[i])] = m.prepared
  BY <1>1, <1>5, <1>6
<1>8. Restore(snap, m.db) = m
  BY <1>1, <1>2, <1>3, <1>7
<1> QED BY <1>8 DEF snap

=============================================================================
