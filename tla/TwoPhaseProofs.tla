--------------------------- MODULE TwoPhaseProofs ---------------------------
(***************************************************************************)
(* Proofs about the distributed transactions of TwoPhaseCommit.tla: the    *)
(* inductive invariant IInv, what a command does to one participant, and   *)
(* that no step of a coordinator (processor2PC), of a watchdog             *)
(* (watchdog2PC), or of a request that comes late, breaks the invariant.   *)
(***************************************************************************)
EXTENDS TwoPhaseCommit, TxnManagerProofs

(* SMT is the default prover; Zenon is cited where it does better. *)
USE ZenonT(30)

(* What no proof below uses. *)
HIDE DEF SetStatusUpdates, SetPreparedUpdates, SetBothUpdates,
         AutocommitEffect, PrepareEffect, CommitEffect, AbortEffect,
         StoreDecisionEffect, MarkTimedoutEffect, ApplyEffect,
         UpdatedTouches, ApplyTransition, CleanupKeeps, ApplyWrites,
         RestoreEntry, RestoreSnapshot

(* The watchdog and the client of the principal partition must learn of the *)
(* outcome of StoreDecision: the code answers a lost decision with aborts.  *)
DecisionAnswered == "StoreDecision" \notin Lossy

-----------------------------------------------------------------------------
(* The inductive invariant, for one transaction t.  Everything turns on    *)
(* the principal: once its manager has stored the decision, everybody is   *)
(* prepared and stays so until it commits at the decided timestamp; where  *)
(* an abort was started, no decision can be stored any more.               *)

HasDecided(t) == State(t, Principal[t]) \in {"Decided", "Committed"}

Decision(t) == m[Principal[t]].prepared[t].decision

(* The requests for t of an operation. *)
Sent(t, op) == {r \in net : r.txn = t /\ r.op = op}

(* The phases from which no decision is sent. *)
Over == {"abort", "abort1", "returned", "hung", "crashed"}

(* No decision can be stored, now or later, by a coordinator. *)
GivenUp(t) == ~HasDecided(t) /\ pc[t] \in Over /\ Sent(t, "StoreDecision") = {}

(* If the principal can still decide, then everybody is prepared for it.    *)
Decidable(t) ==
    /\ State(t, Principal[t]) # "none"
    /\ State(t, Principal[t]) = "Prepared" =>
          \A p \in Participants[t] : State(t, p) = "Prepared" /\ m[p].prepared[t].ts <= cts[t]

DecisionHolds(t) ==
    /\ HasDecided(t) =>
          /\ \A p \in Participants[t] :
                /\ State(t, p) \in {"Prepared", "Decided", "Committed"}
                /\ m[p].prepared[t].ts <= Decision(t)
                /\ State(t, p) = "Committed" => m[p].status[t].ts = Decision(t)
          /\ pc[t] \in {"store", "commit", "commit1", "returned", "crashed"}
          /\ pc[t] = "store" => call[t][Principal[t]].state = "Decided"
    /\ \A p \in Participants[t] : State(t, p) = "Committed" => HasDecided(t)
    /\ \A p \in Others(t) : State(t, p) # "Decided"

RequestsJustified(t) ==
    /\ \A r \in Sent(t, "Commit") : HasDecided(t) /\ r.cts = Decision(t)
    /\ \A r \in Sent(t, "StoreDecision") :
          /\ r.pid = Principal[t] /\ r.cts = cts[t] /\ ~HasDecided(t) /\ Decidable(t)
          /\ pc[t] = "crashed" \/ (pc[t] = "store" /\ call[t][Principal[t]] = Waiting)
    /\ Sent(t, "Abort") # {} => GivenUp(t)

AnswersTrue(t) ==
    /\ pc[t] = "prepare1" /\ call[t][Principal[t]].state = "Prepared" =>
          /\ State(t, Principal[t]) # "none"
          /\ State(t, Principal[t]) = "Prepared" =>
                m[Principal[t]].prepared[t].ts = call[t][Principal[t]].ts
    /\ pc[t] = "prepare" =>
          /\ State(t, Principal[t]) # "none"
          /\ State(t, Principal[t]) = "Prepared" =>
                /\ m[Principal[t]].prepared[t].ts <= cts[t]
                /\ \A p \in Others(t) : call[t][p].state = "Prepared" =>
                      State(t, p) = "Prepared" /\ m[p].prepared[t].ts = call[t][p].ts
    /\ pc[t] = "store" =>
          /\ Decidable(t)
          /\ call[t][Principal[t]].state = "Decided" => HasDecided(t) /\ Decision(t) = cts[t]
    /\ pc[t] \in {"commit", "commit1"} =>
          /\ HasDecided(t) /\ Decision(t) = cts[t]
          /\ \A p \in Participants[t] : call[t][p].state = "Committed" => State(t, p) = "Committed"
    /\ pc[t] = "commit1" => \A p \in Others(t) : State(t, p) = "Committed"

ToldTrue(t) ==
    /\ told[t] = "failure" => GivenUp(t)
    /\ told[t] = "success" =>
          /\ pc[t] = "returned" /\ HasDecided(t) /\ Decision(t) = cts[t]
          /\ \A p \in Participants[t] : State(t, p) = "Committed"

WatchdogRight(t) ==
    /\ \A u \in dog[t].updates \cup dog[t].queue :
          u.state = "Decided" => HasDecided(t) /\ u.decision = Decision(t)
    /\ dog[t].job.phase = "commit" => HasDecided(t) /\ dog[t].job.decision = Decision(t)
    /\ dog[t].job.phase = "abort" => State(t, Principal[t]) = "Timedout"

TxnInv(t) ==
    /\ DecisionHolds(t) /\ RequestsJustified(t) /\ AnswersTrue(t)
    /\ ToldTrue(t) /\ WatchdogRight(t)

(* The layout of the state. *)
ManagersOK ==
    /\ m = [p \in Pids |-> m[p]] /\ clock \in [Pids -> Nat]
    /\ \A p \in Pids : Shape(m[p], Txns)
    /\ \A p \in Pids : \A t \in Txns :
          /\ m[p].status[t].ts \in Nat
          /\ m[p].prepared[t].ts \in Nat /\ m[p].prepared[t].decision \in Nat
          /\ State(t, p) = "Prepared" => m[p].prepared[t].ts = m[p].status[t].ts

RequestOK(r) ==
    /\ r = [txn |-> r.txn, op |-> r.op, pid |-> r.pid, cts |-> r.cts]
    /\ r.txn \in Txns /\ r.op \in Operations /\ r.pid \in Participants[r.txn] /\ r.cts \in Nat

CallsOK ==
    /\ pc = [t \in Txns |-> pc[t]] /\ told = [t \in Txns |-> told[t]] /\ cts \in [Txns -> Nat]
    /\ call = [t \in Txns |-> call[t]]
    /\ \A t \in Txns : /\ call[t] = [p \in Participants[t] |-> call[t][p]]
                       /\ \A p \in Participants[t] : call[t][p].ts \in Nat
    /\ \A r \in net : RequestOK(r)

DogsOK ==
    /\ dog = [t \in Txns |-> dog[t]]
    /\ \A t \in Txns :
          LET d == dog[t] IN
          /\ d = [all |-> d.all, queue |-> d.queue, updates |-> d.updates, job |-> d.job]
          /\ d.job = [phase |-> d.job.phase, left |-> d.job.left, decision |-> d.job.decision]
          /\ d.job.decision \in Nat
          /\ \A u \in d.updates \cup d.queue : u.decision \in Nat

IInv == ManagersOK /\ CallsOK /\ DogsOK /\ \A t \in Txns : TxnInv(t)

-----------------------------------------------------------------------------
(* What the execution of one command changes of the managers. *)

CommandOK(c, t) == c.id = t /\ c.op \in OnePhaseOps /\ c.ts \in Nat /\ c.cts \in Nat

(* The entries of t at p after a command for them. *)
Result(p, c, n) ==
    /\ Shape(n, Txns)
    /\ Moves(m[p], c, m[p].status[c.id], m[p].prepared[c.id], n.status[c.id], n.prepared[c.id])
    /\ Replies(c, ApplyOne(p, c), m[p].status[c.id], n.status[c.id])
    /\ \A u \in Txns \ {c.id} : n.status[u] = m[p].status[u] /\ n.prepared[u] = m[p].prepared[u]

(* ApplyOne is Apply and the end of its batch. *)
LEMMA OneResult ==
    ASSUME ManagersOK, NEW p \in Pids, NEW t \in Txns, NEW c, CommandOK(c, t)
    PROVE  Result(p, c, ApplyOne(p, c).m)
<1> DEFINE n == m[p]
           r == Apply(n, p, c)
           n2 == FinishBatch(r.m, r.writes, r.done, r.m.maxTs)
<1>1. Shape(n, Txns) /\ c.id = t /\ c.id \in Txns /\ c.op \in OnePhaseOps
  BY DEF ManagersOK, CommandOK
<1>2. Moved(n, r.m, Txns, c, r.done) /\ Replies(c, r, n.status[c.id], r.m.status[c.id]) /\ IsResult(r)
  BY <1>1, ApplyMoves, ApplyReplies, ApplyResult
<1>3. ApplyOne(p, c) = [r EXCEPT !.m = n2]
  BY DEF ApplyOne
<1> HIDE DEF n, r
<1>4. PICK s, q : /\ Touched(n, r.m, Txns, c.id, s, q)
                  /\ Moves(n, c, n.status[c.id], n.prepared[c.id], s, q)
                  /\ LateRelease(c, n.status[c.id], s, r.done)
  BY <1>2 DEF Moved
<1>5. Shape(r.m, Txns)
  BY <1>4 DEF Touched
<1>6. Finished(r.m, n2, Txns, r.done, r.m.maxTs)
  BY <1>5, FinishBatchKeeps
<1> HIDE DEF n2
<1>7. ApplyOne(p, c).m = n2 /\ ApplyOne(p, c).err = r.err /\ ApplyOne(p, c).status = r.status
  <2>1. r = [m |-> r.m, err |-> r.err, status |-> r.status, writes |-> r.writes, done |-> r.done]
    BY <1>2 DEF IsResult
  <2> QED BY <1>3, <2>1
<1>8. Shape(n2, Txns) /\ n2.status = r.m.status
  BY <1>6 DEF Finished
<1>9. Replies(c, ApplyOne(p, c), n.status[c.id], n2.status[c.id])
  BY <1>2, <1>7, <1>8 DEF Replies
<1>10. \A u \in Txns \ {c.id} : n2.status[u] = n.status[u] /\ n2.prepared[u] = n.prepared[u]
  <2>1. \A u \in Txns \ {c.id} : r.m.status[u] = n.status[u] /\ r.m.prepared[u] = n.prepared[u]
    BY <1>4 DEF Touched
  <2>2. \A u \in Txns \ {c.id} : u \notin r.done
    BY <1>4 DEF LateRelease
  <2> QED BY <1>6, <1>8, <2>1, <2>2 DEF Finished
<1>11. Moves(n, c, n.status[c.id], n.prepared[c.id], n2.status[c.id], n2.prepared[c.id])
  <2>1. r.m.status[c.id] = s /\ r.m.prepared[c.id] = q
    BY <1>4 DEF Touched
  <2>2. CASE r.done = {}
    <3>1. n2.prepared[c.id] = q
      BY <1>1, <1>6, <2>1, <2>2 DEF Finished
    <3> QED BY <1>4, <1>8, <2>1, <3>1
  <2>3. CASE r.done # {}
    <3>1. c.op = "Commit" /\ n.status[c.id].state # "Committed" /\ s.state = "Committed" /\ c.id \in r.done
      BY <1>4, <2>3 DEF LateRelease
    <3>2. n2.prepared[c.id] = Released(q)
      BY <1>1, <1>6, <2>1, <3>1 DEF Finished
    <3>3. IsPrepared(q)
      BY <1>1, <1>5, <2>1, ShapeOfPrepared
    <3>4. Released(q).ts = q.ts /\ Released(q).decision = q.decision
      BY <3>3, ReleasedFields
    <3> QED BY <1>4, <1>8, <2>1, <3>1, <3>2, <3>4 DEF Moves
  <2> QED BY <2>2, <2>3
<1> QED BY <1>1, <1>7, <1>8, <1>9, <1>10, <1>11 DEF Result, n

(* Executing a command keeps the layout and changes one manager only. *)
LEMMA Executed ==
    ASSUME ManagersOK, NEW p \in Pids, NEW t \in Txns, NEW c, CommandOK(c, t), Execute(p, c)
    PROVE  /\ ManagersOK' /\ Result(p, c, m'[p])
           /\ \A q \in Pids \ {p} : m'[q] = m[q]
<1>1. Result(p, c, ApplyOne(p, c).m)
  BY OneResult
<1>2. m = [q \in Pids |-> m[q]] /\ clock \in [Pids -> Nat]
  BY DEF ManagersOK
<1>3. m' = [m EXCEPT ![p] = ApplyOne(p, c).m]
  BY DEF Execute
<1>4. /\ m'[p] = ApplyOne(p, c).m /\ m' = [q \in Pids |-> m'[q]]
      /\ \A q \in Pids \ {p} : m'[q] = m[q]
  BY <1>2, <1>3
<1>5. clock' \in [Pids -> Nat]
  <2>1. \E x \in Nat : clock' = [clock EXCEPT ![p] = x]
    <3>1. Max2(clock[p], c.cts) \in Nat /\ c.ts \in Nat
      BY <1>2 DEF CommandOK, Max2
    <3> QED BY <3>1 DEF Execute
  <2> QED BY <1>2, <2>1
<1>6. Result(p, c, m'[p])
  BY <1>1, <1>4
<1>7. ASSUME NEW q \in Pids
      PROVE  /\ Shape(m[q], Txns)' /\ \A u \in Txns :
                /\ m[q].status[u].ts' \in Nat
                /\ m[q].prepared[u].ts' \in Nat /\ m[q].prepared[u].decision' \in Nat
                /\ State(u, q)' = "Prepared" => m[q].prepared[u].ts' = m[q].status[u].ts'
  <2>1. /\ Shape(m[q], Txns) /\ \A u \in Txns :
                /\ m[q].status[u].ts \in Nat
                /\ m[q].prepared[u].ts \in Nat /\ m[q].prepared[u].decision \in Nat
                /\ m[q].status[u].state = "Prepared" => m[q].prepared[u].ts = m[q].status[u].ts
    BY DEF ManagersOK, State
  <2>2. CASE q # p
    <3>1. m'[q] = m[q]
      BY <1>4, <2>2
    <3> QED BY <2>1, <3>1 DEF State
  <2>3. CASE q = p
    <3>1. Shape(m'[p], Txns)
      BY <1>6 DEF Result
    <3>2. ASSUME NEW u \in Txns \ {t}
          PROVE  m'[p].status[u] = m[p].status[u] /\ m'[p].prepared[u] = m[p].prepared[u]
      BY <1>6, <3>2 DEF Result, CommandOK
    <3>3. /\ m'[p].status[t].ts \in Nat
          /\ m'[p].prepared[t].ts \in Nat /\ m'[p].prepared[t].decision \in Nat
          /\ m'[p].status[t].state = "Prepared" => m'[p].prepared[t].ts = m'[p].status[t].ts
      <4>1. Moves(m[p], c, m[p].status[t], m[p].prepared[t], m'[p].status[t], m'[p].prepared[t])
        BY <1>6 DEF Result, CommandOK
      <4>2. c.ts \in Nat /\ c.cts \in Nat
        BY DEF CommandOK
      <4>3. /\ m[p].status[t].ts \in Nat
            /\ m[p].prepared[t].ts \in Nat /\ m[p].prepared[t].decision \in Nat
            /\ m[p].status[t].state = "Prepared" => m[p].prepared[t].ts = m[p].status[t].ts
        BY <2>1, <2>3
      <4> QED BY <4>1, <4>2, <4>3, SMTT(60) DEF Moves
    <3> QED BY <2>1, <2>3, <3>1, <3>2, <3>3 DEF State
  <2> QED BY <2>2, <2>3
<1>8. ManagersOK'
  BY <1>4, <1>5, <1>7 DEF ManagersOK
<1> QED BY <1>4, <1>6, <1>8

-----------------------------------------------------------------------------
(* What a step of one transaction leaves of another one. *)

Undisturbed(u) ==
    /\ \A p \in Participants[u] : m'[p].status[u] = m[p].status[u] /\ m'[p].prepared[u] = m[p].prepared[u]
    /\ pc'[u] = pc[u] /\ call'[u] = call[u] /\ cts'[u] = cts[u] /\ told'[u] = told[u]
    /\ dog'[u] = dog[u]
    /\ \A op \in Operations : Sent(u, op)' \subseteq Sent(u, op)

(* A transaction keeps its invariant while nothing of it changes. *)
LEMMA Frame ==
    ASSUME NEW u \in Txns, TxnInv(u), Undisturbed(u)
    PROVE  TxnInv(u)'
<1>1. Principal[u] \in Participants[u] /\ \A p \in Others(u) : p \in Participants[u]
  BY TwoPhaseAssumption DEF Others
<1>2. /\ \A p \in Participants[u] : /\ State(u, p)' = State(u, p)
                                    /\ m'[p].status[u] = m[p].status[u]
                                    /\ m'[p].prepared[u] = m[p].prepared[u]
      /\ HasDecided(u)' = HasDecided(u) /\ Decision(u)' = Decision(u)
  BY <1>1 DEF Undisturbed, State, HasDecided, Decision
<1>3. /\ pc'[u] = pc[u] /\ call'[u] = call[u] /\ cts'[u] = cts[u] /\ told'[u] = told[u]
      /\ dog'[u] = dog[u]
      /\ Sent(u, "Commit")' \subseteq Sent(u, "Commit")
      /\ Sent(u, "StoreDecision")' \subseteq Sent(u, "StoreDecision")
      /\ Sent(u, "Abort")' \subseteq Sent(u, "Abort")
  BY DEF Undisturbed, Operations
<1>4. (Decidable(u) => Decidable(u)') /\ (GivenUp(u) => GivenUp(u)')
  BY <1>1, <1>2, <1>3 DEF Decidable, GivenUp
<1>5. DecisionHolds(u)'
  BY <1>1, <1>2, <1>3 DEF DecisionHolds, TxnInv
<1>6. RequestsJustified(u)'
  BY <1>1, <1>2, <1>3, <1>4 DEF RequestsJustified, TxnInv
<1>7. AnswersTrue(u)'
  BY <1>1, <1>2, <1>3, <1>4 DEF AnswersTrue, TxnInv
<1>8. ToldTrue(u)' /\ WatchdogRight(u)'
  BY <1>1, <1>2, <1>3, <1>4 DEF ToldTrue, WatchdogRight, TxnInv
<1> QED BY <1>5, <1>6, <1>7, <1>8 DEF TxnInv

-----------------------------------------------------------------------------
(* The coordinator's steps. *)

(* The calls of the participants in P begin: no other request is sent.      *)
Entered(t, phase, P) ==
    /\ pc'[t] = phase
    /\ \A p \in Participants[t] : call'[t][p] = IF p \in P THEN Waiting ELSE NoStatus
    /\ \A op \in Operations \ {PhaseOp[phase]} : Sent(t, op)' \subseteq Sent(t, op)
    /\ \A r \in Sent(t, PhaseOp[phase])' :
          \/ r \in Sent(t, PhaseOp[phase])
          \/ r.pid \in P /\ (PhaseOp[phase] \in {"StoreDecision", "Commit"} => r.cts = cts'[t])

Exited(t, to) ==
    /\ pc'[t] = to
    /\ \A p \in Participants[t] : call'[t][p] = NoStatus
    /\ \A op \in Operations : Sent(t, op)' \subseteq Sent(t, op)

(* The other transactions are not affected. *)
OnlyCalls(t) ==
    /\ \A u \in Txns \ {t} : pc'[u] = pc[u] /\ call'[u] = call[u]
    /\ \A u \in Txns \ {t} : \A op \in Operations : Sent(u, op)' \subseteq Sent(u, op)

Phases == {"prepare1", "prepare", "store", "commit", "commit1", "abort", "abort1"}

(* Enter does what its name says. *)
LEMMA EnterStep ==
    ASSUME CallsOK, NEW t \in Txns, NEW phase \in Phases, NEW P, P \subseteq Participants[t],
           cts' \in [Txns -> Nat], told' = [u \in Txns |-> told'[u]], Enter(t, phase, P)
    PROVE  CallsOK' /\ Entered(t, phase, P) /\ OnlyCalls(t)
<1> DEFINE op == PhaseOp[phase]
<1>1. op \in Operations
  BY SMTT(60) DEF Phases, PhaseOp, Operations
<1> HIDE DEF op
<1>2. /\ pc = [u \in Txns |-> pc[u]] /\ call = [u \in Txns |-> call[u]]
      /\ \A u \in Txns : /\ call[u] = [p \in Participants[u] |-> call[u][p]]
                         /\ \A p \in Participants[u] : call[u][p].ts \in Nat
      /\ \A r \in net : RequestOK(r)
  BY DEF CallsOK
<1>3. /\ pc'[t] = phase /\ \A u \in Txns \ {t} : pc'[u] = pc[u] /\ call'[u] = call[u]
      /\ pc' = [u \in Txns |-> pc'[u]] /\ call' = [u \in Txns |-> call'[u]]
      /\ call'[t] = [p \in Participants[t] |-> IF p \in P THEN Waiting ELSE NoStatus]
  BY <1>2 DEF Enter
<1>4. Waiting.ts \in Nat /\ NoStatus.ts \in Nat
  BY DEF Waiting, NoStatus, Status
<1>5. \A u \in Txns : /\ call'[u] = [p \in Participants[u] |-> call'[u][p]]
                      /\ \A p \in Participants[u] : call'[u][p].ts \in Nat
  BY <1>2, <1>3, <1>4, SMTT(60)
<1>6. \A r \in net' :
         \/ r \in net
         \/ /\ r.txn = t /\ r.op = op /\ r.pid \in P
            /\ r.cts = IF op \in {"StoreDecision", "Commit"} THEN cts'[t] ELSE 0
  BY SMTT(60) DEF Enter, Request, op
<1>7. \A r \in net' : RequestOK(r)
  <2>1. \A r \in net' : r \in net \/ \E p \in P : r = [txn |-> t, op |-> op, pid |-> p, cts |-> r.cts]
    BY SMTT(60) DEF Enter, Request, op
  <2> QED BY <1>1, <1>2, <1>6, <2>1, SMTT(60) DEF RequestOK
<1>8. CallsOK'
  BY <1>3, <1>5, <1>7 DEF CallsOK
<1>9. Entered(t, phase, P)
  BY <1>3, <1>6 DEF Entered, Sent, op
<1>10. OnlyCalls(t)
  BY <1>3, <1>6 DEF OnlyCalls, Sent
<1> QED BY <1>8, <1>9, <1>10

(* So does Exit. *)
LEMMA ExitStep ==
    ASSUME CallsOK, NEW t \in Txns, NEW to, cts' \in [Txns -> Nat], told' = [u \in Txns |-> told'[u]],
           Exit(t, to)
    PROVE  CallsOK' /\ Exited(t, to) /\ OnlyCalls(t)
<1>1. /\ pc = [u \in Txns |-> pc[u]] /\ call = [u \in Txns |-> call[u]]
      /\ \A u \in Txns : /\ call[u] = [p \in Participants[u] |-> call[u][p]]
                         /\ \A p \in Participants[u] : call[u][p].ts \in Nat
      /\ \A r \in net : RequestOK(r)
  BY DEF CallsOK
<1>2. /\ pc'[t] = to /\ \A u \in Txns \ {t} : pc'[u] = pc[u] /\ call'[u] = call[u]
      /\ pc' = [u \in Txns |-> pc'[u]] /\ call' = [u \in Txns |-> call'[u]]
      /\ call'[t] = [p \in Participants[t] |-> NoStatus]
      /\ net' = net
  BY <1>1 DEF Exit
<1>3. NoStatus.ts \in Nat
  BY DEF NoStatus, Status
<1>4. \A u \in Txns : /\ call'[u] = [p \in Participants[u] |-> call'[u][p]]
                      /\ \A p \in Participants[u] : call'[u][p].ts \in Nat
  BY <1>1, <1>2, <1>3, SMTT(60)
<1>5. CallsOK'
  BY <1>1, <1>2, <1>4 DEF CallsOK
<1> QED BY <1>2, <1>5 DEF Exited, OnlyCalls, Sent

(* A step that leaves the managers and the watchdogs alone. *)
Quiet == m' = m /\ clock' = clock /\ dog' = dog

(* What such a step does not change of a transaction. *)
LEMMA QuietFacts ==
    ASSUME NEW t \in Txns, Quiet
    PROVE  /\ \A p : State(t, p)' = State(t, p)
           /\ HasDecided(t)' = HasDecided(t) /\ Decision(t)' = Decision(t)
           /\ WatchdogRight(t) => WatchdogRight(t)'
           /\ Principal[t] \in Participants[t] /\ \A p \in Others(t) : p \in Participants[t] /\ p # Principal[t]
<1>1. Principal[t] \in Participants[t] /\ \A p \in Others(t) : p \in Participants[t] /\ p # Principal[t]
  BY TwoPhaseAssumption DEF Others
<1>2. /\ \A p : State(t, p)' = State(t, p)
      /\ HasDecided(t)' = HasDecided(t) /\ Decision(t)' = Decision(t)
  BY DEF Quiet, State, HasDecided, Decision
<1>3. WatchdogRight(t) => WatchdogRight(t)'
  BY <1>2 DEF Quiet, WatchdogRight
<1> QED BY <1>1, <1>2, <1>3

(* Where no StoreDecision request is on its way. *)
LEMMA NoDecisionSent ==
    ASSUME NEW t \in Txns, TxnInv(t),
           pc[t] \notin {"store", "crashed"} \/ (pc[t] = "store" /\ call[t][Principal[t]] # Waiting)
    PROVE  Sent(t, "StoreDecision") = {}
BY DEF TxnInv, RequestsJustified

(* Returning is right if what the client is told is. *)
LEMMA ExitInv ==
    ASSUME NEW t \in Txns, TxnInv(t), Sent(t, "StoreDecision") = {}, Quiet,
           NEW to \in {"returned", "hung"}, Exited(t, to), cts'[t] = cts[t],
           to = "hung" => ~HasDecided(t),
           told'[t] = "failure" => ~HasDecided(t),
           told'[t] = "success" => /\ to = "returned" /\ HasDecided(t) /\ Decision(t) = cts[t]
                                   /\ \A p \in Participants[t] : State(t, p) = "Committed"
    PROVE  TxnInv(t)'
<1>1. /\ \A p : State(t, p)' = State(t, p)
      /\ HasDecided(t)' = HasDecided(t) /\ Decision(t)' = Decision(t)
      /\ WatchdogRight(t) => WatchdogRight(t)'
      /\ Principal[t] \in Participants[t] /\ \A p \in Others(t) : p \in Participants[t]
  BY QuietFacts
<1>2. /\ pc'[t] = to /\ Sent(t, "Commit")' \subseteq Sent(t, "Commit")
      /\ Sent(t, "StoreDecision")' = {} /\ Sent(t, "Abort")' \subseteq Sent(t, "Abort")
  BY DEF Exited, Operations
<1>3. ~HasDecided(t) => GivenUp(t)'
  BY <1>1, <1>2 DEF GivenUp, Over
<1>4. GivenUp(t) => ~HasDecided(t)
  BY DEF GivenUp
<1>5. DecisionHolds(t)'
  BY <1>1, <1>2 DEF TxnInv, DecisionHolds, Quiet
<1>6. RequestsJustified(t)'
  BY <1>1, <1>2, <1>3, <1>4 DEF TxnInv, RequestsJustified
<1>7. AnswersTrue(t)'
  BY <1>2 DEF AnswersTrue
<1>8. ToldTrue(t)'
  BY <1>1, <1>2, <1>3 DEF ToldTrue
<1> QED BY <1>1, <1>5, <1>6, <1>7, <1>8 DEF TxnInv

(* Aborting is right if there is no decision and none will be stored. *)
LEMMA AbortInv ==
    ASSUME NEW t \in Txns, TxnInv(t), Sent(t, "StoreDecision") = {}, Quiet, ~HasDecided(t),
           NEW phase \in {"abort", "abort1"}, NEW P, Entered(t, phase, P), cts'[t] = cts[t],
           told'[t] # "success"
    PROVE  TxnInv(t)'
<1>1. /\ \A p : State(t, p)' = State(t, p)
      /\ HasDecided(t)' = HasDecided(t) /\ Decision(t)' = Decision(t)
      /\ WatchdogRight(t) => WatchdogRight(t)'
      /\ Principal[t] \in Participants[t] /\ \A p \in Others(t) : p \in Participants[t]
  BY QuietFacts
<1>2. PhaseOp[phase] = "Abort"
  BY SMTT(60) DEF PhaseOp
<1>3. /\ pc'[t] = phase /\ Sent(t, "Commit")' \subseteq Sent(t, "Commit")
      /\ Sent(t, "StoreDecision")' = {}
  BY <1>2 DEF Entered, Operations
<1>4. GivenUp(t)'
  BY <1>1, <1>3 DEF GivenUp, Over
<1>5. DecisionHolds(t)'
  BY <1>1, <1>3 DEF TxnInv, DecisionHolds, Quiet
<1>6. RequestsJustified(t)'
  BY <1>1, <1>3, <1>4 DEF TxnInv, RequestsJustified
<1>7. AnswersTrue(t)'
  BY <1>3 DEF AnswersTrue
<1>8. ToldTrue(t)'
  BY <1>4 DEF ToldTrue
<1> QED BY <1>1, <1>5, <1>6, <1>7, <1>8 DEF TxnInv

(* Waiting and NoStatus are not the answers the phases look for. *)
LEMMA NoAnswer ==
    ASSUME NEW p, NEW P, NEW a, a = IF p \in P THEN Waiting ELSE NoStatus
    PROVE  a.state \notin {"Prepared", "Decided", "Committed"} /\ a.ts = 0 /\ (p \in P => a = Waiting)
BY DEF Waiting, NoStatus, Status

(* Asking to prepare: the first phases of Process. *)
LEMMA PrepareInv ==
    ASSUME NEW t \in Txns, TxnInv(t), Quiet, told'[t] = told[t],
           NEW phase, NEW P, Entered(t, phase, P),
           \/ pc[t] = "idle" /\ phase = "prepare1"
           \/ /\ pc[t] = "prepare1" /\ phase = "prepare" /\ call[t][Principal[t]].state = "Prepared"
              /\ cts'[t] = call[t][Principal[t]].ts /\ cts'[t] \in Nat
    PROVE  TxnInv(t)'
<1>1. /\ \A p : State(t, p)' = State(t, p)
      /\ HasDecided(t)' = HasDecided(t) /\ Decision(t)' = Decision(t)
      /\ WatchdogRight(t) => WatchdogRight(t)'
      /\ Principal[t] \in Participants[t] /\ \A p \in Others(t) : p \in Participants[t]
  BY QuietFacts
<1>2. PhaseOp[phase] = "Prepare"
  BY SMTT(60) DEF PhaseOp
<1>3. /\ ~HasDecided(t) /\ Sent(t, "StoreDecision") = {} /\ Sent(t, "Commit") = {} /\ Sent(t, "Abort") = {}
      /\ told[t] \notin {"failure", "success"}
  BY DEF TxnInv, DecisionHolds, RequestsJustified, ToldTrue, GivenUp, Over
<1>4. /\ pc'[t] = phase /\ Sent(t, "Commit")' = {} /\ Sent(t, "StoreDecision")' = {} /\ Sent(t, "Abort")' = {}
  BY <1>2, <1>3 DEF Entered, Operations
<1>5. DecisionHolds(t)'
  BY <1>1, <1>3, <1>4 DEF TxnInv, DecisionHolds, Quiet
<1>6. RequestsJustified(t)'
  BY <1>4 DEF RequestsJustified
<1>7. \A p \in Participants[t] : call'[t][p].state # "Prepared"
  BY NoAnswer, SMTT(60) DEF Entered
<1>8. AnswersTrue(t)'
  <2>1. CASE phase = "prepare1"
    BY <1>1, <1>4, <1>7, <2>1 DEF AnswersTrue
  <2>2. CASE phase = "prepare"
    <3>1. /\ State(t, Principal[t]) # "none"
          /\ State(t, Principal[t]) = "Prepared" => m[Principal[t]].prepared[t].ts = cts'[t] /\ cts'[t] \in Nat
      BY <2>2 DEF TxnInv, AnswersTrue
    <3>2. State(t, Principal[t]) = "Prepared" => m[Principal[t]].prepared[t].ts <= cts'[t]
      BY <3>1, SMTT(60)
    <3>3. pc'[t] = "prepare" /\ m' = m
      BY <1>4, <2>2 DEF Quiet
    <3> QED BY <1>1, <1>7, <3>1, <3>2, <3>3 DEF AnswersTrue
  <2> QED BY <2>1, <2>2
<1>9. ToldTrue(t)'
  BY <1>3 DEF ToldTrue
<1> QED BY <1>1, <1>5, <1>6, <1>8, <1>9 DEF TxnInv

(* Asking to store the decision: everybody has answered to be prepared. *)
LEMMA StoreInv ==
    ASSUME NEW t \in Txns, IInv, Quiet, told'[t] = told[t], pc[t] = "prepare",
           Entered(t, "store", {Principal[t]}), cts'[t] \in Nat, cts[t] <= cts'[t],
           \A p \in Others(t) : call[t][p].state = "Prepared" /\ call[t][p].ts <= cts'[t]
    PROVE  TxnInv(t)'
<1>1. /\ \A p : State(t, p)' = State(t, p)
      /\ HasDecided(t)' = HasDecided(t) /\ Decision(t)' = Decision(t)
      /\ WatchdogRight(t) => WatchdogRight(t)'
      /\ Principal[t] \in Participants[t] /\ \A p \in Others(t) : p \in Participants[t]
  BY QuietFacts
<1>2. /\ TxnInv(t) /\ cts[t] \in Nat
      /\ \A p \in Participants[t] : m[p].prepared[t].ts \in Nat /\ m'[p] = m[p]
  BY DEF IInv, CallsOK, ManagersOK, Participants, Quiet
<1>3. PhaseOp["store"] = "StoreDecision"
  BY DEF PhaseOp
<1>4. /\ ~HasDecided(t) /\ Sent(t, "StoreDecision") = {} /\ Sent(t, "Commit") = {} /\ Sent(t, "Abort") = {}
      /\ told[t] \notin {"failure", "success"}
  BY <1>2 DEF TxnInv, DecisionHolds, RequestsJustified, ToldTrue, GivenUp, Over
<1>5. /\ pc'[t] = "store" /\ Sent(t, "Commit")' = {} /\ Sent(t, "Abort")' = {}
      /\ \A r \in Sent(t, "StoreDecision")' : r.pid = Principal[t] /\ r.cts = cts'[t]
      /\ call'[t][Principal[t]] = Waiting
  BY <1>1, <1>3, <1>4 DEF Entered, Operations
<1>6. Decidable(t)'
  <2>1. State(t, Principal[t]) # "none"
    BY <1>2 DEF TxnInv, AnswersTrue
  <2>2. ASSUME State(t, Principal[t]) = "Prepared", NEW p \in Participants[t]
        PROVE  State(t, p) = "Prepared" /\ m[p].prepared[t].ts <= cts'[t]
    <3>1. CASE p = Principal[t]
      <4>1. m[p].prepared[t].ts <= cts[t]
        BY <1>2, <2>2, <3>1 DEF TxnInv, AnswersTrue
      <4> QED BY <1>2, <2>2, <3>1, <4>1, SMTT(60)
    <3>2. CASE p # Principal[t]
      <4>1. p \in Others(t)
        BY <3>2 DEF Others
      <4>2. State(t, p) = "Prepared" /\ m[p].prepared[t].ts = call[t][p].ts
        BY <1>2, <2>2, <4>1 DEF TxnInv, AnswersTrue
      <4> QED BY <4>1, <4>2
    <3> QED BY <3>1, <3>2
  <2> QED BY <1>1, <1>2, <2>1, <2>2 DEF Decidable
<1>7. DecisionHolds(t)'
  BY <1>1, <1>2, <1>4, <1>5 DEF TxnInv, DecisionHolds
<1>8. RequestsJustified(t)'
  BY <1>1, <1>4, <1>5, <1>6 DEF RequestsJustified
<1>9. AnswersTrue(t)'
  <2>1. Waiting.state # "Decided"
    BY DEF Waiting, Status
  <2> QED BY <1>5, <1>6, <2>1 DEF AnswersTrue
<1>10. ToldTrue(t)'
  BY <1>4 DEF ToldTrue
<1> QED BY <1>1, <1>2, <1>7, <1>8, <1>9, <1>10 DEF TxnInv

(* Asking to commit: the decision is stored. *)
LEMMA CommitInv ==
    ASSUME NEW t \in Txns, TxnInv(t), Quiet, told'[t] = told[t], cts'[t] = cts[t],
           NEW phase \in {"commit", "commit1"}, NEW P, Entered(t, phase, P),
           pc[t] = "commit" \/ (pc[t] = "store" /\ call[t][Principal[t]].state = "Decided"),
           phase = "commit1" => \A p \in Others(t) : State(t, p) = "Committed"
    PROVE  TxnInv(t)'
<1>1. /\ \A p : State(t, p)' = State(t, p)
      /\ HasDecided(t)' = HasDecided(t) /\ Decision(t)' = Decision(t)
      /\ WatchdogRight(t) => WatchdogRight(t)'
      /\ Principal[t] \in Participants[t] /\ \A p \in Others(t) : p \in Participants[t]
  BY QuietFacts
<1>2. PhaseOp[phase] = "Commit"
  BY SMTT(60) DEF PhaseOp
<1>3. HasDecided(t) /\ Decision(t) = cts[t]
  BY DEF TxnInv, AnswersTrue
<1>4. Sent(t, "StoreDecision") = {} /\ Sent(t, "Abort") = {} /\ told[t] \notin {"failure", "success"}
  BY <1>3 DEF TxnInv, RequestsJustified, ToldTrue, GivenUp
<1>5. /\ pc'[t] = phase /\ Sent(t, "StoreDecision")' = {} /\ Sent(t, "Abort")' = {}
      /\ \A r \in Sent(t, "Commit")' : r \in Sent(t, "Commit") \/ r.cts = cts'[t]
  BY <1>2, <1>4 DEF Entered, Operations
<1>6. DecisionHolds(t)'
  BY <1>1, <1>5 DEF TxnInv, DecisionHolds, Quiet
<1>7. RequestsJustified(t)'
  BY <1>1, <1>3, <1>5 DEF TxnInv, RequestsJustified
<1>8. \A p \in Participants[t] : call'[t][p].state # "Committed"
  BY NoAnswer, SMTT(60) DEF Entered
<1>9. AnswersTrue(t)'
  BY <1>1, <1>3, <1>5, <1>8 DEF AnswersTrue
<1>10. ToldTrue(t)'
  BY <1>4 DEF ToldTrue
<1> QED BY <1>1, <1>6, <1>7, <1>9, <1>10 DEF TxnInv

(* The rest of the invariant after a step of the coordinator. *)
LEMMA CoordinatorFrame ==
    ASSUME IInv, NEW t \in Txns, Quiet, CallsOK', OnlyCalls(t), TxnInv(t)',
           \A u \in Txns \ {t} : cts'[u] = cts[u] /\ told'[u] = told[u]
    PROVE  IInv'
<1>1. ManagersOK' /\ DogsOK'
  BY DEF IInv, Quiet, ManagersOK, DogsOK, State
<1>2. ASSUME NEW u \in Txns \ {t}
      PROVE  TxnInv(u)'
  <2>1. Undisturbed(u)
    BY DEF Quiet, OnlyCalls, Undisturbed
  <2> QED BY <2>1, Frame DEF IInv
<1> QED BY <1>1, <1>2 DEF IInv

(* What Finish, Abort and the phases leave alone. *)
LEMMA ToldStep ==
    ASSUME CallsOK, NEW t \in Txns, NEW what, Tell(t, what)
    PROVE  /\ told'[t] = what /\ told' = [u \in Txns |-> told'[u]]
           /\ \A u \in Txns \ {t} : told'[u] = told[u]
BY DEF CallsOK, Tell

(* The coordinator returns. *)
LEMMA FinishStep ==
    ASSUME IInv, NEW t \in Txns, Quiet, NEW what, Finish(t, what), Sent(t, "StoreDecision") = {},
           what = "failure" => ~HasDecided(t),
           what = "success" => /\ HasDecided(t) /\ Decision(t) = cts[t]
                               /\ \A p \in Participants[t] : State(t, p) = "Committed"
    PROVE  IInv'
<1>1. CallsOK /\ TxnInv(t)
  BY DEF IInv
<1>2. Exit(t, "returned") /\ Tell(t, what) /\ cts' = cts
  BY DEF Finish
<1>3. /\ told'[t] = what /\ told' = [u \in Txns |-> told'[u]]
      /\ \A u \in Txns \ {t} : told'[u] = told[u]
  BY <1>1, <1>2, ToldStep
<1>4. cts' \in [Txns -> Nat]
  BY <1>1, <1>2 DEF CallsOK
<1>5. CallsOK' /\ Exited(t, "returned") /\ OnlyCalls(t)
  BY <1>1, <1>2, <1>3, <1>4, ExitStep
<1>6. TxnInv(t)'
  BY <1>1, <1>2, <1>3, <1>5, ExitInv
<1> QED BY <1>2, <1>3, <1>5, <1>6, CoordinatorFrame

(* The coordinator aborts. *)
LEMMA AbortStep ==
    ASSUME IInv, NEW t \in Txns, Quiet, NEW what \in {"error", "failure"}, Abort(t, what), cts' = cts,
           Sent(t, "StoreDecision") = {}, ~HasDecided(t)
    PROVE  IInv'
<1>1. CallsOK /\ TxnInv(t)
  BY DEF IInv
<1>2. PICK phase \in {"abort", "abort1"}, P \in SUBSET Participants[t] : Enter(t, phase, P)
  <2>1. \/ Enter(t, "abort", {p \in Others(t) : ~IsFinal(call[t][p].state)})
        \/ Enter(t, "abort1", {Principal[t]})
    BY DEF Abort
  <2>2. {p \in Others(t) : ~IsFinal(call[t][p].state)} \in SUBSET Participants[t]
    BY DEF Others
  <2>3. {Principal[t]} \in SUBSET Participants[t]
    BY TwoPhaseAssumption
  <2> QED BY <2>1, <2>2, <2>3
<1>3. Tell(t, what)
  BY DEF Abort
<1>4. /\ told'[t] = what /\ told' = [u \in Txns |-> told'[u]]
      /\ \A u \in Txns \ {t} : told'[u] = told[u]
  BY <1>1, <1>3, ToldStep
<1>5. cts' \in [Txns -> Nat] /\ phase \in Phases /\ P \subseteq Participants[t]
  BY <1>1 DEF CallsOK, Phases
<1>6. CallsOK' /\ Entered(t, phase, P) /\ OnlyCalls(t)
  BY <1>1, <1>2, <1>4, <1>5, EnterStep
<1>7. TxnInv(t)'
  <2>1. told'[t] # "success"
    BY <1>4
  <2> QED BY <1>1, <1>6, <2>1, AbortInv
<1> QED BY <1>4, <1>6, <1>7, CoordinatorFrame

(* A phase that tells nothing begins. *)
LEMMA EnterSilently ==
    ASSUME IInv, NEW t \in Txns, Quiet, NEW phase \in Phases, NEW P, P \subseteq Participants[t],
           Enter(t, phase, P), told' = told, cts' \in [Txns -> Nat],
           \A u \in Txns \ {t} : cts'[u] = cts[u], Entered(t, phase, P) => TxnInv(t)'
    PROVE  IInv'
<1>1. CallsOK /\ told' = [u \in Txns |-> told'[u]]
  BY DEF IInv, CallsOK
<1>2. CallsOK' /\ Entered(t, phase, P) /\ OnlyCalls(t)
  BY <1>1, EnterStep
<1> QED BY <1>2, CoordinatorFrame

(* Begin and PrincipalPrepared keep the invariant. *)
LEMMA PrepareSteps ==
    ASSUME IInv, NEW t \in Txns, Begin(t) \/ PrincipalPrepared(t)
    PROVE  IInv'
<1>1. /\ CallsOK /\ TxnInv(t) /\ cts \in [Txns -> Nat]
      /\ Principal[t] \in Participants[t] /\ Others(t) \subseteq Participants[t]
  BY TwoPhaseAssumption DEF IInv, CallsOK, Others
<1>2. CASE Begin(t)
  <2>1. /\ pc[t] = "idle" /\ Quiet /\ cts' = cts /\ told' = told
        /\ Enter(t, "prepare1", {Principal[t]}) /\ "prepare1" \in Phases /\ {Principal[t]} \subseteq Participants[t]
    BY <1>1, <1>2 DEF Begin, Quiet, Phases
  <2>2. Entered(t, "prepare1", {Principal[t]}) => TxnInv(t)'
    BY <1>1, <2>1, PrepareInv
  <2> QED BY <1>1, <2>1, <2>2, EnterSilently
<1>3. CASE PrincipalPrepared(t)
  <2>1. pc[t] = "prepare1" /\ Quiet
    BY <1>3 DEF PrincipalPrepared, Quiet
  <2>2. Sent(t, "StoreDecision") = {} /\ ~HasDecided(t)
    BY <1>1, <2>1, NoDecisionSent DEF TxnInv, DecisionHolds
  <2>3. CASE Finish(t, "error")
    BY <2>1, <2>2, <2>3, FinishStep
  <2>4. CASE Finish(t, "failure")
    BY <2>1, <2>2, <2>4, FinishStep
  <2>5. CASE /\ call[t][Principal[t]].state = "Prepared"
             /\ cts' = [cts EXCEPT ![t] = call[t][Principal[t]].ts]
             /\ Enter(t, "prepare", Others(t)) /\ UNCHANGED told
    <3>1. call[t][Principal[t]].ts \in Nat
      BY <1>1 DEF CallsOK
    <3>2. /\ cts' \in [Txns -> Nat] /\ cts'[t] = call[t][Principal[t]].ts
          /\ \A u \in Txns \ {t} : cts'[u] = cts[u]
      BY <1>1, <2>5, <3>1
    <3>3. Entered(t, "prepare", Others(t)) => TxnInv(t)'
      BY <1>1, <2>1, <2>5, <3>1, <3>2, PrepareInv
    <3>4. "prepare" \in Phases
      BY DEF Phases
    <3> QED BY <1>1, <2>1, <2>5, <3>2, <3>3, <3>4, EnterSilently
  <2> QED BY <1>3, <2>3, <2>4, <2>5 DEF PrincipalPrepared
<1> QED BY <1>2, <1>3

(* OthersPrepared keeps it: the timestamp of the decision is not below any  *)
(* participant's.                                                           *)
LEMMA DecideStep ==
    ASSUME IInv, NEW t \in Txns, OthersPrepared(t)
    PROVE  IInv'
<1>1. /\ CallsOK /\ TxnInv(t) /\ cts \in [Txns -> Nat]
      /\ Principal[t] \in Participants[t] /\ Others(t) \subseteq Participants[t]
  BY TwoPhaseAssumption DEF IInv, CallsOK, Others
<1>2. pc[t] = "prepare" /\ Quiet
  BY DEF OthersPrepared, Quiet
<1>3. Sent(t, "StoreDecision") = {} /\ ~HasDecided(t)
  BY <1>1, <1>2, NoDecisionSent DEF TxnInv, DecisionHolds
<1>4. CASE cts' = cts /\ (Abort(t, "error") \/ Abort(t, "failure"))
  BY <1>2, <1>3, <1>4, AbortStep
<1>5. CASE /\ \A p \in Others(t) : call[t][p].state = "Prepared"
           /\ \E x \in {cts[t]} \cup {call[t][p].ts : p \in Others(t)} :
                 /\ cts[t] <= x /\ \A p \in Others(t) : call[t][p].ts <= x
                 /\ cts' = [cts EXCEPT ![t] = x]
           /\ Enter(t, "store", {Principal[t]}) /\ UNCHANGED told
  <2>1. PICK x \in {cts[t]} \cup {call[t][p].ts : p \in Others(t)} :
                 /\ cts[t] <= x /\ \A p \in Others(t) : call[t][p].ts <= x
                 /\ cts' = [cts EXCEPT ![t] = x]
    BY <1>5
  <2>2. x \in Nat
    BY <1>1, SMTT(60) DEF CallsOK
  <2>3. cts' \in [Txns -> Nat] /\ cts'[t] = x /\ \A u \in Txns \ {t} : cts'[u] = cts[u]
    BY <1>1, <2>1, <2>2
  <2>4. cts[t] <= cts'[t] /\ \A p \in Others(t) : call[t][p].state = "Prepared" /\ call[t][p].ts <= cts'[t]
    BY <1>5, <2>1, <2>3
  <2>5. Entered(t, "store", {Principal[t]}) => TxnInv(t)'
    BY <1>2, <1>5, <2>2, <2>3, <2>4, StoreInv
  <2>6. "store" \in Phases /\ {Principal[t]} \subseteq Participants[t]
    BY <1>1 DEF Phases
  <2> QED BY <1>2, <1>5, <2>3, <2>5, <2>6, EnterSilently
<1> QED BY <1>4, <1>5 DEF OthersPrepared

(* Stored, OthersCommitted and PrincipalCommitted keep it. *)
LEMMA CommitSteps ==
    ASSUME IInv, NEW t \in Txns, Stored(t) \/ OthersCommitted(t) \/ PrincipalCommitted(t)
    PROVE  IInv'
<1>1. /\ CallsOK /\ TxnInv(t) /\ cts \in [Txns -> Nat]
      /\ Principal[t] \in Participants[t] /\ Others(t) \subseteq Participants[t]
  BY TwoPhaseAssumption DEF IInv, CallsOK, Others
<1>2. CASE Stored(t)
  <2>1. pc[t] = "store" /\ Quiet /\ call[t][Principal[t]] # Waiting
    BY <1>1, <1>2 DEF Stored, Answered, Quiet
  <2>2. Sent(t, "StoreDecision") = {}
    BY <1>1, <2>1, NoDecisionSent
  <2>3. CASE call[t][Principal[t]].state \notin States /\ cts' = cts /\ Abort(t, "error")
    <3>1. ~HasDecided(t)
      BY <1>1, <2>1, <2>3 DEF TxnInv, DecisionHolds, States
    <3> QED BY <2>1, <2>2, <2>3, <3>1, AbortStep
  <2>4. CASE Finish(t, "error")
    BY <2>1, <2>2, <2>4, FinishStep
  <2>5. CASE call[t][Principal[t]].state = "Decided" /\ cts' = cts /\ told' = told /\ Enter(t, "commit", Others(t))
    <3>1. Entered(t, "commit", Others(t)) => TxnInv(t)'
      BY <1>1, <2>1, <2>5, CommitInv
    <3>2. "commit" \in Phases
      BY DEF Phases
    <3> QED BY <1>1, <2>1, <2>5, <3>1, <3>2, EnterSilently
  <2> QED BY <1>2, <2>3, <2>4, <2>5 DEF Stored
<1>3. CASE OthersCommitted(t)
  <2>1. pc[t] = "commit" /\ Quiet
    BY <1>3 DEF OthersCommitted, Quiet
  <2>2. Sent(t, "StoreDecision") = {}
    BY <1>1, <2>1, NoDecisionSent
  <2>3. CASE Finish(t, "error")
    BY <2>1, <2>2, <2>3, FinishStep
  <2>4. CASE /\ \A p \in Others(t) : call[t][p].state = "Committed"
             /\ UNCHANGED <<cts, told>> /\ Enter(t, "commit1", {Principal[t]})
    <3>1. \A p \in Others(t) : State(t, p) = "Committed"
      BY <1>1, <2>1, <2>4 DEF TxnInv, AnswersTrue
    <3>2. Entered(t, "commit1", {Principal[t]}) => TxnInv(t)'
      BY <1>1, <2>1, <2>4, <3>1, CommitInv
    <3>3. "commit1" \in Phases /\ {Principal[t]} \subseteq Participants[t]
      BY <1>1 DEF Phases
    <3> QED BY <1>1, <2>1, <2>4, <3>2, <3>3, EnterSilently
  <2> QED BY <1>3, <2>3, <2>4 DEF OthersCommitted
<1>4. CASE PrincipalCommitted(t)
  <2>1. pc[t] = "commit1" /\ Quiet
    BY <1>4 DEF PrincipalCommitted, Quiet
  <2>2. Sent(t, "StoreDecision") = {}
    BY <1>1, <2>1, NoDecisionSent
  <2>3. HasDecided(t) /\ Decision(t) = cts[t] /\ \A p \in Others(t) : State(t, p) = "Committed"
    BY <1>1, <2>1 DEF TxnInv, AnswersTrue
  <2>4. CASE Finish(t, "error")
    BY <2>1, <2>2, <2>4, FinishStep
  <2>5. CASE call[t][Principal[t]].state = "Committed" /\ Finish(t, "success")
    <3>1. State(t, Principal[t]) = "Committed"
      BY <1>1, <2>1, <2>5 DEF TxnInv, AnswersTrue
    <3>2. \A p \in Participants[t] : State(t, p) = "Committed"
      BY <2>3, <3>1 DEF Others
    <3> QED BY <2>1, <2>2, <2>3, <2>5, <3>2, FinishStep
  <2> QED BY <1>4, <2>4, <2>5 DEF PrincipalCommitted
<1> QED BY <1>2, <1>3, <1>4

(* OthersAborted and PrincipalAborted keep it. *)
LEMMA AbortSteps ==
    ASSUME IInv, NEW t \in Txns, OthersAborted(t) \/ PrincipalAborted(t)
    PROVE  IInv'
<1>1. /\ CallsOK /\ TxnInv(t) /\ cts \in [Txns -> Nat] /\ told = [u \in Txns |-> told[u]]
      /\ Principal[t] \in Participants[t]
  BY TwoPhaseAssumption DEF IInv, CallsOK
<1>2. pc[t] \in {"abort", "abort1"} /\ Quiet /\ cts' = cts /\ told' = told
  BY DEF OthersAborted, PrincipalAborted, Quiet
<1>3. Sent(t, "StoreDecision") = {} /\ ~HasDecided(t) /\ told[t] # "success"
  BY <1>1, <1>2, NoDecisionSent DEF TxnInv, DecisionHolds, ToldTrue
<1>4. CASE Enter(t, "abort1", {Principal[t]})
  <2>1. Entered(t, "abort1", {Principal[t]}) => TxnInv(t)'
    BY <1>1, <1>2, <1>3, AbortInv
  <2>2. "abort1" \in Phases /\ {Principal[t]} \subseteq Participants[t]
    BY <1>1 DEF Phases
  <2> QED BY <1>1, <1>2, <1>4, <2>1, <2>2, EnterSilently
<1>5. ASSUME NEW to \in {"returned", "hung"}, Exit(t, to)
      PROVE  IInv'
  <2>1. CallsOK' /\ Exited(t, to) /\ OnlyCalls(t)
    BY <1>1, <1>2, <1>5, ExitStep
  <2>2. TxnInv(t)'
    BY <1>1, <1>2, <1>3, <2>1, ExitInv
  <2> QED BY <1>2, <2>1, <2>2, CoordinatorFrame
<1> QED BY <1>4, <1>5 DEF OthersAborted, PrincipalAborted

(* The rest of the steps that only concern the calls of t: the phase stays  *)
(* or the server crashes, no answer of the managers is added, and requests  *)
(* are at most repeated.                                                    *)
CallsChange(t) ==
    /\ cts' = cts /\ told' = told
    /\ pc' = pc \/ (pc'[t] = "crashed" /\ pc[t] \in Phases)
    /\ \A p \in Participants[t] :
          \/ call'[t][p] = call[t][p]
          \/ call'[t][p].state \notin {"Prepared", "Decided", "Committed"} /\ pc[t] # "store"
          \/ pc'[t] = "crashed"
    /\ Sent(t, "StoreDecision")' \subseteq Sent(t, "StoreDecision")
    /\ \A r \in Sent(t, "Commit")' : r \in Sent(t, "Commit") \/ (r.cts = cts[t] /\ pc[t] \in {"commit", "commit1"})
    /\ Sent(t, "Abort")' \subseteq Sent(t, "Abort") \/ pc[t] \in {"abort", "abort1"}

(* Such a step keeps the invariant of t. *)
LEMMA CallsChangeInv ==
    ASSUME NEW t \in Txns, TxnInv(t), Quiet, CallsChange(t)
    PROVE  TxnInv(t)'
<1>1. /\ \A p : State(t, p)' = State(t, p)
      /\ HasDecided(t)' = HasDecided(t) /\ Decision(t)' = Decision(t)
      /\ WatchdogRight(t) => WatchdogRight(t)'
      /\ Principal[t] \in Participants[t] /\ \A p \in Others(t) : p \in Participants[t]
  BY QuietFacts
<1>2. cts' = cts /\ told' = told /\ m' = m
  BY DEF CallsChange, Quiet
<1>3. Sent(t, "StoreDecision")' \subseteq Sent(t, "StoreDecision") /\ (pc' = pc \/ pc'[t] = "crashed")
  BY DEF CallsChange
<1>4. GivenUp(t) => GivenUp(t)'
  BY <1>1, <1>3 DEF GivenUp, Over
<1>5. pc[t] \in {"abort", "abort1"} => GivenUp(t)'
  <2>1. ASSUME pc[t] \in {"abort", "abort1"}
        PROVE  ~HasDecided(t) /\ Sent(t, "StoreDecision") = {}
    BY <2>1, NoDecisionSent DEF TxnInv, DecisionHolds
  <2> QED BY <1>1, <1>3, <2>1 DEF GivenUp, Over
<1>6. Decidable(t)' = Decidable(t)
  BY <1>1, <1>2, SMTT(60) DEF Decidable
<1>7. DecisionHolds(t)'
  BY <1>1, <1>2, <1>3 DEF TxnInv, DecisionHolds, CallsChange
<1>8. RequestsJustified(t)'
  <2>1. \A r \in Sent(t, "Commit")' : HasDecided(t)' /\ r.cts = Decision(t)'
    BY <1>1 DEF TxnInv, RequestsJustified, AnswersTrue, CallsChange
  <2>2. \A r \in Sent(t, "StoreDecision")' :
          /\ r.pid = Principal[t] /\ r.cts = cts'[t] /\ ~HasDecided(t)' /\ Decidable(t)'
          /\ pc'[t] = "crashed" \/ (pc'[t] = "store" /\ call'[t][Principal[t]] = Waiting)
    BY <1>1, <1>2, <1>3, <1>6 DEF TxnInv, RequestsJustified, CallsChange
  <2>3. Sent(t, "Abort")' # {} => GivenUp(t)'
    BY <1>4, <1>5 DEF TxnInv, RequestsJustified, CallsChange
  <2> QED BY <2>1, <2>2, <2>3 DEF RequestsJustified
<1>9. AnswersTrue(t)'
  <2>1. CASE pc'[t] = "crashed"
    BY <2>1 DEF AnswersTrue
  <2>2. CASE pc' = pc /\ pc'[t] # "crashed"
    BY <1>1, <1>2, <1>6, <2>2 DEF TxnInv, AnswersTrue, CallsChange
  <2> QED BY <1>3, <2>1, <2>2
<1>10. ToldTrue(t)'
  BY <1>1, <1>2, <1>4 DEF TxnInv, ToldTrue, CallsChange, Phases
<1> QED BY <1>1, <1>7, <1>8, <1>9, <1>10 DEF TxnInv

(* The phases are those that call. *)
LEMMA PhaseOps ==
    /\ DOMAIN PhaseOp = Phases
    /\ PhaseOp["prepare1"] = "Prepare" /\ PhaseOp["prepare"] = "Prepare" /\ PhaseOp["store"] = "StoreDecision"
    /\ PhaseOp["commit"] = "Commit" /\ PhaseOp["commit1"] = "Commit"
    /\ PhaseOp["abort"] = "Abort" /\ PhaseOp["abort1"] = "Abort"
BY DEF PhaseOp, Phases

(* One more request of t, like those of its phase. *)
LEMMA MoreRequests ==
    ASSUME CallsOK, NEW t \in Txns, NEW p \in Participants[t], NEW op \in Operations, cts' = cts,
           net' \subseteq net \cup {Request(t, op, p)}
    PROVE  /\ \A r \in net' : RequestOK(r)
           /\ \A o \in Operations \ {op} : Sent(t, o)' \subseteq Sent(t, o)
           /\ \A r \in Sent(t, op)' : r \in Sent(t, op) \/ (op = "Commit" => r.cts = cts[t])
           /\ \A u \in Txns \ {t} : \A o \in Operations : Sent(u, o)' \subseteq Sent(u, o)
<1>1. \A r \in net' : r \in net \/ r = Request(t, op, p)
  OBVIOUS
<1>2. /\ Request(t, op, p).txn = t /\ Request(t, op, p).op = op /\ Request(t, op, p).pid = p
      /\ Request(t, op, p).cts = IF op \in {"StoreDecision", "Commit"} THEN cts[t] ELSE 0
  BY DEF Request
<1>3. RequestOK(Request(t, op, p))
  <2>1. Request(t, op, p).cts \in Nat
    BY <1>2, SMTT(60) DEF CallsOK
  <2> QED BY <1>2, <2>1 DEF RequestOK, Request
<1> QED BY <1>1, <1>2, <1>3 DEF CallsOK, Sent

(* Retry, Resend and CallFails keep the invariant. *)
LEMMA CallSteps ==
    ASSUME DecisionAnswered, IInv, NEW t \in Txns, NEW p \in Participants[t],
           Retry(t, p) \/ Resend(t, p) \/ CallFails(t, p)
    PROVE  IInv'
<1>1. CallsOK /\ TxnInv(t)
  BY DEF IInv
<1>2. /\ Quiet /\ cts' = cts /\ told' = told /\ pc' = pc
  BY DEF Retry, Resend, CallFails, Quiet, api
<1>3. /\ pc[t] \in Phases /\ PhaseOp[pc[t]] # "StoreDecision"
      /\ Retry(t, p) => PhaseOp[pc[t]] = "Prepare"
  BY PhaseOps DEF Retry, MustRetry, Resend, CallFails, Running, DecisionAnswered, Phases
<1>4. PICK op \in Operations : op = PhaseOp[pc[t]] /\ op # "StoreDecision"
  BY <1>3, PhaseOps DEF Phases, Operations
<1>5. op = "Commit" => pc[t] \in {"commit", "commit1"}
  BY <1>3, <1>4, PhaseOps DEF Phases
<1>6. op = "Abort" => pc[t] \in {"abort", "abort1"}
  BY <1>3, <1>4, PhaseOps DEF Phases
<1>7. pc[t] # "store"
  BY <1>3, PhaseOps
<1>8. net' \subseteq net \cup {Request(t, op, p)}
  BY <1>3, <1>4 DEF Retry, Resend, CallFails
<1>9. /\ \A r \in net' : RequestOK(r)
      /\ \A o \in Operations \ {op} : Sent(t, o)' \subseteq Sent(t, o)
      /\ \A r \in Sent(t, op)' : r \in Sent(t, op) \/ (op = "Commit" => r.cts = cts[t])
      /\ \A u \in Txns \ {t} : \A o \in Operations : Sent(u, o)' \subseteq Sent(u, o)
  BY <1>1, <1>2, <1>4, <1>8, MoreRequests, SMTT(60)
<1>10. \E a : /\ a = call[t][p] \/ a = Waiting \/ a = Status("error", 0)
              /\ call' = [call EXCEPT ![t] = [@ EXCEPT ![p] = a]]
  <2>1. call = [call EXCEPT ![t] = [@ EXCEPT ![p] = call[t][p]]]
    BY <1>1 DEF CallsOK
  <2>2. CASE call' = call
    BY <2>1, <2>2
  <2>3. CASE call' = [call EXCEPT ![t] = [@ EXCEPT ![p] = Waiting]]
    BY <2>3
  <2>4. CASE call' = [call EXCEPT ![t] = [@ EXCEPT ![p] = Status("error", 0)]]
    BY <2>4
  <2> QED BY <2>2, <2>3, <2>4 DEF Retry, Resend, CallFails, api
<1>11. PICK a : /\ a = call[t][p] \/ a = Waiting \/ a = Status("error", 0)
                /\ call' = [call EXCEPT ![t] = [@ EXCEPT ![p] = a]]
  BY <1>10
<1>12. a = call[t][p] \/ (a.state \notin {"Prepared", "Decided", "Committed"} /\ a.ts = 0)
  <2>1. a = call[t][p] \/ a = Waiting \/ a = Status("error", 0)
    BY <1>11
  <2>2. ASSUME NEW st \in {"waiting", "error"}
        PROVE  Status(st, 0).state = st /\ Status(st, 0).ts = 0
    BY DEF Status
  <2>3. Waiting = Status("waiting", 0)
    BY DEF Waiting
  <2> QED BY <2>1, <2>2, <2>3
<1>13. /\ call'[t][p] = a /\ \A q \in Participants[t] \ {p} : call'[t][q] = call[t][q]
       /\ call' = [u \in Txns |-> call'[u]]
       /\ \A u \in Txns : call'[u] = [q \in Participants[u] |-> call'[u][q]]
       /\ \A u \in Txns \ {t} : call'[u] = call[u]
  BY <1>1, <1>11 DEF CallsOK
<1>14. \A u \in Txns : \A q \in Participants[u] : call'[u][q].ts \in Nat
  <2>1. a.ts \in Nat
    BY <1>1, <1>12, SMTT(60) DEF CallsOK
  <2> QED BY <1>1, <1>13, <2>1 DEF CallsOK
<1>15. CallsOK'
  BY <1>1, <1>2, <1>9, <1>13, <1>14 DEF CallsOK
<1>16. CallsChange(t)
  <2>1. \A q \in Participants[t] :
          \/ call'[t][q] = call[t][q]
          \/ call'[t][q].state \notin {"Prepared", "Decided", "Committed"} /\ pc[t] # "store"
    BY <1>7, <1>12, <1>13
  <2>2. Sent(t, "StoreDecision")' \subseteq Sent(t, "StoreDecision")
    BY <1>4, <1>9 DEF Operations
  <2>3. \A r \in Sent(t, "Commit")' : r \in Sent(t, "Commit") \/ (r.cts = cts[t] /\ pc[t] \in {"commit", "commit1"})
    BY <1>5, <1>9 DEF Operations
  <2>4. Sent(t, "Abort")' \subseteq Sent(t, "Abort") \/ pc[t] \in {"abort", "abort1"}
    BY <1>6, <1>9 DEF Operations
  <2> QED BY <1>2, <2>1, <2>2, <2>3, <2>4 DEF CallsChange
<1>17. OnlyCalls(t)
  BY <1>2, <1>9, <1>13 DEF OnlyCalls
<1>18. TxnInv(t)'
  BY <1>1, <1>2, <1>16, CallsChangeInv
<1> QED BY <1>2, <1>15, <1>17, <1>18, CoordinatorFrame

(* Crash keeps it. *)
LEMMA CrashStep ==
    ASSUME IInv, NEW t \in Txns, Crash(t)
    PROVE  IInv'
<1>1. CallsOK /\ TxnInv(t)
  BY DEF IInv
<1>2. /\ Quiet /\ cts' = cts /\ told' = told /\ pc[t] \in Phases /\ net' \subseteq net
      /\ pc' = [pc EXCEPT ![t] = "crashed"]
      /\ call' = [call EXCEPT ![t] = [p \in Participants[t] |-> NoStatus]]
  BY PhaseOps DEF Crash, Quiet, Running
<1>3. /\ pc'[t] = "crashed" /\ pc' = [u \in Txns |-> pc'[u]] /\ call' = [u \in Txns |-> call'[u]]
      /\ call'[t] = [p \in Participants[t] |-> NoStatus]
      /\ \A u \in Txns \ {t} : pc'[u] = pc[u] /\ call'[u] = call[u]
  BY <1>1, <1>2 DEF CallsOK
<1>4. NoStatus.ts \in Nat
  BY DEF NoStatus, Status
<1>5. \A u \in Txns : /\ call'[u] = [p \in Participants[u] |-> call'[u][p]]
                      /\ \A p \in Participants[u] : call'[u][p].ts \in Nat
  BY <1>1, <1>3, <1>4, SMTT(60) DEF CallsOK
<1>6. CallsOK'
  BY <1>1, <1>2, <1>3, <1>5 DEF CallsOK
<1>7. \A u \in Txns : \A o \in Operations : Sent(u, o)' \subseteq Sent(u, o)
  BY <1>2 DEF Sent
<1>8. CallsChange(t)
  BY <1>2, <1>3, <1>7 DEF CallsChange, Operations
<1>9. OnlyCalls(t)
  BY <1>3, <1>7 DEF OnlyCalls
<1>10. TxnInv(t)'
  BY <1>1, <1>2, <1>8, CallsChangeInv
<1> QED BY <1>2, <1>6, <1>9, <1>10, CoordinatorFrame

-----------------------------------------------------------------------------
(* The commands. *)

(* Who may ask participant p of t to do c, and when. *)
Justified(t, p, c) ==
    /\ c.op = "Commit" => HasDecided(t) /\ c.cts = Decision(t)
    /\ c.op = "Abort" => ~HasDecided(t) /\ (GivenUp(t) \/ State(t, Principal[t]) = "Timedout")
    /\ c.op = "StoreDecision" =>
          /\ p = Principal[t] /\ c.cts = cts[t] /\ ~HasDecided(t) /\ Decidable(t) /\ ~GivenUp(t)
          /\ pc[t] \in {"store", "crashed"}
    /\ c.op = "MarkTimedout" => p = Principal[t]

(* The execution of a command, seen by its transaction. *)
Step(t, p, c) ==
    /\ Moves(m[p], c, m[p].status[t], m[p].prepared[t], m'[p].status[t], m'[p].prepared[t])
    /\ \A q \in Participants[t] \ {p} : m'[q] = m[q]
    /\ cts' = cts

(* What a justified command does to the decision. *)
DecisionMoves(t, c) ==
    /\ HasDecided(t) => HasDecided(t)' /\ Decision(t)' = Decision(t)
    /\ HasDecided(t)' /\ ~HasDecided(t) => c.op = "StoreDecision" /\ Decision(t)' = cts[t]
    /\ HasDecided(t)' => \A q \in Participants[t] :
          /\ State(t, q)' \in {"Prepared", "Decided", "Committed"}
          /\ m'[q].prepared[t].ts <= Decision(t)'
          /\ State(t, q)' = "Committed" => m'[q].status[t].ts = Decision(t)'
    /\ \A q \in Participants[t] : State(t, q)' = "Committed" => HasDecided(t)'
    /\ \A q \in Others(t) : State(t, q)' # "Decided"

(* The decision holds after a justified command. *)
LEMMA DecisionStep ==
    ASSUME NEW t \in Txns, NEW p \in Participants[t], NEW c, TxnInv(t), Justified(t, p, c), Step(t, p, c)
    PROVE  DecisionMoves(t, c)
<1> DEFINE P == Principal[t]
<1>1. /\ P \in Participants[t] /\ \A q \in Others(t) : q \in Participants[t] /\ q # P
      /\ \A q \in Participants[t] : q # P => q \in Others(t)
  BY TwoPhaseAssumption DEF Others
<1>2. DecisionHolds(t)
  BY DEF TxnInv
<1>3. \A q \in Participants[t] \ {p} : m'[q] = m[q] /\ State(t, q)' = State(t, q)
  BY DEF Step, State
<1>4. State(t, p) = m[p].status[t].state /\ State(t, p)' = m'[p].status[t].state
  BY DEF State
<1>5. Moves(m[p], c, m[p].status[t], m[p].prepared[t], m'[p].status[t], m'[p].prepared[t])
  BY DEF Step
<1>6. HasDecided(t) = (State(t, P) \in {"Decided", "Committed"}) /\ Decision(t) = m[P].prepared[t].decision
  BY DEF HasDecided, Decision
<1>7. HasDecided(t)' = (State(t, P)' \in {"Decided", "Committed"}) /\ Decision(t)' = m'[P].prepared[t].decision
  BY DEF HasDecided, Decision
<1>8. HasDecided(t) => HasDecided(t)' /\ Decision(t)' = Decision(t)
  <2>1. CASE p # P
    BY <1>1, <1>3, <1>6, <1>7, <2>1
  <2>2. CASE p = P
    BY <1>4, <1>5, <1>6, <1>7, <2>2 DEF Moves
  <2> QED BY <2>1, <2>2
<1>9. ASSUME HasDecided(t)', ~HasDecided(t)
      PROVE  /\ c.op = "StoreDecision" /\ Decision(t)' = cts[t] /\ p = P
             /\ State(t, P) = "Prepared" /\ State(t, P)' = "Decided"
             /\ m'[p].prepared[t].ts = m[p].prepared[t].ts
  <2>1. p = P
    BY <1>1, <1>3, <1>6, <1>7, <1>9
  <2>2. /\ c.op = "StoreDecision" /\ State(t, P) = "Prepared" /\ State(t, P)' = "Decided"
        /\ Decision(t)' = c.cts /\ m'[p].prepared[t].ts = m[p].prepared[t].ts
    BY <1>4, <1>5, <1>6, <1>7, <1>9, <2>1 DEF Moves, Justified
  <2> QED BY <2>1, <2>2 DEF Justified
<1>10. ASSUME HasDecided(t)', NEW q \in Participants[t]
       PROVE  /\ State(t, q)' \in {"Prepared", "Decided", "Committed"}
              /\ m'[q].prepared[t].ts <= Decision(t)'
              /\ State(t, q)' = "Committed" => m'[q].status[t].ts = Decision(t)'
  <2>1. CASE HasDecided(t)
    <3>1. /\ State(t, q) \in {"Prepared", "Decided", "Committed"}
          /\ m[q].prepared[t].ts <= Decision(t)
          /\ State(t, q) = "Committed" => m[q].status[t].ts = Decision(t)
      BY <1>2, <2>1 DEF DecisionHolds
    <3>2. CASE q # p
      BY <1>3, <1>8, <2>1, <3>1, <3>2
    <3>3. CASE q = p
      <4>1. c.op \notin {"Abort", "StoreDecision"} /\ (c.op = "Commit" => c.cts = Decision(t))
        BY <2>1 DEF Justified
      <4>2. c.op = "MarkTimedout" => State(t, p) # "Prepared"
        BY <1>6, <2>1 DEF Justified
      <4> QED BY <1>4, <1>5, <1>8, <2>1, <3>1, <3>3, <4>1, <4>2 DEF Moves
    <3> QED BY <3>2, <3>3
  <2>2. CASE ~HasDecided(t)
    <3>1. /\ c.op = "StoreDecision" /\ Decision(t)' = cts[t] /\ p = P
          /\ State(t, P) = "Prepared" /\ State(t, P)' = "Decided"
          /\ m'[p].prepared[t].ts = m[p].prepared[t].ts
      BY <1>9, <1>10, <2>2
    <3>2. State(t, q) = "Prepared" /\ m[q].prepared[t].ts <= cts[t]
      BY <3>1 DEF Justified, Decidable
    <3> QED BY <1>3, <3>1, <3>2
  <2> QED BY <2>1, <2>2
<1>11. ASSUME NEW q \in Participants[t], State(t, q)' = "Committed"
       PROVE  HasDecided(t)'
  <2>1. CASE State(t, q) = "Committed"
    BY <1>2, <1>8, <2>1 DEF DecisionHolds
  <2>2. CASE State(t, q) # "Committed"
    <3>1. q = p
      BY <1>3, <1>11, <2>2
    <3>2. c.op = "Commit"
      BY <1>4, <1>5, <1>11, <2>2, <3>1 DEF Moves
    <3> QED BY <1>8, <3>2 DEF Justified
  <2> QED BY <2>1, <2>2
<1>12. ASSUME NEW q \in Others(t)
       PROVE  State(t, q)' # "Decided"
  <2>1. State(t, q) # "Decided" /\ q # P /\ q \in Participants[t]
    BY <1>1, <1>2 DEF DecisionHolds
  <2>2. CASE q # p
    BY <1>3, <2>1, <2>2
  <2>3. CASE q = p
    <3>1. c.op # "StoreDecision"
      BY <2>1, <2>3 DEF Justified
    <3> QED BY <1>4, <1>5, <2>1, <2>3, <3>1 DEF Moves
  <2> QED BY <2>2, <2>3
<1> QED BY <1>8, <1>9, <1>10, <1>11, <1>12 DEF DecisionMoves

(* What stays of the states of the participants. *)
StatesStay(t) ==
    /\ State(t, Principal[t]) = "Timedout" => State(t, Principal[t])' = "Timedout"
    /\ State(t, Principal[t]) # "none" => State(t, Principal[t])' # "none"
    /\ \A q \in Participants[t] :
          /\ State(t, q) = "Committed" => State(t, q)' = "Committed"
          /\ State(t, q)' = "Prepared" /\ State(t, q) # "none" =>
                State(t, q) = "Prepared" /\ m'[q].prepared[t].ts = m[q].prepared[t].ts
          /\ ~GivenUp(t) /\ State(t, Principal[t])' = "Prepared" /\ State(t, q) = "Prepared" =>
                State(t, q)' = "Prepared" /\ m'[q].prepared[t].ts = m[q].prepared[t].ts
    /\ Decidable(t) /\ ~GivenUp(t) => Decidable(t)'

(* No participant leaves its prepared state while the principal is prepared *)
(* and a decision may still come.                                           *)
LEMMA StatesStep ==
    ASSUME NEW t \in Txns, NEW p \in Participants[t], NEW c, TxnInv(t), Justified(t, p, c), Step(t, p, c)
    PROVE  StatesStay(t)
<1> DEFINE P == Principal[t]
<1>1. P \in Participants[t]
  BY TwoPhaseAssumption
<1>2. \A q \in Participants[t] \ {p} : m'[q] = m[q] /\ State(t, q)' = State(t, q)
  BY DEF Step, State
<1>3. State(t, p) = m[p].status[t].state /\ State(t, p)' = m'[p].status[t].state
  BY DEF State
<1>4. Moves(m[p], c, m[p].status[t], m[p].prepared[t], m'[p].status[t], m'[p].prepared[t])
  BY DEF Step
<1>5. /\ State(t, p) = "Timedout" => State(t, p)' = "Timedout"
      /\ State(t, p) # "none" => State(t, p)' # "none"
      /\ State(t, p) = "Committed" => State(t, p)' = "Committed"
      /\ State(t, p)' = "Prepared" /\ State(t, p) # "none" =>
            State(t, p) = "Prepared" /\ m'[p].prepared[t].ts = m[p].prepared[t].ts
  BY <1>3, <1>4 DEF Moves
<1>6. ASSUME ~GivenUp(t), State(t, P)' = "Prepared", NEW q \in Participants[t], State(t, q) = "Prepared"
      PROVE  State(t, q)' = "Prepared" /\ m'[q].prepared[t].ts = m[q].prepared[t].ts
  <2>1. CASE q # p
    BY <1>2, <1>6, <2>1
  <2>2. CASE q = p
    <3>1. CASE q = P
      BY <1>5, <1>6, <2>2, <3>1
    <3>2. CASE q # P
      <4>1. State(t, P) = "Prepared"
        BY <1>1, <1>2, <1>6, <2>2, <3>2
      <4>2. c.op \notin {"Commit", "Abort", "StoreDecision", "MarkTimedout"}
        BY <1>6, <2>2, <3>2, <4>1 DEF Justified, HasDecided
      <4> QED BY <1>3, <1>4, <1>6, <2>2, <4>2 DEF Moves
    <3> QED BY <3>1, <3>2
  <2> QED BY <2>1, <2>2
<1>7. ASSUME Decidable(t), ~GivenUp(t)
      PROVE  Decidable(t)'
  <2>1. State(t, P) # "none" /\ State(t, P)' # "none"
    BY <1>1, <1>2, <1>5, <1>7 DEF Decidable
  <2>2. ASSUME State(t, P)' = "Prepared", NEW q \in Participants[t]
        PROVE  State(t, q)' = "Prepared" /\ m'[q].prepared[t].ts <= cts'[t]
    <3>1. State(t, P) = "Prepared"
      BY <1>1, <1>2, <1>5, <2>1, <2>2
    <3>2. State(t, q) = "Prepared" /\ m[q].prepared[t].ts <= cts[t]
      BY <1>7, <3>1 DEF Decidable
    <3>3. cts'[t] = cts[t]
      BY DEF Step
    <3> QED BY <1>6, <1>7, <2>2, <3>2, <3>3
  <2> QED BY <2>1, <2>2 DEF Decidable
<1> QED BY <1>1, <1>2, <1>5, <1>6, <1>7 DEF StatesStay

(* The call of p after the command: its answer, if the coordinator waits    *)
(* for it, and a waiting coordinator always gets the answer to              *)
(* StoreDecision.                                                           *)
CallAfter(t, p, c) ==
    \/ call'[t] = call[t] /\ (c.op = "StoreDecision" => pc[t] # "store")
    \/ /\ pc[t] \in Phases /\ PhaseOp[pc[t]] = c.op
       /\ call'[t][p] = Answer(ApplyOne(p, c))
       /\ \A q \in Participants[t] \ {p} : call'[t][q] = call[t][q]

(* What the watchdog learns or does with the command. *)
DogAfter(t) ==
    /\ \A u \in dog'[t].updates \cup dog'[t].queue :
          \/ u \in dog[t].updates \cup dog[t].queue
          \/ u.state = "Decided" => HasDecided(t)' /\ u.decision = Decision(t)'
    /\ dog'[t].job.phase = "commit" => dog[t].job.phase = "commit" /\ dog'[t].job.decision = dog[t].job.decision
    /\ dog'[t].job.phase = "abort" => dog[t].job.phase = "abort" \/ State(t, Principal[t])' = "Timedout"

(* The answers are what the managers say. *)
LEMMA AnswerTrue ==
    ASSUME NEW s, NEW s2, NEW c, NEW r, Replies(c, r, s, s2), NEW st \in {"Prepared", "Decided", "Committed"},
           Answer(r).state = st
    PROVE  s2.state = st /\ Answer(r).ts = s2.ts /\ (st = "Decided" => c.op = "StoreDecision")
<1>1. r.err = "none"
  <2>1. ASSUME r.err \in ErrorCodes
        PROVE  FALSE
    BY <2>1 DEF ErrorCodes, Answer, Status
  <2> QED BY <2>1 DEF Replies
<1> QED BY <1>1 DEF Replies, Answer, ErrorCodes

(* A justified command keeps the invariant of its transaction. *)
LEMMA CommandInv ==
    ASSUME NEW t \in Txns, NEW p \in Participants[t], NEW c, TxnInv(t), Justified(t, p, c), Step(t, p, c),
           ManagersOK', Replies(c, ApplyOne(p, c), m[p].status[t], m'[p].status[t]),
           pc' = pc, told' = told, net' \subseteq net,
           c.op = "StoreDecision" => Sent(t, "StoreDecision")' = {},
           CallAfter(t, p, c), DogAfter(t)
    PROVE  TxnInv(t)'
<1> DEFINE P == Principal[t]
<1>1. /\ P \in Participants[t] /\ \A q \in Others(t) : q \in Participants[t] /\ q # P
      /\ \A q \in Participants[t] : q # P => q \in Others(t)
  BY TwoPhaseAssumption DEF Others
<1>2. DecisionMoves(t, c) /\ StatesStay(t) /\ cts' = cts
  BY DecisionStep, StatesStep DEF Step
<1>3. \A op : Sent(t, op)' \subseteq Sent(t, op)
  BY DEF Sent
<1>4. GivenUp(t) => GivenUp(t)'
  <2>1. GivenUp(t) => ~HasDecided(t)'
    BY <1>2 DEF DecisionMoves, Justified, GivenUp
  <2> QED BY <1>3, <2>1 DEF GivenUp
<1>5. State(t, p)' = m'[p].status[t].state
  BY DEF State
<1>6. ASSUME call'[t] # call[t]
      PROVE  /\ pc[t] \in Phases /\ PhaseOp[pc[t]] = c.op
             /\ call'[t][p] = Answer(ApplyOne(p, c))
             /\ \A q \in Participants[t] \ {p} : call'[t][q] = call[t][q]
  BY <1>6 DEF CallAfter
<1>7. ASSUME call'[t] # call[t], NEW st \in {"Prepared", "Decided", "Committed"}, call'[t][p].state = st
      PROVE  /\ State(t, p)' = st /\ call'[t][p].ts = m'[p].status[t].ts
             /\ st = "Decided" => c.op = "StoreDecision"
  BY <1>5, <1>6, <1>7, AnswerTrue, SMTT(60)
<1>8. ASSUME HasDecided(t)', pc[t] = "store"
      PROVE  call'[t][P].state = "Decided"
  <2>1. CASE HasDecided(t)
    <3>1. call[t][P].state = "Decided"
      BY <1>8, <2>1 DEF TxnInv, DecisionHolds
    <3>2. c.op # "StoreDecision"
      BY <2>1 DEF Justified
    <3>3. call'[t] = call[t]
      BY <1>6, <1>8, <3>2, PhaseOps
    <3> QED BY <3>1, <3>3
  <2>2. CASE ~HasDecided(t)
    <3>1. c.op = "StoreDecision" /\ p = P
      BY <1>2, <1>8, <2>2 DEF DecisionMoves, Justified
    <3>2. call'[t][p] = Answer(ApplyOne(p, c))
      BY <1>8, <3>1 DEF CallAfter
    <3>3. State(t, P) \notin {"Decided", "Committed"} /\ State(t, P)' \in {"Decided", "Committed"}
      BY <1>8, <2>2 DEF HasDecided
    <3>4. m'[p].status[t] # m[p].status[t] /\ m'[p].status[t].state = "Decided"
      BY <3>1, <3>3 DEF State, Step, Moves
    <3>5. ApplyOne(p, c).err = "none" /\ ApplyOne(p, c).status = m'[p].status[t]
      BY <3>1, <3>4 DEF Replies
    <3> QED BY <3>1, <3>2, <3>4, <3>5 DEF Answer
  <2> QED BY <2>1, <2>2
<1>9. DecisionHolds(t)'
  <2>1. HasDecided(t)' => pc'[t] \in {"store", "commit", "commit1", "returned", "crashed"}
    BY <1>2 DEF DecisionMoves, Justified, TxnInv, DecisionHolds
  <2> QED BY <1>2, <1>8, <2>1 DEF DecisionMoves, DecisionHolds
<1>10. RequestsJustified(t)'
  <2>1. \A r \in Sent(t, "Commit")' : HasDecided(t)' /\ r.cts = Decision(t)'
    BY <1>2, <1>3 DEF TxnInv, RequestsJustified, DecisionMoves
  <2>2. ASSUME NEW r \in Sent(t, "StoreDecision")'
        PROVE  /\ r.pid = Principal[t] /\ r.cts = cts'[t] /\ ~HasDecided(t)' /\ Decidable(t)'
               /\ pc'[t] = "crashed" \/ (pc'[t] = "store" /\ call'[t][Principal[t]] = Waiting)
    <3>1. /\ r \in Sent(t, "StoreDecision") /\ c.op # "StoreDecision"
      BY <1>3
    <3>2. /\ r.pid = Principal[t] /\ r.cts = cts[t] /\ ~HasDecided(t) /\ Decidable(t)
          /\ pc[t] = "crashed" \/ (pc[t] = "store" /\ call[t][Principal[t]] = Waiting)
      BY <3>1 DEF TxnInv, RequestsJustified
    <3>3. ~GivenUp(t)
      BY <3>1 DEF GivenUp
    <3>4. ~HasDecided(t)' /\ Decidable(t)'
      BY <1>2, <3>1, <3>2, <3>3 DEF DecisionMoves, StatesStay
    <3>5. pc[t] = "store" => call'[t] = call[t]
      BY <1>6, <3>1, PhaseOps
    <3> QED BY <1>2, <3>2, <3>4, <3>5
  <2>3. Sent(t, "Abort")' # {} => GivenUp(t)'
    BY <1>3, <1>4 DEF TxnInv, RequestsJustified
  <2> QED BY <2>1, <2>2, <2>3 DEF RequestsJustified
<1>11. ToldTrue(t)'
  BY <1>2, <1>4 DEF TxnInv, ToldTrue, DecisionMoves, StatesStay
<1>12. WatchdogRight(t)'
  BY <1>2 DEF TxnInv, WatchdogRight, DecisionMoves, StatesStay, DogAfter
<1>13. AnswersTrue(t)'
  <2>1. \A q \in Participants[t] : /\ m'[q].prepared[t].ts \in Nat
                                   /\ State(t, q)' = "Prepared" => m'[q].prepared[t].ts = m'[q].status[t].ts
    BY DEF ManagersOK, Participants
  <2>2. ASSUME pc'[t] = "prepare1", call'[t][P].state = "Prepared"
        PROVE  /\ State(t, P)' # "none"
               /\ State(t, P)' = "Prepared" => m'[P].prepared[t].ts = call'[t][P].ts
    <3>1. CASE call'[t][P] = call[t][P]
      <4>1. /\ State(t, P) # "none"
            /\ State(t, P) = "Prepared" => m[P].prepared[t].ts = call[t][P].ts
        BY <2>2, <3>1 DEF TxnInv, AnswersTrue
      <4> QED BY <1>1, <1>2, <3>1, <4>1 DEF StatesStay
    <3>2. CASE call'[t][P] # call[t][P]
      <4>1. call'[t] # call[t] /\ p = P
        BY <1>1, <1>6, <3>2
      <4> QED BY <1>1, <1>7, <2>1, <2>2, <4>1
    <3> QED BY <3>1, <3>2
  <2>3. ASSUME pc'[t] = "prepare"
        PROVE  /\ State(t, P)' # "none"
               /\ State(t, P)' = "Prepared" => m'[P].prepared[t].ts <= cts'[t]
    <3>1. State(t, P) # "none" /\ (State(t, P) = "Prepared" => m[P].prepared[t].ts <= cts[t])
      BY <2>3 DEF TxnInv, AnswersTrue
    <3> QED BY <1>1, <1>2, <3>1 DEF StatesStay
  <2>4. ASSUME pc'[t] = "prepare", State(t, P)' = "Prepared", NEW q \in Others(t), call'[t][q].state = "Prepared"
        PROVE  State(t, q)' = "Prepared" /\ m'[q].prepared[t].ts = call'[t][q].ts
    <3>1. CASE call'[t][q] = call[t][q]
      <4>1. State(t, P) # "none"
        BY <2>4 DEF TxnInv, AnswersTrue
      <4>2. State(t, P) = "Prepared"
        BY <1>1, <1>2, <2>4, <4>1 DEF StatesStay
      <4>3. State(t, q) = "Prepared" /\ m[q].prepared[t].ts = call[t][q].ts
        BY <2>4, <3>1, <4>2 DEF TxnInv, AnswersTrue
      <4>4. ~GivenUp(t)
        BY <2>4 DEF GivenUp, Over
      <4> QED BY <1>1, <1>2, <2>4, <3>1, <4>3, <4>4 DEF StatesStay
    <3>2. CASE call'[t][q] # call[t][q]
      <4>1. call'[t] # call[t] /\ p = q
        BY <1>1, <1>6, <3>2
      <4> QED BY <1>1, <1>7, <2>1, <2>4, <4>1
    <3> QED BY <3>1, <3>2
  <2>5. ASSUME pc'[t] = "store"
        PROVE  Decidable(t)'
    <3>1. Decidable(t) /\ ~GivenUp(t)
      BY <2>5 DEF TxnInv, AnswersTrue, GivenUp, Over
    <3> QED BY <1>2, <3>1 DEF StatesStay
  <2>6. ASSUME pc'[t] = "store", call'[t][P].state = "Decided"
        PROVE  HasDecided(t)' /\ Decision(t)' = cts'[t]
    <3>1. CASE call'[t][P] = call[t][P]
      <4>1. HasDecided(t) /\ Decision(t) = cts[t]
        BY <2>6, <3>1 DEF TxnInv, AnswersTrue
      <4> QED BY <1>2, <4>1 DEF DecisionMoves
    <3>2. CASE call'[t][P] # call[t][P]
      <4>1. call'[t] # call[t] /\ p = P
        BY <1>1, <1>6, <3>2
      <4>2. State(t, P)' = "Decided" /\ c.op = "StoreDecision"
        BY <1>7, <2>6, <4>1
      <4>3. HasDecided(t)' /\ ~HasDecided(t)
        BY <4>2 DEF HasDecided, Justified
      <4> QED BY <1>2, <4>3 DEF DecisionMoves
    <3> QED BY <3>1, <3>2
  <2>7. ASSUME pc'[t] \in {"commit", "commit1"}
        PROVE  HasDecided(t)' /\ Decision(t)' = cts'[t]
    <3>1. HasDecided(t) /\ Decision(t) = cts[t]
      BY <2>7 DEF TxnInv, AnswersTrue
    <3> QED BY <1>2, <3>1 DEF DecisionMoves
  <2>8. ASSUME pc'[t] \in {"commit", "commit1"}, NEW q \in Participants[t], call'[t][q].state = "Committed"
        PROVE  State(t, q)' = "Committed"
    <3>1. CASE call'[t][q] = call[t][q]
      BY <1>2, <2>8, <3>1 DEF TxnInv, AnswersTrue, StatesStay
    <3>2. CASE call'[t][q] # call[t][q]
      <4>1. call'[t] # call[t] /\ p = q
        BY <1>6, <3>2
      <4> QED BY <1>7, <2>8, <4>1
    <3> QED BY <3>1, <3>2
  <2>9. ASSUME pc'[t] = "commit1", NEW q \in Others(t)
        PROVE  State(t, q)' = "Committed"
    BY <1>1, <1>2, <2>9 DEF TxnInv, AnswersTrue, StatesStay
  <2> QED BY <2>2, <2>3, <2>4, <2>5, <2>6, <2>7, <2>8, <2>9 DEF AnswersTrue
<1> QED BY <1>9, <1>10, <1>11, <1>12, <1>13 DEF TxnInv

(* A command seen by the whole system. *)
LEMMA CommandFrame ==
    ASSUME IInv, NEW t \in Txns, NEW p \in Participants[t], NEW c, CommandOK(c, t), Execute(p, c),
           Justified(t, p, c), pc' = pc, cts' = cts, told' = told, net' \subseteq net,
           c.op = "StoreDecision" => Sent(t, "StoreDecision")' = {},
           CallsOK', DogsOK', CallAfter(t, p, c), DogAfter(t),
           \A u \in Txns \ {t} : call'[u] = call[u] /\ dog'[u] = dog[u]
    PROVE  IInv'
<1>1. ManagersOK /\ TxnInv(t) /\ p \in Pids /\ c.id = t /\ \A u \in Txns : Participants[u] \subseteq Pids
  BY DEF IInv, Participants, CommandOK
<1>2. ManagersOK' /\ Result(p, c, m'[p]) /\ \A q \in Pids \ {p} : m'[q] = m[q]
  BY <1>1, Executed
<1>3. Step(t, p, c) /\ Replies(c, ApplyOne(p, c), m[p].status[t], m'[p].status[t])
  BY <1>1, <1>2 DEF Step, Result
<1>4. TxnInv(t)'
  BY <1>1, <1>2, <1>3, CommandInv
<1>5. ASSUME NEW u \in Txns \ {t}
      PROVE  TxnInv(u)'
  <2>1. \A q \in Participants[u] : m'[q].status[u] = m[q].status[u] /\ m'[q].prepared[u] = m[q].prepared[u]
    BY <1>1, <1>2 DEF Result
  <2>2. \A op \in Operations : Sent(u, op)' \subseteq Sent(u, op)
    BY DEF Sent
  <2>3. Undisturbed(u)
    BY <2>1, <2>2 DEF Undisturbed
  <2> QED BY <2>3, Frame DEF IInv
<1> QED BY <1>2, <1>4, <1>5 DEF IInv

(* What the manager and the watchdog can rely on after a justified command. *)
LEMMA CommandFacts ==
    ASSUME IInv, NEW t \in Txns, NEW p \in Participants[t], NEW c, CommandOK(c, t), Execute(p, c),
           Justified(t, p, c), cts' = cts
    PROVE  /\ DecisionMoves(t, c) /\ StatesStay(t)
           /\ Replies(c, ApplyOne(p, c), m[p].status[t], m'[p].status[t])
           /\ m'[p].status[t].ts \in Nat
<1>1. ManagersOK /\ TxnInv(t) /\ p \in Pids /\ c.id = t
  BY DEF IInv, Participants, CommandOK
<1>2. ManagersOK' /\ Result(p, c, m'[p]) /\ \A q \in Pids \ {p} : m'[q] = m[q]
  BY <1>1, Executed
<1>3. Step(t, p, c) /\ Replies(c, ApplyOne(p, c), m[p].status[t], m'[p].status[t])
  BY <1>1, <1>2 DEF Step, Result, Participants
<1>4. DecisionMoves(t, c) /\ StatesStay(t)
  BY <1>1, <1>3, DecisionStep, StatesStep
<1> QED BY <1>1, <1>2, <1>3, <1>4 DEF ManagersOK

(* Commands are well formed. *)
LEMMA CommandTyped ==
    ASSUME ManagersOK, NEW t \in Txns, NEW op \in OnePhaseOps, NEW p \in Participants[t], NEW ts \in Nat,
           NEW release \in BOOLEAN
    PROVE  /\ CommandOK(Command(t, op, p, ts, release), t)
           /\ Command(t, op, p, ts, release).op = op /\ Command(t, op, p, ts, release).cts = ts
           /\ Command(t, op, p, ts, release).ts > clock[p]
           /\ Command(t, op, p, ts, release).txn = Body[t][p]
<1>1. clock[p] \in Nat
  BY DEF ManagersOK, Participants
<1>2. Max2(clock[p], ts) + 1 \in Nat /\ Max2(clock[p], ts) + 1 > clock[p]
  BY <1>1, SMTT(60) DEF Max2
<1> QED BY <1>2 DEF Command, CommandOK

(* The updates of the watchdog after a command. *)
LEMMA UpdateDog ==
    ASSUME DogsOK, NEW t \in Txns, NEW p, NEW c, NEW r, NEW d, d = Update(t, p, c, r)
    PROVE  /\ d = [u \in Txns |-> d[u]]
           /\ \A u \in Txns \ {t} : d[u] = dog[u]
           /\ d[t] = [all |-> dog[t].all, queue |-> dog[t].queue, updates |-> d[t].updates, job |-> dog[t].job]
           /\ \A x \in d[t].updates :
                 \/ x \in dog[t].updates
                 \/ /\ p = Principal[t] /\ r.err = "none" /\ x.state = r.status.state
                    /\ x.decision = IF c.op = "StoreDecision" THEN c.cts ELSE 0
<1> DEFINE new == [state |-> r.status.state, pids |-> IF c.op = "Prepare" THEN c.pids ELSE {},
                   decision |-> IF c.op = "StoreDecision" THEN c.cts ELSE 0]
<1>1. /\ dog = [u \in Txns |-> dog[u]]
      /\ dog[t] = [all |-> dog[t].all, queue |-> dog[t].queue, updates |-> dog[t].updates, job |-> dog[t].job]
  BY DEF DogsOK
<1>2. CASE p # Principal[t] \/ r.err # "none"
  BY <1>1, <1>2 DEF Update
<1>3. CASE p = Principal[t] /\ r.err = "none"
  <2>1. d = [dog EXCEPT ![t].updates = dog[t].updates \cup {new}]
    BY <1>3 DEF Update
  <2>2. new.state = r.status.state /\ new.decision = IF c.op = "StoreDecision" THEN c.cts ELSE 0
    OBVIOUS
  <2> HIDE DEF new
  <2>3. /\ d = [u \in Txns |-> d[u]] /\ \A u \in Txns \ {t} : d[u] = dog[u]
        /\ d[t] = [dog[t] EXCEPT !.updates = dog[t].updates \cup {new}]
    BY <1>1, <2>1
  <2>4. /\ d[t] = [all |-> dog[t].all, queue |-> dog[t].queue, updates |-> d[t].updates, job |-> dog[t].job]
        /\ d[t].updates = dog[t].updates \cup {new}
    BY <1>1, <2>3
  <2> QED BY <1>3, <2>2, <2>3, <2>4
<1> QED BY <1>2, <1>3

(* A watchdog that only gets the updates of a command. *)
LEMMA UpdateLayout ==
    ASSUME DogsOK, NEW t \in Txns, NEW p \in Participants[t], NEW c, CommandOK(c, t),
           NEW d, d = Update(t, p, c, ApplyOne(p, c)),
           dog' = d \/ dog' = [d EXCEPT ![t].job = NoJob]
    PROVE  /\ DogsOK' /\ \A u \in Txns \ {t} : dog'[u] = dog[u]
           /\ dog'[t].queue = dog[t].queue /\ (dog'[t].job = dog[t].job \/ dog'[t].job.phase = "none")
           /\ \A x \in dog'[t].updates :
                 \/ x \in dog[t].updates
                 \/ /\ p = Principal[t] /\ ApplyOne(p, c).err = "none" /\ x.state = ApplyOne(p, c).status.state
                    /\ x.decision = IF c.op = "StoreDecision" THEN c.cts ELSE 0
<1>1. DogsOK /\ c.cts \in Nat
  BY DEF CommandOK
<1>2. /\ d = [u \in Txns |-> d[u]] /\ \A u \in Txns \ {t} : d[u] = dog[u]
      /\ d[t] = [all |-> dog[t].all, queue |-> dog[t].queue, updates |-> d[t].updates, job |-> dog[t].job]
      /\ \A x \in d[t].updates :
            \/ x \in dog[t].updates
            \/ /\ p = Principal[t] /\ ApplyOne(p, c).err = "none" /\ x.state = ApplyOne(p, c).status.state
               /\ x.decision = IF c.op = "StoreDecision" THEN c.cts ELSE 0
  BY <1>1, UpdateDog, SMTT(60)
<1>3. /\ dog[t].job = [phase |-> dog[t].job.phase, left |-> dog[t].job.left, decision |-> dog[t].job.decision]
      /\ dog[t].job.decision \in Nat /\ \A u \in dog[t].updates \cup dog[t].queue : u.decision \in Nat
  BY <1>1 DEF DogsOK
<1>4. /\ NoJob = [phase |-> NoJob.phase, left |-> NoJob.left, decision |-> NoJob.decision]
      /\ NoJob.decision \in Nat /\ NoJob.phase = "none"
  BY DEF NoJob
<1>5. PICK j \in {dog[t].job, NoJob} : dog' = [d EXCEPT ![t].job = j]
  <2>1. CASE dog' = d
    <3>1. d[t].job = dog[t].job
      BY <1>2, SMTT(60)
    <3>2. d = [d EXCEPT ![t].job = dog[t].job]
      BY <1>2, <3>1, SMTT(60)
    <3> QED BY <2>1, <3>2
  <2> QED BY <2>1
<1>6. /\ dog' = [u \in Txns |-> dog'[u]] /\ \A u \in Txns \ {t} : dog'[u] = dog[u]
      /\ dog'[t] = [d[t] EXCEPT !.job = j]
  BY <1>2, <1>5
<1>7. dog'[t] = [all |-> dog[t].all, queue |-> dog[t].queue, updates |-> d[t].updates, job |-> j]
  BY <1>2, <1>6, SMTT(60)
<1>8. /\ dog'[t].all = dog[t].all /\ dog'[t].queue = dog[t].queue
      /\ dog'[t].updates = d[t].updates /\ dog'[t].job = j
      /\ dog'[t] = [all |-> dog'[t].all, queue |-> dog'[t].queue, updates |-> dog'[t].updates, job |-> dog'[t].job]
  BY <1>7, SMTT(60)
<1>9. \A u \in dog'[t].updates \cup dog'[t].queue : u.decision \in Nat
  BY <1>1, <1>2, <1>3, <1>8, SMTT(60)
<1>10. DogsOK'
  <2>1. /\ dog'[t].job = [phase |-> dog'[t].job.phase, left |-> dog'[t].job.left, decision |-> dog'[t].job.decision]
        /\ dog'[t].job.decision \in Nat
    BY <1>3, <1>4, <1>8
  <2>2. ASSUME NEW u \in Txns \ {t}
        PROVE  LET e == dog'[u] IN
               /\ e = [all |-> e.all, queue |-> e.queue, updates |-> e.updates, job |-> e.job]
               /\ e.job = [phase |-> e.job.phase, left |-> e.job.left, decision |-> e.job.decision]
               /\ e.job.decision \in Nat
               /\ \A x \in e.updates \cup e.queue : x.decision \in Nat
    BY <1>1, <1>6 DEF DogsOK
  <2> QED BY <1>6, <1>8, <1>9, <2>1, <2>2 DEF DogsOK
<1> QED BY <1>2, <1>4, <1>5, <1>6, <1>8, <1>10

(* The watchdog after it was told of the status that a command left. *)
LEMMA UpdateInv ==
    ASSUME IInv, NEW t \in Txns, NEW p \in Participants[t], NEW c, CommandOK(c, t), Execute(p, c),
           Justified(t, p, c), cts' = cts,
           NEW d, d = Update(t, p, c, ApplyOne(p, c)),
           dog' = d \/ dog' = [d EXCEPT ![t].job = NoJob]
    PROVE  DogsOK' /\ DogAfter(t) /\ \A u \in Txns \ {t} : dog'[u] = dog[u]
<1>1. /\ DogsOK' /\ \A u \in Txns \ {t} : dog'[u] = dog[u]
      /\ dog'[t].queue = dog[t].queue /\ (dog'[t].job = dog[t].job \/ dog'[t].job.phase = "none")
      /\ \A x \in dog'[t].updates :
            \/ x \in dog[t].updates
            \/ /\ p = Principal[t] /\ ApplyOne(p, c).err = "none" /\ x.state = ApplyOne(p, c).status.state
               /\ x.decision = IF c.op = "StoreDecision" THEN c.cts ELSE 0
  BY UpdateLayout, SMTT(60) DEF IInv
<1>2. DogAfter(t)
  <2>1. ASSUME NEW x \in dog'[t].updates \cup dog'[t].queue, x \notin dog[t].updates \cup dog[t].queue,
               x.state = "Decided"
        PROVE  HasDecided(t)' /\ x.decision = Decision(t)'
    <3>1. /\ p = Principal[t] /\ ApplyOne(p, c).err = "none" /\ ApplyOne(p, c).status.state = "Decided"
          /\ x.decision = IF c.op = "StoreDecision" THEN c.cts ELSE 0
      BY <1>1, <2>1
    <3>2. DecisionMoves(t, c) /\ Replies(c, ApplyOne(p, c), m[p].status[t], m'[p].status[t])
      BY CommandFacts
    <3>3. m'[p].status[t].state = "Decided" /\ c.op = "StoreDecision"
      BY <3>1, <3>2 DEF Replies, ErrorCodes
    <3>4. HasDecided(t)' /\ ~HasDecided(t)
      BY <3>1, <3>3 DEF HasDecided, State, Justified
    <3>5. Decision(t)' = c.cts
      BY <3>2, <3>3, <3>4 DEF DecisionMoves, Justified
    <3> QED BY <3>1, <3>3, <3>4, <3>5
  <2> QED BY <1>1, <2>1 DEF DogAfter
<1> QED BY <1>1, <1>2

(* The execution of a request keeps the invariant. *)
LEMMA DeliverStep ==
    ASSUME DecisionAnswered, IInv, NEW r \in net, Deliver(r)
    PROVE  IInv'
<1> DEFINE t == r.txn
           p == r.pid
           c == Command(t, r.op, p, r.cts, FALSE)
<1>1. /\ CallsOK /\ ManagersOK /\ TxnInv(t) /\ RequestOK(r) /\ t \in Txns /\ p \in Participants[t]
      /\ r \in Sent(t, r.op)
  BY DEF IInv, CallsOK, RequestOK, Sent
<1>2. r.op \in OnePhaseOps /\ r.op \in Operations /\ r.cts \in Nat
  BY <1>1 DEF RequestOK, Operations, OnePhaseOps
<1>3. CommandOK(c, t) /\ c.op = r.op /\ c.cts = r.cts
  BY <1>1, <1>2, CommandTyped
<1>4. /\ Execute(p, c) /\ net' = net \ {r} /\ dog' = Update(t, p, c, ApplyOne(p, c))
      /\ pc' = pc /\ cts' = cts /\ told' = told
      /\ \/ /\ Awaits(t, r.op, p)
            /\ call' = [call EXCEPT ![t] = [@ EXCEPT ![p] = Answer(ApplyOne(p, c))]]
         \/ (r.op \in Lossy \/ ~Awaits(t, r.op, p)) /\ call' = call
  BY DEF Deliver
<1>5. Justified(t, p, c)
  <2>1. c.op = "Commit" => HasDecided(t) /\ c.cts = Decision(t)
    BY <1>1, <1>3 DEF TxnInv, RequestsJustified
  <2>2. c.op = "Abort" => ~HasDecided(t) /\ GivenUp(t)
    BY <1>1, <1>3 DEF TxnInv, RequestsJustified, GivenUp
  <2>3. c.op = "StoreDecision" =>
          /\ p = Principal[t] /\ c.cts = cts[t] /\ ~HasDecided(t) /\ Decidable(t) /\ ~GivenUp(t)
          /\ pc[t] \in {"store", "crashed"}
    BY <1>1, <1>3 DEF TxnInv, RequestsJustified, GivenUp
  <2>4. c.op # "MarkTimedout"
    BY <1>2, <1>3 DEF Operations
  <2> QED BY <2>1, <2>2, <2>3, <2>4 DEF Justified
<1>6. ASSUME c.op = "StoreDecision"
      PROVE  Sent(t, "StoreDecision")' = {} /\ (pc[t] = "store" => Awaits(t, r.op, p) /\ r.op \notin Lossy)
  <2>1. \A x \in Sent(t, "StoreDecision") : x = r
    <3>1. \A x \in Sent(t, "StoreDecision") :
             RequestOK(x) /\ x.txn = t /\ x.op = "StoreDecision" /\ x.pid = Principal[t] /\ x.cts = cts[t]
      BY <1>1 DEF TxnInv, RequestsJustified, CallsOK, Sent
    <3>2. r.op = "StoreDecision" /\ r \in Sent(t, "StoreDecision")
      BY <1>1, <1>3, <1>6
    <3> QED BY <3>1, <3>2 DEF RequestOK
  <2>2. Sent(t, "StoreDecision")' = {}
    BY <1>4, <2>1 DEF Sent
  <2>3. pc[t] = "store" => Awaits(t, r.op, p) /\ r.op \notin Lossy
    <3>1. pc[t] = "store" => call[t][Principal[t]] = Waiting /\ p = Principal[t]
      BY <1>1, <1>3, <1>6 DEF TxnInv, RequestsJustified
    <3> QED BY <1>3, <1>6, <3>1, PhaseOps DEF Awaits, Running, DecisionAnswered, Phases
  <2> QED BY <2>2, <2>3
<1> HIDE DEF c, t, p
<1>7. DogsOK' /\ DogAfter(t) /\ \A u \in Txns \ {t} : dog'[u] = dog[u]
  BY <1>1, <1>3, <1>4, <1>5, UpdateInv
<1>8. Answer(ApplyOne(p, c)).ts \in Nat
  <2>1. /\ Replies(c, ApplyOne(p, c), m[p].status[t], m'[p].status[t]) /\ m'[p].status[t].ts \in Nat
        /\ c.ts \in Nat
    BY <1>1, <1>3, <1>4, <1>5, CommandFacts DEF CommandOK
  <2>2. Status(ApplyOne(p, c).err, 0).ts \in Nat
    BY DEF Status
  <2> QED BY <2>1, <2>2 DEF Replies, Answer, ErrorCodes
<1>9. /\ call' = [u \in Txns |-> call'[u]] /\ \A u \in Txns \ {t} : call'[u] = call[u]
      /\ \A u \in Txns : /\ call'[u] = [q \in Participants[u] |-> call'[u][q]]
                         /\ \A q \in Participants[u] : call'[u][q].ts \in Nat
  <2>1. /\ call = [u \in Txns |-> call[u]]
        /\ \A u \in Txns : /\ call[u] = [q \in Participants[u] |-> call[u][q]]
                           /\ \A q \in Participants[u] : call[u][q].ts \in Nat
    BY <1>1 DEF CallsOK
  <2> QED BY <1>1, <1>4, <1>8, <2>1
<1>10. CallsOK'
  BY <1>1, <1>4, <1>9 DEF CallsOK
<1>11. CallAfter(t, p, c)
  <2>1. CASE call' = call /\ (r.op \in Lossy \/ ~Awaits(t, r.op, p))
    BY <1>3, <1>6, <2>1 DEF CallAfter
  <2>2. CASE /\ Awaits(t, r.op, p)
             /\ call' = [call EXCEPT ![t] = [@ EXCEPT ![p] = Answer(ApplyOne(p, c))]]
    <3>1. pc[t] \in Phases /\ PhaseOp[pc[t]] = c.op
      BY <1>3, <2>2, PhaseOps DEF Awaits, Running
    <3>2. call = [u \in Txns |-> call[u]] /\ call[t] = [q \in Participants[t] |-> call[t][q]]
      BY <1>1 DEF CallsOK
    <3>3. call'[t][p] = Answer(ApplyOne(p, c)) /\ \A q \in Participants[t] \ {p} : call'[t][q] = call[t][q]
      BY <1>1, <2>2, <3>2
    <3> QED BY <3>1, <3>3 DEF CallAfter
  <2> QED BY <1>4, <2>1, <2>2
<1>12. net' \subseteq net
  BY <1>4
<1> QED BY <1>1, <1>3, <1>4, <1>5, <1>6, <1>7, <1>9, <1>10, <1>11, <1>12, CommandFrame

(* The job of t becomes j, and nothing else changes of the watchdogs. *)
JobBecomes(t, j) ==
    /\ dog' = [u \in Txns |-> dog'[u]] /\ \A u \in Txns \ {t} : dog'[u] = dog[u]
    /\ dog'[t] = [all |-> dog[t].all, queue |-> dog[t].queue, updates |-> dog[t].updates, job |-> j]

(* DogDone and DogLeft only change the job. *)
LEMMA JobSteps ==
    ASSUME DogsOK, NEW t \in Txns
    PROVE  /\ DogDone(t) => JobBecomes(t, NoJob)
           /\ \A x, P : DogLeft(t, x, P) =>
                 JobBecomes(t, [phase |-> x, left |-> P, decision |-> dog[t].job.decision])
           /\ dog' = dog => JobBecomes(t, dog[t].job)
<1>1. /\ dog = [u \in Txns |-> dog[u]]
      /\ dog[t] = [all |-> dog[t].all, queue |-> dog[t].queue, updates |-> dog[t].updates, job |-> dog[t].job]
      /\ dog[t].job = [phase |-> dog[t].job.phase, left |-> dog[t].job.left, decision |-> dog[t].job.decision]
  BY DEF DogsOK
<1>2. ASSUME DogDone(t)
      PROVE  JobBecomes(t, NoJob)
  <2>1. dog' = [dog EXCEPT ![t].job = NoJob]
    BY <1>2 DEF DogDone
  <2>2. /\ dog' = [u \in Txns |-> dog'[u]] /\ \A u \in Txns \ {t} : dog'[u] = dog[u]
        /\ dog'[t] = [dog[t] EXCEPT !.job = NoJob]
    BY <1>1, <2>1
  <2> QED BY <1>1, <2>2 DEF JobBecomes
<1>3. ASSUME NEW x, NEW P, DogLeft(t, x, P)
      PROVE  JobBecomes(t, [phase |-> x, left |-> P, decision |-> dog[t].job.decision])
  <2> DEFINE d == [dog[t] EXCEPT !.job.phase = x]
             e == [d EXCEPT !.job.left = P]
  <2>1. dog' = [dog EXCEPT ![t].job.phase = x, ![t].job.left = P]
    BY <1>3 DEF DogLeft
  <2>2. /\ dog' = [u \in Txns |-> dog'[u]] /\ \A u \in Txns \ {t} : dog'[u] = dog[u]
        /\ dog'[t] = e
    BY <1>1, <2>1
  <2>3. d = [all |-> dog[t].all, queue |-> dog[t].queue, updates |-> dog[t].updates,
             job |-> [dog[t].job EXCEPT !.phase = x]]
    BY <1>1, SMTT(60)
  <2> HIDE DEF d
  <2>4. e = [all |-> dog[t].all, queue |-> dog[t].queue, updates |-> dog[t].updates,
             job |-> [d.job EXCEPT !.left = P]]
    BY <2>3, SMTT(60)
  <2>5. d.job = [phase |-> x, left |-> dog[t].job.left, decision |-> dog[t].job.decision]
    <3>1. d.job = [dog[t].job EXCEPT !.phase = x]
      BY <2>3
    <3> QED BY <1>1, <3>1
  <2>6. [d.job EXCEPT !.left = P] = [phase |-> x, left |-> P, decision |-> dog[t].job.decision]
    BY <2>5, SMTT(60)
  <2> QED BY <2>2, <2>4, <2>6 DEF JobBecomes
<1>4. ASSUME dog' = dog
      PROVE  JobBecomes(t, dog[t].job)
  BY <1>1, <1>4 DEF JobBecomes
<1> QED BY <1>2, <1>3, <1>4

(* The watchdogs after a change of job. *)
LEMMA JobLayout ==
    ASSUME DogsOK, NEW t \in Txns, NEW j, JobBecomes(t, j),
           j = [phase |-> j.phase, left |-> j.left, decision |-> j.decision], j.decision \in Nat
    PROVE  DogsOK'
<1>1. /\ dog' = [u \in Txns |-> dog'[u]] /\ \A u \in Txns \ {t} : dog'[u] = dog[u]
      /\ dog'[t] = [all |-> dog[t].all, queue |-> dog[t].queue, updates |-> dog[t].updates, job |-> j]
  BY DEF JobBecomes
<1>2. /\ dog'[t].queue = dog[t].queue /\ dog'[t].updates = dog[t].updates /\ dog'[t].job = j
      /\ dog'[t] = [all |-> dog'[t].all, queue |-> dog'[t].queue, updates |-> dog'[t].updates, job |-> dog'[t].job]
  BY <1>1, SMTT(60)
<1>3. ASSUME NEW u \in Txns \ {t}
      PROVE  LET e == dog'[u] IN
             /\ e = [all |-> e.all, queue |-> e.queue, updates |-> e.updates, job |-> e.job]
             /\ e.job = [phase |-> e.job.phase, left |-> e.job.left, decision |-> e.job.decision]
             /\ e.job.decision \in Nat
             /\ \A x \in e.updates \cup e.queue : x.decision \in Nat
  BY <1>1 DEF DogsOK
<1>4. \A x \in dog'[t].updates \cup dog'[t].queue : x.decision \in Nat
  BY <1>2 DEF DogsOK
<1>5. dog'[t].job = [phase |-> dog'[t].job.phase, left |-> dog'[t].job.left, decision |-> dog'[t].job.decision]
  BY <1>2
<1>6. dog'[t].job.decision \in Nat
  BY <1>2
<1> QED BY <1>1, <1>2, <1>3, <1>4, <1>5, <1>6 DEF DogsOK

(* The watchdog after its job has changed. *)
LEMMA JobInv ==
    ASSUME DogsOK, NEW t \in Txns, NEW j, JobBecomes(t, j),
           j = [phase |-> j.phase, left |-> j.left, decision |-> j.decision], j.decision \in Nat,
           j.phase = "commit" => dog[t].job.phase = "commit" /\ j.decision = dog[t].job.decision,
           j.phase = "abort" => dog[t].job.phase = "abort" \/ State(t, Principal[t])' = "Timedout"
    PROVE  DogsOK' /\ DogAfter(t) /\ \A u \in Txns \ {t} : dog'[u] = dog[u]
<1>1. /\ dog'[t].queue = dog[t].queue /\ dog'[t].updates = dog[t].updates /\ dog'[t].job = j
      /\ \A u \in Txns \ {t} : dog'[u] = dog[u]
  BY SMTT(60) DEF JobBecomes
<1>2. DogAfter(t)
  BY <1>1 DEF DogAfter
<1> QED BY <1>1, <1>2, JobLayout

(* DogMark and DogRelease keep the invariant. *)
LEMMA MarkSteps ==
    ASSUME IInv, NEW t \in Txns, DogMark(t) \/ DogRelease(t)
    PROVE  IInv'
<1> DEFINE P == Principal[t]
<1>1. P \in Participants[t] /\ DogsOK /\ CallsOK /\ ManagersOK /\ TxnInv(t)
  BY TwoPhaseAssumption DEF IInv
<1>2. PICK release \in BOOLEAN :
         /\ Execute(P, Command(t, "MarkTimedout", P, 0, release))
         /\ \/ DogDone(t)
            \/ /\ DogLeft(t, "abort", dog[t].job.left)
               /\ ApplyOne(P, Command(t, "MarkTimedout", P, 0, release)).err = "none"
  <2>1. CASE DogMark(t)
    BY <2>1 DEF DogMark
  <2>2. CASE DogRelease(t)
    BY <2>2 DEF DogRelease
  <2> QED BY <2>1, <2>2
<1> DEFINE c == Command(t, "MarkTimedout", P, 0, release)
<1>3. pc' = pc /\ call' = call /\ cts' = cts /\ told' = told /\ net' = net
  BY DEF DogMark, DogRelease, api
<1>4. CommandOK(c, t) /\ c.op = "MarkTimedout"
  <2>1. "MarkTimedout" \in OnePhaseOps /\ 0 \in Nat
    BY DEF OnePhaseOps
  <2> QED BY <1>1, <2>1, CommandTyped, SMTT(60)
<1>5. /\ Execute(P, c) /\ (DogDone(t) \/ (DogLeft(t, "abort", dog[t].job.left) /\ ApplyOne(P, c).err = "none"))
  BY <1>2
<1> HIDE DEF c
<1>6. Justified(t, P, c)
  BY <1>4 DEF Justified
<1>7. DogsOK' /\ DogAfter(t) /\ \A u \in Txns \ {t} : dog'[u] = dog[u]
  <2>1. CASE DogDone(t)
    <3>1. JobBecomes(t, NoJob)
      BY <1>1, <2>1, JobSteps
    <3>2. /\ NoJob = [phase |-> NoJob.phase, left |-> NoJob.left, decision |-> NoJob.decision]
          /\ NoJob.decision \in Nat /\ NoJob.phase = "none"
      BY DEF NoJob
    <3> QED BY <1>1, <3>1, <3>2, JobInv
  <2>2. CASE DogLeft(t, "abort", dog[t].job.left) /\ ApplyOne(P, c).err = "none"
    <3> DEFINE j == [phase |-> "abort", left |-> dog[t].job.left, decision |-> dog[t].job.decision]
    <3>1. JobBecomes(t, j)
      BY <1>1, <2>2, JobSteps
    <3>2. /\ j = [phase |-> j.phase, left |-> j.left, decision |-> j.decision]
          /\ j.decision \in Nat /\ j.phase = "abort"
      BY <1>1 DEF DogsOK
    <3>3. State(t, P)' = "Timedout"
      <4>1. Replies(c, ApplyOne(P, c), m[P].status[t], m'[P].status[t])
        BY <1>1, <1>3, <1>4, <1>5, <1>6, CommandFacts
      <4> QED BY <1>4, <2>2, <4>1 DEF Replies, ErrorCodes, State
    <3> HIDE DEF j
    <3> QED BY <1>1, <3>1, <3>2, <3>3, JobInv
  <2> QED BY <1>5, <2>1, <2>2
<1>8. CallsOK' /\ CallAfter(t, P, c)
  BY <1>1, <1>3, <1>4 DEF CallsOK, CallAfter
<1> QED BY <1>1, <1>3, <1>4, <1>5, <1>6, <1>7, <1>8, CommandFrame

(* DogCall and DogCommit keep it. *)
LEMMA DogCallSteps ==
    ASSUME IInv, NEW t \in Txns,
           DogCommit(t) \/ \E p \in Participants[t] : DogCall(t, p)
    PROVE  IInv'
<1>1. Principal[t] \in Participants[t] /\ DogsOK /\ CallsOK /\ ManagersOK /\ TxnInv(t) /\ dog[t].job.decision \in Nat
  BY TwoPhaseAssumption DEF IInv, DogsOK
<1>2. pc' = pc /\ call' = call /\ cts' = cts /\ told' = told /\ net' = net
  BY DEF DogCommit, DogCall, api
<1>3. PICK p \in Participants[t], op \in {"Abort", "Commit"} :
         /\ dog[t].job.phase = IF op = "Abort" THEN "abort" ELSE "commit"
         /\ Execute(p, Command(t, op, p, dog[t].job.decision, FALSE))
         /\ \/ \E Q : DogLeft(t, dog[t].job.phase, Q)
            \/ dog' = dog
            \/ dog' = [Update(t, p, Command(t, op, p, dog[t].job.decision, FALSE),
                              ApplyOne(p, Command(t, op, p, dog[t].job.decision, FALSE))) EXCEPT ![t].job = NoJob]
  <2>1. CASE DogCommit(t)
    BY <1>1, <2>1 DEF DogCommit
  <2>2. ASSUME NEW p \in Participants[t], DogCall(t, p)
        PROVE  \E op \in {"Abort", "Commit"} :
                  /\ dog[t].job.phase = IF op = "Abort" THEN "abort" ELSE "commit"
                  /\ Execute(p, Command(t, op, p, dog[t].job.decision, FALSE))
                  /\ (\E Q : DogLeft(t, dog[t].job.phase, Q)) \/ dog' = dog
    <3>1. CASE dog[t].job.phase = "abort"
      BY <2>2, <3>1 DEF DogCall
    <3>2. CASE dog[t].job.phase = "commit"
      BY <2>2, <3>2 DEF DogCall
    <3> QED BY <2>2, <3>1, <3>2 DEF DogCall
  <2> QED BY <2>1, <2>2
<1> DEFINE c == Command(t, op, p, dog[t].job.decision, FALSE)
<1>4. CommandOK(c, t) /\ c.op = op /\ c.cts = dog[t].job.decision
  <2>1. op \in OnePhaseOps
    BY DEF OnePhaseOps
  <2>2. PICK release \in BOOLEAN, ts \in Nat : release = FALSE /\ ts = dog[t].job.decision
    BY <1>1
  <2>3. CommandOK(Command(t, op, p, ts, release), t) /\ Command(t, op, p, ts, release).op = op
        /\ Command(t, op, p, ts, release).cts = ts
    BY <1>1, <2>1, CommandTyped, SMTT(60)
  <2> QED BY <2>2, <2>3
<1>5. /\ Execute(p, c)
      /\ \/ \E Q : DogLeft(t, dog[t].job.phase, Q)
         \/ dog' = dog
         \/ dog' = [Update(t, p, c, ApplyOne(p, c)) EXCEPT ![t].job = NoJob]
  BY <1>3
<1> HIDE DEF c
<1>6. Justified(t, p, c)
  <2>1. op = "Commit" => HasDecided(t) /\ c.cts = Decision(t)
    BY <1>1, <1>3, <1>4 DEF TxnInv, WatchdogRight
  <2>2. op = "Abort" => State(t, Principal[t]) = "Timedout"
    BY <1>1, <1>3 DEF TxnInv, WatchdogRight
  <2> QED BY <1>4, <2>1, <2>2 DEF Justified, HasDecided
<1>7. DogsOK' /\ DogAfter(t) /\ \A u \in Txns \ {t} : dog'[u] = dog[u]
  <2>1. ASSUME NEW Q, DogLeft(t, dog[t].job.phase, Q)
        PROVE  DogsOK' /\ DogAfter(t) /\ \A u \in Txns \ {t} : dog'[u] = dog[u]
    <3> DEFINE j == [phase |-> dog[t].job.phase, left |-> Q, decision |-> dog[t].job.decision]
    <3>1. JobBecomes(t, j)
      BY <1>1, <2>1, JobSteps
    <3>2. /\ j = [phase |-> j.phase, left |-> j.left, decision |-> j.decision]
          /\ j.decision = dog[t].job.decision /\ j.phase = dog[t].job.phase
      OBVIOUS
    <3> HIDE DEF j
    <3> QED BY <1>1, <3>1, <3>2, JobInv
  <2>2. CASE dog' = dog
    <3>1. JobBecomes(t, dog[t].job)
      BY <1>1, <2>2, JobSteps
    <3>2. dog[t].job = [phase |-> dog[t].job.phase, left |-> dog[t].job.left, decision |-> dog[t].job.decision]
      BY <1>1 DEF DogsOK
    <3> QED BY <1>1, <3>1, <3>2, JobInv
  <2>3. CASE dog' = [Update(t, p, c, ApplyOne(p, c)) EXCEPT ![t].job = NoJob]
    BY <1>2, <1>4, <1>5, <1>6, <2>3, UpdateInv
  <2> QED BY <1>5, <2>1, <2>2, <2>3
<1>8. CallsOK' /\ CallAfter(t, p, c) /\ c.op # "StoreDecision"
  BY <1>1, <1>2, <1>4 DEF CallsOK, CallAfter
<1> QED BY <1>2, <1>4, <1>5, <1>6, <1>7, <1>8, CommandFrame

(* Steps of the watchdogs alone. *)
LEMMA DogFrame ==
    ASSUME IInv, m' = m, clock' = clock, api' = api, net' = net,
           DogsOK', \A t \in Txns : WatchdogRight(t)'
    PROVE  IInv'
<1>1. pc' = pc /\ call' = call /\ cts' = cts /\ told' = told
  BY DEF api
<1>2. ManagersOK' /\ CallsOK'
  BY <1>1 DEF IInv, ManagersOK, CallsOK, State
<1>3. ASSUME NEW t \in Txns
      PROVE  TxnInv(t)'
  <2>1. TxnInv(t)
    BY DEF IInv
  <2>2. /\ HasDecided(t)' = HasDecided(t) /\ Decision(t)' = Decision(t)
        /\ Sent(t, "Commit")' = Sent(t, "Commit") /\ Sent(t, "Abort")' = Sent(t, "Abort")
        /\ Sent(t, "StoreDecision")' = Sent(t, "StoreDecision")
        /\ \A p : State(t, p)' = State(t, p)
    BY <1>1 DEF HasDecided, Decision, Sent, State
  <2>3. GivenUp(t)' = GivenUp(t) /\ Decidable(t)' = Decidable(t)
    BY <1>1, <2>2, SMTT(60) DEF GivenUp, Decidable
  <2>4. DecisionHolds(t)' /\ ToldTrue(t)'
    BY <1>1, <2>1, <2>2, <2>3 DEF TxnInv, DecisionHolds, ToldTrue
  <2>5. RequestsJustified(t)'
    BY <1>1, <2>1, <2>2, <2>3 DEF TxnInv, RequestsJustified
  <2>6. AnswersTrue(t)'
    BY <1>1, <2>1, <2>2, <2>3 DEF TxnInv, AnswersTrue
  <2> QED BY <2>4, <2>5, <2>6 DEF TxnInv
<1> QED BY <1>2, <1>3 DEF IInv

(* The watchdog of one transaction changes. *)
DogBecomes(t, e) ==
    /\ dog' = [dog EXCEPT ![t] = e]
    /\ e = [all |-> e.all, queue |-> e.queue, updates |-> e.updates, job |-> e.job]
    /\ e.updates \cup e.queue \subseteq dog[t].updates \cup dog[t].queue
    /\ \/ e.job = dog[t].job
       \/ \E q \in dog[t].queue : \E x, P :
             e.job = [phase |-> x, left |-> P, decision |-> q.decision] /\ x # "abort"
             /\ (x = "commit" => q.state = "Decided")

(* A step of the watchdog changes its entry for one transaction only. *)
LEMMA DogLayout ==
    ASSUME DogsOK, NEW t \in Txns, NEW e, DogBecomes(t, e)
    PROVE  DogsOK' /\ dog'[t] = e /\ \A u \in Txns \ {t} : dog'[u] = dog[u]
<1>1. /\ dog' = [dog EXCEPT ![t] = e] /\ DogsOK
      /\ e = [all |-> e.all, queue |-> e.queue, updates |-> e.updates, job |-> e.job]
      /\ e.updates \cup e.queue \subseteq dog[t].updates \cup dog[t].queue
      /\ \/ e.job = dog[t].job
         \/ \E q \in dog[t].queue : \E x, P : e.job = [phase |-> x, left |-> P, decision |-> q.decision]
  BY DEF DogBecomes
<1>2. dog = [u \in Txns |-> dog[u]]
  BY <1>1 DEF DogsOK
<1>3. dog' = [u \in Txns |-> dog'[u]] /\ dog'[t] = e /\ \A u \in Txns \ {t} : dog'[u] = dog[u]
  BY <1>1, <1>2
<1>4. /\ e.job = [phase |-> e.job.phase, left |-> e.job.left, decision |-> e.job.decision]
      /\ e.job.decision \in Nat
  <2>1. CASE e.job = dog[t].job
    BY <1>1, <2>1 DEF DogsOK
  <2>2. ASSUME NEW q \in dog[t].queue, NEW x, NEW P,
               e.job = [phase |-> x, left |-> P, decision |-> q.decision]
        PROVE  /\ e.job = [phase |-> e.job.phase, left |-> e.job.left, decision |-> e.job.decision]
               /\ e.job.decision \in Nat
    <3>1. q.decision \in Nat
      BY <1>1 DEF DogsOK
    <3> QED BY <2>2, <3>1, SMTT(60)
  <2> QED BY <1>1, <2>1, <2>2
<1>5. DogsOK'
  BY <1>1, <1>3, <1>4 DEF DogsOK
<1> QED BY <1>3, <1>5

(* Such a step keeps the invariant. *)
LEMMA OneDog ==
    ASSUME IInv, m' = m, clock' = clock, api' = api, net' = net, NEW t \in Txns, NEW e, DogBecomes(t, e)
    PROVE  IInv'
<1>1. DogsOK' /\ dog'[t] = e /\ \A u \in Txns \ {t} : dog'[u] = dog[u]
  BY DogLayout DEF IInv
<1>2. ASSUME NEW u \in Txns
      PROVE  WatchdogRight(u)'
  <2>1. WatchdogRight(u)
    BY DEF IInv, TxnInv
  <2>2. /\ HasDecided(u)' = HasDecided(u) /\ Decision(u)' = Decision(u)
        /\ State(u, Principal[u])' = State(u, Principal[u])
    BY DEF HasDecided, Decision, State
  <2>3. CASE u # t
    BY <1>1, <2>1, <2>2, <2>3 DEF WatchdogRight
  <2>4. CASE u = t
    <3>1. \A v \in e.updates \cup e.queue :
             v.state = "Decided" => HasDecided(t) /\ v.decision = Decision(t)
      BY <2>1, <2>4 DEF WatchdogRight, DogBecomes
    <3>2. e.job.phase = "commit" => HasDecided(t) /\ e.job.decision = Decision(t)
      BY <2>1, <2>4, SMTT(60) DEF WatchdogRight, DogBecomes
    <3>3. e.job.phase = "abort" => State(t, Principal[t]) = "Timedout"
      BY <2>1, <2>4, SMTT(60) DEF WatchdogRight, DogBecomes
    <3> QED BY <1>1, <2>2, <2>4, <3>1, <3>2, <3>3 DEF WatchdogRight
  <2> QED BY <2>3, <2>4
<1> QED BY <1>1, <1>2, DogFrame

(* TakeUpdate and Expire change the watchdog so. *)
LEMMA DogChanges ==
    ASSUME DogsOK, NEW t \in Txns, TakeUpdate(t) \/ Expire(t)
    PROVE  \E e : DogBecomes(t, e)
<1> DEFINE o == dog[t]
<1>1. o = [all |-> o.all, queue |-> o.queue, updates |-> o.updates, job |-> o.job]
  BY DEF DogsOK
<1>3. CASE TakeUpdate(t)
  <2>1. PICK u \in o.updates :
           LET d == [o EXCEPT !.updates = @ \ {u}] IN
           dog' = [dog EXCEPT ![t] =
              CASE d.all = "none" -> d
                [] d.all # "none" /\ u.state \in {"Prepared", "Decided"} ->
                      [d EXCEPT !.all = u.state, !.queue = @ \cup {u}]
                [] d.all # "none" /\ u.state \in {"Committed", "Aborted"} -> [d EXCEPT !.all = "none"]
                [] OTHER -> d]
    BY <1>3 DEF TakeUpdate
  <2> DEFINE d == [o EXCEPT !.updates = @ \ {u}]
             e == CASE d.all = "none" -> d
                [] d.all # "none" /\ u.state \in {"Prepared", "Decided"} ->
                      [d EXCEPT !.all = u.state, !.queue = @ \cup {u}]
                [] d.all # "none" /\ u.state \in {"Committed", "Aborted"} -> [d EXCEPT !.all = "none"]
                [] OTHER -> d
             f1 == [d EXCEPT !.all = u.state, !.queue = @ \cup {u}]
             f2 == [d EXCEPT !.all = "none"]
  <2>2. dog' = [dog EXCEPT ![t] = e]
    BY <2>1
  <2> HIDE DEF o
  <2>3. d = [all |-> o.all, queue |-> o.queue, updates |-> o.updates \ {u}, job |-> o.job]
    BY <1>1, SMTT(60)
  <2>4. e = d \/ e = f1 \/ e = f2
    <3> HIDE DEF d
    <3> QED OBVIOUS
  <2> HIDE DEF d, e
  <2>5. f1 = [all |-> u.state, queue |-> o.queue \cup {u}, updates |-> o.updates \ {u}, job |-> o.job]
    <3> DEFINE d1 == [d EXCEPT !.all = u.state]
    <3>1. d1 = [all |-> u.state, queue |-> o.queue, updates |-> o.updates \ {u}, job |-> o.job]
      BY <2>3, SMTT(60)
    <3>2. f1 = [d1 EXCEPT !.queue = @ \cup {u}]
      OBVIOUS
    <3> HIDE DEF d1, f1
    <3> QED BY <3>1, <3>2
  <2>6. f2 = [all |-> "none", queue |-> o.queue, updates |-> o.updates \ {u}, job |-> o.job]
    BY <2>3, SMTT(60)
  <2> HIDE DEF f1, f2
  <2>7. /\ e = [all |-> e.all, queue |-> e.queue, updates |-> e.updates, job |-> e.job]
        /\ e.updates \cup e.queue \subseteq o.updates \cup o.queue /\ e.job = o.job
    BY <2>3, <2>4, <2>5, <2>6, SMTT(60)
  <2> QED BY <2>2, <2>7 DEF o, DogBecomes
<1>4. CASE Expire(t)
  <2>1. PICK q \in o.queue :
           LET d == [o EXCEPT !.queue = @ \ {q}]
               expected == IF q.state = "Decided" THEN "Decided" ELSE "Prepared"
           IN  dog' = [dog EXCEPT ![t] =
                  IF d.all # expected THEN d
                  ELSE [d EXCEPT !.all = "none",
                          !.job = [phase |-> IF q.state = "Decided" THEN "commit" ELSE "mark",
                                   left |-> q.pids \ {Principal[t]}, decision |-> q.decision]]]
    BY <1>4 DEF Expire
  <2> DEFINE d == [o EXCEPT !.queue = @ \ {q}]
             expected == IF q.state = "Decided" THEN "Decided" ELSE "Prepared"
             x == IF q.state = "Decided" THEN "commit" ELSE "mark"
             j == [phase |-> x, left |-> q.pids \ {Principal[t]}, decision |-> q.decision]
             f == [d EXCEPT !.all = "none", !.job = j]
             e == IF d.all # expected THEN d ELSE f
  <2>2. dog' = [dog EXCEPT ![t] = e]
    BY <2>1
  <2> HIDE DEF o
  <2>3. d = [all |-> o.all, queue |-> o.queue \ {q}, updates |-> o.updates, job |-> o.job]
    BY <1>1, SMTT(60)
  <2>4. e = d \/ e = f
    <3> HIDE DEF d, f, expected
    <3> QED OBVIOUS
  <2> HIDE DEF d, e
  <2>5. j = [phase |-> x, left |-> q.pids \ {Principal[t]}, decision |-> q.decision]
        /\ x # "abort" /\ (x = "commit" => q.state = "Decided")
    OBVIOUS
  <2> HIDE DEF x, j
  <2>6. f = [all |-> "none", queue |-> o.queue \ {q}, updates |-> o.updates, job |-> j]
    <3> DEFINE d1 == [d EXCEPT !.all = "none"]
    <3>1. d1 = [all |-> "none", queue |-> o.queue \ {q}, updates |-> o.updates, job |-> o.job]
      BY <2>3, SMTT(60)
    <3>2. f = [d1 EXCEPT !.job = j]
      OBVIOUS
    <3> HIDE DEF d1, f
    <3> QED BY <3>1, <3>2
  <2> HIDE DEF f
  <2>7. /\ e = [all |-> e.all, queue |-> e.queue, updates |-> e.updates, job |-> e.job]
        /\ e.updates \cup e.queue \subseteq o.updates \cup o.queue
        /\ e.job = o.job \/ e.job = j
    BY <2>3, <2>4, <2>6, SMTT(60)
  <2>8. \/ e.job = o.job
        \/ \E qq \in o.queue : \E xx, P :
                 e.job = [phase |-> xx, left |-> P, decision |-> qq.decision] /\ xx # "abort"
                 /\ (xx = "commit" => qq.state = "Decided")
    BY <2>1, <2>5, <2>7
  <2> QED BY <2>2, <2>7, <2>8 DEF o, DogBecomes
<1> QED BY <1>3, <1>4

(* The steps in which the watchdog takes an update or finds a timeout. *)
LEMMA DogSteps ==
    ASSUME IInv, NEW t \in Txns, TakeUpdate(t) \/ Expire(t)
    PROVE  IInv'
<1>1. m' = m /\ clock' = clock /\ api' = api /\ net' = net
  BY DEF TakeUpdate, Expire
<1>2. PICK e : DogBecomes(t, e)
  BY DogChanges DEF IInv
<1> QED BY <1>1, <1>2, OneDog
=============================================================================
