------------------------ MODULE TwoPhaseCommitProofs ------------------------
(***************************************************************************)
(* What distributed transactions promise, for any number of transactions,  *)
(* partitions, lost and late calls, crashes and changes of leader.  While  *)
(* the answer to StoreDecision is not lost, they implement AtomicCommit    *)
(* and the client is told the truth; whatever is lost, those that conflict *)
(* commit in the order of their locks.  While moreover no leader changes,  *)
(* the principal is the last participant to commit, and to abort.          *)
(***************************************************************************)
EXTENDS TwoPhaseProofs

(* SMT is the default prover; Zenon is cited where it does better. *)
USE ZenonT(30)

(* What no proof below uses. *)
HIDE DEF Frame, NoDecisionSent, ExitInv, AbortInv, NoAnswer, PrepareInv,
         StoreInv, CommitInv, CoordinatorFrame, FinishStep, AbortStep,
         EnterSilently, CallsChangeInv, DecisionStep, StatesStep,
         AnswerTrue, CommandInv, CommandFrame, CommandFacts, UpdateDog,
         UpdateInv, JobInv, OneDog, ApplyMoves, ApplyReplies

-----------------------------------------------------------------------------
(* A new leader's watchdog knows what the manager has running. *)
LEMMA ChangeLeaderLayout ==
    ASSUME ManagersOK, DogsOK, NEW p \in Pids, ChangeLeader(p)
    PROVE  /\ DogsOK'
           /\ \A t \in Txns :
                \/ dog'[t] = dog[t]
                \/ /\ dog'[t] = [all |-> dog'[t].all, queue |-> dog'[t].queue, updates |-> {}, job |-> NoJob]
                   /\ \A u \in dog'[t].queue : u.state = State(t, Principal[t]) /\ u.decision = Decision(t)
<1>2. dog' = [t \in Txns |->
                  IF Principal[t] # p THEN dog[t]
                  ELSE IF IsRunning(m[p], t)
                  THEN [NoDog EXCEPT !.all = m[p].status[t].state, !.queue = {getRunning(m[p], t)}]
                  ELSE NoDog]
  BY DEF ChangeLeader
<1>3. ASSUME NEW t \in Txns
      PROVE  \/ dog'[t] = dog[t]
             \/ /\ dog'[t] = [all |-> dog'[t].all, queue |-> dog'[t].queue, updates |-> {}, job |-> NoJob]
                /\ \A u \in dog'[t].queue : u.state = State(t, Principal[t]) /\ u.decision = Decision(t)
  <2>1. CASE Principal[t] # p
    BY <1>2, <2>1
  <2> DEFINE d1 == [NoDog EXCEPT !.all = m[p].status[t].state]
             d2 == [d1 EXCEPT !.queue = {getRunning(m[p], t)}]
  <2>2. dog'[t] = IF Principal[t] # p THEN dog[t] ELSE IF IsRunning(m[p], t) THEN d2 ELSE NoDog
    BY <1>2
  <2>3. NoDog = [all |-> "none", queue |-> {}, updates |-> {}, job |-> NoJob]
    BY DEF NoDog
  <2>4. d1 = [all |-> m[p].status[t].state, queue |-> {}, updates |-> {}, job |-> NoJob]
    BY <2>3, SMTT(60)
  <2> HIDE DEF d1
  <2>5. d2 = [all |-> m[p].status[t].state, queue |-> {getRunning(m[p], t)}, updates |-> {}, job |-> NoJob]
    BY <2>4, SMTT(60)
  <2> HIDE DEF d2
  <2>6. CASE dog'[t] = NoDog
    <3>1. dog'[t] = [all |-> "none", queue |-> {}, updates |-> {}, job |-> NoJob]
      BY <2>3, <2>6
    <3> QED BY <3>1, SMTT(60)
  <2>7. CASE Principal[t] = p /\ dog'[t] = d2
    <3>1. dog'[t] = [all |-> m[p].status[t].state, queue |-> {getRunning(m[p], t)}, updates |-> {}, job |-> NoJob]
      BY <2>5, <2>7
    <3>2. /\ getRunning(m[p], t).state = State(t, Principal[t])
          /\ getRunning(m[p], t).decision = Decision(t)
      BY <2>7 DEF getRunning, State, Decision
    <3> QED BY <3>1, <3>2, SMTT(60)
  <2> QED BY <2>1, <2>2, <2>6, <2>7
<1>4. ASSUME NEW t \in Txns
      PROVE  LET d == dog'[t] IN
             /\ d = [all |-> d.all, queue |-> d.queue, updates |-> d.updates, job |-> d.job]
             /\ d.job = [phase |-> d.job.phase, left |-> d.job.left, decision |-> d.job.decision]
             /\ d.job.decision \in Nat
             /\ \A u \in d.updates \cup d.queue : u.decision \in Nat
  <2>1. Decision(t) \in Nat
    BY TwoPhaseAssumption DEF ManagersOK, Decision, Participants
  <2>3. CASE dog'[t] = dog[t]
    BY <2>3 DEF DogsOK
  <2>4. ASSUME dog'[t] = [all |-> dog'[t].all, queue |-> dog'[t].queue, updates |-> {}, job |-> NoJob],
               \A u \in dog'[t].queue : u.decision = Decision(t)
        PROVE  LET d == dog'[t] IN
             /\ d = [all |-> d.all, queue |-> d.queue, updates |-> d.updates, job |-> d.job]
             /\ d.job = [phase |-> d.job.phase, left |-> d.job.left, decision |-> d.job.decision]
             /\ d.job.decision \in Nat
             /\ \A u \in d.updates \cup d.queue : u.decision \in Nat
    <3>1. /\ NoJob = [phase |-> NoJob.phase, left |-> NoJob.left, decision |-> NoJob.decision]
          /\ NoJob.decision \in Nat
      BY DEF NoJob
    <3> QED BY <2>1, <2>4, <3>1, SMTT(60)
  <2> QED BY <1>3, <2>3, <2>4
<1>5. DogsOK'
  BY <1>2, <1>4 DEF DogsOK
<1> QED BY <1>3, <1>5

(* The new leader reloads the watchdog of its partition. *)
LEMMA ChangeLeaderStep ==
    ASSUME IInv, NEW p \in Pids, ChangeLeader(p)
    PROVE  IInv'
<1>1. m' = m /\ clock' = clock /\ api' = api /\ net' = net
  BY DEF ChangeLeader
<1>2. /\ DogsOK'
      /\ \A t \in Txns :
           \/ dog'[t] = dog[t]
           \/ /\ dog'[t] = [all |-> dog'[t].all, queue |-> dog'[t].queue, updates |-> {}, job |-> NoJob]
              /\ \A u \in dog'[t].queue : u.state = State(t, Principal[t]) /\ u.decision = Decision(t)
  BY ChangeLeaderLayout DEF IInv
<1>3. ASSUME NEW t \in Txns
      PROVE  WatchdogRight(t)'
  <2>1. WatchdogRight(t)
    BY DEF IInv, TxnInv
  <2>2. /\ HasDecided(t)' = HasDecided(t) /\ Decision(t)' = Decision(t)
        /\ State(t, Principal[t])' = State(t, Principal[t])
    BY <1>1 DEF HasDecided, Decision, State
  <2>3. CASE dog'[t] = dog[t]
    BY <2>1, <2>2, <2>3 DEF WatchdogRight
  <2>4. ASSUME dog'[t] = [all |-> dog'[t].all, queue |-> dog'[t].queue, updates |-> {}, job |-> NoJob],
               \A u \in dog'[t].queue : u.state = State(t, Principal[t]) /\ u.decision = Decision(t)
        PROVE  WatchdogRight(t)'
    <3>1. dog'[t].updates = {} /\ dog'[t].job.phase = "none"
      BY <2>4, SMTT(60) DEF NoJob
    <3> QED BY <2>2, <2>4, <3>1 DEF WatchdogRight, HasDecided
  <2> QED BY <1>2, <2>3, <2>4
<1> QED BY <1>1, <1>2, <1>3, DogFrame

-----------------------------------------------------------------------------
(* The invariant *)

(* The initial state satisfies the invariant. *)
LEMMA InitInv ==
    ASSUME Init
    PROVE  IInv
<1>1. /\ m = [p \in Pids |-> NewManager(Txns)] /\ clock \in [Pids -> Nat]
      /\ pc = [t \in Txns |-> "idle"] /\ cts = [t \in Txns |-> 0] /\ told = [t \in Txns |-> "nothing"]
      /\ call = [t \in Txns |-> [p \in Participants[t] |-> NoStatus]]
      /\ net = {} /\ dog = [t \in Txns |-> NoDog]
  BY TwoPhaseAssumption DEF Init
<1> DEFINE n == NewManager(Txns)
<1>2. /\ n.status = [i \in Txns |-> NoStatus] /\ n.prepared = [i \in Txns |-> NoPrepared]
      /\ n = [status |-> n.status, prepared |-> n.prepared, maxTs |-> n.maxTs, db |-> n.db]
  BY DEF NewManager
<1>3. /\ NoStatus.state = "none" /\ NoStatus.ts = 0
      /\ NoPrepared.ts = 0 /\ NoPrepared.decision = 0 /\ NoPrepared.released \in BOOLEAN
      /\ NoPrepared = [present |-> NoPrepared.present, txn |-> NoPrepared.txn,
                       pids |-> NoPrepared.pids, ts |-> NoPrepared.ts,
                       locks |-> NoPrepared.locks, released |-> NoPrepared.released,
                       decision |-> NoPrepared.decision]
  BY DEF NoStatus, NoPrepared, Status
<1> HIDE DEF n
<1>4. \A p \in Pids : m[p] = n
  BY <1>1 DEF n
<1>5. Shape(n, Txns)
  <2>1. \A i \in Txns : n.status[i] = NoStatus /\ n.prepared[i] = NoPrepared
    BY <1>2
  <2>2. n.status = [i \in Txns |-> n.status[i]] /\ n.prepared = [i \in Txns |-> n.prepared[i]]
    BY <1>2
  <2>3. "none" \in States
    BY DEF States
  <2> QED BY <1>2, <1>3, <2>1, <2>2, <2>3 DEF Shape
<1>6. \A p \in Pids, t \in Txns : m[p].status[t] = NoStatus /\ m[p].prepared[t] = NoPrepared
  BY <1>2, <1>4
<1>7. ManagersOK
  BY <1>1, <1>3, <1>4, <1>5, <1>6, SMTT(60) DEF ManagersOK, State
<1>8. CallsOK
  BY <1>1, <1>3, SMTT(60) DEF CallsOK
<1>9. \A t \in Txns : dog[t].job = NoJob /\ dog[t].updates = {} /\ dog[t].queue = {} /\ dog[t] = NoDog
  BY <1>1 DEF NoDog
<1>10. NoJob.phase = "none"
  BY DEF NoJob
<1>11. DogsOK
  <2>1. NoDog = [all |-> NoDog.all, queue |-> NoDog.queue, updates |-> NoDog.updates, job |-> NoDog.job]
    BY DEF NoDog
  <2>2. NoJob = [phase |-> NoJob.phase, left |-> NoJob.left, decision |-> NoJob.decision] /\ NoJob.decision \in Nat
    BY DEF NoJob
  <2> QED BY <1>1, <1>9, <2>1, <2>2 DEF DogsOK
<1>12. ASSUME NEW t \in Txns
       PROVE  TxnInv(t)
  <2>1. /\ \A p \in Participants[t] : State(t, p) = "none"
        /\ Principal[t] \in Participants[t] /\ ~HasDecided(t)
        /\ Others(t) \subseteq Participants[t]
    BY <1>3, <1>6, TwoPhaseAssumption DEF State, Participants, HasDecided, Others
  <2>2. pc[t] = "idle" /\ told[t] = "nothing" /\ \A op : Sent(t, op) = {}
    BY <1>1 DEF Sent
  <2>3. DecisionHolds(t) /\ RequestsJustified(t) /\ AnswersTrue(t) /\ ToldTrue(t)
    BY <2>1, <2>2 DEF DecisionHolds, RequestsJustified, AnswersTrue, ToldTrue
  <2>4. WatchdogRight(t)
    BY <1>9, <1>10 DEF WatchdogRight
  <2> QED BY <2>3, <2>4 DEF TxnInv
<1> QED BY <1>7, <1>8, <1>11, <1>12 DEF IInv

(* Every step keeps the invariant. *)
LEMMA NextInv ==
    ASSUME DecisionAnswered, IInv, [Next]_vars
    PROVE  IInv'
<1>1. CASE UNCHANGED vars
  <2>1. m' = m /\ clock' = clock /\ api' = api /\ net' = net /\ dog' = dog
    BY <1>1 DEF vars
  <2>2. DogsOK'
    BY <2>1 DEF IInv, DogsOK
  <2>3. \A t \in Txns : WatchdogRight(t)'
    BY <2>1 DEF IInv, TxnInv, WatchdogRight, HasDecided, Decision, State
  <2> QED BY <2>1, <2>2, <2>3, DogFrame
<1>2. ASSUME NEW t \in Txns, Coordinate(t)
      PROVE  IInv'
  BY <1>2, PrepareSteps, DecideStep, CommitSteps, AbortSteps, CallSteps DEF Coordinate
<1>3. ASSUME NEW t \in Txns, Watch(t)
      PROVE  IInv'
  BY <1>3, MarkSteps, DogCallSteps, DogSteps DEF Watch
<1> QED BY <1>1, <1>2, <1>3, CrashStep, CallSteps, DeliverStep, ChangeLeaderStep DEF Next

(* Everything the protocol rests on holds in every state: a participant     *)
(* commits only what the principal decided, and decisions and aborts never  *)
(* meet (processor2PC, watchdog2PC, Manager).                               *)
THEOREM TwoPhaseInvariant == DecisionAnswered => (Spec => []IInv)
<1>1. Init => IInv
  BY InitInv
<1>2. DecisionAnswered /\ IInv /\ [Next]_vars => IInv'
  BY NextInv
<1>3. ASSUME DecisionAnswered
      PROVE  Spec => []IInv
  <2>1. IInv /\ [Next]_vars => IInv'
    BY <1>2, <1>3
  <2> QED BY <1>1, <2>1, PTL DEF Spec
<1> QED BY <1>3

(* The client is told the truth (processor2PC.Process): success only when   *)
(* every participant has committed at the decided timestamp, failure only   *)
(* when none has or will.                                                   *)
THEOREM ClientsToldTheTruth == DecisionAnswered => (Spec => []TruthTold)
<1>1. ASSUME IInv
      PROVE  TruthTold
  <2>1. SUFFICES ASSUME NEW t \in Txns, pc[t] = "returned"
                 PROVE  /\ told[t] = "success" =>
                              \A p \in Participants[t] : State(t, p) = "Committed" /\ m[p].status[t].ts = cts[t]
                        /\ told[t] = "failure" =>
                              \A p \in Participants[t] : State(t, p) \notin {"Committed", "Decided"}
    BY DEF TruthTold
  <2>2. DecisionHolds(t) /\ ToldTrue(t)
    BY <1>1 DEF IInv, TxnInv
  <2>3. ASSUME told[t] = "success", NEW p \in Participants[t]
        PROVE  State(t, p) = "Committed" /\ m[p].status[t].ts = cts[t]
    BY <2>2, <2>3 DEF DecisionHolds, ToldTrue
  <2>4. ASSUME told[t] = "failure", NEW p \in Participants[t]
        PROVE  State(t, p) \notin {"Committed", "Decided"}
    <3>1. ~HasDecided(t)
      BY <2>2, <2>4 DEF ToldTrue, GivenUp
    <3>2. CASE p = Principal[t]
      BY <3>1, <3>2 DEF HasDecided
    <3>3. CASE p \in Others(t)
      BY <2>2, <3>1, <3>3 DEF DecisionHolds
    <3> QED BY <3>2, <3>3 DEF Others
  <2> QED BY <2>3, <2>4
<1>2. ASSUME DecisionAnswered
      PROVE  Spec => []TruthTold
  <2>1. Spec => []IInv
    BY <1>2, TwoPhaseInvariant
  <2>2. IInv => TruthTold
    BY <1>1
  <2> QED BY <2>1, <2>2, PTL
<1> QED BY <1>2

-----------------------------------------------------------------------------
(* The order of conflicting transactions.  It does not depend on what the   *)
(* coordinator learns, so that it needs only the layout of the state.       *)

Layout == ManagersOK /\ CallsOK /\ DogsOK

(* A step of a coordinator changes no manager. *)
LEMMA CoordinateLayout ==
    ASSUME CallsOK, NEW t \in Txns, NEW p \in Participants[t], Coordinate(t) \/ Crash(t) \/ Resend(t, p) \/ CallFails(t, p)
    PROVE  CallsOK' /\ Quiet
<1>1. /\ cts \in [Txns -> Nat] /\ told = [u \in Txns |-> told[u]]
      /\ Principal[t] \in Participants[t] /\ Others(t) \subseteq Participants[t]
      /\ \A q \in Participants[t] : call[t][q].ts \in Nat
  BY TwoPhaseAssumption DEF CallsOK, Others
<1>2. Quiet
  BY DEF Coordinate, Begin, PrincipalPrepared, OthersPrepared, Stored, OthersCommitted, PrincipalCommitted,
         OthersAborted, PrincipalAborted, Retry, Crash, Resend, CallFails, Quiet, api
<1> SUFFICES CallsOK'
  BY <1>2
<1>3. ASSUME NEW phase \in Phases, NEW P, P \subseteq Participants[t], Enter(t, phase, P),
             cts' \in [Txns -> Nat], told' = told
      PROVE  CallsOK'
  BY <1>1, <1>3, EnterStep
<1>4. ASSUME NEW to, Exit(t, to), cts' = cts, told' = told
      PROVE  CallsOK'
  BY <1>1, <1>4, ExitStep
<1>5. ASSUME NEW what, Finish(t, what)
      PROVE  CallsOK'
  <2>1. Exit(t, "returned") /\ Tell(t, what) /\ cts' = cts
    BY <1>5 DEF Finish
  <2>2. told' = [u \in Txns |-> told'[u]]
    BY <2>1, ToldStep
  <2> QED BY <1>1, <2>1, <2>2, ExitStep
<1>6. ASSUME NEW what, Abort(t, what), cts' = cts
      PROVE  CallsOK'
  <2>1. Tell(t, what) /\ \/ Enter(t, "abort", {q \in Others(t) : ~IsFinal(call[t][q].state)})
                         \/ Enter(t, "abort1", {Principal[t]})
    BY <1>6 DEF Abort
  <2>2. told' = [u \in Txns |-> told'[u]]
    BY <2>1, ToldStep
  <2>3. /\ "abort" \in Phases /\ "abort1" \in Phases /\ {Principal[t]} \subseteq Participants[t]
        /\ {q \in Others(t) : ~IsFinal(call[t][q].state)} \subseteq Participants[t]
    BY <1>1 DEF Phases
  <2> QED BY <1>1, <1>6, <2>1, <2>2, <2>3, EnterStep
<1>7. /\ "prepare1" \in Phases /\ "prepare" \in Phases /\ "store" \in Phases /\ "commit" \in Phases
      /\ "commit1" \in Phases /\ "abort1" \in Phases /\ {Principal[t]} \subseteq Participants[t]
  BY <1>1 DEF Phases
<1>8. CASE Begin(t)
  BY <1>1, <1>3, <1>7, <1>8 DEF Begin
<1>9. CASE PrincipalPrepared(t)
  <2>1. CASE /\ cts' = [cts EXCEPT ![t] = call[t][Principal[t]].ts]
             /\ Enter(t, "prepare", Others(t)) /\ UNCHANGED told
    <3>1. cts' \in [Txns -> Nat]
      BY <1>1, <2>1
    <3> QED BY <1>1, <1>3, <1>7, <2>1, <3>1
  <2> QED BY <1>5, <1>9, <2>1 DEF PrincipalPrepared
<1>10. CASE OthersPrepared(t)
  <2>1. CASE /\ \E x \in {cts[t]} \cup {call[t][q].ts : q \in Others(t)} : cts' = [cts EXCEPT ![t] = x]
             /\ Enter(t, "store", {Principal[t]}) /\ UNCHANGED told
    <3>1. cts' \in [Txns -> Nat]
      BY <1>1, <2>1
    <3> QED BY <1>3, <1>7, <2>1, <3>1
  <2> QED BY <1>6, <1>10, <2>1 DEF OthersPrepared
<1>11. CASE Stored(t)
  BY <1>1, <1>3, <1>5, <1>6, <1>7, <1>11 DEF Stored
<1>12. CASE OthersCommitted(t)
  BY <1>1, <1>3, <1>5, <1>7, <1>12 DEF OthersCommitted
<1>13. CASE PrincipalCommitted(t)
  BY <1>5, <1>13 DEF PrincipalCommitted
<1>14. CASE OthersAborted(t) \/ PrincipalAborted(t)
  BY <1>1, <1>3, <1>4, <1>7, <1>14 DEF OthersAborted, PrincipalAborted
<1>15. ASSUME NEW q \in Participants[t], Retry(t, q) \/ Resend(t, q) \/ CallFails(t, q)
       PROVE  CallsOK'
  <2>1. PICK op \in Operations : op = PhaseOp[pc[t]] /\ net' \subseteq net \cup {Request(t, op, q)}
    BY <1>15, PhaseOps DEF Retry, MustRetry, Resend, CallFails, Running, Phases, Operations
  <2>2. pc' = pc /\ cts' = cts /\ told' = told
    BY <1>15 DEF Retry, Resend, CallFails, api
  <2>3. \A r \in net' : RequestOK(r)
    BY <2>1, <2>2, MoreRequests
  <2>4. \/ call' = call \/ call' = [call EXCEPT ![t] = [@ EXCEPT ![q] = Waiting]]
        \/ call' = [call EXCEPT ![t] = [@ EXCEPT ![q] = Status("error", 0)]]
    BY <1>15 DEF Retry, Resend, CallFails, api
  <2>5. Waiting.ts = 0 /\ Status("error", 0).ts = 0
    BY DEF Waiting, Status
  <2>6. /\ call' = [u \in Txns |-> call'[u]]
        /\ \A u \in Txns : /\ call'[u] = [r \in Participants[u] |-> call'[u][r]]
                           /\ \A r \in Participants[u] : call'[u][r].ts \in Nat
    <3> HIDE DEF Waiting
    <3> QED BY <2>4, <2>5, SMTT(60) DEF CallsOK
  <2> QED BY <2>2, <2>3, <2>6 DEF CallsOK
<1>16. CASE Crash(t)
  <2>1. /\ cts' = cts /\ told' = told /\ net' \subseteq net
        /\ pc' = [pc EXCEPT ![t] = "crashed"]
        /\ call' = [call EXCEPT ![t] = [q \in Participants[t] |-> NoStatus]]
    BY <1>16 DEF Crash
  <2>2. NoStatus.ts \in Nat
    BY DEF NoStatus, Status
  <2>3. /\ call' = [u \in Txns |-> call'[u]] /\ pc' = [u \in Txns |-> pc'[u]]
        /\ \A u \in Txns : /\ call'[u] = [q \in Participants[u] |-> call'[u][q]]
                           /\ \A q \in Participants[u] : call'[u][q].ts \in Nat
    BY <2>1, <2>2 DEF CallsOK
  <2> QED BY <2>1, <2>3 DEF CallsOK
<1> QED BY <1>2, <1>8, <1>9, <1>10, <1>11, <1>12, <1>13, <1>14, <1>15, <1>16 DEF Coordinate

(* Participant p of t executes c, whoever asked for it. *)
Runs(t, p, c) == CommandOK(c, t) /\ Execute(p, c) /\ c.ts > clock[p] /\ c.txn = Body[t][p]

(* A request that is delivered runs a command of its transaction. *)
LEMMA DeliverLayout ==
    ASSUME Layout, NEW r \in net, Deliver(r)
    PROVE  CallsOK' /\ DogsOK' /\ \E t \in Txns : \E p \in Participants[t] : \E c : Runs(t, p, c)
<1> DEFINE t == r.txn
           p == r.pid
           c == Command(t, r.op, p, r.cts, FALSE)
<1>1. /\ CallsOK /\ DogsOK /\ ManagersOK /\ t \in Txns /\ p \in Participants[t]
      /\ r.op \in OnePhaseOps /\ r.cts \in Nat
  BY DEF Layout, CallsOK, RequestOK, Operations, OnePhaseOps
<1>2. CommandOK(c, t) /\ c.ts > clock[p] /\ c.txn = Body[t][p]
  <2>1. PICK release \in BOOLEAN : release = FALSE
    OBVIOUS
  <2>2. /\ CommandOK(Command(t, r.op, p, r.cts, release), t)
        /\ Command(t, r.op, p, r.cts, release).ts > clock[p]
        /\ Command(t, r.op, p, r.cts, release).txn = Body[t][p]
    <3> HIDE DEF t, p
    <3> QED BY <1>1, CommandTyped, SMTT(60)
  <2> QED BY <2>1, <2>2
<1>3. /\ Execute(p, c) /\ net' = net \ {r} /\ dog' = Update(t, p, c, ApplyOne(p, c))
      /\ pc' = pc /\ cts' = cts /\ told' = told
      /\ call' = call \/ call' = [call EXCEPT ![t] = [@ EXCEPT ![p] = Answer(ApplyOne(p, c))]]
  BY DEF Deliver
<1> HIDE DEF c, t, p
<1>4. DogsOK'
  BY <1>1, <1>2, <1>3, UpdateLayout
<1>5. Answer(ApplyOne(p, c)).ts \in Nat
  <2>1. ManagersOK' /\ Result(p, c, m'[p]) /\ p \in Pids /\ c.id = t /\ c.ts \in Nat
    BY <1>1, <1>2, <1>3, Executed DEF Participants, CommandOK
  <2>2. Replies(c, ApplyOne(p, c), m[p].status[t], m'[p].status[t]) /\ m'[p].status[t].ts \in Nat
    BY <1>1, <2>1 DEF Result, ManagersOK
  <2>3. Status(ApplyOne(p, c).err, 0).ts \in Nat
    BY DEF Status
  <2> QED BY <2>1, <2>2, <2>3 DEF Replies, Answer, ErrorCodes
<1>6. /\ call' = [u \in Txns |-> call'[u]]
      /\ \A u \in Txns : /\ call'[u] = [q \in Participants[u] |-> call'[u][q]]
                         /\ \A q \in Participants[u] : call'[u][q].ts \in Nat
  <2>1. /\ call = [u \in Txns |-> call[u]]
        /\ \A u \in Txns : /\ call[u] = [q \in Participants[u] |-> call[u][q]]
                           /\ \A q \in Participants[u] : call[u][q].ts \in Nat
    BY <1>1 DEF CallsOK
  <2>2. PICK x : x.ts \in Nat /\ (call' = call \/ call' = [call EXCEPT ![t] = [@ EXCEPT ![p] = x]])
    BY <1>3, <1>5
  <2> QED BY <1>1, <2>1, <2>2
<1>7. CallsOK'
  BY <1>1, <1>3, <1>6 DEF CallsOK
<1> QED BY <1>1, <1>2, <1>3, <1>4, <1>7 DEF Runs

(* So does a call of the watchdog. *)
LEMMA WatchLayout ==
    ASSUME Layout, NEW t \in Txns,
           DogMark(t) \/ DogRelease(t) \/ DogCommit(t) \/ \E p \in Participants[t] : DogCall(t, p)
    PROVE  CallsOK' /\ DogsOK' /\ \E p \in Participants[t] : \E c : Runs(t, p, c)
<1>1. /\ ManagersOK /\ CallsOK /\ DogsOK /\ Principal[t] \in Participants[t]
      /\ dog[t].job = [phase |-> dog[t].job.phase, left |-> dog[t].job.left, decision |-> dog[t].job.decision]
      /\ dog[t].job.decision \in Nat
  BY TwoPhaseAssumption DEF Layout, DogsOK
<1>2. pc' = pc /\ call' = call /\ cts' = cts /\ told' = told /\ net' = net
  BY DEF DogMark, DogRelease, DogCommit, DogCall, api
<1>3. CallsOK'
  BY <1>1, <1>2 DEF CallsOK
<1>4. ASSUME NEW j, JobBecomes(t, j), j = [phase |-> j.phase, left |-> j.left, decision |-> j.decision],
             j.decision \in Nat
      PROVE  DogsOK'
  BY <1>1, <1>4, JobLayout
<1>5. DogDone(t) => DogsOK'
  <2>1. NoJob = [phase |-> NoJob.phase, left |-> NoJob.left, decision |-> NoJob.decision] /\ NoJob.decision \in Nat
    BY DEF NoJob
  <2> QED BY <1>1, <1>4, <2>1, JobSteps
<1>6. ASSUME NEW x, NEW P, DogLeft(t, x, P)
      PROVE  DogsOK'
  <2> DEFINE j == [phase |-> x, left |-> P, decision |-> dog[t].job.decision]
  <2>1. j = [phase |-> j.phase, left |-> j.left, decision |-> j.decision] /\ j.decision \in Nat
    BY <1>1
  <2>2. JobBecomes(t, j)
    BY <1>1, <1>6, JobSteps
  <2> HIDE DEF j
  <2> QED BY <1>4, <2>1, <2>2
<1>7. dog' = dog => DogsOK'
  BY <1>1 DEF DogsOK
<1>8. ASSUME NEW p \in Participants[t], NEW op \in OnePhaseOps, NEW ts \in Nat, NEW release \in BOOLEAN,
             Execute(p, Command(t, op, p, ts, release))
      PROVE  Runs(t, p, Command(t, op, p, ts, release))
  BY <1>1, <1>8, CommandTyped, SMTT(60) DEF Runs
<1>9. "MarkTimedout" \in OnePhaseOps /\ "Abort" \in OnePhaseOps /\ "Commit" \in OnePhaseOps /\ 0 \in Nat
      /\ TRUE \in BOOLEAN /\ FALSE \in BOOLEAN
  BY DEF OnePhaseOps
<1>10. CASE DogMark(t) \/ DogRelease(t)
  <2>1. \E release \in BOOLEAN : Execute(Principal[t], Command(t, "MarkTimedout", Principal[t], 0, release))
    BY <1>10 DEF DogMark, DogRelease
  <2>2. DogsOK'
    BY <1>5, <1>6, <1>10 DEF DogMark, DogRelease
  <2> QED BY <1>1, <1>3, <1>8, <1>9, <2>1, <2>2
<1>11. CASE DogCommit(t)
  <2> DEFINE p == Principal[t]
             c == Command(t, "Commit", p, dog[t].job.decision, FALSE)
  <2>1. Execute(p, c) /\ dog' = [Update(t, p, c, ApplyOne(p, c)) EXCEPT ![t].job = NoJob]
    BY <1>11 DEF DogCommit
  <2>2. Runs(t, p, c)
    BY <1>1, <1>8, <1>9, <2>1
  <2> HIDE DEF c
  <2>3. DogsOK'
    BY <1>1, <2>1, <2>2, UpdateLayout DEF Runs
  <2> QED BY <1>1, <1>3, <2>2, <2>3
<1>12. ASSUME NEW p \in Participants[t], DogCall(t, p)
       PROVE  DogsOK' /\ \E c : Runs(t, p, c)
  <2>1. PICK op \in {"Abort", "Commit"} : Execute(p, Command(t, op, p, dog[t].job.decision, FALSE))
    BY <1>12 DEF DogCall
  <2>2. DogsOK'
    BY <1>6, <1>7, <1>12 DEF DogCall
  <2> QED BY <1>1, <1>8, <1>9, <2>1, <2>2
<1> QED BY <1>3, <1>10, <1>11, <1>12

(* The layout is kept, and the managers only change by commands. *)
LEMMA LayoutNext ==
    ASSUME Layout, [Next]_vars
    PROVE  /\ Layout'
           /\ \/ m' = m /\ clock' = clock
              \/ \E t \in Txns : \E p \in Participants[t] : \E c : Runs(t, p, c)
<1> DEFINE Cmd == \E t \in Txns : \E p \in Participants[t] : \E c : Runs(t, p, c)
<1>1. ManagersOK /\ CallsOK /\ DogsOK
  BY DEF Layout
<1>2. CASE m' = m /\ clock' = clock /\ CallsOK' /\ DogsOK'
  BY <1>1, <1>2 DEF Layout, ManagersOK, State
<1>3. CASE Cmd /\ CallsOK' /\ DogsOK'
  <2>1. PICK t \in Txns : \E p \in Participants[t] : \E c : Runs(t, p, c)
    BY <1>3
  <2>2. PICK p \in Participants[t] : \E c : Runs(t, p, c)
    BY <2>1
  <2> PICK c : Runs(t, p, c)
    BY <2>2
  <2>3. ManagersOK'
    BY <1>1, Executed DEF Runs, Participants
  <2> QED BY <1>3, <2>3 DEF Layout
<1>4. CASE UNCHANGED vars
  BY <1>1, <1>2, <1>4 DEF vars, api, CallsOK, DogsOK
<1>5. ASSUME NEW t \in Txns, NEW p \in Participants[t], Coordinate(t) \/ Crash(t) \/ Resend(t, p) \/ CallFails(t, p)
      PROVE  m' = m /\ clock' = clock /\ CallsOK' /\ DogsOK'
  BY <1>1, <1>5, CoordinateLayout DEF Quiet, DogsOK
<1>6. ASSUME NEW t \in Txns, TakeUpdate(t) \/ Expire(t)
      PROVE  m' = m /\ clock' = clock /\ CallsOK' /\ DogsOK'
  <2>1. m' = m /\ clock' = clock /\ api' = api /\ net' = net
    BY <1>6 DEF TakeUpdate, Expire
  <2>2. DogsOK'
    BY <1>1, <1>6, DogChanges, DogLayout
  <2> QED BY <1>1, <2>1, <2>2 DEF CallsOK, api
<1>7. ASSUME NEW p \in Pids, ChangeLeader(p)
      PROVE  m' = m /\ clock' = clock /\ CallsOK' /\ DogsOK'
  <2>1. m' = m /\ clock' = clock /\ api' = api /\ net' = net
    BY <1>7 DEF ChangeLeader
  <2>2. DogsOK'
    BY <1>1, <1>7, ChangeLeaderLayout
  <2> QED BY <1>1, <2>1, <2>2 DEF CallsOK, api
<1>8. ASSUME NEW r \in net, Deliver(r)
      PROVE  Cmd /\ CallsOK' /\ DogsOK'
  BY <1>8, DeliverLayout
<1>9. ASSUME NEW t \in Txns,
             DogMark(t) \/ DogRelease(t) \/ DogCommit(t) \/ \E p \in Participants[t] : DogCall(t, p)
      PROVE  Cmd /\ CallsOK' /\ DogsOK'
  BY <1>9, WatchLayout
<1>10. \A t \in Txns : Principal[t] \in Participants[t]
  BY TwoPhaseAssumption
<1> HIDE DEF Cmd
<1>11. \/ m' = m /\ clock' = clock /\ CallsOK' /\ DogsOK'
       \/ Cmd /\ CallsOK' /\ DogsOK'
       \/ UNCHANGED vars
  BY <1>5, <1>6, <1>7, <1>8, <1>9, <1>10 DEF Next, Watch
<1> QED BY <1>2, <1>3, <1>4, <1>11 DEF Cmd

(* Prepared or decided: the locks are held. *)
Holding(t, p) == State(t, p) \in {"Prepared", "Decided"}

LocksHeld ==
    \A p \in Pids : \A t \in Txns : Holding(t, p) =>
        ~m[p].prepared[t].released /\ m[p].prepared[t].locks = BuildLocks(Body[t][p])

HoldersApart == \A p \in Pids : \A t, u \in Txns : Conflict(t, u, p) /\ Holding(t, p) => ~Holding(u, p)

ClocksMerged == \A p \in Pids : \A t \in Txns : State(t, p) = "Committed" => m[p].status[t].ts <= clock[p]

OrderInv == Layout /\ LocksHeld /\ HoldersApart /\ ClocksMerged /\ WritesOrdered

(* Whether two transactions conflict does not depend on their order. *)
LEMMA ConflictSymmetric ==
    ASSUME NEW t, NEW u, NEW p, Conflict(t, u, p)
    PROVE  Conflict(u, t, p)
BY DEF Conflict, AllCompatible, CompatibleWith

(* A command keeps the order. *)
LEMMA RunsOrder ==
    ASSUME OrderInv, NEW t \in Txns, NEW p \in Participants[t], NEW c, Runs(t, p, c)
    PROVE  LocksHeld' /\ HoldersApart' /\ ClocksMerged' /\ WritesOrdered'
<1> DEFINE s == m[p].status[t]
           q == m[p].prepared[t]
           s2 == m'[p].status[t]
           q2 == m'[p].prepared[t]
<1>1. /\ ManagersOK /\ p \in Pids /\ c.id = t /\ c.ts \in Nat /\ c.cts \in Nat /\ c.ts > clock[p]
      /\ c.txn = Body[t][p] /\ clock \in [Pids -> Nat]
  BY DEF OrderInv, Layout, Participants, Runs, CommandOK, ManagersOK
<1>2. ManagersOK' /\ Result(p, c, m'[p]) /\ \A r \in Pids \ {p} : m'[r] = m[r]
  BY <1>1, Executed DEF Runs
<1>3. Moves(m[p], c, s, q, s2, q2)
  BY <1>1, <1>2 DEF Result
<1>4. \A r \in Pids, u \in Txns : u # t \/ r # p =>
         /\ m'[r].status[u] = m[r].status[u] /\ m'[r].prepared[u] = m[r].prepared[u]
         /\ State(u, r)' = State(u, r) /\ Holding(u, r)' = Holding(u, r)
  BY <1>1, <1>2 DEF Result, State, Holding
<1>5. /\ s.state = State(t, p) /\ s2.state = State(t, p)'
      /\ Holding(t, p) = (s.state \in {"Prepared", "Decided"})
      /\ Holding(t, p)' = (s2.state \in {"Prepared", "Decided"})
  BY DEF State, Holding
<1>6. /\ \A r \in Pids : clock[r] \in Nat /\ clock'[r] \in Nat /\ clock[r] <= clock'[r]
      /\ c.op = "Commit" => c.cts <= clock'[p]
  <2>1. PICK x : /\ clock' = [clock EXCEPT ![p] = x] /\ (c.op = "Commit" => x = Max2(clock[p], c.cts))
                 /\ x = Max2(clock[p], c.cts) \/ x = c.ts
    BY DEF Runs, Execute
  <2>2. clock[p] \in Nat /\ x \in Nat /\ clock[p] <= x /\ (c.op = "Commit" => c.cts <= x)
    BY <1>1, <2>1, SMTT(60) DEF Max2
  <2> QED BY <1>1, <2>1, <2>2, SMTT(60)
<1>7. /\ \A r \in Pids, u \in Txns : m[r].status[u].ts \in Nat /\ m[r].prepared[u].ts \in Nat
      /\ s2.ts \in Nat /\ q2.ts \in Nat
  BY <1>1, <1>2 DEF ManagersOK
<1> HIDE DEF s, q, s2, q2
<1>8. \/ s2 = s /\ q2.ts = q.ts /\ (s.state # "Timedout" => q2.locks = q.locks /\ q2.released = q.released)
      \/ /\ s.state = "none" /\ s2.state = "Prepared" /\ q2.ts = c.ts
         /\ checkLocks(m[p], Body[t][p]) /\ q2.locks = BuildLocks(Body[t][p]) /\ q2.released = FALSE
      \/ /\ Holding(t, p) /\ s2.state = "Committed" /\ s2.ts = c.cts /\ q2.ts = q.ts /\ c.op = "Commit"
      \/ /\ Holding(t, p) /\ s2.state = "Decided" /\ q2.ts = q.ts /\ q2.locks = q.locks /\ q2.released = q.released
      \/ s2.state \in {"Aborted", "Timedout"}
  BY <1>1, <1>3, <1>5 DEF Moves
<1>9. LocksHeld'
  <2>1. Holding(t, p) => ~q.released /\ q.locks = BuildLocks(Body[t][p])
    BY <1>1 DEF OrderInv, LocksHeld, q
  <2>2. Holding(t, p)' => ~q2.released /\ q2.locks = BuildLocks(Body[t][p])
    BY <1>5, <1>8, <2>1
  <2>3. ASSUME NEW r \in Pids, NEW u \in Txns, Holding(u, r)'
        PROVE  ~m'[r].prepared[u].released /\ m'[r].prepared[u].locks = BuildLocks(Body[u][r])
    <3>1. CASE u = t /\ r = p
      BY <2>2, <2>3, <3>1 DEF q2
    <3>2. CASE u # t \/ r # p
      BY <1>4, <2>3, <3>2 DEF OrderInv, LocksHeld
    <3> QED BY <3>1, <3>2
  <2> QED BY <2>3 DEF LocksHeld
<1>10. ASSUME s.state = "none", s2.state = "Prepared", checkLocks(m[p], Body[t][p]), NEW u \in Txns, Conflict(t, u, p)
       PROVE  ~Holding(u, p)
  <2>1. SUFFICES ASSUME Holding(u, p)
                 PROVE  FALSE
    OBVIOUS
  <2>2. ~m[p].prepared[u].released /\ m[p].prepared[u].locks = BuildLocks(Body[u][p])
    BY <1>1, <2>1 DEF OrderInv, LocksHeld
  <2>3. DOMAIN m[p].prepared = Txns
    BY <1>1 DEF ManagersOK, Shape
  <2>4. BuildLocks(Body[u][p]) \subseteq Held(m[p])
    BY <2>2, <2>3 DEF Held
  <2> QED BY <1>10, <2>4 DEF checkLocks, AllCompatible, Conflict
<1>11. HoldersApart'
  <2>1. ASSUME NEW u \in Txns, Conflict(t, u, p), Holding(t, p)', Holding(u, p)'
        PROVE  FALSE
    <3>1. u # t /\ Holding(u, p)
      BY <1>1, <1>4, <2>1 DEF Conflict
    <3>2. CASE Holding(t, p)
      BY <1>1, <2>1, <3>1, <3>2 DEF OrderInv, HoldersApart
    <3>3. CASE s.state = "none" /\ s2.state = "Prepared" /\ checkLocks(m[p], Body[t][p])
      BY <1>10, <2>1, <3>1, <3>3
    <3> QED BY <1>5, <1>8, <2>1, <3>2, <3>3
  <2>2. ASSUME NEW r \in Pids, NEW v \in Txns, NEW u \in Txns, Conflict(v, u, r), Holding(v, r)', Holding(u, r)'
        PROVE  FALSE
    <3>1. CASE r = p /\ v = t
      BY <2>1, <2>2, <3>1
    <3>2. CASE r = p /\ u = t
      BY <2>1, <2>2, <3>2, ConflictSymmetric
    <3>3. CASE r # p \/ (v # t /\ u # t)
      BY <1>4, <2>2, <3>3 DEF OrderInv, HoldersApart
    <3> QED BY <3>1, <3>2, <3>3
  <2> QED BY <2>2 DEF HoldersApart, Conflict
<1>12. ClocksMerged'
  <2>1. s2.state = "Committed" => s2.ts <= clock'[p]
    <3>1. s.state = "Committed" => s.ts <= clock[p]
      BY <1>1, <1>5 DEF OrderInv, ClocksMerged, s
    <3> QED BY <1>1, <1>5, <1>6, <1>7, <1>8, <3>1, SMTT(60)
  <2>2. ASSUME NEW r \in Pids, NEW u \in Txns, State(u, r)' = "Committed"
        PROVE  m'[r].status[u].ts <= clock'[r]
    <3>1. CASE u = t /\ r = p
      BY <1>5, <2>1, <2>2, <3>1 DEF s2
    <3>2. CASE u # t \/ r # p
      <4>1. m'[r].status[u] = m[r].status[u] /\ m[r].status[u].ts <= clock[r] /\ m[r].status[u].ts \in Nat
        BY <1>4, <1>7, <2>2, <3>2 DEF OrderInv, ClocksMerged
      <4> QED BY <1>6, <4>1, SMTT(60)
    <3> QED BY <3>1, <3>2
  <2> QED BY <2>2 DEF ClocksMerged
<1>13. WritesOrdered'
  <2> DEFINE Ordered(v, u, r) == \/ m[r].status[v].ts < m[r].prepared[u].ts
                                 \/ State(u, r) = "Committed" /\ m[r].status[u].ts < m[r].prepared[v].ts
             Ordered2(v, u, r) == \/ m'[r].status[v].ts < m'[r].prepared[u].ts
                                  \/ State(u, r)' = "Committed" /\ m'[r].status[u].ts < m'[r].prepared[v].ts
  <2>1. \A r \in Pids : \A v, u \in Txns :
           Conflict(v, u, r) /\ State(v, r) = "Committed" /\ State(u, r) \in {"Prepared", "Decided", "Committed"}
              => Ordered(v, u, r)
    BY DEF OrderInv, WritesOrdered
  <2>2. ASSUME NEW u \in Txns, Conflict(u, t, p), State(u, p)' = "Committed",
               State(t, p)' \in {"Prepared", "Decided", "Committed"}
        PROVE  Ordered2(u, t, p) /\ (State(t, p)' = "Committed" => Ordered2(t, u, p))
    <3>1. u # t /\ State(u, p) = "Committed" /\ m'[p].status[u] = m[p].status[u]
          /\ m'[p].prepared[u] = m[p].prepared[u]
      BY <1>1, <1>4, <2>2 DEF Conflict
    <3>2. m[p].status[u].ts <= clock[p] /\ m[p].status[u].ts \in Nat /\ clock[p] \in Nat
      BY <1>1, <1>6, <1>7, <3>1 DEF OrderInv, ClocksMerged
    <3>3. CASE s.state = "none" /\ s2.state = "Prepared" /\ q2.ts = c.ts
      BY <1>1, <1>5, <3>1, <3>2, <3>3, SMTT(60) DEF q2
    <3>4. CASE Holding(t, p) /\ q2.ts = q.ts
      <4>1. m[p].status[u].ts < q.ts
        BY <1>1, <2>1, <2>2, <3>1, <3>4 DEF Holding, q
      <4> QED BY <3>1, <3>4, <4>1, <2>2 DEF q2
    <3>5. CASE s2 = s /\ q2.ts = q.ts /\ s.state \in {"Prepared", "Decided", "Committed"}
      <4>1. Ordered(u, t, p)
        BY <1>1, <1>5, <2>1, <2>2, <3>1, <3>5
      <4>2. State(t, p)' = "Committed" => Ordered(t, u, p)
        BY <1>1, <1>5, <2>1, <2>2, <3>1, <3>5, ConflictSymmetric
      <4>3. m'[p].status[t] = m[p].status[t] /\ m'[p].prepared[t].ts = m[p].prepared[t].ts
            /\ State(t, p)' = State(t, p) /\ State(u, p)' = State(u, p)
        BY <1>1, <1>4, <1>5, <3>1, <3>5 DEF s, s2, q, q2
      <4> QED BY <3>1, <4>1, <4>2, <4>3
    <3> QED BY <1>5, <1>8, <2>2, <3>3, <3>4, <3>5
  <2>3. ASSUME NEW u \in Txns, Conflict(t, u, p), State(t, p)' = "Committed", State(u, p)' \in {"Prepared", "Decided"}
        PROVE  Ordered2(t, u, p)
    <3>1. u # t /\ Holding(u, p) /\ State(u, p)' = State(u, p)
          /\ m'[p].status[u] = m[p].status[u] /\ m'[p].prepared[u] = m[p].prepared[u]
      BY <1>1, <1>4, <2>3 DEF Conflict, Holding
    <3>2. ~Holding(t, p)
      BY <1>1, <2>3, <3>1, ConflictSymmetric DEF OrderInv, HoldersApart
    <3>3. s2 = s /\ q2.ts = q.ts
      BY <1>5, <1>8, <2>3, <3>2
    <3>4. Ordered(t, u, p)
      BY <1>1, <1>5, <2>1, <2>3, <3>1, <3>3, SMTT(60)
    <3> QED BY <3>1, <3>3, <3>4 DEF s, s2, q, q2
  <2>4. ASSUME NEW r \in Pids, NEW v \in Txns, NEW u \in Txns, Conflict(v, u, r), State(v, r)' = "Committed",
               State(u, r)' \in {"Prepared", "Decided", "Committed"}
        PROVE  Ordered2(v, u, r)
    <3>1. CASE r = p /\ u = t
      BY <2>2, <2>4, <3>1
    <3>2. CASE r = p /\ v = t
      <4>1. CASE State(u, r)' = "Committed"
        BY <2>2, <2>4, <3>2, <4>1, ConflictSymmetric
      <4> QED BY <2>3, <2>4, <3>2, <4>1
    <3>3. CASE r # p \/ (v # t /\ u # t)
      BY <1>4, <2>1, <2>4, <3>3, SMTT(60)
    <3> QED BY <3>1, <3>2, <3>3
  <2> QED BY <2>4 DEF WritesOrdered
<1> QED BY <1>9, <1>11, <1>12, <1>13

(* Conflicting transactions commit in the order in which they held their    *)
(* locks, at increasing timestamps, whatever calls are lost: Commit merges  *)
(* its timestamp into the clock that stamps the next Prepare (writer,       *)
(* Manager.applyCommit, checkLocks).                                        *)
THEOREM ConflictsOrdered == Spec => []WritesOrdered
<1>1. Init => OrderInv
  <2> SUFFICES ASSUME Init
               PROVE  OrderInv
    OBVIOUS
  <2>1. Layout
    BY InitInv DEF IInv, Layout
  <2>2. \A p \in Pids, t \in Txns : m[p].status[t] = NoStatus
    BY DEF Init, NewManager
  <2>3. \A p \in Pids, t \in Txns : State(t, p) = "none"
    <3>1. NoStatus.state = "none"
      BY DEF NoStatus, Status
    <3> QED BY <2>2, <3>1 DEF State
  <2> QED BY <2>1, <2>3 DEF OrderInv, LocksHeld, HoldersApart, ClocksMerged, WritesOrdered, Holding
<1>2. OrderInv /\ [Next]_vars => OrderInv'
  <2> SUFFICES ASSUME OrderInv, [Next]_vars
               PROVE  OrderInv'
    OBVIOUS
  <2>1. Layout'
    BY LayoutNext DEF OrderInv
  <2>2. CASE m' = m /\ clock' = clock
    BY <2>1, <2>2 DEF OrderInv, LocksHeld, HoldersApart, ClocksMerged, WritesOrdered, Holding, State
  <2>3. ASSUME NEW t \in Txns, NEW p \in Participants[t], NEW c, Runs(t, p, c)
        PROVE  OrderInv'
    BY <2>1, <2>3, RunsOrder DEF OrderInv
  <2> QED BY <2>2, <2>3, LayoutNext DEF OrderInv
<1>3. OrderInv => WritesOrdered
  BY DEF OrderInv
<1> QED BY <1>1, <1>2, <1>3, PTL DEF Spec

-----------------------------------------------------------------------------
(* Atomic commitment *)

(* Somebody who may ask it has participant p of t execute c. *)
Performs(t, p, c) ==
    /\ CommandOK(c, t) /\ Justified(t, p, c) /\ Execute(p, c)
    /\ c.ts > clock[p] /\ c.txn = Body[t][p]

(* The managers only change by commands. *)
LEMMA OnlyCommands ==
    ASSUME IInv, [Next]_vars
    PROVE  \/ m' = m /\ clock' = clock
           \/ \E t \in Txns : \E p \in Participants[t] : \E c : Performs(t, p, c)
<1>1. CASE UNCHANGED vars
  BY <1>1 DEF vars
<1>2. ASSUME NEW t \in Txns, Coordinate(t) \/ Crash(t) \/ TakeUpdate(t) \/ Expire(t)
      PROVE  m' = m /\ clock' = clock
  BY <1>2 DEF Coordinate, Begin, PrincipalPrepared, OthersPrepared, Stored, OthersCommitted,
              PrincipalCommitted, OthersAborted, PrincipalAborted, Retry, Crash, TakeUpdate, Expire
<1>3. ASSUME NEW t \in Txns, NEW p \in Participants[t], Resend(t, p) \/ CallFails(t, p)
      PROVE  m' = m /\ clock' = clock
  BY <1>3 DEF Resend, CallFails
<1>4. ASSUME NEW p \in Pids, ChangeLeader(p)
      PROVE  m' = m /\ clock' = clock
  BY <1>4 DEF ChangeLeader
<1>5. ASSUME NEW t \in Txns, NEW p \in Participants[t], NEW op \in OnePhaseOps, NEW ts \in Nat,
             NEW release \in BOOLEAN, Execute(p, Command(t, op, p, ts, release)),
             \A c : c.op = op /\ c.cts = ts => Justified(t, p, c)
      PROVE  \E c : Performs(t, p, c)
  <2> DEFINE c == Command(t, op, p, ts, release)
  <2>1. CommandOK(c, t) /\ c.op = op /\ c.cts = ts /\ c.ts > clock[p] /\ c.txn = Body[t][p]
    BY CommandTyped, SMTT(60) DEF IInv
  <2>2. Execute(p, c)
    BY <1>5
  <2> HIDE DEF c
  <2> QED BY <1>5, <2>1, <2>2 DEF Performs
<1>6. ASSUME NEW r \in net, Deliver(r)
      PROVE  \E t \in Txns : \E p \in Participants[t] : \E c : Performs(t, p, c)
  <2> DEFINE t == r.txn
             p == r.pid
  <2>1. /\ TxnInv(t) /\ t \in Txns /\ p \in Participants[t] /\ r \in Sent(t, r.op) /\ r.cts \in Nat
        /\ r.op \in Operations
    BY DEF IInv, CallsOK, RequestOK, Sent
  <2>2. r.op \in OnePhaseOps /\ FALSE \in BOOLEAN
    BY <2>1 DEF Operations, OnePhaseOps
  <2>3. Execute(p, Command(t, r.op, p, r.cts, FALSE))
    BY <1>6 DEF Deliver
  <2>4. ASSUME NEW c, c.op = r.op, c.cts = r.cts
        PROVE  Justified(t, p, c)
    <3>1. c.op = "Commit" => HasDecided(t) /\ c.cts = Decision(t)
      BY <2>1, <2>4 DEF TxnInv, RequestsJustified
    <3>2. c.op = "Abort" => ~HasDecided(t) /\ GivenUp(t)
      BY <2>1, <2>4 DEF TxnInv, RequestsJustified, GivenUp
    <3>3. c.op = "StoreDecision" =>
            /\ p = Principal[t] /\ c.cts = cts[t] /\ ~HasDecided(t) /\ Decidable(t) /\ ~GivenUp(t)
            /\ pc[t] \in {"store", "crashed"}
      BY <2>1, <2>4 DEF TxnInv, RequestsJustified, GivenUp
    <3>4. c.op # "MarkTimedout"
      BY <2>1, <2>4 DEF Operations
    <3> QED BY <3>1, <3>2, <3>3, <3>4 DEF Justified
  <2> HIDE DEF t, p
  <2> QED BY <1>5, <2>1, <2>2, <2>3, <2>4
<1>7. ASSUME NEW t \in Txns, DogMark(t) \/ DogRelease(t)
      PROVE  \E p \in Participants[t] : \E c : Performs(t, p, c)
  <2>1. Principal[t] \in Participants[t] /\ "MarkTimedout" \in OnePhaseOps
    BY TwoPhaseAssumption DEF OnePhaseOps
  <2>2. \E release \in BOOLEAN : Execute(Principal[t], Command(t, "MarkTimedout", Principal[t], 0, release))
    BY <1>7 DEF DogMark, DogRelease
  <2>3. \A c : c.op = "MarkTimedout" /\ c.cts = 0 => Justified(t, Principal[t], c)
    BY DEF Justified
  <2> QED BY <1>5, <2>1, <2>2, <2>3
<1>8. ASSUME NEW t \in Txns, DogCommit(t) \/ \E p \in Participants[t] : DogCall(t, p)
      PROVE  \E p \in Participants[t] : \E c : Performs(t, p, c)
  <2>1. Principal[t] \in Participants[t] /\ WatchdogRight(t) /\ dog[t].job.decision \in Nat
    BY TwoPhaseAssumption DEF IInv, DogsOK, TxnInv
  <2>2. PICK p \in Participants[t], op \in {"Abort", "Commit"} :
           /\ dog[t].job.phase = IF op = "Abort" THEN "abort" ELSE "commit"
           /\ Execute(p, Command(t, op, p, dog[t].job.decision, FALSE))
    <3>1. CASE DogCommit(t)
      BY <2>1, <3>1 DEF DogCommit
    <3>2. ASSUME NEW p \in Participants[t], DogCall(t, p)
          PROVE  \E op \in {"Abort", "Commit"} :
                    /\ dog[t].job.phase = IF op = "Abort" THEN "abort" ELSE "commit"
                    /\ Execute(p, Command(t, op, p, dog[t].job.decision, FALSE))
      <4>1. CASE dog[t].job.phase = "abort"
        BY <3>2, <4>1 DEF DogCall
      <4>2. CASE dog[t].job.phase = "commit"
        BY <3>2, <4>2 DEF DogCall
      <4> QED BY <3>2, <4>1, <4>2 DEF DogCall
    <3> QED BY <1>8, <3>1, <3>2
  <2>3. ASSUME NEW c, c.op = op, c.cts = dog[t].job.decision
        PROVE  Justified(t, p, c)
    <3>1. op = "Commit" => HasDecided(t) /\ c.cts = Decision(t)
      BY <2>1, <2>2, <2>3 DEF WatchdogRight
    <3>2. op = "Abort" => State(t, Principal[t]) = "Timedout"
      BY <2>1, <2>2 DEF WatchdogRight
    <3> QED BY <2>3, <3>1, <3>2 DEF Justified, HasDecided
  <2>4. op \in OnePhaseOps /\ FALSE \in BOOLEAN
    BY DEF OnePhaseOps
  <2> QED BY <1>5, <2>1, <2>2, <2>3, <2>4
<1> QED BY <1>1, <1>2, <1>3, <1>4, <1>6, <1>7, <1>8 DEF Next, Watch

(* The refinement mapping, for one participant. *)
Abs(s) ==
    CASE s = "none" -> "working" [] s \in {"Prepared", "Decided"} -> "prepared"
      [] s = "Committed" -> "committed" [] OTHER -> "aborted"

AbsAt(s, q) == IF s.state = "Committed" THEN s.ts ELSE q.ts

(* What the states of a transaction are in the abstract specification. *)
LEMMA AbsValues ==
    /\ Abs("none") = "working" /\ Abs("Prepared") = "prepared" /\ Abs("Decided") = "prepared"
    /\ Abs("Committed") = "committed" /\ Abs("Aborted") = "aborted" /\ Abs("Timedout") = "aborted"
    /\ \A s : Abs(s) = "committed" => s = "Committed"
BY DEF Abs

(* The refinement mapping, with names for its cases. *)
LEMMA Mapping ==
    /\ AbstractState = [t \in Txns |-> [p \in Participants[t] |-> Abs(m[p].status[t].state)]]
    /\ AbstractAt = [t \in Txns |-> [p \in Participants[t] |-> AbsAt(m[p].status[t], m[p].prepared[t])]]
BY DEF AbstractState, AbstractAt, Abs, AbsAt, State

(* A command moves one participant of the abstract specification, or none.  *)
LEMMA CommandRefines ==
    ASSUME IInv, NEW t \in Txns, NEW p \in Participants[t], NEW c, Performs(t, p, c)
    PROVE  [Atomic!Next]_(Atomic!vars)
<1> DEFINE a == AbstractState
           b == AbstractAt
           s == m[p].status[t]
           q == m[p].prepared[t]
           s2 == m'[p].status[t]
           q2 == m'[p].prepared[t]
<1>1. ManagersOK /\ DecisionHolds(t) /\ p \in Pids /\ c.id = t /\ CommandOK(c, t) /\ Justified(t, p, c)
  BY DEF IInv, TxnInv, Participants, Performs, CommandOK
<1>2. ManagersOK' /\ Result(p, c, m'[p]) /\ \A r \in Pids \ {p} : m'[r] = m[r]
  BY <1>1, Executed DEF Performs
<1>3. Moves(m[p], c, s, q, s2, q2)
  BY <1>1, <1>2 DEF Result
<1>4. /\ a = [u \in Txns |-> [r \in Participants[u] |-> Abs(m[r].status[u].state)]]
      /\ b = [u \in Txns |-> [r \in Participants[u] |-> AbsAt(m[r].status[u], m[r].prepared[u])]]
  BY Mapping
<1>5. /\ a' = [u \in Txns |-> [r \in Participants[u] |-> Abs(m'[r].status[u].state)]]
      /\ b' = [u \in Txns |-> [r \in Participants[u] |-> AbsAt(m'[r].status[u], m'[r].prepared[u])]]
  BY DEF AbstractState, AbstractAt, Abs, AbsAt, State
<1> DEFINE x == Abs(s2.state)
           y == AbsAt(s2, q2)
<1>6. \A u \in Txns : \A r \in Participants[u] : u # t \/ r # p =>
         m'[r].status[u] = m[r].status[u] /\ m'[r].prepared[u] = m[r].prepared[u]
  BY <1>1, <1>2 DEF Result, Participants
<1>7. a' = [a EXCEPT ![t] = [@ EXCEPT ![p] = x]] /\ b' = [b EXCEPT ![t] = [@ EXCEPT ![p] = y]]
  <2> DEFINE A(u) == [r \in Participants[u] |-> Abs(m[r].status[u].state)]
             A2(u) == [r \in Participants[u] |-> Abs(m'[r].status[u].state)]
             B(u) == [r \in Participants[u] |-> AbsAt(m[r].status[u], m[r].prepared[u])]
             B2(u) == [r \in Participants[u] |-> AbsAt(m'[r].status[u], m'[r].prepared[u])]
  <2>1. A2(t) = [A(t) EXCEPT ![p] = x] /\ B2(t) = [B(t) EXCEPT ![p] = y]
    BY <1>6
  <2>2. \A u \in Txns \ {t} : A2(u) = A(u) /\ B2(u) = B(u)
    BY <1>6
  <2>3. /\ a = [u \in Txns |-> A(u)] /\ b = [u \in Txns |-> B(u)]
        /\ a' = [u \in Txns |-> A2(u)] /\ b' = [u \in Txns |-> B2(u)]
    <3> HIDE DEF a, b
    <3> QED BY <1>4, <1>5
  <2> HIDE DEF a, b, x, y, A, A2, B, B2
  <2>4. a[t] = A(t) /\ b[t] = B(t)
    BY <2>3
  <2> QED BY <2>1, <2>2, <2>3, <2>4
<1>8. a[t][p] = Abs(s.state) /\ b[t][p] = AbsAt(s, q) /\ b'[t][p] = y
  <2> HIDE DEF a, b
  <2> QED BY <1>4, <1>5
<1>9. s.state = State(t, p) /\ s2.ts \in Nat /\ q2.ts \in Nat /\ s.ts \in Nat /\ q.ts \in Nat /\ y \in Nat
  BY <1>1, <1>2 DEF ManagersOK, State, AbsAt
<1>10. Atomic!Becomes(t, p, x)
  BY <1>7, <1>8, <1>9 DEF Atomic!Becomes
<1>11. CASE Abs(s2.state) = Abs(s.state) /\ AbsAt(s2, q2) = AbsAt(s, q)
  <2>1. a' = a /\ b' = b
    <3> HIDE DEF a, b
    <3> QED BY <1>4, <1>7, <1>8, <1>11
  <2> QED BY <2>1 DEF Atomic!vars
<1>12. CASE c.op = "Prepare" /\ s.state = "none" /\ s2.state = "Prepared"
  <2>1. a[t][p] = "working" /\ x = "prepared"
    BY <1>8, <1>12, AbsValues
  <2> QED BY <1>10, <2>1 DEF Atomic!Next, Atomic!Prepare
<1>13. CASE c.op = "Commit" /\ s.state \in {"Prepared", "Decided"} /\ s2.state = "Committed" /\ s2.ts = c.cts
  <2>1. HasDecided(t) /\ y = Decision(t)
    BY <1>1, <1>13 DEF Justified, AbsAt
  <2>2. a[t][p] = "prepared" /\ x = "committed"
    BY <1>8, <1>13, AbsValues
  <2>3. ASSUME NEW r \in Participants[t]
        PROVE  \/ a[t][r] = "prepared" /\ b[t][r] <= b'[t][p]
               \/ a[t][r] = "committed" /\ b[t][r] = b'[t][p]
    <3>1. a[t][r] = Abs(State(t, r)) /\ b[t][r] = AbsAt(m[r].status[t], m[r].prepared[t])
      <4> HIDE DEF a, b
      <4> QED BY <1>4 DEF State
    <3>2. /\ State(t, r) \in {"Prepared", "Decided", "Committed"}
          /\ m[r].prepared[t].ts <= Decision(t)
          /\ State(t, r) = "Committed" => m[r].status[t].ts = Decision(t)
      BY <1>1, <2>1 DEF DecisionHolds
    <3>3. b'[t][p] = Decision(t)
      BY <1>8, <2>1
    <3>4. b[t][r] = IF State(t, r) = "Committed" THEN m[r].status[t].ts ELSE m[r].prepared[t].ts
      BY <3>1 DEF AbsAt, State
    <3> HIDE DEF a, b
    <3> QED BY <3>1, <3>2, <3>3, <3>4, AbsValues
  <2> QED BY <1>10, <2>2, <2>3 DEF Atomic!Next, Atomic!Commit
<1>14. CASE s.state = "Prepared" /\ s2.state \in {"Aborted", "Timedout"} /\ c.op \in {"Abort", "MarkTimedout"}
  <2>1. ~HasDecided(t)
    BY <1>1, <1>9, <1>14 DEF Justified, HasDecided
  <2>2. \A r \in Participants[t] : a[t][r] # "committed"
    <3>1. \A r \in Participants[t] : a[t][r] = Abs(State(t, r))
      <4> HIDE DEF a
      <4> QED BY <1>4 DEF State
    <3>2. \A r \in Participants[t] : State(t, r) # "Committed"
      BY <1>1, <2>1 DEF DecisionHolds
    <3> HIDE DEF a
    <3> QED BY <3>1, <3>2, AbsValues
  <2>3. a[t][p] = "prepared" /\ x = "aborted"
    BY <1>8, <1>14, AbsValues
  <2> QED BY <1>10, <2>2, <2>3 DEF Atomic!Next, Atomic!Abort
<1>15. CASE c.op = "StoreDecision" /\ s.state = "Prepared" /\ s2.state = "Decided" /\ q2.ts = q.ts
  <2>1. Abs(s2.state) = Abs(s.state) /\ AbsAt(s2, q2) = AbsAt(s, q)
    BY <1>15, AbsValues DEF AbsAt
  <2> QED BY <1>11, <2>1
<1>16. CASE s2 = s /\ q2.ts = q.ts
  <2>1. Abs(s2.state) = Abs(s.state) /\ AbsAt(s2, q2) = AbsAt(s, q)
    BY <1>16 DEF AbsAt
  <2> QED BY <1>11, <2>1
<1> QED BY <1>3, <1>12, <1>13, <1>14, <1>15, <1>16 DEF Moves

(* Distributed transactions are atomic: whatever calls fail or come late,   *)
(* whoever crashes and whoever leads, the participants commit together, at  *)
(* one timestamp, or not at all (processor2PC, watchdog2PC, Manager).       *)
THEOREM TransactionsAtomic == DecisionAnswered => (Spec => AtomicCommitment)
<1>1. Init => Atomic!Init
  <2> SUFFICES ASSUME Init
               PROVE  Atomic!Init
    OBVIOUS
  <2>1. \A t \in Txns : \A p \in Participants[t] : m[p].status[t] = NoStatus /\ m[p].prepared[t] = NoPrepared
    BY DEF Init, NewManager, Participants
  <2>2. Abs(NoStatus.state) = "working" /\ AbsAt(NoStatus, NoPrepared) = 0
    BY AbsValues DEF NoStatus, Status, NoPrepared, AbsAt
  <2>3. /\ AbstractState = [t \in Txns |-> [p \in Participants[t] |-> "working"]]
        /\ AbstractAt = [t \in Txns |-> [p \in Participants[t] |-> 0]]
    BY <2>1, <2>2, Mapping
  <2> QED BY <2>3 DEF Atomic!Init
<1>2. ASSUME IInv, [Next]_vars
      PROVE  [Atomic!Next]_(Atomic!vars)
  <2>1. CASE m' = m
    <3>1. AbstractState' = AbstractState /\ AbstractAt' = AbstractAt
      BY <2>1 DEF AbstractState, AbstractAt, State
    <3> QED BY <3>1 DEF Atomic!vars
  <2>2. ASSUME NEW t \in Txns, NEW p \in Participants[t], NEW c, Performs(t, p, c)
        PROVE  [Atomic!Next]_(Atomic!vars)
    BY <1>2, <2>2, CommandRefines
  <2> QED BY <1>2, <2>1, <2>2, OnlyCommands
<1>3. ASSUME DecisionAnswered
      PROVE  Spec => AtomicCommitment
  <2>1. Spec => []IInv
    BY <1>3, TwoPhaseInvariant
  <2>2. IInv /\ [Next]_vars => [Atomic!Next]_(Atomic!vars)
    BY <1>2
  <2> QED BY <1>1, <2>1, <2>2, PTL DEF Spec, AtomicCommitment, Atomic!Spec
<1> QED BY <1>3

-----------------------------------------------------------------------------
(* The principal is the last.  Without a change of leader the watchdog has  *)
(* nothing in its map and does nothing: only the coordinator's requests     *)
(* count.                                                                   *)

WatchdogIdle ==
    leaders = 0 /\ \A t \in Txns : dog[t].all = "none" /\ dog[t].queue = {} /\ dog[t].job = NoJob

(* Retry, Resend and CallFails, seen by the coordinator of t. *)
CallTurn(t, p) ==
    /\ pc[t] \in Phases /\ pc'[t] = pc[t]
    /\ \A q \in Participants[t] \ {p} : call'[t][q] = call[t][q]
    /\ \/ call'[t][p] = call[t][p] /\ call[t][p] = Waiting
       \/ call'[t][p] = Waiting /\ pc[t] \in {"prepare1", "prepare"}
       \/ call'[t][p] = Status("error", 0)
    /\ \A op \in Operations \ {PhaseOp[pc[t]]} : Sent(t, op)' \subseteq Sent(t, op)
    /\ \A r \in Sent(t, PhaseOp[pc[t]])' : r \in Sent(t, PhaseOp[pc[t]]) \/ (r.pid = p /\ call'[t][p] = Waiting)
    /\ pc[t] \in {"prepare1", "prepare"} /\ "Prepare" \notin Late /\ call'[t][p] # Waiting =>
          [txn |-> t, op |-> "Prepare", pid |-> p, cts |-> 0] \notin net'

(* The participants that abort asks. *)
ToAbort(t) == {p \in Others(t) : ~IsFinal(call[t][p].state)}

(* The steps of the coordinator of t. *)
Turn(t) ==
    \/ pc[t] = "idle" /\ Entered(t, "prepare1", {Principal[t]})
    \/ pc[t] = "prepare1" /\ Answered(t) /\ Entered(t, "prepare", Others(t))
    \/ pc[t] = "prepare" /\ Answered(t) /\ Entered(t, "store", {Principal[t]})
    \/ pc[t] = "store" /\ Answered(t) /\ Entered(t, "commit", Others(t))
    \/ /\ pc[t] = "commit" /\ \A p \in Others(t) : call[t][p].state = "Committed"
       /\ Entered(t, "commit1", {Principal[t]})
    \/ pc[t] \in {"prepare", "store"} /\ Answered(t) /\ Entered(t, "abort", ToAbort(t))
    \/ pc[t] \in {"prepare", "store"} /\ Answered(t) /\ ToAbort(t) = {} /\ Entered(t, "abort1", {Principal[t]})
    \/ pc[t] = "abort" /\ AbortSucceeded(t) = Asked(t) /\ Entered(t, "abort1", {Principal[t]})
    \/ \E to \in {"returned", "hung", "crashed"} :
          /\ Exited(t, to)
          /\ Answered(t) \/ pc[t] = "abort" \/ ("Prepare" \notin Late => Sent(t, "Prepare")' = {})
    \/ \E p \in Participants[t] : CallTurn(t, p)

(* Retry, Resend and CallFails are such steps. *)
LEMMA CallTurns ==
    ASSUME CallsOK, NEW t \in Txns, NEW p \in Participants[t],
           Retry(t, p) \/ Resend(t, p) \/ CallFails(t, p)
    PROVE  Quiet /\ OnlyCalls(t) /\ CallTurn(t, p) /\ leaders' = leaders
<1>1. Quiet /\ cts' = cts /\ pc' = pc /\ leaders' = leaders
  BY DEF Retry, Resend, CallFails, Quiet, api
<1>2. /\ pc[t] \in Phases
      /\ Retry(t, p) => PhaseOp[pc[t]] = "Prepare" /\ pc[t] \in {"prepare1", "prepare"}
  BY PhaseOps DEF Retry, MustRetry, Resend, CallFails, Running, Phases
<1>3. PICK op \in Operations : op = PhaseOp[pc[t]]
  BY <1>2, PhaseOps DEF Phases, Operations
<1>4. net' \subseteq net \cup {Request(t, op, p)}
  BY <1>2, <1>3 DEF Retry, Resend, CallFails
<1>5. /\ \A o \in Operations \ {op} : Sent(t, o)' \subseteq Sent(t, o)
      /\ \A u \in Txns \ {t} : \A o \in Operations : Sent(u, o)' \subseteq Sent(u, o)
  BY <1>1, <1>3, <1>4, MoreRequests
<1>6. /\ Request(t, op, p).txn = t /\ Request(t, op, p).op = op /\ Request(t, op, p).pid = p
  BY DEF Request
<1>7. \A u \in Txns : call[u] = [q \in Participants[u] |-> call[u][q]]
  BY DEF CallsOK
<1>8. /\ \A u \in Txns \ {t} : call'[u] = call[u]
      /\ \A q \in Participants[t] \ {p} : call'[t][q] = call[t][q]
      /\ \/ call' = call /\ call[t][p] = Waiting /\ Resend(t, p)
         \/ call'[t][p] = Waiting /\ Retry(t, p)
         \/ call'[t][p] = Status("error", 0) /\ CallFails(t, p)
  <2>1. CASE Resend(t, p)
    BY <2>1 DEF Resend, api
  <2>2. CASE Retry(t, p)
    <3>1. call' = [call EXCEPT ![t] = [@ EXCEPT ![p] = Waiting]]
      BY <2>2 DEF Retry
    <3>2. call = [u \in Txns |-> call[u]]
      BY DEF CallsOK
    <3> QED BY <1>7, <2>2, <3>1, <3>2
  <2>3. CASE CallFails(t, p)
    <3>1. call' = [call EXCEPT ![t] = [@ EXCEPT ![p] = Status("error", 0)]]
      BY <2>3 DEF CallFails
    <3>2. call = [u \in Txns |-> call[u]]
      BY DEF CallsOK
    <3> QED BY <1>7, <2>3, <3>1, <3>2
  <2> QED BY <2>1, <2>2, <2>3
<1>9. \A r \in Sent(t, op)' : r \in Sent(t, op) \/ (r.pid = p /\ call'[t][p] = Waiting)
  <2>1. ASSUME CallFails(t, p) PROVE net' \subseteq net
    BY <2>1 DEF CallFails
  <2>2. \A r \in Sent(t, op)' : r \in Sent(t, op) \/ r.pid = p
    BY <1>4, <1>6 DEF Sent
  <2>3. CASE CallFails(t, p)
    BY <2>1, <2>3 DEF Sent
  <2> QED BY <1>8, <2>2, <2>3
<1>10. ASSUME pc[t] \in {"prepare1", "prepare"}, "Prepare" \notin Late, call'[t][p] # Waiting
       PROVE  [txn |-> t, op |-> "Prepare", pid |-> p, cts |-> 0] \notin net'
  <2>1. CallFails(t, p) /\ op = "Prepare"
    BY <1>3, <1>8, <1>10, PhaseOps
  <2>2. net' = net \ {Request(t, "Prepare", p)}
    BY <1>3, <1>10, <2>1 DEF CallFails
  <2>3. Request(t, "Prepare", p) = [txn |-> t, op |-> "Prepare", pid |-> p, cts |-> 0]
    BY DEF Request
  <2> QED BY <2>2, <2>3
<1>11. OnlyCalls(t)
  BY <1>1, <1>5, <1>8 DEF OnlyCalls
<1>12. CallTurn(t, p)
  BY <1>1, <1>2, <1>3, <1>5, <1>8, <1>9, <1>10 DEF CallTurn
<1> QED BY <1>1, <1>11, <1>12

(* Every step of a coordinator is one of those. *)
LEMMA Turns ==
    ASSUME IInv, NEW t \in Txns, Coordinate(t) \/ Crash(t)
    PROVE  Quiet /\ OnlyCalls(t) /\ Turn(t) /\ leaders' = leaders
<1> DEFINE P == Principal[t]
           Goal == Quiet /\ OnlyCalls(t) /\ Turn(t) /\ leaders' = leaders
<1>1. /\ CallsOK /\ TxnInv(t) /\ cts \in [Txns -> Nat] /\ told = [u \in Txns |-> told[u]]
      /\ {P} \subseteq Participants[t] /\ Others(t) \subseteq Participants[t] /\ ToAbort(t) \subseteq Participants[t]
  BY TwoPhaseAssumption DEF IInv, CallsOK, Others, ToAbort
<1>2. ASSUME NEW phase \in Phases, NEW Q, Q \subseteq Participants[t], Enter(t, phase, Q),
             cts' \in [Txns -> Nat], told' = [u \in Txns |-> told'[u]]
      PROVE  Entered(t, phase, Q) /\ OnlyCalls(t)
  BY <1>1, <1>2, EnterStep
<1>3. ASSUME NEW to, Exit(t, to), cts' = cts, told' = [u \in Txns |-> told'[u]]
      PROVE  Exited(t, to) /\ OnlyCalls(t)
  BY <1>1, <1>3, ExitStep
<1>4. ASSUME NEW what, Tell(t, what)
      PROVE  told' = [u \in Txns |-> told'[u]]
  BY <1>1, <1>4, ToldStep
<1>5. ASSUME NEW what, Finish(t, what), Answered(t)
      PROVE  OnlyCalls(t) /\ Turn(t)
  <2>1. Exit(t, "returned") /\ cts' = cts /\ Tell(t, what)
    BY <1>5 DEF Finish
  <2>2. Exited(t, "returned") /\ OnlyCalls(t)
    BY <1>3, <1>4, <2>1
  <2> QED BY <1>5, <2>2 DEF Turn
<1>6. ASSUME NEW what, Abort(t, what), cts' = cts, Answered(t), pc[t] \in {"prepare", "store"}
      PROVE  OnlyCalls(t) /\ Turn(t)
  <2>1. /\ Tell(t, what)
        /\ \/ Enter(t, "abort", ToAbort(t))
           \/ ToAbort(t) = {} /\ Enter(t, "abort1", {P})
    BY <1>6 DEF Abort, ToAbort
  <2>2. /\ "abort" \in Phases /\ "abort1" \in Phases /\ cts' \in [Txns -> Nat]
        /\ told' = [u \in Txns |-> told'[u]]
    BY <1>1, <1>4, <1>6, <2>1 DEF Phases
  <2>3. CASE Enter(t, "abort", ToAbort(t))
    <3>1. Entered(t, "abort", ToAbort(t)) /\ OnlyCalls(t)
      BY <1>1, <1>2, <2>2, <2>3
    <3> QED BY <1>6, <3>1 DEF Turn
  <2>4. CASE ToAbort(t) = {} /\ Enter(t, "abort1", {P})
    <3>1. Entered(t, "abort1", {P}) /\ OnlyCalls(t)
      BY <1>1, <1>2, <2>2, <2>4
    <3> QED BY <1>6, <2>4, <3>1 DEF Turn
  <2> QED BY <2>1, <2>3, <2>4
<1>7. "prepare1" \in Phases /\ "prepare" \in Phases /\ "store" \in Phases /\ "commit" \in Phases /\ "commit1" \in Phases
      /\ "abort1" \in Phases
  BY DEF Phases
<1>8. CASE Begin(t)
  <2>1. /\ pc[t] = "idle" /\ Quiet /\ cts' = cts /\ told' = told /\ leaders' = leaders
        /\ Enter(t, "prepare1", {P})
    BY <1>8 DEF Begin, Quiet
  <2>2. Entered(t, "prepare1", {P}) /\ OnlyCalls(t)
    BY <1>1, <1>2, <1>7, <2>1
  <2> QED BY <2>1, <2>2 DEF Turn
<1>9. CASE PrincipalPrepared(t)
  <2>1. pc[t] = "prepare1" /\ Quiet /\ Answered(t) /\ leaders' = leaders
    BY <1>9 DEF PrincipalPrepared, Quiet
  <2>2. CASE Finish(t, "error") \/ Finish(t, "failure")
    BY <1>5, <2>1, <2>2
  <2>3. CASE /\ cts' = [cts EXCEPT ![t] = call[t][P].ts]
             /\ Enter(t, "prepare", Others(t)) /\ UNCHANGED told
    <3>1. call[t][P].ts \in Nat
      BY <1>1 DEF CallsOK
    <3>2. cts' \in [Txns -> Nat]
      BY <1>1, <2>3, <3>1
    <3>3. Entered(t, "prepare", Others(t)) /\ OnlyCalls(t)
      BY <1>1, <1>2, <1>7, <2>3, <3>2
    <3> QED BY <2>1, <3>3 DEF Turn
  <2> QED BY <1>9, <2>2, <2>3 DEF PrincipalPrepared
<1>10. CASE OthersPrepared(t)
  <2>1. pc[t] = "prepare" /\ Quiet /\ Answered(t) /\ leaders' = leaders
    BY <1>10 DEF OthersPrepared, Quiet
  <2>2. CASE cts' = cts /\ (Abort(t, "error") \/ Abort(t, "failure"))
    BY <1>6, <2>1, <2>2
  <2>3. CASE /\ \E x \in {cts[t]} \cup {call[t][p].ts : p \in Others(t)} : cts' = [cts EXCEPT ![t] = x]
             /\ Enter(t, "store", {P}) /\ UNCHANGED told
    <3>1. \A p \in Others(t) : call[t][p].ts \in Nat
      BY <1>1 DEF CallsOK
    <3>2. cts' \in [Txns -> Nat]
      BY <1>1, <2>3, <3>1
    <3>3. Entered(t, "store", {P}) /\ OnlyCalls(t)
      BY <1>1, <1>2, <1>7, <2>3, <3>2
    <3> QED BY <2>1, <3>3 DEF Turn
  <2> QED BY <1>10, <2>2, <2>3 DEF OthersPrepared
<1>11. CASE Stored(t)
  <2>1. pc[t] = "store" /\ Quiet /\ Answered(t) /\ leaders' = leaders
    BY <1>11 DEF Stored, Quiet
  <2>2. CASE cts' = cts /\ Abort(t, "error")
    BY <1>6, <2>1, <2>2
  <2>3. CASE Finish(t, "error")
    BY <1>5, <2>1, <2>3
  <2>4. CASE cts' = cts /\ told' = told /\ Enter(t, "commit", Others(t))
    <3>1. Entered(t, "commit", Others(t)) /\ OnlyCalls(t)
      BY <1>1, <1>2, <1>7, <2>4
    <3> QED BY <2>1, <3>1 DEF Turn
  <2> QED BY <1>11, <2>2, <2>3, <2>4 DEF Stored
<1>12. CASE OthersCommitted(t) \/ PrincipalCommitted(t)
  <2>1. Quiet /\ Answered(t) /\ leaders' = leaders /\ (OthersCommitted(t) => pc[t] = "commit")
    BY <1>12 DEF OthersCommitted, PrincipalCommitted, Quiet
  <2>2. CASE \E what : Finish(t, what)
    BY <1>5, <2>1, <2>2
  <2>3. CASE /\ OthersCommitted(t) /\ \A p \in Others(t) : call[t][p].state = "Committed"
             /\ cts' = cts /\ told' = told /\ Enter(t, "commit1", {P})
    <3>1. Entered(t, "commit1", {P}) /\ OnlyCalls(t)
      BY <1>1, <1>2, <1>7, <2>3
    <3> QED BY <2>1, <2>3, <3>1 DEF Turn
  <2> QED BY <1>12, <2>2, <2>3 DEF OthersCommitted, PrincipalCommitted
<1>13. CASE OthersAborted(t) \/ PrincipalAborted(t)
  <2>1. /\ Quiet /\ cts' = cts /\ told' = told /\ leaders' = leaders
        /\ (OthersAborted(t) => pc[t] = "abort") /\ (PrincipalAborted(t) => Answered(t))
    BY <1>13 DEF OthersAborted, PrincipalAborted, Quiet
  <2>2. CASE OthersAborted(t) /\ AbortSucceeded(t) = Asked(t) /\ Enter(t, "abort1", {P})
    <3>1. Entered(t, "abort1", {P}) /\ OnlyCalls(t)
      BY <1>1, <1>2, <1>7, <2>1, <2>2
    <3> QED BY <2>1, <2>2, <3>1 DEF Turn
  <2>3. ASSUME NEW to \in {"returned", "hung"}, Exit(t, to)
        PROVE  Goal
    <3>1. Exited(t, to) /\ OnlyCalls(t)
      BY <1>1, <1>3, <2>1, <2>3
    <3> QED BY <1>13, <2>1, <3>1 DEF Turn
  <2> QED BY <1>13, <2>2, <2>3 DEF OthersAborted, PrincipalAborted
<1>14. CASE Crash(t)
  <2>1. /\ Quiet /\ leaders' = leaders /\ net' = {r \in net : r.txn # t \/ r.op \in Late}
        /\ pc' = [pc EXCEPT ![t] = "crashed"]
        /\ call' = [call EXCEPT ![t] = [p \in Participants[t] |-> NoStatus]]
    BY <1>14 DEF Crash, Quiet
  <2>2. /\ pc'[t] = "crashed" /\ call'[t] = [p \in Participants[t] |-> NoStatus]
        /\ \A u \in Txns \ {t} : pc'[u] = pc[u] /\ call'[u] = call[u]
    BY <1>1, <2>1 DEF CallsOK
  <2>3. \A u \in Txns : \A o \in Operations : Sent(u, o)' \subseteq Sent(u, o)
    BY <2>1 DEF Sent
  <2>4. "Prepare" \notin Late => Sent(t, "Prepare")' = {}
    BY <2>1 DEF Sent
  <2>5. Exited(t, "crashed") /\ OnlyCalls(t)
    BY <2>2, <2>3 DEF Exited, OnlyCalls
  <2> QED BY <2>1, <2>4, <2>5 DEF Turn
<1>15. CASE \E p \in Participants[t] : Retry(t, p)
  <2>1. PICK p \in Participants[t] : Retry(t, p)
    BY <1>15
  <2>2. Quiet /\ OnlyCalls(t) /\ CallTurn(t, p) /\ leaders' = leaders
    BY <1>1, <2>1, CallTurns
  <2> QED BY <2>2 DEF Turn
<1> QED BY <1>8, <1>9, <1>10, <1>11, <1>12, <1>13, <1>14, <1>15 DEF Coordinate

(* What a step of another transaction leaves of u. *)
Same(u) ==
    /\ \A p \in Participants[u] : m'[p].status[u] = m[p].status[u] /\ m'[p].prepared[u] = m[p].prepared[u]
    /\ pc'[u] = pc[u] /\ call'[u] = call[u]
    /\ \A op \in Operations : Sent(u, op)' \subseteq Sent(u, op)

(* Request r is delivered, seen by its transaction t: command c runs at p.  *)
Delivered(t, p, r, c) ==
    /\ r \in Sent(t, r.op) /\ r.op \in Operations /\ p = r.pid /\ c.op = r.op
    /\ CommandOK(c, t) /\ Step(t, p, c) /\ m'[p] = ApplyOne(p, c).m
    /\ pc'[t] = pc[t] /\ net' = net \ {r}
    /\ \A q \in Participants[t] \ {p} : call'[t][q] = call[t][q]
    /\ \/ call'[t][p] = call[t][p]
       \/ Awaits(t, c.op, p) /\ call'[t][p] = Answer(ApplyOne(p, c))

(* What an idle watchdog does with an update. *)
LEMMA IdleUpdate ==
    ASSUME DogsOK, WatchdogIdle, NEW t \in Txns, TakeUpdate(t)
    PROVE  (\A u \in Txns : Same(u)) /\ WatchdogIdle'
<1>1. dog = [u \in Txns |-> dog[u]] /\ leaders = 0
  BY DEF DogsOK, WatchdogIdle
<1>2. PICK x \in dog[t].updates :
        LET d == [dog[t] EXCEPT !.updates = @ \ {x}] IN
        /\ dog' = [dog EXCEPT ![t] =
              CASE d.all = "none" -> d
                [] d.all # "none" /\ x.state \in {"Prepared", "Decided"} ->
                      [d EXCEPT !.all = x.state, !.queue = @ \cup {x}]
                [] d.all # "none" /\ x.state \in {"Committed", "Aborted"} -> [d EXCEPT !.all = "none"]
                [] OTHER -> d]
        /\ UNCHANGED <<m, clock, api, net, leaders>>
  BY DEF TakeUpdate
<1> DEFINE d == [dog[t] EXCEPT !.updates = @ \ {x}]
<1>3. d.all = "none" /\ d.queue = {} /\ d.job = NoJob
  <2>1. dog[t] = [all |-> dog[t].all, queue |-> dog[t].queue, updates |-> dog[t].updates, job |-> dog[t].job]
    BY DEF DogsOK
  <2>2. d = [all |-> dog[t].all, queue |-> dog[t].queue, updates |-> dog[t].updates \ {x}, job |-> dog[t].job]
    BY <2>1, SMTT(60)
  <2> HIDE DEF d
  <2>3. d.all = dog[t].all /\ d.queue = dog[t].queue /\ d.job = dog[t].job
    BY <2>2
  <2> QED BY <2>3 DEF WatchdogIdle
<1>4. dog' = [dog EXCEPT ![t] =
              CASE d.all = "none" -> d
                [] d.all # "none" /\ x.state \in {"Prepared", "Decided"} ->
                      [d EXCEPT !.all = x.state, !.queue = @ \cup {x}]
                [] d.all # "none" /\ x.state \in {"Committed", "Aborted"} -> [d EXCEPT !.all = "none"]
                [] OTHER -> d]
  BY <1>2
<1> HIDE DEF d
<1>5. dog' = [dog EXCEPT ![t] = d]
  BY <1>3, <1>4
<1>6. dog'[t] = d /\ \A u \in Txns \ {t} : dog'[u] = dog[u]
  BY <1>1, <1>5
<1>7. m' = m /\ pc' = pc /\ call' = call /\ net' = net /\ leaders' = leaders
  BY <1>2 DEF api
<1>8. WatchdogIdle'
  BY <1>3, <1>6, <1>7 DEF WatchdogIdle
<1> QED BY <1>7, <1>8 DEF Same, Sent

(* An update that waits changes nothing else of a watchdog. *)
LEMMA MoreUpdates ==
    ASSUME NEW d, d = [all |-> d.all, queue |-> d.queue, updates |-> d.updates, job |-> d.job], NEW S
    PROVE  LET e == [d EXCEPT !.updates = @ \cup S] IN e.queue = d.queue /\ e.job = d.job /\ e.all = d.all
<1> DEFINE e == [d EXCEPT !.updates = @ \cup S]
<1>1. e = [all |-> d.all, queue |-> d.queue, updates |-> d.updates \cup S, job |-> d.job]
  BY SMTT(60)
<1> HIDE DEF e
<1>2. e.queue = d.queue /\ e.job = d.job /\ e.all = d.all
  BY <1>1
<1> QED BY <1>2 DEF e

(* A request that is delivered. *)
LEMMA DeliveredStep ==
    ASSUME IInv, WatchdogIdle, NEW r \in net, Deliver(r)
    PROVE  /\ r.txn \in Txns /\ r.pid \in Participants[r.txn]
           /\ \E c : Delivered(r.txn, r.pid, r, c)
           /\ \A u \in Txns \ {r.txn} : Same(u)
           /\ WatchdogIdle'
<1> DEFINE t == r.txn
           p == r.pid
           c == Command(t, r.op, p, r.cts, FALSE)
<1>1. /\ CallsOK /\ DogsOK /\ ManagersOK /\ t \in Txns /\ p \in Participants[t] /\ p \in Pids
      /\ r \in Sent(t, r.op) /\ r.op \in Operations /\ r.op \in OnePhaseOps /\ r.cts \in Nat
      /\ \A u \in Txns : Participants[u] \subseteq Pids
  <2>1. CallsOK /\ DogsOK /\ ManagersOK /\ RequestOK(r)
    BY DEF IInv, CallsOK
  <2>2. \A u \in Txns : Participants[u] \subseteq Pids
    BY DEF Participants
  <2>3. t \in Txns /\ p \in Participants[t] /\ r.op \in Operations /\ r.cts \in Nat
    BY <2>1 DEF RequestOK
  <2>4. r.op \in OnePhaseOps
    BY <2>3 DEF Operations, OnePhaseOps
  <2>5. r \in Sent(t, r.op)
    BY DEF Sent
  <2> QED BY <2>1, <2>2, <2>3, <2>4, <2>5
<1>2. CommandOK(c, t) /\ c.op = r.op
  <2>1. PICK release \in BOOLEAN : release = FALSE
    OBVIOUS
  <2>2. CommandOK(Command(t, r.op, p, r.cts, release), t) /\ Command(t, r.op, p, r.cts, release).op = r.op
    <3> HIDE DEF t, p
    <3> QED BY <1>1, CommandTyped, SMTT(60)
  <2> QED BY <2>1, <2>2
<1>3. /\ Execute(p, c) /\ net' = net \ {r} /\ dog' = Update(t, p, c, ApplyOne(p, c))
      /\ pc' = pc /\ cts' = cts /\ leaders' = leaders
      /\ \/ /\ Awaits(t, r.op, p)
            /\ call' = [call EXCEPT ![t] = [@ EXCEPT ![p] = Answer(ApplyOne(p, c))]]
         \/ call' = call
  BY DEF Deliver
<1> HIDE DEF c, t, p
<1>4. ManagersOK' /\ Result(p, c, m'[p]) /\ \A q \in Pids \ {p} : m'[q] = m[q]
  BY <1>1, <1>2, <1>3, Executed
<1>5. m'[p] = ApplyOne(p, c).m
  <2>1. m = [q \in Pids |-> m[q]] /\ m' = [m EXCEPT ![p] = ApplyOne(p, c).m]
    BY <1>1, <1>3 DEF ManagersOK, Execute
  <2> QED BY <1>1, <2>1
<1>6. Step(t, p, c)
  BY <1>1, <1>2, <1>3, <1>4 DEF Step, Result, CommandOK
<1>7. /\ \A u \in Txns \ {t} : call'[u] = call[u]
      /\ \A q \in Participants[t] \ {p} : call'[t][q] = call[t][q]
      /\ \/ call'[t][p] = call[t][p]
         \/ Awaits(t, r.op, p) /\ call'[t][p] = Answer(ApplyOne(p, c))
  <2>1. call = [u \in Txns |-> call[u]] /\ call[t] = [q \in Participants[t] |-> call[t][q]]
    BY <1>1 DEF CallsOK
  <2> QED BY <1>1, <1>3, <2>1
<1>8. Delivered(t, p, r, c)
  BY <1>1, <1>2, <1>3, <1>5, <1>6, <1>7 DEF Delivered, p
<1>9. ASSUME NEW u \in Txns \ {t}
      PROVE  Same(u)
  <2>1. \A q \in Participants[u] : m'[q].status[u] = m[q].status[u] /\ m'[q].prepared[u] = m[q].prepared[u]
    BY <1>1, <1>2, <1>4 DEF Result, CommandOK
  <2>2. \A op \in Operations : Sent(u, op)' \subseteq Sent(u, op)
    BY <1>3 DEF Sent
  <2> QED BY <1>3, <1>7, <2>1, <2>2 DEF Same
<1>10. WatchdogIdle'
  <2>1. /\ \A u \in Txns \ {t} : dog'[u] = dog[u]
        /\ dog'[t].queue = dog[t].queue /\ dog'[t].job = dog[t].job /\ dog'[t].all = dog[t].all
    <3>1. \/ dog' = dog
          \/ \E S : dog' = [dog EXCEPT ![t].updates = @ \cup S]
      BY <1>3 DEF Update
    <3>2. CASE dog' = dog
      BY <3>2
    <3>3. CASE \E S : dog' = [dog EXCEPT ![t].updates = @ \cup S]
      <4>1. PICK S : dog' = [dog EXCEPT ![t].updates = @ \cup S]
        BY <3>3
      <4>2. /\ dog = [u \in Txns |-> dog[u]]
            /\ dog[t] = [all |-> dog[t].all, queue |-> dog[t].queue, updates |-> dog[t].updates, job |-> dog[t].job]
        BY <1>1 DEF DogsOK
      <4>3. \A u \in Txns \ {t} : dog'[u] = dog[u]
        BY <1>1, <4>1, <4>2
      <4>4. dog'[t] = [dog[t] EXCEPT !.updates = @ \cup S]
        BY <1>1, <4>1, <4>2
      <4>5. dog'[t].queue = dog[t].queue /\ dog'[t].job = dog[t].job /\ dog'[t].all = dog[t].all
        BY <4>2, <4>4, MoreUpdates
      <4> QED BY <4>3, <4>5
    <3> QED BY <3>1, <3>2, <3>3
  <2> QED BY <1>1, <1>3, <2>1 DEF WatchdogIdle
<1> QED BY <1>1, <1>8, <1>9, <1>10 DEF t, p

(* The steps there are without a change of leader. *)
Quietly(t) == Quiet /\ Turn(t) /\ \A u \in Txns \ {t} : Same(u)

(* Every step is one of a coordinator, the delivery of a request or of no  *)
(* concern to a transaction; the watchdog stays idle.                      *)
LEMMA IdleSteps ==
    ASSUME IInv, WatchdogIdle, MaxLeaders = 0, [Next]_vars
    PROVE  /\ WatchdogIdle'
           /\ \/ \A u \in Txns : Same(u)
              \/ \E t \in Txns : Quietly(t)
              \/ \E r \in net : /\ r.txn \in Txns /\ r.pid \in Participants[r.txn]
                                /\ \E c : Delivered(r.txn, r.pid, r, c)
                                /\ \A u \in Txns \ {r.txn} : Same(u)
<1>1. ASSUME NEW t \in Txns, Quiet, OnlyCalls(t), Turn(t), leaders' = leaders
      PROVE  WatchdogIdle' /\ Quietly(t)
  <2>1. WatchdogIdle'
    BY <1>1 DEF WatchdogIdle, Quiet
  <2> QED BY <1>1, <2>1 DEF Quietly, Same, Quiet, OnlyCalls
<1>2. CASE UNCHANGED vars
  <2>1. m' = m /\ pc' = pc /\ call' = call /\ net' = net /\ dog' = dog /\ leaders' = leaders
    BY <1>2 DEF vars, api
  <2> QED BY <2>1 DEF WatchdogIdle, Same, Sent
<1>3. ASSUME NEW t \in Txns, Coordinate(t) \/ Crash(t)
      PROVE  WatchdogIdle' /\ Quietly(t)
  BY <1>1, <1>3, Turns
<1>4. ASSUME NEW t \in Txns, NEW p \in Participants[t], Resend(t, p) \/ CallFails(t, p)
      PROVE  WatchdogIdle' /\ Quietly(t)
  <2>1. Quiet /\ OnlyCalls(t) /\ CallTurn(t, p) /\ leaders' = leaders
    BY <1>4, CallTurns DEF IInv
  <2>2. Turn(t)
    BY <2>1 DEF Turn
  <2> QED BY <1>1, <2>1, <2>2
<1>5. ASSUME NEW t \in Txns, Watch(t)
      PROVE  TakeUpdate(t)
  <2>1. dog[t].queue = {} /\ dog[t].job.phase = "none"
    BY SMTT(60) DEF WatchdogIdle, NoJob
  <2> QED BY <1>5, <2>1 DEF Watch, Expire, DogMark, DogRelease, DogCommit, DogCall
<1>6. ASSUME NEW p \in Pids, ChangeLeader(p)
      PROVE  FALSE
  <2>1. leaders = 0 /\ leaders < MaxLeaders
    BY <1>6 DEF ChangeLeader, WatchdogIdle
  <2> QED BY <2>1, SMTT(60)
<1>7. DogsOK
  BY DEF IInv
<1>8. ASSUME NEW r \in net, Deliver(r)
      PROVE  /\ r.txn \in Txns /\ r.pid \in Participants[r.txn]
             /\ \E c : Delivered(r.txn, r.pid, r, c)
             /\ \A u \in Txns \ {r.txn} : Same(u)
             /\ WatchdogIdle'
  BY <1>8, DeliveredStep
<1>9. ASSUME NEW t \in Txns, Watch(t)
      PROVE  (\A u \in Txns : Same(u)) /\ WatchdogIdle'
  BY <1>5, <1>7, <1>9, IdleUpdate
<1> QED BY <1>2, <1>3, <1>4, <1>6, <1>8, <1>9 DEF Next

AllCommitted(t) == \A p \in Others(t) : State(t, p) = "Committed"

(* The principal is asked to commit when all others have committed. *)
CommitsLast(t) ==
    /\ State(t, Principal[t]) = "Committed" => AllCommitted(t)
    /\ \A r \in Sent(t, "Commit") : r.pid = Principal[t] => AllCommitted(t)
    /\ pc[t] = "commit" => call[t][Principal[t]] # Waiting

(* Statuses that are told apart by their state. *)
LEMMA StatusStates ==
    /\ Waiting.state = "waiting" /\ NoStatus.state = "none" /\ \A s : Status(s, 0).state = s
    /\ Waiting # NoStatus /\ Waiting # Status("error", 0)
<1>1. \A s : Status(s, 0).state = s
  BY DEF Status
<1>2. Waiting.state = "waiting" /\ NoStatus.state = "none" /\ Status("error", 0).state = "error"
  BY <1>1 DEF Waiting, NoStatus
<1> QED BY <1>1, <1>2

(* It stays so for the transactions that a step leaves alone. *)
LEMMA SameCommits ==
    ASSUME NEW u \in Txns, CommitsLast(u), Same(u)
    PROVE  CommitsLast(u)'
<1>1. Principal[u] \in Participants[u] /\ Others(u) \subseteq Participants[u] /\ "Commit" \in Operations
  BY TwoPhaseAssumption DEF Others, Operations
<1>2. \A p \in Participants[u] : State(u, p)' = State(u, p)
  BY DEF Same, State
<1>3. pc'[u] = pc[u] /\ call'[u] = call[u] /\ Sent(u, "Commit")' \subseteq Sent(u, "Commit")
  BY <1>1 DEF Same
<1> QED BY <1>1, <1>2, <1>3 DEF CommitsLast, AllCommitted

(* The coordinator asks the principal last. *)
LEMMA TurnCommits ==
    ASSUME NEW t \in Txns, TxnInv(t), CommitsLast(t), Quiet, Turn(t)
    PROVE  CommitsLast(t)'
<1> DEFINE P == Principal[t]
<1>1. /\ \A p : State(t, p)' = State(t, p)
      /\ P \in Participants[t] /\ \A p \in Others(t) : p \in Participants[t] /\ p # P
  BY QuietFacts
<1>2. AllCommitted(t)' = AllCommitted(t)
  BY <1>1 DEF AllCommitted
<1>3. ASSUME Sent(t, "Commit")' \subseteq Sent(t, "Commit"), pc'[t] = "commit" => call'[t][P] # Waiting
      PROVE  CommitsLast(t)'
  BY <1>1, <1>2, <1>3 DEF CommitsLast
<1>4. "Commit" \in Operations /\ Waiting # NoStatus /\ Waiting # Status("error", 0)
  BY StatusStates DEF Operations
<1>5. ASSUME NEW phase \in Phases \ {"commit", "commit1"}, NEW Q, Entered(t, phase, Q)
      PROVE  CommitsLast(t)'
  <2>1. PhaseOp[phase] # "Commit" /\ phase # "commit"
    BY <1>5, PhaseOps DEF Phases
  <2>2. pc'[t] = phase /\ Sent(t, "Commit")' \subseteq Sent(t, "Commit")
    BY <1>4, <1>5, <2>1 DEF Entered
  <2> QED BY <1>3, <2>1, <2>2
<1>6. CASE Entered(t, "commit", Others(t))
  <2>1. /\ pc'[t] = "commit" /\ call'[t][P] = NoStatus
        /\ \A r \in Sent(t, "Commit")' : r \in Sent(t, "Commit") \/ r.pid \in Others(t)
    BY <1>1, <1>6, PhaseOps DEF Entered
  <2> QED BY <1>1, <1>2, <1>4, <2>1 DEF CommitsLast
<1>7. CASE pc[t] = "commit" /\ (\A p \in Others(t) : call[t][p].state = "Committed") /\ Entered(t, "commit1", {P})
  <2>1. AllCommitted(t)
    BY <1>1, <1>7 DEF TxnInv, AnswersTrue, AllCommitted
  <2>2. pc'[t] = "commit1"
    BY <1>7 DEF Entered
  <2> QED BY <1>1, <1>2, <2>1, <2>2 DEF CommitsLast
<1>8. ASSUME NEW to \in {"returned", "hung", "crashed"}, Exited(t, to)
      PROVE  CommitsLast(t)'
  <2>1. pc'[t] = to /\ Sent(t, "Commit")' \subseteq Sent(t, "Commit")
    BY <1>4, <1>8 DEF Exited
  <2> QED BY <1>3, <1>8, <2>1
<1>9. ASSUME NEW p \in Participants[t], CallTurn(t, p)
      PROVE  CommitsLast(t)'
  <2>1. pc'[t] = pc[t] /\ pc[t] \in Phases
    BY <1>9 DEF CallTurn
  <2>2. ASSUME pc[t] = "commit"
        PROVE  call'[t][P] # Waiting /\ (call'[t][p] = Waiting => p # P)
    <3>1. call[t][P] # Waiting
      BY <2>2 DEF CommitsLast
    <3>2. p = P => call'[t][p] = Status("error", 0)
      BY <1>9, <2>2, <3>1 DEF CallTurn
    <3>3. p # P => call'[t][P] = call[t][P]
      BY <1>1, <1>9 DEF CallTurn
    <3> QED BY <1>4, <3>1, <3>2, <3>3
  <2>3. CASE pc[t] \notin {"commit", "commit1"}
    <3>1. PhaseOp[pc[t]] # "Commit"
      BY <2>1, <2>3, PhaseOps DEF Phases
    <3>2. Sent(t, "Commit")' \subseteq Sent(t, "Commit")
      BY <1>4, <1>9, <3>1 DEF CallTurn
    <3> QED BY <1>3, <2>1, <2>3, <3>2
  <2>4. CASE pc[t] = "commit"
    <3>1. \A r \in Sent(t, "Commit")' : r \in Sent(t, "Commit") \/ (r.pid = p /\ call'[t][p] = Waiting)
      BY <1>9, <2>4, PhaseOps DEF CallTurn
    <3> QED BY <1>1, <1>2, <2>2, <2>4, <3>1 DEF CommitsLast
  <2>5. CASE pc[t] = "commit1"
    <3>1. AllCommitted(t)
      BY <2>5 DEF TxnInv, AnswersTrue, AllCommitted
    <3>2. pc'[t] # "commit"
      BY <2>1, <2>5
    <3> QED BY <1>2, <3>1, <3>2 DEF CommitsLast
  <2> QED BY <2>3, <2>4, <2>5
<1>10. /\ "prepare1" \in Phases \ {"commit", "commit1"} /\ "prepare" \in Phases \ {"commit", "commit1"}
       /\ "store" \in Phases \ {"commit", "commit1"} /\ "abort" \in Phases \ {"commit", "commit1"}
       /\ "abort1" \in Phases \ {"commit", "commit1"}
  BY DEF Phases
<1> QED BY <1>5, <1>6, <1>7, <1>8, <1>9, <1>10 DEF Turn

(* A participant that committed stays so, and only a request commits it. *)
LEMMA DeliveryCommits ==
    ASSUME NEW t \in Txns, NEW p \in Participants[t], NEW r, NEW c, CommitsLast(t), Delivered(t, p, r, c)
    PROVE  CommitsLast(t)'
<1> DEFINE P == Principal[t]
<1>1. P \in Participants[t] /\ \A q \in Others(t) : q \in Participants[t]
  BY TwoPhaseAssumption DEF Others
<1>2. /\ Moves(m[p], c, m[p].status[t], m[p].prepared[t], m'[p].status[t], m'[p].prepared[t])
      /\ \A q \in Participants[t] \ {p} : State(t, q)' = State(t, q)
  BY DEF Delivered, Step, State
<1>3. /\ State(t, p) = "Committed" => State(t, p)' = "Committed"
      /\ State(t, p)' = "Committed" /\ State(t, p) # "Committed" => c.op \in {"Commit", "Autocommit"}
  BY <1>2 DEF Moves, State
<1>4. AllCommitted(t) => AllCommitted(t)'
  BY <1>1, <1>2, <1>3 DEF AllCommitted
<1>5. /\ r \in Sent(t, r.op) /\ p = r.pid /\ c.op = r.op /\ r.op \in Operations
      /\ Sent(t, "Commit")' \subseteq Sent(t, "Commit") /\ pc'[t] = pc[t]
  BY DEF Delivered, Sent
<1>6. State(t, P)' = "Committed" => AllCommitted(t)'
  <2>1. CASE State(t, P) = "Committed"
    BY <1>4, <2>1 DEF CommitsLast
  <2>2. CASE State(t, P) # "Committed" /\ State(t, P)' = "Committed"
    <3>1. p = P /\ c.op \in {"Commit", "Autocommit"}
      BY <1>1, <1>2, <1>3, <2>2
    <3>2. r \in Sent(t, "Commit") /\ r.pid = P
      BY <1>5, <3>1 DEF Operations
    <3> QED BY <1>4, <3>2 DEF CommitsLast
  <2> QED BY <2>1, <2>2
<1>7. ASSUME pc'[t] = "commit"
      PROVE  call'[t][P] # Waiting
  <2>1. call[t][P] # Waiting
    BY <1>5, <1>7 DEF CommitsLast
  <2>2. call'[t][P] = call[t][P]
    BY <1>1, <2>1 DEF Delivered, Awaits
  <2> QED BY <2>1, <2>2
<1> QED BY <1>4, <1>5, <1>6, <1>7 DEF CommitsLast

LastInv == IInv /\ WatchdogIdle /\ \A t \in Txns : CommitsLast(t)

(* Every step keeps it. *)
LEMMA LastNext ==
    ASSUME DecisionAnswered, MaxLeaders = 0, LastInv, [Next]_vars
    PROVE  LastInv'
<1>1. IInv /\ WatchdogIdle /\ \A t \in Txns : CommitsLast(t) /\ TxnInv(t)
  BY DEF LastInv, IInv
<1>2. IInv'
  BY <1>1, NextInv
<1>3. /\ WatchdogIdle'
      /\ \/ \A u \in Txns : Same(u)
         \/ \E t \in Txns : Quietly(t)
         \/ \E r \in net : /\ r.txn \in Txns /\ r.pid \in Participants[r.txn]
                           /\ \E c : Delivered(r.txn, r.pid, r, c)
                           /\ \A u \in Txns \ {r.txn} : Same(u)
  BY <1>1, IdleSteps
<1>4. ASSUME NEW t \in Txns, Quietly(t), NEW u \in Txns
      PROVE  CommitsLast(u)'
  BY <1>1, <1>4, TurnCommits, SameCommits DEF Quietly
<1>5. ASSUME NEW r \in net, r.txn \in Txns, r.pid \in Participants[r.txn], NEW c, Delivered(r.txn, r.pid, r, c),
             \A u \in Txns \ {r.txn} : Same(u), NEW u \in Txns
      PROVE  CommitsLast(u)'
  BY <1>1, <1>5, DeliveryCommits, SameCommits
<1>6. \A u \in Txns : CommitsLast(u)'
  BY <1>1, <1>3, <1>4, <1>5, SameCommits
<1> QED BY <1>2, <1>3, <1>6 DEF LastInv

(* It holds at first. *)
LEMMA LastInit ==
    ASSUME Init
    PROVE  LastInv
<1>1. IInv
  BY InitInv
<1>2. WatchdogIdle
  BY DEF Init, WatchdogIdle, NoDog
<1>3. ASSUME NEW t \in Txns
      PROVE  CommitsLast(t)
  <2>1. Principal[t] \in Pids /\ pc[t] = "idle" /\ net = {}
    BY TwoPhaseAssumption DEF Init, Participants
  <2>2. State(t, Principal[t]) = "none"
    <3>1. m = [p \in Pids |-> NewManager(Txns)]
      BY DEF Init
    <3>2. NewManager(Txns).status[t] = NoStatus
      BY DEF NewManager
    <3> QED BY <2>1, <3>1, <3>2, StatusStates DEF State
  <2> QED BY <2>1, <2>2 DEF CommitsLast, Sent
<1> QED BY <1>1, <1>2, <1>3 DEF LastInv

(* The principal is the last to commit (processor2PC.commit), whatever is   *)
(* lost, late or crashes, while its leader stays: the watchdog of a new one *)
(* can learn of a decision without its participants.                        *)
THEOREM PrincipalCommitsLast ==
    DecisionAnswered /\ MaxLeaders = 0 => (Spec => []CommittedLast)
<1>1. ASSUME DecisionAnswered, MaxLeaders = 0
      PROVE  Spec => []CommittedLast
  <2>1. Init => LastInv
    BY LastInit
  <2>2. LastInv /\ [Next]_vars => LastInv'
    BY <1>1, LastNext
  <2>3. LastInv => CommittedLast
    BY DEF LastInv, CommitsLast, AllCommitted, CommittedLast
  <2> QED BY <2>1, <2>2, <2>3, PTL DEF Spec
<1> QED BY <1>1

-----------------------------------------------------------------------------
(* The same for aborts. *)

(* The entries of a transaction that no watchdog marks. *)
EntryKept(s, q) ==
    /\ s.state \in {"none", "Prepared", "Decided", "Committed", "Aborted"}
    /\ s.state \in {"none", "Aborted"} => q.released
    /\ s.state # "none" => q.present

(* p has nothing of t to abort. *)
Out(t, p) == State(t, p) \in {"none", "Aborted"}

AllOut(t) == \A p \in Others(t) : Out(t, p)

(* A Prepare request is one that the coordinator waits for. *)
PreparesAwaited(t) ==
    \A r \in Sent(t, "Prepare") :
        pc[t] \in {"prepare1", "prepare"} /\ call[t][r.pid] = Waiting

(* The principal is asked to abort when nobody else is prepared. *)
AbortsLast(t) ==
    /\ pc[t] \in {"prepare", "store"} => \A p \in Others(t) : IsFinal(call[t][p].state) => Out(t, p)
    /\ pc[t] = "abort" =>
          /\ \A p \in Others(t) : call[t][p].state \in States \cup {"NotFound"} => Out(t, p)
          /\ call[t][Principal[t]] # Waiting
    /\ pc[t] = "abort1" => AllOut(t)
    /\ \A r \in Sent(t, "Abort") : r.pid = Principal[t] => AllOut(t)
    /\ State(t, Principal[t]) = "Aborted" => AllOut(t) /\ pc[t] \in Over

(* The fields of what a command returns. *)
LEMMA ReturnFields ==
    /\ \A n, s : Return(n, s).m = n /\ Return(n, s).err = "none" /\ Return(n, s).status = s
    /\ \A ts, st : newStatus(ts, st).state = st
BY DEF Return, Applied, newStatus, Status

(* What one command leaves of its transaction's entries. *)
LEMMA OneEntry ==
    ASSUME ManagersOK, NEW p \in Pids, NEW t \in Txns, NEW c, CommandOK(c, t)
    PROVE  LET r == Apply(m[p], p, c)
               a == ApplyOne(p, c)
           IN  /\ a.m.status = r.m.status /\ a.err = r.err /\ a.status = r.status
               /\ \E s, q : /\ a.m.status[t] = s /\ a.m.prepared[t] \in {q, Released(q)} /\ IsPrepared(q)
                            /\ Effect(m[p], c, s, q, r.writes, r.done)
<1> DEFINE r == Apply(m[p], p, c)
           a == ApplyOne(p, c)
           n2 == FinishBatch(r.m, r.writes, r.done, r.m.maxTs)
<1>1. Shape(m[p], Txns) /\ c.id = t /\ c.id \in Txns /\ c.op \in OnePhaseOps /\ c.op \in CommandOps
  BY DEF ManagersOK, CommandOK, OnePhaseOps, CommandOps
<1>2. IsResult(r) /\ \E s, q : Touched(m[p], r.m, Txns, c.id, s, q) /\ Effect(m[p], c, s, q, r.writes, r.done)
  BY <1>1, ApplyResult, ApplyEffects
<1>3. a = [r EXCEPT !.m = n2]
  BY DEF ApplyOne
<1> HIDE DEF r, a
<1>4. PICK s, q : Touched(m[p], r.m, Txns, c.id, s, q) /\ Effect(m[p], c, s, q, r.writes, r.done)
  BY <1>2
<1>5. Shape(r.m, Txns) /\ r.m.status[t] = s /\ r.m.prepared[t] = q
  BY <1>1, <1>4 DEF Touched
<1>6. Finished(r.m, n2, Txns, r.done, r.m.maxTs)
  BY <1>5, FinishBatchKeeps
<1> HIDE DEF n2
<1>7. a.m = n2 /\ a.err = r.err /\ a.status = r.status
  <2>1. r = [m |-> r.m, err |-> r.err, status |-> r.status, writes |-> r.writes, done |-> r.done]
    BY <1>2 DEF IsResult
  <2> QED BY <1>3, <2>1
<1>8. n2.status = r.m.status /\ n2.prepared[t] \in {q, Released(q)}
  BY <1>5, <1>6 DEF Finished
<1>9. IsPrepared(q)
  BY <1>5, ShapeOfPrepared
<1>10. a.m.status = r.m.status /\ a.m.status[t] = s /\ a.m.prepared[t] \in {q, Released(q)}
  BY <1>5, <1>7, <1>8
<1> QED BY <1>4, <1>7, <1>9, <1>10 DEF r, a

(* No request but MarkTimedout makes a transaction time out. *)
LEMMA EntryKeeps ==
    ASSUME ManagersOK, NEW p \in Pids, NEW t \in Txns, NEW c, CommandOK(c, t), c.op \in Operations,
           EntryKept(m[p].status[t], m[p].prepared[t])
    PROVE  EntryKept(ApplyOne(p, c).m.status[t], ApplyOne(p, c).m.prepared[t])
<1> DEFINE n2 == ApplyOne(p, c).m
           s0 == m[p].status[t]
           q0 == m[p].prepared[t]
<1>1. PICK s, q, W, D : /\ n2.status[t] = s /\ n2.prepared[t] \in {q, Released(q)} /\ IsPrepared(q)
                        /\ Effect(m[p], c, s, q, W, D)
  BY OneEntry
<1>2. c.id = t /\ Moves(m[p], c, s0, q0, n2.status[t], n2.prepared[t]) /\ IsPrepared(q0)
  <2>1. Result(p, c, n2) /\ c.id = t
    BY OneResult DEF CommandOK
  <2>2. Shape(m[p], Txns)
    BY DEF ManagersOK
  <2>3. IsPrepared(q0)
    BY <2>2, ShapeOfPrepared
  <2> QED BY <2>1, <2>3 DEF Result
<1> HIDE DEF n2
<1>3. s.state \in {"none", "Prepared", "Decided", "Committed", "Aborted"}
  BY <1>1, <1>2 DEF Moves, EntryKept, Operations
<1>4. Released(q).released = TRUE /\ Released(q).present = q.present
  BY <1>1, ReleasedFields
<1>5. Released(q0).released = TRUE /\ Released(q0).present = q0.present
  BY <1>2, ReleasedFields
<1>6. [q0 EXCEPT !.decision = c.cts].present = q0.present
  BY <1>2, DecidedFields
<1>7. NewPrepared(c).present
  BY DEF NewPrepared
<1>8. s0.state \in {"none", "Prepared", "Decided", "Committed", "Aborted"}
  BY DEF EntryKept
<1>9. s.state # "none" => q.present
  <2>1. s.state # "none" /\ s0.state = "none" => q = NewPrepared(c)
    BY <1>1, <1>2 DEF Effect, Operations
  <2>2. s0.state # "none" => q \in {q0, Released(q0), [q0 EXCEPT !.decision = c.cts]}
    BY <1>1, <1>2, <1>8 DEF Effect
  <2>3. s0.state # "none" => q0.present
    BY DEF EntryKept
  <2> QED BY <1>5, <1>6, <1>7, <2>1, <2>2, <2>3
<1>10. s.state \in {"none", "Aborted"} => q.released
  <2>1. s.state \in {"none", "Aborted"} => q = Released(q0) \/ (s = s0 /\ q = q0)
    BY <1>1, <1>2, <1>8 DEF Effect
  <2> QED BY <1>5, <2>1 DEF EntryKept
<1>11. EntryKept(s, n2.prepared[t])
  BY <1>1, <1>3, <1>4, <1>9, <1>10 DEF EntryKept
<1> QED BY <1>1, <1>11 DEF n2

(* A final answer to Prepare comes from a manager that has nothing of the   *)
(* transaction.                                                             *)
LEMMA PrepareAnswer ==
    ASSUME ManagersOK, NEW p \in Pids, NEW t \in Txns, NEW c, CommandOK(c, t), c.op = "Prepare",
           EntryKept(m[p].status[t], m[p].prepared[t]), m[p].status[t].state # "Committed",
           IsFinal(Answer(ApplyOne(p, c)).state)
    PROVE  ApplyOne(p, c).m.status[t].state = "none"
<1> DEFINE n == m[p]
           r == Apply(n, p, c)
           a == ApplyOne(p, c)
<1>1. a.m.status = r.m.status /\ a.err = r.err /\ a.status = r.status /\ c.id = t
  BY OneEntry DEF CommandOK
<1>2. r = applyPrepare(n, c)
  BY DEF Apply
<1>3. n.status[t].state \in {"none", "Prepared", "Decided", "Aborted"}
  BY DEF EntryKept
<1> HIDE DEF a, n
<1>4. Answer(a) = IF r.err = "none" THEN r.status ELSE Status(r.err, 0)
  BY <1>1 DEF Answer
<1>5. IsFinal(Answer(a).state)
  BY DEF a
<1>6. CASE n.status[t].state \in {"Prepared", "Decided", "Aborted"}
  <2>1. Admission(n, c) = n.status[t].state
    BY <1>1, <1>6 DEF Admission
  <2>2. CASE n.status[t].state = "Prepared"
    <3>1. r = Return(n, n.status[t])
      BY <1>1, <1>2, <2>1, <2>2 DEF applyPrepare
    <3>2. r.err = "none" /\ r.status = n.status[t]
      BY <3>1, ReturnFields, SMTT(60)
    <3> QED BY <1>4, <1>5, <2>2, <3>2 DEF IsFinal, FinalStates
  <2>3. CASE n.status[t].state \in {"Decided", "Aborted"}
    <3>1. r = Error(n, "FailedPrecondition")
      BY <1>1, <1>2, <2>1, <2>3 DEF applyPrepare
    <3>2. r.err = "FailedPrecondition"
      BY <3>1 DEF Error, Return, Applied
    <3>3. Answer(a).state = "FailedPrecondition"
      BY <1>4, <3>2, StatusStates
    <3> QED BY <1>5, <3>3 DEF IsFinal, FinalStates
  <2> QED BY <1>6, <2>2, <2>3
<1>7. CASE n.status[t].state = "none"
  <2>1. CASE Admission(n, c) = "admit"
    <3>1. r.err = "none" /\ r.status = newStatus(c.ts, "Prepared")
      BY <1>2, <2>1, SMTT(60) DEF applyPrepare, Return, Applied
    <3>2. Answer(a) = newStatus(c.ts, "Prepared")
      BY <1>4, <3>1
    <3>3. newStatus(c.ts, "Prepared").state = "Prepared"
      BY ReturnFields
    <3> QED BY <1>5, <3>2, <3>3 DEF IsFinal, FinalStates
  <2>2. CASE Admission(n, c) \in {"LockFailed", "Invalid"}
    <3>1. r.m = n
      BY <1>2, <2>2, SMTT(60) DEF applyPrepare, Return, Applied
    <3> QED BY <1>1, <1>7, <3>1 DEF a
  <2> QED BY <1>1, <1>7, <2>1, <2>2 DEF Admission
<1> QED BY <1>3, <1>6, <1>7 DEF n

(* An answer to Abort that is no failure comes from a manager that has      *)
(* nothing of the transaction any more.                                     *)
LEMMA AbortAnswer ==
    ASSUME ManagersOK, NEW p \in Pids, NEW t \in Txns, NEW c, CommandOK(c, t), c.op = "Abort",
           EntryKept(m[p].status[t], m[p].prepared[t]),
           Answer(ApplyOne(p, c)).state \in States \cup {"NotFound"}
    PROVE  ApplyOne(p, c).m.status[t].state \in {"none", "Aborted"}
<1> DEFINE n == m[p]
           r == Apply(n, p, c)
           a == ApplyOne(p, c)
<1>1. a.m.status = r.m.status /\ a.err = r.err /\ a.status = r.status /\ c.id = t /\ Shape(n, Txns)
  BY OneEntry DEF CommandOK, ManagersOK
<1>2. r = applyAbort(n, c)
  BY DEF Apply
<1>3. /\ n.status[t].state \in {"none", "Prepared", "Decided", "Committed", "Aborted"}
      /\ n.status[t].state # "none" => n.prepared[t].present
  BY DEF EntryKept
<1> HIDE DEF a, n
<1>4. Answer(a) = IF r.err = "none" THEN r.status ELSE Status(r.err, 0)
  BY <1>1 DEF Answer
<1>5. Answer(a).state \in States \cup {"NotFound"}
  BY DEF a
<1>6. Found(n, c) = n.status[t].state
  BY <1>1, <1>3 DEF Found
<1>7. CASE n.status[t].state \in {"none", "Aborted"}
  <2>1. r.m = n
    BY <1>2, <1>6, <1>7, SMTT(60) DEF applyAbort, Error, Return, Applied
  <2> QED BY <1>1, <1>7, <2>1 DEF a
<1>8. CASE n.status[t].state = "Prepared"
  <2> DEFINE s == newStatus(c.ts, "Aborted")
             n1 == SetStatus(releaseLocks(n, t), t, s)
  <2>1. r = Return(n1, s)
    BY <1>1, <1>2, <1>6, <1>8 DEF applyAbort
  <2>2. Updated(n, n1, t, s, Released(n.prepared[t]))
    BY <1>1, ReleaseUpdates
  <2>3. n1.status[t] = s
    BY <1>1, <2>2, UpdatedEntry
  <2>4. s.state = "Aborted"
    BY DEF newStatus, Status
  <2> HIDE DEF n1, s
  <2>5. r.m = n1
    BY <2>1, ReturnFields
  <2> QED BY <1>1, <2>3, <2>4, <2>5 DEF a
<1>9. CASE n.status[t].state \in {"Decided", "Committed"}
  <2>1. r = Error(n, "FailedPrecondition")
    BY <1>2, <1>6, <1>9 DEF applyAbort
  <2>2. r.err = "FailedPrecondition"
    BY <2>1 DEF Error, Return, Applied
  <2>3. Answer(a).state = "FailedPrecondition"
    BY <1>4, <2>2, StatusStates
  <2> QED BY <1>5, <2>3 DEF States, FinalStates
<1> QED BY <1>3, <1>7, <1>8, <1>9 DEF a

(* Two requests to prepare the same transaction at the same partition are   *)
(* the same request.                                                        *)
PlainPrepares == \A r \in net : r.op = "Prepare" => r.cts = 0

(* Every step keeps it. *)
LEMMA PreparesPlain ==
    ASSUME PlainPrepares, [Next]_vars
    PROVE  PlainPrepares'
<1> DEFINE Fresh == \A r \in net' : r \in net \/ \E t, op, p : r = Request(t, op, p)
<1>1. \A t, op, p : Request(t, op, p).op = "Prepare" => Request(t, op, p).cts = 0
  BY DEF Request
<1>2. ASSUME net' \subseteq net
      PROVE  Fresh
  BY <1>2
<1>3. ASSUME NEW t, NEW phase, NEW P, Enter(t, phase, P)
      PROVE  Fresh
  BY <1>3 DEF Enter
<1>4. ASSUME NEW t, NEW what, Abort(t, what)
      PROVE  Fresh
  BY <1>3, <1>4 DEF Abort
<1>5. ASSUME NEW t, NEW to, Exit(t, to)
      PROVE  net' \subseteq net
  BY <1>5 DEF Exit
<1>6. ASSUME NEW t, Coordinate(t)
      PROVE  Fresh
  <2>1. CASE \E p \in Participants[t] : Retry(t, p)
    BY <2>1 DEF Retry
  <2>2. CASE Begin(t) \/ PrincipalPrepared(t) \/ OthersPrepared(t) \/ Stored(t)
    <3> HIDE DEF Fresh
    <3> QED BY <1>2, <1>3, <1>4, <1>5, <2>2
              DEF Begin, PrincipalPrepared, OthersPrepared, Stored, Finish
  <2>3. CASE OthersCommitted(t) \/ PrincipalCommitted(t) \/ OthersAborted(t) \/ PrincipalAborted(t)
    <3> HIDE DEF Fresh
    <3> QED BY <1>2, <1>3, <1>5, <2>3
              DEF OthersCommitted, PrincipalCommitted, OthersAborted, PrincipalAborted, Finish
  <2> QED BY <1>6, <2>1, <2>2, <2>3 DEF Coordinate
<1>7. ASSUME NEW t, Watch(t)
      PROVE  net' \subseteq net
  BY <1>7 DEF Watch, TakeUpdate, Expire, DogMark, DogRelease, DogCommit, DogCall
<1>8. ASSUME NEW t, NEW p, Resend(t, p) \/ CallFails(t, p)
      PROVE  Fresh
  <2>1. CASE Resend(t, p)
    BY <2>1 DEF Resend
  <2>2. CASE CallFails(t, p)
    <3>1. net' \subseteq net
      BY <2>2 DEF CallFails
    <3> QED BY <1>2, <3>1
  <2> QED BY <1>8, <2>1, <2>2
<1>9. /\ \A t : Crash(t) => net' \subseteq net
      /\ \A r : Deliver(r) => net' \subseteq net
      /\ \A p : ChangeLeader(p) => net' \subseteq net
  BY DEF Crash, Deliver, ChangeLeader
<1>10. UNCHANGED vars => net' \subseteq net
  BY DEF vars
<1>11. Fresh
  <2> HIDE DEF Fresh
  <2>1. CASE UNCHANGED vars
    BY <1>2, <1>10, <2>1
  <2>2. CASE Next
    <3>1. ASSUME NEW t \in Txns, Coordinate(t) \/ Crash(t) \/ Watch(t)
          PROVE  Fresh
      BY <1>2, <1>6, <1>7, <1>9, <3>1
    <3>2. ASSUME NEW p \in Pids, ChangeLeader(p)
          PROVE  Fresh
      BY <1>2, <1>9, <3>2
    <3>3. ASSUME NEW r \in net, Deliver(r)
          PROVE  Fresh
      BY <1>2, <1>9, <3>3
    <3> QED BY <1>8, <2>2, <3>1, <3>2, <3>3 DEF Next
  <2> QED BY <2>1, <2>2
<1>12. SUFFICES ASSUME NEW r \in net', r.op = "Prepare"
                PROVE  r.cts = 0
  BY DEF PlainPrepares
<1>13. CASE r \in net
  BY <1>12, <1>13 DEF PlainPrepares
<1>14. CASE r \notin net
  <2>1. PICK t, op, p : r = Request(t, op, p)
    BY <1>11, <1>14
  <2> HIDE DEF Fresh
  <2> QED BY <1>1, <1>12, <2>1
<1> QED BY <1>13, <1>14

(* There is one Prepare a transaction may send to a participant. *)
LEMMA OnePrepare ==
    ASSUME CallsOK, PlainPrepares, NEW t \in Txns, NEW r \in Sent(t, "Prepare")
    PROVE  /\ r = [txn |-> t, op |-> "Prepare", pid |-> r.pid, cts |-> 0]
           /\ r.pid \in Participants[t]
BY DEF Sent, CallsOK, RequestOK, PlainPrepares

(* A coordinator goes on when no Prepare is on its way. *)
LEMMA TurnAwaits ==
    ASSUME CallsOK, PlainPrepares, "Prepare" \notin Late, NEW t \in Txns, PreparesAwaited(t), Turn(t)
    PROVE  PreparesAwaited(t)'
<1> DEFINE S == Sent(t, "Prepare")
<1>1. Answered(t) \/ pc[t] \notin {"prepare1", "prepare"} => S = {}
  BY OnePrepare DEF Answered, PreparesAwaited
<1>2. "Prepare" \in Operations /\ {Principal[t]} \subseteq Participants[t] /\ Others(t) \subseteq Participants[t]
      /\ ToAbort(t) \subseteq Participants[t]
  BY TwoPhaseAssumption DEF Operations, Others, ToAbort
<1>3. ASSUME NEW phase \in Phases, NEW Q, Q \subseteq Participants[t], Entered(t, phase, Q), S = {}
      PROVE  PreparesAwaited(t)'
  <2>1. PhaseOp[phase] = "Prepare" => phase \in {"prepare1", "prepare"}
    BY PhaseOps DEF Phases
  <2>2. CASE PhaseOp[phase] = "Prepare"
    <3>1. \A r \in S' : r.pid \in Q
      BY <1>3, <2>2 DEF Entered
    <3> QED BY <1>3, <2>1, <2>2, <3>1 DEF Entered, PreparesAwaited
  <2>3. CASE PhaseOp[phase] # "Prepare"
    <3>1. S' = {}
      BY <1>2, <1>3, <2>3 DEF Entered
    <3> QED BY <3>1 DEF PreparesAwaited
  <2> QED BY <2>2, <2>3
<1>4. ASSUME NEW to, Exited(t, to), Answered(t) \/ pc[t] = "abort" \/ ("Prepare" \notin Late => S' = {})
      PROVE  PreparesAwaited(t)'
  <2>1. S' = {}
    BY <1>1, <1>2, <1>4 DEF Exited
  <2> QED BY <2>1 DEF PreparesAwaited
<1>5. ASSUME NEW p \in Participants[t], CallTurn(t, p)
      PROVE  PreparesAwaited(t)'
  <2>1. pc'[t] = pc[t] /\ pc[t] \in Phases
    BY <1>5 DEF CallTurn
  <2>2. CASE pc[t] \notin {"prepare1", "prepare"}
    <3>1. PhaseOp[pc[t]] # "Prepare"
      BY <2>1, <2>2, PhaseOps DEF Phases
    <3>2. S' = {}
      BY <1>1, <1>2, <1>5, <2>2, <3>1 DEF CallTurn
    <3> QED BY <3>2 DEF PreparesAwaited
  <2>3. CASE pc[t] \in {"prepare1", "prepare"}
    <3>1. \A r \in S' : r \in S \/ (r.pid = p /\ call'[t][p] = Waiting)
      <4>1. PhaseOp[pc[t]] = "Prepare"
        BY <2>3, PhaseOps
      <4> QED BY <1>5, <4>1 DEF CallTurn
    <3>2. ASSUME NEW r \in S', r \in S
          PROVE  call'[t][r.pid] = Waiting
      <4>1. r = [txn |-> t, op |-> "Prepare", pid |-> r.pid, cts |-> 0] /\ r.pid \in Participants[t]
        BY <3>2, OnePrepare
      <4>2. r \in net' /\ call[t][r.pid] = Waiting
        BY <3>2 DEF Sent, PreparesAwaited
      <4>3. r.pid # p => call'[t][r.pid] = Waiting
        BY <1>5, <4>1, <4>2 DEF CallTurn
      <4>4. r.pid = p => call'[t][p] = Waiting
        BY <1>5, <2>3, <4>1, <4>2 DEF CallTurn
      <4> QED BY <4>3, <4>4
    <3> QED BY <2>1, <2>3, <3>1, <3>2 DEF PreparesAwaited
  <2> QED BY <2>2, <2>3
<1>6. \A x \in {"prepare1", "prepare", "store", "commit", "commit1", "abort", "abort1"} : x \in Phases
  BY DEF Phases
<1> HIDE DEF S
<1>7. pc[t] = "idle" \/ pc[t] \in {"store", "commit", "abort"} => S = {}
  BY <1>1
<1>8. pc[t] \in {"prepare", "store"} /\ Answered(t) => S = {}
  BY <1>1
<1> QED BY <1>1, <1>2, <1>3, <1>4, <1>5, <1>6, <1>7, <1>8 DEF Turn, S

(* A Prepare that was answered is not on its way any more. *)
LEMMA DeliveryAwaits ==
    ASSUME CallsOK, PlainPrepares, NEW t \in Txns, NEW p \in Participants[t], NEW r, NEW c,
           PreparesAwaited(t), Delivered(t, p, r, c)
    PROVE  PreparesAwaited(t)'
<1>1. pc'[t] = pc[t] /\ net' = net \ {r} /\ c.op = r.op /\ p = r.pid /\ r \in Sent(t, r.op)
  BY DEF Delivered
<1>2. SUFFICES ASSUME NEW q \in Sent(t, "Prepare")'
               PROVE  pc'[t] \in {"prepare1", "prepare"} /\ call'[t][q.pid] = Waiting
  BY DEF PreparesAwaited
<1>3. q \in Sent(t, "Prepare") /\ q # r
  BY <1>1, <1>2 DEF Sent
<1>4. pc[t] \in {"prepare1", "prepare"} /\ call[t][q.pid] = Waiting /\ q.pid \in Participants[t]
  BY <1>3, OnePrepare DEF PreparesAwaited
<1>5. call'[t][q.pid] = call[t][q.pid]
  <2>1. CASE q.pid = p /\ Awaits(t, c.op, p)
    <3>1. c.op = "Prepare"
      BY <1>4, <2>1, PhaseOps DEF Awaits
    <3>2. r \in Sent(t, "Prepare") /\ r.pid = q.pid
      BY <1>1, <2>1, <3>1
    <3> QED BY <1>3, <3>2, OnePrepare
  <2> QED BY <1>4, <2>1 DEF Delivered
<1> QED BY <1>1, <1>4, <1>5

(* The states of an answer. *)
LEMMA AnswerStates ==
    /\ ~IsFinal("waiting") /\ ~IsFinal("none") /\ ~IsFinal("error") /\ "none" \in States
    /\ "waiting" \notin States \cup {"NotFound"} /\ "error" \notin States \cup {"NotFound"}
BY DEF IsFinal, States, FinalStates

(* The coordinator asks the principal to abort last. *)
LEMMA TurnAborts ==
    ASSUME NEW t \in Txns, AbortsLast(t), Quiet, Turn(t)
    PROVE  AbortsLast(t)'
<1> DEFINE P == Principal[t]
           Good == States \cup {"NotFound"}
           Reply(p) == call[t][p].state
           Asks == Sent(t, "Abort")
<1>1. /\ \A p : State(t, p)' = State(t, p)
      /\ P \in Participants[t] /\ \A p \in Others(t) : p \in Participants[t] /\ p # P
  BY QuietFacts
<1>2. AllOut(t)' = AllOut(t) /\ \A p : Out(t, p)' = Out(t, p)
  BY <1>1 DEF AllOut, Out
<1>3. /\ pc[t] \in {"prepare", "store"} => \A p \in Others(t) : IsFinal(Reply(p)) => Out(t, p)
      /\ pc[t] = "abort" => (\A p \in Others(t) : Reply(p) \in Good => Out(t, p)) /\ call[t][P] # Waiting
      /\ pc[t] = "abort1" => AllOut(t)
      /\ \A r \in Asks : r.pid = P => AllOut(t)
      /\ State(t, P) = "Aborted" => AllOut(t) /\ pc[t] \in Over
  BY DEF AbortsLast
<1>4. /\ "Abort" \in Operations /\ Waiting # NoStatus /\ Waiting # Status("error", 0)
      /\ Waiting.state \notin Good /\ Status("error", 0).state \notin Good /\ NoStatus.state \in Good
      /\ ~IsFinal(Waiting.state) /\ ~IsFinal(Status("error", 0).state) /\ ~IsFinal(NoStatus.state)
  BY StatusStates, AnswerStates DEF Operations
<1>5. ASSUME \A r \in Asks' : r \in Asks \/ (r.pid = P => AllOut(t)),
             State(t, P) = "Aborted" => pc'[t] \in Over,
             pc'[t] \in {"prepare", "store"} => \A p \in Others(t) : IsFinal(call'[t][p].state) => Out(t, p),
             pc'[t] = "abort" =>
                (\A p \in Others(t) : call'[t][p].state \in Good => Out(t, p)) /\ call'[t][P] # Waiting,
             pc'[t] = "abort1" => AllOut(t)
      PROVE  AbortsLast(t)'
  BY <1>1, <1>2, <1>3, <1>5 DEF AbortsLast
<1> HIDE DEF P, Good, Asks
<1>6. ASSUME NEW phase \in Phases \ {"abort", "abort1"}, NEW Q, Entered(t, phase, Q), pc[t] \notin Over
      PROVE  AbortsLast(t)'
  <2>1. PhaseOp[phase] # "Abort"
    BY <1>6, PhaseOps DEF Phases
  <2>2. Asks' \subseteq Asks /\ pc'[t] = phase
    BY <1>4, <1>6, <2>1 DEF Entered, Asks
  <2>3. \A p \in Others(t) : call'[t][p] \in {Waiting, NoStatus}
    BY <1>1, <1>6 DEF Entered
  <2>4. \A p \in Others(t) : ~IsFinal(call'[t][p].state)
    BY <1>4, <2>3
  <2> QED BY <1>3, <1>5, <1>6, <2>2, <2>4
<1>7. CASE pc[t] \in {"prepare", "store"} /\ Entered(t, "abort", ToAbort(t))
  <2>1. /\ pc'[t] = "abort" /\ call'[t][P] = NoStatus
        /\ \A p \in Others(t) : call'[t][p] = IF p \in ToAbort(t) THEN Waiting ELSE NoStatus
        /\ \A r \in Asks' : r \in Asks \/ r.pid \in ToAbort(t)
    BY <1>1, <1>7, PhaseOps DEF Entered, Asks, ToAbort
  <2>2. \A p \in Others(t) : call'[t][p].state \in Good => Out(t, p)
    BY <1>3, <1>4, <1>7, <2>1 DEF ToAbort
  <2>3. \A p \in ToAbort(t) : p # P
    BY <1>1 DEF ToAbort
  <2>4. pc'[t] \in Over /\ pc'[t] \notin {"prepare", "store", "abort1"}
    BY <2>1 DEF Over
  <2> QED BY <1>4, <1>5, <2>1, <2>2, <2>3, <2>4
<1>8. ASSUME Entered(t, "abort1", {P}), AllOut(t)
      PROVE  AbortsLast(t)'
  <2>1. pc'[t] = "abort1"
    BY <1>8 DEF Entered
  <2>2. pc'[t] \in Over /\ pc'[t] \notin {"prepare", "store", "abort"}
    BY <2>1 DEF Over
  <2> QED BY <1>5, <1>8, <2>2
<1>9. pc[t] \in {"prepare", "store"} /\ ToAbort(t) = {} => AllOut(t)
  BY <1>3 DEF ToAbort, AllOut
<1>10. ASSUME pc[t] = "abort", AbortSucceeded(t) = Asked(t)
       PROVE  AllOut(t)
  <2>1. ASSUME NEW p \in Others(t)
        PROVE  Reply(p) \in Good
    <3>1. CASE call[t][p] = NoStatus
      BY <1>4, <3>1
    <3>2. CASE call[t][p] # NoStatus
      <4>1. p \in Asked(t) /\ p \in AbortSucceeded(t)
        BY <1>1, <1>10, <3>2 DEF Asked
      <4>2. call[t][p] # Waiting /\ p \notin AbortFailed(t)
        BY <4>1 DEF AbortSucceeded
      <4>3. Reply(p) \in States \/ Reply(p) = "NotFound"
        BY <4>1, <4>2 DEF AbortFailed, Failed
      <4> QED BY <4>3 DEF Good
    <3> QED BY <3>1, <3>2
  <2> QED BY <1>3, <1>10, <2>1 DEF AllOut
<1>11. ASSUME NEW to \in {"returned", "hung", "crashed"}, Exited(t, to)
       PROVE  AbortsLast(t)'
  <2>1. pc'[t] = to /\ Asks' \subseteq Asks
    BY <1>4, <1>11 DEF Exited, Asks
  <2>2. pc'[t] \in Over /\ pc'[t] \notin {"prepare", "store", "abort", "abort1"}
    BY <1>11, <2>1 DEF Over
  <2> QED BY <1>5, <2>1, <2>2
<1>12. ASSUME NEW p \in Participants[t], CallTurn(t, p)
       PROVE  AbortsLast(t)'
  <2>1. /\ pc'[t] = pc[t] /\ pc[t] \in Phases
        /\ \A q \in Participants[t] \ {p} : call'[t][q] = call[t][q]
        /\ \/ call'[t][p] = call[t][p]
           \/ call'[t][p] = Waiting /\ pc[t] \in {"prepare1", "prepare"}
           \/ call'[t][p] = Status("error", 0)
    BY <1>12 DEF CallTurn
  <2>2. \A q \in Others(t) : IsFinal(call'[t][q].state) => IsFinal(Reply(q))
    BY <1>1, <1>4, <2>1
  <2>3. \A q \in Others(t) : call'[t][q].state \in Good => Reply(q) \in Good
    BY <1>1, <1>4, <2>1
  <2>4. pc[t] = "abort" => call'[t][P] # Waiting
    <3>1. CASE pc[t] = "abort"
      <4>1. call[t][P] # Waiting /\ pc[t] \notin {"prepare1", "prepare"}
        BY <1>3, <3>1
      <4> QED BY <1>1, <1>4, <2>1, <4>1
    <3> QED BY <3>1
  <2>5. \A r \in Asks' : r \in Asks \/ (r.pid = P => AllOut(t))
    <3>1. CASE pc[t] \in {"abort", "abort1"}
      <4>1. \A r \in Asks' : r \in Asks \/ (r.pid = p /\ call'[t][p] = Waiting)
        <5>1. PhaseOp[pc[t]] = "Abort"
          BY <3>1, PhaseOps
        <5> QED BY <1>12, <5>1 DEF CallTurn, Asks
      <4> QED BY <1>3, <2>4, <3>1, <4>1
    <3>2. CASE pc[t] \notin {"abort", "abort1"}
      <4>1. PhaseOp[pc[t]] # "Abort"
        BY <2>1, <3>2, PhaseOps DEF Phases
      <4> QED BY <1>4, <1>12, <4>1 DEF CallTurn, Asks
    <3> QED BY <3>1, <3>2
  <2> QED BY <1>3, <1>5, <2>1, <2>2, <2>3, <2>4, <2>5
<1>13. /\ \A x \in {"prepare1", "prepare", "store", "commit", "commit1"} : x \in Phases \ {"abort", "abort1"}
       /\ \A x \in {"idle", "prepare1", "prepare", "store", "commit"} : x \notin Over
  BY DEF Phases, Over
<1> QED BY <1>6, <1>7, <1>8, <1>9, <1>10, <1>11, <1>12, <1>13 DEF Turn, P

(* A delivered request leaves it so. *)
LEMMA DeliveryAborts ==
    ASSUME ManagersOK, NEW t \in Txns, NEW p \in Participants[t], NEW r, NEW c, TxnInv(t), PreparesAwaited(t),
           AbortsLast(t), EntryKept(m[p].status[t], m[p].prepared[t]), Delivered(t, p, r, c)
    PROVE  AbortsLast(t)'
<1> DEFINE P == Principal[t]
           Good == States \cup {"NotFound"}
           Asks == Sent(t, "Abort")
<1>1. P \in Participants[t] /\ (\A q \in Others(t) : q \in Participants[t] /\ q # P) /\ p \in Pids
  BY TwoPhaseAssumption DEF Others, Participants
<1>2. /\ Moves(m[p], c, m[p].status[t], m[p].prepared[t], m'[p].status[t], m'[p].prepared[t])
      /\ \A q \in Participants[t] \ {p} : State(t, q)' = State(t, q)
  BY DEF Delivered, Step, State
<1>3. /\ r \in Sent(t, r.op) /\ p = r.pid /\ c.op = r.op /\ r.op \in Operations
      /\ Asks' \subseteq Asks /\ pc'[t] = pc[t] /\ CommandOK(c, t) /\ m'[p] = ApplyOne(p, c).m
      /\ \A q \in Participants[t] \ {p} : call'[t][q] = call[t][q]
      /\ \/ call'[t][p] = call[t][p]
         \/ Awaits(t, c.op, p) /\ call'[t][p] = Answer(ApplyOne(p, c))
  BY DEF Delivered, Sent
<1>4. /\ c.op # "Prepare" /\ Out(t, p) => Out(t, p)'
      /\ State(t, p)' = "Aborted" /\ State(t, p) # "Aborted" => c.op = "Abort"
  BY <1>2 DEF Moves, State, Out
<1>5. c.op = "Prepare" => pc[t] \in {"prepare1", "prepare"} /\ call[t][p] = Waiting
  BY <1>3 DEF PreparesAwaited
<1>6. ASSUME c.op # "Prepare"
      PROVE  (AllOut(t) => AllOut(t)') /\ \A q \in Participants[t] : Out(t, q) => Out(t, q)'
  BY <1>1, <1>2, <1>4, <1>6 DEF AllOut, Out
<1>7. pc[t] \in Over => c.op # "Prepare"
  BY <1>5 DEF Over
<1>8. Asks # {} => pc[t] \in Over
  BY DEF TxnInv, RequestsJustified, GivenUp
<1>9. /\ pc[t] \in {"prepare", "store"} => \A q \in Others(t) : IsFinal(call[t][q].state) => Out(t, q)
      /\ pc[t] = "abort" => (\A q \in Others(t) : call[t][q].state \in Good => Out(t, q)) /\ call[t][P] # Waiting
      /\ pc[t] = "abort1" => AllOut(t)
      /\ \A x \in Asks : x.pid = P => AllOut(t)
      /\ State(t, P) = "Aborted" => AllOut(t) /\ pc[t] \in Over
  BY DEF AbortsLast
<1>10. Waiting.state \notin Good /\ ~IsFinal(Waiting.state)
  BY StatusStates, AnswerStates
<1> HIDE DEF P, Good, Asks
<1>11. pc[t] = "abort1" => AllOut(t)'
  BY <1>6, <1>7, <1>9 DEF Over
<1>12. \A x \in Asks' : x.pid = P => AllOut(t)'
  BY <1>3, <1>6, <1>7, <1>8, <1>9
<1>13. State(t, P)' = "Aborted" => AllOut(t)' /\ pc[t] \in Over
  <2>1. CASE State(t, P) = "Aborted"
    BY <1>6, <1>7, <1>9, <2>1
  <2>2. CASE State(t, P) # "Aborted" /\ State(t, P)' = "Aborted"
    <3>1. p = P /\ c.op = "Abort"
      BY <1>1, <1>2, <1>4, <2>2
    <3>2. r \in Asks /\ r.pid = P
      BY <1>3, <3>1 DEF Asks
    <3> QED BY <1>6, <1>7, <1>8, <1>9, <3>2
  <2> QED BY <2>1, <2>2
<1>14. ASSUME pc[t] = "store", NEW q \in Others(t), IsFinal(call'[t][q].state)
       PROVE  Out(t, q)'
  <2>1. c.op # "Prepare"
    BY <1>5, <1>14
  <2>2. call'[t][q] = call[t][q]
    <3>1. CASE q = p /\ Awaits(t, c.op, p)
      <4>1. c.op = "StoreDecision"
        BY <1>14, <3>1, PhaseOps DEF Awaits
      <4>2. r.pid = P
        BY <1>3, <4>1 DEF TxnInv, RequestsJustified, P
      <4> QED BY <1>1, <1>3, <3>1, <4>2 DEF P
    <3> QED BY <1>1, <1>3, <3>1
  <2>3. Out(t, q)
    BY <1>9, <1>14, <2>2
  <2> QED BY <1>1, <1>6, <2>1, <2>3
<1>15. ASSUME pc[t] = "prepare", NEW q \in Others(t), IsFinal(call'[t][q].state)
       PROVE  Out(t, q)'
  <2>1. CASE q = p /\ c.op = "Prepare" /\ call'[t][p] = Answer(ApplyOne(p, c))
    <3>1. m[p].status[t].state # "Committed"
      <4>1. State(t, p) = "Committed" => HasDecided(t)
        BY DEF TxnInv, DecisionHolds
      <4>2. ~HasDecided(t)
        BY <1>15 DEF TxnInv, DecisionHolds
      <4> QED BY <4>1, <4>2 DEF State
    <3>2. ApplyOne(p, c).m.status[t].state = "none"
      BY <1>1, <1>3, <1>15, <2>1, <3>1, PrepareAnswer
    <3> QED BY <1>3, <2>1, <3>2 DEF Out, State
  <2>2. CASE q = p /\ c.op = "Prepare" /\ call'[t][p] = call[t][p]
    BY <1>5, <1>10, <1>15, <2>2
  <2>3. CASE c.op # "Prepare"
    <3>1. ~Awaits(t, c.op, p)
      BY <1>15, <2>3, PhaseOps DEF Awaits
    <3>2. Out(t, q)
      BY <1>1, <1>3, <1>9, <1>15, <3>1
    <3> QED BY <1>1, <1>6, <2>3, <3>2
  <2>4. CASE q # p
    <3>1. Out(t, q)
      BY <1>1, <1>3, <1>9, <1>15, <2>4
    <3> QED BY <1>1, <1>2, <2>4, <3>1 DEF Out
  <2> QED BY <1>3, <2>1, <2>2, <2>3, <2>4
<1>16. ASSUME pc[t] = "abort", NEW q \in Others(t), call'[t][q].state \in Good
       PROVE  Out(t, q)'
  <2>1. c.op # "Prepare"
    BY <1>5, <1>16
  <2>2. CASE q = p /\ Awaits(t, c.op, p) /\ call'[t][p] = Answer(ApplyOne(p, c))
    <3>1. c.op = "Abort"
      BY <1>16, <2>2, PhaseOps DEF Awaits
    <3>2. ApplyOne(p, c).m.status[t].state \in {"none", "Aborted"}
      BY <1>1, <1>3, <1>16, <2>2, <3>1, AbortAnswer DEF Good
    <3> QED BY <1>3, <2>2, <3>2 DEF Out, State
  <2>3. CASE call'[t][q] = call[t][q]
    <3>1. Out(t, q)
      BY <1>9, <1>16, <2>3
    <3> QED BY <1>1, <1>6, <2>1, <3>1
  <2> QED BY <1>1, <1>3, <2>2, <2>3
<1>17. pc[t] = "abort" => call'[t][P] # Waiting
  BY <1>1, <1>3, <1>9 DEF Awaits
<1> QED BY <1>3, <1>11, <1>12, <1>13, <1>14, <1>15, <1>16, <1>17 DEF AbortsLast, P, Good, Asks

(* No watchdog has marked t. *)
Unmarked(t) == \A p \in Participants[t] : EntryKept(m[p].status[t], m[p].prepared[t])

AbortsInOrder(t) == Unmarked(t) /\ PreparesAwaited(t) /\ AbortsLast(t)

(* It stays so for the transactions that a step leaves alone. *)
LEMMA SameAborts ==
    ASSUME NEW u \in Txns, AbortsInOrder(u), Same(u)
    PROVE  AbortsInOrder(u)'
<1>1. /\ Principal[u] \in Participants[u] /\ \A p \in Others(u) : p \in Participants[u]
      /\ "Abort" \in Operations /\ "Prepare" \in Operations
  BY TwoPhaseAssumption DEF Others, Operations
<1>2. \A p \in Participants[u] : State(u, p)' = State(u, p)
  BY DEF Same, State
<1>3. /\ pc'[u] = pc[u] /\ call'[u] = call[u]
      /\ Sent(u, "Abort")' \subseteq Sent(u, "Abort") /\ Sent(u, "Prepare")' \subseteq Sent(u, "Prepare")
  BY <1>1 DEF Same
<1>4. AllOut(u)' = AllOut(u) /\ \A p \in Others(u) : Out(u, p)' = Out(u, p)
  BY <1>1, <1>2 DEF AllOut, Out
<1>5. AbortsLast(u)'
  BY <1>1, <1>2, <1>3, <1>4 DEF AbortsLast, AbortsInOrder
<1>6. PreparesAwaited(u)'
  BY <1>3 DEF PreparesAwaited, AbortsInOrder
<1>7. Unmarked(u)'
  BY DEF Unmarked, Same, AbortsInOrder
<1> QED BY <1>5, <1>6, <1>7 DEF AbortsInOrder

UndoInv == IInv /\ WatchdogIdle /\ PlainPrepares /\ \A t \in Txns : AbortsInOrder(t)

(* Every step keeps it. *)
LEMMA UndoNext ==
    ASSUME DecisionAnswered, MaxLeaders = 0, "Prepare" \notin Late, UndoInv, [Next]_vars
    PROVE  UndoInv'
<1>1. IInv /\ WatchdogIdle /\ PlainPrepares /\ CallsOK /\ ManagersOK
      /\ \A t \in Txns : AbortsInOrder(t) /\ TxnInv(t)
  BY DEF UndoInv, IInv
<1>2. IInv' /\ PlainPrepares'
  BY <1>1, NextInv, PreparesPlain
<1>3. /\ WatchdogIdle'
      /\ \/ \A u \in Txns : Same(u)
         \/ \E t \in Txns : Quietly(t)
         \/ \E r \in net : /\ r.txn \in Txns /\ r.pid \in Participants[r.txn]
                           /\ \E c : Delivered(r.txn, r.pid, r, c)
                           /\ \A u \in Txns \ {r.txn} : Same(u)
  BY <1>1, IdleSteps
<1>4. ASSUME NEW t \in Txns, Quietly(t), NEW u \in Txns
      PROVE  AbortsInOrder(u)'
  <2>1. CASE u = t
    <3>1. AbortsLast(t)' /\ PreparesAwaited(t)'
      BY <1>1, <1>4, TurnAborts, TurnAwaits DEF Quietly, AbortsInOrder
    <3>2. Unmarked(t)'
      BY <1>1, <1>4 DEF Quietly, Quiet, Unmarked, AbortsInOrder
    <3> QED BY <2>1, <3>1, <3>2 DEF AbortsInOrder
  <2> QED BY <1>1, <1>4, <2>1, SameAborts DEF Quietly
<1>5. ASSUME NEW t \in Txns, NEW p \in Participants[t], NEW r, NEW c, Delivered(t, p, r, c)
      PROVE  AbortsInOrder(t)'
  <2>1. /\ Unmarked(t) /\ PreparesAwaited(t) /\ AbortsLast(t) /\ TxnInv(t)
        /\ EntryKept(m[p].status[t], m[p].prepared[t])
    BY <1>1 DEF AbortsInOrder, Unmarked
  <2>2. AbortsLast(t)' /\ PreparesAwaited(t)'
    BY <1>1, <1>5, <2>1, DeliveryAborts, DeliveryAwaits
  <2>3. Unmarked(t)'
    <3>1. /\ CommandOK(c, t) /\ c.op \in Operations /\ m'[p] = ApplyOne(p, c).m
          /\ \A q \in Participants[t] \ {p} : m'[q] = m[q]
      BY <1>5 DEF Delivered, Step
    <3>2. p \in Pids
      BY DEF Participants
    <3>3. EntryKept(ApplyOne(p, c).m.status[t], ApplyOne(p, c).m.prepared[t])
      BY <1>1, <2>1, <3>1, <3>2, EntryKeeps
    <3> QED BY <2>1, <3>1, <3>3 DEF Unmarked
  <2> QED BY <2>2, <2>3 DEF AbortsInOrder
<1>6. ASSUME NEW r \in net, r.txn \in Txns, r.pid \in Participants[r.txn], NEW c, Delivered(r.txn, r.pid, r, c),
             \A u \in Txns \ {r.txn} : Same(u), NEW u \in Txns
      PROVE  AbortsInOrder(u)'
  BY <1>1, <1>5, <1>6, SameAborts
<1>7. \A u \in Txns : AbortsInOrder(u)'
  BY <1>1, <1>3, <1>4, <1>6, SameAborts
<1> QED BY <1>2, <1>3, <1>7 DEF UndoInv

(* It holds at first. *)
LEMMA UndoInit ==
    ASSUME Init
    PROVE  UndoInv
<1>1. IInv /\ WatchdogIdle
  BY LastInit DEF LastInv
<1>2. net = {} /\ m = [p \in Pids |-> NewManager(Txns)] /\ \A t \in Txns : pc[t] = "idle"
  BY DEF Init
<1>3. ASSUME NEW t \in Txns
      PROVE  AbortsInOrder(t)
  <2>1. Principal[t] \in Participants[t] /\ Participants[t] \subseteq Pids
    BY TwoPhaseAssumption DEF Participants
  <2>2. NewManager(Txns).status[t] = NoStatus /\ NewManager(Txns).prepared[t] = NoPrepared
    BY DEF NewManager
  <2>3. NoPrepared.released
    BY DEF NoPrepared
  <2>4. \A p \in Participants[t] : m[p].status[t] = NoStatus /\ m[p].prepared[t] = NoPrepared
    BY <1>2, <2>1, <2>2
  <2>5. Unmarked(t)
    BY <2>3, <2>4, StatusStates DEF Unmarked, EntryKept
  <2>6. State(t, Principal[t]) = "none"
    BY <2>1, <2>4, StatusStates DEF State
  <2> QED BY <1>2, <2>5, <2>6 DEF AbortsInOrder, AbortsLast, PreparesAwaited, Sent
<1> QED BY <1>1, <1>2, <1>3 DEF UndoInv, PlainPrepares

(* Where the principal has released its locks without committing, nobody    *)
(* holds any (processor2PC.abort), if no Prepare arrives after its call has *)
(* failed and the leader stays.                                             *)
THEOREM PrincipalAbortsLast ==
    DecisionAnswered /\ MaxLeaders = 0 /\ "Prepare" \notin Late => (Spec => []AbortedLast)
<1>1. ASSUME DecisionAnswered, MaxLeaders = 0, "Prepare" \notin Late
      PROVE  Spec => []AbortedLast
  <2>1. Init => UndoInv
    BY UndoInit
  <2>2. UndoInv /\ [Next]_vars => UndoInv'
    BY <1>1, UndoNext
  <2>3. ASSUME UndoInv, NEW t \in Txns, State(t, Principal[t]) \in {"Aborted", "Timedout"}, NEW p \in Others(t)
        PROVE  ~Locked(t, p)
    <3>1. Principal[t] \in Participants[t] /\ p \in Participants[t]
      BY TwoPhaseAssumption DEF Others
    <3>2. Unmarked(t) /\ AbortsLast(t)
      BY <2>3 DEF UndoInv, AbortsInOrder
    <3>3. State(t, Principal[t]) = "Aborted"
      BY <2>3, <3>1, <3>2 DEF Unmarked, EntryKept, State
    <3>4. Out(t, p)
      BY <3>2, <3>3 DEF AbortsLast, AllOut
    <3> QED BY <3>1, <3>2, <3>4 DEF Unmarked, EntryKept, Out, State, Locked
  <2>4. UndoInv => AbortedLast
    BY <2>3 DEF AbortedLast
  <2> QED BY <2>1, <2>2, <2>4, PTL DEF Spec
<1> QED BY <1>1
=============================================================================
