----------------------------- MODULE HLCProofs -----------------------------
(***************************************************************************)
(* The hybrid logical clock is correct for every maxOffset, every width of *)
(* the logical part and every behaviour of the wall clock.                 *)
(***************************************************************************)
EXTENDS HLC, TLAPS

(* The clock's own value is never below what it has issued or merged, and a *)
(* timestamp accepted by checkUpdateTimeOffset stays within maxOffset while *)
(* Update retries.                                                          *)
Inv ==
    /\ TypeOK
    /\ ~ Abs!Less(<<physical, logical>>, floor)
    /\ ~jumped => physical <= PhysicalNow + MaxOffset
    /\ ~jumped /\ call.op = "update" => call.arg[1] <= PhysicalNow + MaxOffset
    /\ fatal = "backward" => jumped

(* An idle clock, and a call of Now that has just begun, are calls. *)
LEMMA IdleIsCall ==
    /\ Idle \in Calls /\ Idle.op = "idle"
    /\ Begin("now", <<0, 0>>) \in Calls /\ Begin("now", <<0, 0>>).op = "now"
  <1>1. <<0, 0>> \in Incoming
    BY ConstantsAssumption DEF Incoming, MaxPhysical
  <1> QED
    BY <1>1 DEF Calls, Idle, Begin, MaxRetries

(* Sleeping in a call, and being woken, yield the same call. *)
LEMMA CallSleeps ==
    ASSUME NEW c \in Calls, NEW t \in 0 .. MaxRetries, NEW w \in Nat
    PROVE  LET d == [c EXCEPT !.tries = t, !.wait = w]
           IN  d \in Calls /\ d.op = c.op /\ d.arg = c.arg
  BY DEF Calls

(* The invariant holds when the process starts. *)
LEMMA InitInv == Init => Inv
  <1> SUFFICES ASSUME Init PROVE Inv
    OBVIOUS
  <1>1. wall \in Nat /\ PhysicalNow = 0 /\ physical = 0
    BY DEF Init, PhysicalNow
  <1>2. <<0, 0>> \in Nat \X (0 .. LogicalMax)
    BY ConstantsAssumption
  <1>3. TypeOK
    BY <1>1, <1>2, ConstantsAssumption, IdleIsCall DEF Init, TypeOK
  <1> QED
    BY <1>1, <1>3, ConstantsAssumption, IdleIsCall DEF Init, Inv, Abs!Less

(* The retry loops keep the types: what Update computes is a timestamp. *)
LEMMA NextValues ==
    ASSUME TypeOK
    PROVE  /\ PhysicalNow \in Nat
           /\ NextPhysical \in Nat
           /\ NextLogical \in Nat
           /\ Abs!Less(<<physical, logical>>, <<NextPhysical, NextLogical>>)
           /\ Abs!Less(call.arg, <<NextPhysical, NextLogical>>)
  <1>1. call.arg[1] \in Nat /\ call.arg[2] \in Nat /\ call.arg = <<call.arg[1], call.arg[2]>>
    BY ConstantsAssumption DEF TypeOK, Calls, Incoming, MaxPhysical
  <1>2. PhysicalNow \in Nat /\ physical \in Nat /\ logical \in Nat
    BY ConstantsAssumption DEF TypeOK, PhysicalNow
  <1>3. NextPhysical \in Nat /\ NextPhysical >= physical
        /\ NextPhysical >= call.arg[1] /\ NextPhysical >= PhysicalNow
    BY <1>1, <1>2 DEF NextPhysical, Larger
  <1>4. NextLogical \in Nat
        /\ (NextPhysical = physical => NextLogical > logical)
        /\ (NextPhysical = call.arg[1] => NextLogical > call.arg[2])
    BY <1>1, <1>2, <1>3 DEF NextLogical, Larger
  <1> QED
    BY <1>1, <1>2, <1>3, <1>4 DEF Abs!Less

(* A sleep before a retry keeps the invariant. *)
LEMMA SleepPreserves ==
    ASSUME Inv, NEW w \in Nat, SleepAndRetry(w), call.tries > 0
    PROVE  Inv'
  <1>0. call.tries - 1 \in 0 .. MaxRetries
    BY DEF Inv, TypeOK, Calls, MaxRetries
  <1>1. call' = [call EXCEPT !.tries = call.tries - 1, !.wait = w]
    BY DEF SleepAndRetry
  <1>2. call' \in Calls /\ call'.op = call.op /\ call'.arg = call.arg
    BY <1>0, <1>1, CallSleeps DEF Inv, TypeOK
  <1> QED
    BY <1>2 DEF Inv, SleepAndRetry, TypeOK, PhysicalNow

(* Every step of Now and Update, of the wall clock and of a restart keeps the invariant. *)
LEMMA InductiveInv == Inv /\ [Next]_vars => Inv'
  <1> SUFFICES ASSUME Inv, [Next]_vars PROVE Inv'
    OBVIOUS
  <1> USE ConstantsAssumption DEF Inv
  <1>0. CASE UNCHANGED vars
    BY <1>0 DEF vars, TypeOK, PhysicalNow
  <1>1. CASE BeginNow
    <2>1. call' \in Calls /\ call'.op = "now"
      BY <1>1, IdleIsCall DEF BeginNow
    <2> QED
      BY <1>1, <2>1 DEF BeginNow, TypeOK, PhysicalNow
  <1>2. CASE NowReset
    BY <1>2 DEF NowReset, NowRuns, ReturnNow, TypeOK, Calls, Idle, Incoming,
       MaxPhysical, MaxRetries, PhysicalNow, Abs!Less
  <1>3. CASE NowBehind
    <2>1. CASE physical - PhysicalNow > MaxOffset
      BY <1>3, <2>1 DEF NowBehind, NowRuns, Shutdown, TypeOK, Calls, Idle, Incoming,
         MaxPhysical, MaxRetries, PhysicalNow
    <2>2. CASE ~(physical - PhysicalNow > MaxOffset)
      <3>1. PhysicalNow \in Nat /\ 2 * (physical - PhysicalNow) \in Nat
        BY <1>3 DEF NowBehind, TypeOK, PhysicalNow
      <3>2. SleepAndRetry(2 * (physical - PhysicalNow)) /\ call.tries > 0
        BY <1>3, <2>2 DEF NowBehind, NowRuns
      <3> QED
        BY <3>1, <3>2, SleepPreserves
    <2> QED
      BY <2>1, <2>2
  <1>4. CASE NowLogicalMax
    BY <1>4, SleepPreserves DEF NowLogicalMax, NowRuns
  <1>5. CASE NowIncrement
    BY <1>5 DEF NowIncrement, NowRuns, ReturnNow, TypeOK, Calls, Idle, Incoming,
       MaxPhysical, MaxRetries, PhysicalNow, Abs!Less
  <1>6. CASE \E in \in Incoming : BeginUpdate(in)
    <2>1. PICK in \in Incoming : BeginUpdate(in)
      BY <1>6
    <2>2. in[1] \in Nat
      BY <2>1 DEF Incoming, MaxPhysical
    <2> QED
      <3>2. call' \in Calls /\ call'.arg = in
        BY <2>1 DEF BeginUpdate, Begin, Calls, MaxRetries
      <3>3. in[1] <= PhysicalNow + MaxOffset
        BY <2>1, <2>2 DEF BeginUpdate, OffsetAllowed, TypeOK, PhysicalNow
      <3> QED
        BY <2>1, <3>2, <3>3 DEF BeginUpdate, TypeOK, PhysicalNow
  <1>7. CASE UpdateMerge
    <2>1. /\ physical' = NextPhysical /\ logical' = NextLogical
          /\ NextLogical \in 0 .. LogicalMax /\ NextPhysical \in Nat
          /\ floor' \in {floor, call.arg}
          /\ UNCHANGED <<wall, fatal, epoch, issued, jumped>> /\ call' = Idle
      BY <1>7, NextValues DEF UpdateMerge
    <2>2. call.arg \in Nat \X (0 .. LogicalMax)
      BY DEF TypeOK, Calls, Incoming, MaxPhysical
    <2>3. TypeOK'
      BY <2>1, <2>2 DEF TypeOK, Calls, Idle, Incoming, MaxPhysical, MaxRetries
    <2>4. ~ Abs!Less(<<physical, logical>>', floor')
      BY <2>1, <2>2, NextValues DEF TypeOK, Abs!Less
    <2>5. ~jumped => NextPhysical <= PhysicalNow + MaxOffset
      BY <1>7, <2>2 DEF UpdateMerge, UpdateRuns, NextPhysical, Larger, PhysicalNow, TypeOK
    <2> QED
      BY <2>1, <2>3, <2>4, <2>5 DEF PhysicalNow, Idle
  <1>8. CASE UpdateLogicalMax
    BY <1>8, SleepPreserves DEF UpdateLogicalMax, UpdateRuns
  <1>9. CASE Exhausted
    BY <1>9 DEF Exhausted, Shutdown, TypeOK, Calls, Idle, Incoming, MaxPhysical,
       MaxRetries, PhysicalNow
  <1>10. CASE Tick
    <2>0. call \in Calls /\ call.wait \in Nat
      BY DEF TypeOK, Calls
    <2> DEFINE w == IF call.wait > 0 THEN call.wait - 1 ELSE 0
    <2>1. w \in Nat /\ call' = [call EXCEPT !.wait = w]
      BY <1>10, <2>0 DEF Tick
    <2> HIDE DEF w
    <2>2. call' \in Calls /\ call'.op = call.op /\ call'.arg = call.arg
      BY <2>1 DEF TypeOK, Calls
    <2>3. PhysicalNow' >= PhysicalNow /\ PhysicalNow \in Nat /\ PhysicalNow' \in Nat
      BY <1>10 DEF Tick, TypeOK, PhysicalNow
    <2>4. call.arg[1] \in Nat
      BY DEF TypeOK, Calls, Incoming, MaxPhysical
    <2> QED
      BY <1>10, <2>2, <2>3, <2>4 DEF Tick, TypeOK
  <1>11. CASE JumpBack
    BY <1>11 DEF JumpBack, TypeOK, Calls, PhysicalNow
  <1>12. CASE Restart
    BY <1>12 DEF Restart, TypeOK, Calls, Idle, Incoming, MaxPhysical, MaxRetries,
       PhysicalNow, Abs!Less
  <1> QED
    BY <1>0, <1>1, <1>2, <1>3, <1>4, <1>5, <1>6, <1>7, <1>8, <1>9, <1>10, <1>11, <1>12
       DEF Next, NowStep, UpdateStep

(* The invariant holds in every reachable state. *)
LEMMA AlwaysInv == Spec => []Inv
  BY InitInv, InductiveInv, PTL DEF Spec

(* Every variable of the clock keeps its type: in particular the logical    *)
(* part never overflows into the physical part.                             *)
THEOREM TypeCorrect == Spec => []TypeOK
  BY AlwaysInv, PTL DEF Inv

(* Unless the wall clock is set back, the clock is never more than          *)
(* maxOffset ahead of it (checkUpdateTimeOffset is strong enough).          *)
THEOREM DriftIsBounded == Spec => []DriftBounded
  <1>1. Inv => DriftBounded
    BY DEF Inv, DriftBounded
  <1> QED
    BY <1>1, AlwaysInv, PTL

(* Now shuts the process down for a backward jump only after one. *)
THEOREM ShutdownIsJustified == Spec => []NoSpuriousShutdown
  <1>1. Inv => NoSpuriousShutdown
    BY DEF Inv, NoSpuriousShutdown
  <1> QED
    BY <1>1, AlwaysInv, PTL

(* The only steps that change issued are the two returns of Now, which      *)
(* happen when the wall clock has caught up with the clock.                 *)
LEMMA OnlyNowIssues ==
    ASSUME Inv, [Next]_vars
    PROVE  \/ NowReset \/ NowIncrement
           \/ issued' = issued
  BY DEF Next, NowStep, UpdateStep, BeginNow, NowBehind, NowLogicalMax, BeginUpdate,
     UpdateMerge, UpdateLogicalMax, Exhausted, Shutdown, SleepAndRetry, Tick, JumpBack,
     Restart, vars

(* A timestamp returned by Now is never from the future of the server's own *)
(* wall clock, although Update may move the clock ahead of it.              *)
THEOREM NowIsNotAhead == Spec => NowIsNeverAhead
  <1>1. Inv /\ [Next]_vars => (issued' # issued => issued'[1] = PhysicalNow)
    <2> SUFFICES ASSUME Inv, [Next]_vars, issued' # issued PROVE issued'[1] = PhysicalNow
      OBVIOUS
    <2>1. CASE NowReset
      BY <2>1 DEF NowReset, ReturnNow
    <2>2. CASE NowIncrement
      BY <2>2 DEF NowIncrement, ReturnNow
    <2> QED
      BY <2>1, <2>2, OnlyNowIssues
  <1> QED
    BY <1>1, AlwaysInv, PTL DEF Spec, NowIsNeverAhead

(* Now and Update implement the monotonic clock of the transaction layer.   *)
THEOREM Refinement == Spec => ImplementsMonotonicClock
  <1>1. Init => Abs!Init
    BY DEF Init, Abs!Init
  <1>2. Inv /\ [Next]_vars => [Abs!Next]_(Abs!vars)
    <2> SUFFICES ASSUME Inv, [Next]_vars PROVE [Abs!Next]_(Abs!vars)
      OBVIOUS
    <2> USE DEF Inv
    <2>1. CASE NowReset
      <3>1. /\ issued' = <<PhysicalNow, 0>> /\ floor' = issued' /\ epoch' = epoch
            /\ PhysicalNow > physical
        BY <2>1 DEF NowReset, ReturnNow
      <3>2. issued' \in Abs!Timestamps /\ Abs!Less(floor, issued')
        BY <3>1, ConstantsAssumption, NextValues DEF TypeOK, Abs!Less, Abs!Timestamps
      <3> QED
        BY <3>1, <3>2 DEF Abs!Next, Abs!Issue
    <2>2. CASE NowIncrement
      <3>1. /\ issued' = <<physical, logical + 1>> /\ floor' = issued' /\ epoch' = epoch
            /\ logical # LogicalMax
        BY <2>2 DEF NowIncrement, ReturnNow
      <3>2. issued' \in Abs!Timestamps /\ Abs!Less(floor, issued')
        BY <3>1, ConstantsAssumption DEF TypeOK, Abs!Less, Abs!Timestamps
      <3> QED
        BY <3>1, <3>2 DEF Abs!Next, Abs!Issue
    <2>3. CASE UpdateMerge
      <3>1. UNCHANGED <<issued, epoch>>
            /\ floor' = IF Abs!Less(floor, call.arg) THEN call.arg ELSE floor
        BY <2>3 DEF UpdateMerge
      <3>2. call.arg \in Abs!Timestamps
        BY ConstantsAssumption DEF TypeOK, Calls, Incoming, MaxPhysical, Abs!Timestamps
      <3>3. CASE Abs!Less(floor, call.arg)
        BY <3>1, <3>2, <3>3 DEF Abs!Next, Abs!Merge
      <3>4. CASE ~ Abs!Less(floor, call.arg)
        BY <3>1, <3>4 DEF Abs!vars
      <3> QED
        BY <3>3, <3>4
    <2>4. CASE Restart
      BY <2>4 DEF Restart, Abs!Next, Abs!Restart
    <2>5. CASE UNCHANGED <<issued, floor, epoch>>
      BY <2>5 DEF Abs!vars
    <2> QED
      BY <2>1, <2>2, <2>3, <2>4, <2>5 DEF Next, NowStep, UpdateStep, BeginNow, NowBehind,
         NowLogicalMax, BeginUpdate, UpdateLogicalMax, Exhausted, Shutdown, SleepAndRetry,
         Tick, JumpBack, vars
  <1> QED
    BY <1>1, <1>2, AlwaysInv, PTL DEF Spec, ImplementsMonotonicClock, Abs!Spec

=============================================================================
