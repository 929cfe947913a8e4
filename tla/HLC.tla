-------------------------------- MODULE HLC --------------------------------
(***************************************************************************)
(* The hybrid logical clock of one server process (internal/hlc/hlc.go).   *)
(*                                                                         *)
(* A timestamp of the code is physical | logical in one uint64, with the   *)
(* low 16 bits logical; here it is the pair <<physical, logical>>.  The    *)
(* physical part counts granules of physicalMin = 2^16 ns.  The wall clock *)
(* counts half granules, because the code sleeps for physicalMin / 2 when  *)
(* the logical part is exhausted.                                          *)
(*                                                                         *)
(* Now and Update hold the mutex for their whole duration, sleeps          *)
(* included, so at most one call is in progress; every iteration of their  *)
(* retry loops is one step, between which the wall clock moves.            *)
(***************************************************************************)
EXTENDS Integers

CONSTANTS MaxOffset,    \* h.maxOffset, in granules
          LogicalMax,   \* logicalMax
          MaxWall,      \* bound: no call starts once the wall clock is here
          MaxJump,      \* bound: largest backward step of the wall clock
          MaxRestarts   \* bound: process restarts

ASSUME ConstantsAssumption ==
    /\ MaxOffset \in Nat /\ LogicalMax \in Nat /\ MaxWall \in Nat
    /\ MaxJump \in Nat /\ MaxRestarts \in Nat

VARIABLES wall,       \* the host's clock, in half granules
          physical,   \* h.physical
          logical,    \* h.logical
          call,       \* the call that holds h.lock
          fatal,      \* why utils.ShutdownNow was called, or "none"
          epoch,      \* process starts so far
          issued,     \* history: the last result of Now
          floor,      \* history: greatest timestamp issued or merged this epoch
          jumped      \* history: the wall clock has moved backward

vars == <<wall, physical, logical, call, fatal, epoch, issued, floor, jumped>>

MaxRetries == 3

(* Timestamps that arrive from outside: any that the bounds allow for.      *)
MaxPhysical == MaxWall + MaxOffset + 1
Incoming == (0 .. MaxPhysical) \X (0 .. LogicalMax)

Abs == INSTANCE MonotonicClock WITH
           seen <- floor, Physical <- Nat, Logical <- 0 .. LogicalMax

PhysicalNow == wall \div 2

Idle == [op |-> "idle", arg |-> <<0, 0>>, tries |-> 0, wait |-> 0]

Begin(op, arg) == [op |-> op, arg |-> arg, tries |-> MaxRetries, wait |-> 0]

Larger(a, b) == IF a > b THEN a ELSE b

-----------------------------------------------------------------------------
(* hlc.New: the clock starts at the wall clock. *)
Init ==
    /\ wall \in 0 .. 1
    /\ physical = PhysicalNow
    /\ logical = 0
    /\ call = Idle
    /\ fatal = "none"
    /\ epoch = 0
    /\ issued = <<0, 0>>
    /\ floor = <<0, 0>>
    /\ jumped = FALSE

Shutdown(reason) ==
    /\ fatal' = reason
    /\ call' = Idle
    /\ UNCHANGED <<wall, physical, logical, epoch, issued, floor, jumped>>

(* Sleep for w half granules with the mutex held, then retry. *)
SleepAndRetry(w) ==
    /\ call' = [call EXCEPT !.tries = @ - 1, !.wait = w]
    /\ UNCHANGED <<wall, physical, logical, fatal, epoch, issued, floor, jumped>>

-----------------------------------------------------------------------------
(* Now is called and takes the mutex. *)
BeginNow ==
    /\ call = Idle /\ fatal = "none" /\ wall < MaxWall
    /\ call' = Begin("now", <<0, 0>>)
    /\ UNCHANGED <<wall, physical, logical, fatal, epoch, issued, floor, jumped>>

NowRuns == call.op = "now" /\ call.wait = 0 /\ call.tries > 0

ReturnNow(p, l) ==
    /\ physical' = p
    /\ logical' = l
    /\ issued' = <<p, l>>
    /\ floor' = <<p, l>>
    /\ call' = Idle
    /\ UNCHANGED <<wall, fatal, epoch, jumped>>

(* The wall clock is ahead: it becomes the timestamp. *)
NowReset ==
    /\ NowRuns /\ PhysicalNow > physical
    /\ ReturnNow(PhysicalNow, 0)

(* Mutation of NowBehind: the limit is off by one. *)
NowBehindTooStrict ==
    /\ NowRuns /\ PhysicalNow < physical
    /\ IF physical - PhysicalNow >= MaxOffset
       THEN Shutdown("backward")
       ELSE SleepAndRetry(2 * (physical - PhysicalNow))

(* Mutation of NowBehind: counts on instead of waiting. *)
NowBehindCounts ==
    /\ NowRuns /\ PhysicalNow < physical
    /\ IF physical - PhysicalNow > MaxOffset THEN Shutdown("backward")
       ELSE IF logical = LogicalMax THEN SleepAndRetry(1)
       ELSE ReturnNow(physical, logical + 1)

(* The wall clock is behind: wait for it, or give up if it is too far. *)
NowBehind ==
    /\ NowRuns /\ PhysicalNow < physical
    /\ IF physical - PhysicalNow > MaxOffset
       THEN Shutdown("backward")
       ELSE SleepAndRetry(2 * (physical - PhysicalNow))

NowLogicalMax ==
    /\ NowRuns /\ PhysicalNow = physical /\ logical = LogicalMax
    /\ SleepAndRetry(1)

NowIncrement ==
    /\ NowRuns /\ PhysicalNow = physical /\ logical # LogicalMax
    /\ ReturnNow(physical, logical + 1)

-----------------------------------------------------------------------------
(* Mutation of OffsetAllowed: off by one. *)
OffsetAllowedTooFar(inPhysical) ==
    inPhysical <= PhysicalNow \/ inPhysical - PhysicalNow <= MaxOffset + 1

(* checkUpdateTimeOffset *)
OffsetAllowed(inPhysical) ==
    inPhysical <= PhysicalNow \/ inPhysical - PhysicalNow <= MaxOffset

(* Update is called with a timestamp; one too far ahead is TimeOutOfRange   *)
(* and changes nothing.                                                     *)
BeginUpdate(in) ==
    /\ call = Idle /\ fatal = "none" /\ wall < MaxWall
    /\ OffsetAllowed(in[1])
    /\ call' = Begin("update", in)
    /\ UNCHANGED <<wall, physical, logical, fatal, epoch, issued, floor, jumped>>

UpdateRuns == call.op = "update" /\ call.wait = 0 /\ call.tries > 0

NextPhysical == Larger(Larger(physical, call.arg[1]), PhysicalNow)

(* Mutation of NextLogical: the logical part that came in is forgotten. *)
NextLogicalForgets == IF NextPhysical = physical THEN logical + 1 ELSE 0

NextLogical ==
    CASE NextPhysical = physical /\ NextPhysical = call.arg[1] ->
             Larger(logical, call.arg[2]) + 1
      [] NextPhysical = physical /\ NextPhysical # call.arg[1] -> logical + 1
      [] NextPhysical # physical /\ NextPhysical = call.arg[1] -> call.arg[2] + 1
      [] OTHER -> 0

UpdateMerge ==
    /\ UpdateRuns /\ NextLogical <= LogicalMax
    /\ physical' = NextPhysical
    /\ logical' = NextLogical
    /\ floor' = IF Abs!Less(floor, call.arg) THEN call.arg ELSE floor
    /\ call' = Idle
    /\ UNCHANGED <<wall, fatal, epoch, issued, jumped>>

UpdateLogicalMax ==
    /\ UpdateRuns /\ NextLogical > LogicalMax
    /\ SleepAndRetry(1)

(* Mutation of Exhausted: the retry limit is never met. *)
ExhaustedNever ==
    /\ call.op # "idle" /\ call.wait = 0 /\ call.tries = -1
    /\ Shutdown(call.op)

(* Either loop has used up its retries. *)
Exhausted ==
    /\ call.op # "idle" /\ call.wait = 0 /\ call.tries = 0
    /\ Shutdown(call.op)

-----------------------------------------------------------------------------
(* Time passes; a sleeping call gets closer to its end. *)
Tick ==
    /\ wall < MaxWall + 2 * (MaxOffset + MaxJump) + 4
    /\ wall' = wall + 1
    /\ call' = [call EXCEPT !.wait = IF @ > 0 THEN @ - 1 ELSE 0]
    /\ UNCHANGED <<physical, logical, fatal, epoch, issued, floor, jumped>>

(* The host's clock is set back, once. *)
JumpBack ==
    /\ ~jumped
    /\ \E j \in 1 .. MaxJump : wall' = wall - j /\ wall >= j
    /\ jumped' = TRUE
    /\ UNCHANGED <<physical, logical, call, fatal, epoch, issued, floor>>

(* The process dies, of a shutdown or otherwise, and is started again. *)
Restart ==
    /\ epoch < MaxRestarts
    /\ epoch' = epoch + 1
    /\ physical' = PhysicalNow
    /\ logical' = 0
    /\ call' = Idle
    /\ fatal' = "none"
    /\ floor' = <<0, 0>>
    /\ UNCHANGED <<wall, issued, jumped>>

NowStep == NowReset \/ NowBehind \/ NowLogicalMax \/ NowIncrement
UpdateStep == UpdateMerge \/ UpdateLogicalMax

Next ==
    \/ BeginNow \/ NowStep
    \/ \E in \in Incoming : BeginUpdate(in)
    \/ UpdateStep
    \/ Exhausted \/ Tick \/ JumpBack \/ Restart

(* Time passes and a running goroutine is eventually scheduled. *)
Fairness == WF_vars(Tick) /\ WF_vars(NowStep) /\ WF_vars(UpdateStep)
                /\ WF_vars(Exhausted)

Spec == Init /\ [][Next]_vars

FairSpec == Spec /\ Fairness

-----------------------------------------------------------------------------
Calls == [op : {"idle", "now", "update"}, arg : Incoming,
          tries : 0 .. MaxRetries, wait : Nat]

TypeOK ==
    /\ wall \in Nat
    /\ physical \in Nat
    /\ logical \in 0 .. LogicalMax
    /\ call \in Calls
    /\ fatal \in {"none", "backward", "now", "update"}
    /\ epoch \in Nat
    /\ issued \in Nat \X (0 .. LogicalMax)
    /\ floor \in Nat \X (0 .. LogicalMax)
    /\ jumped \in BOOLEAN

(* The physical part of a timestamp returned by Now is the wall clock's     *)
(* granule at that moment: a server never hands out a timestamp from the    *)
(* future, even after it merged one, as it waits for the clock to catch up. *)
NowIsNeverAhead == [][issued' # issued => issued'[1] = PhysicalNow]_vars

(* Unless the wall clock is set back, merging never takes the clock more    *)
(* than maxOffset beyond the wall clock, retries in Update included.        *)
DriftBounded == ~jumped => physical <= PhysicalNow + MaxOffset

(* A process is only shut down for a backward jump if there was one. *)
NoSpuriousShutdown == fatal = "backward" => jumped

(* Every call of Now or Update returns or shuts the process down: the mutex *)
(* is released after every sleep and retry.                                 *)
CallsEnd == (call # Idle) ~> (call = Idle)

(* Now and Update implement the clock the transaction layer relies on:      *)
(* whatever the wall clock does, a timestamp returned by Now is greater     *)
(* than all that Now returned and Update accepted since the process began.  *)
ImplementsMonotonicClock == Abs!Spec

=============================================================================
