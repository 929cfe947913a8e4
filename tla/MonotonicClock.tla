--------------------------- MODULE MonotonicClock ---------------------------
(***************************************************************************)
(* What the transaction layer relies on in a server's clock: a timestamp   *)
(* read from it is beyond every timestamp read from it or merged into it   *)
(* since the process started.  A restart begins a new epoch about which    *)
(* nothing is promised: the clock is not persisted.  HLC.tla implements    *)
(* this specification.                                                     *)
(***************************************************************************)
EXTENDS Integers

CONSTANTS Physical, Logical    \* the two components of a timestamp

VARIABLES issued,   \* the last timestamp read from the clock
          seen,     \* the greatest one read or merged in this epoch
          epoch     \* how often the process was restarted

vars == <<issued, seen, epoch>>

Timestamps == Physical \X Logical

(* The order of the packed 64 bit timestamps is the lexicographic order of  *)
(* their parts, as the physical part is a multiple of 2^16.                 *)
Less(a, b) == a[1] < b[1] \/ (a[1] = b[1] /\ a[2] < b[2])

Init == issued = <<0, 0>> /\ seen = <<0, 0>> /\ epoch = 0

Issue == /\ issued' \in Timestamps
         /\ Less(seen, issued')
         /\ seen' = issued'
         /\ epoch' = epoch

(* A timestamp beyond all seen so far is merged. *)
Merge == /\ seen' \in Timestamps
         /\ Less(seen, seen')
         /\ UNCHANGED <<issued, epoch>>

Restart == seen' = <<0, 0>> /\ epoch' = epoch + 1 /\ issued' = issued

Next == Issue \/ Merge \/ Restart

Spec == Init /\ [][Next]_vars

=============================================================================
