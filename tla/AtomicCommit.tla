--------------------------- MODULE AtomicCommit ---------------------------
(***************************************************************************)
(* What a distributed transaction promises, whoever coordinates it: its    *)
(* participants commit only together, after all of them have prepared, and *)
(* at one timestamp that is not below the one any of them prepared at;     *)
(* nobody aborts once somebody has committed.                              *)
(***************************************************************************)
EXTENDS Naturals

CONSTANTS Txns,
          Participants    \* Participants[t]: the partitions of transaction t

VARIABLES state,          \* state[t][p] of a participant
          at              \* at[t][p]: the timestamp it prepared or committed at

vars == <<state, at>>

ParticipantStates == {"working", "prepared", "committed", "aborted"}

Init ==
    /\ state = [t \in Txns |-> [p \in Participants[t] |-> "working"]]
    /\ at = [t \in Txns |-> [p \in Participants[t] |-> 0]]

Becomes(t, p, s) ==
    /\ state' = [state EXCEPT ![t] = [@ EXCEPT ![p] = s]]
    /\ at' = [at EXCEPT ![t] = [@ EXCEPT ![p] = at'[t][p]]]
    /\ at'[t][p] \in Nat

Prepare(t, p) ==
    /\ state[t][p] = "working"
    /\ Becomes(t, p, "prepared")

Commit(t, p) ==
    /\ state[t][p] = "prepared"
    /\ Becomes(t, p, "committed")
    /\ \A q \in Participants[t] :
          \/ state[t][q] = "prepared" /\ at[t][q] <= at'[t][p]
          \/ state[t][q] = "committed" /\ at[t][q] = at'[t][p]

Abort(t, p) ==
    /\ state[t][p] = "prepared"
    /\ \A q \in Participants[t] : state[t][q] # "committed"
    /\ Becomes(t, p, "aborted")

Next == \E t \in Txns : \E p \in Participants[t] : Prepare(t, p) \/ Commit(t, p) \/ Abort(t, p)

Spec == Init /\ [][Next]_vars

=============================================================================
