-------------------------- MODULE MCTwoPhaseCommit --------------------------
(* Small instances of TwoPhaseCommit: two transactions that write the same  *)
(* key on partitions 1 and 2 and start from different principals; the first *)
(* writes on the third partition as well, if there is one.                  *)
EXTENDS TwoPhaseCommit

MCBody == [t \in Txns |-> [p \in Pids |-> IF t = "t1" \/ p < 3 THEN {On("Upsert", 1)} ELSE {}]]

MCPrincipal == [t \in Txns |-> IF t = "t1" THEN 1 ELSE 2]

MCEven == {[p \in Pids |-> 0]}

MCSkewed == {[p \in Pids |-> (2 * p) % 3]}

=============================================================================
