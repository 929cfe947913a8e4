---------------------------- MODULE MCGlobalReads ----------------------------
(* Two partitions of two keys; a Set of both keys, a write of two keys to   *)
(* one partition, a Delete, and a transaction that reads and writes; a Get  *)
(* of both keys, range reads, and a snapshot read over both partitions.     *)
EXTENDS GlobalReads

MCHash == [k \in 0 .. 1 |-> k]

MCRequest ==
    [t1 |-> [op |-> "Set", keys |-> <<0, 1>>],
     t2 |-> [op |-> "Program", snapshot |-> FALSE,
             steps |-> <<<<0, <<Insert(0), LockKey(1, FALSE, "none")>>>>, <<1, <<Upsert(1), Read(1)>>>>>>],
     s1 |-> [op |-> "Program", snapshot |-> FALSE, steps |-> <<<<0, <<Upsert(0), Upsert(1), LockRange(0, 2, TRUE, "none")>>>>>>],
     s2 |-> [op |-> "Delete", keys |-> <<1>>],
     g1 |-> [op |-> "Get", keys |-> <<1, 0>>, snapshot |-> FALSE],
     q1 |-> [op |-> "Program", snapshot |-> FALSE,
             steps |-> <<<<0, <<ReadRange(0, 2, 1)>>>>, <<1, <<Read(1)>>>>>>],
     q2 |-> [op |-> "Program", snapshot |-> FALSE, steps |-> <<<<0, <<ReadRange(0, 2, 0)>>>>>>],
     n1 |-> [op |-> "Program", snapshot |-> TRUE,
             steps |-> <<<<0, <<Read(0)>>>>, <<1, <<ReadRange(0, 2, 2)>>>>>>]]

MCTogether == {{"t1", "s1", "q1"}, {"t1", "s2", "g1"}, {"t1", "s1", "n1"}, {"t1", "s2", "q2"}, {"s1", "q1", "n1"},
               {"t2", "s1", "g1"}}

MCClock0 == [p \in Pids |-> p + 1]

=============================================================================
