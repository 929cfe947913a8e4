---------------------------- MODULE MCPartition ----------------------------
(* Small instances of Partition. *)
EXTENDS Partition

(* Single-partition transactions that insert key 1 and delete it, and       *)
(* distributed ones that overwrite key 1 and insert key 2.                  *)
MCBody == [s1 |-> {On("Insert", 1)},
           s2 |-> {On("Delete", 1)},
           s3 |-> {On("Insert", 1)},
           d1 |-> {On("Upsert", 1), On("Insert", 2)},
           d2 |-> {On("Insert", 2)}]

MCPrincipal == [s1 |-> 1, s2 |-> 1, s3 |-> 1, d1 |-> 1, d2 |-> 2]

MCQueries == {{[On("ReadRange", 1) EXCEPT !.last = 3]}}
=============================================================================
