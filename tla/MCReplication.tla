---------------------------- MODULE MCReplication ----------------------------
(* Instances of Replication for TLC. *)
EXTENDS Replication

CONSTANTS r1, r2, t1, t3

Cmd(op, id, txn) == [op |-> op, id |-> id, txn |-> txn, pids |-> {}, principal |-> 1,
                     ts |-> 0, cts |-> 0, release |-> FALSE]

(* An insert and a distributed transaction that inserts the same key. *)
Writers == {Cmd("Autocommit", t1, {On("Insert", 1)}),
            Cmd("Prepare", t3, {On("Insert", 1)}), Cmd("Commit", t3, {})}

=============================================================================
