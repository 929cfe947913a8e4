----------------------------- MODULE MCSessions -----------------------------
(***************************************************************************)
(* Data servers 1 and 2 lead the partition by turns; 1 and the API server  *)
(* 3 may have a session.  Either is alone with the tracker while the       *)
(* assignments or the leader change twice, both are there while the leader *)
(* moves to 1, whose heartbeat is then the only word of it, or the API     *)
(* server comes before any data server.                                    *)
(***************************************************************************)
EXTENDS Sessions

MCLeaderIn == <<2, 1, 2, 1>>

MCDataServers == {1}

MCApiServers == {3}

MCScenarios ==
    {[servers |-> {1}, reg |-> TRUE, term |-> 3, asg |-> 2, assigns |-> 1, moves |-> 1, faults |-> 1],
     [servers |-> {3}, reg |-> TRUE, term |-> 2, asg |-> 3, assigns |-> 0, moves |-> 2, faults |-> 1],
     [servers |-> {1, 3}, reg |-> TRUE, term |-> 3, asg |-> 2, assigns |-> 1, moves |-> 1, faults |-> 0],
     [servers |-> {3}, reg |-> FALSE, term |-> 0, asg |-> 0, assigns |-> 1, moves |-> 1, faults |-> 0]}
=============================================================================
