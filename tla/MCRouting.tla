----------------------------- MODULE MCRouting -----------------------------
(* Small instances of Routing: a client of each kind.                        *)
EXTENDS Routing

Scenario(kind, fresh, servers, moves, faults, races) ==
    [kind |-> kind, fresh |-> fresh, servers |-> servers,
     left |-> [moves |-> moves, faults |-> faults, races |-> races]]

MCAddress == [s1 |-> {"a1", "b1"}, s2 |-> {"a2"}]

MCScenarios ==
    {Scenario("control", FALSE, {"s1", "s2"}, 1, 0, 0),
     Scenario("control", TRUE, {"s1", "s2"}, 1, 0, 0),
     Scenario("control", TRUE, {"s1", "s2"}, 0, 1, 0),
     Scenario("data", FALSE, {"s1", "s2"}, 2, 0, 0),
     Scenario("data", TRUE, {"s1"}, 2, 1, 0),
     Scenario("api", TRUE, {"s1"}, 1, 1, 1),
     Scenario("proxy", TRUE, {"s1"}, 1, 1, 0)}
=============================================================================
