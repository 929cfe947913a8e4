---------------------------- MODULE MCMembership ----------------------------
(* Instances of Membership for TLC. *)
EXTENDS Membership

CONSTANTS d1, d2, d3, d4

Three == <<d1, d2, d3>>

Four == <<d1, d2, d3, d4>>
=============================================================================
