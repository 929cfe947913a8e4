--------------------------- MODULE MCControlPlane ---------------------------
(* Instances of ControlPlane for TLC. *)
EXTENDS ControlPlane

CONSTANTS d1, d2, d3

First2 == <<d1, d2>>

All3 == <<d1, d2, d3>>

=============================================================================
