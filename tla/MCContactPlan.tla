--------------------------- MODULE MCContactPlan ---------------------------
(* Instances of ContactPlan for TLC. *)
EXTENDS ContactPlan

MCNode == {1, 2}
OneLink == {<<1, 2>>}
NoLink == {}
MCPlanTime == 1..4
MCPlanTimeWide == 1..5
MCClockTime == {0, 3, 4}
MCRefTime == {0, 1}
NoLapse == {}
\* For the known divergence of NoOverlap in the README.
Enclosing == {"enclosing"}
=============================================================================
