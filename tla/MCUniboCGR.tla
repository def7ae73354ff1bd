----------------------------- MODULE MCUniboCGR -----------------------------
(* Instances of UniboCGR for TLC. *)
EXTENDS UniboCGR

MCNode == 1..3
Mesh == {<<1, 2>>, <<2, 3>>, <<1, 3>>}
FirstLink == {<<1, 2>>}
NoLink == {}
MCPlanTime == 1..3
MCClockTime == {0, 2, 3}
FixedReference == {0}
\* For the known divergence of NeighborsExact in the README.
TwoReferences == {0, 2}
NoLapse == {}
LastNode == {3}

=============================================================================
