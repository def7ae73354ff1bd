------------------------------ MODULE MCPlanSync ------------------------------
(* An instance of PlanSync for TLC: contacts and ranges of one pair of nodes. *)
EXTENDS PlanSync

MCNode == {1, 2}
MCClockTime == {10, 13}

Item(start, end, value) ==
  [fromNode |-> 1, toNode |-> 2, fromTime |-> start, toTime |-> end, value |-> value]

Intervals == {<<a, b>> \in (1 .. 4) \X (2 .. 5) : a < b}

\* No entry, one, or two one after the other, of either value.
MCContactLists ==
  {{}} \cup {{Item(i[1], i[2], v)} : i \in Intervals, v \in {1, 2}}
       \cup {{Item(p[1][1], p[1][2], v), Item(p[2][1], p[2][2], 1)} :
               p \in {q \in Intervals \X Intervals : q[1][2] <= q[2][1]}, v \in {1, 2}}

MCRangeLists == {{}, {Item(1, 2, 1), Item(2, 4, 1)}, {Item(1, 4, 2)}}
=============================================================================
