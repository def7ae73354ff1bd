---------------------------- MODULE MCDijkstra ----------------------------
EXTENDS Dijkstra

C(f, t, start, end, light) ==
  [fromNode |-> f, toNode |-> t, fromTime |-> start, toTime |-> end, owlt |-> light]

\* 1 is the local node, 4 the destination; 2 leads to 3, and 3 leads back to the
\* local node, which then has another way, 5; one contact has no range.  From time 2 on a
\* bundle enters the one from 2 to 5 as it ends, from time 3 on it is late for it.
MCNetwork ==
  {C(1, 2, 0, 9, 2), C(1, 3, 0, 4, 2), C(1, 5, 4, 14, 1), C(2, 3, 1, 9, 1),
   C(3, 1, 0, 9, 1), C(2, 4, 3, 9, 2), C(2, 4, 9, 12, NoRange), C(2, 5, 1, 4, 3),
   C(5, 4, 5, 14, 1)}
MCTime == {0, 2, 3}
===========================================================================
