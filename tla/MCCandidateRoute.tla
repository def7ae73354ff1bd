-------------------------- MODULE MCCandidateRoute --------------------------
(* Three routes over two or three hops, with an earlier contact with the neighbor. *)
EXTENDS CandidateRoute

C(from, to, rate, volume) == [fromTime |-> from, toTime |-> to, xmitRate |-> rate, mtv |-> volume]
R(from, to, light) == [fromTime |-> from, toTime |-> to, owlt |-> light]
Bundle1(volume, end, ahead, all) ==
  [evc |-> volume, expiration |-> end, applicable |-> ahead, total |-> all]

\* The last contact ends before the second one; a part of the volumes is booked.
Short ==
  [toNeighbor |-> <<C(0, 4, 2, 8), C(6, 14, 2, 16)>>, first |-> 2,
   rest |-> <<C(6, 20, 3, 30), C(9, 17, 1, 8)>>,
   ranges |-> <<<<R(0, 20, 1)>>, <<R(0, 20, 0)>>, <<R(0, 20, 2)>>>>]

\* The light time changes during the contacts.
Moving ==
  [toNeighbor |-> <<C(0, 3, 1, 3), C(4, 16, 2, 12)>>, first |-> 2,
   rest |-> <<C(8, 20, 2, 10)>>,
   ranges |-> <<<<R(0, 7, 1), R(7, 9, 3), R(10, 20, 2)>>, <<R(0, 10, 0), R(10, 20, 4)>>>>]

\* The first hop is the first contact with the neighbor; another one follows.
Open ==
  [toNeighbor |-> <<C(0, 12, 3, 9), C(14, 20, 1, 6)>>, first |-> 1,
   rest |-> <<C(2, 14, 2, 8)>>,
   ranges |-> <<<<R(0, 20, 0)>>, <<R(0, 20, 1)>>>>]

MCPlan == {Short, Moving, Open}
MCTime == {0, 5, 7}
MCBundle ==
  {Bundle1(v, e, q[1], q[2]) : v \in {1, 3, 5}, e \in {10, 12, 22}, q \in {<<0, 0>>, <<4, 6>>, <<9, 9>>, <<20, 30>>}}
=============================================================================
