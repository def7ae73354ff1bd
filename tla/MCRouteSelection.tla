-------------------------- MODULE MCRouteSelection --------------------------
(* Instances of RouteSelection for TLC. *)
EXTENDS RouteSelection

\* Two first hops a and b of different neighbors, and a contact c both lead to.
MCContact == {"a", "b", "c"}
MCFullVolume == [x \in MCContact |-> IF x = "c" THEN 2 ELSE 1]

Via(hops, neighbor, pbat, toTime, checkValue) ==
  [hops |-> hops, neighbor |-> neighbor, pbat |-> pbat, hopCount |-> Cardinality(hops),
   toTime |-> toTime, owltSum |-> 1, checkValue |-> checkValue]

\* Those of the first hop a differ from one another in single costs; the one that is the
\* cheapest of all, unless its later end decides, is more of a loop.
MCCandidate ==
  {Via({"a", "c"}, 2, 5, 9, 1), Via({"b", "c"}, 3, 5, 9, 1), Via({"a", "c"}, 2, 5, 8, 1),
   Via({"a"}, 2, 4, 8, 2)}

\* The shared contact is revised.
MCRevisedVolume == [x \in MCContact |-> IF x = "c" THEN {1, 3} ELSE {}]

MCBoolean == BOOLEAN
MCEvc == {1, 2}
=============================================================================
