----------------------------- MODULE MCCitations -----------------------------
(* Two neighbors, of which the first is reached by two contacts; the third contact is    *)
(* shared by paths to both.                                                             *)
EXTENDS Citations

MCContact == 1 .. 3
MCReceiver == [c \in MCContact |-> IF c = 3 THEN 5 ELSE 4]
MCPath == {<<1, 3>>, <<2, 3>>, <<3>>}
MCNode == {5}
MCRoute == 1 .. 3
MCNeighbors == {{4, 5}}

=============================================================================
