------------------------------ MODULE MCTravel ------------------------------
(* Four nodes, all in contact but the source and the destination.         *)
EXTENDS Travel

MCNode == 1 .. 4
MCContact == {c \in MCNode \X MCNode : c[1] # c[2]} \ {<<1, 4>>, <<4, 1>>}
MCFeatures == SUBSET Feature
=============================================================================
