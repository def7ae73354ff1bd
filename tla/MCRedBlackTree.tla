--------------------------- MODULE MCRedBlackTree ---------------------------
(* Instances of RedBlackTree for TLC. *)
EXTENDS RedBlackTree

MCKey == 1..7

=============================================================================
