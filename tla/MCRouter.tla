------------------------------ MODULE MCRouter ------------------------------
(* An instance of Router for TLC: two neighbors, one link to each. *)
EXTENDS Router

MCBundle == {1, 2}
MCLink == {1, 2}
MCRemote == <<3, 4>>
MCPlanned == {4}
MCDestination == <<3, 4>>
MCPrevHop == <<0, 0>>
MCCritical == {1}
MCCustody == {2}
FirstLink == {1}
=============================================================================
