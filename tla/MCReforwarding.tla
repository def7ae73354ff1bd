--------------------------- MODULE MCReforwarding ---------------------------
(* Two contacts of the home region, one of the outer region; a bulk and a  *)
(* normal bundle, a critical one without a CGRR block, and one to nowhere. *)
EXTENDS Reforwarding

MCContact == {"h", "k", "o"}
MCRegionOf == [c \in MCContact |-> IF c = "o" THEN 1 ELSE 0]
MCCapacity == [c \in MCContact |-> IF c = "h" THEN 6 ELSE 3]
MCNear == [c \in MCContact |-> {c}]
MCRoute == {{"h"}, {"h", "k"}, {"o"}}
MCBundle == {"bulk", "normal", "critical", "lost"}
MCPriorityOf == [b \in MCBundle |-> IF b = "normal" THEN 1 ELSE 0]
MCRegionTo == [b \in MCBundle |-> CASE b = "critical" -> 1 [] b = "lost" -> 2 [] OTHER -> 0]
MCRecorded == {"bulk", "normal"}
MCArriving == [b \in MCBundle |-> CASE b = "bulk" -> {<<"whole", {}>>, <<"first", {"h"}>>}
                                     [] OTHER -> {<<"whole", {}>>}]
MCCopyId == 1 .. 2
=============================================================================
