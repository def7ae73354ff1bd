----------------------------- MODULE OrderedSet -----------------------------
(***************************************************************************)
(* What the callers of the red-black tree (contacts.c, ranges.c, nodes.c)  *)
(* take it for: an ordered set of entries, changed by one request after    *)
(* the other.                                                              *)
(***************************************************************************)
EXTENDS Integers

CONSTANT Key      \* the entries, ordered by the compare function of the tree

VARIABLES contents,
          request   \* what is being done: << >>, or the operation and its entry

NoRequest == << >>

Init == contents = {} /\ request = NoRequest

Ask ==
  /\ request = NoRequest
  /\ request' \in ({"insert"} \X (Key \ contents)) \cup ({"delete"} \X Key)
  /\ UNCHANGED contents

Insert ==
  /\ \E k \in Key : request = <<"insert", k>> /\ contents' = contents \cup {k}
  /\ request' = NoRequest

Delete ==
  /\ \E k \in Key : request = <<"delete", k>> /\ contents' = contents \ {k}
  /\ request' = NoRequest

\* rbt_clear, and an insertion that found no memory: the set is lost.
Clear ==
  /\ request = NoRequest \/ request[1] = "insert"
  /\ contents' = {} /\ request' = NoRequest

Next == Ask \/ Insert \/ Delete \/ Clear

Spec ==
  /\ Init /\ [][Next]_<<contents, request>>
  /\ request # NoRequest ~> request = NoRequest

=============================================================================
