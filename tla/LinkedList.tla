----------------------------- MODULE LinkedList -----------------------------
(***************************************************************************)
(* The doubly linked lists of the library (list.c), on a heap of elements. *)
(* An element knows the list it is in, so it is removed without its list,  *)
(* and callers keep pointers to elements: an operation may neither lose an *)
(* element nor leave it where its neighbours no longer see it.             *)
(*                                                                         *)
(* A heap h is a record: h.elt has the allocated elements by their address *)
(* and h.list the heads of the lists.  Module Citations builds on it.      *)
(***************************************************************************)
EXTENDS Integers, FiniteSets, SequencesExt

NULL == 0

EmptyList == [first |-> NULL, last |-> NULL, length |-> 0]

NoHeap(names) == [elt |-> [e \in {} |-> NULL], list |-> [l \in names |-> EmptyList]]

\* MWITHDRAW: addresses have no meaning of their own, the least free one serves, or the
\* least after base for those who keep together what belongs together.
NewEltAfter(h, base) ==
  CHOOSE e \in base + 1 .. base + Cardinality(DOMAIN h.elt) + 1 :
    e \notin DOMAIN h.elt /\ \A f \in base + 1 .. e - 1 : f \in DOMAIN h.elt

\* What follows p in l becomes n; no element stands for the ends of the list.
PointNext(h, l, p, n) ==
  IF p = NULL THEN [h EXCEPT !.list[l].first = n] ELSE [h EXCEPT !.elt[p].next = n]

PointPrev(h, l, n, p) ==
  IF n = NULL THEN [h EXCEPT !.list[l].last = p] ELSE [h EXCEPT !.elt[n].prev = p]

Put(h, l, e, p, n) ==
  LET placed == [h EXCEPT !.elt[e].list = l, !.elt[e].prev = p, !.elt[e].next = n,
                          !.list[l].length = @ + 1]
  IN  PointPrev(PointNext(placed, l, p, e), l, n, e)

PlaceNew(h, e, l, p, n, data) ==
  LET fresh == [h EXCEPT !.elt = [f \in DOMAIN @ \cup {e} |->
                  IF f = e THEN [list |-> l, prev |-> NULL, next |-> NULL, data |-> data]
                  ELSE @[f]]]
  IN  Put(fresh, l, e, p, n)

\* list_insert_first, list_insert_last, with e for the new element
FirstAt(h, e, l, data) == PlaceNew(h, e, l, NULL, h.list[l].first, data)
LastAt(h, e, l, data) == PlaceNew(h, e, l, h.list[l].last, NULL, data)

\* The element is taken out of its list, and still allocated: the list's delete function
\* is called with its data in this state.
Unlink(h, e) ==
  LET x == h.elt[e]
  IN  PointPrev(PointNext([h EXCEPT !.list[x.list].length = @ - 1], x.list, x.prev, x.next),
                x.list, x.next, x.prev)

\* erase_elt, MDEPOSIT
Free(h, e) == [h EXCEPT !.elt = [f \in DOMAIN @ \ {e} |-> @[f]]]

\* list_remove_elt of a list without a delete function; list_remove_first, list_remove_last
TakeOut(h, e) == Free(Unlink(h, e), e)

\* free_list_elts of a list without a delete function
RemoveAll(h, l) ==
  [elt |-> [e \in {f \in DOMAIN h.elt : h.elt[f].list # l} |-> h.elt[e]],
   list |-> [h.list EXCEPT ![l] = EmptyList]]

\* move_elt_to_other_list: to its head.
MoveToOther(h, e, other) ==
  LET out == Unlink(h, e) IN Put(out, other, e, NULL, out.list[other].first)

-----------------------------------------------------------------------------
(* What a list holds *)

\* The elements met from one end, no more than there are.
Met(h, start, step(_)) ==
  LET at[i \in 1 .. Cardinality(DOMAIN h.elt) + 1] ==
        IF i = 1 THEN start
        ELSE IF at[i - 1] \in DOMAIN h.elt THEN step(at[i - 1]) ELSE NULL
      met == {i \in DOMAIN at : at[i] # NULL}
  IN  [i \in 1 .. Cardinality(met) |-> at[i]]

Elts(h, l) == Met(h, h.list[l].first, LAMBDA e : h.elt[e].next)

EltsBackward(h, l) == Met(h, h.list[l].last, LAMBDA e : h.elt[e].prev)

Values(h, l) == [i \in DOMAIN Elts(h, l) |-> h.elt[Elts(h, l)[i]].data]

\* Forward and backward the same elements are met, as many as the list counts, and each
\* knows that it is in this list.
WellLinked(h, l) ==
  LET elts == Elts(h, l)
  IN  /\ Range(elts) = {e \in DOMAIN h.elt : h.elt[e].list = l}
      /\ EltsBackward(h, l) = Reverse(elts)
      /\ h.list[l].length = Len(elts)

=============================================================================
