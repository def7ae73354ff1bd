------------------------------ MODULE Citations ------------------------------
(***************************************************************************)
(* Who points to whom between contacts, routes, nodes and neighbors, and   *)
(* how each is freed without a pointer to it being left behind.            *)
(*                                                                         *)
(* Every relation is kept from both ends by "citations", elements of one   *)
(* list that point to an element of another (contacts.h, routes.h,         *)
(* nodes.h):                                                               *)
(*   - a hop of a route points to its contact, and an element of the       *)
(*     contact's citations points back to the hop;                         *)
(*   - an element of a route's children points to the route computed from  *)
(*     it, which points back to that element (citationToFather);           *)
(*   - an element of a node's known or selected routes points to a route,  *)
(*     which points back to it (referenceElt);                             *)
(*   - elements of a node's and of a neighbor's citations point to each    *)
(*     other.                                                              *)
(* Whatever frees an end goes over a list while it deletes what the list   *)
(* holds, and what is deleted takes itself out of that same list.  Those   *)
(* walks are taken one element at a time here.  No other thread sees them. *)
(*                                                                         *)
(* What a route costs and which route is searched when is in module        *)
(* RouteComputation; here any path may be computed at any time.            *)
(***************************************************************************)
EXTENDS LinkedList

CONSTANTS Contact,     \* addresses of contacts
          Receiver,    \* the toNode of each contact
          Path,        \* the hops a search may find
          Node,        \* the nodes bundles are sent to
          Route,       \* addresses of routes
          Neighbors    \* the lists of neighbors that may be built

ASSUME CitationsAssumption ==
  /\ Receiver \in [Contact -> Nat] /\ Path \subseteq Seq(Contact) \ {<<>>}
  /\ NULL \notin Route /\ Neighbors \subseteq SUBSET Range(Receiver)

VARIABLES heap,        \* the lists and their elements
          route,       \* the routes that are allocated, by address
          contacts,    \* the contacts in the graph
          nodes,       \* the nodes in the tree
          neighbors,   \* the neighbors that are allocated
          discovered,  \* the nodes with NEIGHBORS_DISCOVERED
          walks        \* the walks under way or still to make, innermost first

vars == <<heap, route, contacts, nodes, neighbors, discovered, walks>>

Known(n) == <<"known", n>>              \* RtgObject.knownRoutes
Selected(n) == <<"selected", n>>        \* RtgObject.selectedRoutes
Discovered(n) == <<"discovered", n>>    \* RtgObject.citations
Hops(r) == <<"hops", r>>
Children(r) == <<"children", r>>
CitationsOf(c) == <<"contact", c>>      \* Contact.citations
Destinations(n) == <<"destinations", n>>  \* Neighbor.citations
Local == <<"neighbors", 0>>             \* local_node_neighbors

ListNames ==
  {Known(n) : n \in Node} \cup {Selected(n) : n \in Node} \cup {Discovered(n) : n \in Node}
    \cup {Hops(r) : r \in Route} \cup {Children(r) : r \in Route}
    \cup {CitationsOf(c) : c \in Contact} \cup {Destinations(n) : n \in Range(Receiver)}
    \cup {Local}

NoRoute == [r \in {} |-> NULL]

\* A walk over a list: next is the element saved for its next turn, NULL after the last.
\* turns counts the turns made, so that one that changes nothing is seen; before the first
\* the walk takes the first element the list has then.
WalkType == [over : ListNames, turns : Nat, next : Nat, only : Nat, frees : BOOLEAN]

Over(list, frees) ==
  [over |-> list, turns |-> 0, next |-> NULL, only |-> NULL, frees |-> frees]

Init ==
  /\ heap = NoHeap(ListNames)
  /\ route = NoRoute
  /\ contacts = Contact /\ nodes = {} /\ neighbors = {} /\ discovered = {}
  /\ walks = <<>>

-----------------------------------------------------------------------------
(* Citations *)

NeighborOf(m, r) == Receiver[Values(m.heap, Hops(r))[1]]

Memory == [heap |-> heap, route |-> route]

Remembered(m) == heap' = m.heap /\ route' = m.route

\* remove_citation of routes.c: the first citation of the contact that points to the hop.
ForgetHop(h, hop) ==
  LET cited == {e \in Range(Elts(h, CitationsOf(h.elt[hop].data))) : h.elt[e].data = hop}
  IN  IF cited = {} THEN h ELSE TakeOut(h, CHOOSE e \in cited : TRUE)

ForgetHops(h, r) == RemoveAll(FoldLeft(ForgetHop, h, Elts(h, Hops(r))), Hops(r))

\* free_list of the children, whose delete function is remove_reference_from_son.
ForgetChildren(m, r) ==
  LET sons == Range(Values(m.heap, Children(r)))
  IN  [heap |-> RemoveAll(m.heap, Children(r)),
       route |-> [s \in DOMAIN m.route |->
                    IF s \in sons THEN [m.route[s] EXCEPT !.citationToFather = NULL]
                    ELSE m.route[s]]]

\* Wrong on purpose: the selected child is left with the route that is freed.
ForgetSelectedFatherOnly(routes, r) ==
  LET x == routes[r]
  IN  [s \in DOMAIN routes |->
         IF s = x.selectedFather
         THEN [routes[s] EXCEPT !.selectedChild = x.selectedChild,
                                !.spursComputed = @ /\ x.selectedChild # NULL]
         ELSE routes[s]]

\* A selected route that loses its child takes the child's; the last one is searched again.
ForgetSelected(routes, r) ==
  LET x == routes[r]
  IN  [s \in DOMAIN routes |->
         CASE s = x.selectedFather ->
                [routes[s] EXCEPT !.selectedChild = x.selectedChild,
                                  !.spursComputed = @ /\ x.selectedChild # NULL]
           [] s = x.selectedChild -> [routes[s] EXCEPT !.selectedFather = x.selectedFather]
           [] OTHER -> routes[s]]

TakeOutIf(h, e) == IF e = NULL THEN h ELSE TakeOut(h, e)

\* Wrong on purpose: the routes computed from a route go with it.
DeleteWithSons(m, r) ==
  LET gone == {r} \cup Range(Values(m.heap, Children(r)))
      Cut(h, s) == TakeOutIf(ForgetHops(h, s), m.route[s].referenceElt)
      cut == FoldLeft(Cut, m.heap, SetToSortSeq(gone, <))
      rest == ForgetSelected(m.route, r)
  IN  [heap |-> TakeOutIf(RemoveAll(cut, Children(r)), m.route[r].citationToFather),
       route |-> [s \in DOMAIN rest \ gone |-> rest[s]]]

\* delete_cgr_route, update_references
DeleteRoute(m, r) ==
  LET x == m.route[r]
      alone == ForgetChildren([m EXCEPT !.heap = ForgetHops(@, r)], r)
      cut == TakeOutIf(TakeOutIf(alone.heap, x.citationToFather), x.referenceElt)
      rest == ForgetSelected(alone.route, r)
  IN  [heap |-> cut, route |-> [s \in DOMAIN rest \ {r} |-> rest[s]]]

\* remove_citation of nodes.c, the delete function of the citations of nodes and neighbors.
ForgetCitation(h, e) == TakeOut(h, h.elt[e].data)

\* free_list_elts of the citations of a node or of a neighbor.
ForgetCitations(h, list) == RemoveAll(FoldLeft(ForgetCitation, h, Elts(h, list)), list)

\* The elements made for a route are kept together, those of a node and a neighbor as well.
EltFor(h, r) == NewEltAfter(h, 100 * r)

\* populate_route, from the last hop to the first.
Populate(h, r, path) ==
  LET AddHop(g, c) ==
        LET hop == EltFor(g, r)
            hopped == FirstAt(g, hop, Hops(r), c)
        IN  LastAt(hopped, EltFor(hopped, r), CitationsOf(c), hop)
  IN  FoldLeft(AddHop, h, Reverse(path))

-----------------------------------------------------------------------------
(* Routes *)

NewRoute == [referenceElt |-> NULL, citationToFather |-> NULL, selectedFather |-> NULL,
             selectedChild |-> NULL, spursComputed |-> FALSE]

\* create_cgr_route and populate_route, citationToFather with a father, and insert_selected_
\* or insert_known_route.
Computed(r, path, father, list) ==
  LET found == Populate(heap, r, path)
      cited == IF father = NULL THEN found ELSE LastAt(found, EltFor(found, r), Children(father), r)
      child == IF father = NULL THEN NULL ELSE EltFor(found, r)
  IN  [heap |-> FirstAt(cited, EltFor(cited, r), list, r),
       route |-> [s \in DOMAIN route \cup {r} |->
         IF s # r THEN route[s]
         ELSE [NewRoute EXCEPT !.citationToFather = child, !.referenceElt = EltFor(cited, r)]]]

Idle == walks = <<>>

SelectedRoutes(n) == Range(Values(heap, Selected(n)))

\* What a search may find: contacts of the graph, not as a selected route has them
\* (avoid_duplicate_routes).
MayFind(n, path) ==
  /\ Range(path) \subseteq contacts
  /\ \A s \in SelectedRoutes(n) : Values(heap, Hops(s)) # path

\* remove_neighbor_from_known_routes is a walk that deletes only the routes of a neighbor.
OfNeighbor(list, n) == [Over(list, FALSE) EXCEPT !.only = n]

\* A bound: routes and neighbors have no list in common, so one route is enough beside
\* neighbors.
Room ==
  Cardinality(DOMAIN route) < IF neighbors = {} THEN Cardinality(Route) ELSE 1

FreeAddress == CHOOSE r \in Route \ DOMAIN route :
                 \A s \in Route \ DOMAIN route : r <= s

\* A route of a new neighbor, in computeOneRoutePerNeighbor or in compute_all_spurs: it is
\* selected at once, and the known ones of that neighbor go.
ComputeFirst(n, path) ==
  /\ Idle /\ n \in nodes /\ MayFind(n, path) /\ Room
  /\ \A s \in SelectedRoutes(n) : NeighborOf(Memory, s) # Receiver[path[1]]
  /\ LET m == Computed(FreeAddress, path, NULL, Selected(n)) IN
     /\ Remembered(m)
     /\ walks' = <<OfNeighbor(Known(n), Receiver[path[1]])>>
  /\ UNCHANGED <<contacts, nodes, neighbors, discovered>>

\* A spur of a selected route, to the same neighbor (compute_spur_route, compute_all_spurs).
\* The spurs are computed at once, so this is about a route whose spurs are not.
ComputeSpur(n, from, path) ==
  /\ Idle /\ n \in nodes /\ MayFind(n, path) /\ Room
  /\ from \in SelectedRoutes(n) /\ ~ route[from].spursComputed
  /\ Receiver[path[1]] = NeighborOf(Memory, from)
  /\ Remembered(Computed(FreeAddress, path, from, Known(n)))
  /\ UNCHANGED <<contacts, nodes, neighbors, discovered, walks>>

\* compute_another_route: a known route of the neighbor is selected, if there is one.
SelectAnother(n, from, r) ==
  /\ Idle /\ n \in nodes
  /\ from \in SelectedRoutes(n) /\ ~ route[from].spursComputed
  /\ LET eligible == {s \in Range(Values(heap, Known(n))) :
                        NeighborOf(Memory, s) = NeighborOf(Memory, from)} IN
     \/ /\ r \in eligible
        /\ heap' = MoveToOther(heap, route[r].referenceElt, Selected(n))
        /\ route' = [route EXCEPT ![from].spursComputed = TRUE, ![from].selectedChild = r,
                                  ![r].selectedFather = from]
     \/ /\ eligible = {} /\ r = from
        /\ route' = [route EXCEPT ![from].spursComputed = TRUE]
        /\ UNCHANGED heap
  /\ UNCHANGED <<contacts, nodes, neighbors, discovered, walks>>

\* computeRoutes, when no selected route is left.
StartAfresh(n) ==
  /\ Idle /\ n \in nodes /\ Elts(heap, Selected(n)) = <<>> /\ Elts(heap, Known(n)) # <<>>
  /\ walks' = <<Over(Known(n), FALSE)>>
  /\ UNCHANGED <<heap, route, contacts, nodes, neighbors, discovered>>

-----------------------------------------------------------------------------
(* Nodes, neighbors and contacts *)

\* add_node, create_node, create_rtg_object
AddNode(n) ==
  /\ Idle /\ n \in Node \ nodes
  /\ nodes' = nodes \cup {n}
  /\ UNCHANGED <<heap, route, contacts, neighbors, discovered, walks>>

AddContact(c) ==
  /\ Idle /\ c \in Contact \ contacts
  /\ contacts' = contacts \cup {c}
  /\ UNCHANGED <<heap, route, nodes, neighbors, discovered, walks>>

\* free_contact: the contact has left the tree.
FreeContact(c) ==
  /\ Idle /\ c \in contacts
  /\ contacts' = contacts \ {c}
  /\ walks' = <<Over(CitationsOf(c), TRUE)>>
  /\ UNCHANGED <<heap, route, nodes, neighbors, discovered>>

\* build_local_node_neighbors_list, after reset_NodesTree.
BuildNeighbors(ns) ==
  /\ Idle /\ neighbors = {} /\ nodes = {}
  /\ neighbors' = ns
  /\ heap' = FoldLeft(LAMBDA h, n : LastAt(h, EltFor(h, n), Local, n), heap, SetToSortSeq(ns, <))
  /\ UNCHANGED <<route, contacts, nodes, discovered, walks>>

\* insert_citation_to_neighbor
CiteNeighbor(h, n, neighbor) ==
  LET of == EltFor(h, neighbor)
      there == LastAt(h, of, Destinations(neighbor), NULL)
      back == EltFor(there, neighbor)
      both == LastAt(there, back, Discovered(n), of)
  IN  [both EXCEPT !.elt[of].data = back]

\* insert_neighbors_to_reach_destination; neighbors that do not exist are passed over.
DiscoverNeighbors(n, found) ==
  /\ Idle /\ n \in nodes
  /\ \/ /\ n \in discovered /\ heap.list[Discovered(n)].length = Cardinality(found)
        /\ UNCHANGED heap
     \/ /\ ~ (n \in discovered /\ heap.list[Discovered(n)].length = Cardinality(found))
        /\ heap' = FoldLeft(LAMBDA h, neighbor : CiteNeighbor(h, n, neighbor),
                            ForgetCitations(heap, Discovered(n)),
                            SetToSortSeq(found \cap neighbors, <))
  /\ discovered' = discovered \cup {n}
  /\ UNCHANGED <<route, contacts, nodes, neighbors, walks>>

\* removeOldNeighbors, of which only old ones are deleted.
RemoveOldNeighbors(old) ==
  /\ Idle /\ old \in neighbors
  /\ walks' = <<[Over(Local, FALSE) EXCEPT !.only = old]>>
  /\ UNCHANGED <<heap, route, contacts, nodes, neighbors, discovered>>

\* reset_NodesTree: the neighbors, and then for each node what free_rtg_object frees.
ResetWalks ==
  <<Over(Local, FALSE)>> \o
    FlattenSeq([i \in 1 .. Cardinality(nodes) |->
      LET n == SetToSortSeq(nodes, <)[i]
      IN  <<Over(Known(n), FALSE), Over(Selected(n), FALSE), Over(Discovered(n), TRUE)>>])

Reset ==
  /\ Idle
  /\ walks' = ResetWalks
  /\ UNCHANGED <<heap, route, contacts, nodes, neighbors, discovered>>

\* UniboCGR_contact_plan_reset: NodeSAP_close, which frees in the same order, and
\* ContactSAP_close.
ResetPlan ==
  /\ Idle
  /\ contacts' = {}
  /\ walks' = ResetWalks \o
       [i \in 1 .. Cardinality(contacts) |->
          Over(CitationsOf(SetToSortSeq(contacts, <)[i]), TRUE)]
  /\ UNCHANGED <<heap, route, nodes, neighbors, discovered>>

-----------------------------------------------------------------------------
(* Walks *)

\* What a walk deletes at an element: of a contact, the route the hop cited belongs to; of
\* routes and of neighbors, all or those looked for.
Deleted(w, e) ==
  LET x == heap.elt[e]
      kind == w.over[1]
  IN  CASE kind = "contact" -> DeleteRoute(Memory, heap.elt[x.data].list[2])
        [] kind \in {"known", "selected"} /\ w.only \in {NULL, NeighborOf(Memory, x.data)} ->
             DeleteRoute(Memory, x.data)
        [] kind = "discovered" ->
             [Memory EXCEPT !.heap = TakeOut(ForgetCitation(heap, e), e)]
        [] kind = "neighbors" /\ w.only \in {NULL, x.data} ->   \* free_neighbor
             [Memory EXCEPT !.heap = TakeOut(ForgetCitations(heap, Destinations(x.data)), e)]
        [] OTHER -> Memory

\* Wrong on purpose: the walk stays where it is while nothing is deleted.
SavedHere(m, e) == IF e \in DOMAIN m.heap.elt THEN e ELSE heap.elt[e].next

\* What is saved before the present element's data is deleted.
Saved(m, e) == heap.elt[e].next

Turn(w, e) ==
  \E m \in {Deleted(w, e)} :
    /\ Remembered(m)
    /\ walks' = [walks EXCEPT ![1].turns = @ + 1, ![1].next = Saved(m, e)]
    /\ neighbors' = IF w.over = Local /\ e \notin DOMAIN m.heap.elt
                    THEN neighbors \ {heap.elt[e].data} ELSE neighbors
    /\ UNCHANGED <<contacts, nodes, discovered>>

StillDiscovered(left) == discovered \cap left

\* The last list of a node goes with the node.
EndWalk(w) ==
  /\ walks' = Tail(walks)
  /\ nodes' = IF w.frees THEN nodes \ {n \in nodes : w.over = Discovered(n)} ELSE nodes
  /\ discovered' = StillDiscovered(nodes')
  /\ UNCHANGED <<heap, route, contacts, neighbors>>

Walk ==
  /\ walks # <<>>
  /\ \E w \in {walks[1]} :
       \E e \in {IF w.turns = 0 THEN heap.list[w.over].first ELSE w.next} :
         \/ e # NULL /\ Turn(w, e)
         \/ e = NULL /\ EndWalk(w)

Next ==
  \/ \E n \in Node : AddNode(n) \/ StartAfresh(n)
  \/ \E n \in Node, path \in Path : ComputeFirst(n, path)
  \/ \E n \in Node, path \in Path, from \in Route : ComputeSpur(n, from, path)
  \/ \E n \in Node, from, r \in Route : SelectAnother(n, from, r)
  \/ \E c \in Contact : AddContact(c) \/ FreeContact(c)
  \/ \E ns \in Neighbors : BuildNeighbors(ns)
  \/ \E n \in Node, found \in Neighbors : DiscoverNeighbors(n, found)
  \/ \E n \in Range(Receiver) : RemoveOldNeighbors(n)
  \/ Reset \/ ResetPlan
  \/ Walk

Spec == Init /\ [][Next]_vars

-----------------------------------------------------------------------------
(* What holds *)

\* Types.
TypeOK ==
  /\ DOMAIN heap.list = ListNames
  /\ DOMAIN route \subseteq Route /\ contacts \subseteq Contact /\ nodes \subseteq Node
  /\ neighbors \subseteq Range(Receiver) /\ discovered \subseteq nodes
  /\ \A i \in DOMAIN walks : walks[i] \in WalkType

\* The element a walk has saved is still there and in the list walked over, whatever was
\* deleted since it was saved (contacts.c:790, routes.c:326, nodes.c:1393).
SavedAlive ==
  Idle \/ walks[1].next = NULL
    \/ /\ walks[1].next \in DOMAIN heap.elt
       /\ heap.elt[walks[1].next].list = walks[1].over

OwnedLists ==
  {Known(n) : n \in nodes} \cup {Selected(n) : n \in nodes} \cup {Discovered(n) : n \in nodes}
    \cup {Hops(r) : r \in DOMAIN route} \cup {Children(r) : r \in DOMAIN route}
    \cup {CitationsOf(c) : c \in contacts} \cup {Destinations(n) : n \in neighbors}
    \cup {Local}

\* A list that something alive owns holds together; nothing else holds an element, so what
\* is freed leaves nothing behind.
ListsSound ==
  /\ \A l \in OwnedLists : WellLinked(heap, l)
  /\ Idle => \A e \in DOMAIN heap.elt : heap.elt[e].list \in OwnedLists

\* Between a contact and the routes that pass by it: a hop has exactly one citation, a
\* citation is of a hop of a route that exists, and a route never outlives its contacts.
ContactsCited ==
  /\ \A r \in DOMAIN route : \A hop \in Range(Elts(heap, Hops(r))) :
       LET c == heap.elt[hop].data
           cited == {e \in Range(Elts(heap, CitationsOf(c))) : heap.elt[e].data = hop}
       IN  Cardinality(cited) = 1 /\ (Idle => c \in contacts)
  /\ \A c \in Contact : \A e \in Range(Elts(heap, CitationsOf(c))) :
       LET hop == heap.elt[e].data
       IN  hop \in DOMAIN heap.elt /\ heap.elt[hop].data = c /\ heap.elt[hop].list[1] = "hops"

\* Between routes: the two ends of each pointer know each other.
FamilySound ==
  \A r \in DOMAIN route :
    LET x == route[r] IN
    /\ x.referenceElt \in DOMAIN heap.elt /\ heap.elt[x.referenceElt].data = r
    /\ x.citationToFather # NULL =>
         /\ x.citationToFather \in DOMAIN heap.elt
         /\ heap.elt[x.citationToFather].data = r
         /\ heap.elt[x.citationToFather].list[1] = "children"
    /\ \A s \in Range(Values(heap, Children(r))) :
         s \in DOMAIN route /\ heap.elt[route[s].citationToFather].list = Children(r)
    /\ x.selectedFather # NULL =>
         x.selectedFather \in DOMAIN route /\ route[x.selectedFather].selectedChild = r
    /\ x.selectedChild # NULL =>
         x.selectedChild \in DOMAIN route /\ route[x.selectedChild].selectedFather = r

\* Between nodes and neighbors: each citation is cited by the one it cites, and by pairs
\* of a node and a neighbor that exist.
NeighborsCited ==
  \A e \in DOMAIN heap.elt : heap.elt[e].list[1] \in {"discovered", "destinations"} =>
    LET other == heap.elt[e].data IN
    /\ other \in DOMAIN heap.elt /\ heap.elt[other].data = e
    /\ {heap.elt[e].list[1], heap.elt[other].list[1]} = {"discovered", "destinations"}
    /\ heap.elt[e].list \in OwnedLists

\* No pointer between contacts, routes, nodes and neighbors is left behind by what is freed,
\* in whatever order it is, nor the element that a walk goes on with.
PointersSound ==
  TypeOK /\ SavedAlive /\ ListsSound /\ ContactsCited /\ FamilySound /\ NeighborsCited

\* A route goes only because its contact goes, its list is cleared, its neighbor has a
\* better one, or its node goes.
DeletedOnPurpose ==
  [][\A r \in DOMAIN route \ DOMAIN route' :
       /\ ~ Idle
       /\ LET w == walks[1] IN
          \/ w.over[1] = "contact" /\ w.over[2] \in Range(Values(heap, Hops(r)))
          \/ /\ w.over = heap.elt[route[r].referenceElt].list
             /\ w.only \in {NULL, NeighborOf(Memory, r)}]_vars

Ahead(h, w) ==
  LET elts == Elts(h, w.over)
  IN  IF w.turns = 0 THEN Len(elts) + 1
      ELSE Cardinality({i \in DOMAIN elts : \E j \in 1 .. i : elts[j] = w.next})

\* Each turn of a walk brings it nearer to its end: what is ahead of it gets shorter, also
\* when the turn deletes elements ahead.
WalkAdvances ==
  [][~ Idle /\ Len(walks') = Len(walks)
       => Ahead(heap', walks'[1]) < Ahead(heap, walks[1])]_vars

=============================================================================
