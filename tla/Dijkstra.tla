------------------------------ MODULE Dijkstra ------------------------------
(***************************************************************************)
(* The searches of phase one (phase_one.c): Dijkstra's algorithm over the  *)
(* contacts, and how the marks it leaves on them are kept or cleared from  *)
(* one spur of a route to the next.                                        *)
(*                                                                         *)
(* A run is a sequence of routes for which spurs are computed, each from a *)
(* hop on, with any routes selected before.  Module RouteComputation takes *)
(* what a search finds from here: SearchExact says what that is.           *)
(***************************************************************************)
EXTENDS ContactGraph

CONSTANTS Destination,   \* the node the routes lead to
          Time           \* the times of the searches

ASSUME DijkstraAssumption == Destination \in Nodes \ {LocalNode} /\ Time \subseteq Nat

VARIABLES now,          \* current_time
          selected,     \* the paths of the selected routes
          route,        \* the path of fromRoute
          at,           \* how many hops of it the spur keeps: rootOfSpur
          excluded,     \* excludedNeighbors
          first,        \* isFirstSpurRoute
          suppressed,   \* the mark of each contact, a SuppressedFlag
          visited,      \* the contacts (and the root) that are visited
          labels,       \* the distance of a contact in the queue or on the root path
          current,      \* the contact reached last
          pc

given == <<now, selected, route, at, excluded, first>>
vars == <<given, suppressed, visited, labels, current, pc>>

\* graphRoot, a contact of the local node with itself.
Root == [fromNode |-> LocalNode, toNode |-> LocalNode, fromTime |-> 0, toTime |-> 0, owlt |-> 0]

Label == [arrival : Nat, hops : Nat, owlt : Nat, predecessor : Network \cup {Root}]

\* removeExpiredContacts has run before any search.
contacts == {c \in Network : c.toTime > now}

Routes == {p \in PathsTo(Destination) : Range(p) \subseteq contacts}

\* SuppressedFlag
Marks == {"no", "dijkstra", "fromNode", "toNode"}

prefix == SubSeq(route, 1, at)

\* compute_all_spurs for some selected route, from the hop on where Lawler's modification,
\* or the lack of it, begins.
AnyRoute ==
  /\ route' \in selected
  /\ at' \in 0 .. Len(route') - 1
  /\ excluded' \in SUBSET {c.toNode : c \in {d \in contacts : d.fromNode = LocalNode}}
  /\ first' = TRUE

NoLabels == [c \in {} |-> Root]

Init ==
  /\ now \in Time
  /\ selected \in {{p, q} : p, q \in Routes}
  /\ route \in selected /\ at \in 0 .. Len(route) - 1
  /\ excluded \in SUBSET {c.toNode : c \in {d \in contacts : d.fromNode = LocalNode}}
  /\ first = TRUE /\ pc = "start"
  /\ suppressed = [c \in contacts |-> "no"]
  /\ visited = {} /\ labels = NoLabels /\ current = Root

-----------------------------------------------------------------------------
\* clear_work_areas with ClearYen: what is suppressed for the root path stays so.
ClearYen(marks) == [c \in DOMAIN marks |-> IF marks[c] = "dijkstra" THEN "no" ELSE marks[c]]

\* Wrong on purpose: the marks of the route before are kept.
ClearNeverPartially(marks) == ClearYen(marks)

\* clear_work_areas, before a route's first spur and before the others.
Clear(marks) == IF first THEN [c \in contacts |-> "no"] ELSE ClearYen(marks)

\* suppress_root_path_ipn_node, for all nodes of the root path before a route's first spur
\* and for the last one before the others.
SuppressNodes(marks) ==
  [c \in DOMAIN marks |->
    IF \E i \in (IF first THEN 1 ELSE at) .. at : i > 0 /\ c.fromNode = prefix[i].fromNode
    THEN "fromNode" ELSE marks[c]]

\* avoid_duplicate_routes
AvoidDuplicates(marks) ==
  LET next == {p[at + 1] : p \in {q \in selected : IsStrictPrefix(prefix, q)}}
  IN  [c \in DOMAIN marks |-> IF marks[c] = "no" /\ c \in next THEN "dijkstra" ELSE marks[c]]

RootLabel == [arrival |-> now, hops |-> 0, owlt |-> 0, predecessor |-> Root]

\* The distances initialize_root_path gives to the contacts of the root path.
RootPathLabels ==
  [c \in Range(prefix) \cup {Root} |->
    IF c = Root THEN RootLabel
    ELSE LET i == CHOOSE j \in 1 .. at : prefix[j] = c
         IN  [arrival |-> TimesAlong(prefix, now)[i], hops |-> i,
              owlt |-> LightAlong(prefix)[i],
              predecessor |-> IF i = 1 THEN Root ELSE prefix[i - 1]]]

\* compute_spur_route up to the search.
StartSpur ==
  /\ pc = "start"
  /\ suppressed' = AvoidDuplicates(SuppressNodes(Clear(suppressed)))
  /\ visited' = {}
  /\ current' = IF at = 0 THEN Root ELSE prefix[at]
  /\ \/ BarelyFeasible(prefix, now) /\ labels' = RootPathLabels /\ pc' = "relax"
     \/ ~ BarelyFeasible(prefix, now) /\ labels' = NoLabels /\ pc' = "over"
  /\ UNCHANGED given

-----------------------------------------------------------------------------
\* compare_dijkstra_edges(a, b) < 0
CompareEdges(a, b) ==
  \/ a.arrival < b.arrival
  \/ a.arrival = b.arrival /\ a.hops < b.hops
  \/ a.arrival = b.arrival /\ a.hops = b.hops /\ a.owlt < b.owlt

\* compute_new_distances
ComputeNewDistances ==
  LET label == labels[current]
      onward == {c \in contacts : /\ c.fromNode = current.toNode
                                  /\ c.toNode # current.fromNode \/ current = Root}
      \* the contacts of a node are suppressed for the root path all or not at all
      loop == \E c \in onward : suppressed[c] = "fromNode"
      open == {c \in onward \ visited : suppressed[c] = "no"}
      closed == {c \in open : current = Root /\ c.toNode \in excluded}
      timely == {c \in open \ closed : Departure(c, label.arrival) < c.toTime}
      ranged == {c \in timely : c.owlt # NoRange}
      new == [c \in ranged |->
                [arrival |-> Departure(c, label.arrival) + LightTime(c),
                 hops |-> label.hops + 1, owlt |-> label.owlt + LightTime(c),
                 predecessor |-> current]]
      better == {c \in ranged : c \notin DOMAIN labels \/ CompareEdges(new[c], labels[c])}
  IN
  /\ pc = "relax"
  /\ suppressed' = [c \in contacts |->
        CASE loop /\ c = current -> "toNode"
          [] ~ loop /\ c \in closed \cup (timely \ ranged) -> "dijkstra"
          [] OTHER -> suppressed[c]]
  /\ labels' = IF loop THEN labels
               ELSE [c \in DOMAIN labels \cup better |-> IF c \in better THEN new[c] ELSE labels[c]]
  /\ visited' = visited \cup {current}
  /\ pc' = "choose"
  /\ UNCHANGED <<given, current>>

\* Wrong on purpose: contacts that were visited are reached again.
QueueAll == {c \in DOMAIN labels \ {Root} : suppressed[c] = "no"}

\* The contacts that may be reached next.
Queue == {c \in DOMAIN labels \ (visited \cup {Root}) : suppressed[c] = "no"}

\* find_best_contact: the queue has no order that counts, so any of the best.
Best(queue) == {c \in queue : \A d \in queue : ~ CompareEdges(labels[d], labels[c])}

\* The next round of dijkstra_search, with its test for the destination.
FindBestContact ==
  /\ pc = "choose"
  /\ \/ Best(Queue) = {} /\ pc' = "failed" /\ UNCHANGED current
     \/ /\ current' \in Best(Queue)
        /\ pc' = IF current'.toNode = Destination THEN "found" ELSE "relax"
  /\ UNCHANGED <<given, suppressed, visited, labels>>

\* populate_route: the path that leads to contact.
PathTo(contact) ==
  LET path[c \in DOMAIN labels] ==
        IF c = Root THEN <<>> ELSE Append(path[labels[c].predecessor], c)
  IN  path[contact]

LastSpur == at + 1 = Len(route)

\* compute_all_spurs after a search: the spur from the next hop, or again from the local
\* node if a route of a new neighbor was found and is selected.
NextSpur ==
  /\ pc \in {"found", "failed"}
  /\ \/ /\ pc = "found" /\ PathTo(current)[1].toNode # route[1].toNode
        /\ selected' = selected \cup {PathTo(current)}
        /\ excluded' = excluded \cup {PathTo(current)[1].toNode}
        /\ pc' = "start" /\ first' = FALSE
        /\ UNCHANGED <<now, route, at>>
     \/ /\ pc' = IF LastSpur THEN "over" ELSE "start"
        /\ at' = IF LastSpur THEN at ELSE at + 1
        /\ first' = FALSE
        /\ UNCHANGED <<now, selected, route, excluded>>
  /\ UNCHANGED <<suppressed, visited, labels, current>>

NextRoute ==
  /\ pc = "over"
  /\ AnyRoute /\ pc' = "start"
  /\ UNCHANGED <<now, selected, suppressed, visited, labels, current>>

Next == StartSpur \/ ComputeNewDistances \/ FindBestContact \/ NextSpur \/ NextRoute

\* A search is one function call of the program: it goes on until it returns.
Spec == Init /\ [][Next]_vars /\ WF_vars(ComputeNewDistances \/ FindBestContact)

-----------------------------------------------------------------------------
\* The state has its type, and what is selected are paths that visit no node twice.
TypeOK ==
  /\ now \in Time /\ selected \subseteq Routes /\ route \in selected
  /\ at \in 0 .. Len(route) - 1 /\ excluded \subseteq Nodes /\ first \in BOOLEAN
  /\ suppressed \in [contacts -> Marks]
  /\ visited \subseteq contacts \cup {Root} /\ DOMAIN labels \subseteq contacts \cup {Root}
  /\ \A c \in DOMAIN labels : labels[c] \in Label
  /\ current \in contacts \cup {Root}
  /\ pc \in {"start", "relax", "choose", "found", "failed", "over"}

\* A search finds a path of earliest arrival among all that go on from the root path over
\* contacts that are neither excluded nor the start of a route selected before, and fails
\* only if there is none: the marks an earlier spur of the route left on the contacts hide
\* nothing that this one may use, and what they do hide would lead into a loop.
SearchExact ==
  LET barred == {c \in contacts : \/ at = 0 /\ c.fromNode = LocalNode /\ c.toNode \in excluded
                                  \/ \E p \in selected : /\ IsStrictPrefix(prefix, p)
                                                         /\ c = p[at + 1]}
      paths == Continuations(prefix, contacts \ barred, Destination, now)
  IN  /\ pc = "found" => PathTo(current) \in Earliest(paths, now)
      /\ pc = "failed" => paths = {}

\* Each distance, be it of the root path or of a contact in the queue, is that of the path
\* its predecessors form: one from the local node over contacts in time for it.
LabelsSound ==
  pc \in {"relax", "choose", "found", "failed"} =>
    \A c \in DOMAIN labels \ {Root} :
      LET path == PathTo(c)
      IN  /\ path[1].fromNode = LocalNode /\ path[Len(path)] = c
          /\ \A i \in 1 .. Len(path) - 1 : path[i].toNode = path[i + 1].fromNode
          /\ BarelyFeasible(path, now)
          /\ labels[c].arrival = Arrival(path, now) /\ labels[c].hops = Len(path)

\* The distances are those of paths, and the path found is the best there is, or none is.
SearchSound == TypeOK /\ LabelsSound /\ SearchExact

\* Each search ends.
SearchEnds == pc = "relax" ~> pc \in {"found", "failed"}

=============================================================================
