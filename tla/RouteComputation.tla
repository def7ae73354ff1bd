-------------------------- MODULE RouteComputation --------------------------
(***************************************************************************)
(* A routing call to one destination: the conversation of phase two        *)
(* (phase_two.c), which sorts the routes computed so far into candidates   *)
(* and routes to start again from, with phase one (phase_one.c), which     *)
(* computes more of them, and the routes (routes.c) that are kept from one *)
(* call to the next.                                                       *)
(*                                                                         *)
(* Phase one is Yen's algorithm with Lawler's modification, restarted at   *)
(* each call where the calls before have left it.  Yen's "list A" is       *)
(* selected, his "list B" is known.  One Dijkstra search is one step here, *)
(* with any path of earliest arrival as its result: module Dijkstra shows  *)
(* that this is what the search finds.                                     *)
(*                                                                         *)
(* The contact plan does not change between the calls of this module, as a *)
(* change discards all routes (module UniboCGR); contacts only expire.     *)
(***************************************************************************)
EXTENDS ContactGraph

CONSTANTS Destination,   \* the terminus node of the bundles
          Agent          \* what agents do: the limits of neighbors they set, where 0 is "no
                         \* limit", their bundles, and the times of their calls

\* What a bundle is here: the contacts whose volume does not suffice for it, when it
\* expires, the neighbors it must not be sent to, and whether it is critical.
BundleType == [full : SUBSET Network, expiration : Nat, excluded : SUBSET Nat,
               critical : BOOLEAN]

ASSUME RouteComputationAssumption ==
  /\ Destination \in Nodes \ {LocalNode}
  /\ Agent \subseteq [limits : (SUBSET Nat) \ {{}}, bundles : SUBSET BundleType,
                     times : (SUBSET Nat) \ {{}}]

VARIABLES agent,      \* the agent
          now,        \* current_time
          limit,      \* feature_one_route_per_neighbor_limit, 1 without the feature
          contacts,   \* the contacts that are not removed
          routes,     \* the routes in memory, by address
          selected,   \* RtgObject.selectedRoutes, addresses
          known,      \* RtgObject.knownRoutes
          bundle,     \* the bundle of the call
          pc,         \* where the call is
          two,        \* PhaseTwoSAP and the results of getCandidateRoutes
          one,        \* PhaseOneSAP
          yen         \* the locals of computeOtherRoutes and of what it calls

instance == <<agent, now, limit>>
tables == <<routes, selected, known>>
vars == <<instance, contacts, tables, bundle, pc, two, one, yen>>

None == 0      \* the NULL address, and the NULL rootOfSpur

\* root is how many hops a route shares with the one it was computed from (rootOfSpur);
\* father is get_route_father, the children lists being its inverse.
RouteType == [hops : SimplePaths, root : Nat, spursComputed : BOOLEAN, father : Nat,
              selFather : Nat, selChild : Nat, arrival : Nat, computedAt : Nat,
              checked : BOOLEAN]

NoBundle == [full |-> {}, expiration |-> 0, excluded |-> {}, critical |-> FALSE]
NoPhaseTwo == [suppressed |-> {}, served |-> {}, candidates |-> <<>>, subset |-> <<>>,
               missing |-> 0]
NoPhaseOne == [excluded |-> {}, alreadyExcluded |-> FALSE, knownUpdated |-> FALSE]
NoYen == [todo |-> <<>>, before |-> 0, performed |-> FALSE, update |-> FALSE, at |-> 0,
          upper |-> 0, again |-> FALSE, computedNow |-> FALSE, allFound |-> FALSE]

NoRoutes == [id \in {} |-> NoBundle]

Init ==
  /\ agent \in Agent
  /\ now = Min(agent.times) /\ limit \in agent.limits /\ contacts = Network
  /\ routes = NoRoutes /\ selected = <<>> /\ known = <<>>
  /\ bundle = NoBundle /\ pc = "idle"
  /\ two = NoPhaseTwo /\ one = NoPhaseOne /\ yen = NoYen

-----------------------------------------------------------------------------
(* Routes *)

Neighbor(r) == r.hops[1].toNode

\* A critical bundle sets the limit aside for its own call.
LimitNow == IF bundle.critical THEN 0 ELSE limit

FreeAddress == Min(1 .. Cardinality(DOMAIN routes) + 1 \ DOMAIN routes)

\* Wrong on purpose: the relatives of a deleted route are left as they are.
DeleteOnly(rs, ids) == [i \in DOMAIN rs \ ids |-> rs[i]]

\* delete_cgr_route for each of ids: update_references makes the relatives forget it, and a
\* chain of selected routes that loses its end gives spurs again.
Delete(rs, ids) ==
  LET addresses == DOMAIN rs \cup {None}
      elder[i \in addresses] == IF i \in ids THEN elder[rs[i].selFather] ELSE i
      younger[i \in addresses] == IF i \in ids THEN younger[rs[i].selChild] ELSE i
  IN  [i \in DOMAIN rs \ ids |->
        [rs[i] EXCEPT
           !.father = IF @ \in ids THEN None ELSE @,
           !.selFather = elder[@],
           !.spursComputed = @ /\ (rs[i].selChild \in ids => younger[rs[i].selChild] # None),
           !.selChild = younger[@]]]

\* list without ids.
Keep(list, ids) ==
  LET kept[i \in 0 .. Len(list)] ==
        IF i = 0 THEN <<>>
        ELSE IF list[i] \in ids THEN kept[i - 1] ELSE Append(kept[i - 1], list[i])
  IN  kept[Len(list)]

NeighborsOf(list) == {Neighbor(routes[id]) : id \in Range(list)}

Children(id) == {i \in DOMAIN routes : routes[i].father = id}

NewRoute(path, root, father) ==
  [hops |-> path, root |-> root, spursComputed |-> FALSE, father |-> father,
   selFather |-> None, selChild |-> None, arrival |-> Arrival(path, now),
   computedAt |-> now, checked |-> FALSE]

Added(rs, id, r) == [i \in DOMAIN rs \cup {id} |-> IF i = id THEN r ELSE rs[i]]

-----------------------------------------------------------------------------
(* Dijkstra searches *)

Paths == PathsTo(Destination)

\* What dijkstra_search finds from the end of prefix.
Found(prefix, avoided) ==
  Earliest(Continuations(prefix, contacts \ avoided, Destination, now), now)

\* neighbor_is_excluded
ToNeighbors(nodes) == {c \in contacts : c.fromNode = LocalNode /\ c.toNode \in nodes}

\* Wrong on purpose: the routes found before are found again.
AvoidNothing(prefix) == {}

\* avoid_duplicate_routes: how the selected routes go on after prefix.
AvoidDuplicates(prefix) ==
  {routes[id].hops[Len(prefix) + 1] :
     id \in {i \in Range(selected) : IsStrictPrefix(prefix, routes[i].hops)}}

-----------------------------------------------------------------------------
(* The call, and phase two *)

Neighbors(cs) == {c.toNode : c \in {d \in cs : d.fromNode = LocalNode}}

\* is_node_in_destination_neighbors_list: nothing discovers the neighbors of a destination
\* (SET_NEIGHBORS_DISCOVERED has no caller), so any neighbor may lead to it.
InDestinationNeighbors(n) == n \in Neighbors(contacts')

\* suppress_destination_excluded_neighbors: the excluded neighbors count as served.
SuppressedNeighbors(b) == {n \in b.excluded : InDestinationNeighbors(n)}

Tick ==
  /\ pc = "idle"
  /\ now' \in {t \in agent.times : t > now}
  /\ UNCHANGED <<agent, limit, contacts, tables, bundle, pc, two, one, yen>>

\* UniboCGR_feature_OneRoutePerNeighbor_enable: a limit of 1 takes effect at once, another
\* one only if the feature was disabled.
EnableOneRoutePerNeighbor(new) ==
  /\ pc = "idle" /\ limit # new
  /\ limit' = new
  /\ \/ new = 1 /\ UNCHANGED tables
     \/ limit = 1 /\ routes' = NoRoutes /\ selected' = <<>> /\ known' = <<>>
  /\ UNCHANGED <<agent, now, contacts, bundle, pc, two, one, yen>>

\* UniboCGR_feature_OneRoutePerNeighbor_disable
DisableOneRoutePerNeighbor ==
  /\ pc = "idle" /\ limit # 1 /\ 1 \in agent.limits
  /\ limit' = 1
  /\ routes' = NoRoutes /\ selected' = <<>> /\ known' = <<>>
  /\ UNCHANGED <<agent, now, contacts, bundle, pc, two, one, yen>>

\* getBestRoutes up to executeCGR: what has expired is removed, contacts with the routes
\* that cite them, and the phases are reset.
Call(b) ==
  /\ pc = "idle" /\ b.expiration >= now
  /\ bundle' = b
  /\ contacts' = {c \in contacts : c.toTime > now}
  /\ LET lost == {id \in DOMAIN routes : ~ Range(routes[id].hops) \subseteq contacts'} IN
       /\ routes' = Delete(routes, lost)
       /\ selected' = Keep(selected, lost)
       /\ known' = Keep(known, lost)
  /\ two' = [NoPhaseTwo EXCEPT !.suppressed = SuppressedNeighbors(b)]
  /\ one' = NoPhaseOne
  /\ pc' = IF Neighbors(contacts') = {} THEN "done" ELSE "two"
  /\ UNCHANGED <<instance, yen>>

IsExcluded(r) == Neighbor(r) \in bundle.excluded

\* Wrong on purpose: other routes are looked for only if the bundle would be late.
CheckRouteTime(r) ==
  IF \/ IsExcluded(r)
     \/ Range(r.hops) \cap bundle.full # {}
     \/ ~ Feasible(r.hops, now)
  THEN "useless"
  ELSE IF Arrival(r.hops, now) > bundle.expiration THEN "discarded" ELSE "candidate"

\* checkRoute and computePBAT: "candidate", "discarded" if other routes may be computed
\* from the route, or "useless".
CheckRoute(r) ==
  LET late == r.arrival > bundle.expiration IN
  CASE ~ late /\ IsExcluded(r) /\ LimitNow # 1 -> "useless"
    [] \/ late
       \/ IsExcluded(r) /\ LimitNow = 1
       \/ ~ IsExcluded(r) /\ \/ Range(r.hops) \cap bundle.full # {}
                             \/ ~ Feasible(r.hops, now)
                             \/ Arrival(r.hops, now) > bundle.expiration -> "discarded"
    [] OTHER -> "candidate"

\* How many neighbors a route is wanted for.
Wanted ==
  LET all == Cardinality(Neighbors(contacts))
  IN  IF LimitNow > 0 THEN Min({all, LimitNow}) ELSE all

\* reached_neighbors_limit, for the neighbors that have a candidate.
ReachedNeighborsLimit(served) ==
  \/ Cardinality(served) >= Wanted
  \/ Cardinality(Neighbors(contacts)) <= Cardinality(served) + Cardinality(two.suppressed)

\* computeExpectedBundleDeliveryTime brings the arrival time of the route up to date.
Timed(r) ==
  IF /\ ~ r.checked /\ r.arrival <= bundle.expiration
     /\ ~ IsExcluded(r)
     /\ Range(r.hops) \cap bundle.full = {} /\ Feasible(r.hops, now)
  THEN [r EXCEPT !.arrival = Arrival(r.hops, now)]
  ELSE r

\* update_neighbors_counter: the neighbors that have a candidate, with these new ones.
ServedWith(candidates) == two.served \cup NeighborsOf(candidates)

\* insert_route_in_subset_computed_routes: routes that phase one can start again from.
InsertInSubset(discarded) == Keep(discarded, {id \in DOMAIN routes : routes[id].spursComputed})

\* remove_neighbor_from_subset_computed_routes, for each neighbor that has a candidate.
RemoveFromSubset(list, served) ==
  Keep(list, {id \in DOMAIN routes : Neighbor(routes[id]) \in served})

\* phase_one_conversation_management for all routes just sorted: what phase one is given to
\* start from, nothing once enough neighbors have a candidate.
Subset(candidates, discarded) ==
  LET served == ServedWith(candidates)
  IN  IF ReachedNeighborsLimit(served) THEN <<>>
      ELSE RemoveFromSubset(InsertInSubset(discarded), served)

\* The selected routes of a kind.  Routes are sorted once.
Sorted(kind) ==
  Keep(selected, {id \in Range(selected) : routes[id].checked \/ CheckRoute(routes[id]) # kind})

\* getCandidateRoutes, and the decision of executeCGR to go to phase one.  The \E bind the
\* two kinds, for TLC to sort the routes once.
PhaseTwo ==
  /\ pc = "two"
  /\ routes' = [id \in DOMAIN routes |->
                  IF id \in Range(selected)
                  THEN [Timed(routes[id]) EXCEPT !.checked = TRUE] ELSE routes[id]]
  /\ \E candidates \in {Sorted("candidate")}, discarded \in {Sorted("discarded")} :
       LET served == ServedWith(candidates)
           reached == ReachedNeighborsLimit(served)
       IN  /\ two' = [two EXCEPT
                 !.candidates = @ \o candidates,
                 !.served = served,
                 !.missing = IF reached THEN 0 ELSE Wanted - Cardinality(served),
                 !.subset = Subset(candidates, discarded)]
           /\ pc' = IF reached THEN "done" ELSE "one"
  /\ UNCHANGED <<instance, contacts, selected, known, bundle, one, yen>>

-----------------------------------------------------------------------------
(* Phase one *)

\* update_cost_values of the known routes, those that can no longer be travelled keeping
\* the arrival time they have.
UpdatedKnown(rs) ==
  [id \in DOMAIN rs |->
     IF id \in Range(known) /\ rs[id].computedAt # now /\ BarelyFeasible(rs[id].hops, now)
     THEN [rs[id] EXCEPT !.arrival = Arrival(rs[id].hops, now)]
     ELSE rs[id]]

\* computeRoutes and computeOtherRoutes up to their loops.
ComputeRoutes ==
  /\ pc = "one"
  /\ IF selected = <<>>
     THEN /\ routes' = Delete(routes, Range(known)) /\ known' = <<>>
          /\ one' = [one EXCEPT !.knownUpdated = TRUE]
     ELSE /\ routes' = IF ~ one.knownUpdated /\ two.subset # <<>>
                       THEN UpdatedKnown(routes) ELSE routes
          /\ one' = [one EXCEPT
                !.knownUpdated = @ \/ two.subset # <<>>,
                !.excluded = IF LimitNow # 1 /\ ~ one.alreadyExcluded
                             THEN @ \cup NeighborsOf(selected) ELSE @,
                !.alreadyExcluded = @ \/ LimitNow # 1]
          /\ UNCHANGED known
  /\ yen' = [NoYen EXCEPT !.todo = two.subset, !.before = Len(selected)]
  /\ pc' = IF two.subset = <<>> THEN "neighbors" ELSE "another"
  /\ UNCHANGED <<instance, contacts, selected, bundle, two>>

\* Wrong on purpose: phase two is asked again although it would see no new route.
AnswerAlways(computed) == "two"

\* Where executeCGR goes on after phase one has computed this many routes.
Answer(computed) == IF computed > 0 THEN "two" ELSE "done"

\* A route of a new neighbor goes to list A; its neighbor has no known routes any more.
SelectNew(path) ==
  LET id == FreeAddress
      lost == {i \in Range(known) : Neighbor(routes[i]) = path[1].toNode}
  IN  /\ routes' = Delete(Added(routes, id, NewRoute(path, None, None)), lost)
      /\ selected' = <<id>> \o selected
      /\ known' = Keep(known, lost)

\* exclude_current_neighbor
ExcludedWith(nodes, path) == nodes \cup {path[1].toNode}

\* computeOneRoutePerNeighbor: one round of its loop, with the exclusions made before it.
\* What it has computed is what was selected since yen.before.
OneRoutePerNeighbor ==
  LET computed == Len(selected') - yen.before
      excluded == IF one.alreadyExcluded THEN one.excluded
                  ELSE one.excluded \cup NeighborsOf(selected)
      found == Found(<<>>, ToNeighbors(excluded))
      Excluding(nodes) == one' = [one EXCEPT !.alreadyExcluded = TRUE, !.excluded = nodes]
  IN
  /\ pc = "neighbors"
  /\ \/ /\ found = {}
        /\ UNCHANGED tables
        /\ pc' = Answer(computed)
        /\ Excluding(IF LimitNow = 1 THEN {} ELSE excluded)
     \/ \E path \in found :
          /\ SelectNew(path)
          /\ pc' = IF computed >= two.missing THEN "two" ELSE pc
          /\ Excluding(IF LimitNow = 1 /\ pc' = "two" THEN {} ELSE ExcludedWith(excluded, path))
  /\ UNCHANGED <<instance, contacts, bundle, two, yen>>

-----------------------------------------------------------------------------
(* Phase one: Yen's algorithm *)

\* compute_another_route for the next route of the subset: spurs are computed only if no
\* route computed from this one is left.
AnotherRoute ==
  /\ pc = "another" /\ yen.todo # <<>>
  /\ LET from == Head(yen.todo) IN
     IF routes[from].spursComputed
     THEN /\ yen' = [yen EXCEPT !.todo = Tail(@)]
          /\ UNCHANGED pc
     ELSE /\ yen' = [yen EXCEPT !.at = routes[from].root, !.upper = None, !.again = FALSE,
                                !.computedNow = Children(from) = {}, !.allFound = FALSE]
          /\ pc' = IF Children(from) = {} THEN "spurs" ELSE "best"
  /\ UNCHANGED <<instance, contacts, tables, bundle, two, one>>

\* computeOtherRoutes after its loop.
EndOtherRoutes ==
  /\ pc = "another" /\ yen.todo = <<>>
  /\ one' = [one EXCEPT !.excluded = IF yen.update THEN @ \cup NeighborsOf(selected) ELSE @]
  /\ yen' = [yen EXCEPT !.before = IF yen.performed THEN @ ELSE Len(selected)]
  /\ pc' = IF yen.performed THEN Answer(Len(selected) - yen.before) ELSE "neighbors"
  /\ UNCHANGED <<instance, contacts, tables, bundle, two>>

\* compute_all_spurs goes on one hop further, or ends.
NextSpur(from, allFound) ==
  LET next == yen.at + 1
      last == next = Len(routes[from].hops) \/ next = yen.upper
  IN  /\ pc' = IF last THEN "best" ELSE pc
      /\ yen' = [yen EXCEPT !.at = IF last THEN @ ELSE next, !.allFound = allFound]

\* compute_all_spurs: one round of its loop, the spur from hop yen.at of the route.
Spur ==
  LET from == Head(yen.todo)
      prefix == SubSeq(routes[from].hops, 1, yen.at)
      excluded == IF yen.at = 0 THEN one.excluded \ {Neighbor(routes[from])} ELSE {}
      found == Found(prefix, AvoidDuplicates(prefix) \cup ToNeighbors(excluded))
  IN
  /\ pc = "spurs"
  /\ \/ /\ ~ BarelyFeasible(prefix, now)
        /\ pc' = "best"
        /\ UNCHANGED <<tables, one, yen>>
     \/ /\ BarelyFeasible(prefix, now) /\ found = {}
        /\ NextSpur(from, yen.allFound \/ yen.at = 0)
        /\ UNCHANGED <<tables, one>>
     \/ \E path \in found :
          IF LimitNow = 1 \/ path[1].toNode = Neighbor(routes[from])
          THEN /\ routes' = Added(routes, FreeAddress, NewRoute(path, yen.at, from))
               /\ known' = <<FreeAddress>> \o known
               /\ NextSpur(from, yen.allFound)
               /\ UNCHANGED <<selected, one>>
          ELSE /\ SelectNew(path)
               /\ one' = [one EXCEPT !.excluded = ExcludedWith(@, path)]
               /\ UNCHANGED <<yen, pc>>
  /\ UNCHANGED <<instance, contacts, bundle, two>>

\* What get_best_known_route compares, the first difference deciding.
Costs(r) ==
  <<r.arrival, Len(r.hops), LightAlong(r.hops)[Len(r.hops)],
    IF LimitNow = 1 THEN Neighbor(r) ELSE 0>>

\* Wrong on purpose: fewer hops come first.
CheaperByHops(a, b) ==
  \/ Len(a.hops) < Len(b.hops)
  \/ Len(a.hops) = Len(b.hops) /\ a.arrival < b.arrival

Cheaper(a, b) ==
  \E i \in 1 .. 4 : Costs(a)[i] < Costs(b)[i] /\ \A j \in 1 .. i - 1 : Costs(a)[j] = Costs(b)[j]

\* get_best_known_route: the first of the cheapest, None if there is none.
BestKnown(neighbor) ==
  LET list == Keep(known, {id \in Range(known) : LimitNow # 1 /\ Neighbor(routes[id]) # neighbor})
      Cheapest(i) == \A j \in DOMAIN list : ~ Cheaper(routes[list[j]], routes[list[i]])
  IN  IF list = <<>> THEN None
      ELSE list[CHOOSE i \in DOMAIN list : Cheapest(i) /\ \A j \in 1 .. i - 1 : ~ Cheapest(j)]

\* The end of compute_another_route: the best known route is moved to list A.  If there
\* is none the spurs Lawler's modification leaves out are computed first.
TakeBestKnown ==
  LET from == Head(yen.todo)
      best == BestKnown(Neighbor(routes[from]))
      lastRound == best # None \/ routes[from].root = None \/ yen.again
  IN
  /\ pc = "best"
  /\ routes' = [id \in DOMAIN routes |->
        [routes[id] EXCEPT
           !.spursComputed = @ \/ id = from,
           !.selChild = IF best # None /\ id = from THEN best ELSE @,
           !.selFather = IF best # None /\ id = best THEN from ELSE @]]
  /\ IF best = None THEN UNCHANGED <<selected, known>>
     ELSE selected' = <<best>> \o selected /\ known' = Keep(known, {best})
  /\ IF lastRound
     THEN /\ yen' = [yen EXCEPT !.todo = Tail(@), !.update = @ \/ yen.allFound,
                                !.performed = @ \/ best # None \/ yen.computedNow]
          /\ pc' = "another"
     ELSE /\ yen' = [yen EXCEPT !.at = None, !.upper = routes[from].root, !.again = TRUE,
                                !.allFound = FALSE]
          /\ pc' = "spurs"
  /\ UNCHANGED <<instance, contacts, bundle, two, one>>

-----------------------------------------------------------------------------
\* clear_rtg_object: the end of the call.
Return ==
  /\ pc = "done"
  /\ pc' = "idle"
  /\ routes' = [id \in DOMAIN routes |-> [routes[id] EXCEPT !.checked = FALSE]]
  /\ bundle' = NoBundle /\ two' = NoPhaseTwo /\ one' = NoPhaseOne /\ yen' = NoYen
  /\ UNCHANGED <<instance, contacts, selected, known>>

-----------------------------------------------------------------------------
PhaseOne ==
  \/ ComputeRoutes \/ OneRoutePerNeighbor
  \/ AnotherRoute \/ EndOtherRoutes \/ Spur \/ TakeBestKnown

Next ==
  \/ Tick
  \/ \E new \in agent.limits : EnableOneRoutePerNeighbor(new)
  \/ DisableOneRoutePerNeighbor
  \/ \E b \in agent.bundles : Call(b)
  \/ PhaseTwo
  \/ PhaseOne
  \/ Return

\* A call is one function call of the program: it goes on until it returns.
Spec == Init /\ [][Next]_vars /\ WF_vars(PhaseTwo \/ PhaseOne \/ Return)

-----------------------------------------------------------------------------
(* What a routing call promises *)

\* The state has its type: each route in memory is in one of the two lists, and in one
\* only, and each address of a list is that of a route in memory.
TypeOK ==
  /\ agent \in Agent /\ now \in agent.times /\ limit \in agent.limits /\ contacts \subseteq Network
  /\ \A id \in DOMAIN routes : routes[id] \in RouteType
  /\ Range(selected) \cup Range(known) = DOMAIN routes
  /\ Len(selected) + Len(known) = Cardinality(DOMAIN routes)
  /\ bundle \in agent.bundles \cup {NoBundle}
  /\ pc \in {"idle", "two", "one", "neighbors", "another", "spurs", "best", "done"}

\* The pointers between routes (routes.h: citationToFather and children, selectedFather
\* and selectedChild) agree with each other and lead to routes that exist, whatever was
\* deleted with an expired contact, a new neighbor or the whole list of known routes.
Genealogy ==
  \A id \in DOMAIN routes :
    LET r == routes[id] IN
    /\ r.father # None => r.father \in DOMAIN routes
    /\ r.selFather # None =>
         /\ r.selFather \in Range(selected) /\ id \in Range(selected)
         /\ routes[r.selFather].selChild = id
    /\ r.selChild # None =>
         r.selChild \in DOMAIN routes /\ routes[r.selChild].selFather = id
    /\ r.selChild # None => r.spursComputed

\* The routes that phase two holds, and those that phase one still has to look at, are
\* selected ones, whatever phase one deletes before it looks at them.
HeldSound ==
  Range(two.candidates) \cup Range(two.subset) \cup Range(yen.todo) \subseteq Range(selected)

\* The routes in memory are those of the two lists, the pointers between them are sound, and
\* so are those that a call holds.
MemorySound == TypeOK /\ Genealogy /\ HeldSound

\* The feature is never enabled, and no critical bundle sets a limit of one aside.
OneAtATime == agent.limits = {1} /\ \A b \in agent.bundles : ~ b.critical

\* Without the feature Yen's searches never compute a route that is in memory already, so no
\* bundle is offered the same path twice: what compute_spur_route hides
\* (avoid_duplicate_routes looks at the selected routes only) and what is dropped from the
\* known routes is enough, also from one call to the next.
NoDuplicates ==
  OneAtATime => \A a, b \in DOMAIN routes : routes[a].hops = routes[b].hops => a = b

\* No two routes of Yen's "list A" are the same path: the promise of
\* remove_neighbor_from_known_routes, broken when a critical bundle sets a limit of one
\* neighbor aside for its call.
SelectedDistinct ==
  \A i, j \in DOMAIN selected : routes[selected[i]].hops = routes[selected[j]].hops => i = j

\* A path the bundle of the call could take.
Viable(path) ==
  /\ Range(path) \subseteq contacts \ bundle.full
  /\ Feasible(path, now) /\ Arrival(path, now) <= bundle.expiration
  /\ path[1].toNode \notin bundle.excluded

\* The neighbors that candidates start with, and those that they could start with.
Served == {Neighbor(routes[id]) : id \in Range(two.candidates)}

ViableNeighbors == {path[1].toNode : path \in {p \in Paths : Viable(p)}}

\* A call does not give up early: it ends with a candidate for every neighbor by which any
\* viable path through the plan leads, or for as many as one route per neighbor asks for,
\* although routes were computed for other bundles, at other times, and not all spurs
\* were.
Complete ==
  pc = "done" =>
    \/ ViableNeighbors \subseteq Served
    \/ LimitNow > 0 /\ Cardinality(Served) >= LimitNow

\* The same while the feature is enabled, whenever it was and for critical bundles too.
\* Without it a call may give up, when the last route computed from another one expires
\* while an older one computed from it is alive (compute_another_route).
CompleteIfEnabled == limit # 1 => Complete

\* Without the feature, and as long as no route is of an earlier time, one of the
\* candidates arrives as early as any viable path: Yen's algorithm passes over nothing
\* earlier, although each call goes on with the routes other bundles left.
EarliestFound ==
  /\ pc = "done" /\ two.candidates # <<>> /\ OneAtATime
  /\ \A id \in DOMAIN routes : routes[id].computedAt = now
  =>
    \E id \in Range(two.candidates) :
      \A path \in Paths :
        Viable(path) => Arrival(routes[id].hops, now) <= Arrival(path, now)

\* Each call ends: phase two and phase one do not ask each other for ever, since a route
\* gives its spurs once and a neighbor its first route once.
CallsEnd == pc # "idle" ~> pc = "idle"

=============================================================================
