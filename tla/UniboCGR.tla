------------------------------ MODULE UniboCGR ------------------------------
(***************************************************************************)
(* A Unibo-CGR instance as UniboCGR.c drives it: the sessions that separate *)
(* the changes of the contact plan from the routing calls, and the two     *)
(* things derived from the plan and kept from one call to the next, the    *)
(* neighbors of the local node (nodes.c) and the routes computed so far    *)
(* (routes.c).  Both are thrown away by an "update" (reset_NodesTree), and *)
(* what this module is about is whether that happens early and often       *)
(* enough.                                                                 *)
(*                                                                         *)
(* The search of phase one is not modelled here: a routing call adds any   *)
(* set of loop-free paths that a bundle leaving now could still travel.    *)
(* Routes are kept with their hops and toTime only.                        *)
(***************************************************************************)
EXTENDS ContactPlan, SequencesExt

CONSTANTS LocalNode,      \* localNode
          Destination     \* the nodes bundles are sent to

ASSUME UniboCGRAssumption == LocalNode \in Node /\ Destination \subseteq Node

Session == {"none", "feature", "contact_plan", "routing"}

VARIABLES session,
          mustClearRoutingObjects,
          neighbors,             \* local_node_neighbors: node |-> Neighbor.toTime
          timeNeighborToRemove,
          routes                 \* selectedRoutes and knownRoutes of all the nodes

neighborVars == <<neighbors, timeNeighborToRemove>>
derivedVars == <<mustClearRoutingObjects, neighborVars, routes>>
vars == <<planVars, session, derivedVars>>

Route == [hops : Seq(Entry), toTime : Int]

\* Types; the neighbors and the first hops of the routes are about the local node.
UniboTypeOK ==
  /\ PlanTypeOK
  /\ session \in Session /\ mustClearRoutingObjects \in BOOLEAN
  /\ DOMAIN neighbors \subseteq Node /\ timeNeighborToRemove \in Int
  /\ \A n \in DOMAIN neighbors : neighbors[n] \in Nat
  /\ \A r \in routes : r \in Route /\ r.hops # <<>> /\ r.hops[1].fromNode = LocalNode

NoNeighbors == [n \in {} |-> 0]

\* UniboCGR_open.  NodeSAP_open clears its structure: the bound is 0, not "never".
Init ==
  /\ PlanInit
  /\ session = "none" /\ mustClearRoutingObjects = TRUE
  /\ neighbors = NoNeighbors /\ timeNeighborToRemove = 0
  /\ routes = {}

-----------------------------------------------------------------------------
(* The neighbors of the local node *)

\* When the last contact of the local node with n in the order of the tree ends: several
\* values only if several contacts have the same key.
LastEnd(es, n) ==
  LET toward == {e \in es : e.fromNode = LocalNode /\ e.toNode = n}
  IN  {e.toTime : e \in {d \in toward : \A c \in toward : c.fromTime <= d.fromTime}}

\* build_local_node_neighbors_list; add_neighbor refuses a negative end.
NeighborLists(es) ==
  LET reached == {e.toNode : e \in {d \in es : d.fromNode = LocalNode}}
      ends == [n \in reached |-> LastEnd(es, n)]
      Kept(f) == [n \in {m \in reached : f[m] >= 0} |-> f[n]]
  IN  {Kept(f) : f \in {g \in [reached -> UNION Range(ends)] : \A n \in reached : g[n] \in ends[n]}}

NextNeighborExpiry(nbs) == Min({MaxPosixTime} \cup Range(nbs))

\* removeOldNeighbors
StillNeighbors(nbs, bound) ==
  IF currentTime >= bound
  THEN [n \in {m \in DOMAIN nbs : nbs[m] > currentTime} |-> nbs[n]]
  ELSE nbs

\* Wrong on purpose: the neighbors are built anew, the routes are kept.
RebuildNeighbors ==
  /\ neighbors' \in NeighborLists(contacts)
  /\ timeNeighborToRemove' = NextNeighborExpiry(neighbors')
  /\ mustClearRoutingObjects' = FALSE
  /\ UNCHANGED routes

\* UniboCGR_force_update: reset_NodesTree discards the nodes with their routes, then the
\* neighbors are built anew.
Rebuild ==
  /\ neighbors' \in NeighborLists(contacts)
  /\ timeNeighborToRemove' = NextNeighborExpiry(neighbors')
  /\ routes' = {}
  /\ mustClearRoutingObjects' = FALSE

-----------------------------------------------------------------------------
(* The routes computed so far *)

Uses(r, e) == \E i \in DOMAIN r.hops : r.hops[i] = e

\* Wrong on purpose: a contact is freed without its routes.
FollowedNot(lost, gained) == routes

\* free_contact deletes the routes that cite a contact leaving the tree; a contact that
\* is revised stays where it is in memory, and so in the routes.
Followed(lost, gained) ==
  IF gained = {}
  THEN {r \in routes : \A e \in lost : ~ Uses(r, e)}
  ELSE LET Now(e) == IF e \in lost THEN CHOOSE new \in gained : TRUE ELSE e
       IN  {[r EXCEPT !.hops = [i \in DOMAIN r.hops |-> Now(r.hops[i])]] : r \in routes}

RoutesFollowContacts == routes' = Followed(contacts \ contacts', contacts' \ contacts)

\* A path a bundle leaving the local node now could travel: it enters each contact at
\* the latest of the start times met so far, and before that contact is over.
Travelable(p) ==
  /\ p[1].fromNode = LocalNode
  /\ \A i \in 1 .. Len(p) - 1 : p[i].toNode = p[i + 1].fromNode
  /\ \A i \in DOMAIN p : p[i].toTime > currentTime /\ p[i].toNode # LocalNode
  /\ \A i, j \in DOMAIN p : j <= i => p[j].fromTime < p[i].toTime
  /\ \A i, j \in DOMAIN p : j # i => p[j].toNode # p[i].toNode

\* A path of n nodes visits a node at most once.
NewRoutes(es, dest) ==
  LET paths == {p \in SeqOf(es, Cardinality(Node) - 1) : p # <<>>}
  IN  {[hops |-> p, toTime |-> Min({p[i].toTime : i \in DOMAIN p})] :
         p \in {q \in paths : Travelable(q) /\ q[Len(q)].toNode = dest}}

-----------------------------------------------------------------------------
(* Sessions *)

\* UniboCGR_feature_open, _contact_plan_open, _routing_open
Open(s, time) ==
  /\ session = "none"
  /\ session' = s
  /\ SetCurrentTime(time)
  /\ UNCHANGED derivedVars

\* UniboCGR_feature_close, UniboCGR_routing_close
Close ==
  /\ session \in {"feature", "routing"}
  /\ session' = "none"
  /\ UNCHANGED <<planVars, derivedVars>>

\* Wrong on purpose: the session is closed without an update, the flag being thought to
\* stand for every change.
ContactPlanCloseOnly ==
  /\ session = "contact_plan"
  /\ session' = "none"
  /\ UNCHANGED <<planVars, derivedVars>>

\* UniboCGR_contact_plan_close
ContactPlanClose ==
  /\ session = "contact_plan"
  /\ session' = "none"
  /\ Rebuild
  /\ UNCHANGED planVars

-----------------------------------------------------------------------------
(* Calls *)

\* A call of the contact plan session that changes a contact or a range.  Giving an entry
\* an end that is already over removes it without asking for an update.
ChangePlan ==
  /\ session = "contact_plan"
  /\ ContactNext \/ RangeNext
  /\ \/ mustClearRoutingObjects' = TRUE
     \/ /\ contacts' \subseteq contacts /\ ranges' \subseteq ranges
        /\ <<contacts', ranges'>> # <<contacts, ranges>>
        /\ \E end \in PlanTime : end - referenceTime <= currentTime
        /\ UNCHANGED mustClearRoutingObjects
  /\ RoutesFollowContacts
  /\ UNCHANGED <<session, neighborVars>>

\* A call that asks for an update although no interval changes: a new confidence, rate or
\* light time, or the removal of an entry that is not in the plan.
TouchPlan ==
  /\ session = "contact_plan"
  /\ mustClearRoutingObjects' = TRUE
  /\ UNCHANGED <<planVars, session, neighborVars, routes>>

\* UniboCGR_contact_plan_reset: a new, empty NodeSAP.
Reset ==
  /\ session = "contact_plan"
  /\ ResetPlan
  /\ neighbors' = NoNeighbors /\ timeNeighborToRemove' = 0
  /\ routes' = {}
  /\ UNCHANGED <<session, mustClearRoutingObjects>>

\* A feature is switched on or off.
ChangeFeature ==
  /\ session = "feature"
  /\ Rebuild
  /\ UNCHANGED <<planVars, session>>

\* UniboCGR_feature_change_reference_time, which any session allows, and none as well.
ChangeReference(reference) ==
  /\ ChangeReferenceTime(reference)
  /\ Rebuild
  /\ UNCHANGED session

\* UniboCGR_routing and getBestRoutes for a bundle that is not expired: the pending
\* update, the sweep of what is over, and the search.
Routing(dest) ==
  LET updating == mustClearRoutingObjects IN
  /\ session = "routing"
  /\ Sweep
  /\ \E built \in IF updating THEN NeighborLists(contacts) ELSE {neighbors} :
       LET bound == IF updating THEN NextNeighborExpiry(built) ELSE timeNeighborToRemove IN
       /\ neighbors' = StillNeighbors(built, bound)
       /\ timeNeighborToRemove' =
            IF currentTime >= bound THEN NextNeighborExpiry(neighbors') ELSE bound
  /\ \E found \in SUBSET (IF neighbors' = NoNeighbors THEN {} ELSE NewRoutes(contacts', dest)) :
       routes' = found \cup
         IF updating THEN {} ELSE Followed(contacts \ contacts', {})
  /\ mustClearRoutingObjects' = FALSE
  /\ UNCHANGED session

-----------------------------------------------------------------------------
Next ==
  \/ \E s \in Session \ {"none"}, time \in ClockTime : Open(s, time)
  \/ Close
  \/ ContactPlanClose
  \/ ChangePlan
  \/ TouchPlan
  \/ Reset
  \/ ChangeFeature
  \/ \E reference \in RefTime : ChangeReference(reference)
  \/ \E dest \in Destination : Routing(dest)

Spec == Init /\ [][Next]_vars

-----------------------------------------------------------------------------
(* What the derived state promises *)

\* A route never holds a contact that is not in the graph: hops point to contacts, and
\* free_contact has to find every route that cites the one it frees.
RoutesCited ==
  \A r \in routes : \A i \in DOMAIN r.hops : r.hops[i] \in contacts

\* What is kept from session to session is of its type, starts at the local node, and holds
\* no contact that is gone.
RoutesSound == UniboTypeOK /\ RoutesCited

\* The routes phase two goes through are about the plan as it is: each one can still be
\* travelled, and its toTime, computed when it was found, is when its first contact to
\* end is over.  The plan may have been revised since, in any number of sessions.
RoutesCurrent ==
  [][\A dest \in Destination : Routing(dest) =>
       \A r \in routes' :
         /\ Travelable(r.hops)
         /\ r.toTime = Min({r.hops[i].toTime : i \in DOMAIN r.hops})]_vars

\* "Remove the *expired* local node's neighbors" (nodes.c:1361): a routing call knows as
\* neighbors the nodes the local node has a contact with that is not over, until the end
\* of the last one, and no other node.
NeighborsExact ==
  [][\A dest \in Destination : Routing(dest) =>
       LET toward(n) == {c \in contacts' : c.fromNode = LocalNode /\ c.toNode = n}
       IN  /\ DOMAIN neighbors' = {n \in Node : toward(n) # {}}
           /\ \A n \in DOMAIN neighbors' : neighbors'[n] = Max({c.toTime : c \in toward(n)})]_vars

=============================================================================
