------------------------------- MODULE Travel -------------------------------
(***************************************************************************)
(* A bundle on its way over ION nodes that route with Unibo-CGR, with the  *)
(* two extension blocks that nodes leave messages in for later nodes: RGR  *)
(* (rgr.c), the nodes that have sent it, read by the anti-loop mechanisms  *)
(* (bundles.c, loopIdentified), and CGRR (cgrr.c), its routes, read by     *)
(* moderate source routing (msr.c).                                        *)
(*                                                                         *)
(* What routes the core of a node finds viable when it is called depends   *)
(* on its plan, the time, volumes, backlogs: any set of loop-free routes.  *)
(* A contact is a pair of nodes, a route the sequence of its nodes.        *)
(***************************************************************************)
EXTENDS Integers, SequencesExt

CONSTANTS Node, Source, Dest,
          Contact,       \* the pairs of nodes that have a contact
          Unread,        \* the nodes whose number does not pass for one in the RGR block
          Features,      \* the sets of features that the nodes may have
          MsrLowerBound, \* UNIBO_CGR_FEATURE_MSR_UNWISE_NODE_LOWER_BOUND
          MaxViable,     \* bound on the routes that are viable in a call
          MaxSends       \* bound on the attempts to send the bundle

Feature == {"reactive", "proactive", "msr", "wise", "returnToSender"}

ASSUME TravelAssumption ==
  /\ IsFiniteSet(Node) /\ Source \in Node /\ Dest \in Node \ {Source} /\ 0 \notin Node
  /\ Contact \subseteq Node \X Node /\ Unread \subseteq Node
  /\ Features \subseteq SUBSET Feature /\ MsrLowerBound \in Nat /\ MaxViable \in Nat
  /\ MaxSends \in Nat

VARIABLES features, \* those of the nodes, and the bundle's flag
          at,       \* the node that the bundle is at
          sender,   \* clDossier.senderNodeNbr, 0 at the source
          phase,    \* waiting to be forwarded, queued, or the forwarder ended by an error
          next,     \* the neighbor that it is queued for
          geo,      \* the RGR block
          cgrr,     \* the CGRR block
          viable,   \* history: the routes that were viable when it was queued
          trips,    \* history: the hops it has made
          retried,  \* history: the nodes where sending it failed
          sends

vars == <<features, at, sender, phase, next, geo, cgrr, viable, trips, retried, sends>>

\* CGRRouteBlock: of the recomputed routes only the last one is ever read.
NoRoutes == [original |-> <<>>, recomputed |-> <<>>]

Hops(route) == {<<route[i], route[i + 1]>> : i \in 1 .. Len(route) - 1}

\* The loop-free routes from n to the destination.
Routes ==
  [n \in Node |->
     {route \in UNION {[1 .. k -> Node] : k \in 2 .. Cardinality(Node)} :
        /\ route[1] = n /\ route[Len(route)] = Dest
        /\ IsInjective(route) /\ Hops(route) \subseteq Contact}]

\* rgr_offer, cgrr_offer: both blocks are empty.
Init ==
  /\ features \in Features
  /\ at = Source /\ sender = 0 /\ phase = "waiting" /\ next = 0
  /\ geo = <<>> /\ cgrr = NoRoutes
  /\ viable = {} /\ trips = {} /\ retried = {} /\ sends = 0

-----------------------------------------------------------------------------
(* The anti-loop mechanisms *)

\* The geographical route as the interface reads it from the block.
GeoRoute ==
  LET read[i \in 0 .. Len(geo)] ==
        IF i = 0 THEN <<>>
        ELSE IF geo[i] \in Unread THEN read[i - 1] ELSE Append(read[i - 1], geo[i])
  IN  read[Len(geo)]

\* search_ipn_node
InList(list, n) == n \in ToSet(list)

\* Wrong on purpose: only the first return is seen.
FailedOnce(route, own) ==
  LET i == SelectInSeq(route, LAMBDA n : n = own)
  IN  IF i \in 1 .. Len(route) - 1 THEN {route[i + 1]} ELSE {}

\* set_failed_neighbors_list: what follows the own node has sent the bundle back to it; what
\* was just marked is not looked at again.
FailedNeighbors(route, own) ==
  LET checkNext[i \in 0 .. Len(route)] ==
        i # 0 /\ route[i] = own /\ ~ checkNext[i - 1]
  IN  {route[i] : i \in {j \in DOMAIN route : checkNext[j - 1]}}

\* The first hop, but the last one, that leads to a node of the geographical route; 0 if none.
LoopLevel(route) ==
  SelectInSeq(SubSeq(route, 2, Len(route) - 1), LAMBDA n : InList(GeoRoute, n))

\* Route.checkValue as loopIdentified sets it: NO_LOOP, POSSIBLE_LOOP, CLOSING_LOOP,
\* FAILED_NEIGHBOR.
CheckValue(route) ==
  IF "reactive" \in features /\ route[2] \in FailedNeighbors(GeoRoute, at) THEN 4
  ELSE IF "proactive" \notin features \/ LoopLevel(route) = 0 THEN 1
  ELSE IF LoopLevel(route) = 1 THEN 3 ELSE 2

\* excludeNeighbor takes no number 0, which the sender has at the source.
ExcludeNeighbor(excluded, n) == IF n = 0 THEN excluded ELSE excluded \cup {n}

\* getBestRoutes: the sender is excluded, but for a bundle that may return.
ExcludedNeighbors == IF "returnToSender" \in features THEN {} ELSE ExcludeNeighbor({}, sender)

\* What checkRoute lets pass, whatever loops it has found.
Checked(routes) == {route \in routes : route[2] \notin ExcludedNeighbors}

\* Phase three with the anti-loop mechanisms: of equals any may win.
Best(routes) ==
  {route \in routes : \A other \in routes : CheckValue(route) <= CheckValue(other)}

-----------------------------------------------------------------------------
(* Moderate source routing *)

LastRoute(block) == IF block.recomputed = <<>> THEN block.original ELSE block.recomputed

\* What is left of a recorded route from node n on; empty if n sends none of its hops.
LeftFrom(route, n) ==
  LET i == SelectInSeq(route, LAMBDA m : m = n)
  IN  IF i \in 1 .. Len(route) - 1 THEN SubSeq(route, i, Len(route)) ELSE <<>>

\* UniboCGR_add_moderate_source_routing_hop looks for the sender of a second hop where it was
\* to be the first, whence no more than one hop is accepted.
HopsAccepted(route) == Len(route) = 2 /\ Hops(route) \subseteq Contact

\* The least number of hops of such a route.
LowerBound == IF "wise" \in features THEN 0 ELSE MsrLowerBound

\* UniboCGR_finalize_moderate_source_routing_route
Finalized(route) == HopsAccepted(route) /\ Len(route) - 1 >= LowerBound

\* The route that set_UniboCGR_msr_route hands over, if any.
SourceRoutes ==
  IF "msr" \in features
  THEN {route \in {LeftFrom(LastRoute(cgrr), at)} : Finalized(route)} ELSE {}

\* encode_unique_cgrr_route
Unique(route) == [original |-> route, recomputed |-> <<>>]

\* updateLastCgrrRoute: the block keeps only what is left of the last route.
Reduced(block, n) == Unique(LeftFrom(LastRoute(block), n))

\* It has "no modifications", that is an error, if the last route begins at this node.
Reducible == Head(LastRoute(cgrr)) # at

\* Wrong on purpose: the block is not written again once it has a route.
AddRouteOnce(block, route) == IF block = NoRoutes THEN Unique(route) ELSE block

\* addRoute: the first route is the original one, the others are recomputed.
AddRoute(block, route) ==
  IF block = NoRoutes THEN Unique(route) ELSE [block EXCEPT !.recomputed = route]

\* storeMsrRoute: the routes that were there are discarded.
StoreMsrRoute(block, route) == Unique(route)

\* A node without moderate source routing that is not wise records nothing.
Recorded(route) ==
  IF "msr" \in features THEN StoreMsrRoute(cgrr, route)
  ELSE IF "wise" \in features THEN AddRoute(cgrr, route) ELSE cgrr

-----------------------------------------------------------------------------
(* Routing and forwarding *)

Queued(route, routes) ==
  phase' = "queued" /\ next' = route[2] /\ viable' = routes

\* tryMSR: the route of the record is still viable.
RouteByMSR ==
  \E route \in Checked(SourceRoutes) :
    \/ /\ Reducible /\ Queued(route, {route})
       /\ cgrr' = Reduced(cgrr, at)
    \/ /\ ~ Reducible /\ phase' = "ended" /\ UNCHANGED <<next, viable, cgrr>>

\* executeCGR
RouteByCGR ==
  \E routes \in UNION {kSubset(k, Checked(Routes[at])) : k \in 1 .. MaxViable} :
    \E route \in Best(routes) :
      /\ Queued(route, routes)
      /\ cgrr' = Recorded(route)

Route ==
  /\ phase = "waiting" /\ at # Dest /\ sends < MaxSends
  /\ RouteByMSR \/ RouteByCGR
  /\ UNCHANGED <<features, at, sender, geo, trips, retried, sends>>

\* rgr_processOnDequeue: the node adds itself when the bundle is about to be sent.
Dequeued == Append(geo, at)

Unqueued == phase' = "waiting" /\ next' = 0 /\ viable' = {}

\* It is sent and received; rgr_acquire finds the block well formed.
Send ==
  /\ phase = "queued"
  /\ geo' = Dequeued /\ sends' = sends + 1
  /\ trips' = trips \cup {<<at, next>>} /\ at' = next /\ sender' = at
  /\ Unqueued
  /\ UNCHANGED <<features, cgrr, retried>>

\* The convergence layer gives up: the bundle is to be forwarded again.
SendFails ==
  /\ phase = "queued"
  /\ geo' = Dequeued /\ sends' = sends + 1
  /\ retried' = retried \cup {at}
  /\ Unqueued
  /\ UNCHANGED <<features, at, sender, cgrr, trips>>

\* It is not sent in time; the forwarder that has ended is started again.
Again ==
  /\ phase \in {"queued", "ended"} /\ Unqueued
  /\ UNCHANGED <<features, at, sender, geo, cgrr, trips, retried, sends>>

Next == Route \/ Send \/ SendFails \/ Again

Spec == Init /\ [][Next]_vars

-----------------------------------------------------------------------------
(* What the blocks are for *)

\* Types; a queued bundle goes over a contact to a node that is not excluded.
TypeOK ==
  /\ features \in Features /\ at \in Node /\ sender \in Node \cup {0}
  /\ phase \in {"waiting", "queued", "ended"}
  /\ geo \in Seq(Node) /\ Len(geo) = sends
  /\ \A route \in {cgrr.original, cgrr.recomputed} : route # <<>> => route \in Routes[Head(route)]
  /\ cgrr.recomputed # <<>> => cgrr.original # <<>>
  /\ phase = "queued" <=> next # 0
  /\ phase = "queued" => <<at, next>> \in Contact /\ next \notin ExcludedNeighbors

Visited == {trip[1] : trip \in trips}
Queues == phase = "waiting" /\ phase' = "queued"

\* "Reactive": a node sends the bundle a second time to the same neighbor only if it has sent
\* it to the neighbors of all viable routes before.  Only where no attempt to send has failed:
\* that leaves the node in the block twice, where the second hides the neighbor that follows.
EachNeighborOnce ==
  [][Queues /\ "reactive" \in features /\ at \notin retried /\ <<at, next'>> \in trips
       => \A route \in viable' : <<at, route[2]>> \in trips]_vars

\* "Proactive": it is sent to a node that sent it before, other than as the last hop of its
\* route, only if every viable route goes through a node that did or through a neighbor that
\* has sent it back.
LoopsLast ==
  [][Queues /\ "proactive" \in features /\ next' \in Visited
       => \A route \in viable' :
            \/ ToSet(SubSeq(route, 2, Len(route) - 1)) \cap Visited # {}
            \/ "reactive" \in features /\ <<at, route[2]>> \in trips]_vars

\* The bundle is given to a neighbor again, or goes around a loop, only if nothing is left.
LoopsAvoided == EachNeighborOnce /\ LoopsLast

\* The last recorded route of a queued bundle has the hop that it is queued for: this is the
\* contact whose volume a retry gives back (Reforwarding), and where a later node goes on.
RecordFollows ==
  phase = "queued" /\ features \cap {"msr", "wise"} # {} =>
    LET last == LastRoute(cgrr) IN last # <<>> /\ Head(last) = at /\ last[2] = next

\* The blocks of the bundle tell of its travel what later nodes take them for.
RecordSound == TypeOK /\ RecordFollows

=============================================================================
