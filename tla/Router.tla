------------------------------- MODULE Router -------------------------------
(***************************************************************************)
(* The DTNME router (UniboCGRBundleRouter.cc, BundleRouter.cc): it asks    *)
(* Unibo-CGR for the next hops of a bundle, puts the bundle on the         *)
(* deferred list of the links that lead there, and moves bundles from a    *)
(* deferred list to the link's queue while the link and a contact of the   *)
(* contact plan are open.                                                  *)
(*                                                                         *)
(* Everything but a timeout is a handler of an event; the daemon calls the *)
(* handlers one after the other, in the order of the events.  Meanwhile    *)
(* the convergence layer sends bundles and opens, breaks and reconnects    *)
(* links, and the timer thread runs timeouts.  Daemon, links and           *)
(* forwarding log are DTNME's, modelled from how the router uses them: the *)
(* daemon handles an event before it hands it to the router.               *)
(* What Unibo-CGR answers is any next hop, or for a critical bundle any    *)
(* two; no answer makes the destination the next hop.                      *)
(***************************************************************************)
EXTENDS Integers, FiniteSets, SequencesExt

CONSTANTS Bundle,       \* bundles, numbered in the order of the pending list
          Link,         \* the links
          Remote,       \* the node each link leads to
          Planned,      \* the nodes with an ipn name, the only ones in the contact plan
          Destination,  \* the destination of each bundle
          PrevHop,      \* the node each bundle came from, 0 if it was created here
          Critical,     \* the bundles that may be given two next hops
          Custody,      \* the bundles this node keeps until another takes custody
          AlwaysOn,     \* the links of type ALWAYSON
          Existing,     \* the links that exist in the beginning
          QueueHigh,    \* qlimit_bundles_high
          QueueLow,     \* qlimit_bundles_low
          MaxEvents,    \* bound on the events the daemon has yet to handle
          MaxFaults     \* bound on what goes wrong or is changed from outside

Node == Range(Remote)

ASSUME RouterAssumption ==
  /\ Bundle \subseteq Nat \ {0} /\ IsFiniteSet(Bundle) /\ IsFiniteSet(Link)
  /\ Critical \subseteq Bundle /\ Custody \subseteq Bundle
  /\ Link \subseteq Nat \ {0} /\ Remote \in [Link -> Nat \ {0}]
  /\ Planned \subseteq Node /\ Destination \in [Bundle -> Nat \ {0}] /\ PrevHop \in [Bundle -> Nat]
  /\ AlwaysOn \subseteq Link /\ Existing \subseteq Link
  /\ QueueHigh \in Nat \ {0} /\ QueueLow \in 1 .. QueueHigh
  /\ MaxEvents \in Nat /\ MaxFaults \in Nat

VARIABLES pending,   \* the daemon's pending bundles
          listed,    \* the links with a deferred list (router_info)
          deferred,  \* DeferredList.list_ of each link
          queue,     \* the link's queue
          inflight,  \* the bundles the link is sending, or has sent without the daemon knowing
          log,       \* the latest entry of the forwarding log, per bundle and link
          link,      \* Link::state
          routes,    \* the links the route table has an entry for
          timer,     \* reroute_timers_: none, pending, or fired (missed: while the link was
                     \* being opened, say) and still in the map
          open,      \* the nodes with an open contact in the contact plan
          events,    \* the daemon's events, first come first served
          faults,    \* what went wrong so far, for the bound
          aside,     \* history: <<b, l>> deferred without a check of l, or passed over by it
          homeless,  \* history: the bundles the last routing found no link for
          late       \* history: the bundles a timeout took off a link that had reported them

vars == <<pending, listed, deferred, queue, inflight, log, link, routes, timer, open,
          events, faults, aside, homeless, late>>

\* What route_bundle and check_next_hop, and the daemon before them, read and write.
State ==
  [pending |-> pending, deferred |-> deferred, queue |-> queue, inflight |-> inflight,
   log |-> log, link |-> link, routes |-> routes, listed |-> listed, aside |-> aside]

Init ==
  /\ pending = {} /\ listed = Existing /\ routes = Existing
  /\ deferred = [l \in Link |-> <<>>]
  /\ queue = [l \in Link |-> <<>>] /\ inflight = [l \in Link |-> <<>>]
  /\ log = [b \in Bundle |-> [l \in Link |-> "NONE"]]
  /\ link = [l \in Link |-> IF l \in Existing THEN "UNAVAILABLE" ELSE "NONE"]
  /\ timer = [l \in Link |-> "none"]
  /\ open = {}
  /\ events = <<>> /\ faults = 0 /\ aside = {} /\ homeless = {} /\ late = {}

Waiting(s, b, l) == b \in Range(s.deferred[l])
On(s, b, l) == b \in Range(s.queue[l]) \cup Range(s.inflight[l])

\* Where a bundle is that has a link to go over.
Placed(s, b) == \E l \in Link : Waiting(s, b, l) \/ On(s, b, l)

\* The members of seq that are in S, in their order.
Only(seq, S) ==
  LET kept[i \in 0 .. Len(seq)] ==
        IF i = 0 THEN <<>> ELSE kept[i - 1] \o (IF seq[i] \in S THEN <<seq[i]>> ELSE <<>>)
  IN  kept[Len(seq)]

Without(seq, S) == Only(seq, Bundle \ S)

\* The handler leaves s; the bundles in routed have just been routed.
Become(s, routed) ==
  /\ pending' = s.pending /\ deferred' = s.deferred /\ queue' = s.queue
  /\ inflight' = s.inflight /\ log' = s.log /\ link' = s.link
  /\ routes' = s.routes /\ listed' = s.listed
  /\ aside' = {p \in s.aside : Waiting(s, p[1], p[2])}
  /\ homeless' = {b \in (homeless \cup routed) \cap s.pending : ~ Placed(s, b)}
  /\ late' = late

-----------------------------------------------------------------------------
(* BundleRouter::should_fwd *)

\* Wrong on purpose: only the link itself is looked at.
ShouldFwdOver(s, b, l) == s.log[b][l] \notin {"QUEUED", "TRANSMITTED"}

\* A bundle for a single destination is sent on one link at a time, and once.
ShouldFwd(s, b, l) == \A m \in Link : s.log[b][m] \notin {"QUEUED", "TRANSMITTED"}

-----------------------------------------------------------------------------
(* check_next_hop *)

Ready(s, l) ==
  /\ Remote[l] \in Planned => Remote[l] \in open
  /\ s.link[l] = "OPEN" /\ Len(s.queue[l]) < QueueLow

Sendable(s, l) == Only(s.deferred[l], {b \in Bundle : ShouldFwd(s, b, l)})

\* The loop over the deferred list, which starts over after each bundle it moves: the
\* bundles that may be sent, in their order, up to the upper limit of the queue.
Moved(s, l) ==
  SubSeq(Sendable(s, l), 1, Min({Len(Sendable(s, l)), QueueHigh - Len(s.queue[l])}))

CheckNextHop(s, l) ==
  LET moved == Moved(s, l)
      passed == Range(s.deferred[l]) \ Range(Sendable(s, l))
  IN
  IF ~ Ready(s, l) THEN s
  ELSE [s EXCEPT
          !.deferred[l] = Without(@, Range(moved)),
          !.queue[l] = @ \o moved,
          !.log = [b \in Bundle |->
                     IF b \in Range(moved) THEN [@[b] EXCEPT ![l] = "QUEUED"] ELSE @[b]],
          !.aside = {p \in @ : p[2] # l} \cup (passed \X {l})]

-----------------------------------------------------------------------------
(* route_bundle *)

\* callUniboCGR; an empty answer stands for the destination.
Answers(b) ==
  {<<n>> : n \in Node} \cup {<<Destination[b]>>}
    \cup IF b \in Critical THEN {p \in Node \X Node : p[1] # p[2]} ELSE {}

\* RouteTable::get_matching for each next hop.
Matches(s, hops) ==
  FlattenSeq([i \in DOMAIN hops |-> SetToSeq({l \in s.routes : Remote[l] = hops[i]})])

\* fwd_to_nexthop: a link that is available is opened; the bundle is always deferred, to be
\* sent in the order of its arrival.
FwdToNexthop(s, b, l) ==
  [s EXCEPT !.link[l] = IF @ = "AVAILABLE" THEN "OPENING" ELSE @,
            !.deferred[l] = Append(@, b)]

\* Wrong on purpose: the link is looked at before the bundle is on its list.
TryRouteEarly(s, b, l, checks) ==
  FwdToNexthop(IF checks THEN CheckNextHop(s, l) ELSE s, b, l)

\* One entry of the route table.
TryRoute(s, b, l, checks) ==
  LET given == FwdToNexthop(s, b, l)
  IN  IF checks THEN CheckNextHop(given, l) ELSE [given EXCEPT !.aside = @ \cup {<<b, l>>}]

Skipped(s, b, l) ==
  \/ PrevHop[b] = Remote[l] \/ ~ ShouldFwd(s, b, l)
  \/ l \notin s.listed \/ Waiting(s, b, l)

\* The loop over the matching routes; nothing follows a link that is always on.
RouteBundle(s, b, hops, checks) ==
  FoldLeft(LAMBDA acc, l :
             IF acc.done \/ Skipped(acc.s, b, l) THEN acc
             ELSE [s |-> TryRoute(acc.s, b, l, checks), done |-> l \in AlwaysOn],
           [s |-> s, done |-> FALSE],
           Matches(s, hops)).s

\* reroute_all_bundles: the first bundle "primes the pump for all of the other bundles".
RerouteAll(s, answer) ==
  MapThenFoldSet(LAMBDA b, acc : RouteBundle(acc, b, answer[b], b = Min(s.pending)),
                 s, LAMBDA b : b, Max, s.pending)

Reroutings(s) ==
  {RerouteAll(s, answer) :
     answer \in {a \in [s.pending -> UNION {Answers(b) : b \in s.pending}] :
                   \A b \in s.pending : a[b] \in Answers(b)}}

-----------------------------------------------------------------------------
(* Events *)

Happens(kind, b, l, n) == [kind |-> kind, bundle |-> b, link |-> l, node |-> n]
OfBundle(kind, b, l) == Happens(kind, b, l, 0)
OfLink(kind, l) == Happens(kind, 0, l, 0)
OfNode(kind, n) == Happens(kind, 0, 0, n)

Post(e) == Len(events) < MaxEvents /\ events' = Append(events, e)
Event == Head(events)
Handle(kind) == events # <<>> /\ Event.kind = kind /\ events' = Tail(events)

\* The bundle of the event is routed from state s, and its link is looked at if there is one.
Route(s) ==
  \E hops \in Answers(Event.bundle) :
    LET routed == RouteBundle(s, Event.bundle, hops, TRUE)
    IN  Become(IF Event.kind = "failed" THEN CheckNextHop(routed, Event.link) ELSE routed,
               {Event.bundle})

HandleBundleReceived ==
  /\ Handle("received")
  /\ Route([State EXCEPT !.pending = @ \cup {Event.bundle}])
  /\ UNCHANGED <<timer, open, faults>>

\* remove_from_deferred, for a bundle that was sent or is deleted.
RemoveFromDeferred(s, b) == [s EXCEPT !.deferred = [l \in Link |-> Without(@[l], {b})]]

\* What the daemon did before: the bundle has left the link, and the log tells how.
Left(entry) ==
  [State EXCEPT !.inflight[Event.link] = Without(@, {Event.bundle}),
                !.log[Event.bundle][Event.link] = entry]

\* can_delete_bundle keeps a bundle in custody; any other is gone.
Deleted(s, b) == [s EXCEPT !.pending = IF b \in Custody THEN @ ELSE @ \ {b}]

HandleBundleTransmitted ==
  /\ Handle("transmitted")
  /\ LET sent == RemoveFromDeferred(Left("TRANSMITTED"), Event.bundle)
     IN  Become(Deleted(CheckNextHop(sent, Event.link), Event.bundle), {})
  /\ UNCHANGED <<timer, open, faults>>

\* "try again if not successful the first time"
HandleTransmissionFailed ==
  /\ Handle("failed") /\ Route(Left("TRANSMIT_FAILED"))
  /\ UNCHANGED <<timer, open, faults>>

\* Wrong on purpose: a bundle whose transmission was cancelled is left to its other links.
RoutedAgainNot(b) == \A l \in Link : log[b][l] = "NONE"

\* A bundle that has expired is not routed again.
RoutedAgain(b) == b \in pending

HandleBundleCancelled ==
  /\ Handle("cancelled")
  /\ IF RoutedAgain(Event.bundle) THEN Route(State) ELSE Become(State, {})
  /\ UNCHANGED <<timer, open, faults>>

\* No one took custody in time.
HandleCustodyTimeout ==
  /\ Handle("custody_timeout")
  /\ IF Event.bundle \in pending
     THEN Route([State EXCEPT !.log[Event.bundle][Event.link] = "CUSTODY_TIMEOUT"])
     ELSE Become(State, {})
  /\ UNCHANGED <<timer, open, faults>>

\* contact_up and link_deleted cancel the link's timer.
CancelTimer(l) == [timer EXCEPT ![l] = "none"]

\* add_nexthop_route reroutes everything if the link had no route yet.
HandleContactUp ==
  /\ Handle("contact_up")
  /\ \E s \in IF Event.link \in routes THEN {State}
              ELSE Reroutings([State EXCEPT !.routes = @ \cup {Event.link}]) :
       Become(CheckNextHop(s, Event.link), IF Event.link \in routes THEN {} ELSE pending)
  /\ timer' = CancelTimer(Event.link)
  /\ UNCHANGED <<open, faults>>

\* A timer is set if bundles are queued on the link and none is in the map.
HandleContactDown ==
  /\ Handle("contact_down")
  /\ timer' = [timer EXCEPT ![Event.link] =
                 IF queue[Event.link] # <<>> /\ @ = "none" THEN "pending" ELSE @]
  /\ UNCHANGED <<pending, listed, deferred, queue, inflight, log, link, routes, open,
                 faults, aside, homeless, late>>

\* The daemon says that there may be something to send over a link.
Checks(kind) ==
  /\ Handle(kind) /\ Become(CheckNextHop(State, Event.link), {})
  /\ UNCHANGED <<timer, open, faults>>

HandleLinkAvailable == Checks("available")
HandleLinkCheckDeferred == Checks("check_deferred")

\* A contact of the contact plan began.
HandleContactPlanUp ==
  /\ Handle("plan_up")
  /\ LET links == {l \in Link : link[l] # "NONE" /\ Remote[l] = Event.node}
     IN  Become(FoldSet(LAMBDA l, s : CheckNextHop(s, l), State, links), {})
  /\ UNCHANGED <<timer, open, faults>>

\* The link gets a deferred list and a route, and all bundles are routed again.
HandleLinkCreated ==
  /\ Handle("created")
  /\ \E s \in Reroutings([State EXCEPT !.listed = @ \cup {Event.link},
                                       !.routes = @ \cup {Event.link}]) : Become(s, pending)
  /\ UNCHANGED <<timer, open, faults>>

\* The deferred list goes with the link; its bundles are not routed again.
HandleLinkDeleted ==
  /\ Handle("deleted")
  /\ Become([State EXCEPT !.listed = @ \ {Event.link}, !.routes = @ \ {Event.link},
                          !.deferred[Event.link] = <<>>], Range(deferred[Event.link]))
  /\ timer' = CancelTimer(Event.link)
  /\ UNCHANGED <<open, faults>>

HandleRouteAdd ==
  /\ Handle("route_add")
  /\ \E s \in Reroutings([State EXCEPT !.routes = @ \cup ({Event.link} \cap listed)]) :
       Become(s, pending)
  /\ UNCHANGED <<timer, open, faults>>

HandleRouteDel ==
  /\ Handle("route_del")
  /\ routes' = {l \in routes : Remote[l] # Event.node}
  /\ UNCHANGED <<pending, listed, deferred, queue, inflight, log, link, timer, open, faults,
                 aside, homeless, late>>

HandleEvent ==
  \/ HandleBundleReceived \/ HandleBundleTransmitted \/ HandleTransmissionFailed
  \/ HandleBundleCancelled \/ HandleCustodyTimeout
  \/ HandleContactUp \/ HandleContactDown \/ HandleContactPlanUp
  \/ HandleLinkAvailable \/ HandleLinkCheckDeferred \/ HandleLinkCreated \/ HandleLinkDeleted
  \/ HandleRouteAdd \/ HandleRouteDel

-----------------------------------------------------------------------------
(* The timer thread *)

\* The link has reported that the bundle was sent, or was not: the daemon will hear of it.
Reported(b) ==
  \E i \in DOMAIN events : events[i].kind \in {"transmitted", "failed"} /\ events[i].bundle = b

\* Bundles in S leave link l with a cancelled event each; the link has space again.
Cancel(l, S) ==
  LET gone == Only(queue[l] \o inflight[l], S) IN
  /\ queue' = [queue EXCEPT ![l] = Without(@, S)]
  /\ inflight' = [inflight EXCEPT ![l] = Without(@, S)]
  /\ log' = [b \in Bundle |-> IF b \in Range(gone)
                              THEN [log[b] EXCEPT ![l] = "CANCELLED"] ELSE log[b]]
  /\ events' = events \o [i \in DOMAIN gone |-> OfBundle("cancelled", gone[i], l)]
                       \o (IF gone = <<>> THEN <<>> ELSE <<OfLink("check_deferred", l)>>)

\* reroute_bundles, if the link is still down; its timer stays in the map.  What was in
\* flight goes too: "rerouting them also", even what the link has reported.
Timeout(l) ==
  /\ timer[l] = "pending"
  /\ timer' = [timer EXCEPT ![l] = IF link[l] = "UNAVAILABLE" THEN "fired" ELSE "missed"]
  /\ IF link[l] = "UNAVAILABLE"
     THEN Cancel(l, Bundle) /\ late' = late \cup {b \in Bundle : On(State, b, l) /\ Reported(b)}
     ELSE UNCHANGED <<queue, inflight, log, events, late>>
  /\ UNCHANGED <<pending, listed, deferred, link, routes, open, faults, aside, homeless>>

-----------------------------------------------------------------------------
(* The daemon, the links and the contact plan *)

routerVars == <<pending, listed, deferred, log, routes, timer, aside, homeless, late>>

Fault == faults < MaxFaults /\ faults' = faults + 1

EventOf(b) == \E i \in DOMAIN events : events[i].bundle = b

Receive(b) ==
  /\ b \notin pending /\ ~ EventOf(b) /\ \A l \in Link : log[b][l] = "NONE"
  /\ Post(OfBundle("received", b, 0))
  /\ UNCHANGED <<routerVars, queue, inflight, link, open, faults>>

\* A bundle expires that no link is sending: the daemon cancels its transmission and calls
\* delete_bundle.
Expire(b, l) ==
  /\ b \in pending /\ Fault /\ \A m \in Link : b \notin Range(inflight[m])
  /\ \A m \in Link : On(State, b, m) => m = l
  /\ On(State, b, l) \/ l = Min(Link)
  /\ Cancel(l, {b})
  /\ pending' = pending \ {b} /\ homeless' = homeless \ {b}
  /\ deferred' = RemoveFromDeferred(State, b).deferred
  /\ aside' = {p \in aside : p[1] # b}
  /\ UNCHANGED <<listed, link, routes, timer, open, late>>

\* The other node does not say in time that it took custody.
CustodyLate(b, l) ==
  /\ b \in pending \cap Custody /\ log[b][l] = "TRANSMITTED" /\ ~ EventOf(b) /\ Fault
  /\ Post(OfBundle("custody_timeout", b, l))
  /\ UNCHANGED <<routerVars, queue, inflight, link, open>>

Send(l) ==
  /\ link[l] = "OPEN" /\ queue[l] # <<>>
  /\ queue' = [queue EXCEPT ![l] = Tail(@)]
  /\ inflight' = [inflight EXCEPT ![l] = Append(@, Head(queue[l]))]
  /\ UNCHANGED <<routerVars, link, open, events, faults>>

\* The link reports that a bundle was sent, or was not; the daemon has yet to hear of it.
Report(l, b, kind) ==
  /\ b \in Range(inflight[l]) /\ ~ EventOf(b)
  /\ Post(OfBundle(kind, b, l))
  /\ IF kind = "transmitted" THEN link[l] = "OPEN" /\ UNCHANGED faults ELSE Fault
  /\ UNCHANGED <<routerVars, queue, inflight, link, open>>

SetLink(l, from, to) == link[l] = from /\ link' = [link EXCEPT ![l] = to]

\* A link that is always on is opened once the router knows it, another one when it is
\* available and the router opens it.  An attempt that fails is no contact_down: the
\* contact was never up.
LinkStep(l) ==
  /\ \/ SetLink(l, "NONE", "UNAVAILABLE") /\ Post(OfLink("created", l)) /\ UNCHANGED faults
     \/ /\ SetLink(l, "UNAVAILABLE", "AVAILABLE") /\ l \notin AlwaysOn
        /\ Post(OfLink("available", l)) /\ UNCHANGED faults
     \/ /\ SetLink(l, "UNAVAILABLE", "OPENING") /\ l \in AlwaysOn \cap listed
        /\ UNCHANGED <<events, faults>>
     \/ SetLink(l, "OPENING", "OPEN") /\ Post(OfLink("contact_up", l)) /\ UNCHANGED faults
     \/ SetLink(l, "OPENING", "UNAVAILABLE") /\ UNCHANGED events /\ Fault
     \/ SetLink(l, "OPEN", "UNAVAILABLE") /\ Post(OfLink("contact_down", l)) /\ Fault
     \/ /\ queue[l] = <<>> /\ inflight[l] = <<>> /\ Fault
        /\ SetLink(l, "UNAVAILABLE", "NONE") /\ Post(OfLink("deleted", l))
  /\ UNCHANGED <<routerVars, queue, inflight, open>>

ContactBegins(n) ==
  /\ n \notin open /\ open' = open \cup {n} /\ Post(OfNode("plan_up", n))
  /\ UNCHANGED <<routerVars, queue, inflight, link, faults>>

ContactEnds(n) ==
  /\ n \in open /\ open' = open \ {n} /\ Fault
  /\ UNCHANGED <<routerVars, queue, inflight, link, events>>

\* The operator adds or deletes a route.
RouteChange ==
  /\ Fault
  /\ \/ \E l \in listed : Post(OfLink("route_add", l))
     \/ \E l \in routes : Post(OfNode("route_del", Remote[l]))
  /\ UNCHANGED <<routerVars, queue, inflight, link, open>>

Next ==
  \/ HandleEvent \/ RouteChange
  \/ \E l \in Link : Timeout(l) \/ Send(l) \/ LinkStep(l)
  \/ \E b \in Bundle : Receive(b)
  \/ \E b \in Bundle, l \in Link :
       Expire(b, l) \/ CustodyLate(b, l) \/ Report(l, b, "transmitted") \/ Report(l, b, "failed")
  \/ \E n \in Planned : ContactBegins(n) \/ ContactEnds(n)

Spec == Init /\ [][Next]_vars

-----------------------------------------------------------------------------
(* What the router promises *)

\* Types; a bundle is at most once on a deferred list, only a link the router knows has one,
\* and the forwarding log says QUEUED of exactly the bundles on the link.
TypeOK ==
  /\ pending \subseteq Bundle /\ open \subseteq Planned /\ routes \subseteq Link
  /\ \A l \in Link :
       /\ deferred[l] \in Seq(Bundle) /\ IsInjective(deferred[l])
       /\ deferred[l] # <<>> => l \in listed
       /\ Len(queue[l]) <= QueueHigh
       /\ \A b \in Bundle \ late : log[b][l] = "QUEUED" <=> On(State, b, l)

\* should_fwd: "if so, we shouldn't forward it again".  However failures, timeouts and other
\* next hops follow each other, no bundle is on two links, or on one after it was sent ...
AlwaysSentOnce ==
  \A b \in Bundle : \A l, m \in Link :
    On(State, b, l) /\ l # m => ~ On(State, b, m) /\ log[b][m] # "TRANSMITTED"

\* ... unless a timeout cancelled its transmission after the link had reported it: the log
\* says CANCELLED until the report is handled.
SentOnce ==
  \A b \in Bundle \ late : \A l, m \in Link :
    On(State, b, l) /\ l # m => ~ On(State, b, m) /\ log[b][m] # "TRANSMITTED"

\* The queues, the deferred lists and the forwarding log agree, and let each bundle go once.
QueuesSound == TypeOK /\ SentOnce

\* A pending bundle is deferred, queued or in flight, an event about it is on its way, or
\* another node has it; else the last routing found no link for it.  Whatever links and
\* timers do, none is lost.
NoneLost ==
  \A b \in pending :
    \/ Placed(State, b) \/ EventOf(b) \/ b \in homeless
    \/ b \in Custody /\ \E l \in Link : log[b][l] = "TRANSMITTED"

Coming(l) == \E i \in DOMAIN events : events[i].link = l \/ events[i].node = Remote[l]

Idle(l) == Ready(State, l) /\ queue[l] = <<>> /\ inflight[l] = <<>> /\ ~ Coming(l)

\* route_bundle puts the bundle on the list first "to prevent a bundle getting stuck in the
\* deferred list while a link is open": no link is idle while a bundle waits that it may send.
NoneStuck ==
  \A l \in Link : Idle(l) => \A b \in Range(deferred[l]) : ~ ShouldFwd(State, b, l)

\* That holds of the bundles that were offered to the link at all, when no other had them.
NoneStuckOnceOffered ==
  \A l \in Link : Idle(l) =>
    \A b \in Range(deferred[l]) : ShouldFwd(State, b, l) => <<b, l>> \in aside

\* contact_down sets a timer "in case the link takes too long to come back up": while a link
\* is down with bundles in its queue, a timer will give them to another link ...
AlwaysArmed ==
  \A l \in Link :
    link[l] = "UNAVAILABLE" /\ queue[l] # <<>> /\ ~ Coming(l) => timer[l] = "pending"

\* ... unless it fired while the link was neither open nor down.
Armed ==
  \A l \in Link :
    link[l] = "UNAVAILABLE" /\ queue[l] # <<>> /\ ~ Coming(l) => timer[l] \in {"pending", "missed"}

\* No bundle is forgotten on its way: neither one that an idle link was offered, nor those
\* in the queue of a link that is down.
NoneForgotten == NoneStuckOnceOffered /\ Armed

=============================================================================
