# Unibo-CGR in TLA+

Unibo-CGR computes routes for bundles in a delay-tolerant network with scheduled
contacts. It is a library: a bundle protocol agent (DTNME, ION) tells it the contact
plan and asks it, bundle by bundle, for the neighbors to forward to. This project
models it from its C source, checks the models with TLC and proves with TLAPS the central
facts about the contact plan, the sessions, the search for a route, the choice among routes, the booking
of volume, the travel of a bundle and the two interfaces.

## The system

| part | files | state | operations |
|---|---|---|---|
| contact graph | `core/contact_plan/contacts` | a red-black tree of contacts by (fromNode, toNode, fromTime); `timeContactToRemove` | add, revise start / end / confidence / rate, remove, find, walk, sweep, shift |
| range graph | `core/contact_plan/ranges` | the same of ranges; `timeRangeToRemove` | the same, owlt for rate |
| nodes | `core/contact_plan/nodes` | destinations with their routes; the neighbors of the local node; `timeNeighborToRemove` | build, sweep, reset |
| instance and API | `core/UniboCGR.c` | session, `current_time`, `reference_time`, features, `mustClearRoutingObjects` | sessions (feature, contact plan, routing) and the calls allowed in each |
| routes | `core/routes` | per destination selected and known routes; hops cite contacts and contacts cite routes; Yen's father and child | create, move, delete |
| routing call | `core/cgr/cgr.c` | the current call | pending update, sweeps, exclusions, MSR or CGR |
| phase one | `core/cgr/phase_one.c` | Dijkstra work areas, Yen's spurs | one more route, or one per neighbor |
| phase two | `core/cgr/phase_two.c` | neighbor counters, subset of computed routes | candidate filter, delivery time, volume |
| phase three | `core/cgr/phase_three.c` | none of its own; it writes `Contact.mtv` | choose best routes, book the volume |
| bundles | `core/bundles` | lists of failed and visited nodes | size estimate, loop lists |
| MSR | `core/msr` | the proposed route of a bundle | follow a proposed route |
| libraries | `core/library`, `core/library_from_ion` | lists, trees, 64-bit scalars, the log | insert, remove, walk, sweep |
| DTNME interface and router | `dtnme` | DTNME's contact list, the deferred list and queue of each link, timers | bring the plan up to date by differences; handle events, reroute |
| ION interface | `ion_bpv7` | edit time of ION's plan; extension blocks | reload the plan when edited; give booked volume back |

The library runs in the thread of its caller; nothing in it is concurrent. What is hard
is *sequence*: the state is a plan, two caches of when something next expires, and
three things derived from the plan and kept across calls (neighbors, routes, booked
volume). The plan is changed in one kind of session and used in another, with the
clock and even the origin of time moving in between. A test exercises a few calls; the
mistakes to fear need a revision after an addition after a sweep, a cached bound that
one path forgot, a route that outlived a contact. `hazards` in `PROJECT.json` lists them
line by line. The interfaces add the failures of a call among several, the
resynchronisation of two copies of the plan, events handled after the state they report
has changed, timers, clones and retransmissions of one bundle, and, under ION, restarts.

What makes each part correct:

* *contact and range graph*: no two entries of a pair overlap; the name (sender,
  receiver, start time) finds an entry; what is over is removed, exactly, at the next
  routing call; the origin of time is invisible from outside.
* *neighbors and routes*: they agree with the plan whenever a bundle is routed.
* *phase three*: the best candidate is chosen; the booked volume adds up; a contact is
  not overbooked.
* *conversation of phases one and two*: it ends, with the best routes among all paths.
* *candidates*: what phase two says of a route is what an exact account of backlog,
  volumes and light times says.
* *citations, trees, lists*: freeing one end of a relation leaves no pointer to it behind;
  the tree is an ordered set, also for those who delete while they walk.
* *interfaces*: after a successful update both copies of the plan agree; a bundle is on one
  queue at a time and is not forgotten; booked volume is given back once.
* *travel*: loops and failed neighbors are avoided as long as another route is viable.

## Modules

| module | models | notes |
|---|---|---|
| `Timetable` | what contacts.c and ranges.c have in common, as operators on sets of entries | a tree is the set of its entries; entries that compare equal are chosen among nondeterministically, as the shape of the tree would decide |
| `ContactPlan` | the two graphs, the two cached bounds, the two clocks; one action per successful call of the contact plan API | a refused call changes nothing and is a stuttering step |
| `AgentPlan` | the abstract specification: the plan in Unix time as `UniboCGR.h` describes it | no reference time, no bounds, no keys |
| `UniboCGR` | sessions and the derived state: the update flag, the neighbors with their bound, the routes kept | extends `ContactPlan`; its calls are the actions of `ContactPlan` within a session |
| `RouteSelection` | phase three and the booking of volume, with the revisions and the features that touch it | candidates are given by phase two |
| `ContactGraph` | a path through the contact graph, its best-case arrival time, what a search may find | definitions only; the two tests of phase one, which differ in whether a contact may be entered as it ends, are `Feasible` and `BarelyFeasible` |
| `Dijkstra` | one search of phase one contact by contact, and the marks it leaves for the next spur of the same route | extends `ContactGraph`; any routes may be selected before |
| `RouteComputation` | routing calls to one destination: the conversation of phases two and one, Yen's algorithm, the routes kept between calls | extends `ContactGraph`; a search is one step |
| `OrderedSet` | the abstract specification of the library's tree: a set of entries changed by requests, each of which is served | |
| `RedBlackTree` | `rbt.c`: insertion and deletion one turn of their loop at a time, search, walks, destruction, and the sweeps that delete while they walk | implements `OrderedSet` |
| `LinkedList` | `list.c`: elements and heads on a heap | definitions only |
| `Citations` | who points to whom between contacts, routes, nodes and neighbors, and every deletion one list element at a time | extends `LinkedList` |
| `CgrScalar` | `scalar.c`: numbers in gigs and units | definitions only |
| `CandidateRoute` | `checkRoute` of phase two for one route: backlog, transmission times, volumes, light times, arrival, call after call | extends `CgrScalar` |
| `PlanSync` | the DTNME interface: the differences between DTNME's list and the plan are applied with the instance's own iterator, while the manager edits | extends `Timetable`, whose operators are the calls it makes |
| `Router` | the DTNME router: every event handler and the timer, over links that open, break and are deleted | what Unibo-CGR answers is any next hop |
| `Reforwarding` | the ION interface of a node with the CGRR block: reload, refill, booking, clones and fragments, restarts | what the core answers is any route the volumes allow |
| `Travel` | a bundle over several ION nodes, with the RGR and CGRR blocks, the anti-loop mechanisms and moderate source routing | what is viable at a node is any set of routes |
| `UniboCGRProofs` | theorems about `ContactPlan`, and that it implements `AgentPlan`; then about `UniboCGR`: routes and neighbors agree with the plan | begins with lemmas about one timetable |
| `DijkstraProofs` | the theorem about `Dijkstra`: what a search finds | begins with paths, their times and their nodes |
| `RouteComputationProofs` | the theorem about `RouteComputation`: the routes in memory | begins with paths, lists and the chains of selected routes |
| `RouteSelectionProofs` | theorems about the choice of routes and the booking of volume | begins with the order of costs and the scan for the best |
| `ReforwardingProofs` | theorems about the giving back of volume | begins with sums over finite sets |
| `TravelProofs` | theorems about `Travel` | begins with the searches in the blocks and in a route |
| `PlanSyncProofs` | theorems about `PlanSync` | begins with the order of the keys and the walk |
| `RouterProofs` | theorems about `Router` | begins with sequences and folds |
| `MC...` | the instances TLC checks | |

### State and code

`contacts`, `ranges` are the trees of `ContactSAP` and `RangeSAP`; times in them are
relative to `referenceTime`, and `currentTime` too, as in the code. `contacts` holds
nodes and times: the rate, the confidence and the booking are not needed to decide which
operations succeed. `neighbors` maps a node to `Neighbor.toTime`. `routes` is the union of
`selectedRoutes` and `knownRoutes` of all destinations; a hop is the contact itself
because the code points to it, so a contact revised in place is revised in the routes.
`session` and `mustClearRoutingObjects` are the fields of the same name.

`Routing` is one action although it makes three sweeps and a search: the caller cannot
interrupt it. The search adds any set of paths a bundle leaving now could travel, which
is what phase one's distances allow and more than it finds. Therefore what is shown of the
routes holds whatever phase one decides to look for.

`ChangePlan` allows the removal that asks for no update (a new end time already over,
`UniboCGR.c:993`) next to the ones that do: entries go, none is added, and an end was named
that is over.

`RouteSelection.Forward` is the end of `executeCGR`: it tests each candidate's volume,
chooses and books. `booked` and `forgotten` are history variables: all that was ever sent over each contact, and how
much of it when the contact was last revised. A switch of an anti-loop feature (`SetAntiLoop`) is made in a session
of its own, so it drops the result of the last call.

`Dijkstra.labels` are the distances in the work area (`ContactNote`) of the contacts in the
queue or on the root path, `suppressed` the marks of the same name, with the reason a
contact is marked as in `SuppressedFlag`; `excluded` is `excludedNeighbors`. One step is a
round of the loop of `dijkstra_search`. The queue is a set: of several best contacts any may
be next.

In `RouteComputation` the routes in memory are records by address; `selected` is
`selectedRoutes`, Yen's list A, and `known` is `knownRoutes`, his list B. `two` is
`PhaseTwoSAP` with the lists `getCandidateRoutes` returns, `one` is `PhaseOneSAP`, `yen` holds
the local variables of `computeOtherRoutes` and of what it calls, and `pc` says which of their
loops the call is in. One round of a loop is one action, so the deletions and insertions
that happen inside a round are part of it. Two abstractions are made:

* A Dijkstra search is part of the step that starts it and yields *any* path of earliest
  arrival that avoids what is suppressed (`Found`). `SearchExact`, of `Dijkstra`, is the
  reason. Hops and light times, which the search also compares, leave fewer choices.
* `PhaseTwo` sorts the selected routes by one definition, `CheckRoute`, where the code passes
  a list through one test after the other; the counters of neighbors follow from the set of
  neighbors served. The volume tests are one: a bundle says over which contacts it does not
  fit (`full`).

A bundle is what phase two sees of it, and each call may be for any of them; what is kept from
call to call are `selected`, `known` and the relatives of a route. `limit` is the setting of
one route per neighbor, 1 when the feature is off; most changes of it discard all routes, the
one to 1 by `..._enable` does not.

In `RedBlackTree` a node bears the name of its entry between calls, and `call` holds the local
variables of the call that runs; the dummy root of insertion and deletion is a node while
they run. A failed allocation in an insertion leaves the new root unrecorded: the tree is then
`torn`, and all one may do is clear it. `walk` is a sweep of `contacts.c` or `ranges.c`: it saves the
next node before it deletes the current one, and a deletion may move an entry from one
node to another.

In `Citations` `walks` is the stack of running loops: each has the list it goes over and the
element it has saved (`next`). What happens between two elements is one action. `heap` holds
every list of every object; an element is named by its address.

In `CandidateRoute` `pc`, `at`, `backlog` and `times` are the local variables of
`computeResidualBacklog` and `computeExpectedBundleDeliveryTime`, one hop per step; `route` is what they leave
in the route. Times are whole seconds and transmission times are integer quotients, as in the
code. The scalars are exact up to the largest integer of a double; that is a bound.

In `PlanSync` `plan` is what Unibo-CGR holds and `lists` what DTNME's manager holds, in its own
time. `step` says where `update_contact_plan` is, `at` is the iterator of the instance, and one turn of
a loop is one action; between any two the manager may edit. The result of a rate change is judged
by a variable that an earlier call set or nobody did (`interface_unibocgr_dtn2.cc:421`): its value
is any. Assumed of the manager: its lists hold no overlaps of a pair, and it raises its update
time at each edit.

In `Router` the events in `events` have been handled by DTNME's daemon or will be when they are
taken from it, always before the router; `deferred` and `queue` belong to a link, `link` is the state that the
convergence layer changes at once and of which the router learns by an event. `inflight` bundles are
being sent, or sent while the event is on its way. A timer fires in its own thread, under the lock of the
handlers. Assumed of DTNME: a link that the router asks for is opened after the router has handled
its creation; a cancelled transmission is followed by a check of the deferred list; `Planned`
are the nodes with an ipn name. `aside`, `homeless` and `late` are history variables: the waiting bundles
that a link passed over or was not checked for, those the last routing found no link for,
and those that a timeout took off a link that had reported them.

In `Reforwarding` `ion` is the volume left in ION's database, `inst` the copy of it in each of
the two instances, `copies` the copies of bundles at the node with the CGRR block of each, `current` whether
the stored edit time is ION's. `owed` is a history variable: what was booked for a
bundle and has not been given back. A call runs in one transaction of ION's database and is one
action.

In `Travel` `geo` is the RGR block and `cgrr` the CGRR block of the bundle, `at` the node
it is at. A node calls Unibo-CGR with any set of viable routes (`viable`); which one is chosen
follows from the anti-loop marks and from moderate source routing. Sending may fail, and the
bundle is then routed again at the same node. `features` are the ones all nodes have, any of the
32 sets.

### Lapses

`UniboCGR.h` asks things of the agent that the code does not enforce. `ContactPlan` has a
constant `Lapses` naming what the agent does nevertheless: offer an interval that encloses
another (`enclosing`), an interval of zero duration (`empty`), a reference or start time
that puts an entry before the origin of time (`hidden`). The promises of the plan hold for
`Lapses = {}`, where an interval that ends before it starts is still offered and the code has
to refuse it; `PlanTypeOK` holds with all lapses. What the first one does is the first of the
known divergences.
Of the others: two entries compare equal when one has zero duration, and the sweep, which
deletes by key, may then delete the live one; and an entry with a negative start time is
not found by `get_contact`. TLC shows both (`SweepExact` with `Lapses` `{"empty"}`,
`Addressable` with `{"hidden"}`); they are not kept as runs, as such
intervals are of no use to an agent.

## Runs

Each run checks with its first invariant the types of its module, the last column says which
other definitions a property is the conjunction of.

| run | asks | properties |
|---|---|---|
| `PlanDisciplined` | does the plan in relative times, with cached bounds and deletion by key, behave as the header says | `PlanTypeOK`, `NoOverlap`, `Addressable`, `ExpiryBound`, `SweepExact`, and the refinement of `AgentPlan` (`AgentView`) |
| `UniboSessions` | do neighbors and routes agree with the plan whenever a bundle is routed; may a session always go on (deadlock is checked) | `RoutesSound` (types, `RoutesCited`), `RoutesCurrent`, `NeighborsExact` |
| `Selection` | are the best routes chosen, and does a contact have left what was not booked since its last revision, with revisions and switches of the anti-loop features in between | `SelectionSound` (types, `NoOverbooking`), `BestChosen`, `BookingAccounted`, `PriorityOrder` |
| `Searches` | does each search find a path of earliest arrival, whatever marks earlier ones left | `SearchSound` (types, `LabelsSound`, `SearchExact`), `SearchEnds` |
| `Routes` | does a call end, and with the routes there are; do the references between routes survive every deletion | `MemorySound` (types, `Genealogy`, `HeldSound`), `CompleteIfEnabled`, `NoDuplicates`, `EarliestFound`, `CallsEnd` |
| `Candidate` | is a candidate delivered and a refused route really not good enough, by an exact account of bytes and seconds | `BacklogExact` (types, `BacklogServed`), `CandidateExact` (`Deliverable`, `RejectedRightly`, `LateOnlyIfLate`), which is about one range on each hop, `LightTimeFound` |
| `Tree` | is the red-black tree an ordered set, also for a sweep that deletes as it walks | `TreeSound` (types, `RedBlack`, `WalksInOrder`, `ClearFreesAll`), `SweepSeesAll`, and the refinement of `OrderedSet` (`IsOrderedSet`), which includes that requests are served |
| `Citing` | is a pointer left behind when contacts, routes, nodes and neighbors are freed in any order, while loops go over the lists | `PointersSound` (types, `SavedAlive`, `ListsSound`, `ContactsCited`, `FamilySound`, `NeighborsCited`), `DeletedOnPurpose`, `WalkAdvances`; deadlock is checked |
| `PlanSync` | do DTNME's lists and the plan agree after an update | `InSync` (types, `Synchronised`), `UnchangedKept`, `CallsEnd` |
| `Router` | is a bundle sent on two links at once, lost, or left behind | `QueuesSound` (types, `SentOnce`), `NoneLost`, `NoneForgotten` (`NoneStuckOnceOffered`, `Armed`) |
| `Reforwarding` | is booked volume given back once unless a fragment is itself cloned, and do the instances know ION's plan and volumes, through clones, timeouts, edits, failures and restarts | `RefillExact` (`RefillCovered`, `QueuedRefundable`), `VolumeCovered`, `InstancesSound` (types, `InstancesAgree`, `PlanLoaded`) |
| `Travel` | does a bundle meet a neighbor or a loop again while another way is viable; does its record tell the way it is really on | `RecordSound` (types, `RecordFollows`), `LoopsAvoided` (`EachNeighborOnce`, `LoopsLast`) |

### How the modules fit together

`UniboCGR` lets a routing call keep any travellable routes; `RouteComputation` says which, from
searches that yield any path of earliest arrival; `Dijkstra` shows that the searches do. `CandidateRoute`
says when a bundle fits a route, which is `full` in `RouteComputation`; `RouteSelection` takes any
list of candidates. `Router`, `Reforwarding` and `Travel` take any answer of the core. Below, `Citations`
shows that the pointers, and `RedBlackTree` that the trees are what the modules above take them
for: sets and sequences.

### Bounds

* One pair of nodes is enough for the plan itself: every test of the code is about
  entries of one pair, and an operation on a pair reads no other. Five instants allow
  three consecutive intervals, gaps, touching and nested intervals. Clock times before,
  at and after the ends occur, and the clock also goes back. Two reference times occur.
* The session model has three nodes and three links (a direct path and a relay), three
  instants and clock values before and after each end; routes have at most two hops. The
  reference time is fixed in `UniboSessions`: the known divergences say why.
* The selection model has two first hops of different neighbors and a shared contact. There are four
  candidates, up to three in a call (`MaxCandidates`) in any order; they differ from one another in single costs, and the
  cheapest but for its end is more of a loop, so that the two settings of the anti-loop features choose differently. The shared
  contact, of volume 2, may be revised to 1 or 3.
* `MaxBooked` bounds the volume ever sent over a contact and cuts: 5 lets the contact be filled, revised and filled again, with the
  excess of critical copies. `booked` is never reset, so it would grow without end. The
  properties count from the last revision on (`SinceRevised`), as the code keeps no more: see the known divergences.
* The searches run in a network of five nodes and nine contacts with a cycle, a way back to
  the local node, two contacts of one pair, one without a range and contacts that close
  before a slow prefix reaches them; one or two routes are selected at first and any
  neighbors are excluded. Of the three times one lets a root path enter a contact just as it ends, and one makes
  it too late.
* The route computations have three neighbors of the local node and two contacts of
  some pairs, so that several spurs exist and list B fills; contacts close between the calls;
  for some bundles no path is viable, for some the first routes are full. One agent never
  enables the feature of one route per neighbor, the other sets its limit at any time and has a
  critical bundle. No call is cut off and no list is bounded.
* `EarliestFound` asks that no route be of an earlier time: once a selected route is a
  candidate phase two asks for no more, and a known route may meanwhile have become the
  better one. That is the design (one route suffices), not a fault.
* The candidate model has three plans of two or three hops, with a contact to the neighbor before
  or after the first hop, booked volumes, and light times that change; a gig is 3 units, so that
  every sum carries. Contacts are certain (confidence 1) and have a rate. A bundle expires before, at or after the
  best-case arrival, so that one with a single range on each hop is refused as too late.
* Seven keys give trees of four levels; TLC's coverage shows that every branch of insertion and
  deletion is taken.
* Two neighbors, three contacts and three routes let routes share contacts, have children and
  change lists; all lists have up to three elements, so the first, a middle and the last one
  are deleted during a walk.
* DTNME's lists hold up to two entries of a pair, out of four instants and two values; `MaxEdits` = 2
  allows an edit before and one during an update.
* Two bundles, one critical and one with custody, two links, of which one exists from the beginning and is always
  on; the queue holds one bundle. `MaxEvents` bounds the events that wait and `MaxFaults` the faults
  (transmissions that fail or are cancelled, links that break). The daemon's queue grows with
  every event, so without a bound there are infinitely many states; two events suffice for an event about a link
  to be handled after the link has changed again.
* Three contacts in two regions, four bundles (bulk, normal, critical, to an unknown region), two copies at a time
  and four outside events (edits, returns, clones, restarts); `Unsteady` are the contacts that ION's
  administration removes and adds. `CloneFragments` is FALSE: a fragment is not itself cloned, see the known divergences.
* Four nodes, all in contact but source and destination, so that loops of two and three nodes are possible;
  `MaxViable` routes are viable in a call, and six attempts to send are enough to
  come round twice.
* `MaxPosixTime` is 100, larger than every time used: "never".

Deadlock is checked where the actor may always do something (`UniboSessions`, `Searches`, `Routes`,
`Tree`, `Citing`). The other models may stop: no call is ever due, or a bound is reached.

### Fairness

The library does nothing unless it is called, so no call is ever required to happen. Within
a call it runs until it returns, in the thread of the caller and without waiting: `Dijkstra`
assumes weak fairness of the steps inside a search, `RouteComputation` of those inside a
routing call, `RedBlackTree` of those inside a call of the tree, `PlanSync` of those inside an update. What
starts a call, a tick of the clock and an edit of the manager are not included. Under it `SearchEnds`, `CallsEnd`
and the progress in `OrderedSet` say that the loops which are not bounded by a counter end:
the search, the conversation of the phases, the descent with its rebalancing, and the walk that starts
over. `Citations` has no fairness: `WalkAdvances` is a variant, from which the end of each walk
follows. Daemons, links and timers of DTNME and ION are owed nothing; `NoneForgotten`
therefore says what cannot be the case once no event is on its way.

### Known divergences

Where a comment or header promises what the code does not do. To see one, change the named
configuration as said; TLC ends with a trace.

| promise | what the code does | configuration |
|---|---|---|
| intervals of a pair do not overlap (`contacts.c:915`, `UniboCGR.h:244`) | a contact that encloses an existing one is inserted: the loop at `contacts.c:980` compares where the new one starts and ends only | `PlanDisciplined.cfg`, `Lapses <- Enclosing`; `NoOverlap` |
| the neighbors hold the last end of their contacts (`nodes.c:1361`) | a change of the reference time rebuilds the neighbors before it shifts the times (`UniboCGR.c:662`) | `UniboSessions.cfg`, `RefTime <- TwoReferences`; `NeighborsExact` |
| "Choose the best route" (`phase_three.c:286`), by a cost function that is 0 for "the same cost" (`:154`) | with an anti-loop feature it is -1 for equal loop marks whichever route comes first (`phase_three.c:176`), so of equal `checkValue` the last one wins, whatever its arrival. `BestChosen` asks for the least mark only | `Selection.cfg`, `INVARIANT NoneBetterLeft` |
| a revision keeps the booking (`contacts.c:312`, `:356`) | the mtv is set to the whole volume (`contacts.c:347`, `:391`), so more is sent over the contact than it carries. `BookingAccounted` and `NoOverbooking` count from the last revision on | `Selection.cfg`, `INVARIANT BookingKept` |
| a route's `arrivalTime` is the best case (`routes.h:88`), and a route is too late only if that is (`phase_two.c:1433`) | phase two overwrites it with the arrival computed for one bundle (`phase_two.c:730`) and the next call reads it: where several ranges are valid on a hop in turn, a bundle may be refused that would be in time | `Candidate.cfg`, `INVARIANT LateOnlyIfTooLate` |
| a call finds a route if there is one | spurs are computed from a route only while no route computed from it is alive, so when the last one expires before an older one its spurs are not computed again (`phase_one.c:2006`, `routes.c:177`) | `Routes.cfg`, `Network <- MCNetworkWays`, `Agent <- AgentLost`; `Complete` |
| no two selected routes are the same (`phase_one.c:1542`) | a critical bundle sets a limit of one neighbor aside for its call (`cgr.c:700`); a spur then finds a path that waits in list B, and both are selected | `Routes.cfg`, `Network <- MCNetwork`, `Agent <- AgentTwice`; `SelectedDistinct` |
| no bundle is stuck while a link is open (`UniboCGRBundleRouter.cc:867`) | a bundle deferred without a check of the link, or passed over by one, waits until the next event of the link | `Router.cfg`, `INVARIANT NoneStuck` |
| nothing is in flight on a link that is down, and what was sent is not sent again (`UniboCGRBundleRouter.cc:542`) | a timeout cancels what is in flight (`:545`), also a bundle the link has reported as transmitted. The log then says CANCELLED, so another link may take the bundle before the report is handled | `Router.cfg`, one bundle, critical and without custody (its `Destination` is `<<3>>`, its `PrevHop` `<<0>>`), `Planned = {}`, `AlwaysOn = {}`, both links existing, `MaxEvents = 4`, `MaxFaults = 3`; `AlwaysSentOnce` |
| a timer is set while a link is down with a queue | the timer fires while the link is being opened, and nothing sets it again (`UniboCGRBundleRouter.cc:488`) | `Router.cfg`, `INVARIANT AlwaysArmed` |
| a clone is not taken for its original when it is routed again (`cgrr_utils.c:1127`) | this is so of a clone that is no fragment (`:1124`); a fragment and its clone both give back what was booked once | `Reforwarding.cfg`, `CloneFragments = TRUE`; `RefillCovered` |
| the RGR block names the nodes travelled | `interface_cgr_ion.c:801` tests the fifth character of the text of a node number, so numbers of some lengths are skipped | `Travel.cfg`, `Unread = {2}`; `LoopsAvoided` |

Others were met while reading, and are part of the models as the code has them:

* One route per neighbor, enabled and disabled again: the setting 1 by `..._enable` keeps the
  routes computed under the feature, so `EarliestFound` and `NoDuplicates` are about agents that never enable it.
* `get_applicable_range` (`ranges.c:1133`) stops at a range that ends at the very time it looks for, so one
  that starts then is not found. `LightTimeFound` excepts that second.
* Transmission times are rounded down hop by hop, so `CandidateExact` holds up to a second on each.
* `rbt_insert` returns the root and not the node it inserted, unless the tree was empty; `rbt_clear`
  leaves `length` as it is. Callers ask only whether the result is NULL, and the first insertion sets the length.
* MSR: the hop added to a proposed route is tested against a length that is only filled when the route is finished
  (`UniboCGR.c:1939`), so routes of more than one hop are refused, although `UniboCGR.h:583` describes
  adding hop by hop. A route that begins at this node itself makes the update of its record
  fail, which the forwarder takes for fatal.
* A failed attempt to send leaves the own node twice in the RGR block; the second hides the neighbor
  that failed first. `EachNeighborOnce` excepts nodes where sending failed.
* ION interface: a call returns an error when every route was skipped, for every critical
  bundle and for one without the block, after the core has booked; the caller takes each for fatal, while
  `interface_cgr_ion.c:1488` says that a missing contact is not. The bookings stay until
  the next reload (`leaking`). A reload that failed is not tried again before the next edit, since the edit time is stored
  first (`:1674`). A contact that was removed and added again may be
  refilled beyond its capacity (`replaced`). When the first route is skipped, its hops
  stay on the route object that the next one uses.
* Router: the deferred bundles of a deleted link are not rerouted (`homeless`); a link that goes down with an empty queue
  but with bundles in flight sets no timer; a critical bundle to a singleton destination
  is sent over one link although two next hops are found.
* `insert_citation_to_neighbor`, when it finds no memory, removes an element that is not the citation.

## Proofs

Twenty-five theorems, for every value of the constants that the assumptions of the modules allow;
`PROJECT.json` lists them. Constants are assumed to be of their types; contacts, bundles and links are
finitely many (`Timetable`, `ContactPlan`, `ContactGraph`, `Reforwarding`, `Router`), and so are nodes (`Travel`),
candidates and volumes (`RouteSelection`).

| theorem | states | for |
|---|---|---|
| `PlanTypeCorrect` | `PlanTypeOK` | any lapses |
| `PlanDisjoint`, `PlanAddressable`, `PlanBounds`, `PlanSweepExact` | `NoOverlap`, `Addressable`, `ExpiryBound`, `SweepExact` | `Lapses = {}` |
| `PlanImplementsAgentPlan` | `AgentView`, the refinement | `Lapses = {}` |
| `UniboRoutesSound` | `RoutesSound` | any lapses |
| `UniboRoutesCurrent` | `RoutesCurrent` | `Lapses = {}` |
| `UniboNeighborsExact` | `NeighborsExact` | `Lapses = {}`, one reference time |
| `SearchesAreSound` | `SearchSound` (types, `LabelsSound`, `SearchExact`) | any network, selected routes, root path, excluded neighbors, times |
| `MemoryIsSound` | `MemorySound` (types, `Genealogy`, `HeldSound`) | any network, bundles, limits, times |
| `SelectionBookingAccounted`, `SelectionPriorityOrder`, `SelectionIsSound` | `BookingAccounted`, `PriorityOrder`, `SelectionSound` | any revisions and switches of the anti-loop features; volumes since the last revision |
| `SelectionBestChosen` | `BestChosen` | both settings of the anti-loop features |
| `TravelRecordSound` | `RecordSound` | any features, any node numbers |
| `TravelLoopsAvoided` | `LoopsAvoided` | any features; `Unread = {}` |
| `ReforwardingInstancesSound`, `ReforwardingVolumeCovered` | `InstancesSound`, `VolumeCovered` | any tolerance, fragments cloned or not |
| `ReforwardingRefillExact` | `RefillExact` | no clones of fragments; each contact alone within the tolerance (`Near`) |
| `PlanSyncInSync`, `PlanSyncUnchangedKept` | `InSync`, `UnchangedKept` | any lists without overlaps |
| `RouterQueuesSound`, `RouterNoneLost`, `RouterNoneForgotten` | `QueuesSound`, `NoneLost`, `NoneForgotten` | any links, bundles, queue limits |

Where a theorem has a hypothesis, what happens without it is one of the known divergences: `Lapses`,
the second reference time, the clones of fragments, the unread node
numbers. `Near` is a choice of the plan: two
contacts of a pair that start within the tolerance would be refilled together.

### The inductive invariants

*Plan.* None of its properties is inductive alone. That a new entry is apart from all others
follows from the tests of the loop only if the entries before it have a duration, start at
or after the origin (else the walk would not meet them) and are disjoint; that a
revision stays apart from *all* entries although the code compares it with one neighbour of
the tree needs that the others are in order; that a deletion by key deletes what was meant
needs distinct keys; that the bound is below every end needs every addition to lower
it. `PlanInv` is the conjunction (`PlanTyped`, and for contacts and ranges `Sound`:
disjoint, ordered, bounded). `UniboCGRProofs` begins with one lemma per operator saying
that it keeps `Sound`, applies them action by action, and then
shows that each action maps to a step of `AgentPlan` under the shift by
`referenceTime`, and that a change of the reference time maps to a stutter.

*Sessions.* `UniboPlanStep` shows that each step of `UniboCGR` is one of `ContactPlan` or leaves the plan
alone, so `PlanInv` holds there too. `UniboTyped` says that every route begins at the local
node and passes by entries of the graph. A call changes one entry at most (`ContactChange`), therefore
following a revision in place by pointer gives each hop a contact of the new graph and keeps where
the route begins (`FollowedOn`). `UniboCurrent` adds that the kept routes are connected and their `toTime`
is the least end, unless the update flag is set: a call that does not set it only removes, and removing a contact
removes the routes over it. `UniboExact` says of the neighbors that they match the contacts (`NeighborsMatch`) unless an
update is due or a session of the contact plan is open, which asks for one when it closes.
That the last contact of a neighbor in the order of the tree is also the last to end, which the code takes for
granted, follows from `NoOverlap` (`NeighborListsMatch`); that the sweep of contacts leaves
just the neighbors the sweep of neighbors leaves is `RoutingExact`.

*Searches.* `DijkstraInv` speaks of the marks, of the distances and of the order of the visits. Between spurs the marks that
last are those of the nodes the root path has left so far, and a contact marked for a loop leads to one of them
(`MarksLast`); during a search whatever is hidden is barred, has no range or leads back to the root path, and whatever is
barred is hidden (`MarksSound`). A distance beyond the root path is what its predecessor gave it (`Reached`), and its predecessor was
visited, with one hop less: so the path to a contact is found by going back, and its times are the
distances (`PathsTraced`, `PathTimes`). No contact that waits is nearer than one visited (`VisitsOrdered`), and no visited
contact can still improve a distance (`Relaxed`). From the last two follow both halves of `SearchExact`. Of any path there is to find, the
queue holds a contact, and reached no later than by that path: its first contact not visited in time
(`QueueAhead`). And the path found comes by no node twice, although the search is over contacts and has no mark for nodes
beyond the root path: had the path been at a node before, the contact it goes on by would have been reached from that first
visit already, no later and with fewer hops (`FoundSimple`). There the order of
distances has to be lexicographic, arrival and then hops, as `compare_dijkstra_edges` has it. A path and its times are recursive
functions; that they satisfy their equations is again shown by the least number of hops for which they would not.

*Routes in memory.* `update_references` joins the selected father of a deleted route to its selected child, so
deleting many routes joins the nearest ancestor that is left to the nearest descendant that is left, as
`Delete` has it in one step. That these exist, and that each is the other's end of the same chain
(`ElderMeetsYounger`), needs that no route is among its own ancestors: `Acyclic`, which `Genealogy` does not say. It holds
because a route becomes the child of a selected one when it enters list A and its selected father is never replaced but by an
ancestor. The chains are recursive functions; that they are defined, and what they return, is shown by the least rank for which
it would not hold (`FollowedExists`, `FollowedFacts`). A route enters list A as a child only of one without a child: compute_another_route
comes to a route whose spurs are not computed, which by `Genealogy` has none, and until it is done
nothing gives it one (`Holding`). What phase one deletes in the middle of a call are known routes, and what the call holds are selected
ones, so `HeldSound` needs that the lists share no route (`Listed`). Two facts about data are part of it: a new route gets a free address
(`FreeAddressIs`), and the order of costs has a least element on every list, so that the best known route is one of
the known routes (`LeastTuple`, `BestKnownIs`); for this light times and arrivals have to be numbers, which they are as every hop of a route has a
range (`RoutesTyped`).

*Booking.* `PriorityOrder` is preserved because each mtv is the volume less
what was booked at its priority and above since the last revision, so the invariant is `BookingAccounted` with the types and with
`forgotten` never more than `booked` (`AccountInv`), and the order follows from it. The step needs that the copies of a bundle are
finitely many, whatever the cost function chooses.

*Choice.* The best route is what a scan over the list is left with (`BestIndex`). `BestSoFarExists` says that the scan is
defined on every list, and `BestSoFarUnbeaten`, by the first place of the list where it would not hold, that nothing seen beats
the best so far. What beats it beats all it has beaten because `Better` is transitive; it is a strict order only without an
anti-loop feature, so what both have in common is said of `Beats`: better whichever of the two comes first. `SelectionInv` adds
to `AccountInv` the types, the choice of the last call and `NoOverbooking`. At most one copy of a critical
bundle goes over each neighbor, so what exceeds a volume is at most a bundle for each neighbor with a route over the
contact (`CopiesBound`, `ExcessNat`).

*Travel.* `RecordFollows` is inductive with the types: the record is written for the route that is
chosen, and the node after the next finds itself in it. `LoopsAvoided` needs that the block tells the travel and does not
invent any. In `BlockTells` each node in the block is followed by one it has sent the bundle to, or by itself
where sending failed, every trip is told but the one that is on its way, and what is told was so. From it follows
that the search for the own node finds every neighbor that has got the bundle from here (`FailedNeighbors`), and
that a route over a node that the block names is marked as a loop.

*Giving back.* `IInv` (types, `InstancesAgree`, `PlanLoaded`) is inductive: a refill
or a booking changes an instance's volume and ION's by the same amounts, even where a call fails half way.
`VolumeCovered` is inductive beside it: a route takes at least as much off ION as it adds to `owed`, and what
a refill returns is taken off `owed`. `RefillExact` is not inductive: a whole bundle in the queue may yet
become fragments whose records say less. `RecordInv` counts what each copy may give back
(`Backed`, the whole of a queued copy) and says that all copies of a bundle together are backed by what
is owed; besides, the lock, the size and the clone level in the block agree with where the copy is in its
life (`Consistent`). The sums are the library's `SumFunctionOnSet`. That it unfolds in any order is proved without
an induction theorem: of the sets for which it fails one is the smallest, and taking an element from
it leaves one for which it does not fail (`SmallestSet`, `SumRemove`).

*Synchronisation.* `SyncInv` says for each place of `update_contact_plan` what has been done. During the walk:
every entry passed is as the list has it, or was refused its new end by an entry that the walk
has yet to remove (`Walked`); the removal makes the walk start over, and that is why a refused extension is not lost.
During the additions: nothing but the list's entries is in the plan, and what was offered is, unless it is over. That the entry
that refuses has no match in the list (`BlockerUnmatched`) needs the lists to be free of overlaps.

*Router.* `QueueInv` joins the log to the queues: it says QUEUED of exactly the bundles on a link, a bundle on a
link is on no other and was not sent (`LogSound`), and a report that waits is still true (`ReportsTrue`), unless
the bundle is `late`. `NoneLost` is inductive beside it. `NoneForgotten` needs two parts. `OfferInv`: a link that is open and has
nothing to send was offered all that waits for it, or an event that ends with a check of it is on its way. `TimerInv`: the queue
of a link that is not open has a timer, or a `contact_down` is to come and follows every event that would take
the timer away; a timer that fired left the queue empty, or `contact_up` is on its way. The two speak of
the order of the events in the daemon's queue, so every handler and every step outside has a case. `route_bundle` and the
rerouting of all bundles are folds; `FoldExists` shows that the fold is defined on every finite set and `ByRemoval` that what
each step keeps it keeps, again by a smallest set for which it would not.

### What the proofs found

* *Router.* The attempt to prove `SentOnce` without exception failed at a timeout that cancels a bundle
  whose report waits. TLC then found the trace with four events and three faults, two more
  events than the run has: the row on it among the known divergences. `late` names those bundles, and the
  theorem and the run are about the others.
* *`ChangePlan`.* It compared the number of entries before and after, from which nothing can be proved of which
  entries went; it now says that entries are removed and none added, as at `UniboCGR.c:993`.
* *`Travel` and `RouteComputation`.* The marks of a route and the tests of phase two had been written as CASE with guards that
  overlap, so that their meaning rested on the order in which TLC tries them: `"wise"` without MSR next to MSR. Nothing
  can be proved of such a choice; they are now IF chains and disjoint guards, in the order of the code.
* *`RouteSelection`.* With an anti-loop feature it cannot be proved that no candidate left behind is better by the cost function
  (`NoneBetterLeft`): it takes each of two routes with equal loop marks for the better one, whatever their arrival, which is
  the divergence above. What is true under both settings is `BestChosen`, and it is proved for both.
* *`Dijkstra`.* `LabelsSound` said that no path in the work area visits a node twice. The attempt to prove it, and then TLC on
  another network, showed that this is false: the search may go around a cycle away from the local node until
  it comes to a contact already reached. What is true, and stated now, is that the path is one from the local
  node in time; that the path *found* visits no node twice is a part of `SearchExact`. And a root path over a contact without
  a range had been given distances that are none; as in the code, there are none then, since the spur is given up.
* *`RouteComputation`.* That the pointers between routes are sound is not enough for the next step: the lists a call holds have to
  be of selected routes, or a route that phase one deletes would be looked at afterwards. This is `HeldSound`, now checked and proved. The
  lists are filtered by a recursive function (`Keep`), as nothing can be proved of `SelectSeq`.
* *`Router` and `Reforwarding`.* Bundles, links and contacts are now assumed to be finitely many, which the sums and the
  folds need; likewise the nodes of `Travel`, the candidates of `RouteSelection` and the contacts of `ContactGraph`.

The invariants were checked by TLC before they were proved; `QueueInv` and `ForgottenInv` with one bundle up to
`MaxEvents` 5 and `MaxFaults` 3, and with two bundles up to 3 and 2.

### What stays with TLC

* *Liveness* (`SearchEnds`, `CallsEnd`, `IsOrderedSet` as far as requests are served): the prover does not reason
  about fairness or ENABLED.
* *What a recursion over data computes* (`CandidateRoute`, `RouteComputation`, `LinkedList`, `Citations`,
  the blocks of `Travel` beyond one search): the backlog of a list, the paths kept from call to call, the walk over
  linked elements. The induction theorems of the library cannot be instantiated by the provers installed. Sums and folds
  over finite sets, the paths of `Dijkstra` and the chains of `RouteComputation` could be handled by least counterexamples, as above; for the others
  this has not been done. This concerns `BacklogExact`, `CandidateExact`, `LightTimeFound`, `CompleteIfEnabled`, `NoDuplicates`,
  `EarliestFound`, `PointersSound`, `DeletedOnPurpose` and `WalkAdvances`.
* *`TreeSound`, `SweepSeesAll`, the refinement of `OrderedSet`*: the black height and the order of a tree
  are recursive in its shape.

## Not modelled

* Allocation failures, except in the tree, and the error codes of calls that change nothing.
* The log, the time analysis, the example program: output.
* The shape of the trees above `RedBlackTree`: sets of entries stand for them there.
* Functions that nobody calls: `insert_neighbors_to_reach_destination`, the `discardAllRoutesFrom...` pair,
  and of the lists sorting, comparing, `move_before`, inserting before and after an element, removing the first and the
  last. `list_get_equals_elements`, one of them, frees data of the original list.
* The confidence of contacts (taken as 1, at which no path is discarded for it).
* In `CandidateRoute`: contacts without a rate, which the API accepts: they have no volume, so no bundle goes over one
  (on the first hop the division is skipped, `phase_two.c:588`).
* In `RouteComputation`: the time and range at which a contact with more than one range is used,
  and the error for a first hop that is no neighbor, which `RoutesCited` and `NeighborsExact` exclude.
* In `Travel`: critical bundles, the tolerance on the times of a proposed route's contacts, and blocks that do not
  parse. The proposed route is taken from the record that earlier nodes wrote.
* In `Reforwarding`: the computation of the backlog, the configuration, a lookup tolerance that confuses
  contacts of one pair (`Near` is the contact itself), the core's own sweep of contacts that are over, and contacts of
  ION that the core refuses.
* In `Router`: the reload of bundles from storage at start, suppressed bundles, the order of the deferred list by priority
  (any deferred bundle may be the next), bundle-in-bundle encapsulation,
  the backlog reported to Unibo-CGR, local custody beyond the set `Custody`.
* The encoding of the extension blocks as bytes, and the copying of a bundle's fields between the
  structures of DTNME or ION and those of Unibo-CGR.

## Plan

All modules of the plan are written, and the theorems on the plan, the sessions, the searches, the routes in memory, the booking,
the travelling bundles and both interfaces are proved. What is left is `CgrScalar`: that each operation of normal numbers is
normal and adds or subtracts their values; with it the types of `CandidateRoute`.
