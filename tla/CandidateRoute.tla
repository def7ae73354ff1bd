--------------------------- MODULE CandidateRoute ---------------------------
(***************************************************************************)
(* checkRoute of phase two (phase_two.c) for one route, call after call:   *)
(* when its first contact has sent what waits for the same neighbor, when  *)
(* the bundle goes over each hop, whether it fits there, and when it       *)
(* arrives.  What is found is left in the route, and its arrivalTime is    *)
(* read by the next call.                                                  *)
(*                                                                         *)
(* The tests that do not depend on times and volumes are in other modules: *)
(* the excluded neighbors in RouteComputation, the loops in Travel.  The   *)
(* contacts are certain, so that the tests on confidence pass, and have a  *)
(* rate: over one without, which has no volume, no bundle goes.            *)
(***************************************************************************)
EXTENDS CgrScalar, SequencesExt

CONSTANTS Plan,      \* the plans: the contacts with the neighbor and the rest of the route
          Bundle,    \* the bundles, with the backlog the agent reports for them
          Time,      \* the times of the calls
          MaxVolume  \* DBL_MAX

Contact == [fromTime : Nat, toTime : Nat, xmitRate : Nat \ {0}, mtv : Nat]
LightRange == [fromTime : Nat, toTime : Nat, owlt : Nat]

\* first is the place of the route's first hop among the contacts with the neighbor; there
\* is a sequence of ranges per hop.
PlanType(p) ==
  /\ p.toNeighbor \in Seq(Contact) /\ p.first \in DOMAIN p.toNeighbor /\ p.rest \in Seq(Contact)
  /\ p.ranges \in Seq(Seq(LightRange)) /\ Len(p.ranges) = Len(p.rest) + 1

BundleType == [evc : Nat \ {0}, expiration : Nat, applicable : Nat, total : Nat]

ASSUME CandidateRouteAssumption ==
  /\ \A p \in Plan : PlanType(p)
  /\ Bundle \subseteq BundleType /\ \A b \in Bundle : b.applicable <= b.total
  /\ Time \subseteq Nat /\ MaxVolume \in Nat

VARIABLES plan,
          queueDelay,  \* the feature
          now,         \* current_time
          mtv,         \* Contact.mtv of each hop for the bundles' priority
          route,       \* what is kept in the route
          bundle,
          pc,          \* where the call is
          at,          \* the contact or hop that is next
          backlog,     \* the locals of computeResidualBacklog
          times,       \* the locals of computeExpectedBundleDeliveryTime
          result

settings == <<plan, queueDelay>>
vars == <<settings, now, mtv, route, bundle, pc, at, backlog, times, result>>

Hops == <<plan.toNeighbor[plan.first]>> \o plan.rest
FirstHop == Hops[1]

\* Those that have ended are removed when a session is opened (module UniboCGR).
ToNeighbor == SelectSeq(plan.toNeighbor, LAMBDA c : c.toTime > now)
RangesOf(i) == SelectSeq(plan.ranges[i], LAMBDA r : r.toTime > now)

-----------------------------------------------------------------------------
(* Ranges *)

NoRange == -1

\* Wrong on purpose: the first range decides.
FirstRange(ranges, t) ==
  IF ranges # <<>> /\ ranges[1].fromTime <= t /\ t < ranges[1].toTime
  THEN ranges[1].owlt ELSE NoRange

\* get_applicable_range passes over those that end before t.
ApplicableRange(ranges, t) ==
  LET i == SelectInSeq(ranges, LAMBDA r : r.toTime >= t)
  IN  IF i # 0 /\ ranges[i].fromTime <= t /\ t < ranges[i].toTime
      THEN ranges[i].owlt ELSE NoRange

\* owlt and owltMargin
LightTime(owlt) == owlt + (125 * owlt) \div 186282

\* The earliest arrival at the end of each hop, of a bundle without volume.
BestCase(t) ==
  LET arrival[i \in 0 .. Len(Hops)] ==
        IF i = 0 THEN t
        ELSE Max({arrival[i - 1], Hops[i].fromTime})
               + LightTime(ApplicableRange(plan.ranges[i], Hops[i].fromTime))
  IN  arrival

\* The locals outside a call.
NoBacklog == [residual |-> Load(0), relief |-> Load(0), allotment |-> Load(0), volume |-> Load(0)]
NoTimes == [first |-> 0, last |-> 0, arrival |-> 0, lastArrival |-> 0]

\* Phase one has computed the route.
Init ==
  /\ plan \in Plan /\ queueDelay \in BOOLEAN /\ now = Min(Time)
  /\ mtv = [i \in DOMAIN Hops |-> Hops[i].mtv]
  /\ route = [arrivalTime |-> BestCase(now)[Len(Hops)], eto |-> 0, pbat |-> 0,
              routeVolumeLimit |-> 0, committed |-> Load(0), overbooked |-> Load(0)]
  /\ bundle \in {b \in Bundle : \A d \in Bundle : b.expiration >= d.expiration /\ b.total <= d.total
                                                 /\ b.evc <= d.evc}
  /\ pc = "idle" /\ at = 0 /\ result = 0
  /\ backlog = NoBacklog /\ times = NoTimes

-----------------------------------------------------------------------------
(* The backlog *)

Start(c) == Max({now, c.fromTime})

\* "Applicable prior contact volume", SABR 3.2.6.2 d) and e).
Volume(c) == Multiply(Load(c.toTime - Start(c)), c.xmitRate)

AtLeastZero(s) == IF IsValid(s) THEN s ELSE Load(0)

\* Wrong on purpose: the first hop's own volume relieves the backlog.
RelievedByAll(relief, c) == AddTo(relief, Volume(c))

\* The contacts before the first hop relieve the applicable backlog.
Relieved(relief, c) ==
  IF c.fromTime >= FirstHop.fromTime THEN relief ELSE AddTo(relief, Volume(c))

\* One turn of the loop of computeResidualBacklog: what of the whole backlog this contact
\* sends, and what is left.
PriorContact ==
  /\ pc = "backlog" /\ at <= Len(ToNeighbor) /\ ToNeighbor[at].fromTime <= FirstHop.fromTime
  /\ LET c == ToNeighbor[at]
         enough == IsValid(SubtractFrom(Volume(c), route.committed))
     IN
     /\ backlog' = [backlog EXCEPT !.volume = Volume(c),
                                   !.allotment = IF enough THEN route.committed ELSE Volume(c),
                                   !.relief = Relieved(@, c)]
     /\ route' = [route EXCEPT !.committed = AtLeastZero(SubtractFrom(@, Volume(c)))]
  /\ at' = at + 1
  /\ UNCHANGED <<settings, now, mtv, bundle, pc, times, result>>

-----------------------------------------------------------------------------
(* The times *)

Seconds(volume, rate) == Value(Divide(volume, rate))

\* queueDelay: the time that what was booked on the hop takes.
QueueDelay(i) ==
  LET c == Hops[i]
  IN  IF queueDelay THEN ((c.toTime - c.fromTime) * c.xmitRate - mtv[i]) \div c.xmitRate ELSE 0

\* The first hop: when its backlog is sent (SABR 3.2.6.2 i) and 3.2.6.4).
BeginHops ==
  /\ pc = "backlog"
  /\ at <= Len(ToNeighbor) => ToNeighbor[at].fromTime > FirstHop.fromTime
  /\ LET residual == AtLeastZero(SubtractFrom(backlog.residual, backlog.relief))
         eto == Start(FirstHop) + Seconds(residual, FirstHop.xmitRate)
         over == SubtractFrom(Increase(backlog.allotment, bundle.evc), backlog.volume)
     IN
     /\ backlog' = [backlog EXCEPT !.residual = residual]
     /\ route' = [route EXCEPT !.overbooked = AtLeastZero(over), !.eto = eto,
                               !.routeVolumeLimit = MaxVolume]
     /\ times' = [first |-> eto, last |-> eto + Seconds(Load(bundle.evc), FirstHop.xmitRate),
                  arrival |-> Start(FirstHop), lastArrival |-> 0]
  /\ pc' = "hops" /\ at' = 1
  /\ UNCHANGED <<settings, now, mtv, bundle, result>>

\* Wrong on purpose: the last second of the contacts is not used.
VolumeBefore(i, t) ==
  Min({(Min({Hops[j].toTime : j \in i .. Len(Hops)}) - 1 - t) * Hops[i].xmitRate, mtv[i]})

\* computeEffectiveVolumeLimit, SABR 3.2.6.8.9: up to the end of the first contact to end.
EffectiveVolumeLimit(i, t) ==
  LET stop == Min({Hops[j].toTime : j \in i .. Len(Hops)})
  IN  Min({(stop - t) * Hops[i].xmitRate, mtv[i]})

\* Hop i takes the bundle, whose first byte is sent at t and whose last one at u.
Takes(i, t, u) ==
  /\ u <= Hops[i].toTime
  /\ ApplicableRange(RangesOf(i), t) # NoRange
  /\ mtv[i] > 0
  /\ bundle.evc <= EffectiveVolumeLimit(i, t)

\* One turn of the loop of computeExpectedBundleDeliveryTime.
Hop ==
  /\ pc = "hops" /\ at <= Len(Hops)
  /\ Takes(at, times.first, times.last)
  /\ LET light == LightTime(ApplicableRange(RangesOf(at), times.first))
         received == times.last + light
         first == IF at = Len(Hops) THEN times.first
                  ELSE Max({received, Hops[at + 1].fromTime + QueueDelay(at + 1)})
     IN
     /\ times' = [first |-> first,
                  last |-> IF at = Len(Hops) THEN times.last
                           ELSE first + Seconds(Load(bundle.evc), Hops[at + 1].xmitRate),
                  arrival |-> Max({times.arrival, Hops[at].fromTime}) + light,
                  lastArrival |-> received]
     /\ route' = [route EXCEPT
                    !.routeVolumeLimit = Min({@, EffectiveVolumeLimit(at, times.first)})]
  /\ at' = at + 1
  /\ UNCHANGED <<settings, now, mtv, bundle, pc, backlog, result>>

\* A hop that does not take the bundle: no route, -9.
HopFails ==
  /\ pc = "hops" /\ at <= Len(Hops)
  /\ ~ Takes(at, times.first, times.last)
  /\ pc' = "done" /\ result' = -9
  /\ UNCHANGED <<settings, now, mtv, route, bundle, at, backlog, times>>

\* Wrong on purpose: the arrival of this bundle, after what waits before it.
LastArrival == times.lastArrival

\* The best-case arrival that the route keeps.
ArrivalTime == times.arrival

\* computePBAT: the values of phase one are updated whether or not the bundle is in time.
EndHops ==
  /\ pc = "hops" /\ at > Len(Hops)
  /\ IF times.lastArrival > bundle.expiration
     THEN result' = -9 /\ route' = [route EXCEPT !.arrivalTime = ArrivalTime]
     ELSE result' = 0 /\ route' = [route EXCEPT !.arrivalTime = ArrivalTime,
                                                !.pbat = times.lastArrival]
  /\ pc' = "done"
  /\ UNCHANGED <<settings, now, mtv, bundle, at, backlog, times>>

-----------------------------------------------------------------------------
(* Calls *)

\* A backlog the agent reports (UniboCGRSAP_compute_applicable_backlog).
Reported(bytes) == Increase(Load(0), bytes)

\* A route lives as long as its contacts; a bundle that has expired is not routed.
CheckRoute(b) ==
  /\ pc = "idle" /\ b.expiration >= now
  /\ \A i \in DOMAIN Hops : Hops[i].toTime > now
  /\ bundle' = b
  /\ IF route.arrivalTime > b.expiration
     THEN pc' = "done" /\ result' = -4 /\ UNCHANGED <<route, at, backlog>>
     ELSE /\ pc' = "backlog" /\ at' = 1 /\ UNCHANGED result
          /\ route' = [route EXCEPT !.committed = Reported(b.total)]
          /\ backlog' = [NoBacklog EXCEPT !.residual = Reported(b.applicable)]
  /\ UNCHANGED <<settings, now, mtv, times>>

\* The call ends; phase three may choose the route and book it.
Return ==
  /\ pc = "done" /\ pc' = "idle"
  /\ at' = 0 /\ backlog' = NoBacklog /\ times' = NoTimes
  /\ \/ UNCHANGED mtv
     \/ result = 0 /\ mtv' = [i \in DOMAIN mtv |-> mtv[i] - bundle.evc]
  /\ UNCHANGED <<settings, now, route, bundle, result>>

Tick ==
  /\ pc = "idle" /\ now' \in {t \in Time : t > now}
  /\ UNCHANGED <<settings, mtv, route, bundle, pc, at, backlog, times, result>>

Next ==
  \/ \E b \in Bundle : CheckRoute(b)
  \/ PriorContact \/ BeginHops \/ Hop \/ HopFails \/ EndHops
  \/ Return \/ Tick

Spec == Init /\ [][Next]_vars

-----------------------------------------------------------------------------
(* Properties *)

\* The numbers are normal, and those kept in the route are not negative.
TypeOK ==
  /\ plan \in Plan /\ queueDelay \in BOOLEAN /\ now \in Time /\ mtv \in Seq(Int)
  /\ bundle \in Bundle /\ pc \in {"idle", "backlog", "hops", "done"} /\ at \in Nat
  /\ \A name \in DOMAIN backlog : Normal(backlog[name])
  /\ times \in [{"first", "last", "arrival", "lastArrival"} -> Nat]
  /\ result \in {0, -4, -9}
  /\ \A s \in {route.committed, route.overbooked} : Normal(s) /\ IsValid(s)
  /\ \A name \in {"arrivalTime", "eto", "pbat", "routeVolumeLimit"} : route[name] \in Nat

\* The bytes that a contact with the neighbor still sends.
Bytes(c) == (c.toTime - Start(c)) * c.xmitRate

Total(contacts) == FoldLeft(LAMBDA sum, c : sum + Bytes(c), 0, contacts)

\* When the first hop is reached the backlogs, taken off contact by contact and in gigs and
\* units, are what they are in one subtraction: the contacts before the first hop serve the
\* applicable one, and the bundle is overbooked by what does not fit beside the rest of the
\* whole one (computeResidualBacklog, computePBAT and scalar.c).
BacklogServed ==
  (pc = "hops" /\ at = 1) =>
    LET before == SelectSeq(ToNeighbor, LAMBDA c : c.fromTime < FirstHop.fromTime)
        left == Max({0, bundle.total - Total(before)})
        booked == Min({left, Bytes(FirstHop)})
    IN  /\ Value(backlog.residual) = Max({0, bundle.applicable - Total(before)})
        /\ Value(route.committed) = left - booked
        /\ Value(route.overbooked) = Max({0, booked + bundle.evc - Bytes(FirstHop)})

\* So it is in scalars that are never left with a carry or below zero.
BacklogExact == TypeOK /\ BacklogServed

RoundedUp(volume, rate) == (volume + rate - 1) \div rate

OneRangeEach == \A i \in DOMAIN Hops : Len(plan.ranges[i]) = 1

\* When the last byte of the bundle leaves each hop if the first one leaves at the ETO,
\* in whole seconds that are long enough; delay[i] is waited for at hop i.
SentBy(delay) ==
  LET sent[i \in DOMAIN Hops] ==
        RoundedUp(bundle.evc, Hops[i].xmitRate)
          + (IF i = 1 THEN route.eto
             ELSE Max({sent[i - 1] + LightTime(plan.ranges[i - 1][1].owlt),
                       Hops[i].fromTime + delay[i]}))
  IN  sent

NoDelay == [i \in DOMAIN Hops |-> 0]
Queues == [i \in DOMAIN Hops |-> QueueDelay(i)]
ArrivalOf(sent) == sent[Len(Hops)] + LightTime(plan.ranges[Len(Hops)][1].owlt)

\* A bundle for which the route is a candidate is delivered over it: each hop has sent it
\* before its contact ends, but for the second that may have been rounded off at each hop
\* before, and it arrives by the PBAT but for the same (computeExpectedBundleDeliveryTime
\* divides whole numbers).
Deliverable ==
  (pc = "done" /\ result = 0 /\ OneRangeEach) =>
    LET sent == SentBy(NoDelay)
    IN  /\ \A i \in DOMAIN Hops : sent[i] < Hops[i].toTime + i /\ bundle.evc <= mtv[i]
        /\ ArrivalOf(sent) <= route.pbat + Len(Hops)

\* A bundle that a route is not found good enough for could not be delivered over it: some
\* hop has not the volume, has not sent it in time, or it arrives when it has expired.  So
\* the end of a later contact, which bounds the volume of a hop, excludes nothing more
\* (computeEffectiveVolumeLimit).
RejectedRightly ==
  (pc = "done" /\ result = -9 /\ OneRangeEach) =>
    LET sent == SentBy(Queues)
    IN  \/ \E i \in DOMAIN Hops : sent[i] > Hops[i].toTime \/ bundle.evc > mtv[i]
        \/ ArrivalOf(sent) > bundle.expiration

\* At each hop the light time is found if a range applies when the first byte is sent,
\* unless a range ends at that very second: there get_applicable_range stops.
LightTimeFound ==
  (pc = "hops" /\ at \in DOMAIN Hops) =>
    \A k \in DOMAIN plan.ranges[at] :
      LET r == plan.ranges[at][k]
      IN  (/\ r.fromTime <= times.first /\ times.first < r.toTime
           /\ \A j \in DOMAIN plan.ranges[at] : plan.ranges[at][j].toTime # times.first)
          => ApplicableRange(RangesOf(at), times.first) = r.owlt

\* A route is refused for its arrival time only if even a bundle without volume, sent now,
\* would arrive late: what refuses it is the "best case arrival time at the destination"
\* (routes.h:88), although it was left in the route by a call for another bundle
\* (route->arrivalTime in checkRoute and computeExpectedBundleDeliveryTime).
LateOnlyIfTooLate ==
  (pc = "done" /\ result = -4) => BestCase(now)[Len(Hops)] > bundle.expiration

\* That is so over routes with one range on each hop.  With several, the light times left in
\* the route are those of the time at which the other bundle would have been sent.
LateOnlyIfLate == OneRangeEach => LateOnlyIfTooLate

\* A route with one range on each hop is refused for its arrival time only if its best case is
\* too late, and otherwise is a candidate for a bundle exactly if the bundle can be delivered
\* over it, up to the seconds that are rounded off and the time that waits for what is queued
\* on a hop.
CandidateExact == Deliverable /\ RejectedRightly /\ LateOnlyIfLate

=============================================================================
