--------------------------- MODULE RouteSelection ---------------------------
(***************************************************************************)
(* Phase three (phase_three.c): among the candidate routes of a bundle the *)
(* best one is chosen, or for a critical bundle the best one per neighbor, *)
(* and the volume of the bundle is booked on every contact of the chosen   *)
(* routes.  The booked volume lives in the contacts (Contact.mtv), where   *)
(* the next routing call finds it, and where the operations that revise a  *)
(* contact (contacts.c) touch it too.                                      *)
(*                                                                         *)
(* The candidates of a call come from phase two, in the order in which it  *)
(* met them.  Of its tests the one on the remaining volume is modelled;    *)
(* the others only make the list shorter.                                  *)
(***************************************************************************)
EXTENDS Integers, SequencesExt

CONSTANTS Contact,       \* the contacts
          FullVolume,    \* of each contact, the volume it starts with
          RevisedVolume, \* of each contact, the volumes a revision may give it
          Candidate,     \* the routes phase two may offer
          MaxCandidates, \* bound on the routes offered in one call
          Evc,           \* the estimated volume consumptions of the bundles
          Critical,      \* whether some bundles are critical: BOOLEAN or {FALSE}
          MaxBooked      \* bound on the volume ever sent over a contact

Priority == 0 .. 2

Route == [hops : SUBSET Contact, neighbor : Nat, pbat : Int, hopCount : Nat,
          toTime : Int, owltSum : Nat, checkValue : Nat]

Bundle == [priority : Priority, evc : Evc, critical : Critical]

ASSUME RouteSelectionAssumption ==
  /\ FullVolume \in [Contact -> Nat] /\ RevisedVolume \in [Contact -> SUBSET Nat]
  /\ Candidate \subseteq Route /\ IsFiniteSet(Candidate)
  /\ Evc \subseteq Nat \ {0} /\ Evc # {} /\ IsFiniteSet(Evc)
  /\ FALSE \in Critical /\ Critical \subseteq BOOLEAN
  /\ MaxCandidates \in Nat /\ MaxBooked \in Nat

VARIABLES antiLoop,    \* an anti-loop feature is enabled
          volume,      \* (toTime - fromTime) * xmitRate of each contact
          mtv,         \* Contact.mtv
          bundle,      \* the bundle of the last call
          candidates,  \* the routes phase two gave in the last call
          bestRoutes,  \* the routes the last call returned
          booked,      \* history: all that was ever sent over a contact, per priority
          forgotten    \* history: what booked was when the contact was last revised

vars == <<antiLoop, volume, mtv, bundle, candidates, bestRoutes, booked, forgotten>>

\* Types; the last call returned some of the routes it was given, and one of them unless
\* the bundle was critical.
TypeOK ==
  /\ volume \in [Contact -> Nat]
  /\ mtv \in [Contact -> [Priority -> Int]]
  /\ bundle \in Bundle /\ antiLoop \in BOOLEAN
  /\ Range(candidates) \subseteq Candidate
  /\ bestRoutes \subseteq Range(candidates)
  /\ bundle.critical \/ Cardinality(bestRoutes) <= 1
  /\ booked \in [Contact -> [Priority -> Nat]]
  /\ forgotten \in [Contact -> [Priority -> Nat]]

\* create_contact: every level of priority finds the whole volume free.
Init ==
  /\ antiLoop = FALSE
  /\ volume = FullVolume
  /\ mtv = [c \in Contact |-> [p \in Priority |-> FullVolume[c]]]
  /\ bundle \in [priority : {0}, evc : {Min(Evc)}, critical : {FALSE}]
  /\ candidates = <<>> /\ bestRoutes = {}
  /\ booked = [c \in Contact |-> [p \in Priority |-> 0]]
  /\ forgotten = booked

-----------------------------------------------------------------------------
(* Choosing *)

\* What SABR 3.2.8.1.4 compares, each to be minimized, the first difference deciding.
Costs(r) == <<r.pbat, r.hopCount, - r.toTime, r.owltSum, r.neighbor>>

\* Wrong on purpose: any smaller cost decides.
CheaperSomewhere(a, b) == \E i \in 1 .. 5 : Costs(a)[i] < Costs(b)[i]

Cheaper(a, b) ==
  \E i \in 1 .. 5 : /\ Costs(a)[i] < Costs(b)[i]
                    /\ \A j \in 1 .. i - 1 : Costs(a)[j] = Costs(b)[j]

\* Wrong on purpose: the costs decide, whatever the loops.
BetterByCost(a, b) == Cheaper(a, b)

\* best_route_cost_function(a, b) < 0.  With an anti-loop feature the loops decide, and
\* two routes with the same checkValue leave the result at its initial value, -1.
Better(a, b) ==
  \/ antiLoop /\ a.checkValue <= b.checkValue
  \/ ~ antiLoop /\ Cheaper(a, b)

\* Of the candidates with an index in among, the index of the best one: each is compared
\* once, in the order of the list, with the best so far.
BestIndex(cs, among) ==
  LET best[i \in 0 .. Len(cs)] ==
        IF i = 0 THEN 0
        ELSE IF i \in among /\ (best[i - 1] # 0 => Better(cs[i], cs[best[i - 1]]))
             THEN i ELSE best[i - 1]
  IN  best[Len(cs)]

\* getBestRoute
BestRoute(cs) == cs[BestIndex(cs, DOMAIN cs)]

BestRouteVia(n, cs) == cs[BestIndex(cs, {i \in DOMAIN cs : cs[i].neighbor = n})]

\* getOneBestRoutePerNeighbor
OneBestRoutePerNeighbor(cs) ==
  {BestRouteVia(n, cs) : n \in {cs[i].neighbor : i \in DOMAIN cs}}

\* chooseBestRoutes
ChooseBestRoutes(b, cs) ==
  IF b.critical THEN OneBestRoutePerNeighbor(cs) ELSE {BestRoute(cs)}

-----------------------------------------------------------------------------
(* Booking *)

\* Wrong on purpose: any volume left is enough.
FitsSomehow(b, r) == \A c \in r.hops : mtv[c][b.priority] > 0

\* computeExpectedBundleDeliveryTime, SABR 3.2.6.8.9 to 11: the bundle fits in what is
\* left of each contact for its priority.  What is left of the duration is not modelled.
Fits(b, r) == \A c \in r.hops : mtv[c][b.priority] > 0 /\ b.evc <= mtv[c][b.priority]

Copies(c, rs) == Cardinality({r \in rs : c \in r.hops})

\* Wrong on purpose: the lower priorities are booked, the bundle's own is not.
UpdateLowerVolumes(b, rs) ==
  mtv' = [c \in Contact |-> [i \in Priority |->
            IF i < b.priority THEN mtv[c][i] - Copies(c, rs) * b.evc ELSE mtv[c][i]]]

\* update_volumes
UpdateVolumes(b, rs) ==
  mtv' = [c \in Contact |-> [i \in Priority |->
            IF i <= b.priority THEN mtv[c][i] - Copies(c, rs) * b.evc ELSE mtv[c][i]]]

\* Of amounts per priority, what is for bundles of priority p or a higher one.
From(amounts, p) ==
  amounts[2] + (IF p < 2 THEN amounts[1] ELSE 0) + (IF p = 0 THEN amounts[0] ELSE 0)

Record(b, rs) ==
  booked' = [c \in Contact |-> [booked[c] EXCEPT ![b.priority] = @ + Copies(c, rs) * b.evc]]

-----------------------------------------------------------------------------
\* The end of executeCGR for a bundle that phase two found candidates for.
Forward(b, cs) ==
  /\ \A i \in DOMAIN cs : Fits(b, cs[i])
  /\ bundle' = b
  /\ candidates' = cs
  /\ bestRoutes' = ChooseBestRoutes(b, cs)
  /\ UpdateVolumes(b, bestRoutes')
  /\ Record(b, bestRoutes')
  /\ \A c \in Contact : From(booked'[c], 0) <= MaxBooked
  /\ UNCHANGED <<antiLoop, volume, forgotten>>

\* Wrong on purpose: only the lowest priority is given the new volume.
ReviseBulk(c, new) ==
  /\ volume' = [volume EXCEPT ![c] = new]
  /\ mtv' = [mtv EXCEPT ![c][0] = new]
  /\ forgotten' = [forgotten EXCEPT ![c] = booked[c]]
  /\ UNCHANGED <<antiLoop, bundle, candidates, bestRoutes, booked>>

\* revise_contact_start_time, revise_contact_end_time, revise_xmit_rate: the mtv of every
\* priority becomes the new volume, whatever was booked.
ReviseContact(c, new) ==
  /\ volume' = [volume EXCEPT ![c] = new]
  /\ mtv' = [mtv EXCEPT ![c] = [p \in Priority |-> new]]
  /\ forgotten' = [forgotten EXCEPT ![c] = booked[c]]
  /\ UNCHANGED <<antiLoop, bundle, candidates, bestRoutes, booked>>

\* UniboCGR_feature_ReactiveAntiLoop_enable and the three like it, in a session of their
\* own: the routes the last call returned are gone.
SetAntiLoop(enabled) ==
  /\ antiLoop' = enabled
  /\ candidates' = <<>> /\ bestRoutes' = {}
  /\ UNCHANGED <<volume, mtv, bundle, booked, forgotten>>

Offers == {cs \in SeqOf(Candidate, MaxCandidates) : cs # <<>> /\ IsInjective(cs)}

Next ==
  \/ \E b \in Bundle, cs \in Offers : Forward(b, cs)
  \/ \E c \in Contact : \E new \in RevisedVolume[c] : ReviseContact(c, new)
  \/ \E enabled \in BOOLEAN : SetAntiLoop(enabled)

Spec == Init /\ [][Next]_vars

-----------------------------------------------------------------------------
\* The candidates that the chosen route b was preferred to: the others, for a critical
\* bundle those of its neighbor.
LeftBehind(b) ==
  {r \in Range(candidates) \ {b} : bundle.critical => r.neighbor = b.neighbor}

\* "Choose the best route" (phase_three.c:286), "at most one route per neighbor" for a
\* critical bundle (:412), by one scan of the list: without an anti-loop feature no candidate
\* left behind is cheaper than the one chosen, with one none is less of a loop (of equal loops
\* any may be chosen, see NoneBetterLeft); and exactly one is chosen, per neighbor if critical.
BestChosen ==
  /\ \A b \in bestRoutes, r \in Range(candidates) : r \in LeftBehind(b) =>
       IF antiLoop THEN b.checkValue <= r.checkValue ELSE ~ Cheaper(r, b)
  /\ \A r \in Range(candidates) : \E b \in bestRoutes :
       /\ bundle.critical => r.neighbor = b.neighbor
       /\ \A d \in bestRoutes \ {b} : bundle.critical /\ d.neighbor # b.neighbor

\* The same by the cost function itself, of which the header says that -1 means "the first
\* Route is better" (phase_three.c:153): it says so of no candidate left behind.  With an
\* anti-loop feature this is not so: it is -1 for equal loops, and the last of them wins.
NoneBetterLeft ==
  \A b \in bestRoutes, r \in Range(candidates) : r \in LeftBehind(b) => ~ Better(r, b)

SinceRevised(c) == [p \in Priority |-> booked[c][p] - forgotten[c][p]]

\* The mtv of a priority is the volume of the contact less everything booked, since the contact
\* was last revised, for bundles of that priority or a higher one: what update_volumes, which
\* walks routes, hops and priorities, has to add up to over any number of bundles.
BookingAccounted ==
  \A c \in Contact, p \in Priority : mtv[c][p] = volume[c] - From(SinceRevised(c), p)

\* The same without the limit to the time since the last revision: "update MTVs (accordingly
\* to new start time -- keep booking information)" (contacts.c:312; :356 for the end time).
\* The code does not: a revision forgets what was booked before (contacts.c:347, :391).
BookingKept ==
  \A c \in Contact, p \in Priority : mtv[c][p] = volume[c] - From(booked[c], p)

\* What is left for a priority is never more than what is left for a higher one: a contact
\* that is full for urgent bundles is full for the others.  Phase two tests one level only.
PriorityOrder ==
  \A c \in Contact : mtv[c][0] <= mtv[c][1] /\ mtv[c][1] <= mtv[c][2] /\ mtv[c][2] <= volume[c]

\* By how much the copies of one critical bundle, which are tested one by one and booked
\* together, may go beyond the volume of c: the candidates of different neighbors meet in c.
Excess(c) ==
  LET neighbors == {r.neighbor : r \in {q \in Candidate : c \in q.hops}}
  IN  IF TRUE \in Critical /\ neighbors # {}
      THEN (Cardinality(neighbors) - 1) * Max(Evc) ELSE 0

\* Since it was last revised, bundles of one priority have not filled a contact beyond its
\* volume, whatever was sent at the other priorities and in whatever order, but for the copies
\* of one critical bundle.  (What was sent before a revision comes on top: see BookingKept.)
NoOverbooking ==
  \A c \in Contact, p \in Priority : SinceRevised(c)[p] <= volume[c] + Excess(c)

\* A selection of candidates is of its type, of one route unless the bundle is critical,
\* and overbooks no contact since its last revision.
SelectionSound == TypeOK /\ NoOverbooking

=============================================================================
