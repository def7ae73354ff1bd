---------------------------- MODULE TravelProofs ----------------------------
(***************************************************************************)
(* The blocks of a bundle tell of its travel what later nodes take them    *)
(* for, and with the anti-loop mechanisms it is given to a neighbor again, *)
(* or goes around a loop, only if nothing is left: for all nodes,          *)
(* contacts and features.                                                  *)
(***************************************************************************)
EXTENDS Travel, SequenceTheorems, FiniteSetTheorems, NaturalsInduction, WellFoundedInduction, TLAPS

\* r is a loop-free route from n to the destination.
IsRoute(r, n) ==
  /\ r \in Seq(Node) /\ Len(r) \in 2 .. Cardinality(Node)
  /\ r[1] = n /\ r[Len(r)] = Dest
  /\ \A i, j \in 1 .. Len(r) : r[i] = r[j] => i = j
  /\ \A i \in 1 .. Len(r) - 1 : <<r[i], r[i + 1]>> \in Contact

\* The CGRR block holds routes to the destination.
BlockTyped(block) ==
  /\ block = [original |-> block.original, recomputed |-> block.recomputed]
  /\ \A route \in {block.original, block.recomputed} : route # <<>> => IsRoute(route, Head(route))
  /\ block.recomputed # <<>> => block.original # <<>>

\* What TypeOK leaves open.
TravelTyped ==
  /\ TypeOK
  /\ BlockTyped(cgrr)
  /\ trips \subseteq Node \X Node /\ retried \subseteq Node
  /\ phase = "queued" => at # Dest

RecordInv == TravelTyped /\ RecordFollows

FollowersTell ==
  \A i \in 1 .. Len(geo) - 1 :
    IF geo[i] = geo[i + 1] THEN geo[i] \in retried ELSE <<geo[i], geo[i + 1]>> \in trips

LastTells ==
  geo # <<>> =>
    IF geo[Len(geo)] = at THEN at \in retried ELSE <<geo[Len(geo)], at>> \in trips

TripsTold ==
  \A trip \in trips :
    /\ trip[1] # trip[2] /\ trip[1] # Dest
    /\ \/ \E i \in 1 .. Len(geo) - 1 : geo[i] = trip[1] /\ geo[i + 1] = trip[2]
       \/ geo # <<>> /\ geo[Len(geo)] = trip[1] /\ at = trip[2]

\* The block against the travel: a node is followed by the one that it sent the bundle to,
\* or by itself where sending failed; every trip is there, unless its receiver has not sent
\* the bundle yet; and all have sent it successfully but the node that it is at.
BlockTells ==
  /\ FollowersTell /\ LastTells /\ TripsTold
  /\ ToSet(geo) \subseteq Visited \cup retried
  /\ retried \subseteq Visited \cup {at}
  /\ phase = "queued" => at # next

TravelInv == RecordInv /\ BlockTells

-----------------------------------------------------------------------------
(* Natural numbers and sequences *)

LEMMA LeastNatural ==
  ASSUME NEW T \in SUBSET Nat, T # {}
  PROVE  \E m \in T : \A k \in T : m <= k
<1>1. PICK m \in T : \A k \in T : <<k, m>> \notin OpToRel(<, Nat)
  BY NatLessThanWellFounded, WFMin
<1>2. OpToRel(<, Nat) = {ss \in Nat \X Nat : ss[1] < ss[2]}
  BY Zenon DEF OpToRel
<1>3. ASSUME NEW k \in T PROVE ~ (k < m)
  <2>1. <<k, m>> \notin {ss \in Nat \X Nat : ss[1] < ss[2]}
    BY <1>1, <1>2, Zenon
  <2>2. k \in Nat /\ m \in Nat
    OBVIOUS
  <2> QED BY <2>1, <2>2
<1>4. \A k \in T : m <= k
  <2>1. \A k \in T : k \in Nat /\ m \in Nat
    OBVIOUS
  <2> QED BY <1>3, <2>1
<1> QED
  BY <1>4

LEMMA MinIsLeast ==
  ASSUME NEW T \in SUBSET Nat, T # {}
  PROVE  Min(T) \in T /\ \A k \in T : Min(T) <= k
<1>1. PICK m \in T : \A k \in T : m <= k
  BY LeastNatural
<1> QED
  BY <1>1, Zenon DEF Min

-----------------------------------------------------------------------------
(* Routes *)

LEMMA NodesCounted == Cardinality(Node) \in Nat
BY TravelAssumption, FS_CardinalityType

LEMMA RoutesAre ==
  ASSUME NEW n \in Node, NEW r
  PROVE  r \in Routes[n] <=> IsRoute(r, n)
<1>1. Routes[n] = {route \in UNION {[1 .. k -> Node] : k \in 2 .. Cardinality(Node)} :
                     /\ route[1] = n /\ route[Len(route)] = Dest
                     /\ IsInjective(route) /\ Hops(route) \subseteq Contact}
  BY Zenon DEF Routes
<1>2. r \in UNION {[1 .. k -> Node] : k \in 2 .. Cardinality(Node)}
        <=> r \in Seq(Node) /\ Len(r) \in 2 .. Cardinality(Node)
  <2>1. ASSUME NEW k \in 2 .. Cardinality(Node), r \in [1 .. k -> Node]
        PROVE  r \in Seq(Node) /\ Len(r) \in 2 .. Cardinality(Node)
    BY <2>1, NodesCounted
  <2>2. ASSUME r \in Seq(Node), Len(r) \in 2 .. Cardinality(Node)
        PROVE  r \in [1 .. Len(r) -> Node]
    BY <2>2
  <2> QED BY <2>1, <2>2
<1>3. ASSUME r \in Seq(Node), Len(r) \in 2 .. Cardinality(Node)
      PROVE  /\ IsInjective(r) <=> \A i, j \in 1 .. Len(r) : r[i] = r[j] => i = j
             /\ Hops(r) \subseteq Contact
                  <=> \A i \in 1 .. Len(r) - 1 : <<r[i], r[i + 1]>> \in Contact
  <2>1. DOMAIN r = 1 .. Len(r)
    BY <1>3
  <2>2. IsInjective(r) <=> \A i, j \in 1 .. Len(r) : r[i] = r[j] => i = j
    BY <2>1 DEF IsInjective
  <2>3. Hops(r) \subseteq Contact
          <=> \A i \in 1 .. Len(r) - 1 : <<r[i], r[i + 1]>> \in Contact
    BY DEF Hops
  <2> QED BY <2>2, <2>3
<1> QED
  BY <1>1, <1>2, <1>3 DEF IsRoute

\* The first member of seq that is n.
First(seq, n) == SelectInSeq(seq, LAMBDA m : m = n)

LEMMA FirstOf ==
  ASSUME NEW seq \in Seq(Node), NEW n
  PROVE  /\ First(seq, n) \in Nat
         /\ First(seq, n) # 0 => First(seq, n) \in 1 .. Len(seq) /\ seq[First(seq, n)] = n
<1> DEFINE I == {i \in 1 .. Len(seq) : seq[i] = n}
<1>1. First(seq, n) = IF I # {} THEN Min(I) ELSE 0
  BY Zenon DEF First, SelectInSeq
<1>2. I \in SUBSET Nat /\ I \subseteq 1 .. Len(seq) /\ \A i \in I : seq[i] = n
  OBVIOUS
<1> HIDE DEF I
<1>3. I # {} => Min(I) \in I
  BY <1>2, MinIsLeast
<1>4. CASE I = {}
  BY <1>1, <1>4
<1>5. CASE I # {}
  <2>1. First(seq, n) \in I
    BY <1>1, <1>3, <1>5, Zenon
  <2> QED BY <1>2, <2>1
<1> QED
  BY <1>4, <1>5

\* What is left of a route is a route.
LEMMA LeftIsRoute ==
  ASSUME NEW r, r # <<>> => IsRoute(r, Head(r)), NEW n
  PROVE  LeftFrom(r, n) = <<>> \/ IsRoute(LeftFrom(r, n), n)
<1> DEFINE i == First(r, n)
           left == SubSeq(r, i, Len(r))
<1>1. LeftFrom(r, n) = IF i \in 1 .. Len(r) - 1 THEN left ELSE <<>>
  BY Zenon DEF LeftFrom, First
<1>2. CASE i \in 1 .. Len(r) - 1
  <2>1. r # <<>>
    BY <1>2
  <2>2. IsRoute(r, Head(r)) /\ r \in Seq(Node)
    BY <2>1 DEF IsRoute
  <2>3. r[i] = n
    BY <1>2, <2>2, FirstOf
  <2> HIDE DEF i
  <2>4. /\ left \in Seq(Node) /\ Len(left) = Len(r) - i + 1
        /\ \A j \in 1 .. Len(left) : left[j] = r[i + j - 1]
    <3>1. i \in Int /\ Len(r) \in Int /\ i <= Len(r) /\ \A j \in i .. Len(r) : r[j] \in Node
      BY <1>2, <2>2
    <3>2. /\ left \in Seq(Node) /\ Len(left) = Len(r) - i + 1
          /\ \A j \in 1 .. Len(r) - i + 1 : left[j] = r[i + j - 1]
      BY <3>1, SubSeqProperties
    <3> QED BY <3>2
  <2>5. Len(left) \in 2 .. Cardinality(Node)
    BY <1>2, <2>2, <2>4, NodesCounted DEF IsRoute
  <2> HIDE DEF left
  <2>6. left[1] = n /\ left[Len(left)] = Dest
    <3>1. i \in Nat /\ Len(r) \in Nat /\ Len(left) >= 2 /\ r[Len(r)] = Dest
      BY <1>2, <2>2, <2>5, NodesCounted DEF IsRoute
    <3>2. left[1] = r[i + 1 - 1] /\ left[Len(left)] = r[i + Len(left) - 1]
      BY <2>4, <3>1
    <3>3. i + 1 - 1 = i /\ i + Len(left) - 1 = Len(r)
      BY <2>4, <3>1
    <3> QED BY <2>3, <3>1, <3>2, <3>3
  <2>7. \A j, k \in 1 .. Len(left) : left[j] = left[k] => j = k
    <3> SUFFICES ASSUME NEW j \in 1 .. Len(left), NEW k \in 1 .. Len(left), left[j] = left[k]
                 PROVE  j = k
      OBVIOUS
    <3>1. i + j - 1 \in 1 .. Len(r) /\ i + k - 1 \in 1 .. Len(r)
      BY <1>2, <2>2, <2>4
    <3>2. i + j - 1 = i + k - 1
      BY <2>2, <2>4, <3>1 DEF IsRoute
    <3> QED BY <1>2, <3>2
  <2>8. \A j \in 1 .. Len(left) - 1 : <<left[j], left[j + 1]>> \in Contact
    <3> SUFFICES ASSUME NEW j \in 1 .. Len(left) - 1
                 PROVE  <<left[j], left[j + 1]>> \in Contact
      OBVIOUS
    <3> DEFINE k == i + j - 1
    <3>1. k \in 1 .. Len(r) - 1 /\ left[j] = r[k] /\ left[j + 1] = r[k + 1]
      BY <1>2, <2>2, <2>4
    <3> QED BY <2>2, <3>1 DEF IsRoute
  <2> QED BY <1>1, <1>2, <2>4, <2>5, <2>6, <2>7, <2>8 DEF IsRoute
<1>3. CASE i \notin 1 .. Len(r) - 1
  BY <1>1, <1>3
<1> QED
  BY <1>2, <1>3

-----------------------------------------------------------------------------
(* The record: RecordSound *)


LEMMA BlockEmpty == BlockTyped(NoRoutes)
BY DEF BlockTyped, NoRoutes

LEMMA UniqueTyped ==
  ASSUME NEW r, r # <<>> => IsRoute(r, Head(r))
  PROVE  BlockTyped(Unique(r)) /\ LastRoute(Unique(r)) = r
BY DEF BlockTyped, Unique, LastRoute

LEMMA AddRouteTyped ==
  ASSUME NEW block, BlockTyped(block), NEW r, r # <<>>, IsRoute(r, Head(r))
  PROVE  BlockTyped(AddRoute(block, r)) /\ LastRoute(AddRoute(block, r)) = r
<1>1. CASE block = NoRoutes
  BY <1>1, UniqueTyped DEF AddRoute
<1>2. CASE block # NoRoutes
  <2>1. AddRoute(block, r) = [original |-> block.original, recomputed |-> r]
    BY <1>2 DEF AddRoute, BlockTyped
  <2>2. block.original # <<>>
    BY <1>2 DEF NoRoutes, BlockTyped
  <2> QED BY <2>1, <2>2 DEF BlockTyped, LastRoute
<1> QED
  BY <1>1, <1>2

LEMMA LastRouteTyped ==
  ASSUME NEW block, BlockTyped(block), LastRoute(block) # <<>>
  PROVE  IsRoute(LastRoute(block), Head(LastRoute(block)))
BY DEF BlockTyped, LastRoute

LEMMA TypedBlock ==
  ASSUME NEW block, BlockTyped(block)
  PROVE  /\ \A route \in {block.original, block.recomputed} :
              route # <<>> => route \in Routes[Head(route)]
         /\ block.recomputed # <<>> => block.original # <<>>
<1>1. \A r : r # <<>> /\ IsRoute(r, Head(r)) => Head(r) \in Node
  BY DEF IsRoute
<1> QED
  BY <1>1, RoutesAre DEF BlockTyped

LEMMA RecordInit == Init => RecordInv
BY TravelAssumption, BlockEmpty, TypedBlock, FS_EmptySet
   DEF Init, RecordInv, TravelTyped, TypeOK, RecordFollows

\* What TypeOK says of the node that a bundle is queued for.
LEMMA QueuedTyped ==
  ASSUME TravelTyped, phase = "waiting", at # Dest,
         NEW r, IsRoute(r, at), r[2] \notin ExcludedNeighbors,
         NEW block, BlockTyped(block), cgrr' = block,
         phase' = "queued", next' = r[2],
         UNCHANGED <<features, at, sender, geo, trips, retried, sends>>
  PROVE  TravelTyped'
<1>1. <<at, r[2]>> \in Contact /\ r[2] \in Node
  <2>1. 1 \in 1 .. Len(r) - 1 /\ r[1] = at /\ <<r[1], r[1 + 1]>> \in Contact
    BY NodesCounted DEF IsRoute
  <2> QED BY <2>1, TravelAssumption
<1>2. ExcludedNeighbors' = ExcludedNeighbors
  BY DEF ExcludedNeighbors, ExcludeNeighbor
<1>3. TypeOK'
  <2>1. /\ features' \in Features /\ at' \in Node /\ sender' \in Node \cup {0}
        /\ geo' \in Seq(Node) /\ Len(geo') = sends'
    BY DEF TravelTyped, TypeOK
  <2>2. /\ phase' \in {"waiting", "queued", "ended"}
        /\ phase' = "queued" <=> next' # 0
    BY <1>1, TravelAssumption
  <2>3. phase' = "queued" => <<at', next'>> \in Contact /\ next' \notin ExcludedNeighbors'
    BY <1>1, <1>2
  <2>4. /\ \A route \in {cgrr'.original, cgrr'.recomputed} :
             route # <<>> => route \in Routes[Head(route)]
        /\ cgrr'.recomputed # <<>> => cgrr'.original # <<>>
    BY TypedBlock
  <2> QED BY <2>1, <2>2, <2>3, <2>4 DEF TypeOK
<1> QED
  BY <1>3 DEF TravelTyped

LEMMA BestIsViable ==
  ASSUME NEW routes \in UNION {kSubset(k, Checked(Routes[at])) : k \in 1 .. MaxViable}, at \in Node,
         NEW route \in Best(routes)
  PROVE  /\ route \in routes /\ IsRoute(route, at) /\ route[2] \notin ExcludedNeighbors
         /\ \A other \in routes : IsRoute(other, at) /\ CheckValue(route) <= CheckValue(other)
<1>1. routes \subseteq Checked(Routes[at])
  BY DEF kSubset
<1>2. \A r \in routes : IsRoute(r, at) /\ r[2] \notin ExcludedNeighbors
  BY <1>1, RoutesAre DEF Checked
<1> QED
  BY <1>2 DEF Best

\* The route that the record hands over leads from here to the destination in one hop.
LEMMA SourceRoute ==
  ASSUME TravelTyped, NEW route \in Checked(SourceRoutes)
  PROVE  /\ route = LeftFrom(LastRoute(cgrr), at) /\ "msr" \in features
         /\ IsRoute(route, at) /\ Len(route) = 2
         /\ route[2] \notin ExcludedNeighbors
<1>1. /\ route = LeftFrom(LastRoute(cgrr), at) /\ "msr" \in features
      /\ Len(route) = 2 /\ route[2] \notin ExcludedNeighbors
  BY DEF Checked, SourceRoutes, Finalized, HopsAccepted
<1>2. IsRoute(route, at)
  <2>1. LastRoute(cgrr) # <<>> => IsRoute(LastRoute(cgrr), Head(LastRoute(cgrr)))
    BY LastRouteTyped DEF TravelTyped
  <2>2. route # <<>>
    BY <1>1
  <2> QED BY <1>1, <2>1, <2>2, LeftIsRoute
<1> QED
  BY <1>1, <1>2

LEMMA HeadIsFirst ==
  ASSUME NEW r, NEW n, IsRoute(r, n)
  PROVE  r # <<>> /\ Head(r) = n /\ r \in Seq(Node)
BY NodesCounted DEF IsRoute

\* Each of the two ways of routing queues the bundle for a route that the block then ends with.
LEMMA RouteByMSRStep ==
  ASSUME RecordInv, Route, RouteByMSR
  PROVE  RecordInv'
<1>1. phase = "waiting" /\ at # Dest /\ UNCHANGED <<features, at, sender, geo, trips, retried, sends>>
  BY DEF Route
<1>2. PICK route \in Checked(SourceRoutes) :
        \/ Reducible /\ Queued(route, {route}) /\ cgrr' = Reduced(cgrr, at)
        \/ ~ Reducible /\ phase' = "ended" /\ UNCHANGED <<next, viable, cgrr>>
  BY DEF RouteByMSR
<1>3. /\ route = LeftFrom(LastRoute(cgrr), at) /\ "msr" \in features
      /\ IsRoute(route, at) /\ Len(route) = 2 /\ route[2] \notin ExcludedNeighbors
  BY SourceRoute DEF RecordInv
<1>4. CASE Reducible /\ Queued(route, {route}) /\ cgrr' = Reduced(cgrr, at)
  <2>1. cgrr' = Unique(route)
    BY <1>3, <1>4 DEF Reduced
  <2>2. route # <<>> /\ Head(route) = at
    BY <1>3, HeadIsFirst
  <2>3. BlockTyped(Unique(route)) /\ LastRoute(cgrr') = route
    BY <1>3, <2>1, <2>2, UniqueTyped
  <2>4. TravelTyped'
    BY <1>1, <1>3, <1>4, <2>1, <2>3, QueuedTyped DEF RecordInv, Queued
  <2> QED BY <1>1, <1>4, <2>2, <2>3, <2>4 DEF RecordInv, RecordFollows, Queued
<1>5. CASE ~ Reducible /\ phase' = "ended" /\ UNCHANGED <<next, viable, cgrr>>
  BY <1>1, <1>5 DEF RecordInv, TravelTyped, TypeOK, RecordFollows
<1> QED
  BY <1>2, <1>4, <1>5

LEMMA RouteByCGRStep ==
  ASSUME RecordInv, Route, RouteByCGR
  PROVE  RecordInv'
<1>1. phase = "waiting" /\ at # Dest /\ UNCHANGED <<features, at, sender, geo, trips, retried, sends>>
  BY DEF Route
<1>2. PICK routes \in UNION {kSubset(k, Checked(Routes[at])) : k \in 1 .. MaxViable} :
        \E route \in Best(routes) : Queued(route, routes) /\ cgrr' = Recorded(route)
  BY DEF RouteByCGR
<1>3. PICK route \in Best(routes) : Queued(route, routes) /\ cgrr' = Recorded(route)
  BY <1>2
<1>4. IsRoute(route, at) /\ route[2] \notin ExcludedNeighbors
  BY BestIsViable DEF RecordInv, TravelTyped, TypeOK
<1>5. route # <<>> /\ Head(route) = at
  BY <1>4, HeadIsFirst
<1>6. /\ BlockTyped(Recorded(route))
      /\ features \cap {"msr", "wise"} # {} => LastRoute(Recorded(route)) = route
  <2>1. CASE "msr" \in features
    <3>1. Recorded(route) = Unique(route)
      BY <2>1 DEF Recorded, StoreMsrRoute
    <3> QED BY <1>4, <1>5, <3>1, UniqueTyped
  <2>2. CASE "msr" \notin features /\ "wise" \in features
    <3>1. Recorded(route) = AddRoute(cgrr, route)
      BY <2>2 DEF Recorded
    <3> QED BY <1>4, <1>5, <3>1, AddRouteTyped DEF RecordInv, TravelTyped
  <2>3. CASE "msr" \notin features /\ "wise" \notin features
    <3>1. Recorded(route) = cgrr
      BY <2>3 DEF Recorded
    <3> QED BY <2>3, <3>1 DEF RecordInv, TravelTyped
  <2> QED BY <2>1, <2>2, <2>3
<1>7. TravelTyped'
  BY <1>1, <1>3, <1>4, <1>6, QueuedTyped DEF RecordInv, Queued
<1> QED
  BY <1>1, <1>3, <1>5, <1>6, <1>7 DEF RecordInv, RecordFollows, Queued

LEMMA RecordStep == RecordInv /\ [Next]_vars => RecordInv'
<1> SUFFICES ASSUME RecordInv, [Next]_vars
             PROVE  RecordInv'
  OBVIOUS
<1>1. CASE Route
  BY <1>1, RouteByMSRStep, RouteByCGRStep DEF Route
<1>2. ASSUME Send \/ SendFails
      PROVE  geo' \in Seq(Node) /\ Len(geo') = sends'
  <2>1. geo' = Append(geo, at) /\ sends' = sends + 1
    BY <1>2 DEF Send, SendFails, Dequeued
  <2>2. geo \in Seq(Node) /\ at \in Node /\ Len(geo) = sends
    BY DEF RecordInv, TravelTyped, TypeOK
  <2> QED BY <2>1, <2>2
<1>3. CASE Send
  <2>1. <<at, next>> \in Contact /\ at \in Node /\ next \in Node /\ at # Dest
    <3>1. <<at, next>> \in Contact /\ at # Dest
      BY <1>3 DEF Send, RecordInv, TravelTyped, TypeOK
    <3> QED BY <3>1, TravelAssumption
  <2>2. /\ at' = next /\ sender' = at /\ phase' = "waiting" /\ next' = 0
        /\ trips' = trips \cup {<<at, next>>} /\ UNCHANGED <<features, cgrr, retried>>
    BY <1>3 DEF Send, Unqueued
  <2> QED BY <1>2, <1>3, <2>1, <2>2 DEF RecordInv, TravelTyped, TypeOK, RecordFollows
<1>4. CASE SendFails
  <2>1. /\ retried' = retried \cup {at} /\ phase' = "waiting" /\ next' = 0
        /\ UNCHANGED <<features, at, sender, cgrr, trips>>
    BY <1>4 DEF SendFails, Unqueued
  <2> QED BY <1>2, <1>4, <2>1 DEF RecordInv, TravelTyped, TypeOK, RecordFollows
<1>5. CASE Again
  BY <1>5 DEF Again, Unqueued, RecordInv, TravelTyped, TypeOK, RecordFollows
<1>6. CASE UNCHANGED vars
  <2>1. ExcludedNeighbors' = ExcludedNeighbors
    BY <1>6 DEF vars, ExcludedNeighbors, ExcludeNeighbor
  <2> QED BY <1>6, <2>1 DEF vars, RecordInv, TravelTyped, TypeOK, RecordFollows
<1> QED
  BY <1>1, <1>3, <1>4, <1>5, <1>6 DEF Next

\* Whatever the nodes, their contacts and their features, the blocks are of their types, a
\* bundle is queued for a neighbor it may go to, and the last route recorded is the one it
\* follows.
THEOREM TravelRecordSound == Spec => []RecordSound
<1>1. RecordInv => RecordSound
  BY DEF RecordInv, TravelTyped, RecordSound
<1> QED
  BY RecordInit, RecordStep, <1>1, PTL DEF Spec

-----------------------------------------------------------------------------
(* The block and the travel *)

LEMMA TravelInit == Init => TravelInv
<1> SUFFICES ASSUME Init PROVE TravelInv
  OBVIOUS
<1>1. RecordInv
  BY RecordInit
<1>2. BlockTells
  BY DEF Init, BlockTells, FollowersTell, LastTells, TripsTold, ToSet, Visited
<1> QED
  BY <1>1, <1>2 DEF TravelInv

\* The block with the node that is about to send.
LEMMA Dequeueing ==
  ASSUME TravelInv, geo' = Dequeued
  PROVE  /\ geo' \in Seq(Node) /\ Len(geo') = Len(geo) + 1 /\ Len(geo) \in Nat
         /\ \A i \in 1 .. Len(geo) : geo'[i] = geo[i]
         /\ geo'[Len(geo) + 1] = at
         /\ ToSet(geo') = ToSet(geo) \cup {at}
         /\ geo \in Seq(Node) /\ at \in Node
<1>1. geo \in Seq(Node) /\ at \in Node
  BY DEF TravelInv, RecordInv, TravelTyped, TypeOK
<1>2. /\ geo' \in Seq(Node) /\ Len(geo') = Len(geo) + 1 /\ Len(geo) \in Nat
      /\ \A i \in 1 .. Len(geo) : geo'[i] = geo[i]
      /\ geo'[Len(geo) + 1] = at
  BY <1>1 DEF Dequeued
<1>3. ToSet(geo') = ToSet(geo) \cup {at}
  <2>1. DOMAIN geo' = 1 .. Len(geo) + 1 /\ DOMAIN geo = 1 .. Len(geo)
    BY <1>1, <1>2
  <2>2. \A i \in 1 .. Len(geo) + 1 : i \in 1 .. Len(geo) \/ i = Len(geo) + 1
    BY <1>2
  <2>3. \A i \in 1 .. Len(geo) : i \in 1 .. Len(geo) + 1
    BY <1>2
  <2>4. Len(geo) + 1 \in 1 .. Len(geo) + 1
    BY <1>2
  <2>5. ToSet(geo') = {geo'[i] : i \in 1 .. Len(geo) + 1} /\ ToSet(geo) = {geo[i] : i \in 1 .. Len(geo)}
    BY <2>1 DEF ToSet
  <2> QED BY <1>2, <2>2, <2>3, <2>4, <2>5
<1> QED
  BY <1>1, <1>2, <1>3

\* The pairs of neighbors in the longer block.
LEMMA DequeuedPairs ==
  ASSUME TravelInv, geo' = Dequeued
  PROVE  /\ \A i \in 1 .. Len(geo') - 1 :
              \/ i \in 1 .. Len(geo) - 1 /\ geo'[i] = geo[i] /\ geo'[i + 1] = geo[i + 1]
              \/ i = Len(geo) /\ geo # <<>> /\ geo'[i] = geo[Len(geo)] /\ geo'[i + 1] = at
         /\ \A i \in 1 .. Len(geo) - 1 :
              i \in 1 .. Len(geo') - 1 /\ geo'[i] = geo[i] /\ geo'[i + 1] = geo[i + 1]
         /\ geo # <<>> => /\ Len(geo) \in 1 .. Len(geo') - 1
                          /\ geo'[Len(geo)] = geo[Len(geo)] /\ geo'[Len(geo) + 1] = at
         /\ geo' # <<>> /\ geo'[Len(geo')] = at
BY Dequeueing

LEMMA TellSend ==
  ASSUME TravelInv, Send
  PROVE  BlockTells'
<1>1. /\ geo' = Dequeued /\ trips' = trips \cup {<<at, next>>} /\ at' = next
      /\ retried' = retried /\ phase' = "waiting" /\ phase = "queued"
  BY DEF Send, Unqueued
<1>2. at # next /\ at # Dest
  BY <1>1 DEF TravelInv, BlockTells, RecordInv, TravelTyped
<1>3. FollowersTell'
  <2> SUFFICES ASSUME NEW i \in 1 .. Len(geo') - 1
               PROVE  IF geo'[i] = geo'[i + 1] THEN geo'[i] \in retried'
                      ELSE <<geo'[i], geo'[i + 1]>> \in trips'
    BY DEF FollowersTell
  <2> QED BY <1>1, DequeuedPairs DEF TravelInv, BlockTells, FollowersTell, LastTells
<1>4. LastTells'
  BY <1>1, <1>2, DequeuedPairs DEF LastTells
<1>5. TripsTold'
  <2> SUFFICES ASSUME NEW trip \in trips'
               PROVE  /\ trip[1] # trip[2] /\ trip[1] # Dest
                      /\ \/ \E i \in 1 .. Len(geo') - 1 : geo'[i] = trip[1] /\ geo'[i + 1] = trip[2]
                         \/ geo' # <<>> /\ geo'[Len(geo')] = trip[1] /\ at' = trip[2]
    BY DEF TripsTold
  <2>1. CASE trip = <<at, next>>
    BY <1>1, <1>2, <2>1, DequeuedPairs
  <2>2. CASE trip \in trips
    BY <2>2, <1>1, DequeuedPairs DEF TravelInv, BlockTells, TripsTold
  <2> QED BY <1>1, <2>1, <2>2
<1>6. Visited' = Visited \cup {at}
  <2>1. Visited' = {trip[1] : trip \in trips \cup {<<at, next>>}}
    BY <1>1 DEF Visited
  <2>2. <<at, next>>[1] = at
    OBVIOUS
  <2> QED BY <2>1, <2>2, Zenon DEF Visited
<1> QED
  BY <1>1, <1>3, <1>4, <1>5, <1>6, Dequeueing DEF TravelInv, BlockTells

LEMMA TellSendFails ==
  ASSUME TravelInv, SendFails
  PROVE  BlockTells'
<1>1. /\ geo' = Dequeued /\ trips' = trips /\ at' = at
      /\ retried' = retried \cup {at} /\ phase' = "waiting"
  BY DEF SendFails, Unqueued
<1>2. FollowersTell'
  <2> SUFFICES ASSUME NEW i \in 1 .. Len(geo') - 1
               PROVE  IF geo'[i] = geo'[i + 1] THEN geo'[i] \in retried'
                      ELSE <<geo'[i], geo'[i + 1]>> \in trips'
    BY DEF FollowersTell
  <2> QED BY <1>1, DequeuedPairs DEF TravelInv, BlockTells, FollowersTell, LastTells
<1>3. LastTells'
  BY <1>1, DequeuedPairs DEF LastTells
<1>4. TripsTold'
  <2> SUFFICES ASSUME NEW trip \in trips'
               PROVE  /\ trip[1] # trip[2] /\ trip[1] # Dest
                      /\ \/ \E i \in 1 .. Len(geo') - 1 : geo'[i] = trip[1] /\ geo'[i + 1] = trip[2]
                         \/ geo' # <<>> /\ geo'[Len(geo')] = trip[1] /\ at' = trip[2]
    BY DEF TripsTold
  <2> QED BY <1>1, DequeuedPairs DEF TravelInv, BlockTells, TripsTold
<1>5. Visited' = Visited
  BY <1>1 DEF Visited
<1> QED
  BY <1>1, <1>2, <1>3, <1>4, <1>5, Dequeueing DEF TravelInv, BlockTells

LEMMA HopElsewhere ==
  ASSUME NEW r, NEW n, IsRoute(r, n)
  PROVE  r[2] # n /\ r[2] \in Node
<1>1. Len(r) \in Nat /\ Len(r) >= 2 /\ 1 \in 1 .. Len(r) /\ 2 \in 1 .. Len(r) /\ r \in Seq(Node)
  BY NodesCounted DEF IsRoute
<1>2. r[1] = n /\ (r[2] = r[1] => 2 = 1)
  BY <1>1 DEF IsRoute
<1> QED
  BY <1>1, <1>2

LEMMA TellRoute ==
  ASSUME TravelInv, Route
  PROVE  BlockTells'
<1>1. UNCHANGED <<geo, trips, retried, at>> /\ phase = "waiting" /\ at # Dest
  BY DEF Route
<1>2. phase' = "queued" => at # next'
  <2>1. CASE RouteByMSR
    <3>1. PICK route \in Checked(SourceRoutes) : phase' = "queued" => next' = route[2]
      BY <2>1 DEF RouteByMSR, Queued
    <3>2. IsRoute(route, at)
      BY <3>1, SourceRoute DEF TravelInv, RecordInv
    <3> QED BY <3>1, <3>2, HopElsewhere
  <2>2. CASE RouteByCGR
    <3>1. PICK routes \in UNION {kSubset(k, Checked(Routes[at])) : k \in 1 .. MaxViable} :
            \E route \in Best(routes) : next' = route[2]
      BY <2>2 DEF RouteByCGR, Queued
    <3>2. PICK route \in Best(routes) : next' = route[2]
      BY <3>1
    <3>3. IsRoute(route, at)
      BY <3>2, BestIsViable DEF TravelInv, RecordInv, TravelTyped, TypeOK
    <3> QED BY <3>2, <3>3, HopElsewhere
  <2> QED BY <2>1, <2>2 DEF Route
<1> QED
  BY <1>1, <1>2 DEF TravelInv, BlockTells, FollowersTell, LastTells, TripsTold, Visited, ToSet

LEMMA TravelStep == TravelInv /\ [Next]_vars => TravelInv'
<1> SUFFICES ASSUME TravelInv, [Next]_vars
             PROVE  TravelInv'
  OBVIOUS
<1>1. RecordInv'
  BY RecordStep DEF TravelInv
<1>2. BlockTells'
  <2>1. CASE Again
    BY <2>1 DEF Again, Unqueued, TravelInv, BlockTells, FollowersTell, LastTells, TripsTold,
                Visited, ToSet
  <2>2. CASE UNCHANGED vars
    BY <2>2 DEF vars, TravelInv, BlockTells, FollowersTell, LastTells, TripsTold, Visited, ToSet
  <2> QED BY <2>1, <2>2, TellRoute, TellSend, TellSendFails DEF Next
<1> QED
  BY <1>1, <1>2 DEF TravelInv

-----------------------------------------------------------------------------
(* What the interface reads in the block *)

IsRead(n, g) ==
  g = [i \in 0 .. n |->
         IF i = 0 THEN <<>>
         ELSE IF geo[i] \in Unread THEN g[i - 1] ELSE Append(g[i - 1], geo[i])]

\* Where every number passes for a node, it reads all of it.
LEMMA AllRead ==
  ASSUME Unread = {}, geo \in Seq(Node)
  PROVE  GeoRoute = geo
<1> DEFINE g == [i \in 0 .. Len(geo) |-> SubSeq(geo, 1, i)]
           read == CHOOSE f : IsRead(Len(geo), f)
<1>1. Len(geo) \in Nat /\ \A i \in 1 .. Len(geo) : geo[i] \in Node
  OBVIOUS
<1>2. IsRead(Len(geo), g)
  <2>1. \A i \in 0 .. Len(geo) :
          g[i] = IF i = 0 THEN <<>>
                 ELSE IF geo[i] \in Unread THEN g[i - 1] ELSE Append(g[i - 1], geo[i])
    <3> SUFFICES ASSUME NEW i \in 0 .. Len(geo)
                 PROVE  g[i] = IF i = 0 THEN <<>> ELSE Append(g[i - 1], geo[i])
      OBVIOUS
    <3>1. CASE i = 0
      BY <3>1, SubSeqEmpty
    <3>2. CASE i # 0
      <4>1. i \in 1 .. Len(geo) /\ i \in Nat /\ i - 1 \in 0 .. Len(geo) /\ 1 \in 1 .. Len(geo)
        BY <1>1, <3>2
      <4>2. SubSeq(geo, 1, i) = SubSeq(geo, 1, i - 1) \o <<geo[i]>>
        BY <4>1, SubSeqRecursiveSecond
      <4>3. SubSeq(geo, 1, i - 1) \in Seq(Node) /\ geo[i] \in Node
        <5>1. \A j \in 1 .. i - 1 : geo[j] \in Node
          BY <1>1, <4>1
        <5> QED BY <1>1, <4>1, <5>1, SubSeqProperties
      <4>4. SubSeq(geo, 1, i - 1) \o <<geo[i]>> = Append(SubSeq(geo, 1, i - 1), geo[i])
        BY <4>3, AppendIsConcat
      <4> QED BY <3>2, <4>1, <4>2, <4>4
    <3> QED BY <3>1, <3>2
  <2> HIDE DEF g
  <2>2. g = [i \in 0 .. Len(geo) |-> g[i]]
    BY DEF g
  <2> QED BY <2>1, <2>2 DEF IsRead
<1>3. IsRead(Len(geo), read)
  <2> HIDE DEF g
  <2> QED BY <1>2, Zenon
<1>4. GeoRoute = read[Len(geo)]
  BY Zenon DEF GeoRoute, IsRead
<1> HIDE DEF read, g
<1> DEFINE bad == {k \in 0 .. Len(geo) : read[k] # g[k]}
<1>5. bad = {}
  <2>1. SUFFICES ASSUME bad # {} PROVE FALSE
    OBVIOUS
  <2>2. PICK m \in bad : \A k \in bad : m <= k
    <3>1. bad \in SUBSET Nat
      OBVIOUS
    <3> HIDE DEF bad
    <3> QED BY <2>1, <3>1, LeastNatural
  <2>3. m \in 0 .. Len(geo) /\ read[m] # g[m] /\ (m # 0 => m - 1 \notin bad)
    <3>1. m \in 0 .. Len(geo) /\ read[m] # g[m]
      OBVIOUS
    <3> HIDE DEF bad
    <3> QED BY <1>1, <2>2, <3>1
  <2>4. m # 0 => read[m - 1] = g[m - 1]
    BY <1>1, <2>3
  <2>5. /\ read[m] = IF m = 0 THEN <<>>
                     ELSE IF geo[m] \in Unread THEN read[m - 1] ELSE Append(read[m - 1], geo[m])
        /\ g[m] = IF m = 0 THEN <<>>
                  ELSE IF geo[m] \in Unread THEN g[m - 1] ELSE Append(g[m - 1], geo[m])
    BY <1>2, <1>3, <2>3, Zenon DEF IsRead
  <2> QED BY <2>3, <2>4, <2>5
<1>6. g[Len(geo)] = geo
  BY SubSeqFull DEF g
<1> QED
  BY <1>1, <1>4, <1>5, <1>6

-----------------------------------------------------------------------------
(* The failed neighbors *)

\* c holds, for every i, whether what follows the node at i is to be looked at.
IsLook(route, own, n, c) ==
  c = [i \in 0 .. n |-> i # 0 /\ route[i] = own /\ ~ c[i - 1]]

LEMMA LookExists ==
  ASSUME NEW route, NEW own, NEW n \in Nat
  PROVE  \E c : IsLook(route, own, n, c)
<1> DEFINE without == {k \in Nat : ~ \E c : IsLook(route, own, k, c)}
<1>1. SUFFICES ASSUME without # {} PROVE FALSE
  OBVIOUS
<1>2. PICK m \in without : \A k \in without : m <= k
  <2>1. without \in SUBSET Nat
    OBVIOUS
  <2> HIDE DEF without
  <2> QED BY <1>1, <2>1, LeastNatural
<1>3. CASE m = 0
  <2> DEFINE c == [i \in 0 .. 0 |-> FALSE]
  <2>1. \A i \in 0 .. 0 : (i # 0 /\ route[i] = own /\ ~ c[i - 1]) = FALSE
    <3>1. \A i \in 0 .. 0 : i = 0
      OBVIOUS
    <3> HIDE DEF c
    <3> QED BY <3>1, Zenon
  <2>2. c = [i \in 0 .. 0 |-> i # 0 /\ route[i] = own /\ ~ c[i - 1]]
    BY <2>1, Zenon
  <2>3. IsLook(route, own, 0, c)
    BY <2>2, Zenon DEF IsLook
  <2> QED BY <1>3, <2>3
<1>4. CASE m # 0
  <2>1. PICK c : IsLook(route, own, m - 1, c)
    <3>1. m - 1 \in Nat /\ m - 1 \notin without
      <4> HIDE DEF without
      <4>1. m \in Nat
        BY DEF without
      <4> QED BY <1>2, <1>4, <4>1
    <3> QED BY <3>1
  <2> DEFINE last == route[m] = own /\ ~ c[m - 1]
             h == [i \in 0 .. m |-> IF i = m THEN last ELSE c[i]]
  <2>2. m \in Nat /\ m > 0
    BY <1>4
  <2>3. \A i \in 0 .. m : i # m => i \in 0 .. m - 1 /\ (i # 0 => i - 1 \in 0 .. m - 1 /\ i - 1 # m)
    BY <2>2
  <2>4. m \in 0 .. m /\ m - 1 \in 0 .. m /\ m - 1 # m /\ m # 0
    BY <2>2
  <2>5. \A i \in 0 .. m : i # 0 => i - 1 \in 0 .. m
    BY <2>2
  <2>6. \A i \in 0 .. m - 1 : c[i] = (i # 0 /\ route[i] = own /\ ~ c[i - 1])
    BY <2>1, Zenon DEF IsLook
  <2>7. \A i \in 0 .. m : (IF i = m THEN last ELSE c[i]) = (i # 0 /\ route[i] = own /\ ~ h[i - 1])
    <3> SUFFICES ASSUME NEW i \in 0 .. m
                 PROVE  (IF i = m THEN last ELSE c[i]) = (i # 0 /\ route[i] = own /\ ~ h[i - 1])
      BY Zenon
    <3>1. CASE i = m
      <4>1. h[m - 1] = c[m - 1]
        BY <2>4, Zenon
      <4> HIDE DEF h
      <4> QED BY <2>4, <3>1, <4>1, Zenon
    <3>2. CASE i # m
      <4>1. i # 0 => h[i - 1] = c[i - 1]
        BY <2>3, <2>5, <3>2, Zenon
      <4>2. c[i] = (i # 0 /\ route[i] = own /\ ~ c[i - 1])
        BY <2>3, <2>6, <3>2, Zenon
      <4> HIDE DEF h, last
      <4> QED BY <3>2, <4>1, <4>2, Zenon
    <3> QED BY <3>1, <3>2
  <2>8. h = [i \in 0 .. m |-> i # 0 /\ route[i] = own /\ ~ h[i - 1]]
    BY <2>7, Zenon
  <2>9. IsLook(route, own, m, h)
    <3> HIDE DEF h
    <3> QED BY <2>8, Zenon DEF IsLook
  <2> QED BY <2>9
<1> QED
  BY <1>3, <1>4

\* c is how set_failed_neighbors_list has walked the route.
Looked(route, own, c) ==
  /\ \A i \in 1 .. Len(route) : c[i] <=> route[i] = own /\ ~ c[i - 1]
  /\ ~ c[0]
  /\ FailedNeighbors(route, own) = {route[i] : i \in {j \in 1 .. Len(route) : c[j - 1]}}

LEMMA FailedNeighborsAre ==
  ASSUME NEW route \in Seq(Node), NEW own
  PROVE  \E c : Looked(route, own, c)
<1>1. Len(route) \in Nat /\ DOMAIN route = 1 .. Len(route)
  OBVIOUS
<1>2. PICK d : IsLook(route, own, Len(route), d)
  BY <1>1, LookExists
<1> DEFINE c == CHOOSE f : f = [i \in 0 .. Len(route) |-> i # 0 /\ route[i] = own /\ ~ f[i - 1]]
<1>3. c = [i \in 0 .. Len(route) |-> i # 0 /\ route[i] = own /\ ~ c[i - 1]]
  BY <1>2, Zenon DEF IsLook
<1>4. FailedNeighbors(route, own) = {route[i] : i \in {j \in DOMAIN route : c[j - 1]}}
  BY Zenon DEF FailedNeighbors
<1> HIDE DEF c
<1>5. \A i \in 1 .. Len(route) : i \in 0 .. Len(route) /\ i # 0
  BY <1>1
<1>6. 0 \in 0 .. Len(route)
  BY <1>1
<1>7. \A i \in 1 .. Len(route) : c[i] <=> route[i] = own /\ ~ c[i - 1]
  BY <1>3, <1>5, Zenon
<1>8. ~ c[0]
  BY <1>3, <1>6, Zenon
<1>9. FailedNeighbors(route, own) = {route[i] : i \in {j \in 1 .. Len(route) : c[j - 1]}}
  BY <1>1, <1>4, Zenon
<1> QED
  BY <1>7, <1>8, <1>9, Zenon DEF Looked

\* A failed neighbor is one that the bundle was sent to from here.
LEMMA FailedWasTried ==
  ASSUME TravelInv, NEW n \in FailedNeighbors(geo, at), n # at
  PROVE  <<at, n>> \in trips
<1>1. geo \in Seq(Node) /\ Len(geo) \in Nat
  BY DEF TravelInv, RecordInv, TravelTyped, TypeOK
<1>2. PICK c : Looked(geo, at, c)
  BY <1>1, FailedNeighborsAre
<1>3. PICK i \in 1 .. Len(geo) : c[i - 1] /\ n = geo[i]
  BY <1>2, Zenon DEF Looked
<1>4. i # 1
  <2>1. i = 1 => i - 1 = 0
    OBVIOUS
  <2> QED BY <1>2, <1>3, <2>1, Zenon DEF Looked
<1>5. i - 1 \in 1 .. Len(geo) /\ i - 1 \in 1 .. Len(geo) - 1 /\ (i - 1) + 1 = i
  BY <1>1, <1>4
<1>6. geo[i - 1] = at
  BY <1>2, <1>3, <1>5, Zenon DEF Looked
<1> QED
  BY <1>3, <1>5, <1>6 DEF TravelInv, BlockTells, FollowersTell

\* Where no attempt to send has failed, every neighbor that it was sent to is a failed one.
LEMMA TriedHasFailed ==
  ASSUME TravelInv, at \notin retried, NEW n, n # at, <<at, n>> \in trips
  PROVE  n \in FailedNeighbors(geo, at)
<1>1. geo \in Seq(Node) /\ Len(geo) \in Nat
  BY DEF TravelInv, RecordInv, TravelTyped, TypeOK
<1>2. PICK c : Looked(geo, at, c)
  BY <1>1, FailedNeighborsAre
<1>3. PICK i \in 1 .. Len(geo) - 1 : geo[i] = at /\ geo[i + 1] = n
  BY DEF TravelInv, BlockTells, TripsTold
<1>4. i \in 1 .. Len(geo) /\ i + 1 \in 1 .. Len(geo) /\ (i + 1) - 1 = i
  BY <1>1, <1>3
<1>5. ~ c[i - 1]
  <2>1. CASE i = 1
    <3>1. i - 1 = 0
      BY <2>1
    <3> QED BY <1>2, <3>1, Zenon DEF Looked
  <2>2. CASE i # 1
    <3>1. i - 1 \in 1 .. Len(geo) /\ i - 1 \in 1 .. Len(geo) - 1 /\ (i - 1) + 1 = i
      BY <1>1, <1>4, <2>2
    <3>2. c[i - 1] => geo[i - 1] = at
      BY <1>2, <3>1, Zenon DEF Looked
    <3>3. geo[i - 1] # at
      BY <1>3, <3>1 DEF TravelInv, BlockTells, FollowersTell
    <3> QED BY <3>2, <3>3, Zenon
  <2> QED BY <2>1, <2>2
<1>6. c[i]
  BY <1>2, <1>3, <1>4, <1>5, Zenon DEF Looked
<1>7. i + 1 \in {j \in 1 .. Len(geo) : c[j - 1]}
  BY <1>4, <1>6, Zenon
<1> QED
  BY <1>2, <1>3, <1>7, Zenon DEF Looked

-----------------------------------------------------------------------------
(* Loops are avoided *)

\* The first node after the own one decides whether a loop is closed.
LEMMA LoopLevelIs ==
  ASSUME GeoRoute = geo, NEW r, NEW n, IsRoute(r, n)
  PROVE  LoopLevel(r) = 1 <=> Len(r) > 2 /\ r[2] \in ToSet(geo)
<1> DEFINE inner == SubSeq(r, 2, Len(r) - 1)
           I == {i \in 1 .. Len(inner) : InList(GeoRoute, inner[i])}
<1>1. r \in Seq(Node) /\ Len(r) \in Nat /\ Len(r) >= 2
  BY NodesCounted DEF IsRoute
<1>2. LoopLevel(r) = IF I # {} THEN Min(I) ELSE 0
  BY Zenon DEF LoopLevel, SelectInSeq
<1>3. Len(inner) = Len(r) - 2 /\ \A i \in 1 .. Len(r) - 2 : inner[i] = r[i + 1]
  <2>1. \A i \in 2 .. Len(r) - 1 : r[i] \in Node
    BY <1>1
  <2>2. 2 \in Int /\ Len(r) - 1 \in Int
    BY <1>1
  <2>3. CASE Len(r) = 2
    BY <1>1, <2>2, <2>3, SubSeqEmpty
  <2>4. CASE Len(r) > 2
    <3>1. /\ inner \in Seq(Node) /\ Len(inner) = Len(r) - 2
          /\ \A i \in 1 .. (Len(r) - 1) - 2 + 1 : inner[i] = r[2 + i - 1]
      BY <1>1, <2>1, <2>2, <2>4, SubSeqProperties
    <3> HIDE DEF inner
    <3>2. \A i \in 1 .. Len(r) - 2 : i \in 1 .. (Len(r) - 1) - 2 + 1 /\ 2 + i - 1 = i + 1
      BY <1>1
    <3> QED BY <3>1, <3>2
  <2>5. Len(r) = 2 \/ Len(r) > 2
    BY <1>1
  <2> HIDE DEF inner
  <2> QED BY <2>3, <2>4, <2>5
<1>4. I \in SUBSET Nat /\ \A i \in I : i >= 1
  OBVIOUS
<1>5. 1 \in I <=> Len(r) > 2 /\ r[2] \in ToSet(geo)
  BY <1>1, <1>3 DEF InList
<1> HIDE DEF I
<1>6. CASE I = {}
  BY <1>2, <1>5, <1>6
<1>7. CASE I # {}
  <2>1. Min(I) \in I /\ \A k \in I : Min(I) <= k
    BY <1>4, <1>7, MinIsLeast
  <2>2. LoopLevel(r) = Min(I)
    BY <1>2, <1>7
  <2>3. 1 \in I <=> Min(I) = 1
    <3>1. Min(I) \in Nat /\ Min(I) >= 1
      BY <1>4, <2>1
    <3>2. 1 \in I => Min(I) <= 1
      BY <2>1
    <3> QED BY <2>1, <3>1, <3>2
  <2> QED BY <1>5, <2>2, <2>3
<1> QED
  BY <1>6, <1>7

\* The mark of a route: 4 if its neighbor has failed, 3 if it closes a loop at once.
LEMMA Marks ==
  ASSUME GeoRoute = geo, NEW r, NEW n, IsRoute(r, n)
  PROVE  /\ CheckValue(r) \in 1 .. 4
         /\ CheckValue(r) = 4 <=> "reactive" \in features /\ r[2] \in FailedNeighbors(geo, at)
         /\ CheckValue(r) >= 3
              <=> \/ "reactive" \in features /\ r[2] \in FailedNeighbors(geo, at)
                  \/ "proactive" \in features /\ Len(r) > 2 /\ r[2] \in ToSet(geo)
<1>1. LoopLevel(r) = 1 <=> Len(r) > 2 /\ r[2] \in ToSet(geo)
  BY LoopLevelIs
<1> QED
  BY <1>1 DEF CheckValue

\* The destination never sends the bundle.
LEMMA DestSendsNot ==
  ASSUME TravelInv
  PROVE  Dest \notin Visited
BY DEF TravelInv, BlockTells, TripsTold, Visited

\* Both promises, for the routes that are viable when the bundle is queued.
LEMMA QueuedWell ==
  ASSUME TravelInv, Unread = {}, Route, Queues
  PROVE  /\ "reactive" \in features /\ at \notin retried /\ <<at, next'>> \in trips
              => \A route \in viable' : <<at, route[2]>> \in trips
         /\ "proactive" \in features /\ next' \in Visited
              => \A route \in viable' :
                   \/ ToSet(SubSeq(route, 2, Len(route) - 1)) \cap Visited # {}
                   \/ "reactive" \in features /\ <<at, route[2]>> \in trips
<1>1. GeoRoute = geo /\ at \in Node
  BY AllRead DEF TravelInv, RecordInv, TravelTyped, TypeOK
<1>2. CASE RouteByMSR
  <2>1. PICK route \in Checked(SourceRoutes) : next' = route[2] /\ viable' = {route}
    BY <1>2 DEF RouteByMSR, Queued, Queues
  <2>2. IsRoute(route, at) /\ Len(route) = 2
    BY <2>1, SourceRoute DEF TravelInv, RecordInv
  <2>3. next' = Dest
    BY <2>1, <2>2 DEF IsRoute
  <2> QED BY <2>1, <2>3, DestSendsNot
<1>3. CASE RouteByCGR
  <2>1. PICK routes \in UNION {kSubset(k, Checked(Routes[at])) : k \in 1 .. MaxViable} :
          \E route \in Best(routes) : next' = route[2] /\ viable' = routes
    BY <1>3 DEF RouteByCGR, Queued
  <2>2. PICK route \in Best(routes) : next' = route[2] /\ viable' = routes
    BY <2>1
  <2>3. /\ IsRoute(route, at) /\ route[2] # at
        /\ \A other \in routes : /\ IsRoute(other, at) /\ other[2] # at
                                 /\ CheckValue(route) <= CheckValue(other)
    BY <1>1, <2>2, BestIsViable, HopElsewhere
  <2>4. ASSUME "reactive" \in features, at \notin retried, <<at, next'>> \in trips,
               NEW other \in viable'
        PROVE  <<at, other[2]>> \in trips
    <3>1. CheckValue(route) = 4
      BY <1>1, <2>2, <2>3, <2>4, Marks, TriedHasFailed
    <3>2. CheckValue(other) = 4
      BY <1>1, <2>2, <2>3, <3>1, Marks
    <3>3. other[2] \in FailedNeighbors(geo, at)
      BY <1>1, <2>2, <2>3, <3>2, Marks
    <3> QED BY <2>2, <2>3, <3>3, FailedWasTried
  <2>5. ASSUME "proactive" \in features, next' \in Visited, NEW other \in viable',
               ~ ("reactive" \in features /\ <<at, other[2]>> \in trips)
        PROVE  ToSet(SubSeq(other, 2, Len(other) - 1)) \cap Visited # {}
    <3>1. IsRoute(other, at) /\ other[2] # at /\ CheckValue(route) <= CheckValue(other)
      BY <2>2, <2>3
    <3>2. CheckValue(route) >= 3
      <4>1. Len(route) > 2
        <5>1. Len(route) \in Nat /\ Len(route) >= 2 /\ route[Len(route)] = Dest
          BY <2>3, NodesCounted DEF IsRoute
        <5>2. Len(route) # 2
          BY <2>2, <2>5, <5>1, DestSendsNot
        <5> DEFINE k == Len(route)
        <5>3. k \in Nat /\ k >= 2 /\ k # 2
          BY <5>1, <5>2, Zenon
        <5> HIDE DEF k
        <5>4. k > 2
          BY <5>3
        <5> QED BY <5>4 DEF k
      <4>2. route[2] \in ToSet(geo)
        <5>1. PICK trip \in trips : trip[1] = route[2]
          BY <2>2, <2>5 DEF Visited
        <5>2. geo \in Seq(Node) /\ DOMAIN geo = 1 .. Len(geo) /\ Len(geo) \in Nat
          BY DEF TravelInv, RecordInv, TravelTyped, TypeOK
        <5>3. \E i \in 1 .. Len(geo) : geo[i] = trip[1]
          <6>1. CASE \E i \in 1 .. Len(geo) - 1 : geo[i] = trip[1] /\ geo[i + 1] = trip[2]
            BY <5>2, <6>1
          <6>2. CASE geo # <<>> /\ geo[Len(geo)] = trip[1] /\ at = trip[2]
            <7>1. Len(geo) \in 1 .. Len(geo)
              BY <5>2, <6>2
            <7> QED BY <6>2, <7>1
          <6> QED BY <6>1, <6>2 DEF TravelInv, BlockTells, TripsTold
        <5> QED BY <5>1, <5>2, <5>3 DEF ToSet
      <4> QED BY <1>1, <2>3, <2>5, <4>1, <4>2, Marks
    <3>3. CheckValue(other) >= 3
      BY <1>1, <2>3, <3>1, <3>2, Marks
    <3>4. Len(other) > 2 /\ other[2] \in ToSet(geo)
      <4>1. ~ ("reactive" \in features /\ other[2] \in FailedNeighbors(geo, at))
        BY <2>5, <3>1, FailedWasTried
      <4> QED BY <1>1, <3>1, <3>3, <4>1, Marks
    <3>5. other[2] \in Visited
      BY <3>1, <3>4 DEF TravelInv, BlockTells
    <3>6. other[2] \in ToSet(SubSeq(other, 2, Len(other) - 1))
      <4> DEFINE inner == SubSeq(other, 2, Len(other) - 1)
      <4>1. other \in Seq(Node) /\ Len(other) \in Nat
        BY <3>1 DEF IsRoute
      <4>2. \A i \in 2 .. Len(other) - 1 : other[i] \in Node
        BY <4>1
      <4>3. /\ inner \in Seq(Node) /\ Len(inner) = Len(other) - 2
            /\ \A i \in 1 .. (Len(other) - 1) - 2 + 1 : inner[i] = other[2 + i - 1]
        BY <3>4, <4>1, <4>2, SubSeqProperties
      <4>4. 1 \in 1 .. (Len(other) - 1) - 2 + 1 /\ 1 \in DOMAIN inner /\ 2 + 1 - 1 = 2
        BY <3>4, <4>1, <4>3
      <4>5. inner[1] = other[2]
        BY <4>3, <4>4
      <4> HIDE DEF inner
      <4>6. other[2] \in ToSet(inner)
        BY <4>4, <4>5 DEF ToSet
      <4> QED BY <4>6 DEF inner
    <3> QED BY <3>5, <3>6
  <2> QED BY <2>4, <2>5
<1> QED
  BY <1>2, <1>3 DEF Route

LEMMA OnlyRouteQueues ==
  ASSUME TravelInv, [Next]_vars, Queues
  PROVE  Route
BY DEF Next, Send, SendFails, Again, Unqueued, Queues, vars

\* With the reactive mechanism the bundle is sent to a neighbor again only if it has been
\* sent to the neighbors of all viable routes; with the proactive one it goes to a node that
\* sent it before only if every viable route does.  For all nodes, contacts and features,
\* where every node's number passes for one in the block.
THEOREM TravelLoopsAvoided ==
  ASSUME Unread = {}
  PROVE  Spec => LoopsAvoided
<1>1. TravelInv /\ [Next]_vars
        => [Queues /\ "reactive" \in features /\ at \notin retried /\ <<at, next'>> \in trips
              => \A route \in viable' : <<at, route[2]>> \in trips]_vars
  BY OnlyRouteQueues, QueuedWell
<1>2. TravelInv /\ [Next]_vars
        => [Queues /\ "proactive" \in features /\ next' \in Visited
              => \A route \in viable' :
                   \/ ToSet(SubSeq(route, 2, Len(route) - 1)) \cap Visited # {}
                   \/ "reactive" \in features /\ <<at, route[2]>> \in trips]_vars
  BY OnlyRouteQueues, QueuedWell
<1>3. Spec => EachNeighborOnce
  BY TravelInit, TravelStep, <1>1, PTL DEF Spec, EachNeighborOnce
<1>4. Spec => LoopsLast
  BY TravelInit, TravelStep, <1>2, PTL DEF Spec, LoopsLast
<1> QED
  BY <1>3, <1>4 DEF LoopsAvoided

=============================================================================
