--------------------------- MODULE DijkstraProofs ---------------------------
(***************************************************************************)
(* Each search of phase one finds a path of earliest arrival, or fails     *)
(* only if there is none, whatever the marks that the spurs before it left *)
(* on the contacts: for all networks, routes, neighbors and times.         *)
(***************************************************************************)
EXTENDS Dijkstra, SequenceTheorems, FiniteSetTheorems, NaturalsInduction, WellFoundedInduction, TLAPS

\* The nodes of the first k contacts of the route: those that the root path leaves.
RootNodes(k) == {route[i].fromNode : i \in 1 .. k}

OnRoot == {route[i] : i \in 1 .. at} \cup {Root}

Start == IF at = 0 THEN Root ELSE route[at]

\* Where routes selected before go on from the root path.
Duplicates == {p[at + 1] : p \in {q \in selected : IsStrictPrefix(prefix, q)}}

Excluded(c) == at = 0 /\ c.fromNode = LocalNode /\ c.toNode \in excluded

\* Contacts that the path to find may go over.
Usable(c) ==
  /\ c \notin Duplicates /\ ~ Excluded(c)
  /\ c.fromNode \notin RootNodes(at) /\ c.toNode \notin RootNodes(at)

\* A bundle that comes over e can be sent over c.
Reaches(e, c) ==
  /\ c \in contacts /\ c.fromNode = e.toNode
  /\ c.toNode # e.fromNode \/ e = Root
  /\ Departure(c, labels[e].arrival) < c.toTime /\ c.owlt # NoRange

\* The distance of c by way of e.
Via(e, c) ==
  [arrival |-> Departure(c, labels[e].arrival) + LightTime(c), hops |-> labels[e].hops + 1,
   owlt |-> labels[e].owlt + LightTime(c), predecessor |-> e]

\* The contacts in the queue.
Waiting == DOMAIN labels \ (OnRoot \cup visited)

\* The marks that last from spur to spur are of the first k contacts of the route.
MarksLast(k) ==
  \A c \in contacts :
    /\ suppressed[c] = "fromNode" <=> c.fromNode \in RootNodes(k)
    /\ suppressed[c] = "toNode" => c.toNode \in RootNodes(k)

\* What a search hides is barred, of no use or leads into a loop; what is barred is hidden.
MarksSound ==
  /\ MarksLast(at)
  /\ \A c \in contacts :
       /\ suppressed[c] = "dijkstra" => c \in Duplicates \/ Excluded(c) \/ c.owlt = NoRange
       /\ c \in Duplicates => suppressed[c] # "no"
       /\ Root \in visited /\ Excluded(c) => suppressed[c] # "no"

\* Each distance outside the root path is what its predecessor, which was visited, gave it.
Reached ==
  \A c \in DOMAIN labels \ OnRoot :
    LET e == labels[c].predecessor
    IN  /\ e \in visited /\ Reaches(e, c) /\ labels[c] = Via(e, c)
        /\ c \notin Duplicates /\ ~ Excluded(c) /\ c.fromNode \notin RootNodes(at)

LabelsKept ==
  /\ OnRoot \subseteq DOMAIN labels
  /\ \A c \in OnRoot : labels[c] = RootPathLabels[c]
  /\ Reached

\* Contacts are visited in the order of their distances.
VisitsOrdered ==
  /\ visited \subseteq DOMAIN labels /\ visited \cap OnRoot \subseteq {Start}
  /\ \A e \in visited : e.toNode # Destination
  /\ \A c \in Waiting : suppressed[c] = "no"
  /\ \A e \in visited, c \in Waiting : ~ CompareEdges(labels[c], labels[e])

\* No visited contact can improve a distance.
Relaxed ==
  \A e \in visited, c \in contacts :
    Reaches(e, c) /\ Usable(c) => c \in DOMAIN labels /\ ~ CompareEdges(Via(e, c), labels[c])

CurrentLeast ==
  current \in Waiting /\ \A c \in Waiting : ~ CompareEdges(labels[c], labels[current])

\* Where the search is.
Progress ==
  /\ pc = "relax" =>
       /\ current.toNode # Destination
       /\ IF visited = {} THEN current = Start /\ DOMAIN labels = OnRoot ELSE CurrentLeast
  /\ pc = "found" => current.toNode = Destination /\ CurrentLeast
  /\ pc = "failed" => Best(Queue) = {}
  /\ pc # "relax" \/ visited # {} => Start \in visited

SearchInv ==
  /\ BarelyFeasible(prefix, now)
  /\ MarksSound /\ LabelsKept /\ VisitsOrdered /\ Relaxed /\ Progress

Searching == pc \in {"relax", "choose", "found", "failed"}

\* What is inductive.
DijkstraInv ==
  /\ TypeOK
  /\ pc = "start" /\ ~ first => MarksLast(IF at = 0 THEN 0 ELSE at - 1)
  /\ Searching => SearchInv

-----------------------------------------------------------------------------
(* Natural numbers and finite sets *)

LEMMA LeastNatural ==
  ASSUME NEW T \in SUBSET Nat, T # {}
  PROVE  \E m \in T : \A k \in T : m <= k
<1>1. PICK m \in T : \A k \in T : <<k, m>> \notin OpToRel(<, Nat)
  BY NatLessThanWellFounded, WFMin
<1>2. OpToRel(<, Nat) = {ss \in Nat \X Nat : ss[1] < ss[2]}
  BY Zenon DEF OpToRel
<1>3. ASSUME NEW k \in T PROVE ~ (k < m)
  <2>1. <<k, m>> \notin {ss \in Nat \X Nat : ss[1] < ss[2]}
    BY <1>1, <1>2, Zenon
  <2>2. k \in Nat /\ m \in Nat
    OBVIOUS
  <2> QED BY <2>1, <2>2
<1>4. \A k \in T : m <= k
  <2>1. \A k \in T : k \in Nat /\ m \in Nat
    OBVIOUS
  <2> QED BY <1>3, <2>1
<1> QED
  BY <1>4

\* The numbers that a finite set is mapped to have a bound.
LEMMA FiniteBound ==
  ASSUME NEW S, IsFiniteSet(S), NEW h \in [S -> Nat]
  PROVE  \E n \in Nat : \A x \in S : h[x] <= n
<1> DEFINE N == Cardinality(S)
<1>1. PICK f : f \in Bijection(1 .. N, S)
  BY FS_CardinalityType DEF ExistsBijection
<1>2. N \in Nat /\ f \in [1 .. N -> S] /\ \A x \in S : \E i \in 1 .. N : f[i] = x
  BY <1>1, FS_CardinalityType DEF Bijection, Injection, Surjection
<1> HIDE DEF N
<1> DEFINE unbounded == {k \in 0 .. N : ~ \E n \in Nat : \A i \in 1 .. k : h[f[i]] <= n}
<1>3. unbounded = {}
  <2>1. SUFFICES ASSUME unbounded # {} PROVE FALSE
    OBVIOUS
  <2>2. PICK k \in unbounded : \A m \in unbounded : k <= m
    <3>1. unbounded \in SUBSET Nat
      BY <1>2
    <3> HIDE DEF unbounded
    <3> QED BY <2>1, <3>1, LeastNatural
  <2>3. k \in 0 .. N /\ ~ \E n \in Nat : \A i \in 1 .. k : h[f[i]] <= n
    OBVIOUS
  <2>4. k # 0
    <3>1. \A i \in 1 .. 0 : h[f[i]] <= 0
      OBVIOUS
    <3> QED BY <2>3, <3>1
  <2>5. k - 1 \in 0 .. N /\ k - 1 < k
    BY <1>2, <2>3, <2>4
  <2>6. PICK n \in Nat : \A i \in 1 .. k - 1 : h[f[i]] <= n
    <3>1. k - 1 \notin unbounded
      <4> HIDE DEF unbounded
      <4> QED BY <2>2, <2>3, <2>5
    <3> QED BY <2>5, <3>1
  <2>7. h[f[k]] \in Nat
    BY <1>2, <2>3, <2>4
  <2>8. PICK m \in Nat : n <= m /\ h[f[k]] <= m
    <3>1. n <= n + h[f[k]] /\ h[f[k]] <= n + h[f[k]] /\ n + h[f[k]] \in Nat
      BY <2>7
    <3> QED BY <3>1
  <2>9. \A i \in 1 .. k : h[f[i]] <= m
    <3> SUFFICES ASSUME NEW i \in 1 .. k PROVE h[f[i]] <= m
      OBVIOUS
    <3>1. CASE i = k
      BY <2>8, <3>1
    <3>2. CASE i # k
      <4>1. i \in 1 .. k - 1 /\ h[f[i]] \in Nat
        BY <1>2, <2>3, <3>2
      <4> QED BY <2>6, <2>8, <4>1
    <3> QED BY <3>1, <3>2
  <2> QED BY <2>3, <2>9
<1>4. PICK n \in Nat : \A i \in 1 .. N : h[f[i]] <= n
  <2>1. N \in 0 .. N /\ N \notin unbounded
    <3>1. N \in 0 .. N
      BY <1>2
    <3> QED BY <1>3, <3>1, Zenon
  <2> QED BY <2>1
<1> QED
  BY <1>2, <1>4

-----------------------------------------------------------------------------
(* Contacts and times *)

LEMMA ContactType ==
  ASSUME NEW c \in Network
  PROVE  /\ c.fromNode \in Nat /\ c.toNode \in Nat /\ c.fromNode # c.toNode
         /\ c.fromTime \in Nat /\ c.toTime \in Nat /\ c.owlt \in Nat \cup {-1}
BY ContactGraphAssumption DEF NoRange

LEMMA RootApart ==
  /\ Root \notin Network
  /\ Root.fromNode = LocalNode /\ Root.toNode = LocalNode
<1>1. Root.fromNode = LocalNode /\ Root.toNode = LocalNode
  BY DEF Root
<1> QED
  BY <1>1, ContactType

LEMMA LightTimeNat ==
  ASSUME NEW c \in Network, c.owlt # NoRange
  PROVE  LightTime(c) \in Nat
<1>1. c.owlt \in Nat
  BY ContactType DEF NoRange
<1> QED
  BY <1>1 DEF LightTime

LEMMA DepartureIs ==
  ASSUME NEW c \in Network, NEW t \in Nat
  PROVE  Departure(c, t) = IF c.fromTime <= t THEN t ELSE c.fromTime
<1>1. c.fromTime \in Nat
  BY ContactType
<1>2. \E x \in {c.fromTime, t} : \A y \in {c.fromTime, t} : x >= y
  BY <1>1
<1>3. /\ Departure(c, t) \in {c.fromTime, t}
      /\ \A y \in {c.fromTime, t} : Departure(c, t) >= y
  BY <1>2, Zenon DEF Departure, Max
<1> QED
  BY <1>1, <1>3

\* To be at a contact earlier is never worse.
LEMMA DepartureMonotonic ==
  ASSUME NEW c \in Network, NEW s \in Nat, NEW t \in Nat, s <= t
  PROVE  /\ Departure(c, s) \in Nat /\ Departure(c, t) \in Nat
         /\ Departure(c, s) <= Departure(c, t) /\ t <= Departure(c, t)
BY DepartureIs, ContactType

-----------------------------------------------------------------------------
(* Times and light times along a path *)

\* g holds, for every i, the time at which a bundle is at the end of the i-th contact.
IsTimes(p, t, n, g) ==
  g = [i \in 0 .. n |-> IF i = 0 THEN t ELSE Departure(p[i], g[i - 1]) + LightTime(p[i])]

LEMMA TimesExist ==
  ASSUME NEW p, NEW t, NEW n \in Nat
  PROVE  \E g : IsTimes(p, t, n, g)
<1> DEFINE without == {k \in Nat : ~ \E g : IsTimes(p, t, k, g)}
<1>1. SUFFICES ASSUME without # {} PROVE FALSE
  OBVIOUS
<1>2. PICK m \in without : \A k \in without : m <= k
  <2>1. without \in SUBSET Nat
    OBVIOUS
  <2> HIDE DEF without
  <2> QED BY <1>1, <2>1, LeastNatural
<1>3. CASE m = 0
  <2>1. IsTimes(p, t, 0, [i \in 0 .. 0 |-> t])
    BY DEF IsTimes
  <2> QED BY <1>3, <2>1
<1>4. CASE m # 0
  <2>1. PICK g : IsTimes(p, t, m - 1, g)
    <3>1. m - 1 \in Nat /\ m - 1 \notin without
      <4> HIDE DEF without
      <4>1. m \in Nat
        BY DEF without
      <4> QED BY <1>2, <1>4, <4>1
    <3> QED BY <3>1
  <2> DEFINE h == [i \in 0 .. m |->
                     IF i = m THEN Departure(p[m], g[m - 1]) + LightTime(p[m]) ELSE g[i]]
  <2>2. m \in Nat /\ m > 0
    BY <1>4
  <2>3. h = [i \in 0 .. m |-> IF i = 0 THEN t ELSE Departure(p[i], h[i - 1]) + LightTime(p[i])]
    <3>1. \A i \in 0 .. m : i # m => h[i] = g[i] /\ i \in 0 .. m - 1
      BY <2>2
    <3>2. \A i \in 0 .. m - 1 :
            g[i] = IF i = 0 THEN t ELSE Departure(p[i], g[i - 1]) + LightTime(p[i])
      BY <2>1, Zenon DEF IsTimes
    <3>3. h[m] = Departure(p[m], g[m - 1]) + LightTime(p[m]) /\ h[m - 1] = g[m - 1]
      BY <2>2
    <3>4. \A i \in 1 .. m - 1 : h[i - 1] = g[i - 1]
      BY <2>2
    <3>5. \A i \in 0 .. m :
            h[i] = IF i = 0 THEN t ELSE Departure(p[i], h[i - 1]) + LightTime(p[i])
      <4> SUFFICES ASSUME NEW i \in 0 .. m
                   PROVE h[i] = IF i = 0 THEN t
                                ELSE Departure(p[i], h[i - 1]) + LightTime(p[i])
        BY Zenon
      <4> HIDE DEF h
      <4>1. CASE i = m
        BY <2>2, <3>3, <4>1
      <4>2. CASE i = 0
        BY <2>2, <3>1, <3>2, <4>2
      <4>3. CASE i # m /\ i # 0
        BY <2>2, <3>1, <3>2, <3>4, <4>3
      <4> QED BY <4>1, <4>2, <4>3
    <3> QED
      BY <3>5, Zenon DEF h
  <2>4. IsTimes(p, t, m, h)
    BY <2>3 DEF IsTimes
  <2> QED BY <2>4
<1> QED
  BY <1>3, <1>4

LEMMA TimesAlongIs ==
  ASSUME NEW p, Len(p) \in Nat, NEW t
  PROVE  /\ TimesAlong(p, t)[0] = t
         /\ \A i \in 1 .. Len(p) :
              TimesAlong(p, t)[i] = Departure(p[i], TimesAlong(p, t)[i - 1]) + LightTime(p[i])
<1>1. PICK g : IsTimes(p, t, Len(p), g)
  BY TimesExist
<1> DEFINE at_ == CHOOSE f : f = [i \in 0 .. Len(p) |->
                    IF i = 0 THEN t ELSE Departure(p[i], f[i - 1]) + LightTime(p[i])]
<1>2. at_ = [i \in 0 .. Len(p) |->
               IF i = 0 THEN t ELSE Departure(p[i], at_[i - 1]) + LightTime(p[i])]
  BY <1>1, Zenon DEF IsTimes
<1>3. TimesAlong(p, t) = at_
  BY Zenon DEF TimesAlong
<1> HIDE DEF at_
<1>4. \A i \in 0 .. Len(p) :
        at_[i] = IF i = 0 THEN t ELSE Departure(p[i], at_[i - 1]) + LightTime(p[i])
  BY <1>2, Zenon
<1> QED
  BY <1>3, <1>4

\* Where each contact has a range, times are natural numbers that do not decrease.
LEMMA TimesType ==
  ASSUME NEW p, Len(p) \in Nat, NEW t \in Nat, NEW n \in 0 .. Len(p),
         \A i \in 1 .. n : p[i] \in Network /\ p[i].owlt # NoRange
  PROVE  /\ \A i \in 0 .. n : TimesAlong(p, t)[i] \in Nat
         /\ \A i \in 1 .. n : TimesAlong(p, t)[i - 1] <= TimesAlong(p, t)[i]
<1> DEFINE T == TimesAlong(p, t)
           bad == {i \in 0 .. n : T[i] \notin Nat}
<1>1. /\ T[0] = t
      /\ \A i \in 1 .. Len(p) : T[i] = Departure(p[i], T[i - 1]) + LightTime(p[i])
  BY TimesAlongIs
<1> HIDE DEF T
<1>2. ASSUME NEW i \in 1 .. n, T[i - 1] \in Nat
      PROVE  T[i] \in Nat /\ T[i - 1] <= T[i]
  <2>1. i \in 1 .. Len(p)
    OBVIOUS
  <2>2. LightTime(p[i]) \in Nat
    BY LightTimeNat
  <2>3. Departure(p[i], T[i - 1]) \in Nat /\ T[i - 1] <= Departure(p[i], T[i - 1])
    BY <1>2, DepartureMonotonic
  <2> QED BY <1>1, <1>2, <2>1, <2>2, <2>3
<1>3. bad = {}
  <2>1. SUFFICES ASSUME bad # {} PROVE FALSE
    OBVIOUS
  <2>2. PICK i \in bad : \A k \in bad : i <= k
    <3>1. bad \in SUBSET Nat
      OBVIOUS
    <3> HIDE DEF bad
    <3> QED BY <2>1, <3>1, LeastNatural
  <2>3. i \in 0 .. n /\ T[i] \notin Nat
    OBVIOUS
  <2>4. i # 0
    BY <1>1, <2>3
  <2>5. i - 1 \notin bad /\ i - 1 \in 0 .. n /\ i \in 1 .. n
    <3> HIDE DEF bad
    <3> QED BY <2>2, <2>3, <2>4
  <2> QED BY <1>2, <2>3, <2>5
<1>4. \A i \in 0 .. n : T[i] \in Nat
  BY <1>3
<1>5. \A i \in 1 .. n : T[i - 1] <= T[i]
  <2> SUFFICES ASSUME NEW i \in 1 .. n PROVE T[i - 1] <= T[i]
    OBVIOUS
  <2>1. i - 1 \in 0 .. n
    OBVIOUS
  <2> QED BY <1>2, <1>4, <2>1
<1> QED
  BY <1>4, <1>5 DEF T

LEMMA TimesIncrease ==
  ASSUME NEW p, Len(p) \in Nat, NEW t \in Nat, NEW n \in 0 .. Len(p),
         \A i \in 1 .. n : p[i] \in Network /\ p[i].owlt # NoRange,
         NEW i \in 0 .. n, NEW j \in i .. n
  PROVE  TimesAlong(p, t)[i] <= TimesAlong(p, t)[j]
<1> DEFINE T == TimesAlong(p, t)
           bad == {k \in i .. n : ~ T[i] <= T[k]}
<1>1. /\ \A k \in 0 .. n : T[k] \in Nat
      /\ \A k \in 1 .. n : T[k - 1] <= T[k]
  BY TimesType
<1> HIDE DEF T
<1>2. SUFFICES ASSUME bad # {} PROVE FALSE
  BY DEF T
<1>3. PICK k \in bad : \A m \in bad : k <= m
  <2>1. bad \in SUBSET Nat
    OBVIOUS
  <2> HIDE DEF bad
  <2> QED BY <1>2, <2>1, LeastNatural
<1>4. k \in i .. n /\ ~ T[i] <= T[k]
  OBVIOUS
<1>5. k # i /\ k \in 1 .. n /\ k - 1 \in i .. n /\ k - 1 \in 0 .. n
  BY <1>1, <1>4
<1>6. k - 1 \notin bad
  <2> HIDE DEF bad
  <2> QED BY <1>3, <1>4, <1>5
<1>7. T[i] <= T[k - 1]
  BY <1>5, <1>6
<1> QED
  BY <1>1, <1>4, <1>5, <1>7

\* Paths that begin alike are travelled alike.
LEMMA TimesAgree ==
  ASSUME NEW p, NEW q, Len(p) \in Nat, Len(q) \in Nat, NEW t,
         NEW n \in 0 .. Len(p), n <= Len(q), \A i \in 1 .. n : p[i] = q[i]
  PROVE  \A i \in 0 .. n : TimesAlong(p, t)[i] = TimesAlong(q, t)[i]
<1> DEFINE P == TimesAlong(p, t)
           Q == TimesAlong(q, t)
           bad == {k \in 0 .. n : P[k] # Q[k]}
<1>1. /\ P[0] = t
      /\ \A i \in 1 .. Len(p) : P[i] = Departure(p[i], P[i - 1]) + LightTime(p[i])
  BY TimesAlongIs
<1>2. /\ Q[0] = t
      /\ \A i \in 1 .. Len(q) : Q[i] = Departure(q[i], Q[i - 1]) + LightTime(q[i])
  BY TimesAlongIs
<1> HIDE DEF P, Q
<1>3. SUFFICES ASSUME bad # {} PROVE FALSE
  BY DEF P, Q
<1>4. PICK k \in bad : \A m \in bad : k <= m
  <2>1. bad \in SUBSET Nat
    OBVIOUS
  <2> HIDE DEF bad
  <2> QED BY <1>3, <2>1, LeastNatural
<1>5. k \in 0 .. n /\ P[k] # Q[k]
  OBVIOUS
<1>6. k # 0
  BY <1>1, <1>2, <1>5
<1>7. k - 1 \notin bad /\ k - 1 \in 0 .. n /\ k \in 1 .. n
  <2> HIDE DEF bad
  <2> QED BY <1>4, <1>5, <1>6
<1>8. P[k - 1] = Q[k - 1]
  BY <1>7
<1>9. k \in 1 .. Len(p) /\ k \in 1 .. Len(q) /\ p[k] = q[k]
  BY <1>7
<1> QED
  BY <1>1, <1>2, <1>5, <1>8, <1>9

IsLights(p, n, g) ==
  g = [i \in 0 .. n |-> IF i = 0 THEN 0 ELSE g[i - 1] + LightTime(p[i])]

LEMMA LightsExist ==
  ASSUME NEW p, NEW n \in Nat
  PROVE  \E g : IsLights(p, n, g)
<1> DEFINE without == {k \in Nat : ~ \E g : IsLights(p, k, g)}
<1>1. SUFFICES ASSUME without # {} PROVE FALSE
  OBVIOUS
<1>2. PICK m \in without : \A k \in without : m <= k
  <2>1. without \in SUBSET Nat
    OBVIOUS
  <2> HIDE DEF without
  <2> QED BY <1>1, <2>1, LeastNatural
<1>3. CASE m = 0
  <2>1. IsLights(p, 0, [i \in 0 .. 0 |-> 0])
    BY DEF IsLights
  <2> QED BY <1>3, <2>1
<1>4. CASE m # 0
  <2>1. PICK g : IsLights(p, m - 1, g)
    <3>1. m - 1 \in Nat /\ m - 1 \notin without
      <4> HIDE DEF without
      <4>1. m \in Nat
        BY DEF without
      <4> QED BY <1>2, <1>4, <4>1
    <3> QED BY <3>1
  <2> DEFINE h == [i \in 0 .. m |-> IF i = m THEN g[m - 1] + LightTime(p[m]) ELSE g[i]]
  <2>2. m \in Nat /\ m > 0
    BY <1>4
  <2>3. h = [i \in 0 .. m |-> IF i = 0 THEN 0 ELSE h[i - 1] + LightTime(p[i])]
    <3>1. \A i \in 0 .. m : i # m => h[i] = g[i] /\ i \in 0 .. m - 1
      BY <2>2
    <3>2. \A i \in 0 .. m - 1 : g[i] = IF i = 0 THEN 0 ELSE g[i - 1] + LightTime(p[i])
      BY <2>1, Zenon DEF IsLights
    <3>3. h[m] = g[m - 1] + LightTime(p[m]) /\ h[m - 1] = g[m - 1]
      BY <2>2
    <3>4. \A i \in 1 .. m - 1 : h[i - 1] = g[i - 1]
      BY <2>2
    <3>5. \A i \in 0 .. m : h[i] = IF i = 0 THEN 0 ELSE h[i - 1] + LightTime(p[i])
      <4> SUFFICES ASSUME NEW i \in 0 .. m
                   PROVE h[i] = IF i = 0 THEN 0 ELSE h[i - 1] + LightTime(p[i])
        BY Zenon
      <4> HIDE DEF h
      <4>1. CASE i = m
        BY <2>2, <3>3, <4>1
      <4>2. CASE i = 0
        BY <2>2, <3>1, <3>2, <4>2
      <4>3. CASE i # m /\ i # 0
        BY <2>2, <3>1, <3>2, <3>4, <4>3
      <4> QED BY <4>1, <4>2, <4>3
    <3> QED
      BY <3>5, Zenon DEF h
  <2>4. IsLights(p, m, h)
    BY <2>3 DEF IsLights
  <2> QED BY <2>4
<1> QED
  BY <1>3, <1>4

LEMMA LightAlongType ==
  ASSUME NEW p, Len(p) \in Nat,
         \A i \in 1 .. Len(p) : p[i] \in Network /\ p[i].owlt # NoRange
  PROVE  \A i \in 0 .. Len(p) : LightAlong(p)[i] \in Nat
<1>1. PICK g : IsLights(p, Len(p), g)
  BY LightsExist
<1> DEFINE sum == CHOOSE f : f = [i \in 0 .. Len(p) |->
                    IF i = 0 THEN 0 ELSE f[i - 1] + LightTime(p[i])]
           bad == {i \in 0 .. Len(p) : sum[i] \notin Nat}
<1>2. sum = [i \in 0 .. Len(p) |-> IF i = 0 THEN 0 ELSE sum[i - 1] + LightTime(p[i])]
  BY <1>1, Zenon DEF IsLights
<1>3. LightAlong(p) = sum
  BY Zenon DEF LightAlong
<1> HIDE DEF sum
<1>4. \A i \in 0 .. Len(p) : sum[i] = IF i = 0 THEN 0 ELSE sum[i - 1] + LightTime(p[i])
  BY <1>2, Zenon
<1>5. SUFFICES ASSUME bad # {} PROVE FALSE
  BY <1>3
<1>6. PICK k \in bad : \A m \in bad : k <= m
  <2>1. bad \in SUBSET Nat
    OBVIOUS
  <2> HIDE DEF bad
  <2> QED BY <1>5, <2>1, LeastNatural
<1>7. k \in 0 .. Len(p) /\ sum[k] \notin Nat
  OBVIOUS
<1>8. k # 0
  BY <1>4, <1>7
<1>9. k - 1 \notin bad /\ k - 1 \in 0 .. Len(p) /\ k \in 1 .. Len(p)
  <2> HIDE DEF bad
  <2> QED BY <1>6, <1>7, <1>8
<1>10. LightTime(p[k]) \in Nat
  BY <1>9, LightTimeNat
<1> QED
  BY <1>4, <1>7, <1>8, <1>9, <1>10

-----------------------------------------------------------------------------
(* Paths that visit no node twice *)

\* The i-th node of p after the local node.
NodeOf(p, i) == IF i = 0 THEN LocalNode ELSE p[i].toNode

\* The contacts of p follow one another from the local node on.
Connected(p) ==
  /\ p \in Seq(Network) /\ Len(p) > 0
  /\ p[1].fromNode = LocalNode
  /\ \A i \in 1 .. Len(p) - 1 : p[i].toNode = p[i + 1].fromNode

NodesDistinct(p) == \A i, j \in 0 .. Len(p) : NodeOf(p, i) = NodeOf(p, j) => i = j

LEMMA NodesFinite == IsFiniteSet(Nodes) /\ Cardinality(Nodes) \in Nat
<1> DEFINE from == [c \in Network |-> c.fromNode]
           to == [c \in Network |-> c.toNode]
           F == {c.fromNode : c \in Network}
           T == {c.toNode : c \in Network}
<1>1. IsFiniteSet(F)
  <2>1. from \in Surjection(Network, F)
    BY DEF Surjection
  <2> QED BY <2>1, FS_Surjection, ContactGraphAssumption
<1>2. IsFiniteSet(T)
  <2>1. to \in Surjection(Network, T)
    BY DEF Surjection
  <2> QED BY <2>1, FS_Surjection, ContactGraphAssumption
<1>3. Nodes = F \cup T
  BY DEF Nodes
<1> HIDE DEF F, T
<1>4. IsFiniteSet(Nodes)
  BY <1>1, <1>2, <1>3, FS_Union
<1> QED
  BY <1>4, FS_CardinalityType

\* Every contact leaves from the node that the one before it leads to.
LEMMA ConnectedFrom ==
  ASSUME NEW p, Connected(p), NEW i \in 1 .. Len(p)
  PROVE  p[i] \in Network /\ p[i].fromNode = NodeOf(p, i - 1) /\ p[i].toNode = NodeOf(p, i)
<1>1. p[i] \in Network
  BY DEF Connected
<1>2. CASE i = 1
  BY <1>1, <1>2 DEF Connected, NodeOf
<1>3. CASE i # 1
  <2>1. i - 1 \in 1 .. Len(p) - 1 /\ (i - 1) + 1 = i
    BY <1>3 DEF Connected
  <2> QED BY <1>1, <1>3, <2>1 DEF Connected, NodeOf
<1> QED
  BY <1>2, <1>3

\* As no node is visited twice, a path is no longer than there are nodes.
LEMMA PathsAreShort ==
  ASSUME NEW p, Connected(p), NodesDistinct(p)
  PROVE  Len(p) <= Cardinality(Nodes) - 1
<1> DEFINE n == Len(p)
           f == [i \in 0 .. n |-> NodeOf(p, i)]
<1>1. n \in Nat
  BY DEF Connected
<1>2. \A i \in 0 .. n : NodeOf(p, i) \in Nodes
  <2> SUFFICES ASSUME NEW i \in 0 .. n PROVE NodeOf(p, i) \in Nodes
    OBVIOUS
  <2>1. CASE i = 0
    <3>1. 1 \in 1 .. Len(p)
      BY DEF Connected
    <3>2. p[1] \in Network /\ p[1].fromNode = LocalNode
      BY <3>1, ConnectedFrom DEF NodeOf
    <3> QED BY <2>1, <3>2 DEF NodeOf, Nodes
  <2>2. CASE i # 0
    <3>1. i \in 1 .. Len(p)
      BY <1>1, <2>2
    <3>2. p[i] \in Network
      BY <3>1, ConnectedFrom
    <3> QED BY <2>2, <3>2 DEF NodeOf, Nodes
  <2> QED BY <2>1, <2>2
<1>3. f \in Injection(0 .. n, Nodes)
  <2>1. f \in [0 .. n -> Nodes]
    BY <1>2
  <2>2. \A i, j \in 0 .. n : f[i] = f[j] => i = j
    BY DEF NodesDistinct
  <2> HIDE DEF f, n
  <2> QED BY <2>1, <2>2 DEF Injection, IsInjective
<1> HIDE DEF f
<1>4. Cardinality(0 .. n) <= Cardinality(Nodes)
  BY <1>3, NodesFinite, FS_Injection
<1>5. Cardinality(0 .. n) = n + 1
  BY <1>1, FS_Interval
<1> QED
  BY <1>1, <1>4, <1>5, NodesFinite

LEMMA SimplePathsAre ==
  ASSUME NEW p
  PROVE  p \in SimplePaths <=> Connected(p) /\ NodesDistinct(p)
<1>1. ASSUME p \in SimplePaths PROVE Connected(p) /\ NodesDistinct(p)
  <2>1. /\ p \in SeqOf(Network, Cardinality(Nodes) - 1)
        /\ p # <<>>
        /\ p[1].fromNode = LocalNode
        /\ \A i \in 1 .. Len(p) - 1 : p[i].toNode = p[i + 1].fromNode
        /\ \A i, j \in DOMAIN p : p[i].toNode # LocalNode /\ (i # j => p[i].toNode # p[j].toNode)
    BY <1>1, Zenon DEF SimplePaths
  <2>2. PICK m \in 0 .. Cardinality(Nodes) - 1 : p \in [1 .. m -> Network]
    BY <2>1, Zenon DEF SeqOf
  <2>3. p \in Seq(Network) /\ DOMAIN p = 1 .. Len(p) /\ Len(p) \in Nat
    BY <2>2, NodesFinite
  <2>4. Connected(p)
    BY <2>1, <2>3 DEF Connected
  <2>5. NodesDistinct(p)
    <3> SUFFICES ASSUME NEW i \in 0 .. Len(p), NEW j \in 0 .. Len(p),
                        NodeOf(p, i) = NodeOf(p, j), i # j
                 PROVE FALSE
      BY DEF NodesDistinct
    <3>1. CASE i = 0
      <4>1. j \in DOMAIN p
        BY <2>3, <3>1
      <4> QED BY <2>1, <3>1, <4>1 DEF NodeOf
    <3>2. CASE j = 0
      <4>1. i \in DOMAIN p
        BY <2>3, <3>2
      <4> QED BY <2>1, <3>2, <4>1 DEF NodeOf
    <3>3. CASE i # 0 /\ j # 0
      <4>1. i \in DOMAIN p /\ j \in DOMAIN p
        BY <2>3, <3>3
      <4> QED BY <2>1, <3>3, <4>1 DEF NodeOf
    <3> QED BY <3>1, <3>2, <3>3
  <2> QED BY <2>4, <2>5
<1>2. ASSUME Connected(p), NodesDistinct(p) PROVE p \in SimplePaths
  <2>1. Len(p) \in 0 .. Cardinality(Nodes) - 1 /\ p \in [1 .. Len(p) -> Network]
    BY <1>2, PathsAreShort, NodesFinite DEF Connected
  <2>2. p \in SeqOf(Network, Cardinality(Nodes) - 1)
    BY <2>1, Zenon DEF SeqOf
  <2>3. p # <<>> /\ p[1].fromNode = LocalNode
        /\ \A i \in 1 .. Len(p) - 1 : p[i].toNode = p[i + 1].fromNode
    BY <1>2 DEF Connected
  <2>4. \A i, j \in DOMAIN p : p[i].toNode # LocalNode /\ (i # j => p[i].toNode # p[j].toNode)
    <3> SUFFICES ASSUME NEW i \in DOMAIN p, NEW j \in DOMAIN p
                 PROVE p[i].toNode # LocalNode /\ (i # j => p[i].toNode # p[j].toNode)
      OBVIOUS
    <3>1. /\ i \in 0 .. Len(p) /\ j \in 0 .. Len(p) /\ 0 \in 0 .. Len(p) /\ i # 0 /\ j # 0
      BY <2>1
    <3> QED BY <1>2, <3>1 DEF NodesDistinct, NodeOf
  <2> QED BY <2>2, <2>3, <2>4, Zenon DEF SimplePaths
<1> QED
  BY <1>1, <1>2

-----------------------------------------------------------------------------
(* The order of the distances *)

LEMMA EdgesOrder ==
  ASSUME NEW a \in Label, NEW b \in Label, NEW c \in Label
  PROVE  /\ ~ CompareEdges(a, a)
         /\ CompareEdges(a, b) => ~ CompareEdges(b, a) /\ a.arrival <= b.arrival
         /\ ~ CompareEdges(a, b) => b.arrival <= a.arrival
         /\ ~ CompareEdges(b, a) /\ ~ CompareEdges(c, b) => ~ CompareEdges(c, a)
BY DEF CompareEdges, Label

\* In any set of distances one is least.
LEMMA LeastLabel ==
  ASSUME NEW S, NEW f, S # {}, \A x \in S : f[x] \in Label
  PROVE  \E x \in S : \A y \in S : ~ CompareEdges(f[y], f[x])
<1>1. PICK a \in {f[x].arrival : x \in S} : \A k \in {f[x].arrival : x \in S} : a <= k
  <2>1. {f[x].arrival : x \in S} \in SUBSET Nat /\ {f[x].arrival : x \in S} # {}
    BY DEF Label
  <2> QED BY <2>1, LeastNatural
<1> DEFINE A == {x \in S : f[x].arrival = a}
<1>2. PICK h \in {f[x].hops : x \in A} : \A k \in {f[x].hops : x \in A} : h <= k
  <2>1. {f[x].hops : x \in A} \in SUBSET Nat /\ {f[x].hops : x \in A} # {}
    BY <1>1 DEF Label
  <2> QED BY <2>1, LeastNatural
<1> DEFINE H == {x \in A : f[x].hops = h}
<1>3. PICK o \in {f[x].owlt : x \in H} : \A k \in {f[x].owlt : x \in H} : o <= k
  <2>1. {f[x].owlt : x \in H} \in SUBSET Nat /\ {f[x].owlt : x \in H} # {}
    BY <1>2 DEF Label
  <2> QED BY <2>1, LeastNatural
<1>4. PICK x \in H : f[x].owlt = o
  BY <1>3
<1>5. \A y \in S : ~ CompareEdges(f[y], f[x])
  <2> SUFFICES ASSUME NEW y \in S, CompareEdges(f[y], f[x]) PROVE FALSE
    OBVIOUS
  <2>1. /\ f[y].arrival \in Nat /\ f[y].hops \in Nat /\ f[y].owlt \in Nat
        /\ f[x].arrival = a /\ f[x].hops = h /\ f[x].owlt = o /\ a \in Nat /\ h \in Nat /\ o \in Nat
    BY <1>4 DEF Label
  <2>2. a <= f[y].arrival
    BY <1>1
  <2>3. f[y].arrival = a => h <= f[y].hops
    BY <1>2
  <2>4. f[y].arrival = a /\ f[y].hops = h => o <= f[y].owlt
    BY <1>3
  <2> HIDE DEF A, H
  <2> QED BY <2>1, <2>2, <2>3, <2>4 DEF CompareEdges
<1> QED
  BY <1>4, <1>5

-----------------------------------------------------------------------------
(* The root path *)

LEMMA RouteIs ==
  ASSUME NEW p \in Routes
  PROVE  /\ Connected(p) /\ NodesDistinct(p)
         /\ NodeOf(p, Len(p)) = Destination
         /\ \A i \in 1 .. Len(p) : p[i] \in contacts
<1>1. p \in SimplePaths /\ p[Len(p)].toNode = Destination /\ Range(p) \subseteq contacts
  BY DEF Routes, PathsTo
<1>2. Connected(p) /\ NodesDistinct(p)
  BY <1>1, SimplePathsAre
<1>3. Len(p) \in Nat /\ Len(p) # 0 /\ DOMAIN p = 1 .. Len(p)
  BY <1>2 DEF Connected
<1> QED
  BY <1>1, <1>2, <1>3 DEF NodeOf, Range

LEMMA RouteFacts ==
  ASSUME TypeOK
  PROVE  /\ Connected(route) /\ NodesDistinct(route) /\ NodeOf(route, Len(route)) = Destination
         /\ \A i \in 1 .. Len(route) : route[i] \in contacts
         /\ Len(route) \in Nat /\ at \in Nat /\ at < Len(route) /\ now \in Nat
BY RouteIs, DijkstraAssumption DEF TypeOK, Connected

LEMMA PrefixIs ==
  ASSUME NEW p \in Seq(Network), NEW k \in 0 .. Len(p)
  PROVE  /\ SubSeq(p, 1, k) \in Seq(Network) /\ Len(SubSeq(p, 1, k)) = k
         /\ \A i \in 1 .. k : SubSeq(p, 1, k)[i] = p[i]
<1>1. \A i \in 1 .. k : p[i] \in Network
  OBVIOUS
<1>2. /\ SubSeq(p, 1, k) \in Seq(Network)
      /\ Len(SubSeq(p, 1, k)) = IF 1 <= k THEN k - 1 + 1 ELSE 0
      /\ \A i \in 1 .. k - 1 + 1 : SubSeq(p, 1, k)[i] = p[1 + i - 1]
  BY <1>1, SubSeqProperties
<1> QED
  BY <1>2

LEMMA RootPathIs ==
  ASSUME TypeOK
  PROVE  /\ prefix \in Seq(Network) /\ Len(prefix) = at
         /\ \A i \in 1 .. at : prefix[i] = route[i] /\ route[i] \in contacts /\ route[i] # Root
         /\ \A i, j \in 1 .. at : route[i] = route[j] => i = j
         /\ Range(prefix) \cup {Root} = OnRoot
         /\ OnRoot \subseteq contacts \cup {Root}
<1>1. /\ Connected(route) /\ NodesDistinct(route) /\ at \in Nat /\ at < Len(route) /\ Len(route) \in Nat
      /\ \A i \in 1 .. Len(route) : route[i] \in contacts
  BY RouteFacts
<1>2. /\ prefix \in Seq(Network) /\ Len(prefix) = at
      /\ \A i \in 1 .. at : prefix[i] = route[i]
  BY <1>1, PrefixIs DEF Connected, prefix
<1>3. \A i \in 1 .. at : route[i] \in contacts /\ route[i] # Root
  BY <1>1, RootApart DEF contacts
<1>4. \A i, j \in 1 .. at : route[i] = route[j] => i = j
  <2> SUFFICES ASSUME NEW i \in 1 .. at, NEW j \in 1 .. at, route[i] = route[j] PROVE i = j
    OBVIOUS
  <2>1. i \in 0 .. Len(route) /\ j \in 0 .. Len(route) /\ i # 0 /\ j # 0
    BY <1>1
  <2> QED BY <1>1, <2>1 DEF NodesDistinct, NodeOf
<1>5. Range(prefix) = {route[i] : i \in 1 .. at}
  BY <1>2 DEF Range
<1> QED
  BY <1>2, <1>3, <1>4, <1>5 DEF OnRoot

LEMMA RootNodesAre ==
  ASSUME TypeOK, NEW k \in 0 .. at
  PROVE  /\ RootNodes(k) = {NodeOf(route, i) : i \in 0 .. k - 1}
         /\ \A i \in 0 .. Len(route) : NodeOf(route, i) \in RootNodes(k) <=> i < k
<1>1. /\ Connected(route) /\ NodesDistinct(route) /\ at \in Nat /\ at < Len(route) /\ Len(route) \in Nat
  BY RouteFacts
<1>2. \A i \in 1 .. k : route[i].fromNode = NodeOf(route, i - 1)
  BY <1>1, ConnectedFrom
<1>3. RootNodes(k) = {NodeOf(route, i) : i \in 0 .. k - 1}
  <2>1. ASSUME NEW i \in 1 .. k PROVE route[i].fromNode \in {NodeOf(route, j) : j \in 0 .. k - 1}
    BY <1>2
  <2>2. ASSUME NEW j \in 0 .. k - 1 PROVE NodeOf(route, j) \in {route[i].fromNode : i \in 1 .. k}
    <3>1. j + 1 \in 1 .. k /\ (j + 1) - 1 = j
      OBVIOUS
    <3> QED BY <1>2, <3>1
  <2> QED BY <2>1, <2>2 DEF RootNodes
<1>4. ASSUME NEW i \in 0 .. Len(route)
      PROVE  NodeOf(route, i) \in RootNodes(k) <=> i < k
  <2>1. \A j \in 0 .. k - 1 : j \in 0 .. Len(route)
    BY <1>1
  <2>2. \A j \in 0 .. k - 1 : NodeOf(route, j) = NodeOf(route, i) => j = i
    BY <1>1, <2>1 DEF NodesDistinct
  <2> QED BY <1>3, <2>2
<1> QED
  BY <1>3, <1>4

LEMMA StartIs ==
  ASSUME TypeOK
  PROVE  /\ Start \in OnRoot /\ Start.toNode = NodeOf(route, at)
         /\ Start.toNode \notin RootNodes(at) /\ Start.toNode # Destination
         /\ Destination \notin RootNodes(at)
         /\ \A c \in OnRoot \ {Root} : c.fromNode \in RootNodes(at) /\ c.toNode # Destination
         /\ at > 0 => LocalNode \in RootNodes(at)
<1>1. /\ Connected(route) /\ NodesDistinct(route) /\ at \in Nat /\ at < Len(route) /\ Len(route) \in Nat
      /\ NodeOf(route, Len(route)) = Destination
  BY RouteFacts
<1>2. \A i \in 0 .. Len(route) : NodeOf(route, i) \in RootNodes(at) <=> i < at
  BY <1>1, RootNodesAre
<1>3. Start \in OnRoot /\ Start.toNode = NodeOf(route, at)
  <2>1. CASE at = 0
    BY <2>1, RootApart DEF Start, OnRoot, NodeOf
  <2>2. CASE at # 0
    <3>1. at \in 1 .. at
      BY <1>1, <2>2
    <3> QED BY <2>2, <3>1 DEF Start, OnRoot, NodeOf
  <2> QED BY <2>1, <2>2
<1>4. /\ at \in 0 .. Len(route) /\ Len(route) \in 0 .. Len(route) /\ 0 \in 0 .. Len(route)
  BY <1>1
<1>5. NodeOf(route, at) # Destination
  BY <1>1, <1>4 DEF NodesDistinct
<1>6. Destination \notin RootNodes(at)
  BY <1>1, <1>2, <1>4
<1>7. ASSUME NEW c \in OnRoot \ {Root}
      PROVE  c.fromNode \in RootNodes(at) /\ c.toNode # Destination
  <2>1. PICK i \in 1 .. at : c = route[i]
    BY <1>7 DEF OnRoot
  <2>2. c.fromNode \in RootNodes(at)
    BY <2>1 DEF RootNodes
  <2>3. i \in 0 .. Len(route) /\ i # Len(route) /\ i # 0
    BY <1>1
  <2>4. c.toNode = NodeOf(route, i)
    BY <2>1, <2>3 DEF NodeOf
  <2> QED BY <1>1, <1>4, <2>2, <2>3, <2>4 DEF NodesDistinct
<1>8. at > 0 => LocalNode \in RootNodes(at)
  BY <1>2, <1>4 DEF NodeOf
<1> QED
  BY <1>1, <1>2, <1>3, <1>4, <1>5, <1>6, <1>7, <1>8

\* The distances on the root path, if it is in time.
LEMMA RootLabels ==
  ASSUME TypeOK, BarelyFeasible(prefix, now)
  PROVE  /\ DOMAIN RootPathLabels = OnRoot
         /\ RootPathLabels[Root] = RootLabel /\ RootLabel \in Label
         /\ \A i \in 1 .. at :
              /\ RootPathLabels[route[i]] =
                   [arrival |-> TimesAlong(prefix, now)[i], hops |-> i,
                    owlt |-> LightAlong(prefix)[i],
                    predecessor |-> IF i = 1 THEN Root ELSE route[i - 1]]
              /\ RootPathLabels[route[i]] \in Label
<1>1. /\ prefix \in Seq(Network) /\ Len(prefix) = at
      /\ \A i \in 1 .. at : prefix[i] = route[i] /\ route[i] \in contacts /\ route[i] # Root
      /\ \A i, j \in 1 .. at : route[i] = route[j] => i = j
      /\ Range(prefix) \cup {Root} = OnRoot
  BY RootPathIs
<1>2. at \in Nat /\ now \in Nat
  BY RouteFacts
<1>3. \A i \in 1 .. at : prefix[i] \in Network /\ prefix[i].owlt # NoRange
  BY <1>1, <1>2 DEF BarelyFeasible
<1>4. \A i \in 0 .. at : TimesAlong(prefix, now)[i] \in Nat
  BY <1>1, <1>2, <1>3, TimesType
<1>5. \A i \in 0 .. at : LightAlong(prefix)[i] \in Nat
  BY <1>1, <1>3, LightAlongType
<1>6. DOMAIN RootPathLabels = OnRoot
  BY <1>1 DEF RootPathLabels
<1>7. RootPathLabels[Root] = RootLabel /\ RootLabel \in Label
  BY <1>2 DEF RootPathLabels, RootLabel, Label
<1>8. ASSUME NEW i \in 1 .. at
      PROVE  /\ RootPathLabels[route[i]] =
                   [arrival |-> TimesAlong(prefix, now)[i], hops |-> i,
                    owlt |-> LightAlong(prefix)[i],
                    predecessor |-> IF i = 1 THEN Root ELSE route[i - 1]]
             /\ RootPathLabels[route[i]] \in Label
  <2>1. route[i] \in Range(prefix) \cup {Root} /\ route[i] # Root
    BY <1>1 DEF OnRoot
  <2> DEFINE k == CHOOSE j \in 1 .. at : prefix[j] = route[i]
  <2>2. k \in 1 .. at /\ prefix[k] = route[i]
    BY <1>1
  <2>3. k = i
    <3> HIDE DEF k
    <3> QED BY <1>1, <2>2
  <2> DEFINE label(j) == [arrival |-> TimesAlong(prefix, now)[j], hops |-> j,
                          owlt |-> LightAlong(prefix)[j],
                          predecessor |-> IF j = 1 THEN Root ELSE prefix[j - 1]]
  <2>4. RootPathLabels[route[i]] = label(k)
    BY <2>1 DEF RootPathLabels
  <2>5. i # 1 => prefix[i - 1] = route[i - 1] /\ route[i - 1] \in Network
    <3>1. i # 1 => i - 1 \in 1 .. at
      BY <1>2
    <3> QED BY <1>1, <3>1 DEF contacts
  <2> HIDE DEF k
  <2>6. RootPathLabels[route[i]] =
          [arrival |-> TimesAlong(prefix, now)[i], hops |-> i, owlt |-> LightAlong(prefix)[i],
           predecessor |-> IF i = 1 THEN Root ELSE route[i - 1]]
    BY <2>3, <2>4, <2>5
  <2>7. i \in 0 .. at /\ i \in Nat
    BY <1>2
  <2> QED BY <1>4, <1>5, <2>5, <2>6, <2>7 DEF Label
<1> QED
  BY <1>6, <1>7, <1>8

-----------------------------------------------------------------------------
(* The paths that the predecessors form *)

LEMMA TreeFacts ==
  ASSUME TypeOK, SearchInv
  PROVE  /\ Root \in DOMAIN labels /\ labels[Root] = RootLabel
         /\ \A c \in DOMAIN labels : labels[c] \in Label /\ c \in contacts \cup {Root}
         /\ \A c \in OnRoot : labels[c].hops <= at
         /\ \A i \in 1 .. at : route[i] \in DOMAIN labels /\ labels[route[i]].hops = i
         /\ labels[Start].hops = at /\ Start \in DOMAIN labels
         /\ \A c \in DOMAIN labels \ {Root} :
              LET e == labels[c].predecessor
              IN  /\ e \in DOMAIN labels /\ labels[c].hops = labels[e].hops + 1
                  /\ c.fromNode = e.toNode
<1>1. /\ OnRoot \subseteq DOMAIN labels
      /\ \A c \in OnRoot : labels[c] = RootPathLabels[c]
      /\ visited \subseteq DOMAIN labels
  BY DEF SearchInv, LabelsKept, VisitsOrdered
<1>2. /\ RootPathLabels[Root] = RootLabel /\ Root \in OnRoot
      /\ \A i \in 1 .. at :
           /\ route[i] \in OnRoot
           /\ RootPathLabels[route[i]].hops = i
           /\ RootPathLabels[route[i]].predecessor = IF i = 1 THEN Root ELSE route[i - 1]
  <2>1. ASSUME NEW i \in 1 .. at
        PROVE  /\ RootPathLabels[route[i]].hops = i
               /\ RootPathLabels[route[i]].predecessor = IF i = 1 THEN Root ELSE route[i - 1]
    <3>1. BarelyFeasible(prefix, now)
      BY DEF SearchInv
    <3>2. RootPathLabels[route[i]] =
            [arrival |-> TimesAlong(prefix, now)[i], hops |-> i, owlt |-> LightAlong(prefix)[i],
             predecessor |-> IF i = 1 THEN Root ELSE route[i - 1]]
      BY <3>1, RootLabels, Zenon
    <3> QED BY <3>2
  <2>2. RootPathLabels[Root] = RootLabel
    BY RootLabels, Zenon DEF SearchInv
  <2> QED BY <2>1, <2>2 DEF OnRoot
<1>3. labels[Root] = RootLabel /\ labels[Root].hops = 0
  BY <1>1, <1>2 DEF RootLabel
<1>4. at \in Nat /\ Connected(route) /\ at < Len(route) /\ Len(route) \in Nat
  BY RouteFacts
<1>5. \A i \in 1 .. at : labels[route[i]].hops = i
  BY <1>1, <1>2
<1>6. \A c \in OnRoot : labels[c].hops <= at
  BY <1>3, <1>4, <1>5 DEF OnRoot
<1>7. labels[Start].hops = at
  <2>1. CASE at = 0
    BY <1>3, <2>1 DEF Start
  <2>2. CASE at # 0
    <3>1. at \in 1 .. at
      BY <1>4, <2>2
    <3> QED BY <1>5, <2>2, <3>1 DEF Start
  <2> QED BY <2>1, <2>2
<1>8. ASSUME NEW c \in DOMAIN labels \ {Root}
      PROVE  /\ labels[c].predecessor \in DOMAIN labels
             /\ labels[c].hops = labels[labels[c].predecessor].hops + 1
             /\ c.fromNode = labels[c].predecessor.toNode
  <2>1. CASE c \in OnRoot
    <3>1. PICK i \in 1 .. at : c = route[i]
      BY <1>8, <2>1 DEF OnRoot
    <3>2. labels[c].predecessor = IF i = 1 THEN Root ELSE route[i - 1]
      BY <1>1, <1>2, <3>1
    <3>3. i \in 1 .. Len(route)
      BY <1>4
    <3>4. c.fromNode = NodeOf(route, i - 1)
      BY <1>4, <3>1, <3>3, ConnectedFrom
    <3>5. CASE i = 1
      <4>1. labels[c].predecessor = Root
        BY <3>2, <3>5
      <4>2. labels[c].hops = 1
        BY <1>5, <3>1, <3>5
      <4> QED BY <1>1, <1>2, <1>3, <3>4, <3>5, <4>1, <4>2, RootApart DEF NodeOf
    <3>6. CASE i # 1
      <4>1. labels[c].predecessor = route[i - 1] /\ i - 1 \in 1 .. at
        BY <1>4, <3>2, <3>6
      <4>2. labels[c].hops = i /\ labels[route[i - 1]].hops = i - 1
        BY <1>5, <3>1, <4>1
      <4>3. NodeOf(route, i - 1) = route[i - 1].toNode
        BY <4>1 DEF NodeOf
      <4> QED BY <1>1, <1>2, <3>4, <4>1, <4>2, <4>3
    <3> QED BY <3>5, <3>6
  <2>2. CASE c \notin OnRoot
    <3> DEFINE e == labels[c].predecessor
    <3>1. e \in visited /\ Reaches(e, c) /\ labels[c] = Via(e, c)
      BY <1>8, <2>2, Zenon DEF SearchInv, LabelsKept, Reached
    <3> HIDE DEF e
    <3>2. labels[c].hops = labels[e].hops + 1
      BY <3>1 DEF Via
    <3> QED BY <1>1, <3>1, <3>2 DEF Reaches, e
  <2> QED BY <2>1, <2>2
<1>9. \A c \in DOMAIN labels : labels[c] \in Label /\ c \in contacts \cup {Root}
  BY DEF TypeOK
<1>10. Start \in DOMAIN labels
  BY <1>1, StartIs
<1> QED
  BY <1>1, <1>2, <1>3, <1>5, <1>6, <1>7, <1>8, <1>9, <1>10

\* f holds the paths to the contacts up to n hops away.
Near(n) == {c \in DOMAIN labels : labels[c].hops <= n}

IsPaths(n, f) ==
  f = [c \in Near(n) |-> IF c = Root THEN <<>> ELSE Append(f[labels[c].predecessor], c)]

LEMMA PathsExist ==
  ASSUME TypeOK, SearchInv, NEW n \in Nat
  PROVE  \E f : IsPaths(n, f)
<1> DEFINE without == {k \in Nat : ~ \E f : IsPaths(k, f)}
<1>0. /\ labels[Root].hops = 0
      /\ \A c \in DOMAIN labels : labels[c].hops \in Nat
      /\ \A c \in DOMAIN labels \ {Root} :
           /\ labels[c].predecessor \in DOMAIN labels
           /\ labels[c].hops = labels[labels[c].predecessor].hops + 1
  <2>1. labels[Root].hops = 0
    BY TreeFacts DEF RootLabel
  <2>2. \A c \in DOMAIN labels : labels[c].hops \in Nat
    BY TreeFacts DEF Label
  <2> QED BY <2>1, <2>2, TreeFacts, Zenon
<1>1. SUFFICES ASSUME without # {} PROVE FALSE
  OBVIOUS
<1>2. PICK m \in without : \A k \in without : m <= k
  <2>1. without \in SUBSET Nat
    OBVIOUS
  <2> HIDE DEF without
  <2> QED BY <1>1, <2>1, LeastNatural
<1>3. CASE m = 0
  <2> DEFINE f == [c \in Near(0) |-> <<>>]
  <2>1. \A c \in Near(0) : c = Root
    BY <1>0 DEF Near
  <2>2. f = [c \in Near(0) |-> IF c = Root THEN <<>> ELSE Append(f[labels[c].predecessor], c)]
    BY <2>1
  <2>3. IsPaths(0, f)
    BY <2>2, Zenon DEF IsPaths
  <2> QED BY <1>3, <2>3
<1>4. CASE m # 0
  <2>1. PICK g : IsPaths(m - 1, g)
    <3>1. m - 1 \in Nat /\ m - 1 \notin without
      <4> HIDE DEF without
      <4>1. m \in Nat
        BY DEF without
      <4> QED BY <1>2, <1>4, <4>1
    <3> QED BY <3>1
  <2> DEFINE h == [c \in Near(m) |-> IF labels[c].hops = m
                                     THEN Append(g[labels[c].predecessor], c) ELSE g[c]]
  <2>2. m \in Nat /\ m > 0
    BY <1>4
  <2>3. \A c \in Near(m - 1) :
          g[c] = IF c = Root THEN <<>> ELSE Append(g[labels[c].predecessor], c)
    BY <2>1, Zenon DEF IsPaths
  <2>4. \A c \in Near(m) \ {Root} : labels[c].predecessor \in Near(m - 1)
    BY <1>0, <2>2 DEF Near
  <2>5. \A c \in Near(m - 1) : c \in Near(m) /\ h[c] = g[c]
    BY <1>0, <2>2 DEF Near
  <2>6. \A c \in Near(m) :
          h[c] = IF c = Root THEN <<>> ELSE Append(h[labels[c].predecessor], c)
    <3> SUFFICES ASSUME NEW c \in Near(m)
                 PROVE h[c] = IF c = Root THEN <<>> ELSE Append(h[labels[c].predecessor], c)
      BY Zenon
    <3>1. CASE labels[c].hops = m
      <4>1. c # Root
        BY <1>0, <2>2, <3>1
      <4>2. h[c] = Append(g[labels[c].predecessor], c)
        BY <3>1
      <4> HIDE DEF h
      <4> QED BY <2>4, <2>5, <4>1, <4>2
    <3>2. CASE labels[c].hops # m
      <4>1. c \in Near(m - 1)
        BY <1>0, <2>2, <3>2 DEF Near
      <4>2. h[c] = g[c]
        BY <2>5, <4>1
      <4>3. c # Root => h[labels[c].predecessor] = g[labels[c].predecessor]
        BY <2>4, <2>5
      <4> HIDE DEF h
      <4> QED BY <2>3, <4>1, <4>2, <4>3
    <3> QED BY <3>1, <3>2
  <2>7. h = [c \in Near(m) |-> IF c = Root THEN <<>> ELSE Append(h[labels[c].predecessor], c)]
    BY <2>6, Zenon DEF h
  <2>8. IsPaths(m, h)
    BY <2>7, Zenon DEF IsPaths
  <2> QED BY <2>8
<1> QED
  BY <1>3, <1>4

LEMMA ContactsFinite == IsFiniteSet(contacts \cup {Root})
<1>1. IsFiniteSet(contacts)
  BY ContactGraphAssumption, FS_Subset DEF contacts
<1> QED
  BY <1>1, FS_AddElement

LEMMA PathToIs ==
  ASSUME TypeOK, SearchInv
  PROVE  /\ PathTo(Root) = <<>>
         /\ \A c \in DOMAIN labels \ {Root} :
              PathTo(c) = Append(PathTo(labels[c].predecessor), c)
<1>1. PICK n \in Nat : \A c \in DOMAIN labels : labels[c].hops <= n
  <2> DEFINE h == [c \in DOMAIN labels |-> labels[c].hops]
  <2>1. IsFiniteSet(DOMAIN labels)
    BY ContactsFinite, FS_Subset DEF TypeOK
  <2>2. h \in [DOMAIN labels -> Nat]
    BY TreeFacts DEF Label
  <2>3. \A c \in DOMAIN labels : h[c] = labels[c].hops
    OBVIOUS
  <2> HIDE DEF h
  <2>4. \E n \in Nat : \A c \in DOMAIN labels : h[c] <= n
    BY <2>1, <2>2, FiniteBound
  <2> QED BY <2>3, <2>4
<1>2. Near(n) = DOMAIN labels
  BY <1>1 DEF Near
<1>3. PICK f : IsPaths(n, f)
  BY PathsExist
<1> DEFINE path == CHOOSE g : g = [c \in DOMAIN labels |->
                     IF c = Root THEN <<>> ELSE Append(g[labels[c].predecessor], c)]
<1>4. path = [c \in DOMAIN labels |->
                IF c = Root THEN <<>> ELSE Append(path[labels[c].predecessor], c)]
  BY <1>2, <1>3, Zenon DEF IsPaths
<1>5. \A c : PathTo(c) = path[c]
  BY Zenon DEF PathTo
<1> HIDE DEF path
<1>6. \A c \in DOMAIN labels :
        path[c] = IF c = Root THEN <<>> ELSE Append(path[labels[c].predecessor], c)
  BY <1>4, Zenon
<1> QED
  BY <1>5, <1>6, TreeFacts

\* The path to c goes back from predecessor to predecessor.
Traced(c) ==
  /\ PathTo(c) \in Seq(contacts) /\ Len(PathTo(c)) = labels[c].hops
  /\ c # Root => Len(PathTo(c)) > 0 /\ PathTo(c)[Len(PathTo(c))] = c
  /\ \A i \in 1 .. Len(PathTo(c)) :
       /\ PathTo(c)[i] \in DOMAIN labels \ {Root} /\ labels[PathTo(c)[i]].hops = i
       /\ labels[PathTo(c)[i]].predecessor = IF i = 1 THEN Root ELSE PathTo(c)[i - 1]

LEMMA PathsTraced ==
  ASSUME TypeOK, SearchInv
  PROVE  \A c \in DOMAIN labels : Traced(c)
<1> DEFINE bad == {c \in DOMAIN labels : ~ Traced(c)}
           far == {labels[c].hops : c \in bad}
<1>1. SUFFICES ASSUME bad # {} PROVE FALSE
  OBVIOUS
<1>2. \A c \in DOMAIN labels : labels[c].hops \in Nat
  BY TreeFacts DEF Label
<1>3. PICK n \in far : \A k \in far : n <= k
  <2>1. far \in SUBSET Nat /\ far # {}
    BY <1>1, <1>2
  <2> HIDE DEF far
  <2> QED BY <2>1, LeastNatural
<1>4. PICK c \in bad : labels[c].hops = n
  OBVIOUS
<1>5. c \in DOMAIN labels /\ ~ Traced(c)
  BY <1>4
<1>6. \A d \in DOMAIN labels : labels[d].hops < n => Traced(d)
  <2> SUFFICES ASSUME NEW d \in DOMAIN labels, labels[d].hops < n, ~ Traced(d) PROVE FALSE
    OBVIOUS
  <2>1. labels[d].hops \in far
    OBVIOUS
  <2>2. labels[d].hops \in Nat /\ n \in Nat
    BY <1>2, <1>4
  <2> HIDE DEF far
  <2> QED BY <1>3, <2>1, <2>2
<1> HIDE DEF bad, far
<1>7. CASE c = Root
  <2>1. PathTo(c) = <<>> /\ labels[c].hops = 0
    BY <1>7, PathToIs, TreeFacts DEF RootLabel
  <2> QED BY <1>5, <1>7, <2>1 DEF Traced
<1>8. CASE c # Root
  <2> DEFINE e == labels[c].predecessor
             p == PathTo(c)
             q == PathTo(e)
  <2>1. e \in DOMAIN labels /\ labels[c].hops = labels[e].hops + 1
    BY <1>5, <1>8, TreeFacts
  <2>2. p = Append(q, c)
    BY <1>5, <1>8, PathToIs
  <2>3. Traced(e) /\ labels[e].hops \in Nat
    BY <1>2, <1>4, <1>6, <2>1
  <2>4. c \in contacts
    BY <1>5, <1>8, TreeFacts
  <2>5. /\ q \in Seq(contacts) /\ Len(q) = labels[e].hops
        /\ e # Root => Len(q) > 0 /\ q[Len(q)] = e
        /\ \A i \in 1 .. Len(q) :
             /\ q[i] \in DOMAIN labels \ {Root} /\ labels[q[i]].hops = i
             /\ labels[q[i]].predecessor = IF i = 1 THEN Root ELSE q[i - 1]
    BY <2>3, Zenon DEF Traced
  <2>6. e = Root => labels[e].hops = 0
    BY TreeFacts DEF RootLabel
  <2>61. labels[c].predecessor = e
    OBVIOUS
  <2> HIDE DEF e, p, q
  <2>7. /\ p \in Seq(contacts) /\ Len(p) = Len(q) + 1 /\ p[Len(q) + 1] = c
        /\ \A i \in 1 .. Len(q) : p[i] = q[i]
    BY <2>2, <2>4, <2>5, AppendProperties
  <2>8. Len(p) = labels[c].hops /\ Len(p) > 0 /\ p[Len(p)] = c
    BY <2>1, <2>3, <2>5, <2>7
  <2>9. ASSUME NEW i \in 1 .. Len(p)
        PROVE  /\ p[i] \in DOMAIN labels \ {Root} /\ labels[p[i]].hops = i
               /\ labels[p[i]].predecessor = IF i = 1 THEN Root ELSE p[i - 1]
    <3>1. CASE i = Len(p)
      <4>1. p[i] = c /\ labels[p[i]].hops = i
        BY <2>8, <3>1
      <4>2. CASE i = 1
        <5>1. labels[e].hops = 0
          BY <2>1, <2>3, <2>5, <2>7, <3>1, <4>2
        <5>2. e = Root
          BY <2>5, <5>1
        <5> QED BY <1>5, <1>8, <2>61, <4>1, <4>2, <5>2
      <4>3. CASE i # 1
        <5>1. Len(q) = i - 1 /\ i - 1 \in 1 .. Len(q)
          BY <2>3, <2>5, <2>7, <3>1, <4>3
        <5>2. e # Root
          BY <2>5, <2>6, <5>1
        <5>3. p[i - 1] = e
          BY <2>5, <2>7, <5>1, <5>2
        <5> QED BY <1>5, <1>8, <2>61, <4>1, <4>3, <5>3
      <4> QED BY <4>2, <4>3
    <3>2. CASE i # Len(p)
      <4>1. i \in 1 .. Len(q) /\ (i # 1 => i - 1 \in 1 .. Len(q))
        BY <2>3, <2>5, <2>7, <3>2
      <4> QED BY <2>5, <2>7, <4>1
    <3> QED BY <3>1, <3>2
  <2> QED BY <1>5, <2>7, <2>8, <2>9 DEF Traced, p
<1> QED
  BY <1>7, <1>8

\* Beyond the root path the hops go on, so the others are further away.
LEMMA AheadOfRoot ==
  ASSUME TypeOK, SearchInv
  PROVE  \A c \in DOMAIN labels : c \in OnRoot <=> labels[c].hops <= at
<1> DEFINE bad == {c \in DOMAIN labels \ OnRoot : labels[c].hops <= at}
           far == {labels[c].hops : c \in bad}
<1>1. \A c \in DOMAIN labels : labels[c].hops \in Nat
  BY TreeFacts DEF Label
<1>2. bad = {}
  <2>1. SUFFICES ASSUME bad # {} PROVE FALSE
    OBVIOUS
  <2>2. PICK n \in far : \A k \in far : n <= k
    <3>1. far \in SUBSET Nat /\ far # {}
      BY <1>1, <2>1
    <3> HIDE DEF far
    <3> QED BY <3>1, LeastNatural
  <2>3. PICK c \in bad : labels[c].hops = n
    OBVIOUS
  <2>4. c \in DOMAIN labels \ OnRoot /\ c # Root /\ labels[c].hops <= at
    BY DEF OnRoot
  <2> DEFINE e == labels[c].predecessor
  <2>5. e \in visited /\ e \in DOMAIN labels /\ labels[c].hops = labels[e].hops + 1
    <3>1. e \in visited
      BY <2>4, Zenon DEF SearchInv, LabelsKept, Reached
    <3>2. e \in DOMAIN labels /\ labels[c].hops = labels[e].hops + 1
      BY <2>4, TreeFacts
    <3> QED BY <3>1, <3>2
  <2> HIDE DEF e
  <2>6. at \in Nat
    BY RouteFacts
  <2>7. CASE e \in OnRoot
    <3>1. e = Start
      BY <2>5, <2>7 DEF SearchInv, VisitsOrdered
    <3> QED BY <2>4, <2>5, <2>6, <3>1, TreeFacts
  <2>8. CASE e \notin OnRoot
    <3>1. labels[e].hops \in far /\ labels[e].hops < n
      BY <1>1, <2>3, <2>4, <2>5, <2>6, <2>8
    <3> HIDE DEF far, bad
    <3> QED BY <1>1, <2>2, <2>5, <2>3, <2>4, <3>1
  <2> QED BY <2>7, <2>8
<1> QED
  BY <1>2, TreeFacts

\* The path to a contact keeps to the root path, and goes on over visited contacts.
LEMMA PathAhead ==
  ASSUME TypeOK, SearchInv, NEW c \in DOMAIN labels
  PROVE  LET p == PathTo(c)
         IN  /\ p \in Seq(Network) /\ Len(p) = labels[c].hops /\ Len(p) \in Nat
             /\ \A i \in 1 .. Len(p) :
                  IF i <= at THEN p[i] = route[i] ELSE p[i] \in DOMAIN labels \ OnRoot
             /\ \A i \in 1 .. Len(p) - 1 : at < i => p[i] \in visited
             /\ c \notin OnRoot =>
                  at < Len(p) /\ Start \in visited /\ (at > 0 => Start = p[at])
<1> DEFINE p == PathTo(c)
<1>1. /\ p \in Seq(contacts) /\ Len(p) = labels[c].hops
      /\ c # Root => Len(p) > 0 /\ p[Len(p)] = c
      /\ \A i \in 1 .. Len(p) :
           /\ p[i] \in DOMAIN labels \ {Root} /\ labels[p[i]].hops = i
           /\ labels[p[i]].predecessor = IF i = 1 THEN Root ELSE p[i - 1]
  <2>1. Traced(c)
    BY PathsTraced
  <2> QED BY <2>1, Zenon DEF Traced
<1> HIDE DEF p
<1>2. p \in Seq(Network) /\ Len(p) \in Nat
  BY <1>1 DEF contacts
<1>3. ASSUME NEW i \in 1 .. Len(p)
      PROVE  IF i <= at THEN p[i] = route[i] ELSE p[i] \in DOMAIN labels \ OnRoot
  <2>1. p[i] \in OnRoot <=> i <= at
    BY <1>1, AheadOfRoot
  <2>2. ASSUME i <= at PROVE p[i] = route[i]
    <3>1. PICK j \in 1 .. at : p[i] = route[j]
      BY <1>1, <2>1, <2>2 DEF OnRoot
    <3>2. labels[route[j]].hops = j
      BY TreeFacts
    <3> QED BY <1>1, <3>1, <3>2
  <2> QED BY <1>1, <2>1, <2>2
<1>4. ASSUME NEW i \in 1 .. Len(p), at < i
      PROVE  labels[p[i]].predecessor \in visited
  <2>1. p[i] \in DOMAIN labels \ OnRoot
    BY <1>3, <1>4, RouteFacts
  <2> QED BY <2>1, Zenon DEF SearchInv, LabelsKept, Reached
<1>5. ASSUME NEW i \in 1 .. Len(p) - 1, at < i PROVE p[i] \in visited
  <2>1. i + 1 \in 1 .. Len(p) /\ at < i + 1 /\ (i + 1) - 1 = i /\ i + 1 # 1
    BY <1>2, <1>5, RouteFacts
  <2>2. labels[p[i + 1]].predecessor \in visited
    BY <1>4, <2>1
  <2> QED BY <1>1, <2>1, <2>2
<1>6. ASSUME c \notin OnRoot
      PROVE  at < Len(p) /\ Start \in visited /\ (at > 0 => Start = p[at])
  <2>1. at < Len(p)
    BY <1>1, <1>2, <1>6, AheadOfRoot, RouteFacts
  <2>2. at + 1 \in 1 .. Len(p) /\ at < at + 1
    BY <1>2, <2>1, RouteFacts
  <2>3. labels[p[at + 1]].predecessor \in visited
    BY <1>4, <2>2
  <2>4. CASE at = 0
    <3>1. labels[p[at + 1]].predecessor = Root
      BY <1>1, <2>2, <2>4
    <3> QED BY <2>1, <2>3, <2>4, <3>1 DEF Start
  <2>5. CASE at # 0
    <3>1. at \in 1 .. Len(p) /\ at + 1 # 1 /\ (at + 1) - 1 = at
      BY <1>2, <2>1, <2>5, RouteFacts
    <3>2. labels[p[at + 1]].predecessor = p[at]
      BY <1>1, <2>2, <3>1
    <3>3. p[at] = route[at]
      BY <1>3, <3>1
    <3> QED BY <2>1, <2>3, <2>5, <3>2, <3>3 DEF Start
  <2> QED BY <2>4, <2>5
<1> QED
  BY <1>1, <1>2, <1>3, <1>5, <1>6 DEF p

\* A distance is the time at which a bundle sent along the path arrives.
LEMMA PathTimes ==
  ASSUME TypeOK, SearchInv, NEW c \in DOMAIN labels
  PROVE  LET p == PathTo(c)
         IN  /\ TimesAlong(p, now)[0] = now
             /\ \A i \in 1 .. Len(p) : TimesAlong(p, now)[i] = labels[p[i]].arrival
<1> DEFINE p == PathTo(c)
           T == TimesAlong(p, now)
           R == TimesAlong(prefix, now)
           bad == {i \in 1 .. Len(p) : T[i] # labels[p[i]].arrival}
<1>1. /\ p \in Seq(Network) /\ Len(p) \in Nat
      /\ \A i \in 1 .. Len(p) :
           IF i <= at THEN p[i] = route[i] ELSE p[i] \in DOMAIN labels \ OnRoot
  BY PathAhead
<1>2. \A i \in 1 .. Len(p) : labels[p[i]].predecessor = IF i = 1 THEN Root ELSE p[i - 1]
  <2>1. Traced(c)
    BY PathsTraced
  <2> QED BY <2>1, Zenon DEF Traced
<1> HIDE DEF p
<1>3. /\ T[0] = now
      /\ \A i \in 1 .. Len(p) : T[i] = Departure(p[i], T[i - 1]) + LightTime(p[i])
  BY <1>1, TimesAlongIs
<1>4. at \in Nat /\ Len(prefix) = at /\ \A i \in 1 .. at : prefix[i] = route[i]
  BY RouteFacts, RootPathIs
<1>5. ASSUME NEW i \in 1 .. Len(p), i <= at PROVE T[i] = labels[p[i]].arrival
  <2>1. i \in 0 .. Len(p) /\ i <= Len(prefix) /\ \A j \in 1 .. i : p[j] = prefix[j]
    BY <1>1, <1>4, <1>5
  <2>2. T[i] = R[i]
    <3>1. \A j \in 0 .. i : T[j] = R[j]
      <4>1. Len(prefix) \in Nat /\ Len(p) \in Nat
        BY <1>1, <1>4
      <4>2. \A j \in 0 .. i : TimesAlong(p, now)[j] = TimesAlong(prefix, now)[j]
        <5> HIDE DEF T, R
        <5> QED BY <2>1, <4>1, TimesAgree
      <4> QED BY <4>2
    <3>2. i \in 0 .. i
      OBVIOUS
    <3> HIDE DEF T, R
    <3> QED BY <3>1, <3>2
  <2>3. i \in 1 .. at /\ p[i] = route[i]
    BY <1>1, <1>4, <1>5
  <2>4. BarelyFeasible(prefix, now)
    BY DEF SearchInv
  <2>5. RootPathLabels[route[i]] =
          [arrival |-> R[i], hops |-> i, owlt |-> LightAlong(prefix)[i],
           predecessor |-> IF i = 1 THEN Root ELSE route[i - 1]]
    BY <2>3, <2>4, RootLabels, Zenon
  <2>6. labels[route[i]] = RootPathLabels[route[i]]
    <3>1. route[i] \in OnRoot
      BY <2>3 DEF OnRoot
    <3> QED BY <3>1 DEF SearchInv, LabelsKept
  <2> QED BY <2>2, <2>3, <2>5, <2>6
<1> HIDE DEF T, R
<1>6. bad = {}
  <2>1. SUFFICES ASSUME bad # {} PROVE FALSE
    OBVIOUS
  <2>2. PICK i \in bad : \A k \in bad : i <= k
    <3>1. bad \in SUBSET Nat
      OBVIOUS
    <3> HIDE DEF bad
    <3> QED BY <2>1, <3>1, LeastNatural
  <2>3. i \in 1 .. Len(p) /\ T[i] # labels[p[i]].arrival
    OBVIOUS
  <2>4. ~ (i <= at)
    BY <1>5, <2>3
  <2>5. p[i] \in DOMAIN labels \ OnRoot
    BY <1>1, <2>3, <2>4
  <2> DEFINE e == labels[p[i]].predecessor
  <2>6. labels[p[i]] = Via(e, p[i])
    BY <2>5, Zenon DEF SearchInv, LabelsKept, Reached
  <2>7. labels[p[i]].arrival = Departure(p[i], labels[e].arrival) + LightTime(p[i])
    <3> HIDE DEF e
    <3> QED BY <2>6 DEF Via
  <2>8. labels[e].arrival = T[i - 1]
    <3>1. CASE i = 1
      <4>1. e = Root /\ labels[Root].arrival = now
        BY <1>2, <2>3, <3>1, TreeFacts DEF RootLabel
      <4> QED BY <1>3, <3>1, <4>1
    <3>2. CASE i # 1
      <4>1. e = p[i - 1] /\ i - 1 \in 1 .. Len(p)
        BY <1>1, <1>2, <2>3, <3>2
      <4>2. i - 1 \notin bad
        <5> HIDE DEF bad
        <5> QED BY <1>1, <2>2, <2>3, <4>1
      <4> QED BY <4>1, <4>2
    <3> QED BY <3>1, <3>2
  <2> HIDE DEF e
  <2> QED BY <1>3, <2>3, <2>7, <2>8
<1> QED
  BY <1>3, <1>6 DEF p, T

\* What is known of each hop of the path to a contact.
LEMMA PathHops ==
  ASSUME TypeOK, SearchInv, NEW c \in DOMAIN labels \ {Root}
  PROVE  LET p == PathTo(c)
             T == TimesAlong(p, now)
         IN  /\ Connected(p) /\ p[Len(p)] = c /\ Len(p) = labels[c].hops
             /\ labels[c].arrival = Arrival(p, now)
             /\ \A i \in 1 .. Len(p) :
                  /\ p[i] \in contacts /\ p[i].owlt # NoRange
                  /\ T[i - 1] \in Nat /\ T[i] \in Nat
                  /\ Departure(p[i], T[i - 1]) <= p[i].toTime
                  /\ at < i => Departure(p[i], T[i - 1]) < p[i].toTime
<1> DEFINE p == PathTo(c)
           T == TimesAlong(p, now)
           R == TimesAlong(prefix, now)
<1>1. /\ p \in Seq(Network) /\ Len(p) \in Nat /\ Len(p) = labels[c].hops
      /\ \A i \in 1 .. Len(p) :
           IF i <= at THEN p[i] = route[i] ELSE p[i] \in DOMAIN labels \ OnRoot
  BY PathAhead
<1>2. /\ p \in Seq(contacts) /\ Len(p) > 0 /\ p[Len(p)] = c
      /\ \A i \in 1 .. Len(p) :
           /\ p[i] \in DOMAIN labels \ {Root} /\ labels[p[i]].hops = i
           /\ labels[p[i]].predecessor = IF i = 1 THEN Root ELSE p[i - 1]
  <2>1. Traced(c)
    BY PathsTraced
  <2> QED BY <2>1, Zenon DEF Traced
<1>3. T[0] = now /\ \A i \in 1 .. Len(p) : T[i] = labels[p[i]].arrival
  BY PathTimes
<1> HIDE DEF p
<1>4. now \in Nat /\ at \in Nat
  BY RouteFacts
<1>5. Connected(p)
  <2>1. p[1].fromNode = LocalNode
    <3>1. labels[p[1]].predecessor = Root /\ p[1] \in DOMAIN labels \ {Root}
      BY <1>1, <1>2
    <3> QED BY <3>1, TreeFacts, RootApart
  <2>2. ASSUME NEW i \in 1 .. Len(p) - 1 PROVE p[i].toNode = p[i + 1].fromNode
    <3>1. i + 1 \in 1 .. Len(p) /\ i + 1 # 1 /\ (i + 1) - 1 = i
      BY <1>1
    <3>2. labels[p[i + 1]].predecessor = p[i] /\ p[i + 1] \in DOMAIN labels \ {Root}
      BY <1>2, <3>1
    <3> QED BY <3>2, TreeFacts
  <2> QED BY <1>1, <1>2, <2>1, <2>2 DEF Connected
<1>6. labels[c].arrival = Arrival(p, now)
  <2>1. Len(p) \in 1 .. Len(p)
    BY <1>1, <1>2
  <2> QED BY <1>2, <1>3, <2>1 DEF Arrival
<1>7. \A i \in 0 .. Len(p) : T[i] \in Nat
  <2>1. \A i \in 1 .. Len(p) : labels[p[i]].arrival \in Nat
    BY <1>2, TreeFacts DEF Label
  <2> HIDE DEF T
  <2>2. ASSUME NEW i \in 0 .. Len(p) PROVE T[i] \in Nat
    <3>1. i = 0 \/ i \in 1 .. Len(p)
      BY <1>1
    <3> QED BY <1>3, <1>4, <2>1, <3>1
  <2> QED BY <2>2
<1>8. ASSUME NEW i \in 1 .. Len(p)
      PROVE  /\ p[i] \in contacts /\ p[i].owlt # NoRange
             /\ T[i - 1] \in Nat /\ T[i] \in Nat
             /\ Departure(p[i], T[i - 1]) <= p[i].toTime
             /\ at < i => Departure(p[i], T[i - 1]) < p[i].toTime
  <2>1. p[i] \in contacts /\ p[i] \in Network
    BY <1>1, <1>2
  <2>2. i - 1 \in 0 .. Len(p) /\ i \in 0 .. Len(p)
    BY <1>1
  <2>3. T[i - 1] \in Nat /\ T[i] \in Nat
    BY <1>7, <2>2
  <2>4. CASE i <= at
    <3>1. p[i] = prefix[i] /\ i \in 1 .. at /\ Len(prefix) = at
      BY <1>1, <1>4, <2>4, RootPathIs
    <3>2. prefix[i].owlt # NoRange /\ Departure(prefix[i], R[i - 1]) <= prefix[i].toTime
      <4>1. DOMAIN prefix = 1 .. at
        BY RootPathIs
      <4> QED BY <3>1, <4>1 DEF SearchInv, BarelyFeasible
    <3>3. \A j \in 1 .. i : p[j] = prefix[j]
      BY <1>1, <1>4, <2>4, RootPathIs
    <3>4. \A j \in 0 .. i : T[j] = R[j]
      BY <1>1, <1>4, <2>2, <2>4, <3>1, <3>3, TimesAgree
    <3>5. T[i - 1] = R[i - 1]
      <4>1. i - 1 \in 0 .. i
        BY <1>4, <3>1
      <4> HIDE DEF T, R
      <4> QED BY <3>4, <4>1
    <3> HIDE DEF T, R
    <3> QED BY <1>4, <2>1, <2>3, <2>4, <3>1, <3>2, <3>5
  <2>5. CASE ~ (i <= at)
    <3> DEFINE e == labels[p[i]].predecessor
    <3>1. p[i] \in DOMAIN labels \ OnRoot
      BY <1>1, <2>5
    <3>2. Reaches(e, p[i])
      BY <3>1, Zenon DEF SearchInv, LabelsKept, Reached
    <3>3. labels[e].arrival = T[i - 1]
      <4>1. CASE i = 1
        <5>1. e = Root /\ labels[Root].arrival = now
          BY <1>2, <4>1, TreeFacts DEF RootLabel
        <5> QED BY <1>3, <4>1, <5>1
      <4>2. CASE i # 1
        <5>1. e = p[i - 1] /\ i - 1 \in 1 .. Len(p)
          BY <1>1, <1>2, <4>2
        <5> HIDE DEF T
        <5> QED BY <1>3, <5>1
      <4> QED BY <4>1, <4>2
    <3> HIDE DEF e, T
    <3>4. Departure(p[i], T[i - 1]) < p[i].toTime /\ p[i].owlt # NoRange
      BY <3>2, <3>3 DEF Reaches
    <3>5. Departure(p[i], T[i - 1]) \in Nat /\ p[i].toTime \in Nat
      <4>1. T[i - 1] <= T[i - 1]
        BY <2>3
      <4> QED BY <2>1, <2>3, <4>1, DepartureMonotonic, ContactType
    <3> QED BY <2>1, <2>3, <3>4, <3>5
  <2> QED BY <2>4, <2>5
<1> QED
  BY <1>1, <1>2, <1>5, <1>6, <1>8 DEF p

LEMMA LabelsAreSound == DijkstraInv => LabelsSound
<1> SUFFICES ASSUME TypeOK, SearchInv, NEW c \in DOMAIN labels \ {Root}
             PROVE  LET path == PathTo(c)
                    IN  /\ path[1].fromNode = LocalNode /\ path[Len(path)] = c
                        /\ \A i \in 1 .. Len(path) - 1 : path[i].toNode = path[i + 1].fromNode
                        /\ BarelyFeasible(path, now)
                        /\ labels[c].arrival = Arrival(path, now) /\ labels[c].hops = Len(path)
  BY Zenon DEF DijkstraInv, Searching, LabelsSound
<1> DEFINE p == PathTo(c)
           T == TimesAlong(p, now)
<1>1. /\ Connected(p) /\ p[Len(p)] = c /\ Len(p) = labels[c].hops
      /\ labels[c].arrival = Arrival(p, now)
      /\ \A i \in 1 .. Len(p) : p[i].owlt # NoRange /\ Departure(p[i], T[i - 1]) <= p[i].toTime
  BY PathHops
<1> HIDE DEF p
<1>2. DOMAIN p = 1 .. Len(p)
  BY <1>1 DEF Connected
<1>3. BarelyFeasible(p, now)
  BY <1>1, <1>2 DEF BarelyFeasible
<1> QED
  BY <1>1, <1>3 DEF Connected, p

-----------------------------------------------------------------------------
(* What a search finds *)

LEMMA StrictPrefixIs ==
  ASSUME TypeOK, NEW p, Connected(p)
  PROVE  IsStrictPrefix(prefix, p) <=> at < Len(p) /\ \A i \in 1 .. at : p[i] = route[i]
<1>1. /\ prefix \in Seq(Network) /\ Len(prefix) = at
      /\ \A i \in 1 .. at : prefix[i] = route[i]
  BY RootPathIs
<1>2. p \in Seq(Network) /\ Len(p) \in Nat /\ at \in Nat
  BY RouteFacts DEF Connected
<1>3. SubSeq(prefix, 1, at) = prefix
  BY <1>1, SubSeqFull
<1>4. ASSUME at <= Len(p)
      PROVE  /\ SubSeq(p, 1, at) \in Seq(Network) /\ Len(SubSeq(p, 1, at)) = at
             /\ \A i \in 1 .. at : SubSeq(p, 1, at)[i] = p[i]
  <2>1. at \in 0 .. Len(p)
    BY <1>2, <1>4
  <2> QED BY <1>2, <2>1, PrefixIs
<1>5. ASSUME IsStrictPrefix(prefix, p)
      PROVE  at < Len(p) /\ \A i \in 1 .. at : p[i] = route[i]
  <2>1. at <= Len(p) /\ SubSeq(p, 1, at) = prefix /\ p # prefix
    BY <1>1, <1>3, <1>5 DEF IsStrictPrefix, IsPrefix
  <2>2. \A i \in 1 .. at : p[i] = prefix[i]
    BY <1>4, <2>1
  <2>3. at # Len(p)
    BY <1>1, <1>2, <2>1, <2>2, SeqEqual
  <2> QED BY <1>1, <1>2, <2>1, <2>2, <2>3
<1>6. ASSUME at < Len(p), \A i \in 1 .. at : p[i] = route[i]
      PROVE  IsStrictPrefix(prefix, p)
  <2>1. at <= Len(p) /\ p # prefix
    BY <1>1, <1>2, <1>6
  <2>2. SubSeq(p, 1, at) = prefix
    <3>1. SubSeq(p, 1, at) \in Seq(Network) /\ Len(SubSeq(p, 1, at)) = Len(prefix)
      BY <1>1, <1>4, <2>1
    <3>2. \A i \in 1 .. Len(SubSeq(p, 1, at)) : SubSeq(p, 1, at)[i] = prefix[i]
      BY <1>1, <1>4, <1>6, <2>1
    <3> QED BY <1>1, <3>1, <3>2, SeqEqual
  <2> QED BY <1>1, <1>3, <2>1, <2>2 DEF IsStrictPrefix, IsPrefix
<1> QED
  BY <1>5, <1>6

LEMMA ViaType ==
  ASSUME TypeOK, SearchInv, NEW e \in DOMAIN labels, NEW c \in contacts, c.owlt # NoRange
  PROVE  Via(e, c) \in Label
<1>1. labels[e] \in Label /\ e \in Network \cup {Root} /\ c \in Network
  BY TreeFacts DEF contacts
<1>2. LightTime(c) \in Nat
  BY <1>1, LightTimeNat
<1>3. labels[e].arrival \in Nat /\ labels[e].hops \in Nat /\ labels[e].owlt \in Nat
  BY <1>1 DEF Label
<1>4. Departure(c, labels[e].arrival) \in Nat
  <2>1. labels[e].arrival <= labels[e].arrival
    BY <1>3
  <2> QED BY <1>1, <1>3, <2>1, DepartureMonotonic
<1> QED
  BY <1>1, <1>2, <1>3, <1>4 DEF Via, Label

LEMMA StartTime ==
  ASSUME TypeOK, SearchInv
  PROVE  labels[Start].arrival = TimesAlong(prefix, now)[at]
<1>1. BarelyFeasible(prefix, now) /\ labels[Start] = RootPathLabels[Start]
  BY StartIs DEF SearchInv, LabelsKept
<1>2. CASE at = 0
  <2>1. Start = Root /\ RootPathLabels[Root] = RootLabel
    BY <1>1, <1>2, RootLabels, Zenon DEF Start
  <2>2. TimesAlong(prefix, now)[0] = now
    BY RootPathIs, RouteFacts, TimesAlongIs
  <2> QED BY <1>1, <1>2, <2>1, <2>2 DEF RootLabel
<1>3. CASE at # 0
  <2>1. Start = route[at] /\ at \in 1 .. at
    BY <1>3, RouteFacts DEF Start
  <2>2. RootPathLabels[route[at]] =
          [arrival |-> TimesAlong(prefix, now)[at], hops |-> at, owlt |-> LightAlong(prefix)[at],
           predecessor |-> IF at = 1 THEN Root ELSE route[at - 1]]
    BY <1>1, <2>1, RootLabels, Zenon
  <2> QED BY <1>1, <2>1, <2>2
<1> QED
  BY <1>2, <1>3

LEMMA QueueIs ==
  ASSUME TypeOK, SearchInv
  PROVE  Queue = Waiting
<1>1. \A c \in OnRoot \ {Root} : suppressed[c] = "fromNode"
  BY StartIs, RootPathIs DEF SearchInv, MarksSound, MarksLast
<1>2. \A c \in Waiting : suppressed[c] = "no"
  BY DEF SearchInv, VisitsOrdered
<1>3. Root \in OnRoot
  BY DEF OnRoot
<1> QED
  BY <1>1, <1>2, <1>3 DEF Queue, Waiting

\* Every hop beyond the root path of a path that leads to the destination is usable.
LEMMA FoundUsable ==
  ASSUME TypeOK, SearchInv, NEW c \in DOMAIN labels \ OnRoot, c.toNode = Destination,
         NEW i \in 1 .. Len(PathTo(c)), at < i
  PROVE  Usable(PathTo(c)[i])
<1> DEFINE p == PathTo(c)
<1>0. c # Root
  BY DEF OnRoot
<1>1. /\ Connected(p) /\ p[Len(p)] = c
      /\ \A k \in 1 .. Len(p) : at < k => p[k] \in DOMAIN labels \ OnRoot
  <2>1. \A k \in 1 .. Len(p) :
          IF k <= at THEN p[k] = route[k] ELSE p[k] \in DOMAIN labels \ OnRoot
    BY PathAhead
  <2> QED BY <1>0, <2>1, PathHops, RouteFacts
<1> HIDE DEF p
<1>2. ASSUME NEW k \in 1 .. Len(p), at < k
      PROVE  /\ p[k] \notin Duplicates /\ ~ Excluded(p[k])
             /\ p[k].fromNode \notin RootNodes(at)
  <2>1. p[k] \in DOMAIN labels \ OnRoot
    BY <1>1, <1>2
  <2> QED BY <2>1, Zenon DEF SearchInv, LabelsKept, Reached
<1>3. p[i].toNode \notin RootNodes(at)
  <2>0. i \in 1 .. Len(p)
    BY DEF p
  <2>1. CASE i = Len(p)
    BY <1>1, <2>1, StartIs
  <2>2. CASE i # Len(p)
    <3>1. i \in 1 .. Len(p) - 1 /\ i + 1 \in 1 .. Len(p) /\ at < i + 1
      BY <1>1, <2>0, <2>2, RouteFacts DEF Connected
    <3>2. p[i].toNode = p[i + 1].fromNode
      BY <1>1, <3>1 DEF Connected
    <3> QED BY <1>2, <3>1, <3>2
  <2> QED BY <2>1, <2>2
<1> QED
  BY <1>2, <1>3 DEF Usable, p

\* A path to the destination comes by no node twice: a contact that leads back to a node
\* visited before would have been reached from there, with fewer hops.
LEMMA FoundSimple ==
  ASSUME TypeOK, SearchInv, NEW c \in DOMAIN labels \ OnRoot, c.toNode = Destination
  PROVE  NodesDistinct(PathTo(c))
<1> DEFINE p == PathTo(c)
           n == Len(p)
           T == TimesAlong(p, now)
           twice == {i \in 0 .. n : \E j \in i + 1 .. n : NodeOf(p, i) = NodeOf(p, j)}
<1>0. c # Root
  BY DEF OnRoot
<1>1. /\ Connected(p) /\ p[n] = c /\ n \in Nat
      /\ \A i \in 1 .. n :
           /\ p[i] \in contacts /\ p[i].owlt # NoRange
           /\ T[i - 1] \in Nat /\ T[i] \in Nat
           /\ at < i => Departure(p[i], T[i - 1]) < p[i].toTime
  BY <1>0, PathHops DEF Connected
<1>2. /\ \A i \in 1 .. n :
           IF i <= at THEN p[i] = route[i] ELSE p[i] \in DOMAIN labels \ OnRoot
      /\ \A i \in 1 .. n - 1 : at < i => p[i] \in visited
      /\ at < n /\ Start \in visited /\ (at > 0 => Start = p[at])
  <2>1. c \in DOMAIN labels /\ c \notin OnRoot
    OBVIOUS
  <2>2. /\ \A i \in 1 .. Len(PathTo(c)) :
             IF i <= at THEN PathTo(c)[i] = route[i] ELSE PathTo(c)[i] \in DOMAIN labels \ OnRoot
        /\ \A i \in 1 .. Len(PathTo(c)) - 1 : at < i => PathTo(c)[i] \in visited
        /\ at < Len(PathTo(c)) /\ Start \in visited /\ (at > 0 => Start = PathTo(c)[at])
    BY <2>1, PathAhead
  <2> QED BY <2>2
<1>3. T[0] = now /\ \A i \in 1 .. n : T[i] = labels[p[i]].arrival
  BY PathTimes
<1>4. \A i \in 1 .. n : labels[p[i]].hops = i
  <2>1. Traced(c)
    BY PathsTraced
  <2> QED BY <2>1, Zenon DEF Traced
<1>5. \A i \in 1 .. n : at < i => Usable(p[i])
  BY FoundUsable
<1>6. at \in Nat /\ NodesDistinct(route) /\ Len(route) \in Nat /\ at < Len(route)
  BY RouteFacts
<1> HIDE DEF p, T, n
<1>7. \A i \in 0 .. at : NodeOf(p, i) = NodeOf(route, i)
  <2> SUFFICES ASSUME NEW i \in 0 .. at PROVE NodeOf(p, i) = NodeOf(route, i)
    OBVIOUS
  <2>1. i = 0 \/ (i \in 1 .. n /\ i <= at)
    BY <1>1, <1>2, <1>6
  <2> QED BY <1>2, <1>6, <2>1 DEF NodeOf
<1>8. twice = {}
  <2>1. SUFFICES ASSUME twice # {} PROVE FALSE
    OBVIOUS
  <2>2. PICK i \in twice : \A k \in twice : i <= k
    <3>1. twice \in SUBSET Nat
      BY <1>1
    <3> HIDE DEF twice
    <3> QED BY <2>1, <3>1, LeastNatural
  <2>3. PICK j \in i + 1 .. n : NodeOf(p, i) = NodeOf(p, j)
    OBVIOUS
  <2>4. i \in 0 .. n /\ i < j /\ j \in 1 .. n
    BY <1>1
  <2>5. at <= i
    <3> SUFFICES ASSUME i < at PROVE FALSE
      BY <1>6, <2>4
    <3>1. NodeOf(p, i) \in RootNodes(at)
      <4>1. i \in 0 .. Len(route) /\ i \in 0 .. at /\ at \in 0 .. at
        BY <1>6, <2>4
      <4> QED BY <1>7, <4>1, RootNodesAre
    <3>2. CASE j <= at
      <4>1. /\ i \in 0 .. Len(route) /\ j \in 0 .. Len(route)
            /\ NodeOf(route, i) = NodeOf(route, j)
        BY <1>6, <1>7, <2>3, <2>4, <3>2
      <4> QED BY <1>6, <2>4, <4>1 DEF NodesDistinct
    <3>3. CASE ~ (j <= at)
      <4>1. Usable(p[j]) /\ j # 0
        BY <1>5, <1>6, <2>4, <3>3
      <4> QED BY <2>3, <3>1, <4>1 DEF Usable, NodeOf
    <3> QED BY <3>2, <3>3
  <2> DEFINE e == IF i = 0 THEN Root ELSE p[i]
  <2>6. i < n
    BY <1>1, <2>4
  <2>7. e \in visited /\ e.toNode = NodeOf(p, i) /\ labels[e].arrival = T[i] /\ labels[e].hops = i
    <3>1. CASE i = 0
      <4>1. e = Root /\ Start = Root
        BY <1>6, <2>5, <3>1 DEF Start
      <4>2. labels[Root].arrival = now /\ labels[Root].hops = 0
        BY TreeFacts DEF RootLabel
      <4> QED BY <1>2, <1>3, <3>1, <4>1, <4>2, RootApart DEF NodeOf
    <3>2. CASE i # 0
      <4>1. e = p[i] /\ i \in 1 .. n /\ i \in 1 .. n - 1
        BY <1>1, <2>4, <2>6, <3>2
      <4>2. p[i] \in visited
        <5>1. CASE i = at
          BY <1>2, <1>6, <2>4, <3>2, <5>1
        <5>2. CASE i # at
          BY <1>2, <1>6, <2>4, <2>5, <4>1, <5>2
        <5> QED BY <5>1, <5>2
      <4> QED BY <1>3, <1>4, <3>2, <4>1, <4>2 DEF NodeOf
    <3> QED BY <3>1, <3>2
  <2>8. e.toNode # Destination
    BY <2>7 DEF SearchInv, VisitsOrdered
  <2>9. j < n
    <3>1. NodeOf(p, n) = Destination
      BY <1>1, <2>4 DEF NodeOf
    <3> QED BY <1>1, <2>3, <2>4, <2>7, <2>8, <3>1
  <2> DEFINE g == p[j + 1]
  <2>10. /\ j + 1 \in 1 .. n /\ at < j + 1 /\ (j + 1) - 1 = j
         /\ j \in 1 .. n - 1
    BY <1>1, <1>6, <2>4, <2>5, <2>9
  <2>11. /\ g \in contacts /\ g.owlt # NoRange /\ Usable(g)
         /\ g.fromNode = e.toNode /\ g.toNode = NodeOf(p, j + 1)
         /\ T[j] \in Nat /\ Departure(g, T[j]) < g.toTime
         /\ labels[g].arrival = T[j + 1] /\ labels[g].hops = j + 1
    <3>1. g.fromNode = NodeOf(p, (j + 1) - 1) /\ g.toNode = NodeOf(p, j + 1)
      BY <1>1, <2>10, ConnectedFrom DEF n
    <3>2. g.fromNode = e.toNode
      BY <2>3, <2>7, <2>10, <3>1
    <3> HIDE DEF e
    <3> QED BY <1>1, <1>3, <1>4, <1>5, <2>10, <3>1, <3>2
  <2> HIDE DEF e, g
  <2>12. T[i] \in Nat /\ T[i] <= T[j]
    <3>1. T[i] \in Nat
      <4>1. CASE i = 0
        BY <1>3, <4>1, RouteFacts
      <4>2. CASE i # 0
        <5>1. i \in 1 .. n
          BY <2>4, <4>2
        <5> QED BY <1>1, <5>1
      <4> QED BY <4>1, <4>2
    <3>2. T[i] <= T[j]
      <4>1. \A k \in 1 .. n : p[k] \in Network /\ p[k].owlt # NoRange
        BY <1>1 DEF contacts
      <4>2. n \in 0 .. Len(p) /\ Len(p) \in Nat /\ i \in 0 .. n /\ j \in i .. n /\ now \in Nat
        BY <1>1, <2>4, RouteFacts DEF n
      <4> QED BY <4>1, <4>2, TimesIncrease DEF T
    <3> QED BY <3>1, <3>2
  <2>13. /\ Departure(g, T[i]) \in Nat /\ Departure(g, T[j]) \in Nat
         /\ Departure(g, T[i]) <= Departure(g, T[j])
    BY <2>11, <2>12, DepartureMonotonic DEF contacts
  <2>14. CASE g.toNode # e.fromNode \/ e = Root
    <3>1. Reaches(e, g)
      <4>1. g.toTime \in Nat
        BY <2>11, ContactType DEF contacts
      <4> QED BY <2>7, <2>11, <2>13, <2>14, <4>1 DEF Reaches
    <3>2. ~ CompareEdges(Via(e, g), labels[g])
      BY <2>7, <2>11, <3>1 DEF SearchInv, Relaxed
    <3>3. T[j + 1] = Departure(g, T[j]) + LightTime(g)
      <4>1. \A k \in 1 .. Len(p) : T[k] = Departure(p[k], T[k - 1]) + LightTime(p[k])
        BY <1>1, TimesAlongIs DEF n, T
      <4> QED BY <2>10, <4>1 DEF n, g
    <3>4. Via(e, g).arrival = Departure(g, T[i]) + LightTime(g) /\ Via(e, g).hops = i + 1
      BY <2>7 DEF Via
    <3>5. LightTime(g) \in Nat
      BY <2>11, LightTimeNat DEF contacts
    <3>6. Via(e, g).arrival <= labels[g].arrival /\ Via(e, g).hops < labels[g].hops
      BY <2>4, <2>11, <2>13, <3>3, <3>4, <3>5
    <3>7. Via(e, g).arrival \in Nat /\ labels[g].arrival \in Nat
      BY <2>11, <2>13, <3>3, <3>4, <3>5
    <3> QED BY <3>2, <3>6, <3>7 DEF CompareEdges
  <2>15. CASE g.toNode = e.fromNode /\ e # Root
    <3>1. i # 0 /\ e = p[i] /\ i \in 1 .. n
      BY <2>4, <2>15 DEF e
    <3>2. e.fromNode = NodeOf(p, i - 1)
      BY <1>1, <3>1, ConnectedFrom DEF n
    <3>3. NodeOf(p, i - 1) = NodeOf(p, j + 1)
      BY <2>11, <2>15, <3>2
    <3>4. i - 1 \in 0 .. n /\ j + 1 \in (i - 1) + 1 .. n /\ i - 1 < i
      BY <1>1, <2>4, <2>10, <3>1
    <3>5. i - 1 \in twice
      BY <3>3, <3>4
    <3> HIDE DEF twice
    <3> QED BY <2>2, <2>4, <3>4, <3>5
  <2> QED BY <2>14, <2>15
<1>9. ASSUME NEW i \in 0 .. n, NEW j \in 0 .. n, NodeOf(p, i) = NodeOf(p, j), i < j PROVE FALSE
  <2>1. j \in i + 1 .. n
    BY <1>1, <1>9
  <2> QED BY <1>8, <1>9, <2>1
<1>10. ASSUME NEW i \in 0 .. n, NEW j \in 0 .. n, NodeOf(p, i) = NodeOf(p, j) PROVE i = j
  <2>1. i < j \/ j < i \/ i = j
    BY <1>1
  <2> QED BY <1>9, <1>10, <2>1
<1> QED
  BY <1>10 DEF NodesDistinct, n, p

\* The contacts that a search may go on over.
Allowed ==
  contacts \ {c \in contacts : \/ at = 0 /\ c.fromNode = LocalNode /\ c.toNode \in excluded
                               \/ \E p \in selected : /\ IsStrictPrefix(prefix, p)
                                                      /\ c = p[at + 1]}

LEMMA AllowedAre == Allowed = {c \in contacts : c \notin Duplicates /\ ~ Excluded(c)}
BY DEF Allowed, Duplicates, Excluded

\* The path that leads to the destination is one that a search may find.
LEMMA FoundIsContinuation ==
  ASSUME TypeOK, SearchInv, NEW c \in DOMAIN labels \ OnRoot, c.toNode = Destination
  PROVE  PathTo(c) \in Continuations(prefix, Allowed, Destination, now)
<1> DEFINE p == PathTo(c)
           T == TimesAlong(p, now)
<1>0. c # Root
  BY DEF OnRoot
<1>1. /\ Connected(p) /\ p[Len(p)] = c
      /\ \A i \in 1 .. Len(p) :
           /\ p[i] \in contacts /\ p[i].owlt # NoRange
           /\ Departure(p[i], T[i - 1]) <= p[i].toTime
           /\ at < i => Departure(p[i], T[i - 1]) < p[i].toTime
  BY <1>0, PathHops
<1>2. NodesDistinct(p)
  BY FoundSimple
<1>3. at < Len(p) /\ \A i \in 1 .. at : p[i] = route[i]
  <2>1. c \in DOMAIN labels /\ c \notin OnRoot
    OBVIOUS
  <2>2. /\ at < Len(p)
        /\ \A i \in 1 .. Len(p) :
             IF i <= at THEN p[i] = route[i] ELSE p[i] \in DOMAIN labels \ OnRoot
    BY <2>1, PathAhead
  <2>3. Len(p) \in Nat /\ at \in Nat
    BY <1>1, RouteFacts DEF Connected
  <2> HIDE DEF p
  <2> QED BY <2>2, <2>3
<1>4. \A i \in 1 .. Len(p) : at < i => Usable(p[i])
  BY FoundUsable
<1> HIDE DEF p
<1>5. p \in PathsTo(Destination)
  BY <1>1, <1>2, SimplePathsAre DEF PathsTo
<1>6. IsStrictPrefix(prefix, p)
  BY <1>1, <1>3, StrictPrefixIs
<1>7. Len(p) \in Nat /\ DOMAIN p = 1 .. Len(p) /\ Len(prefix) = at /\ at \in Nat
  BY <1>1, RouteFacts, RootPathIs DEF Connected
<1>8. BarelyFeasible(p, now)
  BY <1>1, <1>7 DEF BarelyFeasible
<1>9. \A i \in Len(prefix) + 1 .. Len(p) : p[i] \in Allowed
  <2> SUFFICES ASSUME NEW i \in at + 1 .. Len(p) PROVE p[i] \in Allowed
    BY <1>7
  <2>1. i \in 1 .. Len(p) /\ at < i
    BY <1>7
  <2> QED BY <1>1, <1>4, <2>1, AllowedAre DEF Usable
<1>10. \A i \in Len(prefix) + 1 .. Len(p) :
         Departure(p[i], TimesAlong(p, now)[i - 1]) < p[i].toTime
  <2> SUFFICES ASSUME NEW i \in at + 1 .. Len(p) PROVE Departure(p[i], T[i - 1]) < p[i].toTime
    BY <1>7
  <2>1. i \in 1 .. Len(p) /\ at < i
    BY <1>7
  <2> QED BY <1>1, <2>1
<1> QED
  BY <1>5, <1>6, <1>8, <1>9, <1>10, Zenon DEF Continuations, p

LEMMA ContinuationIs ==
  ASSUME TypeOK, NEW p \in Continuations(prefix, Allowed, Destination, now)
  PROVE  /\ Connected(p) /\ NodesDistinct(p) /\ NodeOf(p, Len(p)) = Destination
         /\ at < Len(p) /\ Len(p) \in Nat /\ \A i \in 1 .. at : p[i] = route[i]
         /\ \A i \in 1 .. Len(p) : p[i] \in Network /\ p[i].owlt # NoRange
         /\ \A i \in 1 .. Len(p) : at < i =>
              /\ p[i] \in contacts /\ Usable(p[i])
              /\ Departure(p[i], TimesAlong(p, now)[i - 1]) < p[i].toTime
<1>1. /\ p \in PathsTo(Destination) /\ IsStrictPrefix(prefix, p)
      /\ \A i \in Len(prefix) + 1 .. Len(p) : p[i] \in Allowed
      /\ BarelyFeasible(p, now)
      /\ \A i \in Len(prefix) + 1 .. Len(p) :
           Departure(p[i], TimesAlong(p, now)[i - 1]) < p[i].toTime
  BY Zenon DEF Continuations
<1>2. Connected(p) /\ NodesDistinct(p) /\ p[Len(p)].toNode = Destination
  BY <1>1, SimplePathsAre DEF PathsTo
<1>3. Len(p) \in Nat /\ Len(p) # 0 /\ DOMAIN p = 1 .. Len(p) /\ Len(prefix) = at /\ at \in Nat
  BY <1>2, RouteFacts, RootPathIs DEF Connected
<1>4. at < Len(p) /\ \A i \in 1 .. at : p[i] = route[i]
  BY <1>1, <1>2, StrictPrefixIs
<1>5. \A i \in 1 .. Len(p) : p[i] \in Network /\ p[i].owlt # NoRange
  BY <1>1, <1>2, <1>3 DEF BarelyFeasible, Connected
<1>6. \A i \in 0 .. at : NodeOf(p, i) = NodeOf(route, i)
  BY <1>3, <1>4 DEF NodeOf
<1>7. \A i \in 0 .. Len(p) : NodeOf(p, i) \in RootNodes(at) => i < at
  <2> SUFFICES ASSUME NEW i \in 0 .. Len(p), NodeOf(p, i) \in RootNodes(at) PROVE i < at
    OBVIOUS
  <2>1. RootNodes(at) = {NodeOf(route, j) : j \in 0 .. at - 1}
    <3>1. at \in 0 .. at
      BY <1>3
    <3> QED BY <3>1, RootNodesAre
  <2>2. PICK j \in 0 .. at - 1 : NodeOf(p, i) = NodeOf(route, j)
    BY <2>1
  <2>3. j \in 0 .. at /\ j \in 0 .. Len(p) /\ NodeOf(p, j) = NodeOf(route, j)
    BY <1>3, <1>4, <1>6
  <2>4. i = j
    BY <1>2, <2>2, <2>3 DEF NodesDistinct
  <2> QED BY <1>3, <2>4
<1>8. ASSUME NEW i \in 1 .. Len(p), at < i
      PROVE  /\ p[i] \in contacts /\ Usable(p[i])
             /\ Departure(p[i], TimesAlong(p, now)[i - 1]) < p[i].toTime
  <2>1. i \in Len(prefix) + 1 .. Len(p)
    BY <1>3, <1>8
  <2>2. p[i] \in contacts /\ p[i] \notin Duplicates /\ ~ Excluded(p[i])
    BY <1>1, <2>1, AllowedAre
  <2>3. p[i].fromNode = NodeOf(p, i - 1) /\ p[i].toNode = NodeOf(p, i)
    BY <1>2, ConnectedFrom
  <2>4. i - 1 \in 0 .. Len(p) /\ i \in 0 .. Len(p) /\ ~ (i - 1 < at) /\ ~ (i < at)
    BY <1>3, <1>8
  <2> QED BY <1>1, <1>7, <2>1, <2>2, <2>3, <2>4 DEF Usable
<1>9. NodeOf(p, Len(p)) = Destination
  BY <1>2, <1>3 DEF NodeOf
<1> QED
  BY <1>2, <1>3, <1>4, <1>5, <1>8, <1>9

\* Of any path that a search may find, the queue holds a contact, and reached in time.
LEMMA QueueAhead ==
  ASSUME TypeOK, SearchInv, Start \in visited,
         NEW p \in Continuations(prefix, Allowed, Destination, now)
  PROVE  \E c \in Waiting : labels[c].arrival <= Arrival(p, now) /\ Arrival(p, now) \in Nat
<1> DEFINE n == Len(p)
           T == TimesAlong(p, now)
           Met(i) == LET e == IF i = 0 THEN Root ELSE p[i]
                     IN  e \in visited /\ labels[e].arrival <= T[i]
           bad == {i \in at + 1 .. n : ~ Met(i)}
<1>1. /\ Connected(p) /\ NodesDistinct(p) /\ NodeOf(p, n) = Destination
      /\ at < n /\ n \in Nat /\ \A i \in 1 .. at : p[i] = route[i]
      /\ \A i \in 1 .. n : p[i] \in Network /\ p[i].owlt # NoRange
      /\ \A i \in 1 .. n : at < i =>
           /\ p[i] \in contacts /\ Usable(p[i])
           /\ Departure(p[i], T[i - 1]) < p[i].toTime
  BY ContinuationIs
<1>2. at \in Nat /\ now \in Nat
  BY RouteFacts
<1>3. /\ \A i \in 0 .. n : T[i] \in Nat
      /\ \A i \in 1 .. n : T[i] = Departure(p[i], T[i - 1]) + LightTime(p[i])
      /\ \A i \in 0 .. n : T[i] <= T[n]
  <2>1. n \in 0 .. Len(p) /\ Len(p) \in Nat
    BY <1>1
  <2>2. \A i \in 0 .. n : T[i] \in Nat
    BY <1>1, <1>2, <2>1, TimesType
  <2>3. \A i \in 1 .. n : T[i] = Departure(p[i], T[i - 1]) + LightTime(p[i])
    BY <1>1, TimesAlongIs
  <2>4. ASSUME NEW i \in 0 .. n PROVE T[i] <= T[n]
    <3>1. n \in i .. n
      BY <2>1
    <3> QED BY <1>1, <1>2, <2>1, <3>1, TimesIncrease
  <2> HIDE DEF n, T
  <2> QED BY <2>2, <2>3, <2>4
<1>4. Met(at)
  <2>1. labels[Start].arrival = TimesAlong(prefix, now)[at]
    BY StartTime
  <2>2. TimesAlong(prefix, now)[at] = T[at]
    <3>1. at \in 0 .. Len(prefix) /\ at <= Len(p) /\ Len(prefix) \in Nat /\ Len(p) \in Nat
          /\ \A i \in 1 .. at : prefix[i] = p[i]
      BY <1>1, <1>2, RootPathIs
    <3>2. \A i \in 0 .. at : TimesAlong(prefix, now)[i] = TimesAlong(p, now)[i]
      <4> HIDE DEF T, n
      <4> QED BY <3>1, TimesAgree
    <3>3. at \in 0 .. at
      BY <1>2
    <3> QED BY <3>2, <3>3
  <2>3. Start = IF at = 0 THEN Root ELSE p[at]
    <3>1. at # 0 => at \in 1 .. at
      BY <1>2
    <3> QED BY <1>1, <3>1 DEF Start
  <2>4. T[at] \in Nat
    <3>1. at \in 0 .. n
      BY <1>1, <1>2
    <3> HIDE DEF T
    <3> QED BY <1>3, <3>1
  <2> HIDE DEF T
  <2> QED BY <2>1, <2>2, <2>3, <2>4
<1> HIDE DEF T, n
<1>5. bad # {}
  <2>1. n \in at + 1 .. n /\ n # 0
    BY <1>1, <1>2
  <2>2. p[n].toNode = Destination
    BY <1>1, <2>1 DEF NodeOf
  <2>3. p[n] \notin visited
    BY <2>2 DEF SearchInv, VisitsOrdered
  <2>4. ~ Met(n)
    BY <2>1, <2>3
  <2> HIDE DEF Met
  <2> QED BY <2>1, <2>4
<1>6. PICK i \in bad : \A k \in bad : i <= k
  <2>1. bad \in SUBSET Nat
    BY <1>1, <1>2
  <2> HIDE DEF bad
  <2> QED BY <1>5, <2>1, LeastNatural
<1>7. i \in at + 1 .. n /\ ~ Met(i)
  <2> HIDE DEF Met
  <2> QED OBVIOUS
<1>8. i \in 1 .. n /\ at < i /\ i - 1 \in at .. n /\ i \in 0 .. n /\ i - 1 \in 0 .. n /\ i # 0
  BY <1>1, <1>2, <1>7
<1>9. Met(i - 1)
  <2>1. CASE i - 1 = at
    BY <1>4, <2>1
  <2>2. CASE i - 1 # at
    <3>1. i - 1 \in at + 1 .. n /\ i - 1 < i
      BY <1>1, <1>2, <1>8, <2>2
    <3>2. i - 1 \notin bad
      <4> HIDE DEF bad
      <4> QED BY <1>6, <1>8, <3>1
    <3> HIDE DEF Met
    <3> QED BY <3>1, <3>2
  <2> QED BY <2>1, <2>2
<1> DEFINE e == IF i - 1 = 0 THEN Root ELSE p[i - 1]
           g == p[i]
<1>10. e \in visited /\ labels[e].arrival <= T[i - 1]
  BY <1>9
<1>11. ~ (g \in visited /\ labels[g].arrival <= T[i])
  BY <1>7, <1>8
<1>12. /\ g \in contacts /\ g \in Network /\ g.owlt # NoRange /\ Usable(g)
       /\ Departure(g, T[i - 1]) < g.toTime
       /\ T[i - 1] \in Nat /\ T[i] \in Nat /\ T[i] = Departure(g, T[i - 1]) + LightTime(g)
  BY <1>1, <1>3, <1>8
<1>13. g.fromNode = e.toNode /\ (g.toNode # e.fromNode \/ e = Root)
  <2>1. g.fromNode = NodeOf(p, i - 1) /\ g.toNode = NodeOf(p, i)
    BY <1>1, <1>8, ConnectedFrom DEF n
  <2>2. CASE i - 1 = 0
    BY <2>1, <2>2, RootApart DEF NodeOf
  <2>3. CASE i - 1 # 0
    <3>1. i - 1 \in 1 .. n /\ e = p[i - 1]
      BY <1>8, <2>3
    <3>2. e.fromNode = NodeOf(p, (i - 1) - 1) /\ e.toNode = NodeOf(p, i - 1)
      BY <1>1, <3>1, ConnectedFrom DEF n
    <3>3. (i - 1) - 1 \in 0 .. n /\ (i - 1) - 1 # i
      BY <1>1, <1>8, <2>3
    <3>4. NodeOf(p, (i - 1) - 1) # NodeOf(p, i)
      BY <1>1, <1>8, <3>3 DEF NodesDistinct, n
    <3> QED BY <2>1, <3>2, <3>4
  <2> QED BY <2>2, <2>3
<1> HIDE DEF e, g
<1>14. e \in DOMAIN labels /\ labels[e].arrival \in Nat
  BY <1>10, TreeFacts DEF SearchInv, VisitsOrdered, Label
<1>15. /\ Departure(g, labels[e].arrival) \in Nat /\ Departure(g, T[i - 1]) \in Nat
       /\ Departure(g, labels[e].arrival) <= Departure(g, T[i - 1])
  BY <1>10, <1>12, <1>14, DepartureMonotonic
<1>16. Reaches(e, g)
  <2>1. g.toTime \in Nat
    BY <1>12, ContactType
  <2> QED BY <1>12, <1>13, <1>15, <2>1 DEF Reaches
<1>17. g \in DOMAIN labels /\ ~ CompareEdges(Via(e, g), labels[g])
  BY <1>10, <1>12, <1>16 DEF SearchInv, Relaxed
<1>18. labels[g].arrival <= T[i]
  <2>1. Via(e, g) \in Label /\ labels[g] \in Label
    BY <1>12, <1>14, <1>17, ViaType, TreeFacts
  <2>2. labels[g].arrival <= Via(e, g).arrival
    BY <1>17, <2>1, EdgesOrder
  <2>3. Via(e, g).arrival = Departure(g, labels[e].arrival) + LightTime(g)
    BY DEF Via
  <2>4. LightTime(g) \in Nat /\ labels[g].arrival \in Nat
    BY <1>12, <2>1, LightTimeNat DEF Label
  <2> QED BY <1>12, <1>15, <2>2, <2>3, <2>4
<1>19. g \notin OnRoot
  <2>1. g # Root
    BY <1>12, RootApart
  <2> QED BY <1>12, <2>1, StartIs DEF Usable
<1>20. g \in Waiting
  BY <1>11, <1>17, <1>18, <1>19 DEF Waiting
<1>21. T[i] <= Arrival(p, now) /\ Arrival(p, now) \in Nat
  <2>1. Arrival(p, now) = T[n] /\ n \in 0 .. n
    BY <1>1 DEF Arrival, T, n
  <2> QED BY <1>3, <1>8, <2>1
<1>22. labels[g].arrival <= Arrival(p, now)
  <2>1. labels[g].arrival \in Nat
    BY <1>17, TreeFacts DEF Label
  <2> QED BY <1>12, <1>18, <1>21, <2>1
<1> QED
  BY <1>20, <1>21, <1>22

\* In any set of times one is least, and Min is it.
LEMMA MinIs ==
  ASSUME NEW T \in SUBSET Nat, NEW m \in T, \A k \in T : m <= k
  PROVE  Min(T) = m
<1>1. \E x \in T : \A k \in T : x <= k
  OBVIOUS
<1> DEFINE x == CHOOSE x \in T : \A k \in T : x <= k
<1>2. x \in T /\ \A k \in T : x <= k
  BY <1>1, Zenon
<1>3. Min(T) = x
  BY Zenon DEF Min
<1> HIDE DEF x
<1>4. m <= x /\ x <= m /\ m \in Nat /\ x \in Nat
  BY <1>2
<1> QED
  BY <1>3, <1>4

\* What a search finds is of earliest arrival, and it fails only if there is nothing to find.
LEMMA SearchIsExact == DijkstraInv => SearchExact
<1> SUFFICES ASSUME DijkstraInv PROVE SearchExact
  OBVIOUS
<1> DEFINE paths == Continuations(prefix, Allowed, Destination, now)
<1>0. TypeOK /\ (Searching => SearchInv)
  BY DEF DijkstraInv
<1>1. ASSUME pc = "found" PROVE PathTo(current) \in Earliest(paths, now)
  <2>1. SearchInv /\ Start \in visited /\ current.toNode = Destination /\ CurrentLeast
    BY <1>0, <1>1 DEF Searching, SearchInv, Progress
  <2>2. current \in DOMAIN labels \ OnRoot /\ current # Root
    BY <2>1 DEF CurrentLeast, Waiting, OnRoot
  <2>3. PathTo(current) \in paths
    BY <1>0, <2>1, <2>2, FoundIsContinuation
  <2>4. labels[current].arrival = Arrival(PathTo(current), now) /\ labels[current] \in Label
    <3>1. current \in DOMAIN labels \ {Root}
      BY <2>2
    <3> QED BY <1>0, <2>1, <3>1, PathHops, TreeFacts
  <2>5. ASSUME NEW q \in paths
        PROVE  Arrival(q, now) \in Nat /\ Arrival(PathTo(current), now) <= Arrival(q, now)
    <3>1. PICK c \in Waiting : labels[c].arrival <= Arrival(q, now) /\ Arrival(q, now) \in Nat
      BY <1>0, <2>1, QueueAhead
    <3>2. labels[c] \in Label
      BY <1>0, <2>1, TreeFacts DEF Waiting
    <3>3. labels[current].arrival <= labels[c].arrival
      BY <2>1, <2>4, <3>2, EdgesOrder DEF CurrentLeast
    <3>4. labels[c].arrival \in Nat /\ labels[current].arrival \in Nat
      BY <2>4, <3>2 DEF Label
    <3> HIDE DEF paths
    <3> QED BY <2>4, <3>1, <3>3, <3>4
  <2> HIDE DEF paths
  <2>6. Min({Arrival(q, now) : q \in paths}) = Arrival(PathTo(current), now)
    <3> DEFINE T == {Arrival(q, now) : q \in paths}
               m == Arrival(PathTo(current), now)
    <3>1. T \in SUBSET Nat
      BY <2>5
    <3>2. m \in T
      BY <2>3
    <3>3. \A k \in T : m <= k
      BY <2>5
    <3> HIDE DEF T, m
    <3>4. Min(T) = m
      BY <3>1, <3>2, <3>3, MinIs
    <3> QED BY <3>4 DEF T, m
  <2> QED BY <2>3, <2>6, Zenon DEF Earliest
<1>2. ASSUME pc = "failed" PROVE paths = {}
  <2>1. SearchInv /\ Start \in visited /\ Best(Queue) = {}
    BY <1>0, <1>2 DEF Searching, SearchInv, Progress
  <2>2. SUFFICES ASSUME NEW q \in paths PROVE FALSE
    OBVIOUS
  <2>3. PICK c \in Waiting : TRUE
    BY <1>0, <2>1, QueueAhead
  <2>4. \A x \in Waiting : labels[x] \in Label
    BY <1>0, <2>1, TreeFacts DEF Waiting
  <2>5. PICK x \in Waiting : \A y \in Waiting : ~ CompareEdges(labels[y], labels[x])
    <3> HIDE DEF paths
    <3>1. Waiting # {}
      BY <2>3
    <3> QED BY <2>4, <3>1, LeastLabel
  <2>6. x \in Best(Waiting) /\ Queue = Waiting
    BY <1>0, <2>1, <2>5, QueueIs DEF Best
  <2> QED BY <2>1, <2>6
<1> QED
  BY <1>1, <1>2, Zenon DEF SearchExact, Allowed

-----------------------------------------------------------------------------
(* The steps *)

LEMMA InitSound == Init => DijkstraInv
<1> SUFFICES ASSUME Init PROVE DijkstraInv
  OBVIOUS
<1>1. excluded \subseteq Nodes
  BY DEF Init, Nodes, contacts
<1>2. selected \subseteq Routes /\ route \in selected
  BY DEF Init
<1>3. suppressed \in [contacts -> Marks]
  BY DEF Init, Marks
<1>4. DOMAIN labels = {}
  BY DEF Init, NoLabels
<1>5. pc = "start" /\ first = TRUE /\ visited = {} /\ current = Root
      /\ now \in Time /\ at \in 0 .. Len(route) - 1
  BY DEF Init
<1>6. TypeOK
  BY <1>1, <1>2, <1>3, <1>4, <1>5 DEF TypeOK
<1> QED
  BY <1>5, <1>6 DEF DijkstraInv, Searching

\* What does not change while a spur is computed.
LEMMA SpurSame ==
  ASSUME UNCHANGED given
  PROVE  /\ contacts' = contacts /\ Routes' = Routes /\ prefix' = prefix
         /\ OnRoot' = OnRoot /\ Start' = Start /\ Duplicates' = Duplicates
         /\ RootPathLabels' = RootPathLabels
         /\ RootNodes(at)' = RootNodes(at)
         /\ BarelyFeasible(prefix, now)' = BarelyFeasible(prefix, now)
         /\ \A c : Excluded(c)' = Excluded(c) /\ Usable(c)' = Usable(c)
<1>1. /\ now' = now /\ selected' = selected /\ route' = route /\ at' = at
      /\ excluded' = excluded /\ first' = first
  BY DEF given
<1>2. contacts' = contacts /\ prefix' = prefix /\ RootNodes(at)' = RootNodes(at)
  BY <1>1 DEF contacts, prefix, RootNodes
<1>3. Routes' = Routes /\ OnRoot' = OnRoot /\ Start' = Start /\ Duplicates' = Duplicates
  BY <1>1, <1>2 DEF Routes, OnRoot, Start, Duplicates
<1>4. RootPathLabels' = RootPathLabels
  BY <1>1, <1>2 DEF RootPathLabels, RootLabel
<1>5. \A c : Excluded(c)' = Excluded(c)
  BY <1>1 DEF Excluded
<1>6. \A c : Usable(c)' = Usable(c)
  BY <1>2, <1>3, <1>5 DEF Usable
<1>7. BarelyFeasible(prefix, now)' = BarelyFeasible(prefix, now)
  BY <1>1, <1>2
<1> QED
  BY <1>2, <1>3, <1>4, <1>5, <1>6, <1>7

\* The marks with which a search begins.
LEMMA MarksAtStart ==
  ASSUME DijkstraInv, pc = "start",
         NEW marks, marks = AvoidDuplicates(SuppressNodes(Clear(suppressed)))
  PROVE  /\ marks \in [contacts -> Marks]
         /\ \A c \in contacts :
              /\ marks[c] = "fromNode" <=> c.fromNode \in RootNodes(at)
              /\ marks[c] = "toNode" => c.toNode \in RootNodes(at)
              /\ marks[c] = "dijkstra" => c \in Duplicates
              /\ c \in Duplicates => marks[c] # "no"
<1> DEFINE k == IF at = 0 THEN 0 ELSE at - 1
           m1 == Clear(suppressed)
           m2 == SuppressNodes(m1)
<1>1. TypeOK /\ (~ first => MarksLast(k)) /\ first \in BOOLEAN
  BY DEF DijkstraInv, TypeOK
<1>2. at \in Nat /\ k \in Nat /\ k <= at
  BY <1>1, RouteFacts
<1>3. /\ m1 \in [contacts -> Marks]
      /\ \A c \in contacts :
           /\ m1[c] # "dijkstra"
           /\ m1[c] = "fromNode" <=> ~ first /\ c.fromNode \in RootNodes(k)
           /\ m1[c] = "toNode" => c.toNode \in RootNodes(k)
  <2>1. suppressed \in [contacts -> Marks]
    BY <1>1 DEF TypeOK
  <2>2. CASE first
    <3>1. m1 = [c \in contacts |-> "no"]
      BY <2>2 DEF Clear
    <3> HIDE DEF m1
    <3> QED BY <2>2, <3>1 DEF Marks
  <2>3. CASE ~ first
    <3>1. m1 = [c \in contacts |-> IF suppressed[c] = "dijkstra" THEN "no" ELSE suppressed[c]]
      BY <2>1, <2>3 DEF Clear, ClearYen
    <3>2. \A c \in contacts :
            /\ suppressed[c] = "fromNode" <=> c.fromNode \in RootNodes(k)
            /\ suppressed[c] = "toNode" => c.toNode \in RootNodes(k)
      BY <1>1, <2>3 DEF MarksLast
    <3> HIDE DEF m1, k
    <3> QED BY <2>1, <2>3, <3>1, <3>2 DEF Marks
  <2> QED BY <2>2, <2>3
<1>4. \A c \in contacts :
        (\E i \in (IF first THEN 1 ELSE at) .. at : i > 0 /\ c.fromNode = prefix[i].fromNode)
        \/ (~ first /\ c.fromNode \in RootNodes(k))
        <=> c.fromNode \in RootNodes(at)
  <2>1. \A i \in 1 .. at : prefix[i] = route[i]
    BY <1>1, RootPathIs
  <2>2. RootNodes(at) = {route[i].fromNode : i \in 1 .. at}
        /\ RootNodes(k) = {route[i].fromNode : i \in 1 .. k}
    BY DEF RootNodes
  <2> SUFFICES ASSUME NEW c \in contacts
               PROVE (\E i \in (IF first THEN 1 ELSE at) .. at :
                         i > 0 /\ c.fromNode = prefix[i].fromNode)
                     \/ (~ first /\ c.fromNode \in RootNodes(k))
                     <=> c.fromNode \in RootNodes(at)
    OBVIOUS
  <2>3. CASE first
    BY <1>2, <2>1, <2>2, <2>3
  <2>4. CASE ~ first
    <3>1. ASSUME NEW i \in at .. at, i > 0, c.fromNode = prefix[i].fromNode
          PROVE  c.fromNode \in RootNodes(at)
      BY <1>2, <2>1, <2>2, <3>1
    <3>2. c.fromNode \in RootNodes(k) => c.fromNode \in RootNodes(at)
      <4>1. \A i \in 1 .. k : i \in 1 .. at
        BY <1>2
      <4> QED BY <2>2, <4>1
    <3>3. ASSUME NEW i \in 1 .. at, c.fromNode = route[i].fromNode
          PROVE  \/ \E j \in at .. at : j > 0 /\ c.fromNode = prefix[j].fromNode
                 \/ c.fromNode \in RootNodes(k)
      <4>1. CASE i = at
        BY <1>2, <2>1, <3>3, <4>1
      <4>2. CASE i # at
        <5>1. i \in 1 .. k
          BY <1>2, <4>2
        <5> QED BY <2>2, <3>3, <5>1
      <4> QED BY <4>1, <4>2
    <3> HIDE DEF k
    <3> QED BY <2>2, <2>4, <3>1, <3>2, <3>3
  <2> QED BY <2>3, <2>4
<1> HIDE DEF m1
<1>5. /\ m2 \in [contacts -> Marks]
      /\ \A c \in contacts :
           /\ m2[c] # "dijkstra"
           /\ m2[c] = "fromNode" <=> c.fromNode \in RootNodes(at)
           /\ m2[c] = "toNode" => c.toNode \in RootNodes(at)
  <2>1. m2 = [c \in contacts |->
          IF \E i \in (IF first THEN 1 ELSE at) .. at : i > 0 /\ c.fromNode = prefix[i].fromNode
          THEN "fromNode" ELSE m1[c]]
    BY <1>3 DEF SuppressNodes
  <2>2. \A x : x \in RootNodes(k) => x \in RootNodes(at)
    <3>1. \A i \in 1 .. k : i \in 1 .. at
      BY <1>2
    <3> HIDE DEF k
    <3> QED BY <3>1 DEF RootNodes
  <2> HIDE DEF m2, k
  <2> DEFINE H(c) == \E i \in (IF first THEN 1 ELSE at) .. at :
                        i > 0 /\ c.fromNode = prefix[i].fromNode
  <2>3. \A c \in contacts : m2[c] = IF H(c) THEN "fromNode" ELSE m1[c]
    BY <2>1
  <2>4. \A c \in contacts : H(c) \/ (~ first /\ c.fromNode \in RootNodes(k))
                            <=> c.fromNode \in RootNodes(at)
    BY <1>4
  <2>5. m2 = [c \in contacts |-> m2[c]]
    BY <2>1, Zenon
  <2> HIDE DEF H
  <2>6. \A c \in contacts : m2[c] \in Marks
    BY <1>3, <2>3 DEF Marks
  <2>7. m2 \in [contacts -> Marks]
    BY <2>5, <2>6
  <2> QED BY <1>3, <2>2, <2>3, <2>4, <2>7
<1> HIDE DEF m2
<1>6. marks = [c \in contacts |->
                IF m2[c] = "no" /\ c \in Duplicates THEN "dijkstra" ELSE m2[c]]
  BY <1>5 DEF AvoidDuplicates, Duplicates, m2, m1
<1> QED
  BY <1>5, <1>6 DEF Marks

LEMMA StartSpurSound == DijkstraInv /\ StartSpur => DijkstraInv'
<1> SUFFICES ASSUME DijkstraInv, StartSpur PROVE DijkstraInv'
  OBVIOUS
<1>1. /\ pc = "start" /\ UNCHANGED given /\ visited' = {}
      /\ suppressed' = AvoidDuplicates(SuppressNodes(Clear(suppressed)))
      /\ current' = IF at = 0 THEN Root ELSE prefix[at]
  BY DEF StartSpur
<1>2. /\ now' = now /\ selected' = selected /\ route' = route /\ at' = at
      /\ excluded' = excluded /\ first' = first
  BY <1>1 DEF given
<1>3. /\ contacts' = contacts /\ Routes' = Routes /\ prefix' = prefix
      /\ OnRoot' = OnRoot /\ Start' = Start /\ Duplicates' = Duplicates
      /\ RootPathLabels' = RootPathLabels /\ RootNodes(at)' = RootNodes(at)
      /\ BarelyFeasible(prefix, now)' = BarelyFeasible(prefix, now)
  BY <1>1, SpurSame
<1>4. TypeOK
  BY DEF DijkstraInv
<1>5. current' = Start /\ Start \in contacts \cup {Root}
  <2>1. at \in Nat /\ \A i \in 1 .. at : prefix[i] = route[i]
    BY <1>4, RouteFacts, RootPathIs
  <2>2. at # 0 => prefix[at] = route[at]
    BY <2>1
  <2>3. Start \in OnRoot /\ OnRoot \subseteq contacts \cup {Root}
    BY <1>4, StartIs, RootPathIs
  <2> QED BY <1>1, <2>2, <2>3 DEF Start
<1>6. /\ suppressed' \in [contacts -> Marks]
      /\ \A c \in contacts :
           /\ suppressed'[c] = "fromNode" <=> c.fromNode \in RootNodes(at)
           /\ suppressed'[c] = "toNode" => c.toNode \in RootNodes(at)
           /\ suppressed'[c] = "dijkstra" => c \in Duplicates
           /\ c \in Duplicates => suppressed'[c] # "no"
  BY <1>1, MarksAtStart
<1>7. ASSUME DOMAIN labels' \subseteq contacts \cup {Root},
             \A c \in DOMAIN labels' : labels'[c] \in Label,
             pc' \in {"relax", "over"}
      PROVE  TypeOK'
  BY <1>1, <1>2, <1>3, <1>4, <1>5, <1>6, <1>7 DEF TypeOK
<1>8. CASE BarelyFeasible(prefix, now) /\ labels' = RootPathLabels /\ pc' = "relax"
  <2>1. DOMAIN labels' = OnRoot /\ \A c \in OnRoot : labels'[c] \in Label
    <3>1. /\ DOMAIN RootPathLabels = OnRoot
          /\ RootPathLabels[Root] \in Label
          /\ \A i \in 1 .. at : RootPathLabels[route[i]] \in Label
      BY <1>4, <1>8, RootLabels
    <3> QED BY <1>8, <3>1 DEF OnRoot
  <2>2. OnRoot \subseteq contacts \cup {Root}
    BY <1>4, RootPathIs
  <2>3. TypeOK'
    BY <1>7, <1>8, <2>1, <2>2
  <2>4. MarksSound'
    <3>1. MarksLast(at)'
      BY <1>2, <1>3, <1>6 DEF MarksLast
    <3> QED BY <1>1, <1>3, <1>6, <3>1 DEF MarksSound
  <2>5. LabelsKept'
    <3>1. DOMAIN labels' \ OnRoot' = {}
      BY <1>3, <2>1
    <3>2. Reached'
      BY <3>1 DEF Reached
    <3> QED BY <1>3, <1>8, <2>1, <3>2 DEF LabelsKept
  <2>6. Waiting' = {}
    BY <1>3, <2>1 DEF Waiting
  <2>7. VisitsOrdered' /\ Relaxed'
    BY <1>1, <2>6 DEF VisitsOrdered, Relaxed
  <2>8. Progress'
    <3>1. Start.toNode # Destination
      BY <1>4, StartIs
    <3> QED BY <1>1, <1>3, <1>5, <1>8, <2>1, <3>1 DEF Progress
  <2> QED BY <1>3, <1>8, <2>3, <2>4, <2>5, <2>7, <2>8 DEF DijkstraInv, SearchInv
<1>9. CASE labels' = NoLabels /\ pc' = "over"
  <2>1. TypeOK'
    BY <1>7, <1>9 DEF NoLabels
  <2> QED BY <1>9, <2>1 DEF DijkstraInv, Searching
<1> QED
  BY <1>8, <1>9 DEF StartSpur

LEMMA FindBestContactSound == DijkstraInv /\ FindBestContact => DijkstraInv'
<1> SUFFICES ASSUME DijkstraInv, FindBestContact PROVE DijkstraInv'
  OBVIOUS
<1>1. /\ pc = "choose" /\ UNCHANGED given
      /\ suppressed' = suppressed /\ visited' = visited /\ labels' = labels
  BY DEF FindBestContact
<1>2. /\ now' = now /\ selected' = selected /\ route' = route /\ at' = at
      /\ excluded' = excluded /\ first' = first
  BY <1>1 DEF given
<1>3. /\ contacts' = contacts /\ Routes' = Routes /\ prefix' = prefix
      /\ OnRoot' = OnRoot /\ Start' = Start /\ Duplicates' = Duplicates
      /\ RootPathLabels' = RootPathLabels /\ RootNodes(at)' = RootNodes(at)
      /\ BarelyFeasible(prefix, now)' = BarelyFeasible(prefix, now)
      /\ \A c : Excluded(c)' = Excluded(c) /\ Usable(c)' = Usable(c)
  BY <1>1, SpurSame
<1>4. TypeOK /\ SearchInv /\ Start \in visited
  BY <1>1 DEF DijkstraInv, Searching, SearchInv, Progress
<1>5. Waiting' = Waiting /\ Queue' = Queue /\ Queue = Waiting
  BY <1>1, <1>3, <1>4, QueueIs DEF Waiting, Queue
<1>6. Waiting \subseteq contacts \cup {Root}
  BY <1>4 DEF TypeOK, Waiting
<1>7. current' \in contacts \cup {Root} /\ pc' \in {"failed", "found", "relax"}
  BY <1>4, <1>5, <1>6 DEF FindBestContact, Best, TypeOK
<1>8. TypeOK'
  BY <1>1, <1>2, <1>3, <1>4, <1>7 DEF TypeOK
<1>9. MarksSound'
  <2>1. MarksLast(at) /\ MarksSound
    BY <1>4 DEF SearchInv, MarksSound
  <2>2. MarksLast(at)'
    BY <1>1, <1>2, <1>3, <2>1 DEF MarksLast
  <2> QED BY <1>1, <1>3, <2>1, <2>2 DEF MarksSound
<1>10. \A e, c : Reaches(e, c)' = Reaches(e, c) /\ Via(e, c)' = Via(e, c)
  BY <1>1, <1>3 DEF Reaches, Via
<1>11. LabelsKept'
  <2>1. Reached'
    <3>1. Reached
      BY <1>4 DEF SearchInv, LabelsKept
    <3> QED BY <1>1, <1>3, <1>10, <3>1, Zenon DEF Reached
  <2> QED BY <1>1, <1>3, <1>4, <2>1 DEF SearchInv, LabelsKept
<1>12. VisitsOrdered'
  BY <1>1, <1>3, <1>4, <1>5 DEF SearchInv, VisitsOrdered
<1>13. Relaxed'
  BY <1>1, <1>3, <1>4, <1>10, Zenon DEF SearchInv, Relaxed
<1>14. Progress'
  <2>1. CASE Best(Queue) = {} /\ pc' = "failed"
    <3>1. Best(Queue)' = {}
      BY <1>1, <1>5, <2>1 DEF Best
    <3> QED BY <1>1, <1>3, <1>4, <2>1, <3>1 DEF Progress
  <2>2. CASE /\ current' \in Best(Queue)
             /\ pc' = IF current'.toNode = Destination THEN "found" ELSE "relax"
    <3>1. CurrentLeast'
      BY <1>1, <1>5, <2>2 DEF Best, CurrentLeast
    <3> QED BY <1>1, <1>3, <1>4, <2>2, <3>1 DEF Progress
  <2> QED BY <2>1, <2>2 DEF FindBestContact
<1>15. BarelyFeasible(prefix, now)'
  BY <1>3, <1>4 DEF SearchInv
<1>16. Searching'
  BY <1>7 DEF Searching
<1> QED
  BY <1>7, <1>8, <1>9, <1>11, <1>12, <1>13, <1>14, <1>15 DEF DijkstraInv, SearchInv

LEMMA NextSpurSound == DijkstraInv /\ NextSpur => DijkstraInv'
<1> SUFFICES ASSUME DijkstraInv, NextSpur PROVE DijkstraInv'
  OBVIOUS
<1>1. /\ pc \in {"found", "failed"} /\ now' = now /\ route' = route /\ first' = FALSE
      /\ suppressed' = suppressed /\ visited' = visited /\ labels' = labels
      /\ current' = current
  BY DEF NextSpur
<1>2. TypeOK /\ SearchInv /\ at \in Nat
  BY <1>1, RouteFacts DEF DijkstraInv, Searching
<1>3. contacts' = contacts /\ Routes' = Routes
  BY <1>1 DEF contacts, Routes
<1>4. MarksLast(at)
  BY <1>2 DEF SearchInv, MarksSound
<1>5. CASE /\ pc = "found" /\ PathTo(current)[1].toNode # route[1].toNode
           /\ selected' = selected \cup {PathTo(current)}
           /\ excluded' = excluded \cup {PathTo(current)[1].toNode}
           /\ pc' = "start" /\ at' = at
  <2>1. current \in DOMAIN labels \ OnRoot /\ current # Root /\ current.toNode = Destination
    BY <1>2, <1>5 DEF SearchInv, Progress, CurrentLeast, Waiting, OnRoot
  <2> DEFINE p == PathTo(current)
  <2>2. /\ Connected(p)
        /\ \A i \in 1 .. Len(p) : p[i] \in contacts
    <3>1. current \in DOMAIN labels \ {Root}
      BY <2>1
    <3> QED BY <1>2, <3>1, PathHops
  <2>3. p \in PathsTo(Destination)
    BY <1>2, <2>1, FoundIsContinuation DEF Continuations
  <2>4. at < Len(p) /\ \A i \in 1 .. Len(p) : i <= at => p[i] = route[i]
    <3>1. \A i \in 1 .. Len(p) :
            IF i <= at THEN p[i] = route[i] ELSE p[i] \in DOMAIN labels \ OnRoot
      BY <1>2, <2>1, PathAhead
    <3>2. at < Len(p)
      BY <1>2, <2>1, PathAhead
    <3> QED BY <3>1, <3>2
  <2> HIDE DEF p
  <2>5. Len(p) \in Nat /\ Len(p) > 0 /\ DOMAIN p = 1 .. Len(p) /\ p[1] \in Network
    BY <2>2 DEF Connected
  <2>6. at = 0
    <3>1. at # 0 => p[1] = route[1]
      BY <1>2, <2>4, <2>5
    <3> QED BY <1>5, <3>1 DEF p
  <2>7. p \in Routes
    <3>1. Range(p) \subseteq contacts
      BY <2>2, <2>5 DEF Range
    <3> QED BY <2>3, <3>1 DEF Routes
  <2>8. p[1].toNode \in Nodes
    BY <2>5 DEF Nodes
  <2>9. TypeOK'
    BY <1>1, <1>2, <1>3, <1>5, <2>7, <2>8 DEF TypeOK, p
  <2>10. MarksLast(0)'
    BY <1>1, <1>3, <1>4, <2>6 DEF MarksLast, RootNodes
  <2> QED BY <1>5, <2>6, <2>9, <2>10 DEF DijkstraInv, Searching
<1>6. CASE /\ pc' = IF LastSpur THEN "over" ELSE "start"
           /\ at' = IF LastSpur THEN at ELSE at + 1
           /\ selected' = selected /\ excluded' = excluded
  <2>1. at' \in 0 .. Len(route) - 1
    BY <1>2, <1>6, RouteFacts DEF LastSpur
  <2>2. TypeOK'
    BY <1>1, <1>2, <1>3, <1>6, <2>1 DEF TypeOK
  <2>3. ASSUME pc' = "start" PROVE MarksLast(IF at = 0 THEN 0 ELSE at - 1)'
    <3>1. at' # 0 /\ at' - 1 = at
      BY <1>2, <1>6, <2>3
    <3>2. RootNodes(IF at = 0 THEN 0 ELSE at - 1)' = RootNodes(at)
      BY <1>1, <3>1 DEF RootNodes
    <3> QED BY <1>1, <1>3, <1>4, <3>2 DEF MarksLast
  <2>4. pc' \in {"over", "start"}
    BY <1>6
  <2> QED BY <2>2, <2>3, <2>4 DEF DijkstraInv, Searching
<1> QED
  BY <1>5, <1>6 DEF NextSpur

LEMMA NextRouteSound == DijkstraInv /\ NextRoute => DijkstraInv'
<1> SUFFICES ASSUME DijkstraInv, NextRoute PROVE DijkstraInv'
  OBVIOUS
<1>1. /\ now' = now /\ selected' = selected /\ route' \in selected
      /\ at' \in 0 .. Len(route') - 1 /\ first' = TRUE /\ pc' = "start"
      /\ suppressed' = suppressed /\ visited' = visited /\ labels' = labels
      /\ current' = current
  BY DEF NextRoute, AnyRoute
<1>2. contacts' = contacts /\ Routes' = Routes
  BY <1>1 DEF contacts, Routes
<1>3. excluded' \subseteq Nodes
  BY DEF NextRoute, AnyRoute, Nodes, contacts
<1>4. TypeOK'
  BY <1>1, <1>2, <1>3 DEF DijkstraInv, TypeOK
<1> QED
  BY <1>1, <1>4 DEF DijkstraInv, Searching

\* A distance by way of e is not less than that of e.
LEMMA ViaLater ==
  ASSUME TypeOK, SearchInv, NEW e \in DOMAIN labels, NEW c \in contacts, c.owlt # NoRange
  PROVE  ~ CompareEdges(Via(e, c), labels[e])
<1>1. labels[e] \in Label
  BY TreeFacts
<1>2. labels[e].arrival \in Nat /\ labels[e].hops \in Nat
  BY <1>1 DEF Label
<1>3. c \in Network /\ LightTime(c) \in Nat
  BY LightTimeNat DEF contacts
<1>4. Departure(c, labels[e].arrival) \in Nat /\ labels[e].arrival <= Departure(c, labels[e].arrival)
  BY <1>2, <1>3, DepartureMonotonic
<1>5. Via(e, c).arrival = Departure(c, labels[e].arrival) + LightTime(c)
      /\ Via(e, c).hops = labels[e].hops + 1
  BY DEF Via
<1>6. labels[e].arrival <= Via(e, c).arrival /\ labels[e].hops < Via(e, c).hops
      /\ Via(e, c).arrival \in Nat /\ Via(e, c).hops \in Nat
  BY <1>2, <1>3, <1>4, <1>5
<1> QED
  BY <1>2, <1>6 DEF CompareEdges

\* The contact that is visited next.
LEMMA CurrentIs ==
  ASSUME TypeOK, SearchInv, pc = "relax"
  PROVE  /\ current \in DOMAIN labels /\ current \notin visited
         /\ current.toNode # Destination
         /\ current = Root => at = 0 /\ visited = {}
         /\ visited = {} => current = Start /\ DOMAIN labels = OnRoot
         /\ visited # {} => CurrentLeast /\ Start \in visited
<1>1. /\ current.toNode # Destination
      /\ visited = {} => current = Start /\ DOMAIN labels = OnRoot
      /\ visited # {} => CurrentLeast /\ Start \in visited
  BY DEF SearchInv, Progress
<1>2. CASE visited = {}
  <2>1. Start \in DOMAIN labels
    BY TreeFacts
  <2>2. Start = Root => at = 0
    <3>1. at # 0 => at \in 1 .. at
      BY RouteFacts
    <3>2. \A i \in 1 .. at : route[i] # Root
      BY RootPathIs
    <3> QED BY <3>1, <3>2 DEF Start
  <2> QED BY <1>1, <1>2, <2>1, <2>2
<1>3. CASE visited # {}
  <2>1. current \in Waiting
    BY <1>1, <1>3 DEF CurrentLeast
  <2>2. current \in DOMAIN labels /\ current \notin visited /\ current \notin OnRoot
    BY <2>1 DEF Waiting
  <2> QED BY <1>1, <1>3, <2>2 DEF OnRoot
<1> QED
  BY <1>2, <1>3

\* What a visit does: the marks and distances as they are before and after it.
LEMMA VisitSound ==
  ASSUME DijkstraInv, ComputeNewDistances
  PROVE  DijkstraInv'
<1> DEFINE label == labels[current]
           onward == {c \in contacts : /\ c.fromNode = current.toNode
                                       /\ c.toNode # current.fromNode \/ current = Root}
           loop == \E c \in onward : suppressed[c] = "fromNode"
           open == {c \in onward \ visited : suppressed[c] = "no"}
           closed == {c \in open : current = Root /\ c.toNode \in excluded}
           timely == {c \in open \ closed : Departure(c, label.arrival) < c.toTime}
           ranged == {c \in timely : c.owlt # NoRange}
           new == [c \in ranged |->
                     [arrival |-> Departure(c, label.arrival) + LightTime(c),
                      hops |-> label.hops + 1, owlt |-> label.owlt + LightTime(c),
                      predecessor |-> current]]
           better == {c \in ranged : c \notin DOMAIN labels \/ CompareEdges(new[c], labels[c])}
<1>1. /\ pc = "relax" /\ UNCHANGED given /\ current' = current
      /\ visited' = visited \cup {current} /\ pc' = "choose"
  BY DEF ComputeNewDistances
<1>2. suppressed' = [c \in contacts |->
        CASE loop /\ c = current -> "toNode"
          [] ~ loop /\ c \in closed \cup (timely \ ranged) -> "dijkstra"
          [] OTHER -> suppressed[c]]
  BY Zenon DEF ComputeNewDistances
<1>3. labels' = IF loop THEN labels
                ELSE [c \in DOMAIN labels \cup better |->
                        IF c \in better THEN new[c] ELSE labels[c]]
  BY Zenon DEF ComputeNewDistances
<1>4. /\ now' = now /\ selected' = selected /\ route' = route /\ at' = at
      /\ excluded' = excluded /\ first' = first
  BY <1>1 DEF given
<1>5. /\ contacts' = contacts /\ Routes' = Routes /\ prefix' = prefix
      /\ OnRoot' = OnRoot /\ Start' = Start /\ Duplicates' = Duplicates
      /\ RootPathLabels' = RootPathLabels /\ RootNodes(at)' = RootNodes(at)
      /\ BarelyFeasible(prefix, now)' = BarelyFeasible(prefix, now)
      /\ \A c : Excluded(c)' = Excluded(c) /\ Usable(c)' = Usable(c)
  BY <1>1, SpurSame
<1>6. TypeOK /\ SearchInv
  BY <1>1 DEF DijkstraInv, Searching
<1>7. /\ current \in DOMAIN labels /\ current \notin visited
      /\ current.toNode # Destination
      /\ current = Root => at = 0 /\ visited = {}
      /\ visited = {} => current = Start /\ DOMAIN labels = OnRoot
      /\ visited # {} => CurrentLeast /\ Start \in visited
  BY <1>1, <1>6, CurrentIs
<1>8. /\ \A c \in contacts :
           /\ suppressed[c] = "fromNode" <=> c.fromNode \in RootNodes(at)
           /\ suppressed[c] = "toNode" => c.toNode \in RootNodes(at)
           /\ suppressed[c] = "dijkstra" => c \in Duplicates \/ Excluded(c) \/ c.owlt = NoRange
           /\ c \in Duplicates => suppressed[c] # "no"
           /\ Root \in visited /\ Excluded(c) => suppressed[c] # "no"
      /\ suppressed \in [contacts -> Marks]
  BY <1>6 DEF SearchInv, MarksSound, MarksLast, TypeOK
<1>9. Root.fromNode = LocalNode /\ Root.toNode = LocalNode /\ Root \notin contacts
  BY RootApart DEF contacts
\* A visit that finds a loop is of a contact that leads back to the root path.
<1>10. ASSUME loop
       PROVE  /\ current \in Waiting /\ current # Root
              /\ current.toNode \in RootNodes(at)
  <2>1. current.toNode \in RootNodes(at)
    BY <1>8, <1>10
  <2>2. current # Start
    BY <1>6, <2>1, StartIs
  <2> QED BY <1>7, <2>1, <2>2 DEF CurrentLeast
\* What is reached anew is free to be.
<1>11. ASSUME NEW c \in ranged
       PROVE  /\ c \in contacts /\ c \notin visited /\ suppressed[c] = "no"
              /\ Reaches(current, c) /\ new[c] = Via(current, c)
              /\ c \notin Duplicates /\ ~ Excluded(c) /\ c.fromNode \notin RootNodes(at)
              /\ c \notin OnRoot /\ c # current /\ c.owlt # NoRange
  <2>1. /\ c \in contacts /\ c \notin visited /\ suppressed[c] = "no" /\ c \notin closed
        /\ c.fromNode = current.toNode /\ (c.toNode # current.fromNode \/ current = Root)
        /\ Departure(c, label.arrival) < c.toTime /\ c.owlt # NoRange
        /\ c \in open
    OBVIOUS
  <2>2. Reaches(current, c)
    BY <2>1 DEF Reaches
  <2>3. new[c] = Via(current, c)
    BY DEF Via
  <2>4. c \notin Duplicates /\ c.fromNode \notin RootNodes(at)
    BY <1>8, <2>1
  <2>5. ~ Excluded(c)
    <3>1. SUFFICES ASSUME Excluded(c) PROVE FALSE
      OBVIOUS
    <3>2. at = 0 /\ c.toNode \in excluded /\ Start = Root
      BY <3>1 DEF Excluded, Start
    <3>3. Root \notin visited
      BY <1>8, <2>1, <3>1
    <3>4. current = Root
      BY <1>7, <3>2, <3>3
    <3>5. c \in closed
      BY <2>1, <3>2, <3>4
    <3> QED BY <2>1, <3>5
  <2>6. c \notin OnRoot
    BY <1>6, <1>9, <2>1, <2>4, StartIs
  <2>7. c # current
    BY <2>1, ContactType DEF contacts
  <2> QED BY <2>1, <2>2, <2>3, <2>4, <2>5, <2>6, <2>7
<1>12. ASSUME NEW c \in closed
       PROVE  /\ c \in contacts /\ suppressed[c] = "no" /\ Excluded(c)
  <2>1. c \in contacts /\ suppressed[c] = "no" /\ c.fromNode = current.toNode
        /\ current = Root /\ c.toNode \in excluded
    OBVIOUS
  <2> QED BY <1>7, <1>9, <2>1 DEF Excluded
<1>13. ASSUME NEW c \in timely \ ranged
       PROVE  /\ c \in contacts /\ suppressed[c] = "no" /\ c.owlt = NoRange
  OBVIOUS
\* A contact that the visit can reach, and that may be used, is reached.
<1>14. ASSUME NEW c, Reaches(current, c), Usable(c)
       PROVE  ~ loop /\ (c \in visited \/ c \in ranged)
  <2>1. /\ c \in contacts /\ c.fromNode = current.toNode
        /\ (c.toNode # current.fromNode \/ current = Root)
        /\ Departure(c, label.arrival) < c.toTime /\ c.owlt # NoRange
        /\ c \notin Duplicates /\ ~ Excluded(c)
        /\ c.fromNode \notin RootNodes(at) /\ c.toNode \notin RootNodes(at)
    BY <1>14 DEF Reaches, Usable
  <2>2. ~ loop
    BY <1>10, <2>1
  <2>3. suppressed[c] = "no"
    <3>1. suppressed[c] \in Marks
      BY <1>8, <2>1
    <3> QED BY <1>8, <2>1, <3>1 DEF Marks
  <2>4. c \notin closed
    BY <1>12, <2>1
  <2> QED BY <2>1, <2>2, <2>3, <2>4
<1>15. better \subseteq ranged /\ \A c \in ranged \ better :
         c \in DOMAIN labels /\ ~ CompareEdges(new[c], labels[c])
  OBVIOUS
<1>16. \A c \in better : c \in DOMAIN labels => CompareEdges(new[c], labels[c])
  OBVIOUS
<1>17. Root \in visited' => Root \in visited \/ (current = Root /\ visited = {})
  BY <1>1, <1>7
<1>18. ASSUME NEW c \in contacts, current = Root, visited = {}, Excluded(c)
       PROVE  suppressed[c] # "no" \/ c \in closed
  <2>1. c.fromNode = current.toNode /\ c.toNode \in excluded
    BY <1>9, <1>18 DEF Excluded
  <2> QED BY <1>18, <2>1
<1> HIDE DEF loop, closed, timely, ranged, new, better, open, onward
\* The marks.
<1>19. ASSUME NEW c \in contacts
       PROVE  suppressed'[c] =
                IF loop /\ c = current THEN "toNode"
                ELSE IF ~ loop /\ c \in closed \cup (timely \ ranged) THEN "dijkstra"
                ELSE suppressed[c]
  <2>1. suppressed'[c] =
          CASE loop /\ c = current -> "toNode"
            [] ~ loop /\ c \in closed \cup (timely \ ranged) -> "dijkstra"
            [] OTHER -> suppressed[c]
    BY <1>2
  <2> QED BY <2>1
<1>20. suppressed' \in [contacts -> Marks]
  <2>1. \A c \in contacts : suppressed'[c] \in Marks
    BY <1>8, <1>19 DEF Marks
  <2>2. suppressed' = [c \in contacts |-> suppressed'[c]]
    BY <1>2, Zenon
  <2> QED BY <2>1, <2>2
<1>21. ASSUME loop
       PROVE  suppressed[current] = "no"
  BY <1>6, <1>10, <1>21 DEF SearchInv, VisitsOrdered
<1>22. MarksSound'
  <2>1. ASSUME NEW c \in contacts
        PROVE  /\ suppressed'[c] = "fromNode" <=> c.fromNode \in RootNodes(at)
               /\ suppressed'[c] = "toNode" => c.toNode \in RootNodes(at)
               /\ suppressed'[c] = "dijkstra" => c \in Duplicates \/ Excluded(c) \/ c.owlt = NoRange
               /\ c \in Duplicates => suppressed'[c] # "no"
               /\ Root \in visited' /\ Excluded(c) => suppressed'[c] # "no"
    <3>1. CASE loop /\ c = current
      BY <1>8, <1>10, <1>19, <1>21, <3>1
    <3>2. CASE ~ loop /\ c \in closed \cup (timely \ ranged)
      <4>1. suppressed[c] = "no" /\ (Excluded(c) \/ c.owlt = NoRange)
        BY <1>12, <1>13, <3>2
      <4>2. suppressed'[c] = "dijkstra"
        BY <1>19, <3>2
      <4> QED BY <1>8, <4>1, <4>2
    <3>3. CASE ~ (loop /\ c = current) /\ ~ (~ loop /\ c \in closed \cup (timely \ ranged))
      <4>1. suppressed'[c] = suppressed[c]
        BY <1>19, <3>3
      <4>2. Root \in visited' /\ Excluded(c) => suppressed[c] # "no"
        <5>1. SUFFICES ASSUME Root \in visited', Excluded(c) PROVE suppressed[c] # "no"
          OBVIOUS
        <5>2. CASE Root \in visited
          BY <1>8, <5>1, <5>2
        <5>3. CASE current = Root /\ visited = {}
          BY <1>10, <1>18, <3>3, <5>1, <5>3
        <5> QED BY <1>17, <5>1, <5>2, <5>3
      <4> QED BY <1>8, <4>1, <4>2
    <3> QED BY <3>1, <3>2, <3>3
  <2>2. MarksLast(at)'
    BY <1>4, <1>5, <2>1 DEF MarksLast
  <2> QED BY <1>5, <2>1, <2>2 DEF MarksSound
\* The distances.
<1> DEFINE gain == IF loop THEN {} ELSE better
<1>23. /\ DOMAIN labels' = DOMAIN labels \cup gain
       /\ \A c \in DOMAIN labels \ gain : labels'[c] = labels[c]
       /\ \A c \in gain : c \in ranged /\ labels'[c] = Via(current, c)
  <2>1. CASE loop
    BY <1>3, <2>1
  <2>2. CASE ~ loop
    <3>1. labels' = [c \in DOMAIN labels \cup better |-> IF c \in better THEN new[c] ELSE labels[c]]
      BY <1>3, <2>2
    <3>2. \A c \in better : c \in ranged /\ new[c] = Via(current, c)
      BY <1>11, <1>15
    <3> QED BY <2>2, <3>1, <3>2
  <2> QED BY <2>1, <2>2
<1>24. \A c \in gain : c \in DOMAIN labels => CompareEdges(Via(current, c), labels[c])
  BY <1>11, <1>15, <1>16
<1>25. \A c \in ranged \ gain : ~ loop => c \in DOMAIN labels /\ ~ CompareEdges(Via(current, c), labels[c])
  BY <1>11, <1>15
<1> HIDE DEF gain
<1>26. \A e \in visited' : e \in DOMAIN labels /\ e \notin gain /\ labels'[e] = labels[e]
  <2>1. visited \subseteq DOMAIN labels
    BY <1>6 DEF SearchInv, VisitsOrdered
  <2>2. \A e \in gain : e \notin visited /\ e # current
    BY <1>11, <1>23
  <2> QED BY <1>1, <1>7, <1>23, <2>1, <2>2
<1>27. \A e \in visited' : \A c : Reaches(e, c)' = Reaches(e, c) /\ Via(e, c)' = Via(e, c)
  BY <1>5, <1>26 DEF Reaches, Via
<1>28. \A c \in gain : Via(current, c) \in Label /\ c \in contacts
  BY <1>6, <1>7, <1>11, <1>23, ViaType
<1>29. TypeOK'
  <2>1. DOMAIN labels' \subseteq contacts \cup {Root}
    BY <1>6, <1>23, <1>28 DEF TypeOK
  <2>2. \A c \in DOMAIN labels' : labels'[c] \in Label
    BY <1>6, <1>23, <1>28 DEF TypeOK
  <2>3. visited' \subseteq contacts \cup {Root}
    BY <1>1, <1>6 DEF TypeOK
  <2> QED BY <1>1, <1>4, <1>5, <1>6, <1>20, <2>1, <2>2, <2>3 DEF TypeOK
<1>30. LabelsKept'
  <2>1. OnRoot \subseteq DOMAIN labels' /\ \A c \in OnRoot : labels'[c] = RootPathLabels[c]
    <3>1. \A c \in gain : c \notin OnRoot
      BY <1>11, <1>23
    <3> QED BY <1>6, <1>23, <3>1 DEF SearchInv, LabelsKept
  <2>2. ASSUME NEW c \in DOMAIN labels' \ OnRoot
        PROVE  /\ labels'[c].predecessor \in visited'
               /\ Reaches(labels'[c].predecessor, c)
               /\ labels'[c] = Via(labels'[c].predecessor, c)
               /\ c \notin Duplicates /\ ~ Excluded(c) /\ c.fromNode \notin RootNodes(at)
    <3>1. CASE c \in gain
      <4>1. labels'[c] = Via(current, c) /\ c \in ranged
        BY <1>23, <3>1
      <4>2. labels'[c].predecessor = current
        BY <4>1 DEF Via
      <4> QED BY <1>1, <1>11, <4>1, <4>2
    <3>2. CASE c \notin gain
      <4>1. c \in DOMAIN labels \ OnRoot /\ labels'[c] = labels[c]
        BY <1>23, <3>2
      <4> DEFINE e == labels[c].predecessor
      <4>2. /\ e \in visited /\ Reaches(e, c) /\ labels[c] = Via(e, c)
            /\ c \notin Duplicates /\ ~ Excluded(c) /\ c.fromNode \notin RootNodes(at)
        BY <1>6, <4>1, Zenon DEF SearchInv, LabelsKept, Reached
      <4> HIDE DEF e
      <4>3. e = labels'[c].predecessor /\ e \in visited'
        BY <1>1, <4>1, <4>2 DEF e
      <4> QED BY <4>1, <4>2, <4>3
    <3> QED BY <3>1, <3>2
  <2>3. ASSUME NEW c \in DOMAIN labels' \ OnRoot, NEW e, e = labels'[c].predecessor
        PROVE  /\ e \in visited' /\ c \in contacts' /\ c.fromNode = e.toNode
               /\ c.toNode # e.fromNode \/ e = Root
               /\ Departure(c, labels'[e].arrival) < c.toTime /\ c.owlt # NoRange
               /\ labels'[c] = [arrival |-> Departure(c, labels'[e].arrival) + LightTime(c),
                               hops |-> labels'[e].hops + 1,
                               owlt |-> labels'[e].owlt + LightTime(c), predecessor |-> e]
               /\ c \notin Duplicates' /\ ~ Excluded(c)' /\ c.fromNode \notin RootNodes(at)'
    <3>1. e \in visited' /\ Reaches(e, c) /\ labels'[c] = Via(e, c)
          /\ c \notin Duplicates /\ ~ Excluded(c) /\ c.fromNode \notin RootNodes(at)
      BY <2>2, <2>3
    <3>2. labels'[e] = labels[e]
      BY <1>26, <3>1
    <3>3. /\ c \in contacts /\ c.fromNode = e.toNode
          /\ c.toNode # e.fromNode \/ e = Root
          /\ Departure(c, labels'[e].arrival) < c.toTime /\ c.owlt # NoRange
      BY <3>1, <3>2 DEF Reaches
    <3>4. labels'[c] = [arrival |-> Departure(c, labels'[e].arrival) + LightTime(c),
                      hops |-> labels'[e].hops + 1,
                      owlt |-> labels'[e].owlt + LightTime(c), predecessor |-> e]
      BY <3>1, <3>2 DEF Via
    <3> QED BY <1>5, <3>1, <3>3, <3>4
  <2>4. ASSUME NEW c \in DOMAIN labels' \ OnRoot'
        PROVE  LET e == labels'[c].predecessor
               IN  /\ e \in visited'
                   /\ (/\ c \in contacts' /\ c.fromNode = e.toNode
                       /\ c.toNode # e.fromNode \/ e = Root
                       /\ Departure(c, labels'[e].arrival) < c.toTime /\ c.owlt # NoRange)
                   /\ labels'[c] = [arrival |-> Departure(c, labels'[e].arrival) + LightTime(c),
                                   hops |-> labels'[e].hops + 1,
                                   owlt |-> labels'[e].owlt + LightTime(c), predecessor |-> e]
                   /\ c \notin Duplicates' /\ ~ Excluded(c)' /\ c.fromNode \notin RootNodes(at)'
    <3> DEFINE e == labels'[c].predecessor
    <3>1. c \in DOMAIN labels' \ OnRoot /\ e = labels'[c].predecessor
      BY <1>5
    <3> HIDE DEF e
    <3>2. /\ e \in visited' /\ c \in contacts' /\ c.fromNode = e.toNode
          /\ c.toNode # e.fromNode \/ e = Root
          /\ Departure(c, labels'[e].arrival) < c.toTime /\ c.owlt # NoRange
          /\ labels'[c] = [arrival |-> Departure(c, labels'[e].arrival) + LightTime(c),
                          hops |-> labels'[e].hops + 1,
                          owlt |-> labels'[e].owlt + LightTime(c), predecessor |-> e]
          /\ c \notin Duplicates' /\ ~ Excluded(c)' /\ c.fromNode \notin RootNodes(at)'
      BY <2>3, <3>1
    <3> QED BY <3>2, Zenon DEF e
  <2>5. Reached'
    BY <2>4, Zenon DEF Reached, Reaches, Via
  <2> QED BY <1>5, <2>1, <2>5 DEF LabelsKept
\* The order of the visits.
<1>31. Waiting' \subseteq (Waiting \cup gain) \ {current}
  BY <1>1, <1>5, <1>23 DEF Waiting
<1>32. ASSUME NEW c \in Waiting
       PROVE  c \in contacts /\ suppressed[c] = "no" /\ ~ Excluded(c) /\ c.owlt # NoRange
              /\ c \in DOMAIN labels
  <2>1. c \in DOMAIN labels \ OnRoot /\ suppressed[c] = "no"
    BY <1>6 DEF SearchInv, VisitsOrdered, Waiting
  <2>2. Reaches(labels[c].predecessor, c) /\ ~ Excluded(c)
    BY <1>6, <2>1, Zenon DEF SearchInv, LabelsKept, Reached
  <2> QED BY <2>1, <2>2 DEF Reaches
<1>33. ASSUME NEW c \in visited PROVE ~ CompareEdges(labels[current], labels[c])
  <2>1. CurrentLeast
    BY <1>7
  <2> QED BY <1>6, <2>1 DEF CurrentLeast, SearchInv, VisitsOrdered
<1>34. \A c \in contacts, e \in visited' : c.owlt # NoRange => ~ CompareEdges(Via(current, c), labels[e])
  <2> SUFFICES ASSUME NEW c \in contacts, NEW e \in visited', c.owlt # NoRange
               PROVE  ~ CompareEdges(Via(current, c), labels[e])
    OBVIOUS
  <2>1. ~ CompareEdges(Via(current, c), labels[current])
    BY <1>6, <1>7, ViaLater
  <2>2. CASE e = current
    BY <2>1, <2>2
  <2>3. CASE e \in visited
    <3>1. Via(current, c) \in Label /\ labels[current] \in Label /\ labels[e] \in Label
      BY <1>6, <1>7, <1>26, ViaType, TreeFacts
    <3>2. ~ CompareEdges(labels[current], labels[e])
      BY <1>33, <2>3
    <3> QED BY <2>1, <3>1, <3>2, EdgesOrder
  <2> QED BY <1>1, <2>2, <2>3
<1>35. VisitsOrdered'
  <2>1. visited' \subseteq DOMAIN labels' /\ visited' \cap OnRoot \subseteq {Start}
    <3>1. visited \cap OnRoot \subseteq {Start}
      BY <1>6 DEF SearchInv, VisitsOrdered
    <3>2. current \in OnRoot => current = Start
      BY <1>7 DEF CurrentLeast, Waiting
    <3> QED BY <1>1, <1>23, <1>26, <3>1, <3>2
  <2>2. \A e \in visited' : e.toNode # Destination
    BY <1>1, <1>6, <1>7 DEF SearchInv, VisitsOrdered
  <2>3. ASSUME NEW c \in Waiting' PROVE suppressed'[c] = "no"
    <3>1. c # current
      BY <1>31
    <3>2. CASE c \in Waiting
      <4>1. c \notin closed /\ c \notin timely \ ranged
        BY <1>12, <1>13, <1>32, <3>2
      <4> QED BY <1>19, <1>32, <3>1, <3>2, <4>1
    <3>3. CASE c \in gain
      <4>1. c \in ranged /\ c \in contacts /\ suppressed[c] = "no" /\ ~ Excluded(c)
        BY <1>11, <1>23, <3>3
      <4>2. c \notin closed
        BY <1>12, <4>1
      <4> QED BY <1>19, <3>1, <4>1, <4>2
    <3> QED BY <1>31, <3>2, <3>3
  <2>4. ASSUME NEW e \in visited', NEW c \in Waiting'
        PROVE  ~ CompareEdges(labels'[c], labels'[e])
    <3>1. labels'[e] = labels[e] /\ e \in DOMAIN labels
      BY <1>26
    <3>2. CASE c \in gain
      BY <1>11, <1>23, <1>34, <3>1, <3>2
    <3>3. CASE c \notin gain
      <4>1. c \in Waiting /\ labels'[c] = labels[c]
        BY <1>23, <1>31, <1>32, <3>3
      <4>2. CASE e \in visited
        BY <1>6, <3>1, <4>1, <4>2 DEF SearchInv, VisitsOrdered
      <4>3. CASE e = current
        <5>1. visited # {}
          BY <1>7, <4>1 DEF Waiting
        <5> QED BY <1>7, <3>1, <4>1, <4>3, <5>1 DEF CurrentLeast
      <4> QED BY <1>1, <4>2, <4>3
    <3> QED BY <3>2, <3>3
  <2> QED BY <1>5, <2>1, <2>2, <2>3, <2>4 DEF VisitsOrdered
<1>36. Relaxed'
  <2>1. ASSUME NEW e \in visited', NEW c \in contacts, Reaches(e, c), Usable(c)
        PROVE  c \in DOMAIN labels' /\ ~ CompareEdges(Via(e, c), labels'[c])
    <3>0. Via(e, c) \in Label /\ c.owlt # NoRange
      BY <1>6, <1>26, <2>1, ViaType DEF Reaches
    <3>1. CASE e \in visited
      <4>1. c \in DOMAIN labels /\ ~ CompareEdges(Via(e, c), labels[c])
        BY <1>6, <2>1, <3>1 DEF SearchInv, Relaxed
      <4>2. CASE c \in gain
        <5>1. labels'[c] = Via(current, c) /\ CompareEdges(Via(current, c), labels[c])
          BY <1>23, <1>24, <4>1, <4>2
        <5>2. Via(current, c) \in Label /\ labels[c] \in Label
          BY <1>6, <1>28, <4>1, <4>2, TreeFacts
        <5> QED BY <1>23, <3>0, <4>1, <5>1, <5>2, EdgesOrder
      <4> QED BY <1>23, <4>1, <4>2
    <3>2. CASE e = current
      <4>1. ~ loop /\ (c \in visited \/ c \in ranged)
        BY <1>14, <2>1, <3>2
      <4>2. CASE c \in gain
        <5>1. labels'[c] = Via(e, c) /\ c \in DOMAIN labels'
          BY <1>23, <3>2, <4>2
        <5> QED BY <3>0, <5>1, EdgesOrder
      <4>3. CASE c \in visited
        <5>1. c \in visited'
          BY <1>1, <4>3
        <5> QED BY <1>23, <1>26, <1>34, <2>1, <3>0, <3>2, <5>1
      <4>4. CASE c \in ranged \ gain
        BY <1>23, <1>25, <3>2, <4>1, <4>4
      <4> QED BY <4>1, <4>2, <4>3, <4>4
    <3> QED BY <1>1, <3>1, <3>2
  <2>2. ASSUME NEW e \in visited', NEW c \in contacts', Reaches(e, c)', Usable(c)'
        PROVE  c \in DOMAIN labels' /\ ~ CompareEdges(Via(e, c)', labels'[c])
    BY <1>5, <1>27, <2>1, <2>2
  <2>3. Relaxed' = (\A e \in visited', c \in contacts' :
           Reaches(e, c)' /\ Usable(c)' =>
             c \in DOMAIN labels' /\ ~ CompareEdges(Via(e, c)', labels'[c]))
    BY Zenon DEF Relaxed, CompareEdges
  <2> QED BY <2>2, <2>3, Zenon
<1>37. Progress'
  BY <1>1, <1>5, <1>7 DEF Progress
<1> QED
  BY <1>1, <1>5, <1>6, <1>22, <1>29, <1>30, <1>35, <1>36, <1>37 DEF DijkstraInv, SearchInv

LEMMA StepSound == DijkstraInv /\ [Next]_vars => DijkstraInv'
<1> SUFFICES ASSUME DijkstraInv, [Next]_vars PROVE DijkstraInv'
  OBVIOUS
<1>1. CASE StartSpur
  BY <1>1, StartSpurSound
<1>2. CASE ComputeNewDistances
  BY <1>2, VisitSound
<1>3. CASE FindBestContact
  BY <1>3, FindBestContactSound
<1>4. CASE NextSpur
  BY <1>4, NextSpurSound
<1>5. CASE NextRoute
  BY <1>5, NextRouteSound
<1>6. CASE UNCHANGED vars
  <2>1. UNCHANGED given /\ suppressed' = suppressed /\ visited' = visited /\ labels' = labels
        /\ current' = current /\ pc' = pc
    BY <1>6 DEF vars
  <2>2. /\ now' = now /\ selected' = selected /\ route' = route /\ at' = at
        /\ excluded' = excluded /\ first' = first
    BY <2>1 DEF given
  <2>3. /\ contacts' = contacts /\ Routes' = Routes /\ prefix' = prefix
        /\ OnRoot' = OnRoot /\ Start' = Start /\ Duplicates' = Duplicates
        /\ RootPathLabels' = RootPathLabels /\ RootNodes(at)' = RootNodes(at)
        /\ BarelyFeasible(prefix, now)' = BarelyFeasible(prefix, now)
        /\ \A c : Excluded(c)' = Excluded(c) /\ Usable(c)' = Usable(c)
    BY <2>1, SpurSame
  <2>4. TypeOK' = TypeOK
    BY <2>1, <2>2, <2>3 DEF TypeOK
  <2>5. \A e, c : Reaches(e, c)' = Reaches(e, c) /\ Via(e, c)' = Via(e, c)
    BY <2>1, <2>3 DEF Reaches, Via
  <2>6. Waiting' = Waiting /\ Queue' = Queue
    BY <2>1, <2>3 DEF Waiting, Queue
  <2>7. Best(Queue)' = Best(Queue)
    BY <2>1, <2>6 DEF Best
  <2>8. MarksLast(at)' = MarksLast(at)
    BY <2>1, <2>2, <2>3 DEF MarksLast
  <2>9. MarksSound' = MarksSound
    BY <2>1, <2>3, <2>8 DEF MarksSound
  <2>10. Reached' = Reached
    BY <2>1, <2>3, <2>5, Zenon DEF Reached
  <2>11. LabelsKept' = LabelsKept
    BY <2>1, <2>3, <2>10 DEF LabelsKept
  <2>12. VisitsOrdered' = VisitsOrdered /\ CurrentLeast' = CurrentLeast
    BY <2>1, <2>3, <2>6 DEF VisitsOrdered, CurrentLeast
  <2>13. Relaxed' = Relaxed
    BY <2>1, <2>3, <2>5, Zenon DEF Relaxed
  <2>14. Progress' = Progress
    BY <2>1, <2>3, <2>7, <2>12 DEF Progress
  <2>15. SearchInv' = SearchInv /\ Searching' = Searching
    BY <2>1, <2>3, <2>9, <2>11, <2>12, <2>13, <2>14 DEF SearchInv, Searching
  <2>16. MarksLast(IF at = 0 THEN 0 ELSE at - 1)' = MarksLast(IF at = 0 THEN 0 ELSE at - 1)
    BY <2>1, <2>2, <2>3 DEF MarksLast, RootNodes
  <2> QED BY <2>1, <2>2, <2>4, <2>15, <2>16 DEF DijkstraInv
<1> QED
  BY <1>1, <1>2, <1>3, <1>4, <1>5, <1>6 DEF Next

LEMMA InvSound == DijkstraInv => SearchSound
BY LabelsAreSound, SearchIsExact DEF DijkstraInv, SearchSound

-----------------------------------------------------------------------------
(* The theorem *)

\* dijkstra_search, from any spur of any sequence of routes on: the distances it keeps are
\* those of paths from the local node that are in time; the path it finds visits no node
\* twice, goes on from the root path over contacts neither excluded nor taken by a route
\* selected before, and arrives no later than any other such path; it fails only if there is
\* no such path, whatever marks the spurs before left on the contacts (clear_work_areas).
THEOREM SearchesAreSound == Spec => []SearchSound
<1>1. Init => DijkstraInv
  BY InitSound
<1>2. DijkstraInv /\ [Next]_vars => DijkstraInv'
  BY StepSound
<1>3. DijkstraInv => SearchSound
  BY InvSound
<1> QED
  BY <1>1, <1>2, <1>3, PTL DEF Spec

=============================================================================
