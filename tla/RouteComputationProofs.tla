----------------------- MODULE RouteComputationProofs -----------------------
(***************************************************************************)
(* The routes that are kept from call to call stay sound: no pointer       *)
(* between them and no route that a call holds is left behind by what is   *)
(* deleted, for all networks, bundles, limits and times.                   *)
(***************************************************************************)
EXTENDS RouteComputation, SequenceTheorems, FiniteSetTheorems, NaturalsInduction, WellFoundedInduction, TLAPS

Address == Nat \ {None}

\* Each route that is kept has its type, and a light time for each hop.
RoutesTyped(rs) ==
  /\ DOMAIN rs \subseteq Address
  /\ \A id \in DOMAIN rs :
       rs[id] \in RouteType /\ \A i \in DOMAIN rs[id].hops : rs[id].hops[i].owlt # NoRange

\* Genealogy, of routes of which those in S are selected.
Related(rs, S) ==
  \A id \in DOMAIN rs :
    /\ rs[id].father # None => rs[id].father \in DOMAIN rs
    /\ rs[id].selFather # None =>
         /\ rs[id].selFather \in DOMAIN rs \cap S /\ id \in S
         /\ rs[rs[id].selFather].selChild = id
    /\ rs[id].selChild # None =>
         rs[id].selChild \in DOMAIN rs /\ rs[rs[id].selChild].selFather = id
    /\ rs[id].selChild # None => rs[id].spursComputed

\* No route is among its own ancestors: rank grows from father to child.
Ranks(rs, rank) ==
  /\ rank \in [DOMAIN rs -> Nat]
  /\ \A id \in DOMAIN rs : rs[id].selFather # None => rank[rs[id].selFather] < rank[id]

Acyclic(rs) == \E rank : Ranks(rs, rank)

RoutesSound(rs, S) ==
  /\ IsFiniteSet(DOMAIN rs) /\ RoutesTyped(rs) /\ Related(rs, S) /\ Acyclic(rs)

\* Each route is in one of the two lists, once.
Listed(rs, selected_, known_) ==
  /\ selected_ \in Seq(Address) /\ known_ \in Seq(Address)
  /\ IsInjective(selected_) /\ IsInjective(known_)
  /\ Range(selected_) \cap Range(known_) = {}
  /\ Range(selected_) \cup Range(known_) = DOMAIN rs

\* Who the call is for.
CallTyped ==
  /\ agent \in Agent /\ now \in agent.times /\ limit \in agent.limits /\ contacts \subseteq Network
  /\ bundle \in agent.bundles \cup {NoBundle}
  /\ pc \in {"idle", "two", "one", "neighbors", "another", "spurs", "best", "done"}

\* The routes that a call holds, and that the one spurs are computed of has no child.
Holding ==
  /\ {"candidates", "subset"} \subseteq DOMAIN two /\ {"todo", "at"} \subseteq DOMAIN yen
  /\ two.candidates \in Seq(Range(selected)) /\ two.subset \in Seq(Range(selected))
  /\ yen.todo \in Seq(Range(selected)) /\ yen.at \in Nat
  /\ pc = "idle" => two.candidates = <<>> /\ two.subset = <<>> /\ yen.todo = <<>>
  /\ pc \in {"spurs", "best"} => yen.todo # <<>> /\ routes[Head(yen.todo)].selChild = None

\* What is inductive.
MemoryInv ==
  /\ CallTyped
  /\ RoutesSound(routes, Range(selected)) /\ Listed(routes, selected, known)
  /\ Holding

-----------------------------------------------------------------------------
(* Natural numbers and finite sets *)

LEMMA LeastNatural ==
  ASSUME NEW T \in SUBSET Nat, T # {}
  PROVE  \E m \in T : \A k \in T : m <= k
<1>1. PICK m \in T : \A k \in T : <<k, m>> \notin OpToRel(<, Nat)
  BY NatLessThanWellFounded, WFMin
<1>2. OpToRel(<, Nat) = {ss \in Nat \X Nat : ss[1] < ss[2]}
  BY Zenon DEF OpToRel
<1>3. ASSUME NEW k \in T PROVE ~ (k < m)
  <2>1. <<k, m>> \notin {ss \in Nat \X Nat : ss[1] < ss[2]}
    BY <1>1, <1>2, Zenon
  <2>2. k \in Nat /\ m \in Nat
    OBVIOUS
  <2> QED BY <2>1, <2>2
<1>4. \A k \in T : m <= k
  <2>1. \A k \in T : k \in Nat /\ m \in Nat
    OBVIOUS
  <2> QED BY <1>3, <2>1
<1> QED
  BY <1>4

\* In any set of numbers one is least, and Min is it.
LEMMA MinIs ==
  ASSUME NEW T \in SUBSET Nat, T # {}
  PROVE  Min(T) \in T
<1>1. \E x \in T : \A k \in T : x <= k
  BY LeastNatural
<1> DEFINE x == CHOOSE x \in T : \A k \in T : x <= k
<1>2. x \in T /\ \A k \in T : x <= k
  BY <1>1, Zenon
<1>3. Min(T) = x
  BY Zenon DEF Min
<1> QED
  BY <1>2, <1>3, Zenon

\* The numbers that a finite set is mapped to have a bound.
LEMMA FiniteBound ==
  ASSUME NEW S, IsFiniteSet(S), NEW h \in [S -> Nat]
  PROVE  \E n \in Nat : \A x \in S : h[x] <= n
<1> DEFINE N == Cardinality(S)
<1>1. PICK f : f \in Bijection(1 .. N, S)
  BY FS_CardinalityType DEF ExistsBijection
<1>2. N \in Nat /\ f \in [1 .. N -> S] /\ \A x \in S : \E i \in 1 .. N : f[i] = x
  BY <1>1, FS_CardinalityType DEF Bijection, Injection, Surjection
<1> HIDE DEF N
<1> DEFINE unbounded == {k \in 0 .. N : ~ \E n \in Nat : \A i \in 1 .. k : h[f[i]] <= n}
<1>3. unbounded = {}
  <2>1. SUFFICES ASSUME unbounded # {} PROVE FALSE
    OBVIOUS
  <2>2. PICK k \in unbounded : \A m \in unbounded : k <= m
    <3>1. unbounded \in SUBSET Nat
      BY <1>2
    <3> HIDE DEF unbounded
    <3> QED BY <2>1, <3>1, LeastNatural
  <2>3. k \in 0 .. N /\ ~ \E n \in Nat : \A i \in 1 .. k : h[f[i]] <= n
    OBVIOUS
  <2>4. k # 0
    <3>1. \A i \in 1 .. 0 : h[f[i]] <= 0
      OBVIOUS
    <3> QED BY <2>3, <3>1
  <2>5. k - 1 \in 0 .. N /\ k - 1 < k
    BY <1>2, <2>3, <2>4
  <2>6. PICK n \in Nat : \A i \in 1 .. k - 1 : h[f[i]] <= n
    <3>1. k - 1 \notin unbounded
      <4> HIDE DEF unbounded
      <4> QED BY <2>2, <2>3, <2>5
    <3> QED BY <2>5, <3>1
  <2>7. h[f[k]] \in Nat
    BY <1>2, <2>3, <2>4
  <2>8. PICK m \in Nat : n <= m /\ h[f[k]] <= m
    <3>1. n <= n + h[f[k]] /\ h[f[k]] <= n + h[f[k]] /\ n + h[f[k]] \in Nat
      BY <2>7
    <3> QED BY <3>1
  <2>9. \A i \in 1 .. k : h[f[i]] <= m
    <3> SUFFICES ASSUME NEW i \in 1 .. k PROVE h[f[i]] <= m
      OBVIOUS
    <3>1. CASE i = k
      BY <2>8, <3>1
    <3>2. CASE i # k
      <4>1. i \in 1 .. k - 1 /\ h[f[i]] \in Nat
        BY <1>2, <2>3, <3>2
      <4> QED BY <2>6, <2>8, <4>1
    <3> QED BY <3>1, <3>2
  <2> QED BY <2>3, <2>9
<1>4. PICK n \in Nat : \A i \in 1 .. N : h[f[i]] <= n
  <2>1. N \in 0 .. N /\ N \notin unbounded
    <3>1. N \in 0 .. N
      BY <1>2
    <3> QED BY <1>3, <3>1, Zenon
  <2> QED BY <2>1
<1> QED
  BY <1>2, <1>4

-----------------------------------------------------------------------------
(* Contacts and times *)

LEMMA ContactType ==
  ASSUME NEW c \in Network
  PROVE  /\ c.fromNode \in Nat /\ c.toNode \in Nat /\ c.fromNode # c.toNode
         /\ c.fromTime \in Nat /\ c.toTime \in Nat /\ c.owlt \in Nat \cup {-1}
BY ContactGraphAssumption DEF NoRange

LEMMA LightTimeNat ==
  ASSUME NEW c \in Network, c.owlt # NoRange
  PROVE  LightTime(c) \in Nat
<1>1. c.owlt \in Nat
  BY ContactType DEF NoRange
<1> QED
  BY <1>1 DEF LightTime

LEMMA DepartureIs ==
  ASSUME NEW c \in Network, NEW t \in Nat
  PROVE  Departure(c, t) = IF c.fromTime <= t THEN t ELSE c.fromTime
<1>1. c.fromTime \in Nat
  BY ContactType
<1>2. \E x \in {c.fromTime, t} : \A y \in {c.fromTime, t} : x >= y
  BY <1>1
<1>3. /\ Departure(c, t) \in {c.fromTime, t}
      /\ \A y \in {c.fromTime, t} : Departure(c, t) >= y
  BY <1>2, Zenon DEF Departure, Max
<1> QED
  BY <1>1, <1>3

-----------------------------------------------------------------------------
(* Times and light times along a path *)

\* g holds, for every i, the time at which a bundle is at the end of the i-th contact.
IsTimes(p, t, n, g) ==
  g = [i \in 0 .. n |-> IF i = 0 THEN t ELSE Departure(p[i], g[i - 1]) + LightTime(p[i])]

LEMMA TimesExist ==
  ASSUME NEW p, NEW t, NEW n \in Nat
  PROVE  \E g : IsTimes(p, t, n, g)
<1> DEFINE without == {k \in Nat : ~ \E g : IsTimes(p, t, k, g)}
<1>1. SUFFICES ASSUME without # {} PROVE FALSE
  OBVIOUS
<1>2. PICK m \in without : \A k \in without : m <= k
  <2>1. without \in SUBSET Nat
    OBVIOUS
  <2> HIDE DEF without
  <2> QED BY <1>1, <2>1, LeastNatural
<1>3. CASE m = 0
  <2>1. IsTimes(p, t, 0, [i \in 0 .. 0 |-> t])
    BY DEF IsTimes
  <2> QED BY <1>3, <2>1
<1>4. CASE m # 0
  <2>1. PICK g : IsTimes(p, t, m - 1, g)
    <3>1. m - 1 \in Nat /\ m - 1 \notin without
      <4> HIDE DEF without
      <4>1. m \in Nat
        BY DEF without
      <4> QED BY <1>2, <1>4, <4>1
    <3> QED BY <3>1
  <2> DEFINE h == [i \in 0 .. m |->
                     IF i = m THEN Departure(p[m], g[m - 1]) + LightTime(p[m]) ELSE g[i]]
  <2>2. m \in Nat /\ m > 0
    BY <1>4
  <2>3. h = [i \in 0 .. m |-> IF i = 0 THEN t ELSE Departure(p[i], h[i - 1]) + LightTime(p[i])]
    <3>1. \A i \in 0 .. m : i # m => h[i] = g[i] /\ i \in 0 .. m - 1
      BY <2>2
    <3>2. \A i \in 0 .. m - 1 :
            g[i] = IF i = 0 THEN t ELSE Departure(p[i], g[i - 1]) + LightTime(p[i])
      BY <2>1, Zenon DEF IsTimes
    <3>3. h[m] = Departure(p[m], g[m - 1]) + LightTime(p[m]) /\ h[m - 1] = g[m - 1]
      BY <2>2
    <3>4. \A i \in 1 .. m - 1 : h[i - 1] = g[i - 1]
      BY <2>2
    <3>5. \A i \in 0 .. m :
            h[i] = IF i = 0 THEN t ELSE Departure(p[i], h[i - 1]) + LightTime(p[i])
      <4> SUFFICES ASSUME NEW i \in 0 .. m
                   PROVE h[i] = IF i = 0 THEN t
                                ELSE Departure(p[i], h[i - 1]) + LightTime(p[i])
        BY Zenon
      <4> HIDE DEF h
      <4>1. CASE i = m
        BY <2>2, <3>3, <4>1
      <4>2. CASE i = 0
        BY <2>2, <3>1, <3>2, <4>2
      <4>3. CASE i # m /\ i # 0
        BY <2>2, <3>1, <3>2, <3>4, <4>3
      <4> QED BY <4>1, <4>2, <4>3
    <3> QED
      BY <3>5, Zenon DEF h
  <2>4. IsTimes(p, t, m, h)
    BY <2>3 DEF IsTimes
  <2> QED BY <2>4
<1> QED
  BY <1>3, <1>4

LEMMA TimesAlongIs ==
  ASSUME NEW p, Len(p) \in Nat, NEW t
  PROVE  /\ TimesAlong(p, t)[0] = t
         /\ \A i \in 1 .. Len(p) :
              TimesAlong(p, t)[i] = Departure(p[i], TimesAlong(p, t)[i - 1]) + LightTime(p[i])
<1>1. PICK g : IsTimes(p, t, Len(p), g)
  BY TimesExist
<1> DEFINE at_ == CHOOSE f : f = [i \in 0 .. Len(p) |->
                    IF i = 0 THEN t ELSE Departure(p[i], f[i - 1]) + LightTime(p[i])]
<1>2. at_ = [i \in 0 .. Len(p) |->
               IF i = 0 THEN t ELSE Departure(p[i], at_[i - 1]) + LightTime(p[i])]
  BY <1>1, Zenon DEF IsTimes
<1>3. TimesAlong(p, t) = at_
  BY Zenon DEF TimesAlong
<1> HIDE DEF at_
<1>4. \A i \in 0 .. Len(p) :
        at_[i] = IF i = 0 THEN t ELSE Departure(p[i], at_[i - 1]) + LightTime(p[i])
  BY <1>2, Zenon
<1> QED
  BY <1>3, <1>4

\* Where each contact has a range, times are natural numbers.
LEMMA TimesType ==
  ASSUME NEW p, Len(p) \in Nat, NEW t \in Nat,
         \A i \in 1 .. Len(p) : p[i] \in Network /\ p[i].owlt # NoRange
  PROVE  \A i \in 0 .. Len(p) : TimesAlong(p, t)[i] \in Nat
<1> DEFINE T == TimesAlong(p, t)
           bad == {i \in 0 .. Len(p) : T[i] \notin Nat}
<1>1. /\ T[0] = t
      /\ \A i \in 1 .. Len(p) : T[i] = Departure(p[i], T[i - 1]) + LightTime(p[i])
  BY TimesAlongIs
<1> HIDE DEF T
<1>2. SUFFICES ASSUME bad # {} PROVE FALSE
  BY DEF T
<1>3. PICK i \in bad : \A k \in bad : i <= k
  <2>1. bad \in SUBSET Nat
    OBVIOUS
  <2> HIDE DEF bad
  <2> QED BY <1>2, <2>1, LeastNatural
<1>4. i \in 0 .. Len(p) /\ T[i] \notin Nat
  OBVIOUS
<1>5. i # 0
  BY <1>1, <1>4
<1>6. i - 1 \notin bad /\ i - 1 \in 0 .. Len(p) /\ i \in 1 .. Len(p)
  <2> HIDE DEF bad
  <2> QED BY <1>3, <1>4, <1>5
<1>7. T[i - 1] \in Nat
  BY <1>6
<1>8. LightTime(p[i]) \in Nat
  BY <1>6, LightTimeNat
<1>9. Departure(p[i], T[i - 1]) \in Nat
  BY <1>6, <1>7, DepartureIs, ContactType
<1> QED
  BY <1>1, <1>4, <1>6, <1>8, <1>9

IsLights(p, n, g) ==
  g = [i \in 0 .. n |-> IF i = 0 THEN 0 ELSE g[i - 1] + LightTime(p[i])]

LEMMA LightsExist ==
  ASSUME NEW p, NEW n \in Nat
  PROVE  \E g : IsLights(p, n, g)
<1> DEFINE without == {k \in Nat : ~ \E g : IsLights(p, k, g)}
<1>1. SUFFICES ASSUME without # {} PROVE FALSE
  OBVIOUS
<1>2. PICK m \in without : \A k \in without : m <= k
  <2>1. without \in SUBSET Nat
    OBVIOUS
  <2> HIDE DEF without
  <2> QED BY <1>1, <2>1, LeastNatural
<1>3. CASE m = 0
  <2>1. IsLights(p, 0, [i \in 0 .. 0 |-> 0])
    BY DEF IsLights
  <2> QED BY <1>3, <2>1
<1>4. CASE m # 0
  <2>1. PICK g : IsLights(p, m - 1, g)
    <3>1. m - 1 \in Nat /\ m - 1 \notin without
      <4> HIDE DEF without
      <4>1. m \in Nat
        BY DEF without
      <4> QED BY <1>2, <1>4, <4>1
    <3> QED BY <3>1
  <2> DEFINE h == [i \in 0 .. m |-> IF i = m THEN g[m - 1] + LightTime(p[m]) ELSE g[i]]
  <2>2. m \in Nat /\ m > 0
    BY <1>4
  <2>3. h = [i \in 0 .. m |-> IF i = 0 THEN 0 ELSE h[i - 1] + LightTime(p[i])]
    <3>1. \A i \in 0 .. m : i # m => h[i] = g[i] /\ i \in 0 .. m - 1
      BY <2>2
    <3>2. \A i \in 0 .. m - 1 : g[i] = IF i = 0 THEN 0 ELSE g[i - 1] + LightTime(p[i])
      BY <2>1, Zenon DEF IsLights
    <3>3. h[m] = g[m - 1] + LightTime(p[m]) /\ h[m - 1] = g[m - 1]
      BY <2>2
    <3>4. \A i \in 1 .. m - 1 : h[i - 1] = g[i - 1]
      BY <2>2
    <3>5. \A i \in 0 .. m : h[i] = IF i = 0 THEN 0 ELSE h[i - 1] + LightTime(p[i])
      <4> SUFFICES ASSUME NEW i \in 0 .. m
                   PROVE h[i] = IF i = 0 THEN 0 ELSE h[i - 1] + LightTime(p[i])
        BY Zenon
      <4> HIDE DEF h
      <4>1. CASE i = m
        BY <2>2, <3>3, <4>1
      <4>2. CASE i = 0
        BY <2>2, <3>1, <3>2, <4>2
      <4>3. CASE i # m /\ i # 0
        BY <2>2, <3>1, <3>2, <3>4, <4>3
      <4> QED BY <4>1, <4>2, <4>3
    <3> QED
      BY <3>5, Zenon DEF h
  <2>4. IsLights(p, m, h)
    BY <2>3 DEF IsLights
  <2> QED BY <2>4
<1> QED
  BY <1>3, <1>4

LEMMA LightAlongType ==
  ASSUME NEW p, Len(p) \in Nat,
         \A i \in 1 .. Len(p) : p[i] \in Network /\ p[i].owlt # NoRange
  PROVE  \A i \in 0 .. Len(p) : LightAlong(p)[i] \in Nat
<1>1. PICK g : IsLights(p, Len(p), g)
  BY LightsExist
<1> DEFINE sum == CHOOSE f : f = [i \in 0 .. Len(p) |->
                    IF i = 0 THEN 0 ELSE f[i - 1] + LightTime(p[i])]
           bad == {i \in 0 .. Len(p) : sum[i] \notin Nat}
<1>2. sum = [i \in 0 .. Len(p) |-> IF i = 0 THEN 0 ELSE sum[i - 1] + LightTime(p[i])]
  BY <1>1, Zenon DEF IsLights
<1>3. LightAlong(p) = sum
  BY Zenon DEF LightAlong
<1> HIDE DEF sum
<1>4. \A i \in 0 .. Len(p) : sum[i] = IF i = 0 THEN 0 ELSE sum[i - 1] + LightTime(p[i])
  BY <1>2, Zenon
<1>5. SUFFICES ASSUME bad # {} PROVE FALSE
  BY <1>3
<1>6. PICK k \in bad : \A m \in bad : k <= m
  <2>1. bad \in SUBSET Nat
    OBVIOUS
  <2> HIDE DEF bad
  <2> QED BY <1>5, <2>1, LeastNatural
<1>7. k \in 0 .. Len(p) /\ sum[k] \notin Nat
  OBVIOUS
<1>8. k # 0
  BY <1>4, <1>7
<1>9. k - 1 \notin bad /\ k - 1 \in 0 .. Len(p) /\ k \in 1 .. Len(p)
  <2> HIDE DEF bad
  <2> QED BY <1>6, <1>7, <1>8
<1>10. LightTime(p[k]) \in Nat
  BY <1>9, LightTimeNat
<1> QED
  BY <1>4, <1>7, <1>8, <1>9, <1>10

LEMMA NodesFinite == IsFiniteSet(Nodes) /\ Cardinality(Nodes) \in Nat
<1> DEFINE from == [c \in Network |-> c.fromNode]
           to == [c \in Network |-> c.toNode]
           F == {c.fromNode : c \in Network}
           T == {c.toNode : c \in Network}
<1>1. IsFiniteSet(F)
  <2>1. from \in Surjection(Network, F)
    BY DEF Surjection
  <2> QED BY <2>1, FS_Surjection, ContactGraphAssumption
<1>2. IsFiniteSet(T)
  <2>1. to \in Surjection(Network, T)
    BY DEF Surjection
  <2> QED BY <2>1, FS_Surjection, ContactGraphAssumption
<1>3. Nodes = F \cup T
  BY DEF Nodes
<1> HIDE DEF F, T
<1>4. IsFiniteSet(Nodes)
  BY <1>1, <1>2, <1>3, FS_Union
<1> QED
  BY <1>4, FS_CardinalityType

LEMMA PathIs ==
  ASSUME NEW p \in SimplePaths
  PROVE  p \in Seq(Network) /\ p # <<>> /\ Len(p) \in Nat \ {0} /\ DOMAIN p = 1 .. Len(p)
<1>1. p \in SeqOf(Network, Cardinality(Nodes) - 1) /\ p # <<>>
  BY Zenon DEF SimplePaths
<1>2. PICK m \in 0 .. Cardinality(Nodes) - 1 : p \in [1 .. m -> Network]
  BY <1>1, Zenon DEF SeqOf
<1>3. m \in Nat
  BY NodesFinite
<1>4. p \in Seq(Network) /\ DOMAIN p = 1 .. Len(p) /\ Len(p) \in Nat
  BY <1>2, <1>3
<1> QED
  BY <1>1, <1>4

\* What a route costs are natural numbers.
LEMMA PathTyped ==
  ASSUME NEW p \in SimplePaths, NEW t \in Nat, \A i \in DOMAIN p : p[i].owlt # NoRange
  PROVE  Arrival(p, t) \in Nat /\ LightAlong(p)[Len(p)] \in Nat
<1>1. /\ Len(p) \in Nat /\ Len(p) \in 0 .. Len(p)
      /\ \A i \in 1 .. Len(p) : p[i] \in Network /\ p[i].owlt # NoRange
  BY PathIs
<1> QED
  BY <1>1, TimesType, LightAlongType DEF Arrival

LEMMA NeighborNat ==
  ASSUME NEW r, r.hops \in SimplePaths
  PROVE  Neighbor(r) \in Nat
<1>1. r.hops[1] \in Network
  BY PathIs
<1> QED
  BY <1>1, ContactType DEF Neighbor

\* What a search finds.
LEMMA FoundIs ==
  ASSUME NEW prefix, NEW avoided, NEW path \in Found(prefix, avoided)
  PROVE  path \in SimplePaths /\ \A i \in DOMAIN path : path[i].owlt # NoRange
<1> DEFINE paths == Continuations(prefix, contacts \ avoided, Destination, now)
<1>1. path \in paths
  BY Zenon DEF Found, Earliest
<1>2. path \in PathsTo(Destination) /\ BarelyFeasible(path, now)
  BY <1>1, Zenon DEF Continuations
<1>3. path \in SimplePaths
  BY <1>2, Zenon DEF PathsTo
<1> QED
  BY <1>2, <1>3, Zenon DEF BarelyFeasible

-----------------------------------------------------------------------------
(* Lists *)

\* g holds, for every i, what Keep leaves of the first i members of list.
IsKept(list, ids, n, g) ==
  g = [i \in 0 .. n |->
         IF i = 0 THEN <<>>
         ELSE IF list[i] \in ids THEN g[i - 1] ELSE Append(g[i - 1], list[i])]

LEMMA KeptExists ==
  ASSUME NEW list, NEW ids, NEW n \in Nat
  PROVE  \E g : IsKept(list, ids, n, g)
<1> DEFINE without == {k \in Nat : ~ \E g : IsKept(list, ids, k, g)}
<1>1. SUFFICES ASSUME without # {} PROVE FALSE
  OBVIOUS
<1>2. PICK m \in without : \A k \in without : m <= k
  <2>1. without \in SUBSET Nat
    OBVIOUS
  <2> HIDE DEF without
  <2> QED BY <1>1, <2>1, LeastNatural
<1>3. CASE m = 0
  <2>1. IsKept(list, ids, 0, [i \in 0 .. 0 |-> <<>>])
    BY DEF IsKept
  <2> QED BY <1>3, <2>1
<1>4. CASE m # 0
  <2>1. PICK g : IsKept(list, ids, m - 1, g)
    <3>1. m - 1 \in Nat /\ m - 1 \notin without
      <4> HIDE DEF without
      <4>1. m \in Nat
        BY DEF without
      <4> QED BY <1>2, <1>4, <4>1
    <3> QED BY <3>1
  <2> DEFINE next(s, i) == IF list[i] \in ids THEN s ELSE Append(s, list[i])
             h == [i \in 0 .. m |-> IF i = m THEN next(g[m - 1], m) ELSE g[i]]
  <2>2. \A i \in 0 .. m - 1 : g[i] = IF i = 0 THEN <<>> ELSE next(g[i - 1], i)
    BY <2>1 DEF IsKept
  <2>3. m \in Nat /\ \A i \in 0 .. m : h[i] = IF i = m THEN next(g[m - 1], m) ELSE g[i]
    OBVIOUS
  <2>4. \A i \in 0 .. m : h[i] = IF i = 0 THEN <<>> ELSE next(h[i - 1], i)
    <3> HIDE DEF next, h, without
    <3>1. h[m] = next(g[m - 1], m) /\ (m # 0 => h[m - 1] = g[m - 1])
      BY <1>4, <2>3
    <3>2. \A i \in 1 .. m - 1 : h[i] = g[i] /\ h[i - 1] = g[i - 1]
      BY <2>3
    <3> QED BY <1>4, <2>2, <2>3, <3>1, <3>2
  <2>5. h = [i \in 0 .. m |-> h[i]]
    OBVIOUS
  <2>6. IsKept(list, ids, m, h)
    <3> HIDE DEF h
    <3> QED BY <2>4, <2>5 DEF IsKept
  <2> QED BY <2>6
<1> QED
  BY <1>3, <1>4

\* What Keep leaves of a list: the members outside ids, no more often than before.
LEMMA KeepFacts ==
  ASSUME NEW B, NEW list \in Seq(B), NEW ids
  PROVE  /\ Keep(list, ids) \in Seq(B)
         /\ Range(Keep(list, ids)) = Range(list) \ ids
         /\ IsInjective(list) => IsInjective(Keep(list, ids))
<1> DEFINE g == CHOOSE k : IsKept(list, ids, Len(list), k)
           good(i) == /\ g[i] \in Seq(B)
                      /\ Range(g[i]) = {list[j] : j \in 1 .. i} \ ids
                      /\ IsInjective(list) => IsInjective(g[i])
           bad == {i \in 0 .. Len(list) : ~ good(i)}
<1>1. Keep(list, ids) = g[Len(list)]
  BY DEF Keep, IsKept
<1>2. IsKept(list, ids, Len(list), g)
  <2>1. Len(list) \in Nat
    OBVIOUS
  <2> QED BY <2>1, KeptExists
<1>3. /\ \A i \in 0 .. Len(list) :
           g[i] = IF i = 0 THEN <<>>
                  ELSE IF list[i] \in ids THEN g[i - 1] ELSE Append(g[i - 1], list[i])
      /\ Len(list) \in Nat
  <2> HIDE DEF g
  <2>1. g = [i \in 0 .. Len(list) |->
               IF i = 0 THEN <<>>
               ELSE IF list[i] \in ids THEN g[i - 1] ELSE Append(g[i - 1], list[i])]
    BY <1>2, Zenon DEF IsKept
  <2>2. \A i \in 0 .. Len(list) :
           g[i] = IF i = 0 THEN <<>>
                  ELSE IF list[i] \in ids THEN g[i - 1] ELSE Append(g[i - 1], list[i])
    BY <2>1, Zenon
  <2> QED BY <2>2
<1>4. bad = {}
  <2>1. SUFFICES ASSUME bad # {} PROVE FALSE
    OBVIOUS
  <2>2. PICK m \in bad : \A k \in bad : m <= k
    <3>1. bad \in SUBSET Nat
      OBVIOUS
    <3> HIDE DEF bad
    <3> QED BY <2>1, <3>1, LeastNatural
  <2> HIDE DEF g
  <2>3. m \in 0 .. Len(list) /\ ~ good(m)
    BY <2>2
  <2>4. CASE m = 0
    <3>1. g[m] = <<>>
      BY <1>3, <2>3, <2>4
    <3>2. good(m)
      BY <2>4, <3>1 DEF Range, IsInjective
    <3> QED BY <2>3, <3>2
  <2>5. CASE m # 0
    <3>1. m - 1 \in 0 .. Len(list) /\ m \in 1 .. Len(list) /\ list[m] \in B
      BY <1>3, <2>3, <2>5
    <3>2. good(m - 1)
      <4>1. m - 1 \notin bad
        <5> HIDE DEF bad
        <5> QED BY <2>2, <2>3, <3>1
      <4> QED BY <3>1, <4>1
    <3>3. {list[j] : j \in 1 .. m} = {list[j] : j \in 1 .. m - 1} \cup {list[m]}
      BY <3>1
    <3>4. CASE list[m] \in ids
      <4>1. g[m] = g[m - 1]
        BY <1>3, <2>3, <2>5, <3>4
      <4> QED BY <2>3, <3>2, <3>3, <3>4, <4>1
    <3>5. CASE list[m] \notin ids
      <4>1. g[m] = Append(g[m - 1], list[m])
        BY <1>3, <2>3, <2>5, <3>5
      <4>2. /\ g[m] \in Seq(B) /\ Len(g[m]) = Len(g[m - 1]) + 1 /\ Len(g[m - 1]) \in Nat
            /\ DOMAIN g[m] = 1 .. Len(g[m - 1]) + 1 /\ DOMAIN g[m - 1] = 1 .. Len(g[m - 1])
            /\ g[m][Len(g[m - 1]) + 1] = list[m]
            /\ \A i \in 1 .. Len(g[m - 1]) : g[m][i] = g[m - 1][i]
        BY <3>1, <3>2, <4>1, AppendProperties, LenProperties
      <4>3. Range(g[m]) = Range(g[m - 1]) \cup {list[m]}
        <5>1. \A i \in DOMAIN g[m] : i = Len(g[m - 1]) + 1 \/ i \in DOMAIN g[m - 1]
          BY <4>2
        <5>2. Range(g[m]) \subseteq Range(g[m - 1]) \cup {list[m]}
          BY <4>2, <5>1 DEF Range
        <5>3. \A i \in DOMAIN g[m - 1] : i \in DOMAIN g[m] /\ g[m][i] = g[m - 1][i]
          BY <4>2
        <5>4. Len(g[m - 1]) + 1 \in DOMAIN g[m]
          BY <4>2
        <5>5. Range(g[m - 1]) \cup {list[m]} \subseteq Range(g[m])
          BY <4>2, <5>3, <5>4 DEF Range
        <5> QED BY <5>2, <5>5
      <4>4. ASSUME IsInjective(list) PROVE IsInjective(g[m])
        <5>1. list[m] \notin Range(g[m - 1])
          <6>1. \A j \in 1 .. m - 1 : j \in DOMAIN list /\ m \in DOMAIN list /\ j # m
            BY <3>1
          <6>2. list[m] \notin {list[j] : j \in 1 .. m - 1}
            BY <4>4, <6>1 DEF IsInjective
          <6> QED BY <3>2, <6>2
        <5>2. IsInjective(g[m - 1])
          BY <3>2, <4>4
        <5>3. \A i \in DOMAIN g[m - 1] : g[m - 1][i] # list[m]
          BY <5>1 DEF Range
        <5> HIDE DEF good, bad
        <5> SUFFICES ASSUME NEW i \in DOMAIN g[m], NEW j \in DOMAIN g[m], g[m][i] = g[m][j]
                     PROVE  i = j
          BY Zenon DEF IsInjective
        <5>4. CASE i \in DOMAIN g[m - 1] /\ j \in DOMAIN g[m - 1]
          <6>1. g[m - 1][i] = g[m - 1][j]
            BY <4>2, <5>4
          <6> QED BY <5>2, <5>4, <6>1, Zenon DEF IsInjective
        <5>5. CASE ~ (i \in DOMAIN g[m - 1] /\ j \in DOMAIN g[m - 1])
          <6>1. \A k \in DOMAIN g[m] :
                  \/ k \in DOMAIN g[m - 1] /\ g[m][k] # list[m]
                  \/ k = Len(g[m - 1]) + 1 /\ g[m][k] = list[m]
            BY <4>2, <5>3
          <6> QED BY <5>5, <6>1
        <5> QED BY <5>4, <5>5
      <4> QED BY <2>3, <3>2, <3>3, <3>5, <4>2, <4>3, <4>4
    <3> QED BY <3>4, <3>5
  <2> QED BY <2>4, <2>5
<1>5. good(Len(list))
  <2> HIDE DEF g, good
  <2>1. Len(list) \in 0 .. Len(list)
    BY <1>3
  <2> QED BY <1>4, <2>1
<1>6. {list[j] : j \in 1 .. Len(list)} = Range(list)
  BY DEF Range
<1> QED
  BY <1>1, <1>5, <1>6

LEMMA SeqRange ==
  ASSUME NEW B, NEW list
  PROVE  list \in Seq(B) <=> list \in Seq(Range(list)) /\ Range(list) \subseteq B
<1>1. ASSUME list \in Seq(B) PROVE list \in Seq(Range(list)) /\ Range(list) \subseteq B
  <2>1. DOMAIN list = 1 .. Len(list) /\ Len(list) \in Nat /\ \A i \in DOMAIN list : list[i] \in B
    BY <1>1
  <2>2. list \in [1 .. Len(list) -> Range(list)]
    BY <1>1, <2>1 DEF Range
  <2>3. list \in Seq(Range(list))
    BY <2>1, <2>2
  <2> QED BY <2>1, <2>3 DEF Range
<1>2. ASSUME list \in Seq(Range(list)), Range(list) \subseteq B PROVE list \in Seq(B)
  BY <1>2
<1> QED
  BY <1>1, <1>2

\* A list with one more at its front.
LEMMA FrontFacts ==
  ASSUME NEW B, NEW list \in Seq(B), NEW x \in B, x \notin Range(list), IsInjective(list)
  PROVE  /\ <<x>> \o list \in Seq(B) /\ IsInjective(<<x>> \o list)
         /\ Range(<<x>> \o list) = Range(list) \cup {x}
<1> DEFINE front == <<x>>
<1>1. front \in Seq(B) /\ Len(front) = 1 /\ front[1] = x /\ Range(front) = {x}
  BY DEF Range
<1> HIDE DEF front
<1>2. /\ front \o list \in Seq(B) /\ Len(front \o list) = 1 + Len(list)
      /\ Range(front \o list) = {x} \cup Range(list)
  BY <1>1, ConcatProperties, RangeConcatenation
<1>3. /\ DOMAIN list = 1 .. Len(list) /\ Len(list) \in Nat /\ DOMAIN (front \o list) = 1 .. 1 + Len(list)
      /\ (front \o list)[1] = x
      /\ \A i \in 2 .. 1 + Len(list) :
           (front \o list)[i] = list[i - 1] /\ i - 1 \in DOMAIN list
  BY <1>1, <1>2, ConcatProperties
<1>4. IsInjective(front \o list)
  <2> SUFFICES ASSUME NEW i \in 1 .. 1 + Len(list), NEW j \in 1 .. 1 + Len(list),
                      (front \o list)[i] = (front \o list)[j]
               PROVE  i = j
    BY <1>3, Zenon DEF IsInjective
  <2>1. \A k \in DOMAIN list : list[k] # x
    BY DEF Range
  <2>2. CASE i = 1
    BY <1>3, <2>1, <2>2
  <2>3. CASE j = 1
    BY <1>3, <2>1, <2>3
  <2>4. CASE i # 1 /\ j # 1
    <3>1. i - 1 = j - 1
      BY <1>3, <2>4 DEF IsInjective
    <3> QED BY <3>1
  <2> QED BY <2>2, <2>3, <2>4
<1> QED
  BY <1>2, <1>4 DEF front

LEMMA TailFacts ==
  ASSUME NEW B, NEW list \in Seq(B), list # <<>>
  PROVE  Head(list) \in Range(list) /\ Head(list) \in B /\ Tail(list) \in Seq(B)
<1>1. Head(list) = list[1] /\ 1 \in DOMAIN list /\ Head(list) \in B /\ Tail(list) \in Seq(B)
  BY HeadTailProperties, EmptySeq
<1> QED
  BY <1>1 DEF Range

-----------------------------------------------------------------------------
(* Chains of selected routes *)

\* f goes on from each of ids to the first that is not one.
IsFollowed(A, ids, next, f) == f = [i \in A |-> IF i \in ids THEN f[next[i]] ELSE i]

\* Each step from one of ids goes down.
Descends(A, ids, next, rank) ==
  /\ rank \in [A -> Nat]
  /\ \A i \in A \cap ids : next[i] \in A /\ rank[next[i]] < rank[i]

LEMMA FollowedExists ==
  ASSUME NEW A, IsFiniteSet(A), NEW ids, NEW next, NEW rank, Descends(A, ids, next, rank)
  PROVE  \E f : IsFollowed(A, ids, next, f)
<1> USE DEF Descends
<1> DEFINE value(f, i) == IF i \in ids THEN f[next[i]] ELSE i
           upto(n, f) == f = [i \in A |-> f[i]] /\ \A i \in A : rank[i] <= n => f[i] = value(f, i)
           without == {n \in Nat : ~ \E f : upto(n, f)}
<1>1. without = {}
  <2>1. SUFFICES ASSUME without # {} PROVE FALSE
    OBVIOUS
  <2>2. PICK m \in without : \A k \in without : m <= k
    <3>1. without \in SUBSET Nat
      OBVIOUS
    <3> HIDE DEF without
    <3> QED BY <2>1, <3>1, LeastNatural
  <2>3. m \in Nat /\ ~ \E f : upto(m, f)
    OBVIOUS
  <2>4. PICK g : \A i \in A : rank[i] < m => g[i] = value(g, i)
    <3>1. CASE m = 0
      <4>1. \A i \in A : ~ (rank[i] < m)
        BY <3>1
      <4> QED BY <4>1
    <3>2. CASE m # 0
      <4>1. m - 1 \in Nat /\ m - 1 \notin without
        <5> HIDE DEF without
        <5> QED BY <2>2, <2>3, <3>2
      <4>2. PICK g : upto(m - 1, g)
        BY <4>1
      <4>3. \A i \in A : rank[i] < m => rank[i] <= m - 1
        BY <2>3
      <4> QED BY <4>2, <4>3
    <3> QED BY <3>1, <3>2
  <2> DEFINE h == [i \in A |-> IF rank[i] = m THEN value(g, i) ELSE g[i]]
  <2>5. ASSUME NEW i \in A, rank[i] <= m PROVE h[i] = value(h, i)
    <3>1. i \in ids => next[i] \in A /\ rank[next[i]] < m /\ h[next[i]] = g[next[i]]
      <4>1. i \in ids => next[i] \in A /\ rank[next[i]] < rank[i]
        OBVIOUS
      <4>2. i \in ids => rank[next[i]] < m
        BY <2>3, <2>5, <4>1
      <4>3. i \in ids => rank[next[i]] # m
        BY <2>3, <4>1, <4>2
      <4> QED BY <4>1, <4>2, <4>3
    <3>2. CASE rank[i] = m
      BY <3>1, <3>2
    <3>3. CASE rank[i] # m
      <4>1. rank[i] < m
        BY <2>3, <2>5, <3>3
      <4> QED BY <2>4, <3>1, <3>3, <4>1
    <3> QED BY <3>2, <3>3
  <2>6. upto(m, h)
    <3>1. h = [i \in A |-> h[i]]
      OBVIOUS
    <3> HIDE DEF h
    <3> QED BY <2>5, <3>1
  <2> QED BY <2>3, <2>6
<1>2. PICK n \in Nat : \A i \in A : rank[i] <= n
  BY FiniteBound
<1>3. PICK f : upto(n, f)
  <2>1. n \notin without
    <3> HIDE DEF without
    <3> QED BY <1>1
  <2> QED BY <2>1
<1>4. \A i \in A : f[i] = value(f, i)
  BY <1>2, <1>3
<1>5. IsFollowed(A, ids, next, f)
  <2>1. f = [i \in A |-> f[i]]
    BY <1>3
  <2>2. [i \in A |-> f[i]] = [i \in A |-> value(f, i)]
    BY <1>4, Zenon
  <2> QED BY <2>1, <2>2, Zenon DEF IsFollowed
<1> QED
  BY <1>5

\* Where one gets to: not to one of ids, and to the start or to what follows one of ids.
LEMMA FollowedFacts ==
  ASSUME NEW A, NEW ids, NEW next, NEW rank, Descends(A, ids, next, rank),
         NEW f, IsFollowed(A, ids, next, f)
  PROVE  \A i \in A :
           /\ f[i] = IF i \in ids THEN f[next[i]] ELSE i
           /\ f[i] \in A \ ids /\ rank[f[i]] <= rank[i]
           /\ f[i] = i \/ \E j \in A \cap ids : f[i] = next[j]
<1> USE DEF Descends
<1> DEFINE good(i) == /\ f[i] \in A \ ids /\ rank[f[i]] <= rank[i]
                      /\ f[i] = i \/ \E j \in A \cap ids : f[i] = next[j]
           ranks == {rank[i] : i \in {j \in A : ~ good(j)}}
<1>1. \A i \in A : f[i] = IF i \in ids THEN f[next[i]] ELSE i
  BY Zenon DEF IsFollowed
<1>2. ranks = {}
  <2>1. SUFFICES ASSUME ranks # {} PROVE FALSE
    OBVIOUS
  <2>2. PICK m \in ranks : \A k \in ranks : m <= k
    <3>1. ranks \in SUBSET Nat
      OBVIOUS
    <3> HIDE DEF ranks
    <3> QED BY <2>1, <3>1, LeastNatural
  <2>3. PICK i \in A : ~ good(i) /\ rank[i] = m
    OBVIOUS
  <2>4. CASE i \notin ids
    <3>1. f[i] = i /\ rank[i] \in Nat
      BY <1>1, <2>4
    <3> QED BY <2>3, <2>4, <3>1
  <2>5. CASE i \in ids
    <3>1. next[i] \in A /\ rank[next[i]] < rank[i] /\ f[i] = f[next[i]]
      BY <1>1, <2>5
    <3>2. good(next[i])
      <4>1. rank[next[i]] \notin ranks
        <5>1. rank[next[i]] \in Nat /\ m \in Nat
          BY <2>3, <3>1
        <5> HIDE DEF ranks
        <5> QED BY <2>2, <2>3, <3>1, <5>1
      <4> QED BY <3>1, <4>1
    <3>3. rank[f[i]] <= rank[i]
      <4>1. f[i] \in A /\ rank[f[i]] <= rank[next[i]]
        BY <3>1, <3>2
      <4>2. rank[f[i]] \in Nat /\ rank[next[i]] \in Nat /\ rank[i] \in Nat
        BY <3>1, <4>1
      <4> QED BY <3>1, <4>1, <4>2
    <3>4. good(i)
      BY <2>5, <3>1, <3>2, <3>3
    <3> QED BY <2>3, <3>4
  <2> QED BY <2>4, <2>5
<1>3. \A i \in A : good(i)
  BY <1>2
<1> QED
  BY <1>1, <1>3

\* The functions that Delete is made of.
Elder(rs, ids) ==
  CHOOSE f : f = [i \in DOMAIN rs \cup {None} |-> IF i \in ids THEN f[rs[i].selFather] ELSE i]

Younger(rs, ids) ==
  CHOOSE f : f = [i \in DOMAIN rs \cup {None} |-> IF i \in ids THEN f[rs[i].selChild] ELSE i]

Left(rs, ids, i) ==
  [rs[i] EXCEPT
     !.father = IF rs[i].father \in ids THEN None ELSE rs[i].father,
     !.selFather = Elder(rs, ids)[rs[i].selFather],
     !.spursComputed = rs[i].spursComputed
                         /\ (rs[i].selChild \in ids => Younger(rs, ids)[rs[i].selChild] # None),
     !.selChild = Younger(rs, ids)[rs[i].selChild]]

LEMMA DeleteIs ==
  ASSUME NEW rs, NEW ids
  PROVE  Delete(rs, ids) = [i \in DOMAIN rs \ ids |-> Left(rs, ids, i)]
BY Zenon DEF Delete, Left, Elder, Younger

LEMMA RelativesIn ==
  ASSUME NEW rs, NEW S, RoutesTyped(rs), Related(rs, S), NEW i \in DOMAIN rs
  PROVE  /\ rs[i] \in RouteType /\ i # None /\ None \notin DOMAIN rs
         /\ rs[i].father \in DOMAIN rs \cup {None}
         /\ rs[i].selFather \in DOMAIN rs \cup {None}
         /\ rs[i].selChild \in DOMAIN rs \cup {None}
BY DEF RoutesTyped, Related, RouteType, Address

\* From a route to the nearest ancestor that is left.
LEMMA ElderFacts ==
  ASSUME NEW rs, NEW S, RoutesTyped(rs), Related(rs, S), IsFiniteSet(DOMAIN rs),
         NEW rank, Ranks(rs, rank), NEW ids \in SUBSET DOMAIN rs
  PROVE  \A i \in DOMAIN rs \cup {None} :
           LET e == Elder(rs, ids)[i] IN
           /\ e = IF i \in ids THEN Elder(rs, ids)[rs[i].selFather] ELSE i
           /\ e \in (DOMAIN rs \ ids) \cup {None}
           /\ e # None => i # None /\ rank[e] <= rank[i] /\ (i \in S => e \in S)
<1> DEFINE A == DOMAIN rs \cup {None}
           next == [i \in ids |-> rs[i].selFather]
           height == [i \in A |-> IF i = None THEN 0 ELSE rank[i] + 1]
<1>1. height \in [A -> Nat]
  BY DEF Ranks
<1>2. IsFiniteSet(A)
  BY FS_AddElement
<1>3. \A i \in ids : next[i] \in A /\ height[next[i]] < height[i]
  <2> SUFFICES ASSUME NEW i \in ids PROVE next[i] \in A /\ height[next[i]] < height[i]
    OBVIOUS
  <2>1. next[i] = rs[i].selFather /\ next[i] \in A /\ i # None /\ i \in A
    BY RelativesIn
  <2>2. rank[i] \in Nat /\ height[i] = rank[i] + 1
    BY <2>1 DEF Ranks
  <2>3. CASE next[i] = None
    BY <2>1, <2>2, <2>3
  <2>4. CASE next[i] # None
    <3>1. rank[next[i]] < rank[i] /\ rank[next[i]] \in Nat
      BY <2>1, <2>4 DEF Ranks
    <3>2. height[next[i]] = rank[next[i]] + 1
      BY <2>1, <2>4
    <3> QED BY <2>1, <2>2, <3>1, <3>2
  <2> QED BY <2>3, <2>4
<1>4. Descends(A, ids, next, height)
  BY <1>1, <1>3 DEF Descends
<1> HIDE DEF height
<1>5. PICK g : IsFollowed(A, ids, next, g)
  BY <1>2, <1>4, FollowedExists
<1>6. \A f : IsFollowed(A, ids, next, f) <=>
             f = [i \in A |-> IF i \in ids THEN f[rs[i].selFather] ELSE i]
  <2> SUFFICES ASSUME NEW f
               PROVE  [i \in A |-> IF i \in ids THEN f[next[i]] ELSE i]
                        = [i \in A |-> IF i \in ids THEN f[rs[i].selFather] ELSE i]
    BY Zenon DEF IsFollowed
  <2> QED OBVIOUS
<1>7. IsFollowed(A, ids, next, Elder(rs, ids))
  <2>1. \E f : f = [i \in A |-> IF i \in ids THEN f[rs[i].selFather] ELSE i]
    BY <1>5, <1>6, Zenon
  <2>2. Elder(rs, ids) = [i \in A |-> IF i \in ids THEN Elder(rs, ids)[rs[i].selFather] ELSE i]
    BY <2>1, Zenon DEF Elder
  <2> QED BY <1>6, <2>2, Zenon
<1> DEFINE e == Elder(rs, ids)
<1> HIDE DEF e
<1>8. \A i \in A :
        /\ e[i] = IF i \in ids THEN e[next[i]] ELSE i
        /\ e[i] \in A \ ids /\ height[e[i]] <= height[i]
        /\ e[i] = i \/ \E j \in A \cap ids : e[i] = next[j]
  <2>1. IsFollowed(A, ids, next, e)
    BY <1>7 DEF e
  <2> HIDE DEF A, next
  <2> QED BY <1>4, <2>1, FollowedFacts
<1> SUFFICES ASSUME NEW i \in A
             PROVE  /\ e[i] = IF i \in ids THEN e[rs[i].selFather] ELSE i
                    /\ e[i] \in (DOMAIN rs \ ids) \cup {None}
                    /\ e[i] # None => i # None /\ rank[e[i]] <= rank[i] /\ (i \in S => e[i] \in S)
  BY DEF e
<1>9. e[i] = IF i \in ids THEN e[rs[i].selFather] ELSE i
  BY <1>8
<1>10. e[i] \in (DOMAIN rs \ ids) \cup {None}
  BY <1>8
<1>11. ASSUME e[i] # None PROVE i # None /\ rank[e[i]] <= rank[i] /\ (i \in S => e[i] \in S)
  <2>1. i # None
    <3>1. None \notin ids
      BY DEF RoutesTyped, Address
    <3> QED BY <1>9, <1>11, <3>1
  <2>2. rank[e[i]] <= rank[i]
    <3>1. e[i] \in A /\ height[e[i]] = rank[e[i]] + 1 /\ height[i] = rank[i] + 1
      BY <1>10, <1>11, <2>1 DEF height
    <3>2. rank[e[i]] \in Nat /\ rank[i] \in Nat
      BY <1>10, <1>11, <2>1 DEF Ranks
    <3> QED BY <1>8, <3>1, <3>2
  <2>3. i \in S => e[i] \in S
    <3>1. CASE e[i] = i
      BY <3>1
    <3>2. CASE e[i] # i
      <4>1. PICK j \in A \cap ids : e[i] = next[j]
        BY <1>8, <3>2
      <4> QED BY <1>11, <4>1 DEF Related
    <3> QED BY <3>1, <3>2
  <2> QED BY <2>1, <2>2, <2>3
<1> QED
  BY <1>9, <1>10, <1>11

\* From a route to the nearest descendant that is left.
LEMMA YoungerFacts ==
  ASSUME NEW rs, NEW S, RoutesTyped(rs), Related(rs, S), IsFiniteSet(DOMAIN rs),
         NEW rank, Ranks(rs, rank), NEW ids \in SUBSET DOMAIN rs
  PROVE  \A i \in DOMAIN rs \cup {None} :
           LET y == Younger(rs, ids)[i] IN
           /\ y = IF i \in ids THEN Younger(rs, ids)[rs[i].selChild] ELSE i
           /\ y \in (DOMAIN rs \ ids) \cup {None}
           /\ y # None => i # None /\ rank[i] <= rank[y]
<1> DEFINE A == DOMAIN rs \cup {None}
           next == [i \in ids |-> rs[i].selChild]
<1>1. PICK n \in Nat : \A i \in DOMAIN rs : rank[i] <= n
  <2>1. rank \in [DOMAIN rs -> Nat]
    BY DEF Ranks
  <2> QED BY <2>1, FiniteBound
<1> DEFINE depth == [i \in A |-> IF i = None THEN 0 ELSE n + 1 - rank[i]]
<1>2. IsFiniteSet(A)
  BY FS_AddElement
<1>3. \A i \in DOMAIN rs : i # None /\ rank[i] \in Nat /\ depth[i] = n + 1 - rank[i] /\ depth[i] \in Nat \ {0}
  <2> SUFFICES ASSUME NEW i \in DOMAIN rs
               PROVE  i # None /\ rank[i] \in Nat /\ depth[i] = n + 1 - rank[i] /\ depth[i] \in Nat \ {0}
    OBVIOUS
  <2>1. i # None /\ rank[i] \in Nat /\ rank[i] <= n
    BY <1>1, RelativesIn DEF Ranks
  <2> QED BY <2>1
<1>4. Descends(A, ids, next, depth)
  <2>1. depth \in [A -> Nat]
    <3>1. \A i \in A : depth[i] \in Nat
      BY <1>3
    <3> QED BY <3>1
  <2>2. ASSUME NEW i \in A \cap ids PROVE next[i] \in A /\ depth[next[i]] < depth[i]
    <3>1. next[i] = rs[i].selChild /\ next[i] \in A /\ i \in DOMAIN rs
      BY RelativesIn
    <3>2. CASE next[i] = None
      <4>1. depth[next[i]] = 0 /\ depth[i] \in Nat \ {0}
        BY <1>3, <3>1, <3>2
      <4> QED BY <3>1, <4>1
    <3>3. CASE next[i] # None
      <4>1. next[i] \in DOMAIN rs /\ rs[next[i]].selFather = i /\ i # None
        BY <1>3, <3>1, <3>3 DEF Related
      <4>2. rank[i] < rank[next[i]]
        BY <4>1 DEF Ranks
      <4>3. /\ depth[next[i]] = n + 1 - rank[next[i]] /\ depth[i] = n + 1 - rank[i]
            /\ rank[i] \in Nat /\ rank[next[i]] \in Nat
        BY <1>3, <3>1, <4>1
      <4> QED BY <3>1, <4>2, <4>3
    <3> QED BY <3>2, <3>3
  <2> HIDE DEF depth, A, next
  <2> QED BY <2>1, <2>2 DEF Descends
<1> HIDE DEF depth
<1>5. PICK g : IsFollowed(A, ids, next, g)
  BY <1>2, <1>4, FollowedExists
<1>6. \A f : IsFollowed(A, ids, next, f) <=>
             f = [i \in A |-> IF i \in ids THEN f[rs[i].selChild] ELSE i]
  <2> SUFFICES ASSUME NEW f
               PROVE  [i \in A |-> IF i \in ids THEN f[next[i]] ELSE i]
                        = [i \in A |-> IF i \in ids THEN f[rs[i].selChild] ELSE i]
    BY Zenon DEF IsFollowed
  <2> QED OBVIOUS
<1> DEFINE y == Younger(rs, ids)
<1>7. IsFollowed(A, ids, next, y)
  <2>1. \E f : f = [i \in A |-> IF i \in ids THEN f[rs[i].selChild] ELSE i]
    BY <1>5, <1>6, Zenon
  <2>2. Younger(rs, ids) = [i \in A |-> IF i \in ids THEN Younger(rs, ids)[rs[i].selChild] ELSE i]
    BY <2>1, Zenon DEF Younger
  <2> QED BY <1>6, <2>2, Zenon
<1> HIDE DEF y
<1>8. \A i \in A :
        /\ y[i] = IF i \in ids THEN y[next[i]] ELSE i
        /\ y[i] \in A \ ids /\ depth[y[i]] <= depth[i]
        /\ y[i] = i \/ \E j \in A \cap ids : y[i] = next[j]
  <2> HIDE DEF A, next
  <2> QED BY <1>4, <1>7, FollowedFacts
<1> SUFFICES ASSUME NEW i \in A
             PROVE  /\ y[i] = IF i \in ids THEN y[rs[i].selChild] ELSE i
                    /\ y[i] \in (DOMAIN rs \ ids) \cup {None}
                    /\ y[i] # None => i # None /\ rank[i] <= rank[y[i]]
  BY DEF y
<1>9. y[i] = IF i \in ids THEN y[rs[i].selChild] ELSE i
  BY <1>8
<1>10. y[i] \in (DOMAIN rs \ ids) \cup {None}
  BY <1>8
<1>11. ASSUME y[i] # None PROVE i # None /\ rank[i] <= rank[y[i]]
  <2>1. i # None
    <3>1. None \notin ids
      BY DEF RoutesTyped, Address
    <3> QED BY <1>9, <1>11, <3>1
  <2>2. /\ depth[y[i]] = n + 1 - rank[y[i]] /\ depth[i] = n + 1 - rank[i]
        /\ rank[y[i]] \in Nat /\ rank[i] \in Nat
    BY <1>3, <1>10, <1>11, <2>1
  <2>3. depth[y[i]] <= depth[i]
    BY <1>8
  <2> QED BY <2>1, <2>2, <2>3
<1> QED
  BY <1>9, <1>10, <1>11

\* The nearest ancestor left and the nearest descendant left become father and child.
LEMMA ElderMeetsYounger ==
  ASSUME NEW rs, NEW S, RoutesTyped(rs), Related(rs, S), IsFiniteSet(DOMAIN rs), Acyclic(rs),
         NEW ids \in SUBSET DOMAIN rs, NEW x \in DOMAIN rs
  PROVE  LET e == Elder(rs, ids)
             y == Younger(rs, ids)
         IN  /\ e[rs[x].selFather] # None => y[rs[e[rs[x].selFather]].selChild] = y[x]
             /\ y[rs[x].selChild] # None => e[rs[y[rs[x].selChild]].selFather] = e[x]
<1> DEFINE e == Elder(rs, ids)
           y == Younger(rs, ids)
           D == DOMAIN rs
<1>1. PICK rank : Ranks(rs, rank)
  BY DEF Acyclic
<1>2. \A i \in D \cup {None} :
        /\ e[i] = IF i \in ids THEN e[rs[i].selFather] ELSE i
        /\ e[i] \in (D \ ids) \cup {None}
        /\ e[i] # None => i # None
  BY <1>1, ElderFacts
<1>3. \A i \in D \cup {None} :
        /\ y[i] = IF i \in ids THEN y[rs[i].selChild] ELSE i
        /\ y[i] \in (D \ ids) \cup {None}
        /\ y[i] # None => i # None
  BY <1>1, YoungerFacts
<1>4. \A i \in D : /\ i # None
                   /\ rs[i].selFather \in D \cup {None} /\ rs[i].selChild \in D \cup {None}
  BY RelativesIn
<1>5. \A i \in D : rank[i] \in Nat
  BY <1>1 DEF Ranks
<1>6. \A i \in D : rs[i].selFather # None =>
        rs[rs[i].selFather].selChild = i /\ rank[rs[i].selFather] < rank[i]
  BY <1>1 DEF Related, Ranks
<1>7. \A i \in D : rs[i].selChild # None => rs[rs[i].selChild].selFather = i
  BY DEF Related
<1> HIDE DEF e, y, D
<1>8. ASSUME NEW i \in D, e[rs[i].selFather] # None
      PROVE  y[rs[e[rs[i].selFather]].selChild] = y[i]
  <2> DEFINE good(j) == e[rs[j].selFather] # None => y[rs[e[rs[j].selFather]].selChild] = y[j]
             ranks == {rank[j] : j \in {k \in D : ~ good(k)}}
  <2>1. SUFFICES ASSUME ranks # {} PROVE FALSE
    BY <1>8
  <2>2. PICK m \in ranks : \A k \in ranks : m <= k
    <3>1. ranks \in SUBSET Nat
      BY <1>5
    <3> HIDE DEF ranks
    <3> QED BY <2>1, <3>1, LeastNatural
  <2>3. PICK j \in D : ~ good(j) /\ rank[j] = m
    OBVIOUS
  <2>4. PICK f \in D : f = rs[j].selFather /\ rs[f].selChild = j /\ rank[f] < rank[j] /\ e[f] # None
    BY <1>2, <1>4, <1>6, <2>3
  <2>5. CASE f \notin ids
    BY <1>2, <2>3, <2>4, <2>5
  <2>6. CASE f \in ids
    <3>1. e[f] = e[rs[f].selFather] /\ y[f] = y[j]
      BY <1>2, <1>3, <2>4, <2>6
    <3>2. good(f)
      <4>1. rank[f] \notin ranks
        <5>1. rank[f] \in Nat /\ rank[j] \in Nat
          BY <1>5
        <5> HIDE DEF ranks
        <5> QED BY <2>2, <2>3, <2>4, <5>1
      <4> QED BY <4>1
    <3> QED BY <2>3, <2>4, <3>1, <3>2
  <2> QED BY <2>5, <2>6
<1>9. PICK n \in Nat : \A i \in D : rank[i] <= n
  <2>1. rank \in [DOMAIN rs -> Nat]
    BY <1>1 DEF Ranks
  <2> QED BY <2>1, FiniteBound DEF D
<1>10. ASSUME NEW i \in D, y[rs[i].selChild] # None
       PROVE  e[rs[y[rs[i].selChild]].selFather] = e[i]
  <2> DEFINE good(j) == y[rs[j].selChild] # None => e[rs[y[rs[j].selChild]].selFather] = e[j]
             depths == {n - rank[j] : j \in {k \in D : ~ good(k)}}
  <2>1. SUFFICES ASSUME depths # {} PROVE FALSE
    BY <1>10
  <2>2. PICK m \in depths : \A k \in depths : m <= k
    <3>1. depths \in SUBSET Nat
      BY <1>5, <1>9
    <3> HIDE DEF depths
    <3> QED BY <2>1, <3>1, LeastNatural
  <2>3. PICK j \in D : ~ good(j) /\ n - rank[j] = m
    OBVIOUS
  <2>4. PICK c \in D : c = rs[j].selChild /\ rs[c].selFather = j /\ y[c] # None
    BY <1>3, <1>4, <1>7, <2>3
  <2>5. rank[j] < rank[c]
    BY <1>4, <1>6, <2>4
  <2>6. CASE c \notin ids
    BY <1>3, <2>3, <2>4, <2>6
  <2>7. CASE c \in ids
    <3>1. y[c] = y[rs[c].selChild] /\ e[c] = e[j]
      BY <1>2, <1>3, <2>4, <2>7
    <3>2. good(c)
      <4>1. n - rank[c] \notin depths
        <5>1. rank[c] \in Nat /\ rank[j] \in Nat
          BY <1>5
        <5> HIDE DEF depths
        <5> QED BY <2>2, <2>3, <2>5, <5>1
      <4> QED BY <4>1
    <3> QED BY <2>3, <2>4, <3>1, <3>2
  <2> QED BY <2>6, <2>7
<1> QED
  BY <1>8, <1>10 DEF e, y, D

\* Delete leaves sound routes, which no longer know those that are gone.
LEMMA DeleteSound ==
  ASSUME NEW rs, NEW S, RoutesSound(rs, S), NEW ids \in SUBSET DOMAIN rs
  PROVE  /\ RoutesSound(Delete(rs, ids), S \ ids)
         /\ DOMAIN Delete(rs, ids) = DOMAIN rs \ ids
         /\ \A i \in DOMAIN rs \ ids : rs[i].selChild = None => Delete(rs, ids)[i].selChild = None
<1> DEFINE e == Elder(rs, ids)
           y == Younger(rs, ids)
           left == Delete(rs, ids)
           D == DOMAIN rs \ ids
<1>1. /\ IsFiniteSet(DOMAIN rs) /\ RoutesTyped(rs) /\ Related(rs, S) /\ Acyclic(rs)
  BY DEF RoutesSound
<1>2. PICK rank : Ranks(rs, rank)
  BY <1>1 DEF Acyclic
<1>3. \A i \in DOMAIN rs \cup {None} :
        /\ e[i] = IF i \in ids THEN e[rs[i].selFather] ELSE i
        /\ e[i] \in D \cup {None}
        /\ e[i] # None => i # None /\ rank[e[i]] <= rank[i] /\ (i \in S => e[i] \in S)
  BY <1>1, <1>2, ElderFacts
<1>4. \A i \in DOMAIN rs \cup {None} :
        /\ y[i] = IF i \in ids THEN y[rs[i].selChild] ELSE i
        /\ y[i] \in D \cup {None}
        /\ y[i] # None => i # None
  BY <1>1, <1>2, YoungerFacts
<1>5. \A i \in DOMAIN rs :
        /\ rs[i] \in RouteType /\ i # None /\ None \notin DOMAIN rs
        /\ rs[i].father \in DOMAIN rs \cup {None}
        /\ rs[i].selFather \in DOMAIN rs \cup {None}
        /\ rs[i].selChild \in DOMAIN rs \cup {None}
  BY <1>1, RelativesIn
<1>6. \A i \in DOMAIN rs :
        /\ e[rs[i].selFather] # None => y[rs[e[rs[i].selFather]].selChild] = y[i]
        /\ y[rs[i].selChild] # None => e[rs[y[rs[i].selChild]].selFather] = e[i]
  BY <1>1, ElderMeetsYounger
<1>7. DOMAIN left = D /\ \A i \in D : left[i] = Left(rs, ids, i)
  BY DeleteIs
<1> HIDE DEF e, y, left
<1>8. \A i \in D :
        /\ left[i] \in RouteType /\ left[i].hops = rs[i].hops
        /\ left[i].father = IF rs[i].father \in ids THEN None ELSE rs[i].father
        /\ left[i].selFather = e[rs[i].selFather]
        /\ left[i].spursComputed = (rs[i].spursComputed
                                      /\ (rs[i].selChild \in ids => y[rs[i].selChild] # None))
        /\ left[i].selChild = y[rs[i].selChild]
  <2> SUFFICES ASSUME NEW i \in D
               PROVE  /\ left[i] \in RouteType /\ left[i].hops = rs[i].hops
                      /\ left[i].father = IF rs[i].father \in ids THEN None ELSE rs[i].father
                      /\ left[i].selFather = e[rs[i].selFather]
                      /\ left[i].spursComputed = (rs[i].spursComputed
                                                    /\ (rs[i].selChild \in ids => y[rs[i].selChild] # None))
                      /\ left[i].selChild = y[rs[i].selChild]
    OBVIOUS
  <2> DEFINE f == e[rs[i].selFather]
             c == y[rs[i].selChild]
             computed == rs[i].spursComputed /\ (rs[i].selChild \in ids => c # None)
             father == IF rs[i].father \in ids THEN None ELSE rs[i].father
  <2>1. left[i] = [rs[i] EXCEPT !.father = father, !.selFather = f,
                                !.spursComputed = computed, !.selChild = c]
    BY <1>7, Zenon DEF Left, e, y
  <2>2. rs[i] \in RouteType /\ f \in Nat /\ c \in Nat
    BY <1>1, <1>3, <1>4, <1>5 DEF RoutesTyped, Address, None
  <2>3. father \in Nat
    BY <2>2 DEF RouteType, None
  <2>4. computed \in BOOLEAN
    OBVIOUS
  <2> HIDE DEF f, c, computed, father
  <2>5. /\ left[i] \in RouteType /\ left[i].hops = rs[i].hops
        /\ left[i].father = father /\ left[i].selFather = f
        /\ left[i].spursComputed = computed /\ left[i].selChild = c
    BY <2>1, <2>2, <2>3, <2>4 DEF RouteType
  <2> QED BY <2>5 DEF f, c, computed, father
<1>9. IsFiniteSet(D)
  BY <1>1, FS_Subset
<1>10. RoutesTyped(left)
  BY <1>1, <1>7, <1>8 DEF RoutesTyped
<1>11. Related(left, S \ ids)
  <2> SUFFICES ASSUME NEW i \in D
               PROVE  /\ left[i].father # None => left[i].father \in D
                      /\ left[i].selFather # None =>
                           /\ left[i].selFather \in D \cap (S \ ids) /\ i \in S \ ids
                           /\ left[left[i].selFather].selChild = i
                      /\ left[i].selChild # None =>
                           left[i].selChild \in D /\ left[left[i].selChild].selFather = i
                      /\ left[i].selChild # None => left[i].spursComputed
    BY <1>7 DEF Related
  <2>1. left[i].father # None => left[i].father \in D
    BY <1>5, <1>8
  <2>2. ASSUME left[i].selFather # None
        PROVE  /\ left[i].selFather \in D \cap (S \ ids) /\ i \in S \ ids
               /\ left[left[i].selFather].selChild = i
    <3> DEFINE f == rs[i].selFather
    <3>1. left[i].selFather = e[f] /\ e[f] # None /\ f # None /\ e[f] \in D /\ (f \in S => e[f] \in S)
      BY <1>3, <1>5, <1>8, <2>2
    <3>2. f \in S /\ i \in S
      BY <1>1, <3>1 DEF Related
    <3>3. left[e[f]].selChild = y[i] /\ y[i] = i
      BY <1>4, <1>6, <1>8, <3>1
    <3> QED BY <3>1, <3>2, <3>3
  <2>3. ASSUME left[i].selChild # None
        PROVE  left[i].selChild \in D /\ left[left[i].selChild].selFather = i
    <3>1. left[i].selChild = y[rs[i].selChild] /\ left[i].selChild \in D
      BY <1>4, <1>5, <1>8, <2>3
    <3>2. left[left[i].selChild].selFather = e[i] /\ e[i] = i
      BY <1>3, <1>6, <1>8, <2>3, <3>1
    <3> QED BY <3>1, <3>2
  <2>4. ASSUME left[i].selChild # None PROVE left[i].spursComputed
    <3>1. y[rs[i].selChild] # None /\ rs[i].selChild # None
      BY <1>4, <1>5, <1>8, <2>4
    <3>2. rs[i].spursComputed
      BY <1>1, <3>1 DEF Related
    <3> QED BY <1>8, <3>1, <3>2
  <2> QED BY <2>1, <2>2, <2>3, <2>4
<1>12. Acyclic(left)
  <2> DEFINE r == [i \in D |-> rank[i]]
  <2>1. r \in [D -> Nat]
    BY <1>2 DEF Ranks
  <2>2. ASSUME NEW i \in D, left[i].selFather # None PROVE r[left[i].selFather] < r[i]
    <3> DEFINE f == rs[i].selFather
    <3>1. left[i].selFather = e[f] /\ e[f] \in D /\ f # None /\ f \in DOMAIN rs /\ rank[e[f]] <= rank[f]
      BY <1>3, <1>5, <1>8, <2>2
    <3>2. rank[f] < rank[i] /\ rank[f] \in Nat /\ rank[i] \in Nat /\ rank[e[f]] \in Nat
      BY <1>2, <3>1 DEF Ranks
    <3> QED BY <3>1, <3>2
  <2> HIDE DEF r
  <2>3. Ranks(left, r)
    BY <1>7, <2>1, <2>2 DEF Ranks
  <2> QED BY <2>3 DEF Acyclic
<1>13. \A i \in D : rs[i].selChild = None => left[i].selChild = None
  BY <1>4, <1>8
<1> QED
  BY <1>7, <1>9, <1>10, <1>11, <1>12, <1>13 DEF RoutesSound, left

-----------------------------------------------------------------------------
(* What else is done to the routes *)

\* Another route, which has no selected relatives, may join; so may more routes be selected.
LEMMA AddSound ==
  ASSUME NEW rs, NEW S, RoutesSound(rs, S), NEW T, S \subseteq T,
         NEW id \in Address \ DOMAIN rs, NEW r \in RouteType,
         \A i \in DOMAIN r.hops : r.hops[i].owlt # NoRange,
         r.father \in DOMAIN rs \cup {None}, r.selFather = None, r.selChild = None
  PROVE  RoutesSound(Added(rs, id, r), T) /\ DOMAIN Added(rs, id, r) = DOMAIN rs \cup {id}
<1> DEFINE more == Added(rs, id, r)
           D == DOMAIN rs
<1>1. DOMAIN more = D \cup {id} /\ more[id] = r /\ \A i \in D : more[i] = rs[i] /\ i # id
  BY DEF Added
<1>2. IsFiniteSet(D) /\ RoutesTyped(rs) /\ Related(rs, S) /\ Acyclic(rs)
  BY DEF RoutesSound
<1> HIDE DEF more
<1>3. IsFiniteSet(DOMAIN more)
  BY <1>1, <1>2, FS_AddElement
<1>4. RoutesTyped(more)
  BY <1>1, <1>2 DEF RoutesTyped
<1>5. Related(more, T)
  <2> SUFFICES ASSUME NEW i \in D \cup {id}
               PROVE  /\ more[i].father # None => more[i].father \in D \cup {id}
                      /\ more[i].selFather # None =>
                           /\ more[i].selFather \in (D \cup {id}) \cap T /\ i \in T
                           /\ more[more[i].selFather].selChild = i
                      /\ more[i].selChild # None =>
                           more[i].selChild \in D \cup {id} /\ more[more[i].selChild].selFather = i
                      /\ more[i].selChild # None => more[i].spursComputed
    BY <1>1 DEF Related
  <2>1. CASE i = id
    BY <1>1, <2>1
  <2>2. CASE i \in D
    BY <1>1, <1>2, <2>2 DEF Related
  <2> QED BY <2>1, <2>2
<1>6. Acyclic(more)
  <2>1. PICK rank : Ranks(rs, rank)
    BY <1>2 DEF Acyclic
  <2> DEFINE h == [i \in D \cup {id} |-> IF i = id THEN 0 ELSE rank[i]]
  <2>2. h \in [D \cup {id} -> Nat]
    BY <2>1 DEF Ranks
  <2>3. ASSUME NEW i \in D \cup {id}, more[i].selFather # None PROVE h[more[i].selFather] < h[i]
    <3>1. i \in D /\ i # id /\ more[i].selFather = rs[i].selFather /\ rs[i].selFather \in D
      BY <1>1, <1>2, <2>3 DEF Related
    <3>2. rs[i].selFather # id
      BY <3>1
    <3>3. rank[rs[i].selFather] < rank[i]
      BY <2>1, <2>3, <3>1 DEF Ranks
    <3> QED BY <3>1, <3>2, <3>3
  <2> HIDE DEF h
  <2>4. Ranks(more, h)
    BY <1>1, <2>2, <2>3 DEF Ranks
  <2> QED BY <2>4 DEF Acyclic
<1> QED
  BY <1>1, <1>3, <1>4, <1>5, <1>6 DEF RoutesSound, more

\* Arrival times, and which routes were sorted, have no part in it.
LEMMA AgreeSound ==
  ASSUME NEW rs, NEW S, RoutesSound(rs, S), NEW qs, DOMAIN qs = DOMAIN rs,
         \A i \in DOMAIN rs :
           /\ qs[i] \in RouteType /\ qs[i].hops = rs[i].hops /\ qs[i].father = rs[i].father
           /\ qs[i].selFather = rs[i].selFather /\ qs[i].selChild = rs[i].selChild
           /\ qs[i].spursComputed = rs[i].spursComputed
  PROVE  RoutesSound(qs, S)
<1>1. IsFiniteSet(DOMAIN rs) /\ RoutesTyped(rs) /\ Related(rs, S) /\ Acyclic(rs)
  BY DEF RoutesSound
<1>2. RoutesTyped(qs)
  BY <1>1 DEF RoutesTyped
<1>3. Related(qs, S)
  BY <1>1 DEF Related
<1>4. Acyclic(qs)
  <2>1. PICK rank : Ranks(rs, rank)
    BY <1>1 DEF Acyclic
  <2>2. Ranks(qs, rank)
    BY <2>1 DEF Ranks
  <2> QED BY <2>2 DEF Acyclic
<1> QED
  BY <1>1, <1>2, <1>3, <1>4 DEF RoutesSound

\* The end of compute_another_route.
Taken(rs, from, best) ==
  [id \in DOMAIN rs |->
     [rs[id] EXCEPT
        !.spursComputed = rs[id].spursComputed \/ id = from,
        !.selChild = IF best # None /\ id = from THEN best ELSE rs[id].selChild,
        !.selFather = IF best # None /\ id = best THEN from ELSE rs[id].selFather]]

LEMMA TakenSound ==
  ASSUME NEW rs, NEW S, RoutesSound(rs, S), NEW from \in DOMAIN rs \cap S, rs[from].selChild = None,
         NEW best, best = None \/ best \in DOMAIN rs \ S
  PROVE  RoutesSound(Taken(rs, from, best), IF best = None THEN S ELSE S \cup {best})
<1> DEFINE qs == Taken(rs, from, best)
           D == DOMAIN rs
           T == IF best = None THEN S ELSE S \cup {best}
<1>1. IsFiniteSet(D) /\ RoutesTyped(rs) /\ Related(rs, S) /\ Acyclic(rs)
  BY DEF RoutesSound
<1>2. \A i \in D :
        /\ rs[i] \in RouteType /\ i # None /\ i \in Nat /\ None \notin D
        /\ rs[i].father \in D \cup {None}
        /\ rs[i].selFather \in D \cup {None}
        /\ rs[i].selChild \in D \cup {None}
  BY <1>1, RelativesIn DEF RoutesTyped, Address
<1>3. DOMAIN qs = D /\ \A i \in D :
        /\ qs[i] \in RouteType /\ qs[i].hops = rs[i].hops /\ qs[i].father = rs[i].father
        /\ qs[i].spursComputed = (rs[i].spursComputed \/ i = from)
        /\ qs[i].selChild = IF best # None /\ i = from THEN best ELSE rs[i].selChild
        /\ qs[i].selFather = IF best # None /\ i = best THEN from ELSE rs[i].selFather
  <2>1. DOMAIN qs = D
    BY DEF Taken
  <2>2. ASSUME NEW i \in D
        PROVE  /\ qs[i] \in RouteType /\ qs[i].hops = rs[i].hops /\ qs[i].father = rs[i].father
               /\ qs[i].spursComputed = (rs[i].spursComputed \/ i = from)
               /\ qs[i].selChild = IF best # None /\ i = from THEN best ELSE rs[i].selChild
               /\ qs[i].selFather = IF best # None /\ i = best THEN from ELSE rs[i].selFather
    <3> DEFINE computed == rs[i].spursComputed \/ i = from
               child == IF best # None /\ i = from THEN best ELSE rs[i].selChild
               father == IF best # None /\ i = best THEN from ELSE rs[i].selFather
    <3>1. qs[i] = [rs[i] EXCEPT !.spursComputed = computed, !.selChild = child, !.selFather = father]
      BY Zenon DEF Taken
    <3>2. rs[i] \in RouteType /\ computed \in BOOLEAN
      BY <1>2
    <3>3. child \in Nat /\ father \in Nat
      BY <1>2, <3>2 DEF RouteType
    <3> HIDE DEF qs, computed, child, father
    <3>4. /\ qs[i] \in RouteType /\ qs[i].hops = rs[i].hops /\ qs[i].father = rs[i].father
          /\ qs[i].spursComputed = computed /\ qs[i].selChild = child /\ qs[i].selFather = father
      BY <3>1, <3>2, <3>3 DEF RouteType
    <3> QED BY <3>4 DEF computed, child, father
  <2> QED BY <2>1, <2>2
<1> HIDE DEF qs
<1>4. best # None => best \in D /\ best \notin S /\ best # from
                       /\ rs[best].selFather = None /\ rs[best].selChild = None
  BY <1>1 DEF Related
<1>5. RoutesTyped(qs)
  BY <1>1, <1>3 DEF RoutesTyped
<1>6. Related(qs, T)
  <2> SUFFICES ASSUME NEW i \in D
               PROVE  /\ qs[i].father # None => qs[i].father \in D
                      /\ qs[i].selFather # None =>
                           /\ qs[i].selFather \in D \cap T /\ i \in T
                           /\ qs[qs[i].selFather].selChild = i
                      /\ qs[i].selChild # None =>
                           qs[i].selChild \in D /\ qs[qs[i].selChild].selFather = i
                      /\ qs[i].selChild # None => qs[i].spursComputed
    BY <1>3 DEF Related
  <2>1. /\ rs[i].father # None => rs[i].father \in D
        /\ rs[i].selFather # None =>
             rs[i].selFather \in D \cap S /\ i \in S /\ rs[rs[i].selFather].selChild = i
        /\ rs[i].selChild # None =>
             rs[i].selChild \in D /\ rs[rs[i].selChild].selFather = i
        /\ rs[i].selChild # None => rs[i].spursComputed
    BY <1>1 DEF Related
  <2>2. S \subseteq T /\ (best # None => best \in T)
    OBVIOUS
  <2> HIDE DEF D, T
  <2>3. qs[i].father # None => qs[i].father \in D
    BY <1>3, <2>1
  <2>4. ASSUME qs[i].selFather # None
        PROVE  /\ qs[i].selFather \in D \cap T /\ i \in T
               /\ qs[qs[i].selFather].selChild = i
    <3>1. CASE best # None /\ i = best
      BY <1>2, <1>3, <1>4, <2>2, <2>4, <3>1 DEF D
    <3>2. CASE ~ (best # None /\ i = best)
      <4>1. qs[i].selFather = rs[i].selFather
        BY <1>3, <3>2
      <4>2. rs[i].selFather # from
        BY <1>2, <2>1, <2>4, <4>1
      <4> QED BY <1>3, <2>1, <2>2, <2>4, <4>1, <4>2
    <3> QED BY <3>1, <3>2
  <2>5. ASSUME qs[i].selChild # None
        PROVE  qs[i].selChild \in D /\ qs[qs[i].selChild].selFather = i /\ qs[i].spursComputed
    <3>1. CASE best # None /\ i = from
      BY <1>3, <1>4, <3>1
    <3>2. CASE ~ (best # None /\ i = from)
      <4>1. qs[i].selChild = rs[i].selChild
        BY <1>3, <3>2
      <4>2. ~ (best # None /\ rs[i].selChild = best)
        BY <1>2, <1>4, <2>1, <2>5, <4>1
      <4> DEFINE c == rs[i].selChild
      <4>3. c \in D /\ rs[c].selFather = i /\ rs[i].spursComputed
        BY <2>1, <2>5, <4>1
      <4>4. qs[c].selFather = rs[c].selFather
        BY <1>3, <4>2, <4>3
      <4>5. qs[i].spursComputed
        <5>1. qs[i].spursComputed = (rs[i].spursComputed \/ i = from)
          BY <1>3, Zenon DEF D
        <5> QED BY <4>3, <5>1, Zenon
      <4> QED BY <4>1, <4>3, <4>4, <4>5
    <3> QED BY <3>1, <3>2
  <2> QED BY <2>3, <2>4, <2>5
<1>7. Acyclic(qs)
  <2>1. PICK rank : Ranks(rs, rank)
    BY <1>1 DEF Acyclic
  <2> DEFINE h == [i \in D |-> IF best # None /\ i = best THEN rank[from] + 1 ELSE rank[i]]
  <2>2. \A i \in D : rank[i] \in Nat
    BY <2>1 DEF Ranks
  <2>3. h \in [D -> Nat]
    BY <2>2
  <2>4. ASSUME NEW i \in D, qs[i].selFather # None PROVE h[qs[i].selFather] < h[i]
    <3>1. CASE best # None /\ i = best
      <4>1. qs[i].selFather = from /\ h[i] = rank[from] + 1 /\ h[from] = rank[from]
        BY <1>3, <1>4, <3>1
      <4> QED BY <2>2, <4>1
    <3>2. CASE ~ (best # None /\ i = best)
      <4>1. qs[i].selFather = rs[i].selFather
        BY <1>3, <3>2
      <4>2. rs[i].selFather \in D /\ rs[rs[i].selFather].selChild = i
        BY <1>1, <2>4, <4>1 DEF Related
      <4>3. ~ (best # None /\ rs[i].selFather = best)
        BY <1>2, <1>4, <4>2
      <4>4. rank[rs[i].selFather] < rank[i]
        BY <2>1, <2>4, <4>1 DEF Ranks
      <4> QED BY <3>2, <4>1, <4>2, <4>3, <4>4
    <3> QED BY <3>1, <3>2
  <2> HIDE DEF h
  <2>5. Ranks(qs, h)
    BY <1>3, <2>3, <2>4 DEF Ranks
  <2> QED BY <2>5 DEF Acyclic
<1> QED
  BY <1>1, <1>3, <1>5, <1>6, <1>7 DEF RoutesSound, qs

LEMMA FreeAddressIs ==
  ASSUME IsFiniteSet(DOMAIN routes)
  PROVE  FreeAddress \in Address \ DOMAIN routes
<1> DEFINE n == Cardinality(DOMAIN routes)
           T == 1 .. n + 1 \ DOMAIN routes
<1>1. n \in Nat
  BY FS_CardinalityType
<1>2. T # {}
  <2>1. SUFFICES ASSUME 1 .. n + 1 \subseteq DOMAIN routes PROVE FALSE
    OBVIOUS
  <2>2. Cardinality(1 .. n + 1) <= n
    BY <2>1, FS_Subset
  <2>3. Cardinality(1 .. n + 1) = n + 1
    <3> HIDE DEF n
    <3>1. Cardinality(1 .. n + 1) = IF 1 > n + 1 THEN 0 ELSE (n + 1) - 1 + 1
      BY <1>1, FS_Interval
    <3> QED BY <1>1, <3>1
  <2> QED BY <1>1, <2>2, <2>3
<1>3. T \in SUBSET Nat /\ 0 \notin T
  BY <1>1
<1>4. FreeAddress = Min(T)
  BY Zenon DEF FreeAddress
<1> HIDE DEF T
<1>5. FreeAddress \in T
  BY <1>2, <1>3, <1>4, MinIs
<1> QED
  BY <1>3, <1>5 DEF T, Address, None

-----------------------------------------------------------------------------
(* The best known route *)

\* The first difference decides.
Before(x, y) == \E i \in 1 .. 4 : x[i] < y[i] /\ \A h \in 1 .. i - 1 : x[h] = y[h]

FourNumbers(x) == \A i \in 1 .. 4 : x[i] \in Nat

\* Of some tuples of numbers one is least.
LEMMA LeastTuple ==
  ASSUME NEW K, K # {}, NEW c, \A k \in K : FourNumbers(c[k])
  PROVE  \E k \in K : \A j \in K : ~ Before(c[j], c[k])
<1> USE DEF FourNumbers
<1>1. ASSUME NEW J \in SUBSET K, J # {}, NEW i \in 1 .. 4
      PROVE  \E k \in J : \A j \in J : c[k][i] <= c[j][i]
  <2> DEFINE N == {c[k][i] : k \in J}
  <2>1. N \in SUBSET Nat /\ N # {}
    BY <1>1
  <2> HIDE DEF N
  <2>2. PICK m \in N : \A n \in N : m <= n
    BY <2>1, LeastNatural
  <2>3. PICK k \in J : m = c[k][i]
    BY <2>2 DEF N
  <2>4. \A j \in J : c[j][i] \in N
    BY DEF N
  <2> QED BY <2>2, <2>3, <2>4
<1>2. PICK k1 \in K : \A j \in K : c[k1][1] <= c[j][1]
  <2>1. K \in SUBSET K /\ 1 \in 1 .. 4
    OBVIOUS
  <2> QED BY <1>1, <2>1
<1> DEFINE J1 == {j \in K : c[j][1] = c[k1][1]}
<1>3. PICK k2 \in J1 : \A j \in J1 : c[k2][2] <= c[j][2]
  <2>1. J1 \in SUBSET K /\ J1 # {} /\ 2 \in 1 .. 4
    OBVIOUS
  <2> HIDE DEF J1
  <2> QED BY <1>1, <2>1
<1> DEFINE J2 == {j \in J1 : c[j][2] = c[k2][2]}
<1>4. PICK k3 \in J2 : \A j \in J2 : c[k3][3] <= c[j][3]
  <2>1. J2 \in SUBSET K /\ J2 # {} /\ 3 \in 1 .. 4
    OBVIOUS
  <2> HIDE DEF J2
  <2> QED BY <1>1, <2>1
<1> DEFINE J3 == {j \in J2 : c[j][3] = c[k3][3]}
<1>5. PICK k4 \in J3 : \A j \in J3 : c[k4][4] <= c[j][4]
  <2>1. J3 \in SUBSET K /\ J3 # {} /\ 4 \in 1 .. 4
    OBVIOUS
  <2> HIDE DEF J3
  <2> QED BY <1>1, <2>1
<1>0. \A k \in K, i \in 1 .. 4 : c[k][i] \in Nat
  BY DEF FourNumbers
<1>6. k4 \in K /\ c[k4][1] = c[k1][1] /\ c[k4][2] = c[k2][2] /\ c[k4][3] = c[k3][3]
  OBVIOUS
<1>7. ASSUME NEW j \in K, NEW i \in 1 .. 4, c[j][i] < c[k4][i], \A h \in 1 .. i - 1 : c[j][h] = c[k4][h]
      PROVE  FALSE
  <2>1. c[j][1] \in Nat /\ c[j][2] \in Nat /\ c[j][3] \in Nat /\ c[j][4] \in Nat
        /\ c[k4][1] \in Nat /\ c[k4][2] \in Nat /\ c[k4][3] \in Nat /\ c[k4][4] \in Nat
    BY <1>0, <1>6
  <2>2. CASE i = 1
    <3>1. c[k1][1] <= c[j][1] /\ c[k4][1] = c[k1][1]
      BY <1>2, <1>6
    <3> QED BY <1>7, <2>1, <2>2, <3>1
  <2>3. CASE i = 2
    <3>1. c[j][1] = c[k4][1]
      BY <1>7, <2>3
    <3>2. c[k2][2] <= c[j][2] /\ c[k4][2] = c[k2][2]
      BY <1>3, <1>6, <3>1
    <3> QED BY <1>7, <2>1, <2>3, <3>2
  <2>4. CASE i = 3
    <3>1. c[j][1] = c[k4][1] /\ c[j][2] = c[k4][2]
      BY <1>7, <2>4
    <3>2. c[k3][3] <= c[j][3] /\ c[k4][3] = c[k3][3]
      BY <1>4, <1>6, <3>1
    <3> QED BY <1>7, <2>1, <2>4, <3>2
  <2>5. CASE i = 4
    <3>1. c[j][1] = c[k4][1] /\ c[j][2] = c[k4][2] /\ c[j][3] = c[k4][3]
      BY <1>7, <2>5
    <3>2. c[k4][4] <= c[j][4]
      BY <1>5, <1>6, <3>1
    <3> QED BY <1>7, <2>1, <2>5, <3>2
  <2> QED BY <2>2, <2>3, <2>4, <2>5
<1>8. \A j \in K : ~ Before(c[j], c[k4])
  BY <1>7 DEF Before
<1> QED
  BY <1>6, <1>8

\* What is taken to list A was in list B.
LEMMA BestKnownIs ==
  ASSUME RoutesTyped(routes), known \in Seq(Address), Range(known) \subseteq DOMAIN routes, NEW n
  PROVE  BestKnown(n) \in Range(known) \cup {None}
<1> DEFINE list == Keep(known, {id \in Range(known) : LimitNow # 1 /\ Neighbor(routes[id]) # n})
           Cheapest(i) == \A j \in DOMAIN list : ~ Cheaper(routes[list[j]], routes[list[i]])
           First(i) == Cheapest(i) /\ \A j \in 1 .. i - 1 : ~ Cheapest(j)
<1>1. list \in Seq(Address) /\ Range(list) \subseteq Range(known)
  BY KeepFacts
<1>2. BestKnown(n) = IF list = <<>> THEN None ELSE list[CHOOSE i \in DOMAIN list : First(i)]
  BY Zenon DEF BestKnown
<1> HIDE DEF list
<1>3. CASE list = <<>>
  BY <1>2, <1>3
<1>4. CASE list # <<>>
  <2>1. DOMAIN list = 1 .. Len(list) /\ Len(list) \in Nat \ {0} /\ DOMAIN list # {}
    BY <1>1, <1>4, EmptySeq
  <2> DEFINE costs == [i \in DOMAIN list |-> Costs(routes[list[i]])]
  <2>2. \A k \in DOMAIN list : FourNumbers(costs[k])
    <3> SUFFICES ASSUME NEW k \in DOMAIN list, NEW i \in 1 .. 4 PROVE costs[k][i] \in Nat
      BY Zenon DEF FourNumbers
    <3> DEFINE r == routes[list[k]]
    <3>1. list[k] \in DOMAIN routes
      BY <1>1 DEF Range
    <3>2. r \in RouteType /\ \A j \in DOMAIN r.hops : r.hops[j].owlt # NoRange
      BY <3>1 DEF RoutesTyped
    <3>3. r.hops \in SimplePaths /\ r.arrival \in Nat
      BY <3>2 DEF RouteType
    <3>4. Len(r.hops) \in Nat /\ LightAlong(r.hops)[Len(r.hops)] \in Nat /\ Neighbor(r) \in Nat
      <4>1. LightAlong(r.hops)[Len(r.hops)] \in Nat
        <5>1. 0 \in Nat
          OBVIOUS
        <5> HIDE DEF r
        <5> QED BY <3>2, <3>3, <5>1, PathTyped
      <4> HIDE DEF r
      <4> QED BY <3>3, <4>1, PathIs, NeighborNat
    <3>5. costs[k] = Costs(r)
      OBVIOUS
    <3> HIDE DEF r, costs
    <3> QED BY <3>3, <3>4, <3>5 DEF Costs
  <2>3. PICK k \in DOMAIN list : \A j \in DOMAIN list : ~ Before(costs[j], costs[k])
    <3> HIDE DEF costs
    <3> QED BY <2>1, <2>2, LeastTuple
  <2>4. Cheapest(k)
    BY <2>3, Zenon DEF Cheaper, Before
  <2> DEFINE cheapest == {i \in DOMAIN list : Cheapest(i)}
  <2> HIDE DEF Cheapest
  <2>5. PICK m \in cheapest : \A i \in cheapest : m <= i
    <3>1. cheapest \in SUBSET Nat /\ cheapest # {}
      BY <2>1, <2>4
    <3> HIDE DEF cheapest
    <3> QED BY <3>1, LeastNatural
  <2>6. m \in DOMAIN list /\ First(m)
    <3>1. m \in DOMAIN list /\ Cheapest(m)
      OBVIOUS
    <3>2. ASSUME NEW j \in 1 .. m - 1 PROVE ~ Cheapest(j)
      <4>1. j \in DOMAIN list /\ j < m
        BY <2>1, <3>1
      <4>2. m <= j => FALSE
        BY <2>1, <3>1, <4>1
      <4> QED BY <2>5, <4>1, <4>2
    <3> QED BY <3>1, <3>2
  <2> HIDE DEF First
  <2>7. (CHOOSE i \in DOMAIN list : First(i)) \in DOMAIN list
    BY <2>6, Zenon
  <2> QED BY <1>1, <1>2, <1>4, <2>7 DEF Range
<1> QED
  BY <1>3, <1>4

-----------------------------------------------------------------------------
(* What the invariant says *)

LEMMA NowNat == ASSUME CallTyped PROVE now \in Nat
<1>1. agent \in [limits : (SUBSET Nat) \ {{}}, bundles : SUBSET BundleType,
                 times : (SUBSET Nat) \ {{}}]
  BY RouteComputationAssumption DEF CallTyped
<1> QED
  BY <1>1 DEF CallTyped

LEMMA InjectiveLen ==
  ASSUME NEW B, NEW list \in Seq(B), IsInjective(list)
  PROVE  IsFiniteSet(Range(list)) /\ Cardinality(Range(list)) = Len(list)
<1>1. Len(list) \in Nat /\ DOMAIN list = 1 .. Len(list)
  OBVIOUS
<1>2. list \in [1 .. Len(list) -> Range(list)]
  BY <1>1 DEF Range
<1>3. list \in Bijection(1 .. Len(list), Range(list))
  BY <1>1, <1>2 DEF Bijection, Injection, Surjection, Range, IsInjective
<1>4. IsFiniteSet(1 .. Len(list)) /\ Cardinality(1 .. Len(list)) = Len(list)
  <2>1. Cardinality(1 .. Len(list)) = IF 1 > Len(list) THEN 0 ELSE Len(list) - 1 + 1
    BY <1>1, FS_Interval
  <2>2. IsFiniteSet(1 .. Len(list))
    BY <1>1, FS_Interval
  <2> QED BY <1>1, <2>1, <2>2
<1> QED
  BY <1>3, <1>4, FS_Bijection DEF ExistsBijection

LEMMA InvSound == MemoryInv => MemorySound
<1> SUFFICES ASSUME MemoryInv PROVE MemorySound
  OBVIOUS
<1>1. CallTyped /\ RoutesSound(routes, Range(selected)) /\ Listed(routes, selected, known) /\ Holding
  BY DEF MemoryInv
<1>2. Len(selected) + Len(known) = Cardinality(DOMAIN routes)
  <2>1. /\ IsFiniteSet(Range(selected)) /\ Cardinality(Range(selected)) = Len(selected)
        /\ IsFiniteSet(Range(known)) /\ Cardinality(Range(known)) = Len(known)
    BY <1>1, InjectiveLen DEF Listed
  <2>2. /\ Len(selected) \in Nat /\ Len(known) \in Nat
        /\ Range(selected) \cap Range(known) = {}
        /\ Range(selected) \cup Range(known) = DOMAIN routes
    BY <1>1 DEF Listed
  <2>3. Cardinality(DOMAIN routes) = Len(selected) + Len(known) - Cardinality({})
    BY <2>1, <2>2, FS_Union
  <2> QED BY <2>2, <2>3, FS_EmptySet
<1>3. TypeOK
  BY <1>1, <1>2 DEF TypeOK, CallTyped, RoutesSound, RoutesTyped, Listed
<1>4. Genealogy
  BY <1>1 DEF Genealogy, RoutesSound, Related
<1>5. HeldSound
  <2>1. /\ Range(two.candidates) \subseteq Range(selected)
        /\ Range(two.subset) \subseteq Range(selected)
        /\ Range(yen.todo) \subseteq Range(selected)
    BY <1>1, SeqRange DEF Holding
  <2> QED BY <2>1 DEF HeldSound
<1> QED
  BY <1>3, <1>4, <1>5 DEF MemorySound

LEMMA NoneSound == RoutesSound(NoRoutes, Range(<<>>)) /\ Listed(NoRoutes, <<>>, <<>>)
<1>1. DOMAIN NoRoutes = {} /\ Range(<<>>) = {}
  BY DEF NoRoutes, Range
<1>2. IsFiniteSet(DOMAIN NoRoutes)
  BY <1>1, FS_EmptySet
<1>3. Acyclic(NoRoutes)
  <2>1. Ranks(NoRoutes, [i \in {} |-> 0])
    BY <1>1 DEF Ranks
  <2> QED BY <2>1 DEF Acyclic
<1>4. RoutesTyped(NoRoutes) /\ Related(NoRoutes, {})
  BY <1>1 DEF RoutesTyped, Related
<1>5. IsInjective(<<>>) /\ <<>> \in Seq(Address)
  BY DEF IsInjective
<1> QED
  BY <1>1, <1>2, <1>3, <1>4, <1>5 DEF RoutesSound, Listed

LEMMA InitSound == Init => MemoryInv
<1> SUFFICES ASSUME Init PROVE MemoryInv
  OBVIOUS
<1>1. agent \in [limits : (SUBSET Nat) \ {{}}, bundles : SUBSET BundleType,
                 times : (SUBSET Nat) \ {{}}]
  BY RouteComputationAssumption DEF Init
<1>2. now \in agent.times
  BY <1>1, MinIs DEF Init
<1>3. CallTyped
  BY <1>2 DEF Init, CallTyped
<1>4. RoutesSound(routes, Range(selected)) /\ Listed(routes, selected, known)
  BY NoneSound DEF Init
<1>5. Holding
  <2>1. /\ two = NoPhaseTwo /\ yen = NoYen /\ pc = "idle"
    BY DEF Init
  <2> QED BY <2>1 DEF Holding, NoPhaseTwo, NoYen
<1> QED
  BY <1>3, <1>4, <1>5 DEF MemoryInv

\* What a call holds is not touched, whatever else changes.
LEMMA HoldingKept ==
  ASSUME Holding, Range(selected) \subseteq Range(selected'),
         UNCHANGED <<two, yen>>, pc' = "idle" => pc = "idle",
         pc' \in {"spurs", "best"} =>
           pc \in {"spurs", "best"} /\ routes'[Head(yen.todo)].selChild = None
  PROVE  Holding'
<1>1. /\ two.candidates \in Seq(Range(selected')) /\ two.subset \in Seq(Range(selected'))
      /\ yen.todo \in Seq(Range(selected'))
  BY DEF Holding
<1>2. two' = two /\ yen' = yen
  OBVIOUS
<1> QED
  BY <1>1, <1>2 DEF Holding

-----------------------------------------------------------------------------
(* Steps between and around the phases *)

LEMMA TickSound == MemoryInv /\ Tick => MemoryInv'
<1> SUFFICES ASSUME MemoryInv, Tick PROVE MemoryInv'
  OBVIOUS
<1>1. CallTyped'
  BY DEF MemoryInv, CallTyped, Tick
<1>2. /\ routes' = routes /\ selected' = selected /\ known' = known
      /\ two' = two /\ yen' = yen /\ pc' = pc
  BY DEF Tick, tables
<1>3. Holding'
  BY <1>2 DEF MemoryInv, Holding
<1> QED
  BY <1>1, <1>2, <1>3 DEF MemoryInv

LEMMA EnableSound ==
  ASSUME MemoryInv, NEW new \in agent.limits, EnableOneRoutePerNeighbor(new)
  PROVE  MemoryInv'
<1>1. CallTyped'
  BY DEF MemoryInv, CallTyped, EnableOneRoutePerNeighbor
<1>2. two' = two /\ yen' = yen /\ pc' = pc /\ pc = "idle"
  BY DEF EnableOneRoutePerNeighbor
<1>3. CASE UNCHANGED tables
  BY <1>1, <1>2, <1>3 DEF MemoryInv, Holding, tables
<1>4. CASE routes' = NoRoutes /\ selected' = <<>> /\ known' = <<>>
  <2>1. Holding'
    BY <1>2, <1>4 DEF MemoryInv, Holding
  <2> QED BY <1>1, <1>4, <2>1, NoneSound DEF MemoryInv
<1> QED
  BY <1>3, <1>4 DEF EnableOneRoutePerNeighbor

LEMMA DisableSound == MemoryInv /\ DisableOneRoutePerNeighbor => MemoryInv'
<1> SUFFICES ASSUME MemoryInv, DisableOneRoutePerNeighbor PROVE MemoryInv'
  OBVIOUS
<1>1. CallTyped'
  BY DEF MemoryInv, CallTyped, DisableOneRoutePerNeighbor
<1>2. /\ routes' = NoRoutes /\ selected' = <<>> /\ known' = <<>>
      /\ two' = two /\ yen' = yen /\ pc' = pc /\ pc = "idle"
  BY DEF DisableOneRoutePerNeighbor
<1>3. Holding'
  BY <1>2 DEF MemoryInv, Holding
<1> QED
  BY <1>1, <1>2, <1>3, NoneSound DEF MemoryInv

\* Deleting some of the routes, from the lists too.
LEMMA DeleteListed ==
  ASSUME RoutesSound(routes, Range(selected)), Listed(routes, selected, known),
         NEW lost \in SUBSET DOMAIN routes
  PROVE  /\ RoutesSound(Delete(routes, lost), Range(Keep(selected, lost)))
         /\ Listed(Delete(routes, lost), Keep(selected, lost), Keep(known, lost))
<1>1. /\ Range(Keep(selected, lost)) = Range(selected) \ lost
      /\ Range(Keep(known, lost)) = Range(known) \ lost
      /\ Keep(selected, lost) \in Seq(Address) /\ Keep(known, lost) \in Seq(Address)
      /\ IsInjective(Keep(selected, lost)) /\ IsInjective(Keep(known, lost))
  BY KeepFacts DEF Listed
<1>2. /\ RoutesSound(Delete(routes, lost), Range(selected) \ lost)
      /\ DOMAIN Delete(routes, lost) = DOMAIN routes \ lost
  BY DeleteSound
<1> QED
  BY <1>1, <1>2 DEF Listed

LEMMA CallSound ==
  ASSUME MemoryInv, NEW b \in agent.bundles, Call(b)
  PROVE  MemoryInv'
<1>1. CallTyped'
  <2>1. pc' \in {"done", "two"} /\ contacts' \subseteq contacts /\ bundle' = b
        /\ agent' = agent /\ now' = now /\ limit' = limit
    BY DEF Call, instance
  <2> QED BY <2>1 DEF MemoryInv, CallTyped
<1> DEFINE lost == {id \in DOMAIN routes : ~ Range(routes[id].hops) \subseteq contacts'}
<1>2. /\ routes' = Delete(routes, lost)
      /\ selected' = Keep(selected, lost) /\ known' = Keep(known, lost)
  BY DEF Call
<1>3. RoutesSound(routes', Range(selected')) /\ Listed(routes', selected', known')
  <2>1. lost \in SUBSET DOMAIN routes
    OBVIOUS
  <2> HIDE DEF lost
  <2> QED BY <1>2, <2>1, DeleteListed DEF MemoryInv
<1>4. Holding'
  <2>1. two' = [NoPhaseTwo EXCEPT !.suppressed = SuppressedNeighbors(b)]
        /\ yen' = yen /\ pc = "idle" /\ pc' \in {"done", "two"}
    BY DEF Call
  <2>2. two'.candidates = <<>> /\ two'.subset = <<>> /\ {"candidates", "subset"} \subseteq DOMAIN two'
    BY <2>1 DEF NoPhaseTwo
  <2>3. yen'.todo = <<>> /\ yen'.at \in Nat /\ {"todo", "at"} \subseteq DOMAIN yen'
    BY <2>1 DEF MemoryInv, Holding
  <2>4. pc' # "idle" /\ pc' \notin {"spurs", "best"} /\ <<>> \in Seq(Range(selected'))
    BY <2>1
  <2> QED BY <2>2, <2>3, <2>4 DEF Holding
<1> QED
  BY <1>1, <1>3, <1>4 DEF MemoryInv

LEMMA ReturnSound == MemoryInv /\ Return => MemoryInv'
<1> SUFFICES ASSUME MemoryInv, Return PROVE MemoryInv'
  OBVIOUS
<1>1. CallTyped'
  BY DEF MemoryInv, CallTyped, Return, instance
<1>2. selected' = selected /\ known' = known /\ DOMAIN routes' = DOMAIN routes
  BY DEF Return
<1>3. RoutesSound(routes', Range(selected))
  <2>1. \A id \in DOMAIN routes : routes'[id] = [routes[id] EXCEPT !.checked = FALSE]
    BY DEF Return
  <2>2. \A id \in DOMAIN routes : routes[id] \in RouteType
    BY DEF MemoryInv, RoutesSound, RoutesTyped
  <2>3. \A id \in DOMAIN routes :
          /\ routes'[id] \in RouteType /\ routes'[id].hops = routes[id].hops
          /\ routes'[id].father = routes[id].father
          /\ routes'[id].selFather = routes[id].selFather
          /\ routes'[id].selChild = routes[id].selChild
          /\ routes'[id].spursComputed = routes[id].spursComputed
    BY <2>1, <2>2 DEF RouteType
  <2> QED BY <1>2, <2>3, AgreeSound DEF MemoryInv
<1>4. Listed(routes', selected', known')
  BY <1>2 DEF MemoryInv, Listed
<1>5. Holding'
  <2>1. two' = NoPhaseTwo /\ yen' = NoYen /\ pc' = "idle"
    BY DEF Return
  <2> QED BY <2>1 DEF Holding, NoPhaseTwo, NoYen
<1> QED
  BY <1>1, <1>2, <1>3, <1>4, <1>5 DEF MemoryInv


-----------------------------------------------------------------------------
(* Steps of phase two, and of phase one around its searches *)

\* A call goes on to anything but its end, without a route to compute spurs of.
LEMMA HoldsList ==
  ASSUME MemoryInv, two' = two, selected' = selected,
         {"todo", "at"} \subseteq DOMAIN yen', yen'.todo \in Seq(Range(selected)), yen'.at \in Nat,
         pc' # "idle",
         pc' \in {"spurs", "best"} => yen'.todo # <<>> /\ routes'[Head(yen'.todo)].selChild = None
  PROVE  Holding'
<1>1. /\ {"candidates", "subset"} \subseteq DOMAIN two'
      /\ two'.candidates \in Seq(Range(selected')) /\ two'.subset \in Seq(Range(selected'))
  BY DEF MemoryInv, Holding
<1>2. yen'.todo \in Seq(Range(selected'))
  OBVIOUS
<1> QED
  BY <1>1, <1>2 DEF Holding

\* A route differs from another in its times only.
SameRoute(q, r) ==
  /\ q \in RouteType /\ q.hops = r.hops /\ q.father = r.father
  /\ q.selFather = r.selFather /\ q.selChild = r.selChild /\ q.spursComputed = r.spursComputed

LEMMA SameSound ==
  ASSUME MemoryInv, NEW qs, DOMAIN qs = DOMAIN routes,
         \A id \in DOMAIN routes : SameRoute(qs[id], routes[id])
  PROVE  RoutesSound(qs, Range(selected))
BY AgreeSound DEF SameRoute, MemoryInv

\* A route that is brought up to date.
LEMMA RetimedSame ==
  ASSUME MemoryInv, NEW id \in DOMAIN routes
  PROVE  /\ SameRoute(routes[id], routes[id])
         /\ SameRoute([routes[id] EXCEPT !.arrival = Arrival(routes[id].hops, now)], routes[id])
<1> DEFINE r == routes[id]
<1>1. r \in RouteType /\ \A i \in DOMAIN r.hops : r.hops[i].owlt # NoRange
  BY DEF MemoryInv, RoutesSound, RoutesTyped
<1>2. r.hops \in SimplePaths
  BY <1>1 DEF RouteType
<1>3. Arrival(r.hops, now) \in Nat
  BY <1>1, <1>2, NowNat, PathTyped DEF MemoryInv
<1> QED
  BY <1>1, <1>3 DEF SameRoute, RouteType

LEMMA SortedIs == MemoryInv => \A kind : Sorted(kind) \in Seq(Range(selected))
<1> SUFFICES ASSUME MemoryInv, NEW kind PROVE Sorted(kind) \in Seq(Range(selected))
  OBVIOUS
<1>1. selected \in Seq(Range(selected))
  BY SeqRange DEF MemoryInv, Listed
<1> QED
  BY <1>1, KeepFacts DEF Sorted

LEMMA SubsetIs ==
  ASSUME NEW B, NEW candidates, NEW discarded \in Seq(B)
  PROVE  Subset(candidates, discarded) \in Seq(B)
<1>1. InsertInSubset(discarded) \in Seq(B)
  BY KeepFacts DEF InsertInSubset
<1>2. RemoveFromSubset(InsertInSubset(discarded), ServedWith(candidates)) \in Seq(B)
  BY <1>1, KeepFacts DEF RemoveFromSubset
<1> QED
  BY <1>2 DEF Subset

LEMMA PhaseTwoSound == MemoryInv /\ PhaseTwo => MemoryInv'
<1> SUFFICES ASSUME MemoryInv, PhaseTwo PROVE MemoryInv'
  OBVIOUS
<1>1. /\ agent' = agent /\ now' = now /\ limit' = limit /\ contacts' = contacts
      /\ selected' = selected /\ known' = known /\ bundle' = bundle /\ yen' = yen
      /\ pc = "two" /\ pc' \in {"done", "one"}
  BY DEF PhaseTwo, instance
<1>2. CallTyped'
  BY <1>1 DEF MemoryInv, CallTyped
<1>3. routes' = [id \in DOMAIN routes |->
                  IF id \in Range(selected)
                  THEN [Timed(routes[id]) EXCEPT !.checked = TRUE] ELSE routes[id]]
  BY DEF PhaseTwo
<1>4. RoutesSound(routes', Range(selected))
  <2>1. ASSUME NEW id \in DOMAIN routes PROVE SameRoute(routes'[id], routes[id])
    <3>1. Timed(routes[id]) = routes[id]
          \/ Timed(routes[id]) = [routes[id] EXCEPT !.arrival = Arrival(routes[id].hops, now)]
      BY DEF Timed
    <3>2. SameRoute(Timed(routes[id]), routes[id]) /\ SameRoute(routes[id], routes[id])
      BY <3>1, RetimedSame
    <3>3. SameRoute([Timed(routes[id]) EXCEPT !.checked = TRUE], routes[id])
      BY <3>2 DEF SameRoute, RouteType
    <3> QED BY <1>3, <3>2, <3>3
  <2> QED BY <1>3, <2>1, SameSound
<1>5. Listed(routes', selected', known')
  BY <1>1, <1>3 DEF MemoryInv, Listed
<1>6. Holding'
  <2>1. PICK candidates \in {Sorted("candidate")}, discarded \in {Sorted("discarded")} :
          two' = [two EXCEPT
                 !.candidates = @ \o candidates,
                 !.served = ServedWith(candidates),
                 !.missing = IF ReachedNeighborsLimit(ServedWith(candidates)) THEN 0
                             ELSE Wanted - Cardinality(ServedWith(candidates)),
                 !.subset = Subset(candidates, discarded)]
    BY Zenon DEF PhaseTwo
  <2>2. candidates \in Seq(Range(selected)) /\ Subset(candidates, discarded) \in Seq(Range(selected))
    BY SortedIs, SubsetIs
  <2>3. DOMAIN two' = DOMAIN two /\ {"candidates", "subset"} \subseteq DOMAIN two
    BY <2>1 DEF MemoryInv, Holding
  <2>4. two'.candidates = two.candidates \o candidates
        /\ two'.subset = Subset(candidates, discarded)
    BY <2>1, <2>3
  <2>5. two'.candidates \in Seq(Range(selected)) /\ two'.subset \in Seq(Range(selected))
    BY <2>2, <2>4 DEF MemoryInv, Holding
  <2>6. {"todo", "at"} \subseteq DOMAIN yen /\ yen.todo \in Seq(Range(selected)) /\ yen.at \in Nat
    BY DEF MemoryInv, Holding
  <2> QED BY <1>1, <2>3, <2>5, <2>6 DEF Holding
<1> QED
  BY <1>1, <1>2, <1>4, <1>5, <1>6 DEF MemoryInv

LEMMA ComputeRoutesSound == MemoryInv /\ ComputeRoutes => MemoryInv'
<1> SUFFICES ASSUME MemoryInv, ComputeRoutes PROVE MemoryInv'
  OBVIOUS
<1>1. /\ agent' = agent /\ now' = now /\ limit' = limit /\ contacts' = contacts
      /\ selected' = selected /\ bundle' = bundle /\ two' = two
      /\ pc' \in {"neighbors", "another"}
      /\ yen' = [NoYen EXCEPT !.todo = two.subset, !.before = Len(selected)]
  BY DEF ComputeRoutes, instance
<1>2. CallTyped'
  BY <1>1 DEF MemoryInv, CallTyped
<1>3. RoutesSound(routes', Range(selected')) /\ Listed(routes', selected', known')
  <2>1. CASE selected = <<>>
    <3>1. routes' = Delete(routes, Range(known)) /\ known' = <<>>
      BY <2>1 DEF ComputeRoutes
    <3>2. Range(known) = DOMAIN routes /\ Range(selected) = {}
      <4>1. Range(selected) = {}
        BY <2>1 DEF Range
      <4> QED BY <4>1 DEF MemoryInv, Listed
    <3>3. RoutesSound(routes', {}) /\ DOMAIN routes' = {}
      <4>1. RoutesSound(Delete(routes, Range(known)), Range(selected) \ Range(known))
            /\ DOMAIN Delete(routes, Range(known)) = DOMAIN routes \ Range(known)
        BY <3>2, DeleteSound DEF MemoryInv
      <4>2. Range(selected) \ Range(known) = {} /\ DOMAIN routes \ Range(known) = {}
        BY <3>2
      <4> QED BY <3>1, <4>1, <4>2
    <3>4. Listed(routes', <<>>, <<>>)
      BY <3>3, NoneSound DEF Listed, NoRoutes
    <3> QED BY <1>1, <2>1, <3>1, <3>2, <3>3, <3>4
  <2>2. CASE selected # <<>>
    <3>1. known' = known /\ routes' \in {routes, UpdatedKnown(routes)}
      BY <2>2 DEF ComputeRoutes
    <3>2. DOMAIN routes' = DOMAIN routes
      BY <3>1 DEF UpdatedKnown
    <3>3. ASSUME NEW id \in DOMAIN routes PROVE SameRoute(routes'[id], routes[id])
      <4>1. routes'[id] = routes[id]
            \/ routes'[id] = [routes[id] EXCEPT !.arrival = Arrival(routes[id].hops, now)]
        BY <3>1 DEF UpdatedKnown
      <4> QED BY <4>1, RetimedSame
    <3>4. RoutesSound(routes', Range(selected))
      BY <3>2, <3>3, SameSound
    <3> QED BY <1>1, <3>1, <3>2, <3>4 DEF MemoryInv, Listed
  <2> QED BY <2>1, <2>2
<1>4. Holding'
  <2>1. {"todo", "at"} \subseteq DOMAIN yen' /\ yen'.todo = two.subset /\ yen'.at = 0
    BY <1>1 DEF NoYen
  <2>2. two.subset \in Seq(Range(selected))
    BY DEF MemoryInv, Holding
  <2> QED BY <1>1, <2>1, <2>2, HoldsList
<1> QED
  BY <1>2, <1>3, <1>4 DEF MemoryInv

LEMMA AnotherRouteSound == MemoryInv /\ AnotherRoute => MemoryInv'
<1> SUFFICES ASSUME MemoryInv, AnotherRoute PROVE MemoryInv'
  OBVIOUS
<1>1. /\ agent' = agent /\ now' = now /\ limit' = limit /\ contacts' = contacts
      /\ selected' = selected /\ known' = known /\ routes' = routes
      /\ bundle' = bundle /\ two' = two
      /\ pc = "another" /\ pc' \in {"another", "spurs", "best"} /\ yen.todo # <<>>
  BY DEF AnotherRoute, instance, tables
<1>2. CallTyped'
  BY <1>1 DEF MemoryInv, CallTyped
<1>3. /\ {"todo", "at"} \subseteq DOMAIN yen /\ yen.todo \in Seq(Range(selected)) /\ yen.at \in Nat
  BY DEF MemoryInv, Holding
<1> DEFINE from == Head(yen.todo)
<1>4. from \in Range(selected) /\ Tail(yen.todo) \in Seq(Range(selected)) /\ from \in DOMAIN routes
  <2>1. from \in Range(selected) /\ Tail(yen.todo) \in Seq(Range(selected))
    BY <1>1, <1>3, TailFacts
  <2> QED BY <2>1 DEF MemoryInv, Listed
<1>5. routes[from] \in RouteType /\ (routes[from].selChild # None => routes[from].spursComputed)
  BY <1>4 DEF MemoryInv, RoutesSound, RoutesTyped, Related
<1>6. Holding'
  <2>1. CASE routes[from].spursComputed
    <3>1. yen' = [yen EXCEPT !.todo = Tail(@)] /\ pc' = pc
      BY <2>1 DEF AnotherRoute
    <3>2. DOMAIN yen' = DOMAIN yen /\ yen'.todo = Tail(yen.todo) /\ yen'.at = yen.at
      BY <1>3, <3>1
    <3> QED BY <1>1, <1>3, <1>4, <3>1, <3>2, HoldsList
  <2>2. CASE ~ routes[from].spursComputed
    <3>1. yen' = [yen EXCEPT !.at = routes[from].root, !.upper = None, !.again = FALSE,
                             !.computedNow = Children(from) = {}, !.allFound = FALSE]
      BY <2>2, Zenon DEF AnotherRoute
    <3>2. DOMAIN yen' = DOMAIN yen /\ yen'.todo = yen.todo /\ yen'.at = routes[from].root
      <4> DEFINE none == Children(from) = {}
      <4> HIDE DEF none, from
      <4>1. yen' = [yen EXCEPT !.at = routes[from].root, !.upper = None, !.again = FALSE,
                             !.computedNow = none, !.allFound = FALSE]
        BY <3>1 DEF none, from
      <4> QED BY <1>3, <4>1
    <3>3. routes[from].root \in Nat
      BY <1>5 DEF RouteType
    <3>4. routes'[Head(yen'.todo)].selChild = None
      BY <1>1, <1>5, <2>2, <3>2
    <3> QED BY <1>1, <1>3, <3>2, <3>3, <3>4, HoldsList
  <2> QED BY <2>1, <2>2
<1> QED
  BY <1>1, <1>2, <1>6 DEF MemoryInv

LEMMA EndOtherRoutesSound == MemoryInv /\ EndOtherRoutes => MemoryInv'
<1> SUFFICES ASSUME MemoryInv, EndOtherRoutes PROVE MemoryInv'
  OBVIOUS
<1>1. /\ agent' = agent /\ now' = now /\ limit' = limit /\ contacts' = contacts
      /\ selected' = selected /\ known' = known /\ routes' = routes
      /\ bundle' = bundle /\ two' = two
      /\ pc' \in {"neighbors", "two", "done"}
  BY DEF EndOtherRoutes, instance, tables, Answer
<1>2. CallTyped'
  BY <1>1 DEF MemoryInv, CallTyped
<1>3. Holding'
  <2>1. /\ {"todo", "at"} \subseteq DOMAIN yen /\ yen.todo \in Seq(Range(selected)) /\ yen.at \in Nat
    BY DEF MemoryInv, Holding
  <2>2. yen' = [yen EXCEPT !.before = IF yen.performed THEN @ ELSE Len(selected)]
    BY DEF EndOtherRoutes
  <2>3. DOMAIN yen' = DOMAIN yen /\ yen'.todo = yen.todo /\ yen'.at = yen.at
    BY <2>1, <2>2
  <2> QED BY <1>1, <2>1, <2>3, HoldsList
<1> QED
  BY <1>1, <1>2, <1>3 DEF MemoryInv

-----------------------------------------------------------------------------
(* Steps of phase one that compute routes *)

\* A route that has just been computed.
LEMMA NewRouteIs ==
  ASSUME MemoryInv, NEW path \in SimplePaths, \A i \in DOMAIN path : path[i].owlt # NoRange,
         NEW root \in Nat, NEW father \in DOMAIN routes \cup {None}
  PROVE  LET r == NewRoute(path, root, father) IN
         /\ r \in RouteType /\ \A i \in DOMAIN r.hops : r.hops[i].owlt # NoRange
         /\ r.father = father /\ r.selFather = None /\ r.selChild = None
<1>1. now \in Nat
  BY NowNat DEF MemoryInv
<1>2. Arrival(path, now) \in Nat
  BY <1>1, PathTyped
<1>3. father \in Nat
  BY DEF MemoryInv, RoutesSound, RoutesTyped, Address, None
<1> QED
  BY <1>1, <1>2, <1>3 DEF NewRoute, RouteType, None

\* A route of a new neighbor: what was selected stays selected, and without a selected
\* child if it had none.
LEMMA SelectNewSound ==
  ASSUME MemoryInv, NEW path \in SimplePaths, \A i \in DOMAIN path : path[i].owlt # NoRange,
         SelectNew(path)
  PROVE  /\ RoutesSound(routes', Range(selected')) /\ Listed(routes', selected', known')
         /\ Range(selected) \subseteq Range(selected')
         /\ \A i \in Range(selected) : routes[i].selChild = None => routes'[i].selChild = None
<1> DEFINE id == FreeAddress
           r == NewRoute(path, None, None)
           more == Added(routes, id, r)
           lost == {i \in Range(known) : Neighbor(routes[i]) = path[1].toNode}
           S == Range(selected) \cup {id}
<1>1. /\ routes' = Delete(more, lost) /\ selected' = <<id>> \o selected
      /\ known' = Keep(known, lost)
  BY Zenon DEF SelectNew
<1>2. lost \subseteq Range(known)
  OBVIOUS
<1>3. id \in Address \ DOMAIN routes
  BY FreeAddressIs DEF MemoryInv, RoutesSound
<1>4. /\ r \in RouteType /\ \A i \in DOMAIN r.hops : r.hops[i].owlt # NoRange
      /\ r.father = None /\ r.selFather = None /\ r.selChild = None
  BY NewRouteIs DEF None
<1> HIDE DEF id, r, lost
<1>5. RoutesSound(routes, Range(selected)) /\ Listed(routes, selected, known)
  BY DEF MemoryInv
<1>6. RoutesSound(more, S) /\ DOMAIN more = DOMAIN routes \cup {id}
  BY <1>3, <1>4, <1>5, AddSound
<1>7. \A i \in DOMAIN routes : more[i] = routes[i]
  BY <1>3 DEF Added
<1>8. lost \in SUBSET DOMAIN more /\ S \ lost = S
  BY <1>2, <1>3, <1>5, <1>6 DEF Listed
<1> HIDE DEF more
<1>9. /\ RoutesSound(Delete(more, lost), S \ lost)
      /\ DOMAIN Delete(more, lost) = DOMAIN more \ lost
      /\ \A i \in DOMAIN more \ lost :
           more[i].selChild = None => Delete(more, lost)[i].selChild = None
  BY <1>6, <1>8, DeleteSound
<1>10. /\ selected' \in Seq(Address) /\ IsInjective(selected') /\ Range(selected') = S
  <2>1. id \notin Range(selected)
    BY <1>3, <1>5 DEF Listed
  <2> QED BY <1>1, <1>3, <1>5, <2>1, FrontFacts DEF Listed
<1>11. /\ known' \in Seq(Address) /\ IsInjective(known') /\ Range(known') = Range(known) \ lost
  BY <1>1, <1>5, KeepFacts DEF Listed
<1>12. Listed(routes', selected', known')
  <2>1. Range(selected') \cap Range(known') = {}
    BY <1>3, <1>5, <1>10, <1>11 DEF Listed
  <2>2. Range(selected') \cup Range(known') = DOMAIN routes'
    <3>1. DOMAIN routes' = (DOMAIN routes \cup {id}) \ lost
      BY <1>1, <1>6, <1>9
    <3>2. DOMAIN routes = Range(selected) \cup Range(known) /\ id \notin lost
          /\ Range(selected) \cap lost = {}
      BY <1>2, <1>3, <1>5 DEF Listed
    <3> QED BY <1>10, <1>11, <3>1, <3>2
  <2> QED BY <1>10, <1>11, <2>1, <2>2 DEF Listed
<1>13. \A i \in Range(selected) : routes[i].selChild = None => routes'[i].selChild = None
  <2>1. \A i \in Range(selected) : i \in DOMAIN routes /\ i \notin lost
    BY <1>2, <1>5 DEF Listed
  <2> QED BY <1>1, <1>6, <1>7, <1>9, <2>1
<1> QED
  BY <1>1, <1>8, <1>9, <1>10, <1>12, <1>13

LEMMA OneRoutePerNeighborSound == MemoryInv /\ OneRoutePerNeighbor => MemoryInv'
<1> SUFFICES ASSUME MemoryInv, OneRoutePerNeighbor PROVE MemoryInv'
  OBVIOUS
<1> DEFINE excluded == IF one.alreadyExcluded THEN one.excluded
                       ELSE one.excluded \cup NeighborsOf(selected)
<1>1. /\ agent' = agent /\ now' = now /\ limit' = limit /\ contacts' = contacts
      /\ bundle' = bundle /\ two' = two /\ yen' = yen /\ pc = "neighbors"
  BY DEF OneRoutePerNeighbor, instance
<1>2. \/ UNCHANGED tables /\ pc' \in {"two", "done"}
      \/ \E path \in Found(<<>>, ToNeighbors(excluded)) :
           SelectNew(path) /\ pc' \in {"two", "neighbors"}
  <2> HIDE DEF excluded
  <2>1. \/ UNCHANGED tables /\ pc' = Answer(Len(selected') - yen.before)
        \/ \E path \in Found(<<>>, ToNeighbors(excluded)) :
             SelectNew(path)
             /\ pc' = IF Len(selected') - yen.before >= two.missing THEN "two" ELSE pc
    BY Zenon DEF OneRoutePerNeighbor, excluded
  <2> QED BY <1>1, <2>1 DEF Answer
<1> HIDE DEF excluded
<1>3. CallTyped'
  <2>1. pc' \in {"two", "done", "neighbors"}
    BY <1>2
  <2> QED BY <1>1, <2>1 DEF MemoryInv, CallTyped
<1>4. CASE UNCHANGED tables /\ pc' \in {"two", "done"}
  <2>1. Holding'
    BY <1>1, <1>4, HoldingKept DEF MemoryInv, tables
  <2> QED BY <1>3, <1>4, <2>1 DEF MemoryInv, tables
<1>5. ASSUME NEW path \in Found(<<>>, ToNeighbors(excluded)),
             SelectNew(path), pc' \in {"two", "neighbors"}
      PROVE  MemoryInv'
  <2>1. path \in SimplePaths /\ \A i \in DOMAIN path : path[i].owlt # NoRange
    BY FoundIs
  <2>2. /\ RoutesSound(routes', Range(selected')) /\ Listed(routes', selected', known')
        /\ Range(selected) \subseteq Range(selected')
    BY <1>5, <2>1, SelectNewSound
  <2>3. Holding'
    <3>1. pc' # "idle" /\ pc' \notin {"spurs", "best"}
      BY <1>5
    <3> QED BY <1>1, <2>2, <3>1, HoldingKept DEF MemoryInv
  <2> QED BY <1>3, <2>2, <2>3 DEF MemoryInv
<1> QED
  BY <1>2, <1>4, <1>5

\* compute_all_spurs stays with its route.
LEMMA NextSpurHolds ==
  ASSUME MemoryInv, pc = "spurs", NEW allFound, NextSpur(Head(yen.todo), allFound),
         two' = two, selected' = selected,
         routes'[Head(yen.todo)].selChild = routes[Head(yen.todo)].selChild
  PROVE  Holding' /\ pc' \in {"spurs", "best"}
<1>1. /\ {"todo", "at"} \subseteq DOMAIN yen /\ yen.todo \in Seq(Range(selected)) /\ yen.at \in Nat
      /\ yen.todo # <<>> /\ routes[Head(yen.todo)].selChild = None
  BY DEF MemoryInv, Holding
<1>2. PICK last \in BOOLEAN :
        /\ pc' = IF last THEN "best" ELSE pc
        /\ yen' = [yen EXCEPT !.at = IF last THEN @ ELSE yen.at + 1, !.allFound = allFound]
  <2> DEFINE last == yen.at + 1 = Len(routes[Head(yen.todo)].hops) \/ yen.at + 1 = yen.upper
  <2>1. /\ pc' = IF last THEN "best" ELSE pc
        /\ yen' = [yen EXCEPT !.at = IF last THEN @ ELSE yen.at + 1, !.allFound = allFound]
    BY Zenon DEF NextSpur
  <2>2. last \in BOOLEAN
    OBVIOUS
  <2> HIDE DEF last
  <2> QED BY <2>1, <2>2
<1>3. DOMAIN yen' = DOMAIN yen /\ yen'.todo = yen.todo /\ yen'.at \in {yen.at, yen.at + 1}
  BY <1>1, <1>2
<1>4. yen'.at \in Nat /\ pc' \in {"spurs", "best"}
  BY <1>1, <1>2, <1>3
<1> QED
  BY <1>1, <1>3, <1>4, HoldsList

LEMMA SpurSound == MemoryInv /\ Spur => MemoryInv'
<1> SUFFICES ASSUME MemoryInv, Spur PROVE MemoryInv'
  OBVIOUS
<1> DEFINE from == Head(yen.todo)
           prefix == SubSeq(routes[from].hops, 1, yen.at)
           excluded == IF yen.at = 0 THEN one.excluded \ {Neighbor(routes[from])} ELSE {}
           avoided == AvoidDuplicates(prefix) \cup ToNeighbors(excluded)
<1>1. /\ agent' = agent /\ now' = now /\ limit' = limit /\ contacts' = contacts
      /\ bundle' = bundle /\ two' = two /\ pc = "spurs"
  BY DEF Spur, instance
<1>2. \/ UNCHANGED tables /\ UNCHANGED yen /\ pc' = "best"
      \/ UNCHANGED tables /\ \E allFound : NextSpur(from, allFound)
      \/ \E path \in Found(prefix, avoided) :
           /\ routes' = Added(routes, FreeAddress, NewRoute(path, yen.at, from))
           /\ known' = <<FreeAddress>> \o known
           /\ NextSpur(from, yen.allFound)
           /\ UNCHANGED selected
      \/ \E path \in Found(prefix, avoided) : SelectNew(path) /\ UNCHANGED <<yen, pc>>
  <2>1. CASE ~ BarelyFeasible(prefix, now) /\ pc' = "best" /\ UNCHANGED <<tables, one, yen>>
    BY <2>1
  <2>2. CASE NextSpur(from, yen.allFound \/ yen.at = 0) /\ UNCHANGED <<tables, one>>
    BY <2>2
  <2>3. ASSUME NEW path \in Found(prefix, avoided),
               IF LimitNow = 1 \/ path[1].toNode = Neighbor(routes[from])
               THEN /\ routes' = Added(routes, FreeAddress, NewRoute(path, yen.at, from))
                    /\ known' = <<FreeAddress>> \o known
                    /\ NextSpur(from, yen.allFound)
                    /\ UNCHANGED <<selected, one>>
               ELSE /\ SelectNew(path)
                    /\ one' = [one EXCEPT !.excluded = ExcludedWith(@, path)]
                    /\ UNCHANGED <<yen, pc>>
        PROVE  \/ /\ routes' = Added(routes, FreeAddress, NewRoute(path, yen.at, from))
                  /\ known' = <<FreeAddress>> \o known
                  /\ NextSpur(from, yen.allFound)
                  /\ UNCHANGED selected
               \/ SelectNew(path) /\ UNCHANGED <<yen, pc>>
    BY <2>3
  <2> QED BY <2>1, <2>2, <2>3, Zenon DEF Spur
<1>3. /\ {"todo", "at"} \subseteq DOMAIN yen /\ yen.todo \in Seq(Range(selected)) /\ yen.at \in Nat
      /\ yen.todo # <<>> /\ routes[from].selChild = None
  BY <1>1 DEF MemoryInv, Holding
<1>4. from \in Range(selected) /\ from \in DOMAIN routes
  <2>1. from \in Range(selected)
    BY <1>3, TailFacts
  <2> QED BY <2>1 DEF MemoryInv, Listed
<1> HIDE DEF prefix, avoided
<1>5. ASSUME pc' \in {"spurs", "best"} PROVE CallTyped'
  BY <1>1, <1>5 DEF MemoryInv, CallTyped
<1>6. CASE UNCHANGED tables /\ UNCHANGED yen /\ pc' = "best"
  <2>1. Holding'
    BY <1>1, <1>3, <1>6, HoldingKept DEF MemoryInv, tables
  <2> QED BY <1>5, <1>6, <2>1 DEF MemoryInv, tables
<1>7. ASSUME UNCHANGED tables, NEW allFound, NextSpur(from, allFound) PROVE MemoryInv'
  <2>1. Holding' /\ pc' \in {"spurs", "best"}
    BY <1>1, <1>7, NextSpurHolds DEF tables
  <2> QED BY <1>5, <1>7, <2>1 DEF MemoryInv, tables
<1>8. ASSUME NEW path \in Found(prefix, avoided),
             routes' = Added(routes, FreeAddress, NewRoute(path, yen.at, from)),
             known' = <<FreeAddress>> \o known,
             NextSpur(from, yen.allFound), selected' = selected
      PROVE  MemoryInv'
  <2> DEFINE r == NewRoute(path, yen.at, from)
             id == FreeAddress
  <2>1. path \in SimplePaths /\ \A i \in DOMAIN path : path[i].owlt # NoRange
    BY FoundIs
  <2>2. /\ r \in RouteType /\ \A i \in DOMAIN r.hops : r.hops[i].owlt # NoRange
        /\ r.father = from /\ r.selFather = None /\ r.selChild = None
    BY <1>3, <1>4, <2>1, NewRouteIs
  <2>3. id \in Address \ DOMAIN routes
    BY FreeAddressIs DEF MemoryInv, RoutesSound
  <2>4. routes' = Added(routes, id, r) /\ known' = <<id>> \o known
    BY <1>8
  <2> HIDE DEF r, id
  <2>5. RoutesSound(routes', Range(selected)) /\ DOMAIN routes' = DOMAIN routes \cup {id}
    BY <1>4, <2>2, <2>3, <2>4, AddSound DEF MemoryInv
  <2>6. Listed(routes', selected', known')
    <3>1. /\ known \in Seq(Address) /\ IsInjective(known) /\ id \notin Range(known)
          /\ id \notin Range(selected)
      BY <2>3 DEF MemoryInv, Listed
    <3>2. known' \in Seq(Address) /\ IsInjective(known') /\ Range(known') = Range(known) \cup {id}
      BY <2>3, <2>4, <3>1, FrontFacts
    <3> QED BY <1>8, <2>5, <3>1, <3>2 DEF MemoryInv, Listed
  <2>7. routes'[from].selChild = routes[from].selChild
    BY <1>4, <2>3, <2>4 DEF Added
  <2>8. Holding' /\ pc' \in {"spurs", "best"}
    BY <1>1, <1>8, <2>7, NextSpurHolds
  <2> QED BY <1>5, <1>8, <2>5, <2>6, <2>8 DEF MemoryInv
<1>9. ASSUME NEW path \in Found(prefix, avoided), SelectNew(path), yen' = yen, pc' = pc
      PROVE  MemoryInv'
  <2>1. path \in SimplePaths /\ \A i \in DOMAIN path : path[i].owlt # NoRange
    BY FoundIs
  <2>2. /\ RoutesSound(routes', Range(selected')) /\ Listed(routes', selected', known')
        /\ Range(selected) \subseteq Range(selected') /\ routes'[from].selChild = None
    BY <1>3, <1>4, <1>9, <2>1, SelectNewSound
  <2>3. Holding'
    BY <1>1, <1>9, <2>2, HoldingKept DEF MemoryInv
  <2> QED BY <1>1, <1>5, <1>9, <2>2, <2>3 DEF MemoryInv
<1> QED
  BY <1>2, <1>6, <1>7, <1>8, <1>9, Zenon

LEMMA TakeBestKnownSound == MemoryInv /\ TakeBestKnown => MemoryInv'
<1> SUFFICES ASSUME MemoryInv, TakeBestKnown PROVE MemoryInv'
  OBVIOUS
<1> DEFINE from == Head(yen.todo)
           best == BestKnown(Neighbor(routes[from]))
           lastRound == best # None \/ routes[from].root = None \/ yen.again
<1>1. /\ agent' = agent /\ now' = now /\ limit' = limit /\ contacts' = contacts
      /\ bundle' = bundle /\ two' = two /\ pc = "best"
  BY DEF TakeBestKnown, instance
<1>2. routes' = Taken(routes, from, best)
  BY Zenon DEF TakeBestKnown, Taken
<1>3. IF best = None THEN UNCHANGED <<selected, known>>
      ELSE selected' = <<best>> \o selected /\ known' = Keep(known, {best})
  BY Zenon DEF TakeBestKnown
<1>4. \/ /\ lastRound /\ pc' = "another"
         /\ \E update, performed :
              yen' = [yen EXCEPT !.todo = Tail(@), !.update = update, !.performed = performed]
      \/ /\ ~ lastRound /\ pc' = "spurs"
         /\ yen' = [yen EXCEPT !.at = None, !.upper = routes[from].root, !.again = TRUE,
                               !.allFound = FALSE]
  <2>1. IF lastRound
        THEN /\ yen' = [yen EXCEPT !.todo = Tail(@), !.update = @ \/ yen.allFound,
                                   !.performed = @ \/ best # None \/ yen.computedNow]
             /\ pc' = "another"
        ELSE /\ yen' = [yen EXCEPT !.at = None, !.upper = routes[from].root, !.again = TRUE,
                                   !.allFound = FALSE]
             /\ pc' = "spurs"
    BY Zenon DEF TakeBestKnown
  <2> HIDE DEF lastRound, best, from
  <2>2. CASE lastRound
    BY <2>1, <2>2, Zenon
  <2>3. CASE ~ lastRound
    BY <2>1, <2>3, Zenon
  <2> QED BY <2>2, <2>3
<1>5. /\ {"todo", "at"} \subseteq DOMAIN yen /\ yen.todo \in Seq(Range(selected)) /\ yen.at \in Nat
      /\ yen.todo # <<>> /\ routes[from].selChild = None
      /\ {"candidates", "subset"} \subseteq DOMAIN two
      /\ two.candidates \in Seq(Range(selected)) /\ two.subset \in Seq(Range(selected))
  BY <1>1 DEF MemoryInv, Holding
<1>6. from \in Range(selected) /\ from \in DOMAIN routes /\ Tail(yen.todo) \in Seq(Range(selected))
  <2>1. from \in Range(selected) /\ Tail(yen.todo) \in Seq(Range(selected))
    BY <1>5, TailFacts
  <2> QED BY <2>1 DEF MemoryInv, Listed
<1>7. best \in Range(known) \cup {None}
  <2>1. RoutesTyped(routes) /\ known \in Seq(Address) /\ Range(known) \subseteq DOMAIN routes
    BY DEF MemoryInv, RoutesSound, Listed
  <2> QED BY <2>1, BestKnownIs
<1>8. lastRound \/ best = None
  OBVIOUS
<1> HIDE DEF best, lastRound
<1>9. Listed(routes, selected, known) /\ RoutesSound(routes, Range(selected))
  BY DEF MemoryInv
<1>10. best = None \/ best \in DOMAIN routes \ Range(selected)
  BY <1>7, <1>9 DEF Listed
<1>11. RoutesSound(routes', IF best = None THEN Range(selected) ELSE Range(selected) \cup {best})
  BY <1>2, <1>5, <1>6, <1>9, <1>10, TakenSound
<1>12. DOMAIN routes' = DOMAIN routes
  BY <1>2 DEF Taken
<1>13. /\ RoutesSound(routes', Range(selected')) /\ Listed(routes', selected', known')
       /\ Range(selected) \subseteq Range(selected')
  <2>1. CASE best = None
    BY <1>3, <1>9, <1>11, <1>12, <2>1 DEF Listed
  <2>2. CASE best # None
    <3>1. /\ best \in Range(known) /\ best \notin Range(selected) /\ best \in Address
          /\ selected' = <<best>> \o selected /\ known' = Keep(known, {best})
      BY <1>3, <1>7, <1>9, <1>10, <2>2 DEF RoutesSound, RoutesTyped
    <3>2. /\ selected' \in Seq(Address) /\ IsInjective(selected')
          /\ Range(selected') = Range(selected) \cup {best}
      BY <1>9, <3>1, FrontFacts DEF Listed
    <3>3. known' \in Seq(Address) /\ IsInjective(known') /\ Range(known') = Range(known) \ {best}
      BY <1>9, <3>1, KeepFacts DEF Listed
    <3>4. Listed(routes', selected', known')
      BY <1>9, <1>12, <3>1, <3>2, <3>3 DEF Listed
    <3> QED BY <1>11, <2>2, <3>2, <3>4
  <2> QED BY <2>1, <2>2
<1>14. CallTyped'
  <2>1. pc' \in {"another", "spurs"}
    BY <1>4
  <2> QED BY <1>1, <2>1 DEF MemoryInv, CallTyped
<1>15. Holding'
  <2>1. two' = two /\ two.candidates \in Seq(Range(selected')) /\ two.subset \in Seq(Range(selected'))
    BY <1>1, <1>5, <1>13
  <2>2. ASSUME lastRound, pc' = "another", NEW update, NEW performed,
               yen' = [yen EXCEPT !.todo = Tail(@), !.update = update, !.performed = performed]
        PROVE  Holding'
    <3>1. DOMAIN yen' = DOMAIN yen /\ yen'.todo = Tail(yen.todo) /\ yen'.at = yen.at
      BY <1>5, <2>2
    <3>2. yen'.todo \in Seq(Range(selected'))
      BY <1>6, <1>13, <3>1
    <3> QED BY <1>5, <2>1, <2>2, <3>1, <3>2 DEF Holding
  <2>3. CASE /\ ~ lastRound /\ pc' = "spurs"
             /\ yen' = [yen EXCEPT !.at = None, !.upper = routes[from].root, !.again = TRUE,
                                   !.allFound = FALSE]
    <3>1. DOMAIN yen' = DOMAIN yen /\ yen'.todo = yen.todo /\ yen'.at = None
      BY <1>5, <2>3
    <3>2. yen'.todo \in Seq(Range(selected')) /\ yen'.at \in Nat /\ yen'.todo # <<>>
      BY <1>5, <1>13, <3>1 DEF None
    <3>3. routes'[from].selChild = None
      <4>1. best = None
        BY <1>8, <2>3
      <4>2. routes[from] \in RouteType
        BY <1>6, <1>9 DEF RoutesSound, RoutesTyped
      <4>3. routes'[from].selChild = routes[from].selChild
        BY <1>2, <1>6, <4>1, <4>2 DEF Taken, RouteType
      <4> QED BY <1>5, <4>3
    <3>4. Head(yen'.todo) = from
      BY <3>1
    <3>5. pc' # "idle"
      BY <2>3
    <3> QED BY <1>5, <2>1, <3>1, <3>2, <3>3, <3>4, <3>5 DEF Holding
  <2> QED BY <1>4, <2>2, <2>3
<1> QED
  BY <1>13, <1>14, <1>15 DEF MemoryInv

-----------------------------------------------------------------------------
(* The theorem *)

LEMMA StepSound == MemoryInv /\ [Next]_vars => MemoryInv'
<1> SUFFICES ASSUME MemoryInv, [Next]_vars PROVE MemoryInv'
  OBVIOUS
<1>1. CASE Tick
  BY <1>1, TickSound
<1>2. CASE \E new \in agent.limits : EnableOneRoutePerNeighbor(new)
  BY <1>2, EnableSound
<1>3. CASE DisableOneRoutePerNeighbor
  BY <1>3, DisableSound
<1>4. CASE \E b \in agent.bundles : Call(b)
  BY <1>4, CallSound
<1>5. CASE PhaseTwo
  BY <1>5, PhaseTwoSound
<1>6. CASE PhaseOne
  BY <1>6, ComputeRoutesSound, OneRoutePerNeighborSound, AnotherRouteSound,
     EndOtherRoutesSound, SpurSound, TakeBestKnownSound DEF PhaseOne
<1>7. CASE Return
  BY <1>7, ReturnSound
<1>8. CASE UNCHANGED vars
  <2>1. /\ UNCHANGED <<agent, now, limit, contacts, routes, selected, known, bundle>>
        /\ UNCHANGED <<pc, two, yen>>
    BY <1>8 DEF vars, instance, tables
  <2> QED BY <2>1 DEF MemoryInv, CallTyped, Holding
<1> QED
  BY <1>1, <1>2, <1>3, <1>4, <1>5, <1>6, <1>7, <1>8 DEF Next

\* Whatever expires, is deleted with the route of a new neighbor or is dropped with a whole
\* list, between the calls or in the middle of one: each route in memory is in one of the
\* two lists, the pointers from route to route (update_references in routes.c) agree and
\* lead to routes that exist, and the routes that a call holds (the candidates of phase two,
\* what phase one starts again from) are selected ones.
THEOREM MemoryIsSound == Spec => []MemorySound
<1>1. Spec => []MemoryInv
  BY InitSound, StepSound, PTL DEF Spec
<1> QED
  BY <1>1, InvSound, PTL

=============================================================================
