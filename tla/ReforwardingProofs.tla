------------------------- MODULE ReforwardingProofs -------------------------
(***************************************************************************)
(* Whatever contacts, regions, routes and bundles there are, and however   *)
(* clones, edits, failures and restarts follow each other: the instances   *)
(* of Unibo-CGR and ION agree on the plan and on the volumes.              *)
(***************************************************************************)
EXTENDS Reforwarding, FiniteSetTheorems, TLAPS

\* What is inductive of the types.
Typed ==
  /\ DOMAIN ion \subseteq Contact /\ \A c \in DOMAIN ion : ion[c] \in Mtvs
  /\ DOMAIN inst = Region
  /\ \A i \in Region :
       DOMAIN inst[i] \subseteq Contact /\ \A c \in DOMAIN inst[i] : inst[i][c] \in Mtvs
  /\ DOMAIN copies \subseteq CopyId /\ \A id \in DOMAIN copies : copies[id] \in Copy
  /\ owed \in [Bundle -> [Contact -> Int]]
  /\ current \in BOOLEAN /\ leaking \in BOOLEAN /\ broken \in BOOLEAN

\* What an instance with plan p believes of contacts of region i, against ION with plan q.
Agree(i, p, q, exact) ==
  \A c \in DOMAIN p \cap DOMAIN q :
    RegionOf[c] = i /\ c \notin replaced =>
      /\ \A pr \in Priority : p[c][pr] <= q[c][pr]
      /\ exact => p[c] = q[c]

\* An instance's plan or ION's, with its volumes.
Plan(p) == DOMAIN p \subseteq Contact /\ \A c \in DOMAIN p : p[c] \in Mtvs

IInv == Typed /\ InstancesAgree /\ PlanLoaded

-----------------------------------------------------------------------------
(* Sums: what the library computes by recursion over the subsets of a finite set *)

AnyOf(s) == CHOOSE x \in s : TRUE

\* g holds the sum of f on every subset of S.
IsTable(f, S, g) ==
  g = [s \in SUBSET S |-> IF s = {} THEN 0 ELSE f[AnyOf(s)] + g[s \ {AnyOf(s)}]]

Table(f, S) == CHOOSE g : IsTable(f, S, g)

Sum(f, S) == SumFunctionOnSet(f, S)

\* Strict inclusion is well-founded on finite sets.
LEMMA SmallestSet ==
  ASSUME NEW S, NEW T, T \subseteq FiniteSubsetsOf(S), T # {}
  PROVE  \E m \in T : \A u \in T : u \subseteq m => u = m
<1>1. PICK m \in T : \A u \in T : <<u, m>> \notin StrictSubsetOrdering(S)
  BY FS_StrictSubsetOrderingWellFounded, WFMin
<1>2. T \subseteq SUBSET S
  BY DEF FiniteSubsetsOf
<1> QED
  BY <1>1, <1>2 DEF StrictSubsetOrdering

LEMMA AnyRest ==
  ASSUME NEW S, IsFiniteSet(S), NEW s \in SUBSET S, s # {}
  PROVE  /\ AnyOf(s) \in s /\ IsFiniteSet(s) /\ IsFiniteSet(s \ {AnyOf(s)})
         /\ s \ {AnyOf(s)} \in FiniteSubsetsOf(S) /\ s \ {AnyOf(s)} # s
<1>1. AnyOf(s) \in s
  <2>1. (CHOOSE x \in s : TRUE) \in s
    OBVIOUS
  <2> QED BY <2>1 DEF AnyOf
<1>2. IsFiniteSet(s) /\ IsFiniteSet(s \ {AnyOf(s)})
  BY FS_Subset
<1> QED
  BY <1>1, <1>2 DEF FiniteSubsetsOf

LEMMA TableUnique ==
  ASSUME NEW f, NEW U, NEW V, NEW g, NEW k, IsTable(f, U, g), IsTable(f, V, k),
         NEW s, IsFiniteSet(s), s \subseteq U, s \subseteq V
  PROVE  g[s] = k[s]
<1> DEFINE differ == {t \in FiniteSubsetsOf(s) : g[t] # k[t]}
<1>1. SUFFICES ASSUME differ # {} PROVE FALSE
  BY DEF FiniteSubsetsOf
<1>2. PICK m \in differ : \A u \in differ : u \subseteq m => u = m
  <2>1. differ \subseteq FiniteSubsetsOf(s)
    OBVIOUS
  <2> HIDE DEF differ
  <2> QED BY <1>1, <2>1, SmallestSet
<1>3. m \in SUBSET s /\ m \in SUBSET U /\ m \in SUBSET V
  BY DEF FiniteSubsetsOf
<1>4. /\ g[m] = IF m = {} THEN 0 ELSE f[AnyOf(m)] + g[m \ {AnyOf(m)}]
      /\ k[m] = IF m = {} THEN 0 ELSE f[AnyOf(m)] + k[m \ {AnyOf(m)}]
  <2>1. g[m] = IF m = {} THEN 0 ELSE f[AnyOf(m)] + g[m \ {AnyOf(m)}]
    BY <1>3 DEF IsTable
  <2>2. k[m] = IF m = {} THEN 0 ELSE f[AnyOf(m)] + k[m \ {AnyOf(m)}]
    BY <1>3 DEF IsTable
  <2> QED BY <2>1, <2>2
<1>5. CASE m = {}
  BY <1>4, <1>5
<1>6. CASE m # {}
  <2>1. m \ {AnyOf(m)} \in FiniteSubsetsOf(s) /\ m \ {AnyOf(m)} # m
    BY <1>3, <1>6, AnyRest
  <2>2. g[m \ {AnyOf(m)}] = k[m \ {AnyOf(m)}]
    BY <1>2, <2>1
  <2> QED BY <1>4, <1>6, <2>2
<1> QED
  BY <1>5, <1>6

LEMMA TableExists ==
  ASSUME NEW f, NEW S, IsFiniteSet(S)
  PROVE  IsTable(f, S, Table(f, S))
<1> DEFINE without == {t \in FiniteSubsetsOf(S) : ~ IsTable(f, t, Table(f, t))}
<1>1. SUFFICES ASSUME without # {} PROVE FALSE
  BY DEF FiniteSubsetsOf
<1>2. PICK m \in without : \A u \in without : u \subseteq m => u = m
  <2>1. without \subseteq FiniteSubsetsOf(S)
    OBVIOUS
  <2> HIDE DEF without
  <2> QED BY <1>1, <2>1, SmallestSet
<1>3. IsFiniteSet(m) /\ m \subseteq S
  BY DEF FiniteSubsetsOf
<1> DEFINE below(s) == Table(f, s)[s]
           h == [s \in SUBSET m |-> IF s = {} THEN 0 ELSE f[AnyOf(s)] + below(s \ {AnyOf(s)})]
<1>4. ASSUME NEW u \in FiniteSubsetsOf(m), u # m
      PROVE  IsTable(f, u, Table(f, u)) /\ IsFiniteSet(u)
  <2>1. u \in FiniteSubsetsOf(S) /\ u \subseteq m /\ IsFiniteSet(u)
    BY <1>3 DEF FiniteSubsetsOf
  <2>2. u \notin without
    BY <1>2, <1>4, <2>1
  <2> QED BY <2>1, <2>2
<1>5. ASSUME NEW u \in FiniteSubsetsOf(m), u # m
      PROVE  h[u] = below(u)
  <2>1. IsTable(f, u, Table(f, u)) /\ u \in SUBSET m /\ IsFiniteSet(u)
    BY <1>4, <1>5 DEF FiniteSubsetsOf
  <2>2. below(u) = IF u = {} THEN 0 ELSE f[AnyOf(u)] + Table(f, u)[u \ {AnyOf(u)}]
    BY <2>1 DEF IsTable
  <2>3. h[u] = IF u = {} THEN 0 ELSE f[AnyOf(u)] + below(u \ {AnyOf(u)})
    BY <2>1
  <2>4. CASE u = {}
    BY <2>2, <2>3, <2>4
  <2>5. CASE u # {}
    <3> DEFINE v == u \ {AnyOf(u)}
    <3>1. v \in FiniteSubsetsOf(m) /\ IsFiniteSet(v) /\ v # m /\ v \subseteq u
      BY <1>3, <2>1, <2>5, AnyRest
    <3>2. IsTable(f, v, Table(f, v))
      BY <1>4, <3>1
    <3>3. Table(f, u)[v] = Table(f, v)[v]
      <4> HIDE DEF v
      <4> QED BY <2>1, <3>1, <3>2, TableUnique
    <3> QED BY <2>2, <2>3, <2>5, <3>3
  <2> QED BY <2>4, <2>5
<1>6. IsTable(f, m, h)
  <2>1. ASSUME NEW s \in SUBSET m, s # {}
        PROVE  below(s \ {AnyOf(s)}) = h[s \ {AnyOf(s)}]
    <3>1. s \ {AnyOf(s)} \in FiniteSubsetsOf(m) /\ s \ {AnyOf(s)} # m
      BY <1>3, <2>1, AnyRest
    <3> HIDE DEF h, below
    <3> QED BY <1>5, <3>1
  <2>2. h = [s \in SUBSET m |-> IF s = {} THEN 0 ELSE f[AnyOf(s)] + h[s \ {AnyOf(s)}]]
    BY <2>1
  <2> HIDE DEF h
  <2> QED BY <2>2 DEF IsTable
<1>7. IsTable(f, m, Table(f, m))
  <2> HIDE DEF h
  <2> QED BY <1>6 DEF Table
<1> QED
  BY <1>7

\* The library's sum, unfolded.
LEMMA SumTable ==
  ASSUME NEW f, NEW S
  PROVE  Sum(f, S) = Table(f, S)[S]
BY DEF Sum, SumFunctionOnSet, FoldFunctionOnSet, MapThenFoldSet, Table, IsTable, AnyOf

LEMMA SumUnfolds ==
  ASSUME NEW f, NEW S, IsFiniteSet(S)
  PROVE  Sum(f, S) = IF S = {} THEN 0 ELSE f[AnyOf(S)] + Sum(f, S \ {AnyOf(S)})
<1>1. IsTable(f, S, Table(f, S))
  BY TableExists
<1>2. Table(f, S)[S] = IF S = {} THEN 0 ELSE f[AnyOf(S)] + Table(f, S)[S \ {AnyOf(S)}]
  BY <1>1 DEF IsTable
<1>3. CASE S # {}
  <2> DEFINE rest == S \ {AnyOf(S)}
  <2>1. IsFiniteSet(rest) /\ rest \subseteq S
    BY <1>3, AnyRest
  <2> HIDE DEF rest
  <2>2. Table(f, S)[rest] = Table(f, rest)[rest]
    BY <1>1, <2>1, TableExists, TableUnique
  <2> QED BY <1>2, <1>3, <2>2, SumTable DEF rest
<1> QED
  BY <1>2, <1>3, SumTable

LEMMA SumInteger ==
  ASSUME NEW f, NEW S, IsFiniteSet(S), \A x \in S : f[x] \in Int
  PROVE  Sum(f, S) \in Int
<1> DEFINE other == {t \in FiniteSubsetsOf(S) : Sum(f, t) \notin Int}
<1>1. SUFFICES ASSUME other # {} PROVE FALSE
  BY DEF FiniteSubsetsOf
<1>2. PICK m \in other : \A u \in other : u \subseteq m => u = m
  <2>1. other \subseteq FiniteSubsetsOf(S)
    OBVIOUS
  <2> HIDE DEF other
  <2> QED BY <1>1, <2>1, SmallestSet
<1>3. IsFiniteSet(m) /\ m \in SUBSET S
  BY DEF FiniteSubsetsOf
<1>4. Sum(f, m) = IF m = {} THEN 0 ELSE f[AnyOf(m)] + Sum(f, m \ {AnyOf(m)})
  BY <1>3, SumUnfolds
<1>5. CASE m # {}
  <2>1. /\ AnyOf(m) \in S /\ m \ {AnyOf(m)} \in FiniteSubsetsOf(S) /\ m \ {AnyOf(m)} # m
    BY <1>3, <1>5, AnyRest
  <2>2. Sum(f, m \ {AnyOf(m)}) \in Int
    BY <1>2, <2>1
  <2> QED BY <1>4, <1>5, <2>1, <2>2
<1> QED
  BY <1>4, <1>5

\* Any element can be taken out of a sum.
LEMMA SumRemove ==
  ASSUME NEW f, NEW S, IsFiniteSet(S), \A x \in S : f[x] \in Int, NEW x \in S
  PROVE  Sum(f, S) = f[x] + Sum(f, S \ {x})
<1> DEFINE stuck == {t \in FiniteSubsetsOf(S) : \E y \in t : Sum(f, t) # f[y] + Sum(f, t \ {y})}
<1>1. SUFFICES ASSUME stuck # {} PROVE FALSE
  BY DEF FiniteSubsetsOf
<1>2. PICK m \in stuck : \A u \in stuck : u \subseteq m => u = m
  <2>1. stuck \subseteq FiniteSubsetsOf(S)
    OBVIOUS
  <2> HIDE DEF stuck
  <2> QED BY <1>1, <2>1, SmallestSet
<1>3. IsFiniteSet(m) /\ m \in SUBSET S
  BY DEF FiniteSubsetsOf
<1>4. PICK y \in m : Sum(f, m) # f[y] + Sum(f, m \ {y})
  OBVIOUS
<1> DEFINE z == AnyOf(m)
<1>5. z \in m /\ Sum(f, m) = f[z] + Sum(f, m \ {z})
  BY <1>3, <1>4, AnyRest, SumUnfolds
<1>6. y # z
  BY <1>4, <1>5
<1>7. ASSUME NEW a \in m, NEW b \in m, a # b
      PROVE  Sum(f, m \ {a}) = f[b] + Sum(f, (m \ {a}) \ {b})
  <2>1. m \ {a} \in FiniteSubsetsOf(S) /\ m \ {a} \subseteq m /\ m \ {a} # m
    BY <1>3, FS_RemoveElement DEF FiniteSubsetsOf
  <2>2. m \ {a} \notin stuck
    BY <1>2, <2>1
  <2> QED BY <1>7, <2>1, <2>2
<1>8. (m \ {y}) \ {z} = (m \ {z}) \ {y}
  OBVIOUS
<1> HIDE DEF z, stuck
<1>9. /\ Sum(f, m \ {z}) = f[y] + Sum(f, (m \ {z}) \ {y})
      /\ Sum(f, m \ {y}) = f[z] + Sum(f, (m \ {z}) \ {y})
  BY <1>5, <1>6, <1>7, <1>8
<1>10. /\ Sum(f, (m \ {z}) \ {y}) \in Int /\ f[y] \in Int /\ f[z] \in Int
  <2>1. IsFiniteSet((m \ {z}) \ {y}) /\ \A a \in (m \ {z}) \ {y} : f[a] \in Int
    BY <1>3, FS_RemoveElement
  <2> QED BY <1>3, <1>5, <2>1, SumInteger
<1> QED
  BY <1>4, <1>5, <1>9, <1>10

LEMMA SumMonotone ==
  ASSUME NEW f, NEW g, NEW S, IsFiniteSet(S),
         \A x \in S : f[x] \in Int /\ g[x] \in Int /\ f[x] <= g[x]
  PROVE  Sum(f, S) <= Sum(g, S)
<1> DEFINE above == {t \in FiniteSubsetsOf(S) : ~ (Sum(f, t) <= Sum(g, t))}
<1>1. SUFFICES ASSUME above # {} PROVE FALSE
  BY DEF FiniteSubsetsOf
<1>2. PICK m \in above : \A u \in above : u \subseteq m => u = m
  <2>1. above \subseteq FiniteSubsetsOf(S)
    OBVIOUS
  <2> HIDE DEF above
  <2> QED BY <1>1, <2>1, SmallestSet
<1>3. IsFiniteSet(m) /\ m \in SUBSET S
  BY DEF FiniteSubsetsOf
<1>4. /\ Sum(f, m) = IF m = {} THEN 0 ELSE f[AnyOf(m)] + Sum(f, m \ {AnyOf(m)})
      /\ Sum(g, m) = IF m = {} THEN 0 ELSE g[AnyOf(m)] + Sum(g, m \ {AnyOf(m)})
  BY <1>3, SumUnfolds
<1>5. CASE m # {}
  <2> DEFINE rest == m \ {AnyOf(m)}
  <2>1. /\ AnyOf(m) \in S /\ rest \in FiniteSubsetsOf(S) /\ rest # m /\ rest \subseteq m
        /\ IsFiniteSet(rest) /\ rest \subseteq S
    BY <1>3, <1>5, AnyRest
  <2> HIDE DEF rest
  <2>2. Sum(f, rest) <= Sum(g, rest)
    BY <1>2, <2>1
  <2>3. Sum(f, rest) \in Int /\ Sum(g, rest) \in Int
    BY <2>1, SumInteger
  <2> QED BY <1>4, <1>5, <2>1, <2>2, <2>3 DEF rest
<1> QED
  BY <1>4, <1>5

LEMMA SumEmpty == ASSUME NEW f PROVE Sum(f, {}) = 0
BY SumUnfolds, FS_EmptySet

\* Nothing adds up to nothing.
LEMMA SumZero ==
  ASSUME NEW f, NEW S, IsFiniteSet(S), \A x \in S : f[x] = 0
  PROVE  Sum(f, S) = 0
<1> DEFINE other == {t \in FiniteSubsetsOf(S) : Sum(f, t) # 0}
<1>1. SUFFICES ASSUME other # {} PROVE FALSE
  BY DEF FiniteSubsetsOf
<1>2. PICK m \in other : \A u \in other : u \subseteq m => u = m
  <2>1. other \subseteq FiniteSubsetsOf(S)
    OBVIOUS
  <2> HIDE DEF other
  <2> QED BY <1>1, <2>1, SmallestSet
<1>3. IsFiniteSet(m) /\ m \in SUBSET S
  BY DEF FiniteSubsetsOf
<1>4. Sum(f, m) = IF m = {} THEN 0 ELSE f[AnyOf(m)] + Sum(f, m \ {AnyOf(m)})
  BY <1>3, SumUnfolds
<1>5. CASE m # {}
  <2>1. /\ AnyOf(m) \in S /\ m \ {AnyOf(m)} \in FiniteSubsetsOf(S) /\ m \ {AnyOf(m)} # m
    BY <1>3, <1>5, AnyRest
  <2>2. Sum(f, m \ {AnyOf(m)}) = 0
    BY <1>2, <2>1
  <2> QED BY <1>4, <1>5, <2>1, <2>2
<1> QED
  BY <1>4, <1>5

\* Two functions that differ in one place.
LEMMA SumChange ==
  ASSUME NEW f, NEW g, NEW S, IsFiniteSet(S), \A y \in S : f[y] \in Int /\ g[y] \in Int,
         NEW x, \A y \in S \ {x} : f[y] = g[y]
  PROVE  /\ Sum(g, S) = Sum(f, S) + (IF x \in S THEN g[x] - f[x] ELSE 0)
         /\ Sum(g, S) \in Int /\ Sum(f, S) \in Int
<1>1. IsFiniteSet(S \ {x})
  BY FS_RemoveElement
<1>2. Sum(f, S) \in Int /\ Sum(g, S) \in Int
  BY SumInteger
<1>3. Sum(f, S \ {x}) = Sum(g, S \ {x})
  <2> DEFINE rest == S \ {x}
  <2>1. IsFiniteSet(rest) /\ \A y \in rest : f[y] \in Int /\ g[y] \in Int /\ f[y] = g[y]
    BY <1>1
  <2> HIDE DEF rest
  <2>2. \A y \in rest : f[y] <= g[y] /\ g[y] <= f[y]
    BY <2>1
  <2>3. Sum(f, rest) <= Sum(g, rest) /\ Sum(g, rest) <= Sum(f, rest)
    BY <2>1, <2>2, SumMonotone
  <2>4. Sum(f, rest) \in Int /\ Sum(g, rest) \in Int
    BY <2>1, SumInteger
  <2>5. Sum(f, rest) = Sum(g, rest)
    BY <2>3, <2>4
  <2> QED BY <2>5 DEF rest
<1>4. CASE x \in S
  <2>1. Sum(f, S) = f[x] + Sum(f, S \ {x}) /\ Sum(g, S) = g[x] + Sum(g, S \ {x})
    BY <1>4, SumRemove
  <2>2. Sum(f, S \ {x}) \in Int /\ f[x] \in Int /\ g[x] \in Int
    BY <1>1, <1>4, SumInteger
  <2> QED BY <1>2, <1>3, <1>4, <2>1, <2>2
<1>5. CASE x \notin S
  <2>1. S \ {x} = S
    BY <1>5
  <2> QED BY <1>2, <1>3, <1>5, <2>1
<1> QED
  BY <1>4, <1>5

-----------------------------------------------------------------------------
(* Volumes *)

LEMMA EvcNatural == \A part \in Part : Evc(part) \in Nat /\ Payload(part) \in Nat
BY DEF Evc, Payload

LEMMA UsedEvcNatural ==
  ASSUME NEW copy \in Copy
  PROVE  UsedEvc(copy) \in Nat
BY EvcNatural DEF Copy, Object, UsedEvc

LEMMA RouteFinite ==
  /\ IsFiniteSet(Route)
  /\ \A r \in Route \cup {{}} : IsFiniteSet(r) /\ r \subseteq Contact
<1>1. IsFiniteSet(SUBSET Contact)
  BY FS_SUBSET, ReforwardingAssumption
<1>2. IsFiniteSet(Route)
  BY <1>1, FS_Subset, ReforwardingAssumption
<1>3. ASSUME NEW r \in Route \cup {{}} PROVE IsFiniteSet(r) /\ r \subseteq Contact
  BY FS_Subset, ReforwardingAssumption
<1> QED
  BY <1>2, <1>3

LEMMA GivenBackNatural ==
  ASSUME NEW copy \in Copy, NEW c
  PROVE  GivenBack(copy, c) \in Nat
<1>1. UsedEvc(copy) \in Nat
  BY UsedEvcNatural
<1> DEFINE hops == {hop \in copy.last : c \in Near[hop]}
<1>2. IsFiniteSet(copy.last) /\ hops \in SUBSET copy.last
  BY RouteFinite DEF Copy
<1>3. Cardinality(hops) \in Nat
  <2> HIDE DEF hops
  <2> QED BY <1>2, FS_Subset, FS_CardinalityType
<1>4. GivenBack(copy, c) = IF copy.bundle \in Critical THEN 0 ELSE Cardinality(hops) * UsedEvc(copy)
  BY DEF GivenBack
<1> HIDE DEF hops
<1>5. \A a, b \in Nat : a * b \in Nat
  OBVIOUS
<1> QED
  BY <1>1, <1>3, <1>4, <1>5

LEMMA ChangedTyped ==
  ASSUME NEW mtv \in Mtvs, NEW b \in Bundle, NEW amount \in Int
  PROVE  /\ Changed(mtv, b, amount) \in Mtvs
         /\ amount = 0 => Changed(mtv, b, amount) = mtv
<1>1. PriorityOf[b] \in Priority
  BY ReforwardingAssumption
<1>2. \A p \in Priority : mtv[p] \in Int /\ p \in Int
  BY DEF Mtvs, Priority
<1>3. Changed(mtv, b, amount) \in Mtvs
  BY <1>2 DEF Changed, Mtvs
<1>4. ASSUME amount = 0 PROVE Changed(mtv, b, amount) = mtv
  <2>1. \A p \in Priority : mtv[p] + amount = mtv[p]
    BY <1>2, <1>4
  <2>2. Changed(mtv, b, amount) = [p \in Priority |-> mtv[p]]
    BY <2>1 DEF Changed
  <2> QED BY <2>2 DEF Mtvs
<1> QED
  BY <1>3, <1>4

LEMMA RefilledTyped ==
  ASSUME NEW p, Plan(p), NEW copy \in Copy
  PROVE  /\ Plan(Refilled(p, copy)) /\ DOMAIN Refilled(p, copy) = DOMAIN p
         /\ \A c \in DOMAIN p :
              /\ Refilled(p, copy)[c] = Changed(p[c], copy.bundle, GivenBack(copy, c))
              /\ GivenBack(copy, c) = 0 => Refilled(p, copy)[c] = p[c]
<1>1. ASSUME NEW c \in DOMAIN p
      PROVE  /\ Changed(p[c], copy.bundle, GivenBack(copy, c)) \in Mtvs
             /\ GivenBack(copy, c) = 0
                  => Changed(p[c], copy.bundle, GivenBack(copy, c)) = p[c]
  <2>1. GivenBack(copy, c) \in Int /\ p[c] \in Mtvs /\ copy.bundle \in Bundle
    BY GivenBackNatural DEF Plan, Copy
  <2> QED BY <2>1, ChangedTyped
<1> QED
  BY <1>1 DEF Refilled, Plan

\* How many of the routes pass by c.
LEMMA PassingNatural ==
  ASSUME NEW routes \in SUBSET Route, NEW c
  PROVE  /\ IsFiniteSet({r \in routes : c \in r})
         /\ Cardinality({r \in routes : c \in r}) \in Nat
         /\ (\A r \in routes : c \notin r) => Cardinality({r \in routes : c \in r}) = 0
<1> DEFINE passing == {r \in routes : c \in r}
<1>1. passing \in SUBSET Route
  OBVIOUS
<1>2. (\A r \in routes : c \notin r) => passing = {}
  OBVIOUS
<1> HIDE DEF passing
<1>3. IsFiniteSet(passing)
  BY <1>1, RouteFinite, FS_Subset
<1> QED
  BY <1>2, <1>3, FS_CardinalityType, FS_EmptySet DEF passing

LEMMA BookedTyped ==
  ASSUME NEW p, Plan(p), NEW copy \in Copy, NEW routes \in SUBSET Route
  PROVE  /\ Plan(Booked(p, copy, routes)) /\ DOMAIN Booked(p, copy, routes) = DOMAIN p
         /\ \A c \in DOMAIN p : (\A r \in routes : c \notin r) => Booked(p, copy, routes)[c] = p[c]
<1> DEFINE amount(c) == - Cardinality({r \in routes : c \in r}) * Evc(copy.part)
<1>1. ASSUME NEW c \in DOMAIN p
      PROVE  /\ Changed(p[c], copy.bundle, amount(c)) \in Mtvs
             /\ (\A r \in routes : c \notin r) => Changed(p[c], copy.bundle, amount(c)) = p[c]
  <2>1. Evc(copy.part) \in Nat /\ p[c] \in Mtvs /\ copy.bundle \in Bundle
    BY EvcNatural DEF Plan, Copy
  <2>2. amount(c) \in Int /\ ((\A r \in routes : c \notin r) => amount(c) = 0)
    <3>1. /\ Cardinality({r \in routes : c \in r}) \in Nat
          /\ (\A r \in routes : c \notin r) => Cardinality({r \in routes : c \in r}) = 0
      BY PassingNatural
    <3>2. \A n, e \in Nat : - n * e \in Int /\ (n = 0 => - n * e = 0)
      OBVIOUS
    <3> HIDE DEF Evc
    <3> QED BY <2>1, <3>1, <3>2
  <2> HIDE DEF amount
  <2> QED BY <2>1, <2>2, ChangedTyped
<1> QED
  BY <1>1 DEF Booked, Plan

\* Who books more routes believes that less is left.
LEMMA BookedLess ==
  ASSUME NEW p, Plan(p), NEW q, Plan(q), NEW copy \in Copy,
         NEW chosen \in SUBSET Route, NEW routes \in SUBSET chosen,
         NEW c \in DOMAIN p \cap DOMAIN q, NEW pr \in Priority, p[c][pr] <= q[c][pr]
  PROVE  Booked(p, copy, chosen)[c][pr] <= Booked(q, copy, routes)[c][pr]
<1> DEFINE few == {r \in routes : c \in r}
           many == {r \in chosen : c \in r}
<1>1. Cardinality(few) \in Nat /\ Cardinality(many) \in Nat /\ Cardinality(few) <= Cardinality(many)
  <2>1. few \in SUBSET many
    OBVIOUS
  <2>2. IsFiniteSet(many) /\ Cardinality(many) \in Nat /\ Cardinality(few) \in Nat
    BY PassingNatural
  <2> HIDE DEF few, many
  <2> QED BY <2>1, <2>2, FS_Subset
<1>2. Evc(copy.part) \in Nat /\ p[c][pr] \in Int /\ q[c][pr] \in Int
  BY EvcNatural DEF Plan, Mtvs, Copy
<1>3. /\ Booked(p, copy, chosen)[c] = Changed(p[c], copy.bundle, - Cardinality(many) * Evc(copy.part))
      /\ Booked(q, copy, routes)[c] = Changed(q[c], copy.bundle, - Cardinality(few) * Evc(copy.part))
  BY DEF Booked
<1> HIDE DEF few, many
<1>4. ASSUME NEW n \in Nat, NEW m \in Nat, m <= n, NEW e \in Nat, NEW x \in Int, NEW y \in Int, x <= y
      PROVE  x + (- n * e) <= y + (- m * e)
  <2>1. m * e <= n * e /\ m * e \in Nat /\ n * e \in Nat
    BY <1>4
  <2>2. - n * e = - (n * e) /\ - m * e = - (m * e)
    BY <1>4
  <2> QED BY <1>4, <2>1, <2>2
<1>5. p[c][pr] + (- Cardinality(many) * Evc(copy.part))
        <= q[c][pr] + (- Cardinality(few) * Evc(copy.part))
  BY <1>1, <1>2, <1>4
<1> QED
  BY <1>3, <1>5 DEF Changed

-----------------------------------------------------------------------------
(* The steps of a routing call *)

\* Giving back makes ION's volumes those of the instance, where anything is given back, and
\* touches no other region.
LEMMA RefilledAgree ==
  ASSUME Plan(ion), NEW p, Plan(p), NEW i \in Region, NEW copy \in Copy,
         NEW exact \in BOOLEAN, Agree(i, p, ion, exact)
  PROVE  /\ Plan(IonRefilled(i, p, copy)) /\ DOMAIN IonRefilled(i, p, copy) = DOMAIN ion
         /\ \A c \in DOMAIN ion : RegionOf[c] # i => IonRefilled(i, p, copy)[c] = ion[c]
         /\ Agree(i, Refilled(p, copy), IonRefilled(i, p, copy), exact)
<1> DEFINE q == IonRefilled(i, p, copy)
           r == Refilled(p, copy)
<1>1. /\ Plan(r) /\ DOMAIN r = DOMAIN p
      /\ \A c \in DOMAIN p : GivenBack(copy, c) = 0 => r[c] = p[c]
  BY RefilledTyped
<1>2. DOMAIN q = DOMAIN ion
      /\ \A c \in DOMAIN ion :
           q[c] = IF RegionOf[c] = i /\ c \in DOMAIN p /\ GivenBack(copy, c) > 0 THEN r[c] ELSE ion[c]
  BY DEF IonRefilled, FoundInIon
<1> HIDE DEF q, r
<1>3. Plan(q)
  BY <1>1, <1>2 DEF Plan
<1>4. ASSUME NEW c \in DOMAIN r \cap DOMAIN q, RegionOf[c] = i, c \notin replaced
      PROVE  /\ \A pr \in Priority : r[c][pr] <= q[c][pr]
             /\ exact => r[c] = q[c]
  <2>1. GivenBack(copy, c) \in Nat
    BY GivenBackNatural
  <2>2. CASE GivenBack(copy, c) > 0
    <3>1. q[c] = r[c] /\ r[c] \in Mtvs
      BY <1>1, <1>2, <1>4, <2>2 DEF Plan
    <3> QED BY <3>1 DEF Mtvs
  <2>3. CASE GivenBack(copy, c) = 0
    <3>1. r[c] = p[c] /\ q[c] = ion[c] /\ c \in DOMAIN p \cap DOMAIN ion
      BY <1>1, <1>2, <2>3
    <3> QED BY <1>4, <3>1 DEF Agree
  <2> QED BY <2>1, <2>2, <2>3
<1>5. Agree(i, r, q, exact)
  BY <1>4 DEF Agree
<1> QED
  BY <1>2, <1>3, <1>5 DEF q, r

\* A call that succeeds books the same in ION and in the instance, one that does not books
\* nothing in ION.
LEMMA BookedAgree ==
  ASSUME NEW p, Plan(p), NEW q, Plan(q), NEW i \in Region, NEW copy \in Copy,
         NEW exact \in BOOLEAN, Agree(i, p, q, exact),
         NEW chosen \in SUBSET Route, NEW routes \in SUBSET chosen,
         NEW same \in BOOLEAN, same => routes = chosen
  PROVE  Agree(i, Booked(p, copy, chosen), Booked(q, copy, routes), exact /\ same)
<1>1. /\ DOMAIN Booked(p, copy, chosen) = DOMAIN p /\ DOMAIN Booked(q, copy, routes) = DOMAIN q
  BY BookedTyped
<1>2. ASSUME NEW c \in DOMAIN p \cap DOMAIN q, RegionOf[c] = i, c \notin replaced
      PROVE  /\ \A pr \in Priority :
                  Booked(p, copy, chosen)[c][pr] <= Booked(q, copy, routes)[c][pr]
             /\ exact /\ same => Booked(p, copy, chosen)[c] = Booked(q, copy, routes)[c]
  <2>1. ASSUME NEW pr \in Priority
        PROVE  Booked(p, copy, chosen)[c][pr] <= Booked(q, copy, routes)[c][pr]
    <3>1. p[c][pr] <= q[c][pr]
      BY <1>2 DEF Agree
    <3> QED BY <3>1, BookedLess
  <2>2. ASSUME exact, same PROVE Booked(p, copy, chosen)[c] = Booked(q, copy, routes)[c]
    BY <1>2, <2>2 DEF Agree, Booked
  <2> QED BY <2>1, <2>2
<1> QED
  BY <1>1, <1>2 DEF Agree

\* What update_contact_plan leaves behind.
LEMMA Updated ==
  ASSUME IInv, NEW plans \in UpdatedPlans
  PROVE  /\ DOMAIN plans = Region /\ \A i \in Region : Plan(plans[i])
         /\ \A i \in Region :
              Agree(i, plans[i], ion, ~ (leaking /\ current) /\ ~ (broken /\ current))
         /\ ~ (broken /\ current) =>
              \A i \in Region : DOMAIN ion = DOMAIN plans[i] \ (IF current THEN expired ELSE {})
<1>1. CASE current
  <2>1. plans = inst
    BY <1>1 DEF UpdatedPlans
  <2> QED BY <1>1, <2>1 DEF IInv, Typed, Plan, InstancesAgree, Agree, PlanLoaded
<1>2. CASE ~ current
  <2>1. plans = [i \in Region |-> ion]
    BY <1>2 DEF UpdatedPlans, Reloaded
  <2>2. \A c \in DOMAIN ion, pr \in Priority : ion[c][pr] <= ion[c][pr]
    BY DEF IInv, Typed, Mtvs
  <2> QED BY <1>2, <2>1, <2>2 DEF IInv, Typed, Plan, Agree
<1> QED
  BY <1>1, <1>2

\* The routes that are chosen are routes; a call that succeeds lost none in the conversion.
LEMMA ChosenRoutes ==
  ASSUME NEW plan, NEW copy \in Copy, NEW i, NEW chosen \in Selections(plan, copy)
  PROVE  /\ chosen \in SUBSET Route /\ Converted(i, chosen) \in SUBSET chosen
         /\ Managed(copy, Converted(i, chosen)) =>
              Converted(i, chosen) = chosen /\ \E r \in Route : chosen = {r}
         /\ \A r \in Converted(i, chosen) : \A c \in r : RegionOf[c] = i
<1>1. chosen \in SUBSET Route
  BY DEF Selections
<1>2. Converted(i, chosen) \in SUBSET chosen
  BY DEF Converted
<1>3. ASSUME Managed(copy, Converted(i, chosen))
      PROVE  Converted(i, chosen) = chosen /\ \E r \in Route : chosen = {r}
  <2>1. copy.bundle \notin Critical /\ Converted(i, chosen) # {}
    BY <1>3 DEF Managed
  <2>2. PICK r : chosen = {r}
    BY <1>2, <2>1 DEF Selections
  <2> QED BY <1>1, <1>2, <2>1, <2>2
<1> QED
  BY <1>1, <1>2, <1>3 DEF Converted, FoundInIon

LEMMA NewObjectTyped == NewObject \in Object
BY DEF NewObject, Object, Part

LEMMA AsReadTyped ==
  ASSUME NEW copy \in Copy
  PROVE  AsRead(copy) \in Copy /\ AsRead(copy).bundle = copy.bundle
<1>1. [copy EXCEPT !.object = NewObject] \in Copy /\ [copy EXCEPT !.object = NewObject].bundle = copy.bundle
  BY NewObjectTyped DEF Copy
<1> QED
  BY <1>1 DEF AsRead

LEMMA RouteCopyAgree ==
  ASSUME IInv, NEW id \in DOMAIN copies, HasInstance(copies[id].bundle),
         NEW plans \in UpdatedPlans, RouteCopy(id, plans),
         broken' = (broken /\ current), UNCHANGED replaced
  PROVE  /\ DOMAIN inst' = Region /\ \A i \in Region : Plan(inst'[i]) /\ DOMAIN inst'[i] = DOMAIN plans[i]
         /\ Plan(ion') /\ DOMAIN ion' = DOMAIN ion /\ leaking' \in BOOLEAN
         /\ \A i \in Region : Agree(i, inst'[i], ion', ~ leaking' /\ ~ broken')
<1> DEFINE copy == copies[id]
           i == RegionTo[copy.bundle]
           before == AsRead(copy)
           plan == Refilled(plans[i], before)
           ionBefore == IonRefilled(i, plans[i], before)
           exact == ~ (leaking /\ current) /\ ~ (broken /\ current)
<1>1. PICK chosen \in Selections(plan, copy) :
        LET routes == Converted(i, chosen)
            done == Managed(copy, routes)
        IN
        /\ inst' = [plans EXCEPT ![i] = Booked(plan, copy, chosen)]
        /\ ion' = IF done THEN Booked(ionBefore, copy, routes) ELSE ionBefore
        /\ leaking' = ((leaking /\ current) \/ (chosen # {} /\ ~done))
  BY DEF RouteCopy
<1> DEFINE routes == Converted(i, chosen)
           done == Managed(copy, routes)
           booked == IF done THEN routes ELSE {}
           same == done \/ chosen = {}
<1>2. i \in Region /\ copy \in Copy /\ before \in Copy
  <2>1. copy \in Copy /\ i \in Region
    BY DEF IInv, Typed, HasInstance
  <2>2. before \in Copy
    BY <2>1, AsReadTyped
  <2> QED BY <2>1, <2>2
<1>3. /\ inst' = [plans EXCEPT ![i] = Booked(plan, copy, chosen)]
      /\ ion' = IF done THEN Booked(ionBefore, copy, routes) ELSE ionBefore
      /\ leaking' = ((leaking /\ current) \/ (chosen # {} /\ ~done))
  BY <1>1
<1> HIDE DEF copy, i, before
<1>4. /\ DOMAIN plans = Region /\ \A j \in Region : Plan(plans[j])
      /\ \A j \in Region : Agree(j, plans[j], ion, exact)
  BY Updated
<1>5. /\ chosen \in SUBSET Route /\ routes \in SUBSET chosen
      /\ done => routes = chosen
      /\ \A r \in routes : \A c \in r : RegionOf[c] = i
  BY <1>2, ChosenRoutes
<1>6. Plan(ion)
  BY DEF IInv, Typed, Plan
<1>7. exact \in BOOLEAN /\ same \in BOOLEAN
  BY DEF IInv, Typed, Managed
<1> HIDE DEF exact, routes, done
<1>8. /\ Plan(ionBefore) /\ DOMAIN ionBefore = DOMAIN ion
      /\ \A c \in DOMAIN ion : RegionOf[c] # i => ionBefore[c] = ion[c]
      /\ Agree(i, plan, ionBefore, exact)
      /\ Plan(plan) /\ DOMAIN plan = DOMAIN plans[i]
  BY <1>2, <1>4, <1>6, <1>7, RefilledAgree, RefilledTyped
<1> HIDE DEF plan, ionBefore
<1>9. ion' = Booked(ionBefore, copy, booked) /\ booked \in SUBSET chosen /\ (same => booked = chosen)
      /\ \A r \in booked : \A c \in r : RegionOf[c] = i
  <2>1. CASE done
    BY <1>3, <1>5, <2>1
  <2>2. CASE ~ done
    <3>1. Booked(ionBefore, copy, {}) = ionBefore
      <4>1. \A c \in DOMAIN ionBefore : Booked(ionBefore, copy, {})[c] = ionBefore[c]
        BY <1>2, <1>8, BookedTyped
      <4>2. ionBefore = [c \in DOMAIN ionBefore |-> ionBefore[c]]
        BY DEF ionBefore, IonRefilled
      <4>3. Booked(ionBefore, copy, {}) = [c \in DOMAIN ionBefore |-> Booked(ionBefore, copy, {})[c]]
        BY DEF Booked
      <4> QED BY <4>1, <4>2, <4>3
    <3> QED BY <1>3, <2>2, <3>1
  <2> QED BY <2>1, <2>2
<1> HIDE DEF booked, same
<1>10. /\ Plan(ion') /\ DOMAIN ion' = DOMAIN ion
       /\ \A c \in DOMAIN ion : RegionOf[c] # i => ion'[c] = ion[c]
  <2>1. booked \in SUBSET Route
    BY <1>5, <1>9
  <2>2. /\ Plan(ion') /\ DOMAIN ion' = DOMAIN ionBefore
        /\ \A c \in DOMAIN ionBefore : (\A r \in booked : c \notin r) => ion'[c] = ionBefore[c]
    BY <1>2, <1>8, <1>9, <2>1, BookedTyped
  <2> QED BY <1>8, <1>9, <2>2
<1>11. /\ DOMAIN inst' = Region
       /\ inst'[i] = Booked(plan, copy, chosen) /\ Plan(inst'[i]) /\ DOMAIN inst'[i] = DOMAIN plans[i]
       /\ \A j \in Region \ {i} : inst'[j] = plans[j]
  <2>1. Plan(Booked(plan, copy, chosen)) /\ DOMAIN Booked(plan, copy, chosen) = DOMAIN plans[i]
    BY <1>2, <1>5, <1>8, BookedTyped
  <2> QED BY <1>2, <1>3, <1>4, <2>1
<1>12. ~ leaking' /\ ~ broken' => exact /\ same
  BY <1>3 DEF exact, same
<1>13. leaking' \in BOOLEAN
  BY <1>3
<1>14. Agree(i, inst'[i], ion', exact /\ same)
  BY <1>2, <1>5, <1>7, <1>8, <1>9, <1>11, BookedAgree
<1>15. ASSUME NEW j \in Region PROVE Agree(j, inst'[j], ion', ~ leaking' /\ ~ broken')
  <2>1. CASE j = i
    BY <1>12, <1>14, <2>1 DEF Agree
  <2>2. CASE j # i
    <3>1. Agree(j, plans[j], ion, exact)
      BY <1>4
    <3> QED BY <1>10, <1>11, <1>12, <2>2, <3>1 DEF Agree
  <2> QED BY <2>1, <2>2
<1> QED
  BY <1>4, <1>10, <1>11, <1>13, <1>15

-----------------------------------------------------------------------------
(* The records *)

\* The objects that clones, fragments and routing calls leave behind.
LEMMA ObjectsTyped ==
  ASSUME NEW copy \in Copy, NEW part \in Part
  PROVE  /\ Read(copy) \in Object /\ Copied(copy.object) \in Object
         /\ \A object \in Object : SetUsedEvc(object, part) \in Object
<1>1. copy.object \in Object
  BY DEF Copy
<1>2. Read(copy) \in Object
  <2>1. [copy.object EXCEPT !.cloneLevel = 2, !.evc = 0, !.readLock = FALSE] \in Object
    <3>1. [copy.object EXCEPT !.cloneLevel = 2] \in Object
      BY <1>1 DEF Object
    <3>2. [copy.object EXCEPT !.cloneLevel = 2, !.evc = 0] \in Object
      BY <3>1 DEF Object
    <3> QED BY <3>2 DEF Object
  <2>2. [copy.object EXCEPT !.readLock = FALSE] \in Object
    BY <1>1 DEF Object
  <2> QED BY <1>1, <2>1, <2>2 DEF Read
<1>3. Copied(copy.object) \in Object
  BY <1>1 DEF Copied, Object
<1>4. ASSUME NEW object \in Object PROVE SetUsedEvc(object, part) \in Object
  BY <1>4, EvcNatural DEF SetUsedEvc, Object
<1> QED
  BY <1>2, <1>3, <1>4

LEMMA RouteCopyTyped ==
  ASSUME IInv, NEW id \in DOMAIN copies, HasInstance(copies[id].bundle),
         NEW plans \in UpdatedPlans, RouteCopy(id, plans)
  PROVE  /\ DOMAIN copies' = DOMAIN copies /\ \A j \in DOMAIN copies : copies'[j] \in Copy
         /\ owed' \in [Bundle -> [Contact -> Int]]
<1> DEFINE copy == copies[id]
           b == copy.bundle
           i == RegionTo[b]
           before == AsRead(copy)
           plan == Refilled(plans[i], before)
           object == IF b \in Recorded \ Critical THEN Read(copy) ELSE copy.object
<1>1. PICK chosen \in Selections(plan, copy) :
        LET routes == Converted(i, chosen)
            done == Managed(copy, routes)
        IN
        /\ owed' = [owed EXCEPT ![b] = [c \in Contact |->
                      @[c] - GivenBack(before, c)
                      + IF done /\ \E r \in routes : c \in r THEN Evc(copy.part) ELSE 0]]
        /\ copies' = [copies EXCEPT ![id] =
             [@ EXCEPT !.queued = done,
                       !.last = RecordedRoute(copy, routes),
                       !.object = RecordedEvc(object, copy.part, done)]]
  BY DEF RouteCopy
<1> DEFINE routes == Converted(i, chosen)
           done == Managed(copy, routes)
<1>2. copy \in Copy /\ b \in Bundle /\ copy.part \in Part /\ before \in Copy
  BY AsReadTyped DEF IInv, Typed, Copy
<1>3. owed' \in [Bundle -> [Contact -> Int]]
  <2> DEFINE mine == [c \in Contact |->
                owed[b][c] - GivenBack(before, c)
                + IF done /\ \E r \in routes : c \in r THEN Evc(copy.part) ELSE 0]
  <2>1. owed' = [owed EXCEPT ![b] = mine]
    BY <1>1
  <2>2. owed \in [Bundle -> [Contact -> Int]] /\ Evc(copy.part) \in Int
    BY <1>2, EvcNatural DEF IInv, Typed
  <2>3. \A c \in Contact : GivenBack(before, c) \in Int
    BY <1>2, GivenBackNatural
  <2>4. mine \in [Contact -> Int]
    <3> HIDE DEF before, done, routes, copy
    <3>1. \A c \in Contact : owed[b][c] \in Int
      BY <1>2, <2>2
    <3> HIDE DEF b
    <3> QED BY <2>2, <2>3, <3>1
  <2> HIDE DEF mine
  <2> QED BY <1>2, <2>1, <2>2, <2>4
<1>4. [copy EXCEPT !.queued = done, !.last = RecordedRoute(copy, routes),
                   !.object = RecordedEvc(object, copy.part, done)] \in Copy
  <2>1. done \in BOOLEAN
    BY DEF Managed
  <2>2. RecordedRoute(copy, routes) \in Route \cup {{}}
    <3>1. routes \in SUBSET Route /\ copy.last \in Route \cup {{}}
      BY <1>2, ChosenRoutes DEF Copy
    <3> HIDE DEF routes
    <3>2. routes # {} => (CHOOSE r \in routes : TRUE) \in routes
      OBVIOUS
    <3> QED BY <3>1, <3>2 DEF RecordedRoute
  <2>3. RecordedEvc(object, copy.part, done) \in Object
    <3>1. copy.object \in Object
      BY <1>2 DEF Copy
    <3>2. object \in Object
      BY <1>2, <3>1, ObjectsTyped
    <3> QED BY <1>2, <3>2, ObjectsTyped DEF RecordedEvc
  <2> HIDE DEF done, routes, object
  <2> QED BY <1>2, <2>1, <2>2, <2>3 DEF Copy
<1>5. DOMAIN copies' = DOMAIN copies /\ \A j \in DOMAIN copies : copies'[j] \in Copy
  <2> HIDE DEF done, routes, object, b, i
  <2> QED BY <1>1, <1>4 DEF IInv, Typed, done, routes
<1> QED
  BY <1>3, <1>5

-----------------------------------------------------------------------------
(* Every step *)

LEMMA InitInv == Init => IInv
<1> SUFFICES ASSUME Init PROVE IInv
  OBVIOUS
<1>1. \A c \in Contact : Free(c) \in Mtvs
  BY ReforwardingAssumption DEF Free, Mtvs
<1>2. \A c \in DOMAIN ion, pr \in Priority : ion[c][pr] <= ion[c][pr]
  BY <1>1 DEF Init, Mtvs
<1>3. Typed
  <2>1. DOMAIN copies = {}
    BY DEF Init
  <2>2. owed \in [Bundle -> [Contact -> Int]]
    BY DEF Init
  <2>3. DOMAIN ion = Contact /\ \A c \in DOMAIN ion : ion[c] \in Mtvs
    BY <1>1 DEF Init
  <2>4. DOMAIN inst = Region /\ \A i \in Region : inst[i] = ion
    BY DEF Init
  <2> QED BY <2>1, <2>2, <2>3, <2>4 DEF Init, Typed
<1> QED
  BY <1>2, <1>3 DEF Init, IInv, InstancesAgree, PlanLoaded

LEMMA ForwardInv ==
  ASSUME IInv, NEW id \in DOMAIN copies, Forward(id)
  PROVE  IInv'
<1>1. PICK plans \in UpdatedPlans :
        IF HasInstance(copies[id].bundle) THEN RouteCopy(id, plans)
        ELSE /\ inst' = plans /\ leaking' = (leaking /\ current)
             /\ UNCHANGED <<ion, copies, owed>>
  BY DEF Forward
<1>2. /\ current' = TRUE /\ broken' = (broken /\ current)
      /\ expired' = (IF current THEN expired ELSE {})
      /\ replaced' = replaced
  BY DEF Forward
<1>3. /\ DOMAIN plans = Region /\ \A i \in Region : Plan(plans[i])
      /\ \A i \in Region :
           Agree(i, plans[i], ion, ~ (leaking /\ current) /\ ~ (broken /\ current))
      /\ ~ (broken /\ current) =>
           \A i \in Region : DOMAIN ion = DOMAIN plans[i] \ (IF current THEN expired ELSE {})
  BY Updated
<1>4. /\ DOMAIN inst' = Region
      /\ \A i \in Region : Plan(inst'[i]) /\ DOMAIN inst'[i] = DOMAIN plans[i]
      /\ Plan(ion') /\ DOMAIN ion' = DOMAIN ion /\ leaking' \in BOOLEAN
      /\ \A i \in Region : Agree(i, inst'[i], ion', ~ leaking' /\ ~ broken')
      /\ DOMAIN copies' = DOMAIN copies /\ \A j \in DOMAIN copies : copies'[j] \in Copy
      /\ owed' \in [Bundle -> [Contact -> Int]]
  <2>1. CASE HasInstance(copies[id].bundle)
    <3>1. RouteCopy(id, plans)
      BY <1>1, <2>1
    <3> QED BY <1>2, <2>1, <3>1, RouteCopyAgree, RouteCopyTyped
  <2>2. CASE ~ HasInstance(copies[id].bundle)
    <3>1. /\ inst' = plans /\ leaking' = (leaking /\ current)
          /\ UNCHANGED <<ion, copies, owed>>
      BY <1>1, <2>2
    <3>2. ASSUME NEW i \in Region PROVE Agree(i, inst'[i], ion', ~ leaking' /\ ~ broken')
      BY <1>2, <1>3, <3>1 DEF Agree
    <3> QED BY <1>3, <3>1, <3>2 DEF IInv, Typed, Plan
  <2> QED BY <2>1, <2>2
<1>5. Typed'
  BY <1>2, <1>4 DEF IInv, Typed, Plan
<1>6. InstancesAgree'
  BY <1>2, <1>4 DEF InstancesAgree, Agree
<1>7. PlanLoaded'
  BY <1>2, <1>3, <1>4 DEF PlanLoaded
<1> QED
  BY <1>5, <1>6, <1>7 DEF IInv

\* What happens to the copies leaves the plan and the volumes alone.
LEMMA CopiesInv ==
  ASSUME IInv, UNCHANGED <<ion, current, inst, owed, replaced, expired, leaking, broken>>,
         DOMAIN copies' \subseteq CopyId, \A id \in DOMAIN copies' : copies'[id] \in Copy
  PROVE  IInv'
<1>1. Typed'
  BY DEF IInv, Typed
<1>2. InstancesAgree' /\ PlanLoaded'
  BY DEF IInv, InstancesAgree, PlanLoaded
<1> QED
  BY <1>1, <1>2 DEF IInv

LEMMA WithTyped ==
  ASSUME IInv, NewIds # {}, NEW copy \in Copy
  PROVE  /\ DOMAIN With(NewId, copy) \subseteq CopyId
         /\ \A id \in DOMAIN With(NewId, copy) : With(NewId, copy)[id] \in Copy
         /\ DOMAIN copies \subseteq DOMAIN With(NewId, copy)
<1>1. NewId \in CopyId
  <2>1. (CHOOSE id \in NewIds : TRUE) \in NewIds
    OBVIOUS
  <2> QED BY <2>1 DEF NewId, NewIds
<1> QED
  BY <1>1 DEF With, IInv, Typed

\* Receive, Timeout, Leave, Clone and Fragment.
LEMMA LifeInv ==
  ASSUME IInv,
         \/ \E id \in DOMAIN copies : Timeout(id) \/ Leave(id) \/ Clone(id) \/ Fragment(id)
         \/ \E b \in Bundle : \E arriving \in Arriving[b] : Receive(b, arriving[1], arriving[2])
  PROVE  IInv'
<1>1. ASSUME NEW id \in DOMAIN copies, Timeout(id) PROVE IInv'
  <2>1. \A j \in DOMAIN copies' : copies'[j] \in Copy
    BY <1>1 DEF Timeout, IInv, Typed, Copy
  <2> QED BY <1>1, <2>1, CopiesInv DEF Timeout, IInv, Typed
<1>2. ASSUME NEW id \in DOMAIN copies, Leave(id) PROVE IInv'
  BY <1>2, CopiesInv DEF Leave, Restrict, IInv, Typed
<1>3. ASSUME NEW id \in DOMAIN copies, Clone(id) PROVE IInv'
  <2>1. copies[id] \in Copy
    BY DEF IInv, Typed
  <2>2. [copies[id] EXCEPT !.queued = FALSE, !.object = Copied(@)] \in Copy
    BY <2>1, ObjectsTyped DEF Copy
  <2> QED BY <1>3, <2>2, WithTyped, CopiesInv DEF Clone
<1>4. ASSUME NEW id \in DOMAIN copies, Fragment(id) PROVE IInv'
  <2> DEFINE fragment == [copies[id] EXCEPT !.object = Copied(@)]
             second == [fragment EXCEPT !.part = "second", !.queued = FALSE]
             first == [fragment EXCEPT !.part = "first"]
  <2>1. copies[id] \in Copy
    BY DEF IInv, Typed
  <2>2. second \in Copy /\ first \in Copy
    <3>1. Copied(copies[id].object) \in Object
      BY <2>1, ObjectsTyped DEF Copy
    <3>2. fragment \in Copy
      BY <2>1, <3>1 DEF Copy
    <3> HIDE DEF fragment
    <3> QED BY <3>2 DEF Copy, Part
  <2>3. NewIds # {} /\ copies' = [With(NewId, second) EXCEPT ![id] = first]
    BY <1>4 DEF Fragment
  <2>4. UNCHANGED <<ion, current, inst, owed, replaced, expired, leaking, broken>>
    BY <1>4 DEF Fragment
  <2> HIDE DEF second, first
  <2>5. DOMAIN copies' \subseteq CopyId /\ \A j \in DOMAIN copies' : copies'[j] \in Copy
    BY <2>2, <2>3, WithTyped
  <2> QED BY <2>4, <2>5, CopiesInv
<1>5. ASSUME NEW b \in Bundle, NEW arriving \in Arriving[b], Receive(b, arriving[1], arriving[2])
      PROVE  IInv'
  <2>1. arriving \in Part \X (Route \cup {{}})
    BY ReforwardingAssumption
  <2>2. [bundle |-> b, part |-> arriving[1], queued |-> FALSE, last |-> arriving[2],
         object |-> NewObject] \in Copy
    BY <2>1, NewObjectTyped DEF Copy
  <2> QED BY <1>5, <2>2, WithTyped, CopiesInv DEF Receive
<1> QED
  BY <1>1, <1>2, <1>3, <1>4, <1>5

\* A reload, whole or in part, gives an instance ION's volumes.
LEMMA ForwardFailsInv == IInv /\ ForwardFails => IInv'
<1> SUFFICES ASSUME IInv, ForwardFails PROVE IInv'
  OBVIOUS
<1>1. PICK i \in Region, some \in SUBSET DOMAIN ion :
        inst' = IF i = 0 THEN [inst EXCEPT ![0] = Restrict(ion, some)]
                ELSE [j \in Region |-> IF j = 0 THEN ion ELSE Restrict(ion, some)]
  BY DEF ForwardFails, HalfReloaded
<1>2. current' = TRUE /\ broken' = TRUE /\ leaking' = FALSE /\ UNCHANGED <<ion, copies, owed, replaced>>
  BY DEF ForwardFails
<1>3. DOMAIN inst' = Region
      /\ \A j \in Region : \/ inst'[j] = inst[j]
                           \/ inst'[j] = ion
                           \/ inst'[j] = Restrict(ion, some)
  <2>1. DOMAIN inst = Region /\ 0 \in Region
    BY DEF IInv, Typed, Region
  <2> QED BY <1>1, <2>1
<1>4. Typed'
  BY <1>2, <1>3 DEF IInv, Typed, Restrict
<1>5. \A c \in DOMAIN ion, pr \in Priority : ion[c][pr] <= ion[c][pr]
  BY DEF IInv, Typed, Mtvs
<1>6. InstancesAgree'
  <2> SUFFICES ASSUME NEW j \in Region, NEW c \in DOMAIN inst'[j] \cap DOMAIN ion,
                      RegionOf[c] = j, c \notin replaced, NEW pr \in Priority
               PROVE  inst'[j][c][pr] <= ion[c][pr]
    BY <1>2 DEF InstancesAgree
  <2>1. CASE inst'[j] = inst[j]
    BY <2>1 DEF IInv, InstancesAgree
  <2>2. CASE inst'[j] = ion
    BY <1>5, <2>2
  <2>3. CASE inst'[j] = Restrict(ion, some)
    BY <1>5, <2>3 DEF Restrict
  <2> QED BY <1>3, <2>1, <2>2, <2>3
<1>7. PlanLoaded'
  BY <1>2 DEF PlanLoaded
<1> QED
  BY <1>4, <1>6, <1>7 DEF IInv

LEMMA EditPlanInv == ASSUME IInv, NEW c \in Unsteady, EditPlan(c) PROVE IInv'
<1>1. Free(c) \in Mtvs /\ c \in Contact
  BY ReforwardingAssumption DEF Free, Mtvs
<1>2. current' = FALSE /\ UNCHANGED <<inst, copies, owed, expired, leaking, broken>>
  BY DEF EditPlan
<1>3. CASE c \in DOMAIN ion
  <2>1. ion' = [d \in DOMAIN ion \ {c} |-> ion[d]] /\ replaced' = replaced
    BY <1>3 DEF EditPlan, Restrict
  <2> QED BY <1>2, <2>1 DEF IInv, Typed, InstancesAgree, PlanLoaded
<1>4. CASE c \notin DOMAIN ion
  <2>1. /\ ion' = [d \in DOMAIN ion \cup {c} |-> IF d = c THEN Free(c) ELSE ion[d]]
        /\ replaced' = replaced \cup {c}
    BY <1>4 DEF EditPlan
  <2>2. Typed'
    BY <1>1, <1>2, <2>1 DEF IInv, Typed
  <2>3. InstancesAgree'
    BY <1>2, <2>1 DEF IInv, InstancesAgree
  <2> QED BY <1>2, <2>2, <2>3 DEF IInv, PlanLoaded
<1> QED
  BY <1>3, <1>4

LEMMA RfxRemoveInv == ASSUME IInv, NEW c, RfxRemove(c) PROVE IInv'
<1>1. /\ ion' = [d \in DOMAIN ion \ {c} |-> ion[d]] /\ expired' = expired \cup {c}
      /\ UNCHANGED <<current, inst, copies, owed, replaced, leaking, broken>>
  BY DEF RfxRemove, Restrict
<1>2. Typed'
  BY <1>1 DEF IInv, Typed
<1>3. InstancesAgree'
  BY <1>1 DEF IInv, InstancesAgree
<1>4. PlanLoaded'
  BY <1>1 DEF IInv, PlanLoaded
<1> QED
  BY <1>2, <1>3, <1>4 DEF IInv

LEMMA RestartInv == IInv /\ Restart => IInv'
<1> SUFFICES ASSUME IInv, Restart PROVE IInv'
  OBVIOUS
<1>1. /\ inst' = [i \in Region |-> ion] /\ current' = TRUE
      /\ expired' = {} /\ leaking' = FALSE /\ broken' = FALSE
      /\ UNCHANGED <<ion, copies, owed, replaced>>
  BY DEF Restart
<1>2. Typed'
  BY <1>1 DEF IInv, Typed
<1>3. \A c \in DOMAIN ion, pr \in Priority : ion[c][pr] <= ion[c][pr]
  BY DEF IInv, Typed, Mtvs
<1>4. InstancesAgree' /\ PlanLoaded'
  BY <1>1, <1>3 DEF InstancesAgree, PlanLoaded
<1> QED
  BY <1>2, <1>4 DEF IInv

LEMMA StepInv == IInv /\ [Next]_vars => IInv'
<1> SUFFICES ASSUME IInv, [Next]_vars PROVE IInv'
  OBVIOUS
<1>1. ASSUME NEW id \in DOMAIN copies, Forward(id) PROVE IInv'
  BY <1>1, ForwardInv
<1>2. CASE \/ \E id \in DOMAIN copies : Timeout(id) \/ Leave(id) \/ Clone(id) \/ Fragment(id)
           \/ \E b \in Bundle : \E arriving \in Arriving[b] : Receive(b, arriving[1], arriving[2])
  BY <1>2, LifeInv
<1>3. ASSUME NEW c \in Unsteady, EditPlan(c) \/ RfxRemove(c) PROVE IInv'
  BY <1>3, EditPlanInv, RfxRemoveInv
<1>4. CASE ForwardFails \/ Restart
  BY <1>4, ForwardFailsInv, RestartInv
<1>5. CASE UNCHANGED vars
  BY <1>5 DEF vars, IInv, Typed, InstancesAgree, PlanLoaded
<1> QED
  BY <1>1, <1>2, <1>3, <1>4, <1>5 DEF Next

\* What the instances believe of the plan and of the volumes is what ION has: through failed
\* calls and reloads, removals by rfxclock, edits and restarts.
THEOREM ReforwardingInstancesSound == Spec => []InstancesSound
<1>1. IInv => InstancesSound
  BY DEF IInv, Typed, InstancesSound, TypeOK, Region
<1> QED
  BY InitInv, StepInv, <1>1, PTL DEF Spec

-----------------------------------------------------------------------------
(* What ION has left *)

\* A call takes from ION's volume what it adds to what is owed, and gives back no more than
\* it takes from it.
LEMMA RouteCopyVolume ==
  ASSUME IInv, NEW id \in DOMAIN copies, HasInstance(copies[id].bundle),
         NEW plans \in UpdatedPlans, RouteCopy(id, plans),
         NEW c \in DOMAIN ion \ replaced, NEW pr \in Priority
  PROVE  LET b == copies[id].bundle
             due(o) == IF pr <= PriorityOf[b] THEN o[b][c] ELSE 0
         IN  ion'[c][pr] + due(owed') <= ion[c][pr] + due(owed)
<1> DEFINE copy == copies[id]
           b == copy.bundle
           i == RegionTo[b]
           before == AsRead(copy)
           plan == Refilled(plans[i], before)
           ionBefore == IonRefilled(i, plans[i], before)
           given == GivenBack(before, c)
<1>1. PICK chosen \in Selections(plan, copy) :
        LET routes == Converted(i, chosen)
            done == Managed(copy, routes)
        IN
        /\ ion' = IF done THEN Booked(ionBefore, copy, routes) ELSE ionBefore
        /\ owed' = [owed EXCEPT ![b] = [d \in Contact |->
                      @[d] - GivenBack(before, d)
                      + IF done /\ \E r \in routes : d \in r THEN Evc(copy.part) ELSE 0]]
  BY DEF RouteCopy
<1> DEFINE routes == Converted(i, chosen)
           done == Managed(copy, routes)
           taken == IF done /\ \E r \in routes : c \in r THEN Evc(copy.part) ELSE 0
<1>2. /\ copy \in Copy /\ b \in Bundle /\ i \in Region /\ c \in Contact
      /\ before \in Copy /\ before.bundle = b
  BY AsReadTyped DEF IInv, Typed, HasInstance, Copy
<1>3. /\ \A j \in Region : Plan(plans[j])
      /\ \A d \in DOMAIN plans[i] \cap DOMAIN ion : RegionOf[d] = i /\ d \notin replaced =>
           plans[i][d][pr] <= ion[d][pr]
  BY <1>2, Updated DEF Agree
<1>4. owed'[b][c] = owed[b][c] - given + taken
  <2>1. owed \in [Bundle -> [Contact -> Int]]
    BY DEF IInv, Typed
  <2>2. DOMAIN owed = Bundle
    BY <2>1
  <2>3. owed'[b] = [d \in Contact |->
                      owed[b][d] - GivenBack(before, d)
                      + IF done /\ \E r \in routes : d \in r THEN Evc(copy.part) ELSE 0]
    BY <1>1, <1>2, <2>2
  <2> QED BY <1>2, <2>3
<1>5. given \in Nat /\ Evc(copy.part) \in Nat
  BY <1>2, GivenBackNatural, EvcNatural DEF Copy
<1>6. ion[c] \in Mtvs /\ ion[c][pr] \in Int /\ owed[b][c] \in Int /\ PriorityOf[b] \in Int
      /\ pr \in Int
  <2>1. PriorityOf[b] \in Priority
    BY <1>2, ReforwardingAssumption
  <2>2. owed[b] \in [Contact -> Int]
    BY <1>2 DEF IInv, Typed
  <2> QED BY <1>2, <2>1, <2>2 DEF IInv, Typed, Mtvs, Priority
<1>7. /\ ionBefore[c] \in Mtvs /\ c \in DOMAIN ionBefore
      /\ ionBefore[c][pr] <= ion[c][pr] + (IF pr <= PriorityOf[b] THEN given ELSE 0)
  <2>1. CASE RegionOf[c] = i /\ c \in DOMAIN plans[i] /\ given > 0
    <3>1. ionBefore[c] = Refilled(plans[i], before)[c] /\ c \in DOMAIN ionBefore
      BY <2>1 DEF IonRefilled, FoundInIon
    <3>2. ionBefore[c] = Changed(plans[i][c], b, given) /\ ionBefore[c] \in Mtvs
      BY <1>2, <1>3, <2>1, <3>1, RefilledTyped DEF Plan
    <3>3. plans[i][c][pr] \in Int /\ plans[i][c][pr] <= ion[c][pr]
      BY <1>2, <1>3, <2>1 DEF Plan, Mtvs
    <3> HIDE DEF ionBefore, given, b, i
    <3> QED BY <1>5, <1>6, <3>1, <3>2, <3>3 DEF Changed
  <2>2. CASE ~ (RegionOf[c] = i /\ c \in DOMAIN plans[i] /\ given > 0)
    <3>1. ionBefore[c] = ion[c] /\ c \in DOMAIN ionBefore
      BY <2>2 DEF IonRefilled, FoundInIon
    <3> HIDE DEF ionBefore, given, b, i
    <3> QED BY <1>5, <1>6, <3>1
  <2> QED BY <2>1, <2>2
<1>8. ion'[c][pr] = ionBefore[c][pr] - (IF pr <= PriorityOf[b] THEN taken ELSE 0)
  <2>1. ionBefore[c][pr] \in Int
    BY <1>7 DEF Mtvs
  <2>2. CASE ~ done
    BY <1>1, <2>1, <2>2
  <2>3. CASE done
    <3>1. PICK r \in Route : routes = {r}
      BY <1>2, <2>3, ChosenRoutes
    <3> DEFINE passing == Cardinality({q \in routes : c \in q})
    <3>2. passing = IF c \in r THEN 1 ELSE 0
      <4>1. {q \in routes : c \in q} = IF c \in r THEN {r} ELSE {}
        BY <3>1
      <4> QED BY <4>1, FS_Singleton, FS_EmptySet
    <3>3. ion'[c] = Changed(ionBefore[c], b, - passing * Evc(copy.part))
      BY <1>1, <1>7, <2>3 DEF Booked
    <3>4. taken = IF c \in r THEN Evc(copy.part) ELSE 0
      BY <2>3, <3>1
    <3>5. - passing * Evc(copy.part) = - taken
      <4> HIDE DEF passing, taken
      <4>1. CASE c \in r
        BY <1>5, <3>2, <3>4, <4>1
      <4>2. CASE c \notin r
        BY <1>5, <3>2, <3>4, <4>2
      <4> QED BY <4>1, <4>2
    <3>6. taken \in Nat
      BY <1>5, <3>4
    <3> HIDE DEF passing, taken, ionBefore, b
    <3> QED BY <1>6, <2>1, <3>3, <3>5, <3>6 DEF Changed
  <2> QED BY <2>2, <2>3
<1>9. taken \in Nat
  BY <1>5
<1> HIDE DEF taken, given, ionBefore
<1>10. ionBefore[c][pr] \in Int
  BY <1>7 DEF Mtvs
<1>11. ion'[c][pr] + (IF pr <= PriorityOf[b] THEN owed'[b][c] ELSE 0)
         <= ion[c][pr] + (IF pr <= PriorityOf[b] THEN owed[b][c] ELSE 0)
  <2> HIDE DEF b
  <2>1. CASE pr <= PriorityOf[b]
    BY <1>4, <1>5, <1>6, <1>7, <1>8, <1>9, <1>10, <2>1
  <2>2. CASE ~ (pr <= PriorityOf[b])
    BY <1>4, <1>5, <1>6, <1>7, <1>8, <1>9, <1>10, <2>2
  <2> QED BY <2>1, <2>2
<1> QED
  BY <1>11

\* What is owed of contact c, per bundle, and the bundles that priority p competes with.
Owing(c) == [b \in Bundle |-> owed[b][c]]
AtLeast(p) == {b \in Bundle : PriorityOf[b] >= p}

LEMMA OwingTyped ==
  ASSUME Typed, NEW c \in Contact, NEW p
  PROVE  /\ IsFiniteSet(AtLeast(p)) /\ AtLeast(p) \subseteq Bundle
         /\ \A b \in AtLeast(p) : Owing(c)[b] \in Int
<1>1. IsFiniteSet(AtLeast(p))
  BY FS_Subset, ReforwardingAssumption DEF AtLeast
<1> QED
  BY <1>1 DEF Owing, AtLeast, Typed

LEMMA VolumeInit == Init => VolumeCovered
<1> SUFFICES ASSUME Init, NEW c \in Contact, NEW p \in Priority
             PROVE  ion[c][p] + Sum(Owing(c), AtLeast(p)) <= Capacity[c]
  BY DEF Init, VolumeCovered, Owing, AtLeast, Sum
<1>1. Sum(Owing(c), AtLeast(p)) = 0
  <2>1. \A b \in AtLeast(p) : Owing(c)[b] = 0
    BY DEF Owing, AtLeast, Init
  <2>2. IsFiniteSet(AtLeast(p))
    BY FS_Subset, ReforwardingAssumption DEF AtLeast
  <2> QED BY <2>1, <2>2, SumZero
<1>2. ion[c][p] = Capacity[c] /\ Capacity[c] \in Nat
  BY ReforwardingAssumption DEF Init, Free
<1> QED
  BY <1>1, <1>2

\* What neither books nor gives back can only take contacts away, or replace them.
LEMMA VolumeKept ==
  ASSUME VolumeCovered, UNCHANGED owed,
         \A c \in DOMAIN ion' \ replaced' : c \in DOMAIN ion \ replaced /\ ion'[c] = ion[c]
  PROVE  VolumeCovered'
BY DEF VolumeCovered

LEMMA VolumeRouted ==
  ASSUME IInv, IInv', VolumeCovered, UNCHANGED replaced,
         NEW id \in DOMAIN copies, HasInstance(copies[id].bundle),
         NEW plans \in UpdatedPlans, RouteCopy(id, plans)
  PROVE  VolumeCovered'
<1> DEFINE b == copies[id].bundle
<1>1. DOMAIN ion' = DOMAIN ion /\ b \in Bundle
  <2>1. b \in Bundle
    BY DEF IInv, Typed, Copy
  <2>2. DOMAIN ion' = DOMAIN ion
    BY DEF RouteCopy, IonRefilled, Booked
  <2> QED BY <2>1, <2>2
<1> SUFFICES ASSUME NEW c \in DOMAIN ion \ replaced, NEW p \in Priority
             PROVE  ion'[c][p] + Sum(Owing(c)', AtLeast(p)) <= Capacity[c]
  BY <1>1 DEF VolumeCovered, Owing, AtLeast, Sum
<1>2. ion[c][p] + Sum(Owing(c), AtLeast(p)) <= Capacity[c]
  BY DEF VolumeCovered, Owing, AtLeast, Sum
<1>3. c \in Contact /\ Capacity[c] \in Nat /\ ion[c][p] \in Int /\ ion'[c][p] \in Int
  BY <1>1, ReforwardingAssumption DEF IInv, Typed, Mtvs
<1>4. /\ IsFiniteSet(AtLeast(p)) /\ AtLeast(p) \subseteq Bundle
      /\ \A d \in AtLeast(p) : Owing(c)[d] \in Int /\ Owing(c)'[d] \in Int
  <2>1. /\ IsFiniteSet(AtLeast(p)) /\ AtLeast(p) \subseteq Bundle
        /\ \A d \in AtLeast(p) : Owing(c)[d] \in Int
    BY <1>3, OwingTyped DEF IInv
  <2>2. \A d \in AtLeast(p) : Owing(c)'[d] \in Int
    BY <1>3, <2>1 DEF IInv, Typed, Owing
  <2> QED BY <2>1, <2>2
<1>5. \A d \in AtLeast(p) \ {b} : Owing(c)[d] = Owing(c)'[d]
  BY <1>4 DEF RouteCopy, Owing, IInv, Typed
<1>6. /\ Sum(Owing(c)', AtLeast(p))
           = Sum(Owing(c), AtLeast(p))
             + (IF b \in AtLeast(p) THEN Owing(c)'[b] - Owing(c)[b] ELSE 0)
      /\ Sum(Owing(c)', AtLeast(p)) \in Int /\ Sum(Owing(c), AtLeast(p)) \in Int
  BY <1>4, <1>5, SumChange
<1>7. b \in AtLeast(p) <=> p <= PriorityOf[b]
  <2>1. PriorityOf[b] \in Int /\ p \in Int
    BY <1>1, ReforwardingAssumption DEF Priority
  <2> QED BY <1>1, <2>1 DEF AtLeast
<1>8. ion'[c][p] + (IF b \in AtLeast(p) THEN Owing(c)'[b] ELSE 0)
        <= ion[c][p] + (IF b \in AtLeast(p) THEN Owing(c)[b] ELSE 0)
  <2>1. Owing(c)'[b] = owed'[b][c] /\ Owing(c)[b] = owed[b][c]
    BY <1>1 DEF Owing
  <2> QED BY <1>7, <2>1, RouteCopyVolume
<1> HIDE DEF b
<1> QED
  BY <1>2, <1>3, <1>4, <1>6, <1>8

LEMMA VolumeStep == IInv /\ IInv' /\ VolumeCovered /\ [Next]_vars => VolumeCovered'
<1> SUFFICES ASSUME IInv, IInv', VolumeCovered, [Next]_vars PROVE VolumeCovered'
  OBVIOUS
<1>1. ASSUME NEW id \in DOMAIN copies, Forward(id) PROVE VolumeCovered'
  <2>1. PICK plans \in UpdatedPlans :
          IF HasInstance(copies[id].bundle) THEN RouteCopy(id, plans)
          ELSE UNCHANGED <<ion, copies, owed>>
    BY <1>1 DEF Forward
  <2>2. UNCHANGED replaced
    BY <1>1 DEF Forward
  <2> QED BY <2>1, <2>2, VolumeRouted, VolumeKept
<1>2. CASE \/ \E id \in DOMAIN copies : Timeout(id) \/ Leave(id) \/ Clone(id) \/ Fragment(id)
           \/ \E b \in Bundle : \E arriving \in Arriving[b] : Receive(b, arriving[1], arriving[2])
  <2>1. UNCHANGED <<ion, owed, replaced>>
    BY <1>2 DEF Timeout, Leave, Clone, Fragment, Receive
  <2> QED BY <2>1, VolumeKept
<1>3. ASSUME NEW c \in Unsteady, EditPlan(c) PROVE VolumeCovered'
  <2>1. UNCHANGED owed
    BY <1>3 DEF EditPlan
  <2>2. CASE c \in DOMAIN ion
    <3>1. ion' = [d \in DOMAIN ion \ {c} |-> ion[d]] /\ UNCHANGED replaced
      BY <1>3, <2>2 DEF EditPlan, Restrict
    <3> QED BY <2>1, <3>1, VolumeKept
  <2>3. CASE c \notin DOMAIN ion
    <3>1. /\ ion' = [d \in DOMAIN ion \cup {c} |-> IF d = c THEN Free(c) ELSE ion[d]]
          /\ replaced' = replaced \cup {c}
      BY <1>3, <2>3 DEF EditPlan
    <3> QED BY <2>1, <3>1, VolumeKept
  <2> QED BY <2>2, <2>3
<1>4. ASSUME NEW c \in Unsteady, RfxRemove(c) PROVE VolumeCovered'
  <2>1. ion' = [d \in DOMAIN ion \ {c} |-> ion[d]] /\ UNCHANGED <<owed, replaced>>
    BY <1>4 DEF RfxRemove, Restrict
  <2> QED BY <2>1, VolumeKept
<1>5. CASE ForwardFails \/ Restart \/ UNCHANGED vars
  <2>1. UNCHANGED <<ion, owed, replaced>>
    BY <1>5 DEF ForwardFails, Restart, vars
  <2> QED BY <2>1, VolumeKept
<1> QED
  BY <1>1, <1>2, <1>3, <1>4, <1>5 DEF Next

\* What ION has left of a contact for a priority, with what it booked for bundles of that or
\* a higher priority and was not given back, never exceeds the contact's capacity: no clone,
\* fragment, failed call or restart makes volume out of nothing.
THEOREM ReforwardingVolumeCovered == Spec => []VolumeCovered
BY InitInv, StepInv, VolumeInit, VolumeStep, PTL DEF Spec

-----------------------------------------------------------------------------
(* What can be given back *)

\* A contact is found again by itself only, as long as no two of a pair start within the
\* tolerance of each other; and fragments are not cloned whole.
Distinct == (\A c \in Contact : Near[c] = {c}) /\ ~ CloneFragments

\* What the record of a copy says agrees with where the copy is in its life.
Consistent(copy) ==
  LET object == copy.object IN
  /\ copy.part = "whole" => object.part = "whole"
  /\ object.readLock => object.evc = Evc(object.part)
  /\ copy.bundle \notin Recorded => ~ object.readLock
  /\ copy.queued => /\ object.readLock /\ object.cloneLevel # 2 /\ copy.last # {}
                    /\ object.cloneLevel = 0 => object.part = copy.part

\* What a copy may give back of contact c before it is routed again: a whole one that is
\* queued may yet be fragmented.
Backed(copy, c) ==
  IF copy.bundle \in Critical \/ c \notin copy.last THEN 0
  ELSE IF copy.queued /\ copy.part = "whole" THEN Evc("whole")
  ELSE UsedEvc(copy)

Backing(cs, b, c) ==
  Sum([id \in DOMAIN cs |-> Backed(cs[id], c)], {id \in DOMAIN cs : cs[id].bundle = b})

\* What can be given back of all the copies together was booked; this is inductive.
RecordInv ==
  /\ IInv
  /\ IsFiniteSet(DOMAIN copies) /\ \A id \in DOMAIN copies : Consistent(copies[id])
  /\ \A b \in Bundle, c \in Contact : Backing(copies, b, c) <= owed[b][c]

LEMMA GivenOnce ==
  ASSUME Distinct, NEW copy \in Copy, NEW c \in Contact
  PROVE  GivenBack(copy, c)
           = IF copy.bundle \in Critical \/ c \notin copy.last THEN 0 ELSE UsedEvc(copy)
<1> DEFINE hops == {hop \in copy.last : c \in Near[hop]}
<1>1. hops = IF c \in copy.last THEN {c} ELSE {}
  <2>1. copy.last \subseteq Contact
    BY RouteFinite DEF Copy
  <2> QED BY <2>1 DEF Distinct
<1>2. Cardinality(hops) = IF c \in copy.last THEN 1 ELSE 0
  BY <1>1, FS_Singleton, FS_EmptySet
<1>3. GivenBack(copy, c) = IF copy.bundle \in Critical THEN 0 ELSE Cardinality(hops) * UsedEvc(copy)
  BY DEF GivenBack
<1>4. UsedEvc(copy) \in Nat
  BY UsedEvcNatural
<1> HIDE DEF hops
<1> QED
  BY <1>2, <1>3, <1>4

LEMMA BackedTyped ==
  ASSUME NEW copy \in Copy, NEW c
  PROVE  Backed(copy, c) \in Nat
BY UsedEvcNatural, EvcNatural DEF Backed, Part

\* One copy changes.
LEMMA BackingChange ==
  ASSUME NEW cs, NEW ds, IsFiniteSet(DOMAIN cs), DOMAIN ds = DOMAIN cs,
         \A j \in DOMAIN cs : cs[j] \in Copy /\ ds[j] \in Copy,
         NEW id \in DOMAIN cs, ds[id].bundle = cs[id].bundle,
         \A j \in DOMAIN cs \ {id} : ds[j] = cs[j],
         NEW b, NEW c
  PROVE  /\ Backing(ds, b, c)
              = Backing(cs, b, c)
                + (IF cs[id].bundle = b THEN Backed(ds[id], c) - Backed(cs[id], c) ELSE 0)
         /\ Backing(cs, b, c) \in Int /\ Backing(ds, b, c) \in Int
<1> DEFINE f == [j \in DOMAIN cs |-> Backed(cs[j], c)]
           g == [j \in DOMAIN cs |-> Backed(ds[j], c)]
           S == {j \in DOMAIN cs : cs[j].bundle = b}
<1>1. Backing(cs, b, c) = Sum(f, S)
  BY DEF Backing
<1>2. Backing(ds, b, c) = Sum(g, S)
  <2>1. {j \in DOMAIN ds : ds[j].bundle = b} = S
    OBVIOUS
  <2>2. [j \in DOMAIN ds |-> Backed(ds[j], c)] = g
    OBVIOUS
  <2> QED BY <2>1, <2>2 DEF Backing
<1>3. IsFiniteSet(S) /\ \A j \in S : f[j] \in Int /\ g[j] \in Int
  BY FS_Subset, BackedTyped
<1>4. \A j \in S \ {id} : f[j] = g[j]
  OBVIOUS
<1>5. f[id] = Backed(cs[id], c) /\ g[id] = Backed(ds[id], c) /\ (id \in S <=> cs[id].bundle = b)
  OBVIOUS
<1> HIDE DEF f, g, S
<1> QED
  BY <1>1, <1>2, <1>3, <1>4, <1>5, SumChange

\* One copy comes, or goes.
LEMMA BackingAdd ==
  ASSUME NEW cs, NEW ds, IsFiniteSet(DOMAIN cs), NEW id, id \notin DOMAIN cs,
         DOMAIN ds = DOMAIN cs \cup {id},
         \A j \in DOMAIN ds : ds[j] \in Copy,
         \A j \in DOMAIN cs : ds[j] = cs[j],
         NEW b, NEW c
  PROVE  /\ Backing(ds, b, c)
              = Backing(cs, b, c) + (IF ds[id].bundle = b THEN Backed(ds[id], c) ELSE 0)
         /\ Backing(cs, b, c) \in Int /\ Backing(ds, b, c) \in Int
<1> DEFINE f == [j \in DOMAIN cs |-> Backed(cs[j], c)]
           g == [j \in DOMAIN ds |-> Backed(ds[j], c)]
           S == {j \in DOMAIN cs : cs[j].bundle = b}
           T == {j \in DOMAIN ds : ds[j].bundle = b}
<1>1. Backing(cs, b, c) = Sum(f, S) /\ Backing(ds, b, c) = Sum(g, T)
  BY DEF Backing
<1>2. /\ IsFiniteSet(S) /\ IsFiniteSet(T)
      /\ \A j \in S : f[j] \in Int /\ g[j] \in Int
      /\ \A j \in T : g[j] \in Int
  <2>1. IsFiniteSet(DOMAIN ds)
    BY FS_AddElement
  <2>2. IsFiniteSet(S) /\ IsFiniteSet(T)
    BY <2>1, FS_Subset
  <2> QED BY <2>2, BackedTyped
<1>3. \A j \in S \ {id} : f[j] = g[j]
  OBVIOUS
<1>4. id \notin S /\ T \ {id} = S /\ (id \in T <=> ds[id].bundle = b)
  OBVIOUS
<1>5. g[id] = Backed(ds[id], c)
  OBVIOUS
<1> HIDE DEF f, g, S, T
<1>6. Sum(g, S) = Sum(f, S) /\ Sum(g, S) \in Int /\ Sum(f, S) \in Int
  <2>1. Sum(g, S) = Sum(f, S) + 0 /\ Sum(g, S) \in Int /\ Sum(f, S) \in Int
    BY <1>2, <1>3, <1>4, SumChange
  <2> QED BY <2>1
<1>7. CASE id \in T
  <2>1. Sum(g, T) = g[id] + Sum(g, S) /\ g[id] \in Int
    BY <1>2, <1>4, <1>7, SumRemove
  <2> QED BY <1>1, <1>4, <1>5, <1>6, <1>7, <2>1
<1>8. CASE id \notin T
  <2>1. T = S
    BY <1>4, <1>8
  <2> QED BY <1>1, <1>4, <1>6, <1>8, <2>1
<1> QED
  BY <1>7, <1>8

\* The copy after a routing call.
Routed(copy, routes) ==
  LET done == Managed(copy, routes)
      object == IF copy.bundle \in Recorded \ Critical THEN Read(copy) ELSE copy.object
  IN  [copy EXCEPT !.queued = done,
                   !.last = RecordedRoute(copy, routes),
                   !.object = RecordedEvc(object, copy.part, done)]

\* It backs what was booked now, and nothing of before.
LEMMA RoutedBacks ==
  ASSUME NEW copy \in Copy, Consistent(copy), ~ copy.queued,
         NEW routes \in SUBSET Route,
         Managed(copy, routes) => \E r \in Route : routes = {r}
  PROVE  /\ Routed(copy, routes).bundle = copy.bundle /\ Consistent(Routed(copy, routes))
         /\ \A c : Backed(Routed(copy, routes), c)
              = IF Managed(copy, routes) /\ \E r \in routes : c \in r THEN Evc(copy.part) ELSE 0
<1> DEFINE new == Routed(copy, routes)
<1> DEFINE done == Managed(copy, routes)
           read == Read(copy)
           object == IF copy.bundle \in Recorded \ Critical THEN read ELSE copy.object
<1>1. /\ new.bundle = copy.bundle /\ new.part = copy.part /\ new.queued = done
      /\ new.last = RecordedRoute(copy, routes)
      /\ new.object = RecordedEvc(object, copy.part, done)
  BY DEF Copy, Routed
<1> HIDE DEF new
<1>2. copy.object \in Object /\ copy.part \in Part
  BY DEF Copy
<1>3. read \in Object /\ read.part = copy.object.part
      /\ \/ read = copy.object /\ Unreadable(copy.object)
         \/ ~ read.readLock
  BY <1>2, ObjectsTyped DEF Read, Object
<1>4. CASE done
  <2>1. copy.bundle \in Recorded \ Critical /\ read.cloneLevel # 2
    BY <1>4 DEF Managed
  <2>2. PICK r \in Route : routes = {r}
    BY <1>4
  <2>3. new.last = r /\ r # {}
    <3>1. (CHOOSE q \in {r} : TRUE) = r
      OBVIOUS
    <3> QED BY <1>1, <2>1, <2>2, <3>1, ReforwardingAssumption DEF RecordedRoute
  <2>4. /\ new.object.readLock /\ new.object.evc = Evc(copy.part) /\ new.object.part = copy.part
        /\ new.object.cloneLevel = read.cloneLevel
    <3>1. new.object = [read EXCEPT !.evc = Evc(copy.part), !.readLock = TRUE, !.part = copy.part]
      BY <1>1, <1>4, <2>1 DEF RecordedEvc, SetUsedEvc
    <3> HIDE DEF read
    <3> QED BY <1>3, <3>1 DEF Object
  <2>5. Consistent(new)
    <3> HIDE DEF read, done
    <3> QED BY <1>1, <1>4, <2>1, <2>3, <2>4 DEF Consistent
  <2>6. copy.part # "whole" => UsedEvc(new) = Evc(copy.part)
    <3> HIDE DEF read, done
    <3> QED BY <1>1, <2>1, <2>4 DEF UsedEvc, Unreadable, IsClone
  <2>7. ASSUME NEW c
        PROVE  Backed(new, c) = IF \E q \in routes : c \in q THEN Evc(copy.part) ELSE 0
    <3> HIDE DEF done
    <3> QED BY <1>1, <1>4, <2>1, <2>2, <2>3, <2>6 DEF Backed
  <2> QED BY <1>1, <1>4, <2>5, <2>7 DEF new
<1>5. CASE ~ done
  <2>1. new.object = object
    BY <1>1, <1>5 DEF RecordedEvc
  <2>2. copy.bundle \in Critical \/ UsedEvc(new) = 0
    <3>1. CASE copy.bundle \in Recorded \ Critical
      BY <1>3, <2>1, <3>1 DEF UsedEvc, Unreadable
    <3>2. CASE copy.bundle \notin Recorded
      BY <2>1, <3>2 DEF UsedEvc, Unreadable, Consistent
    <3> QED BY <3>1, <3>2
  <2>3. Consistent(new)
    <3>1. CASE copy.bundle \in Recorded \ Critical
      <4>1. new.object = read
        BY <2>1, <3>1
      <4> HIDE DEF read, done
      <4> QED BY <1>1, <1>3, <1>5, <3>1, <4>1 DEF Consistent
    <3>2. CASE copy.bundle \notin Recorded \ Critical
      <4>1. new.object = copy.object
        BY <2>1, <3>2
      <4> HIDE DEF done
      <4> QED BY <1>1, <1>5, <4>1 DEF Consistent
    <3> QED BY <3>1, <3>2
  <2>4. \A c : Backed(new, c) = 0
    <3> HIDE DEF done
    <3> QED BY <1>1, <1>5, <2>2 DEF Backed
  <2> QED BY <1>1, <1>5, <2>3, <2>4 DEF new
<1> QED
  BY <1>4, <1>5

LEMMA RecordRouted ==
  ASSUME Distinct, RecordInv, IInv', NEW id \in DOMAIN copies, ~ copies[id].queued,
         HasInstance(copies[id].bundle),
         NEW plans \in UpdatedPlans, RouteCopy(id, plans)
  PROVE  RecordInv'
<1> DEFINE copy == copies[id]
           b == copy.bundle
           i == RegionTo[b]
           before == AsRead(copy)
           plan == Refilled(plans[i], before)
           object == IF b \in Recorded \ Critical THEN Read(copy) ELSE copy.object
<1>1. PICK chosen \in Selections(plan, copy) :
        LET routes == Converted(i, chosen)
            done == Managed(copy, routes)
        IN
        /\ owed' = [owed EXCEPT ![b] = [c \in Contact |->
                      @[c] - GivenBack(before, c)
                      + IF done /\ \E r \in routes : c \in r THEN Evc(copy.part) ELSE 0]]
        /\ copies' = [copies EXCEPT ![id] =
             [@ EXCEPT !.queued = done,
                       !.last = RecordedRoute(copy, routes),
                       !.object = RecordedEvc(object, copy.part, done)]]
  BY DEF RouteCopy
<1> DEFINE routes == Converted(i, chosen)
           done == Managed(copy, routes)
           taken(c) == IF done /\ \E r \in routes : c \in r THEN Evc(copy.part) ELSE 0
<1>2. /\ copy \in Copy /\ b \in Bundle /\ before \in Copy /\ before.bundle = b
      /\ before.last = copy.last /\ Evc(copy.part) \in Nat
  <2>1. copy \in Copy
    BY DEF RecordInv, IInv, Typed
  <2> QED BY <2>1, AsReadTyped, EvcNatural DEF Copy, AsRead
<1>3. DOMAIN copies' = DOMAIN copies /\ \A j \in DOMAIN copies : copies'[j] \in Copy
  BY RouteCopyTyped DEF RecordInv
<1>4. /\ copies'[id] = [copy EXCEPT !.queued = done, !.last = RecordedRoute(copy, routes),
                                    !.object = RecordedEvc(object, copy.part, done)]
      /\ \A j \in DOMAIN copies \ {id} : copies'[j] = copies[j]
  BY <1>1
<1>5. /\ copies'[id].bundle = b /\ Consistent(copies'[id])
      /\ \A c : Backed(copies'[id], c) = taken(c)
  <2>1. routes \in SUBSET Route /\ (done => \E r \in Route : routes = {r})
    BY <1>2, ChosenRoutes
  <2>2. Consistent(copy) /\ ~ copy.queued
    BY DEF RecordInv
  <2>3. copies'[id] = Routed(copy, routes)
    BY <1>4 DEF Routed
  <2> HIDE DEF routes, copy
  <2> QED BY <1>2, <2>1, <2>2, <2>3, RoutedBacks
<1>6. ASSUME NEW c \in Contact PROVE GivenBack(before, c) = Backed(copy, c)
  <2>1. UsedEvc(before) = UsedEvc(copy)
    <3>1. CASE b \in Recorded
      BY <3>1 DEF AsRead
    <3>2. CASE b \notin Recorded
      <4>1. before.object = NewObject
        BY <1>2, <3>2 DEF AsRead, Copy
      <4>2. ~ copy.object.readLock
        BY <3>2 DEF RecordInv, Consistent
      <4> QED BY <4>1, <4>2 DEF UsedEvc, Unreadable, NewObject
    <3> QED BY <3>1, <3>2
  <2>2. GivenBack(before, c) = IF b \in Critical \/ c \notin copy.last THEN 0 ELSE UsedEvc(before)
    BY <1>2, <1>6, GivenOnce
  <2> QED BY <2>1, <2>2 DEF Backed
<1>7. ASSUME NEW d \in Bundle, NEW c \in Contact
      PROVE  Backing(copies', d, c) <= owed'[d][c]
  <2>1. /\ Backing(copies', d, c)
             = Backing(copies, d, c)
               + (IF b = d THEN Backed(copies'[id], c) - Backed(copy, c) ELSE 0)
        /\ Backing(copies, d, c) \in Int
    <3>1. \A j \in DOMAIN copies : copies[j] \in Copy
      BY DEF RecordInv, IInv, Typed
    <3>2. IsFiniteSet(DOMAIN copies)
      BY DEF RecordInv
    <3> DEFINE cs == copies
               ds == copies'
    <3>3. /\ IsFiniteSet(DOMAIN cs) /\ DOMAIN ds = DOMAIN cs
          /\ \A j \in DOMAIN cs : cs[j] \in Copy /\ ds[j] \in Copy
          /\ id \in DOMAIN cs /\ ds[id].bundle = cs[id].bundle /\ cs[id].bundle = b
          /\ \A j \in DOMAIN cs \ {id} : ds[j] = cs[j]
      BY <1>3, <1>4, <1>5, <3>1, <3>2
    <3> HIDE DEF cs, ds, b
    <3>4. /\ Backing(ds, d, c)
               = Backing(cs, d, c)
                 + (IF cs[id].bundle = d THEN Backed(ds[id], c) - Backed(cs[id], c) ELSE 0)
          /\ Backing(cs, d, c) \in Int
      BY <3>3, BackingChange
    <3> QED BY <3>3, <3>4 DEF cs, ds
  <2>2. Backing(copies, d, c) <= owed[d][c] /\ owed[d][c] \in Int
    BY DEF RecordInv, IInv, Typed
  <2>3. owed'[d][c] = owed[d][c] + (IF b = d THEN taken(c) - Backed(copy, c) ELSE 0)
    <3>1. DOMAIN owed = Bundle
      BY DEF RecordInv, IInv, Typed
    <3>2. CASE d = b
      <4>1. owed'[b][c] = owed[b][c] - GivenBack(before, c) + taken(c)
        <5>1. owed'[b] = [e \in Contact |->
                owed[b][e] - GivenBack(before, e)
                + IF done /\ \E r \in routes : e \in r THEN Evc(copy.part) ELSE 0]
          BY <1>1, <1>2, <3>1
        <5> QED BY <5>1
      <4>2. taken(c) \in Int /\ Backed(copy, c) \in Int
        BY <1>2, BackedTyped
      <4>3. GivenBack(before, c) = Backed(copy, c)
        BY <1>6
      <4> HIDE DEF taken, before, copy, b
      <4> QED BY <2>2, <3>2, <4>1, <4>2, <4>3
    <3>3. CASE d # b
      BY <1>1, <2>2, <3>1, <3>3
    <3> QED BY <3>2, <3>3
  <2>4. Backed(copies'[id], c) = taken(c)
    BY <1>5
  <2>5. taken(c) \in Int /\ Backed(copy, c) \in Int
    BY <1>2, BackedTyped
  <2> HIDE DEF taken, copy, b
  <2> QED BY <2>1, <2>2, <2>3, <2>4, <2>5
<1>8. \A j \in DOMAIN copies' : Consistent(copies'[j])
  BY <1>3, <1>4, <1>5 DEF RecordInv
<1>9. IsFiniteSet(DOMAIN copies')
  BY <1>3 DEF RecordInv
<1>10. \A d \in Bundle, c \in Contact : Backing(copies', d, c) <= owed'[d][c]
  BY <1>7
<1> QED
  BY <1>8, <1>9, <1>10 DEF RecordInv, Consistent, Backing, Backed, UsedEvc, Unreadable, IsClone

LEMMA RecordKept ==
  ASSUME RecordInv, IInv', UNCHANGED <<copies, owed>>
  PROVE  RecordInv'
BY DEF RecordInv, Consistent, Backing, Backed, UsedEvc, Unreadable, IsClone

\* A copy that waits again, or is gone, can give back no more than before.
LEMMA RecordTimeout ==
  ASSUME RecordInv, IInv', NEW id \in DOMAIN copies, Timeout(id)
  PROVE  RecordInv'
<1> DEFINE copy == copies[id]
           waiting == [copy EXCEPT !.queued = FALSE]
<1>1. /\ copies' = [copies EXCEPT ![id] = waiting] /\ UNCHANGED owed
      /\ \A j \in DOMAIN copies : copies[j] \in Copy
      /\ IsFiniteSet(DOMAIN copies) /\ Consistent(copy)
  BY DEF Timeout, RecordInv, IInv, Typed
<1>2. /\ waiting \in Copy /\ waiting.bundle = copy.bundle /\ ~ waiting.queued
      /\ waiting.object = copy.object /\ waiting.part = copy.part /\ waiting.last = copy.last
  BY <1>1 DEF Copy
<1>3. Consistent(waiting)
  BY <1>1, <1>2 DEF Consistent
<1>4. ASSUME NEW c PROVE Backed(waiting, c) <= Backed(copy, c)
  <2>1. UsedEvc(waiting) = UsedEvc(copy) /\ UsedEvc(copy) \in Nat /\ Evc("whole") \in Nat
    BY <1>1, <1>2, UsedEvcNatural, EvcNatural DEF UsedEvc, Unreadable, IsClone, Part
  <2>2. copy.part = "whole" => UsedEvc(copy) <= Evc("whole")
    BY <1>1, <2>1 DEF UsedEvc, Unreadable, Consistent
  <2> HIDE DEF copy, waiting
  <2> QED BY <1>2, <2>1, <2>2 DEF Backed
<1>5. ASSUME NEW b \in Bundle, NEW c \in Contact
      PROVE  Backing(copies', b, c) <= owed[b][c]
  <2> DEFINE ds == copies'
  <2>1. /\ DOMAIN ds = DOMAIN copies /\ ds[id] = waiting
        /\ \A j \in DOMAIN copies : copies[j] \in Copy /\ ds[j] \in Copy
        /\ ds[id].bundle = copies[id].bundle /\ \A j \in DOMAIN copies \ {id} : ds[j] = copies[j]
    BY <1>1, <1>2
  <2> HIDE DEF ds, waiting
  <2>2. /\ Backing(ds, b, c)
              = Backing(copies, b, c)
                + (IF copies[id].bundle = b THEN Backed(ds[id], c) - Backed(copies[id], c) ELSE 0)
        /\ Backing(copies, b, c) \in Int
    BY <1>1, <2>1, BackingChange
  <2>3. Backing(copies, b, c) <= owed[b][c] /\ owed[b][c] \in Int
    BY DEF RecordInv, IInv, Typed
  <2>4. Backed(ds[id], c) <= Backed(copies[id], c)
        /\ Backed(ds[id], c) \in Int /\ Backed(copies[id], c) \in Int
    BY <1>1, <1>2, <1>4, <2>1, BackedTyped
  <2>5. Backing(ds, b, c) <= owed[b][c]
    BY <2>2, <2>3, <2>4
  <2> QED BY <2>5 DEF ds
<1>6. /\ IsFiniteSet(DOMAIN copies') /\ \A j \in DOMAIN copies' : Consistent(copies'[j])
      /\ \A b \in Bundle, c \in Contact : Backing(copies', b, c) <= owed'[b][c]
  BY <1>1, <1>3, <1>5 DEF RecordInv
<1> QED
  BY <1>6 DEF RecordInv, Consistent, Backing, Backed, UsedEvc, Unreadable, IsClone

LEMMA RecordLeave ==
  ASSUME RecordInv, IInv', NEW id \in DOMAIN copies, Leave(id)
  PROVE  RecordInv'
<1> DEFINE ds == [j \in DOMAIN copies \ {id} |-> copies[j]]
<1>1. /\ copies' = ds /\ UNCHANGED owed
      /\ \A j \in DOMAIN copies : copies[j] \in Copy
      /\ IsFiniteSet(DOMAIN copies) /\ \A j \in DOMAIN copies : Consistent(copies[j])
  BY DEF Leave, Restrict, RecordInv, IInv, Typed
<1>2. /\ IsFiniteSet(DOMAIN ds) /\ id \notin DOMAIN ds /\ DOMAIN copies = DOMAIN ds \cup {id}
      /\ \A j \in DOMAIN ds : ds[j] = copies[j]
  BY <1>1, FS_RemoveElement
<1> HIDE DEF ds
<1>3. ASSUME NEW b \in Bundle, NEW c \in Contact PROVE Backing(ds, b, c) <= owed[b][c]
  <2>1. /\ Backing(copies, b, c)
              = Backing(ds, b, c) + (IF copies[id].bundle = b THEN Backed(copies[id], c) ELSE 0)
        /\ Backing(ds, b, c) \in Int
    BY <1>1, <1>2, BackingAdd
  <2>2. Backing(copies, b, c) <= owed[b][c] /\ owed[b][c] \in Int
    BY DEF RecordInv, IInv, Typed
  <2>3. Backed(copies[id], c) \in Nat
    BY <1>1, BackedTyped
  <2> QED BY <2>1, <2>2, <2>3
<1>4. /\ IsFiniteSet(DOMAIN copies') /\ \A j \in DOMAIN copies' : Consistent(copies'[j])
      /\ \A b \in Bundle, c \in Contact : Backing(copies', b, c) <= owed'[b][c]
  BY <1>1, <1>2, <1>3
<1> QED
  BY <1>4 DEF RecordInv, Consistent, Backing, Backed, UsedEvc, Unreadable, IsClone

LEMMA NewIdFree == NewIds # {} => NewId \notin DOMAIN copies /\ NewId \in CopyId
<1>1. NewIds # {} => (CHOOSE id \in NewIds : TRUE) \in NewIds
  OBVIOUS
<1> QED
  BY <1>1 DEF NewId, NewIds

\* A copy that comes with nothing to give back.
LEMMA RecordNew ==
  ASSUME RecordInv, IInv', NewIds # {}, NEW copy \in Copy, Consistent(copy),
         \A c : Backed(copy, c) = 0,
         copies' = With(NewId, copy), UNCHANGED owed
  PROVE  RecordInv'
<1> DEFINE ds == With(NewId, copy)
<1>1. /\ \A j \in DOMAIN copies : copies[j] \in Copy
      /\ IsFiniteSet(DOMAIN copies) /\ \A j \in DOMAIN copies : Consistent(copies[j])
  BY DEF RecordInv, IInv, Typed
<1>2. /\ NewId \notin DOMAIN copies /\ DOMAIN ds = DOMAIN copies \cup {NewId}
      /\ ds[NewId] = copy /\ \A j \in DOMAIN copies : ds[j] = copies[j]
  BY NewIdFree DEF With
<1> HIDE DEF ds
<1>3. ASSUME NEW b \in Bundle, NEW c \in Contact PROVE Backing(ds, b, c) <= owed[b][c]
  <2>1. \A j \in DOMAIN ds : ds[j] \in Copy
    BY <1>1, <1>2
  <2> DEFINE id == NewId
  <2>2. id \notin DOMAIN copies /\ DOMAIN ds = DOMAIN copies \cup {id} /\ ds[id] = copy
    BY <1>2
  <2> HIDE DEF id
  <2>3. /\ Backing(ds, b, c)
              = Backing(copies, b, c) + (IF ds[id].bundle = b THEN Backed(ds[id], c) ELSE 0)
        /\ Backing(copies, b, c) \in Int
    BY <1>1, <1>2, <2>1, <2>2, BackingAdd
  <2>4. Backing(copies, b, c) <= owed[b][c]
    BY DEF RecordInv
  <2> QED BY <2>2, <2>3, <2>4
<1>4. /\ IsFiniteSet(DOMAIN copies') /\ \A j \in DOMAIN copies' : Consistent(copies'[j])
      /\ \A b \in Bundle, c \in Contact : Backing(copies', b, c) <= owed'[b][c]
  <2>1. copies' = ds
    BY DEF ds
  <2>2. IsFiniteSet(DOMAIN ds)
    BY <1>1, <1>2, FS_AddElement
  <2> QED BY <1>1, <1>2, <1>3, <2>1, <2>2
<1> QED
  BY <1>4 DEF RecordInv, Consistent, Backing, Backed, UsedEvc, Unreadable, IsClone

LEMMA RecordReceive ==
  ASSUME RecordInv, IInv', NEW b \in Bundle, NEW arriving \in Arriving[b],
         Receive(b, arriving[1], arriving[2])
  PROVE  RecordInv'
<1> DEFINE copy == [bundle |-> b, part |-> arriving[1], queued |-> FALSE, last |-> arriving[2],
                    object |-> NewObject]
<1>1. copy \in Copy
  <2>1. arriving \in Part \X (Route \cup {{}})
    BY ReforwardingAssumption
  <2> QED BY <2>1, NewObjectTyped DEF Copy
<1>2. Consistent(copy) /\ \A c : Backed(copy, c) = 0
  BY DEF Consistent, NewObject, Backed, UsedEvc, Unreadable
<1>3. NewIds # {} /\ copies' = With(NewId, copy) /\ UNCHANGED owed
  BY DEF Receive
<1> HIDE DEF copy
<1> QED
  BY <1>1, <1>2, <1>3, RecordNew

\* "Bundle has been cloned": the clone has nothing to give back.
LEMMA RecordClone ==
  ASSUME Distinct, RecordInv, IInv', NEW id \in DOMAIN copies, Clone(id)
  PROVE  RecordInv'
<1> DEFINE original == copies[id]
           clone == [original EXCEPT !.queued = FALSE, !.object = Copied(@)]
<1>1. original \in Copy /\ Consistent(original) /\ original.part = "whole"
  BY DEF RecordInv, IInv, Typed, Clone, Distinct
<1>2. /\ clone \in Copy /\ ~ clone.queued /\ clone.part = "whole"
      /\ clone.bundle = original.bundle /\ clone.object = Copied(original.object)
  <2>1. Copied(original.object) \in Object
    BY <1>1, ObjectsTyped DEF Copy
  <2> QED BY <1>1, <2>1 DEF Copy
<1>3. /\ clone.object.cloneLevel \in {1, 2} /\ clone.object.part = original.object.part
      /\ clone.object.readLock = original.object.readLock
      /\ clone.object.evc = original.object.evc
  <2>1. original.object \in Object
    BY <1>1 DEF Copy
  <2> HIDE DEF clone, original
  <2> QED BY <1>2, <2>1 DEF Copied, Object
<1>4. Consistent(clone)
  <2> HIDE DEF clone, original
  <2> QED BY <1>1, <1>2, <1>3 DEF Consistent
<1>5. \A c : Backed(clone, c) = 0
  <2> HIDE DEF clone, original
  <2> QED BY <1>2, <1>3 DEF Backed, UsedEvc, Unreadable, IsClone
<1>6. NewIds # {} /\ copies' = With(NewId, clone) /\ UNCHANGED owed
  BY DEF Clone
<1> HIDE DEF clone
<1> QED
  BY <1>2, <1>4, <1>5, <1>6, RecordNew

\* The two fragments can give back their payloads, the whole bundle could give back more.
LEMMA RecordFragment ==
  ASSUME RecordInv, IInv', NEW id \in DOMAIN copies, Fragment(id)
  PROVE  RecordInv'
<1> DEFINE whole == copies[id]
           fragment == [whole EXCEPT !.object = Copied(@)]
           second == [fragment EXCEPT !.part = "second", !.queued = FALSE]
           first == [fragment EXCEPT !.part = "first"]
           cs == With(NewId, second)
           ds == [cs EXCEPT ![id] = first]
<1>1. /\ whole \in Copy /\ Consistent(whole) /\ whole.part = "whole" /\ whole.queued
      /\ NewIds # {} /\ copies' = ds /\ UNCHANGED owed
      /\ IsFiniteSet(DOMAIN copies) /\ \A j \in DOMAIN copies : copies[j] \in Copy
  BY DEF Fragment, RecordInv, IInv, Typed
<1>2. whole.object \in Object /\ Copied(whole.object) \in Object
  BY <1>1, ObjectsTyped DEF Copy
<1>3. /\ whole.object.readLock /\ whole.object.cloneLevel \in {0, 1}
      /\ whole.object.part = "whole" /\ whole.object.evc = Evc("whole")
      /\ whole.bundle \in Recorded
  <2> HIDE DEF whole
  <2> QED BY <1>1, <1>2 DEF Consistent, Object
<1>4. /\ Copied(whole.object).readLock /\ Copied(whole.object).cloneLevel = 1
      /\ Copied(whole.object).part = "whole" /\ Copied(whole.object).evc = Evc("whole")
  <2> HIDE DEF whole
  <2> QED BY <1>2, <1>3 DEF Copied, Object
<1>5. /\ first \in Copy /\ first.bundle = whole.bundle /\ first.last = whole.last
      /\ first.part = "first" /\ first.object = Copied(whole.object) /\ first.queued
      /\ second \in Copy /\ second.bundle = whole.bundle /\ second.last = whole.last
      /\ second.part = "second" /\ second.object = Copied(whole.object) /\ ~ second.queued
  <2>1. /\ fragment \in Copy /\ fragment.bundle = whole.bundle /\ fragment.last = whole.last
        /\ fragment.object = Copied(whole.object) /\ fragment.queued
    BY <1>1, <1>2 DEF Copy
  <2> HIDE DEF fragment
  <2> QED BY <2>1 DEF Copy, Part
<1>6. Consistent(first) /\ Consistent(second)
  <2>1. whole.last # {}
    BY <1>1 DEF Consistent
  <2> HIDE DEF first, second, whole
  <2> QED BY <1>3, <1>4, <1>5, <2>1 DEF Consistent
<1>7. ASSUME NEW c
      PROVE  /\ Backed(first, c) + Backed(second, c) <= Backed(whole, c)
             /\ Backed(first, c) \in Nat /\ Backed(second, c) \in Nat /\ Backed(whole, c) \in Nat
  <2>1. UsedEvc(first) = 1 /\ UsedEvc(second) = 1
    <3> HIDE DEF first, second, whole
    <3> QED BY <1>4, <1>5 DEF UsedEvc, Unreadable, IsClone, Payload
  <2>2. Evc("whole") = 3
    BY DEF Evc, Payload
  <2> HIDE DEF first, second, whole
  <2> QED BY <1>1, <1>5, <2>1, <2>2 DEF Backed
<1>8. /\ NewId \notin DOMAIN copies /\ NewId # id
      /\ DOMAIN cs = DOMAIN copies \cup {NewId} /\ DOMAIN ds = DOMAIN cs
      /\ cs[NewId] = second /\ ds[NewId] = second /\ cs[id] = whole /\ ds[id] = first
      /\ \A j \in DOMAIN copies : cs[j] = copies[j]
      /\ \A j \in DOMAIN cs \ {id} : ds[j] = cs[j]
  <2> HIDE DEF first, second
  <2> QED BY <1>1, NewIdFree DEF With
<1> HIDE DEF first, second, cs, ds
<1>9. IsFiniteSet(DOMAIN cs) /\ \A j \in DOMAIN cs : cs[j] \in Copy /\ ds[j] \in Copy
  <2>1. IsFiniteSet(DOMAIN cs)
    BY <1>1, <1>8, FS_AddElement
  <2>2. \A j \in DOMAIN cs : cs[j] \in Copy
    BY <1>1, <1>5, <1>8
  <2> QED BY <1>5, <1>8, <2>1, <2>2
<1>10. ASSUME NEW b \in Bundle, NEW c \in Contact PROVE Backing(ds, b, c) <= owed[b][c]
  <2> DEFINE new == NewId
  <2>1. /\ new \notin DOMAIN copies /\ DOMAIN cs = DOMAIN copies \cup {new} /\ cs[new] = second
        /\ \A j \in DOMAIN cs : cs[j] \in Copy /\ \A k \in DOMAIN copies : cs[k] = copies[k]
    BY <1>8, <1>9
  <2> HIDE DEF new
  <2>2. /\ Backing(cs, b, c)
              = Backing(copies, b, c) + (IF cs[new].bundle = b THEN Backed(cs[new], c) ELSE 0)
        /\ Backing(copies, b, c) \in Int
    BY <1>1, <2>1, BackingAdd
  <2>3. /\ Backing(ds, b, c)
              = Backing(cs, b, c)
                + (IF cs[id].bundle = b THEN Backed(ds[id], c) - Backed(cs[id], c) ELSE 0)
        /\ Backing(cs, b, c) \in Int
    <3>1. id \in DOMAIN cs /\ ds[id].bundle = cs[id].bundle
      BY <1>5, <1>8
    <3> QED BY <1>8, <1>9, <3>1, BackingChange
  <2>4. Backing(copies, b, c) <= owed[b][c] /\ owed[b][c] \in Int
    BY DEF RecordInv, IInv, Typed
  <2>5. /\ Backed(first, c) + Backed(second, c) <= Backed(whole, c)
        /\ Backed(first, c) \in Nat /\ Backed(second, c) \in Nat /\ Backed(whole, c) \in Nat
    BY <1>7
  <2>6. /\ cs[new] = second /\ cs[id] = whole /\ ds[id] = first
        /\ second.bundle = whole.bundle
    BY <1>5, <1>8, <2>1
  <2> HIDE DEF whole
  <2> QED BY <2>2, <2>3, <2>4, <2>5, <2>6
<1>11. /\ IsFiniteSet(DOMAIN copies') /\ \A j \in DOMAIN copies' : Consistent(copies'[j])
       /\ \A b \in Bundle, c \in Contact : Backing(copies', b, c) <= owed'[b][c]
  <2>1. \A j \in DOMAIN copies : Consistent(copies[j])
    BY DEF RecordInv
  <2>2. \A j \in DOMAIN ds : Consistent(ds[j])
    <3> HIDE DEF whole
    <3> QED BY <1>6, <1>8, <2>1
  <2> HIDE DEF whole
  <2> QED BY <1>1, <1>8, <1>9, <1>10, <2>2
<1> QED
  BY <1>11 DEF RecordInv, Consistent, Backing, Backed, UsedEvc, Unreadable, IsClone

LEMMA RecordInit == Init => RecordInv
<1> SUFFICES ASSUME Init PROVE RecordInv
  OBVIOUS
<1>1. copies = [id \in {} |-> NewObject] /\ DOMAIN copies = {}
  BY DEF Init
<1>2. ASSUME NEW b \in Bundle, NEW c \in Contact PROVE Backing(copies, b, c) <= owed[b][c]
  <2>1. {id \in DOMAIN copies : copies[id].bundle = b} = {}
    BY <1>1
  <2>2. Backing(copies, b, c) = 0
    BY <2>1, SumEmpty DEF Backing
  <2>3. owed[b][c] = 0
    BY DEF Init
  <2> QED BY <2>2, <2>3
<1> QED
  BY <1>1, <1>2, InitInv, FS_EmptySet DEF RecordInv

LEMMA RecordStep ==
  ASSUME Distinct, RecordInv, IInv', [Next]_vars
  PROVE  RecordInv'
<1>1. ASSUME NEW id \in DOMAIN copies, Forward(id) PROVE RecordInv'
  <2>1. PICK plans \in UpdatedPlans :
          IF HasInstance(copies[id].bundle) THEN RouteCopy(id, plans)
          ELSE UNCHANGED <<ion, copies, owed>>
    BY <1>1 DEF Forward
  <2>2. ~ copies[id].queued
    BY <1>1 DEF Forward
  <2> QED BY <2>1, <2>2, RecordRouted, RecordKept
<1>2. ASSUME NEW id \in DOMAIN copies, Timeout(id) \/ Leave(id) \/ Clone(id) \/ Fragment(id)
      PROVE  RecordInv'
  BY <1>2, RecordTimeout, RecordLeave, RecordClone, RecordFragment
<1>3. ASSUME NEW b \in Bundle, NEW arriving \in Arriving[b], Receive(b, arriving[1], arriving[2])
      PROVE  RecordInv'
  BY <1>3, RecordReceive
<1>4. ASSUME NEW c \in Unsteady, EditPlan(c) \/ RfxRemove(c) PROVE RecordInv'
  BY <1>4, RecordKept DEF EditPlan, RfxRemove
<1>5. CASE ForwardFails \/ Restart \/ UNCHANGED vars
  BY <1>5, RecordKept DEF ForwardFails, Restart, vars
<1> QED
  BY <1>1, <1>2, <1>3, <1>4, <1>5 DEF Next

LEMMA RecordExact == Distinct /\ RecordInv => RefillExact
<1> SUFFICES ASSUME Distinct, RecordInv PROVE RefillExact
  OBVIOUS
<1>1. ASSUME NEW b \in Bundle, NEW c \in Contact
      PROVE  SumFunctionOnSet([id \in DOMAIN copies |-> GivenBack(copies[id], c)], CopiesOf(b))
               <= owed[b][c]
  <2> DEFINE f == [id \in DOMAIN copies |-> GivenBack(copies[id], c)]
             g == [id \in DOMAIN copies |-> Backed(copies[id], c)]
             S == CopiesOf(b)
  <2>1. ASSUME NEW id \in DOMAIN copies
        PROVE  f[id] \in Nat /\ g[id] \in Nat /\ f[id] <= g[id]
    <3> DEFINE copy == copies[id]
    <3>1. copy \in Copy /\ Consistent(copy)
      BY DEF RecordInv, IInv, Typed
    <3>2. GivenBack(copy, c)
            = IF copy.bundle \in Critical \/ c \notin copy.last THEN 0 ELSE UsedEvc(copy)
      BY <3>1, GivenOnce
    <3>3. UsedEvc(copy) \in Nat /\ Evc("whole") \in Nat
      BY <3>1, UsedEvcNatural, EvcNatural DEF Part
    <3>4. copy.part = "whole" => UsedEvc(copy) <= Evc("whole")
      BY <3>1, <3>3 DEF UsedEvc, Unreadable, Consistent
    <3>5. f[id] = GivenBack(copy, c) /\ g[id] = Backed(copy, c)
      OBVIOUS
    <3> HIDE DEF f, g, copy
    <3> QED BY <3>2, <3>3, <3>4, <3>5 DEF Backed
  <2>2. IsFiniteSet(S) /\ \A id \in S : f[id] \in Int /\ g[id] \in Int /\ f[id] <= g[id]
    <3>1. S \subseteq DOMAIN copies /\ IsFiniteSet(S)
      BY FS_Subset DEF CopiesOf, RecordInv
    <3> HIDE DEF f, g, S
    <3> QED BY <2>1, <3>1
  <2>3. Sum(g, S) <= owed[b][c] /\ owed[b][c] \in Int
    BY DEF RecordInv, IInv, Typed, Backing, CopiesOf
  <2> HIDE DEF f, g, S
  <2>4. Sum(f, S) <= Sum(g, S) /\ Sum(f, S) \in Int /\ Sum(g, S) \in Int
    BY <2>2, SumMonotone, SumInteger
  <2>5. Sum(f, S) <= owed[b][c]
    BY <2>3, <2>4
  <2> QED BY <2>5 DEF Sum, f, S
<1>2. QueuedRefundable
  <2> SUFFICES ASSUME NEW id \in DOMAIN copies, copies[id].queued,
                      \/ copies[id].object.cloneLevel = 0
                      \/ /\ copies[id].part # "whole"
                         /\ copies[id].object.part = copies[id].part
               PROVE  copies[id].last # {} /\ UsedEvc(copies[id]) = Evc(copies[id].part)
    BY DEF QueuedRefundable
  <2>1. Consistent(copies[id])
    BY DEF RecordInv
  <2> QED BY <2>1 DEF Consistent, UsedEvc, Unreadable, IsClone
<1> QED
  BY <1>1, <1>2 DEF RefillExact, RefillCovered

\* Whatever clones, fragments, timeouts and returns follow each other, the copies of a bundle
\* can together give back no more than was booked for it, and a queued one all of it; where
\* fragments are not cloned whole and the contacts of a pair are further apart than the
\* tolerance by which the interface finds them again.
THEOREM ReforwardingRefillExact ==
  ASSUME \A c \in Contact : Near[c] = {c}, ~ CloneFragments
  PROVE  Spec => []RefillExact
<1>1. Distinct
  BY DEF Distinct
<1>2. Init => IInv /\ RecordInv
  BY InitInv, RecordInit
<1>3. IInv /\ RecordInv /\ [Next]_vars => IInv' /\ RecordInv'
  BY <1>1, StepInv, RecordStep
<1>4. RecordInv => RefillExact
  BY <1>1, RecordExact
<1> QED
  BY <1>2, <1>3, <1>4, PTL DEF Spec

=============================================================================
