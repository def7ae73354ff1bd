------------------------ MODULE RouteSelectionProofs ------------------------
(***************************************************************************)
(* The account that the mtv of the contacts keeps of what was booked adds  *)
(* up, and never leaves a priority more than a higher one: for all         *)
(* contacts, volumes, candidates and bundles, with an anti-loop feature or *)
(* without.                                                                *)
(***************************************************************************)
EXTENDS RouteSelection, FiniteSetTheorems, NaturalsInduction, WellFoundedInduction, TLAPS

\* What is inductive: the account, and the types of what it is made of.
AccountTyped ==
  /\ volume \in [Contact -> Nat]
  /\ mtv \in [Contact -> [Priority -> Int]]
  /\ booked \in [Contact -> [Priority -> Nat]]
  /\ forgotten \in [Contact -> [Priority -> Nat]]
  /\ \A c \in Contact, p \in Priority : forgotten[c][p] <= booked[c][p]

AccountInv == AccountTyped /\ BookingAccounted

-----------------------------------------------------------------------------
(* The routes chosen in a call are finitely many *)

LEMMA ImageFinite ==
  ASSUME NEW S, IsFiniteSet(S), NEW T, NEW f \in [S -> T], \A t \in T : \E x \in S : f[x] = t
  PROVE  IsFiniteSet(T)
<1>1. f \in Surjection(S, T)
  BY DEF Surjection
<1> QED
  BY <1>1, FS_Surjection

LEMMA ChosenFinite ==
  ASSUME NEW b, NEW cs \in Offers
  PROVE  IsFiniteSet(ChooseBestRoutes(b, cs))
<1>1. IsFiniteSet(DOMAIN cs)
  <2>1. PICK m \in 0 .. MaxCandidates : cs \in [1 .. m -> Candidate]
    BY DEF Offers, SeqOf
  <2> QED
    BY <2>1, FS_Interval, RouteSelectionAssumption
<1>2. IsFiniteSet(OneBestRoutePerNeighbor(cs))
  <2> DEFINE neighbors == {cs[i].neighbor : i \in DOMAIN cs}
  <2>1. IsFiniteSet(neighbors)
    <3> DEFINE via == [i \in DOMAIN cs |-> cs[i].neighbor]
    <3>1. via \in [DOMAIN cs -> neighbors] /\ \A n \in neighbors : \E i \in DOMAIN cs : via[i] = n
      OBVIOUS
    <3> HIDE DEF neighbors, via
    <3> QED BY <1>1, <3>1, ImageFinite
  <2>2. IsFiniteSet({BestRouteVia(n, cs) : n \in neighbors})
    <3> DEFINE bests == {BestRouteVia(n, cs) : n \in neighbors}
               best == [n \in neighbors |-> BestRouteVia(n, cs)]
    <3>1. best \in [neighbors -> bests] /\ \A r \in bests : \E n \in neighbors : best[n] = r
      OBVIOUS
    <3> HIDE DEF neighbors, best, bests
    <3>2. IsFiniteSet(bests)
      BY <2>1, <3>1, ImageFinite
    <3> QED BY <3>2 DEF bests
  <2> QED
    BY <2>2 DEF OneBestRoutePerNeighbor
<1> QED
  BY <1>2, FS_Singleton DEF ChooseBestRoutes

LEMMA CopiesNat ==
  ASSUME NEW rs, IsFiniteSet(rs), NEW c
  PROVE  Copies(c, rs) \in Nat
BY FS_Subset, FS_CardinalityType DEF Copies

-----------------------------------------------------------------------------
(* The order of the routes *)

\* a is preferred to b whichever of them the cost function is given first.
Beats(a, b) == Better(a, b) /\ ~ Better(b, a)

LEMMA CostsType ==
  ASSUME NEW r \in Route
  PROVE  Costs(r) \in [1 .. 5 -> Int]
BY DEF Costs, Route

\* The first difference decides: a strict order.
LEMMA CheaperOrder ==
  ASSUME NEW a \in Route, NEW b \in Route, NEW c \in Route
  PROVE  /\ Cheaper(a, b) /\ Cheaper(b, c) => Cheaper(a, c)
         /\ ~ (Cheaper(a, b) /\ Cheaper(b, a))
<1> DEFINE A == Costs(a)  B == Costs(b)  C == Costs(c)
<1>1. A \in [1 .. 5 -> Int] /\ B \in [1 .. 5 -> Int] /\ C \in [1 .. 5 -> Int]
  BY CostsType
<1>2. ASSUME Cheaper(a, b), Cheaper(b, c) PROVE Cheaper(a, c)
  <2>1. PICK i \in 1 .. 5 : A[i] < B[i] /\ \A j \in 1 .. i - 1 : A[j] = B[j]
    BY <1>2 DEF Cheaper
  <2>2. PICK k \in 1 .. 5 : B[k] < C[k] /\ \A j \in 1 .. k - 1 : B[j] = C[j]
    BY <1>2 DEF Cheaper
  <2> HIDE DEF A, B, C
  <2>3. \E m \in 1 .. 5 : A[m] < C[m] /\ \A j \in 1 .. m - 1 : A[j] = C[j]
    <3>1. CASE i <= k
      <4>1. A[i] < C[i] /\ \A j \in 1 .. i - 1 : A[j] = C[j]
        BY <1>1, <2>1, <2>2, <3>1
      <4> QED BY <4>1
    <3>2. CASE k < i
      <4>1. A[k] < C[k] /\ \A j \in 1 .. k - 1 : A[j] = C[j]
        BY <1>1, <2>1, <2>2, <3>2
      <4> QED BY <4>1
    <3> QED BY <3>1, <3>2
  <2> QED BY <2>3 DEF A, C, Cheaper
<1>3. ASSUME Cheaper(a, b), Cheaper(b, a) PROVE FALSE
  <2>1. PICK i \in 1 .. 5 : A[i] < B[i] /\ \A j \in 1 .. i - 1 : A[j] = B[j]
    BY <1>3 DEF Cheaper
  <2>2. PICK k \in 1 .. 5 : B[k] < A[k] /\ \A j \in 1 .. k - 1 : B[j] = A[j]
    BY <1>3 DEF Cheaper
  <2> HIDE DEF A, B, C
  <2> QED BY <1>1, <2>1, <2>2
<1> QED
  BY <1>2, <1>3

LEMMA BetterTransitive ==
  ASSUME NEW a \in Route, NEW b \in Route, NEW c \in Route, Better(a, b), Better(b, c)
  PROVE  Better(a, c)
<1>1. CASE antiLoop
  BY <1>1 DEF Better, Route
<1>2. CASE ~ antiLoop
  BY <1>2, CheaperOrder DEF Better
<1> QED
  BY <1>1, <1>2

-----------------------------------------------------------------------------
(* The best of some candidates *)

LEMMA LeastNatural ==
  ASSUME NEW T \in SUBSET Nat, T # {}
  PROVE  \E m \in T : \A k \in T : m <= k
<1>1. PICK m \in T : \A k \in T : <<k, m>> \notin OpToRel(<, Nat)
  BY NatLessThanWellFounded, WFMin
<1>2. OpToRel(<, Nat) = {ss \in Nat \X Nat : ss[1] < ss[2]}
  BY Zenon DEF OpToRel
<1>3. ASSUME NEW k \in T PROVE ~ (k < m)
  <2>1. <<k, m>> \notin {ss \in Nat \X Nat : ss[1] < ss[2]}
    BY <1>1, <1>2, Zenon
  <2>2. k \in Nat /\ m \in Nat
    OBVIOUS
  <2> QED BY <2>1, <2>2
<1>4. \A k \in T : m <= k
  <2>1. \A k \in T : k \in Nat /\ m \in Nat
    OBVIOUS
  <2> QED BY <1>3, <2>1
<1> QED
  BY <1>4

\* g holds, for every i, what BestIndex finds among the first i candidates.
IsBestSoFar(cs, among, n, g) ==
  g = [i \in 0 .. n |->
         IF i = 0 THEN 0
         ELSE IF i \in among /\ (g[i - 1] # 0 => Better(cs[i], cs[g[i - 1]]))
              THEN i ELSE g[i - 1]]

LEMMA BestSoFarExists ==
  ASSUME NEW cs, NEW among, NEW n \in Nat
  PROVE  \E g : IsBestSoFar(cs, among, n, g)
<1> DEFINE without == {k \in Nat : ~ \E g : IsBestSoFar(cs, among, k, g)}
<1>1. SUFFICES ASSUME without # {} PROVE FALSE
  OBVIOUS
<1>2. PICK m \in without : \A k \in without : m <= k
  <2>1. without \in SUBSET Nat
    OBVIOUS
  <2> HIDE DEF without
  <2> QED BY <1>1, <2>1, LeastNatural
<1>3. CASE m = 0
  <2>1. IsBestSoFar(cs, among, 0, [i \in 0 .. 0 |-> 0])
    BY DEF IsBestSoFar
  <2> QED BY <1>3, <2>1
<1>4. CASE m # 0
  <2>1. PICK g : IsBestSoFar(cs, among, m - 1, g)
    <3>1. m - 1 \in Nat /\ m - 1 \notin without
      <4> HIDE DEF without
      <4>1. m \in Nat
        BY DEF without
      <4> QED BY <1>2, <1>4, <4>1
    <3> QED BY <3>1
  <2> DEFINE last == IF m \in among /\ (g[m - 1] # 0 => Better(cs[m], cs[g[m - 1]]))
                     THEN m ELSE g[m - 1]
             h == [i \in 0 .. m |-> IF i = m THEN last ELSE g[i]]
  <2>2. m \in Nat /\ m > 0
    BY <1>4
  <2>3. h = [i \in 0 .. m |->
               IF i = 0 THEN 0
               ELSE IF i \in among /\ (h[i - 1] # 0 => Better(cs[i], cs[h[i - 1]]))
                    THEN i ELSE h[i - 1]]
    <3>1. \A i \in 0 .. m : i # m => h[i] = g[i] /\ i \in 0 .. m - 1
      BY <2>2
    <3>2. \A i \in 0 .. m - 1 :
            g[i] = IF i = 0 THEN 0
                   ELSE IF i \in among /\ (g[i - 1] # 0 => Better(cs[i], cs[g[i - 1]]))
                        THEN i ELSE g[i - 1]
      BY <2>1, Zenon DEF IsBestSoFar
    <3>3. h[m] = last /\ h[m - 1] = g[m - 1]
      BY <2>2
    <3>4. \A i \in 1 .. m - 1 : h[i - 1] = g[i - 1]
      BY <2>2
    <3>5. \A i \in 0 .. m :
            h[i] = IF i = 0 THEN 0
                   ELSE IF i \in among /\ (h[i - 1] # 0 => Better(cs[i], cs[h[i - 1]]))
                        THEN i ELSE h[i - 1]
      <4> SUFFICES ASSUME NEW i \in 0 .. m
                   PROVE h[i] = IF i = 0 THEN 0
                         ELSE IF i \in among /\ (h[i - 1] # 0 => Better(cs[i], cs[h[i - 1]]))
                              THEN i ELSE h[i - 1]
        BY Zenon
      <4> HIDE DEF h
      <4>1. CASE i = m
        BY <2>2, <3>3, <4>1
      <4>2. CASE i = 0
        BY <2>2, <3>1, <3>2, <4>2
      <4>3. CASE i # m /\ i # 0
        BY <2>2, <3>1, <3>2, <3>4, <4>3
      <4> QED BY <4>1, <4>2, <4>3
    <3> QED
      BY <3>5, Zenon DEF h
  <2>4. IsBestSoFar(cs, among, m, h)
    BY <2>3 DEF IsBestSoFar
  <2> QED BY <2>4
<1> QED
  BY <1>3, <1>4

LEMMA BestIndexIs ==
  ASSUME NEW cs, Len(cs) \in Nat, NEW among
  PROVE  \E g : IsBestSoFar(cs, among, Len(cs), g) /\ BestIndex(cs, among) = g[Len(cs)]
<1>1. PICK g : IsBestSoFar(cs, among, Len(cs), g)
  BY BestSoFarExists
<1> DEFINE best == CHOOSE f : f = [i \in 0 .. Len(cs) |->
         IF i = 0 THEN 0
         ELSE IF i \in among /\ (f[i - 1] # 0 => Better(cs[i], cs[f[i - 1]]))
              THEN i ELSE f[i - 1]]
<1>2. best = [i \in 0 .. Len(cs) |->
         IF i = 0 THEN 0
         ELSE IF i \in among /\ (best[i - 1] # 0 => Better(cs[i], cs[best[i - 1]]))
              THEN i ELSE best[i - 1]]
  BY <1>1, Zenon DEF IsBestSoFar
<1>3. BestIndex(cs, among) = best[Len(cs)]
  BY Zenon DEF BestIndex
<1> HIDE DEF best
<1> QED
  BY <1>2, <1>3, Zenon DEF IsBestSoFar

\* What is found is among the candidates looked at, and none of them beats it.
LEMMA BestSoFarUnbeaten ==
  ASSUME NEW cs \in Seq(Route), NEW among \in SUBSET DOMAIN cs,
         NEW g, IsBestSoFar(cs, among, Len(cs), g), NEW n \in 0 .. Len(cs)
  PROVE  IF among \cap (1 .. n) = {} THEN g[n] = 0
         ELSE /\ g[n] \in among \cap (1 .. n)
              /\ \A i \in among \cap (1 .. n) : ~ Beats(cs[i], cs[g[n]])
<1> DEFINE Good(k) == IF among \cap (1 .. k) = {} THEN g[k] = 0
                      ELSE /\ g[k] \in among \cap (1 .. k)
                           /\ \A i \in among \cap (1 .. k) : ~ Beats(cs[i], cs[g[k]])
           bad == {k \in 0 .. Len(cs) : ~ Good(k)}
<1>1. SUFFICES ASSUME bad # {} PROVE FALSE
  OBVIOUS
<1>2. PICK m \in bad : \A k \in bad : m <= k
  <2>1. bad \in SUBSET Nat
    OBVIOUS
  <2> HIDE DEF bad
  <2> QED BY <1>1, <2>1, LeastNatural
<1>3. m \in 0 .. Len(cs) /\ ~ Good(m)
  OBVIOUS
<1>4. \A k \in 0 .. Len(cs) : k < m => Good(k)
  <2> SUFFICES ASSUME NEW k \in 0 .. Len(cs), k < m, ~ Good(k) PROVE FALSE
    OBVIOUS
  <2>1. k \in bad
    OBVIOUS
  <2> HIDE DEF bad
  <2> QED BY <1>2, <1>3, <2>1
<1>5. Len(cs) \in Nat /\ DOMAIN cs = 1 .. Len(cs) /\ \A i \in 1 .. Len(cs) : cs[i] \in Route
  OBVIOUS
<1>6. \A i \in 0 .. Len(cs) :
        g[i] = IF i = 0 THEN 0
               ELSE IF i \in among /\ (g[i - 1] # 0 => Better(cs[i], cs[g[i - 1]]))
                    THEN i ELSE g[i - 1]
  BY Zenon DEF IsBestSoFar
<1>7. m # 0
  BY <1>3, <1>5, <1>6
<1>8. m - 1 \in 0 .. Len(cs) /\ m - 1 < m /\ m \in 1 .. Len(cs)
  BY <1>3, <1>5, <1>7
<1>9. Good(m - 1)
  <2> HIDE DEF Good
  <2> QED BY <1>4, <1>8
<1>10. g[m] = IF m \in among /\ (g[m - 1] # 0 => Better(cs[m], cs[g[m - 1]]))
              THEN m ELSE g[m - 1]
  BY <1>3, <1>6, <1>7
<1>11. among \cap (1 .. m) = IF m \in among THEN (among \cap (1 .. m - 1)) \cup {m}
                             ELSE among \cap (1 .. m - 1)
  BY <1>5, <1>8
<1>12. CASE m \notin among
  BY <1>3, <1>9, <1>10, <1>11, <1>12
<1>13. CASE m \in among /\ among \cap (1 .. m - 1) = {}
  <2>1. g[m] = m /\ among \cap (1 .. m) = {m}
    BY <1>9, <1>10, <1>11, <1>13
  <2>2. ~ Beats(cs[m], cs[m])
    BY DEF Beats
  <2> QED BY <1>3, <1>13, <2>1, <2>2
<1>14. CASE m \in among /\ among \cap (1 .. m - 1) # {}
  <2> DEFINE b == g[m - 1]
  <2>1. /\ b \in among \cap (1 .. m - 1) /\ b # 0
        /\ \A i \in among \cap (1 .. m - 1) : ~ Beats(cs[i], cs[b])
    BY <1>5, <1>9, <1>14
  <2>2. \A i \in among \cap (1 .. m) : i \in among \cap (1 .. m - 1) \/ i = m
    BY <1>11
  <2>3. cs[m] \in Route /\ cs[b] \in Route /\ \A i \in among : cs[i] \in Route
    BY <1>5, <1>8, <2>1
  <2>4. ~ Beats(cs[m], cs[m])
    BY DEF Beats
  <2>5. CASE Better(cs[m], cs[b])
    <3>1. g[m] = m
      BY <1>10, <1>14, <2>5
    <3>2. ASSUME NEW i \in among \cap (1 .. m - 1) PROVE ~ Beats(cs[i], cs[m])
      BY <2>1, <2>3, <2>5, <3>2, BetterTransitive DEF Beats
    <3> QED BY <1>3, <1>8, <1>14, <2>2, <2>4, <3>1, <3>2
  <2>6. CASE ~ Better(cs[m], cs[b])
    <3>1. g[m] = b
      BY <1>10, <2>1, <2>6
    <3>2. ~ Beats(cs[m], cs[b])
      BY <2>6 DEF Beats
    <3> QED BY <1>3, <1>5, <1>8, <2>1, <2>2, <3>1, <3>2
  <2> QED BY <2>5, <2>6
<1> QED
  BY <1>12, <1>13, <1>14

\* The best of the candidates with an index in among is one of them, and unbeaten.
LEMMA BestIndexUnbeaten ==
  ASSUME NEW cs \in Seq(Route), NEW among \in SUBSET DOMAIN cs, among # {}
  PROVE  /\ BestIndex(cs, among) \in among
         /\ \A i \in among : ~ Beats(cs[i], cs[BestIndex(cs, among)])
<1>1. Len(cs) \in Nat /\ among \cap (1 .. Len(cs)) = among /\ Len(cs) \in 0 .. Len(cs)
  OBVIOUS
<1>2. PICK g : IsBestSoFar(cs, among, Len(cs), g) /\ BestIndex(cs, among) = g[Len(cs)]
  BY <1>1, BestIndexIs
<1> QED
  BY <1>1, <1>2, BestSoFarUnbeaten

-----------------------------------------------------------------------------
LEMMA AccountInit == Init => AccountInv
BY RouteSelectionAssumption DEF Init, AccountInv, AccountTyped, BookingAccounted, SinceRevised, From, Priority

\* Forward books the same volume on mtv, at its priority and below, and in the account.
LEMMA AccountForward ==
  ASSUME AccountInv, NEW b \in Bundle, NEW cs \in Offers, Forward(b, cs)
  PROVE  AccountInv'
<1> DEFINE sent == [c \in Contact |-> Copies(c, ChooseBestRoutes(b, cs)) * b.evc]
<1>1. b.priority \in Priority /\ b.evc \in Nat
  BY RouteSelectionAssumption DEF Bundle
<1>2. sent \in [Contact -> Nat]
  BY <1>1, ChosenFinite, CopiesNat
<1>3. /\ mtv' = [c \in Contact |-> [i \in Priority |->
                   IF i <= b.priority THEN mtv[c][i] - sent[c] ELSE mtv[c][i]]]
      /\ booked' = [c \in Contact |-> [booked[c] EXCEPT ![b.priority] = @ + sent[c]]]
      /\ volume' = volume /\ forgotten' = forgotten
  BY DEF Forward, UpdateVolumes, Record
<1> HIDE DEF sent
<1>4. AccountTyped'
  BY <1>1, <1>2, <1>3 DEF AccountInv, AccountTyped, Priority
<1>5. BookingAccounted'
  BY <1>1, <1>2, <1>3 DEF AccountInv, AccountTyped, BookingAccounted, SinceRevised, From, Priority
<1> QED
  BY <1>4, <1>5 DEF AccountInv

\* From its revision on, nothing is booked on a contact.
LEMMA AccountRevise ==
  ASSUME AccountInv, NEW c \in Contact, NEW new \in RevisedVolume[c], ReviseContact(c, new)
  PROVE  AccountInv'
<1>1. /\ volume' = [volume EXCEPT ![c] = new] /\ new \in Nat
      /\ mtv' = [mtv EXCEPT ![c] = [p \in Priority |-> new]]
      /\ forgotten' = [forgotten EXCEPT ![c] = booked[c]] /\ booked' = booked
  BY RouteSelectionAssumption DEF ReviseContact
<1>2. AccountTyped'
  BY <1>1 DEF AccountInv, AccountTyped, Priority
<1>3. ASSUME NEW d \in Contact, NEW p \in Priority
      PROVE  mtv'[d][p] = volume'[d] - From(SinceRevised(d)', p)
  <2>1. CASE d = c
    <3>1. mtv'[d][p] = new /\ volume'[d] = new
      BY <1>1, <2>1 DEF AccountInv, AccountTyped
    <3>2. SinceRevised(d)' = [q \in Priority |-> 0]
      BY <1>1, <2>1 DEF AccountInv, AccountTyped, SinceRevised
    <3> QED BY <1>1, <3>1, <3>2 DEF From, Priority
  <2>2. CASE d # c
    <3>1. mtv'[d] = mtv[d] /\ volume'[d] = volume[d] /\ SinceRevised(d)' = SinceRevised(d)
      BY <1>1, <2>2 DEF AccountInv, AccountTyped, SinceRevised
    <3> QED BY <3>1 DEF AccountInv, BookingAccounted
  <2> QED BY <2>1, <2>2
<1> QED
  BY <1>2, <1>3 DEF AccountInv, BookingAccounted, From

LEMMA AccountStep == AccountInv /\ [Next]_vars => AccountInv'
<1> SUFFICES ASSUME AccountInv, [Next]_vars
             PROVE  AccountInv'
  OBVIOUS
<1>1. CASE \E b \in Bundle, cs \in Offers : Forward(b, cs)
  BY <1>1, AccountForward
<1>2. CASE \E c \in Contact : \E new \in RevisedVolume[c] : ReviseContact(c, new)
  BY <1>2, AccountRevise
<1>3. CASE \E enabled \in BOOLEAN : SetAntiLoop(enabled)
  BY <1>3 DEF SetAntiLoop, AccountInv, AccountTyped, BookingAccounted, SinceRevised, From
<1>4. CASE UNCHANGED vars
  BY <1>4 DEF vars, AccountInv, AccountTyped, BookingAccounted, SinceRevised, From
<1> QED
  BY <1>1, <1>2, <1>3, <1>4 DEF Next

\* What update_volumes subtracts from a contact adds up over any number of bundles, from the
\* last revision of the contact on.
THEOREM SelectionBookingAccounted == Spec => []BookingAccounted
<1>1. AccountInv => BookingAccounted
  BY DEF AccountInv
<1> QED
  BY AccountInit, AccountStep, <1>1, PTL DEF Spec

\* No contact is left with more for a priority than for a higher one.
THEOREM SelectionPriorityOrder == Spec => []PriorityOrder
<1>1. AccountInv => PriorityOrder
  BY DEF AccountInv, AccountTyped, BookingAccounted, SinceRevised, From, Priority, PriorityOrder
<1> QED
  BY AccountInit, AccountStep, <1>1, PTL DEF Spec

-----------------------------------------------------------------------------
(* The routes chosen in a call *)

\* The candidates a chosen route was preferred to: all, or those via its neighbor.
Rivals(b, cs, r) == {q \in Range(cs) : b.critical => q.neighbor = r.neighbor}

LEMMA OffersType ==
  ASSUME NEW cs \in Offers
  PROVE  /\ cs \in Seq(Route) /\ cs \in Seq(Candidate) /\ cs # <<>>
         /\ Range(cs) = {cs[i] : i \in DOMAIN cs} /\ DOMAIN cs # {}
         /\ Range(cs) \subseteq Candidate /\ Range(cs) \subseteq Route
<1>1. PICK m \in 0 .. MaxCandidates : cs \in [1 .. m -> Candidate]
  BY DEF Offers, SeqOf
<1>2. m \in Nat
  BY RouteSelectionAssumption
<1>3. cs \in Seq(Candidate) /\ cs # <<>>
  BY <1>1, <1>2 DEF Offers
<1>4. cs \in Seq(Route)
  BY <1>3, RouteSelectionAssumption
<1>5. Range(cs) = {cs[i] : i \in DOMAIN cs}
  BY DEF Range
<1>6. DOMAIN cs # {}
  BY <1>3
<1> QED
  BY <1>3, <1>4, <1>5, <1>6, RouteSelectionAssumption

\* A plain bundle gets one route, a critical one a route per neighbor, each unbeaten.
LEMMA ChosenUnbeaten ==
  ASSUME NEW b \in Bundle, NEW cs \in Offers
  PROVE  LET rs == ChooseBestRoutes(b, cs)
         IN  /\ rs \subseteq Range(cs)
             /\ \A r \in rs : \A q \in Rivals(b, cs, r) : ~ Beats(q, r)
             /\ \A q \in Range(cs) : \E r \in rs :
                  /\ b.critical => q.neighbor = r.neighbor
                  /\ \A d \in rs \ {r} : b.critical /\ d.neighbor # r.neighbor
             /\ \A r, d \in rs : r # d => b.critical /\ r.neighbor # d.neighbor
<1> DEFINE rs == ChooseBestRoutes(b, cs)
           via(n) == {i \in DOMAIN cs : cs[i].neighbor = n}
<1>1. cs \in Seq(Route) /\ Range(cs) = {cs[i] : i \in DOMAIN cs} /\ DOMAIN cs # {}
  BY OffersType
<1>2. CASE ~ b.critical
  <2> DEFINE k == BestIndex(cs, DOMAIN cs)
  <2>1. k \in DOMAIN cs /\ \A i \in DOMAIN cs : ~ Beats(cs[i], cs[k])
    BY <1>1, BestIndexUnbeaten
  <2>2. rs = {cs[k]}
    BY <1>2 DEF ChooseBestRoutes, BestRoute
  <2> HIDE DEF k, rs
  <2>3. rs \subseteq Range(cs) /\ \A r \in rs : \A q \in Range(cs) : ~ Beats(q, r)
    BY <1>1, <2>1, <2>2
  <2>4. \A r \in rs : Rivals(b, cs, r) \subseteq Range(cs)
    BY DEF Rivals
  <2> QED BY <1>2, <2>2, <2>3, <2>4 DEF rs
<1>3. CASE b.critical
  <2> DEFINE N == {cs[i].neighbor : i \in DOMAIN cs}
             best(n) == BestRouteVia(n, cs)
  <2>1. ASSUME NEW n \in N
        PROVE  /\ best(n) \in Range(cs) /\ best(n).neighbor = n
               /\ \A q \in Range(cs) : q.neighbor = n => ~ Beats(q, best(n))
    <3>1. via(n) \in SUBSET DOMAIN cs /\ via(n) # {}
      OBVIOUS
    <3> DEFINE k == BestIndex(cs, via(n))
    <3>2. k \in via(n) /\ \A i \in via(n) : ~ Beats(cs[i], cs[k])
      <4> HIDE DEF via
      <4> QED BY <1>1, <3>1, BestIndexUnbeaten
    <3>3. best(n) = cs[k]
      BY DEF BestRouteVia
    <3> HIDE DEF k, best
    <3> QED BY <1>1, <3>2, <3>3
  <2>2. rs = {best(n) : n \in N}
    BY <1>3 DEF ChooseBestRoutes, OneBestRoutePerNeighbor
  <2>3. \A q \in Range(cs) : q.neighbor \in N
    BY <1>1
  <2> HIDE DEF rs, best, N
  <2>4. rs \subseteq Range(cs)
    BY <2>1, <2>2
  <2>5. \A r \in rs : r.neighbor \in N /\ r = best(r.neighbor)
    BY <2>1, <2>2
  <2>6. \A r \in rs : \A q \in Rivals(b, cs, r) : ~ Beats(q, r)
    BY <1>3, <2>1, <2>5 DEF Rivals
  <2>7. \A r, d \in rs : r # d => r.neighbor # d.neighbor
    BY <2>5
  <2>8. \A q \in Range(cs) : best(q.neighbor) \in rs /\ best(q.neighbor).neighbor = q.neighbor
    BY <2>1, <2>2, <2>3
  <2> QED BY <1>3, <2>4, <2>6, <2>7, <2>8 DEF rs
<1> QED
  BY <1>2, <1>3

LEMMA TimesMonotonic ==
  ASSUME NEW i \in Nat, NEW j \in Nat, NEW e \in Nat, NEW x \in Nat, i <= j, e <= x
  PROVE  i * e <= j * x
<1>1. PICK d \in Nat : j = i + d
  <2>1. j - i \in Nat /\ j = i + (j - i)
    OBVIOUS
  <2> QED BY <2>1
<1>2. PICK y \in Nat : x = e + y
  <2>1. x - e \in Nat /\ x = e + (x - e)
    OBVIOUS
  <2> QED BY <2>1
<1>3. j * x = i * e + i * y + d * e + d * y
  BY <1>1, <1>2
<1>4. i * y \in Nat /\ d * e \in Nat /\ d * y \in Nat /\ i * e \in Nat
  OBVIOUS
<1> QED
  BY <1>3, <1>4

\* The largest estimated volume consumption.
LEMMA MaxOfEvc ==
  /\ Max(Evc) \in Evc /\ Max(Evc) \in Nat
  /\ \A e \in Evc : e <= Max(Evc)
<1>1. Evc \subseteq Nat /\ Evc # {} /\ IsFiniteSet(Evc)
  BY RouteSelectionAssumption
<1> DEFINE above(e) == {x \in Evc : x > e}
           counts == {Cardinality(above(e)) : e \in Evc}
<1>2. \A e \in Evc : IsFiniteSet(above(e)) /\ Cardinality(above(e)) \in Nat
  BY <1>1, FS_Subset, FS_CardinalityType
<1>3. PICK m \in Evc : \A e \in Evc : Cardinality(above(m)) <= Cardinality(above(e))
  <2>1. counts \in SUBSET Nat /\ counts # {}
    <3> HIDE DEF above
    <3> QED BY <1>1, <1>2
  <2>2. PICK k \in counts : \A j \in counts : k <= j
    <3> HIDE DEF counts
    <3> QED BY <2>1, LeastNatural
  <2> HIDE DEF above
  <2> QED BY <2>2
<1>4. \A e \in Evc : e <= m
  <2> SUFFICES ASSUME NEW e \in Evc, e > m PROVE FALSE
    BY <1>1
  <2>1. above(e) \subseteq above(m) /\ e \in above(m) /\ e \notin above(e)
    <3>1. e \in Nat /\ m \in Nat /\ \A x \in Evc : x \in Nat
      BY <1>1
    <3>2. \A x \in Evc : x > e => x > m
      BY <3>1
    <3>3. ~ (e > e)
      BY <3>1
    <3> QED BY <3>2, <3>3, Zenon
  <2> HIDE DEF above
  <2>2. Cardinality(above(e)) < Cardinality(above(m))
    BY <1>2, <2>1, FS_Subset
  <2> QED BY <1>2, <1>3, <2>2
<1>5. \A e \in Evc : m >= e
  BY <1>1, <1>4
<1>6. Max(Evc) \in Evc /\ \A e \in Evc : Max(Evc) >= e
  BY <1>5, Zenon DEF Max
<1> QED
  BY <1>1, <1>6

\* Copies of a plain bundle: one at most; of a critical one: one per neighbor with a
\* candidate over the contact.
LEMMA CopiesBound ==
  ASSUME NEW b \in Bundle, NEW cs \in Offers, NEW c \in Contact
  PROVE  LET k == Copies(c, ChooseBestRoutes(b, cs))
         IN  /\ k \in Nat
             /\ k = 0 \/ \E r \in ChooseBestRoutes(b, cs) : c \in r.hops
             /\ k * b.evc <= b.evc + Excess(c)
<1> DEFINE rs == ChooseBestRoutes(b, cs)
           over == {r \in rs : c \in r.hops}
           k == Copies(c, rs)
           meeting == {q \in Candidate : c \in q.hops}
           neighbors == {r.neighbor : r \in meeting}
<1>1. IsFiniteSet(rs) /\ k \in Nat /\ k = Cardinality(over)
  BY ChosenFinite, CopiesNat DEF Copies
<1>2. IsFiniteSet(over)
  BY <1>1, FS_Subset
<1>3. k = 0 \/ \E r \in rs : c \in r.hops
  <2>1. k = 0 \/ over # {}
    <3> HIDE DEF over, k
    <3> QED BY <1>1, <1>2, FS_EmptySet
  <2> QED BY <2>1
<1>4. /\ rs \subseteq Candidate
      /\ \A r, d \in rs : r # d => b.critical /\ r.neighbor # d.neighbor
  BY ChosenUnbeaten, OffersType
<1>5. b.evc \in Evc /\ b.evc \in Nat /\ b.critical \in Critical
  BY RouteSelectionAssumption DEF Bundle
<1>6. IsFiniteSet(neighbors)
  <2>1. IsFiniteSet(meeting)
    BY RouteSelectionAssumption, FS_Subset
  <2> DEFINE f == [r \in meeting |-> r.neighbor]
  <2>2. f \in [meeting -> neighbors] /\ \A n \in neighbors : \E r \in meeting : f[r] = n
    OBVIOUS
  <2> HIDE DEF meeting, f, neighbors
  <2> QED BY <2>1, <2>2, ImageFinite
<1>7. Cardinality(neighbors) \in Nat
  BY <1>6, FS_CardinalityType
<1>8. b.evc <= Max(Evc) /\ Max(Evc) \in Nat
  BY <1>5, MaxOfEvc
<1>9. Excess(c) = IF TRUE \in Critical /\ neighbors # {}
                  THEN (Cardinality(neighbors) - 1) * Max(Evc) ELSE 0
  BY Zenon DEF Excess
<1>10. k <= Cardinality(neighbors)
  <2> DEFINE f == [r \in over |-> r.neighbor]
  <2>1. f \in Injection(over, neighbors)
    <3>1. f \in [over -> neighbors]
      BY <1>4
    <3>2. \A r, d \in over : f[r] = f[d] => r = d
      BY <1>4
    <3> QED BY <3>1, <3>2 DEF Injection, IsInjective
  <2> HIDE DEF over, neighbors, f
  <2> QED BY <1>1, <1>2, <1>6, <2>1, FS_Injection
<1>11. neighbors = {} \/ Cardinality(neighbors) >= 1
  <2> HIDE DEF neighbors
  <2> QED BY <1>6, <1>7, FS_EmptySet
<1>12. Excess(c) >= 0 /\ Excess(c) \in Int
  <2> DEFINE m == Cardinality(neighbors)  e == Max(Evc)
  <2>1. m \in Nat /\ e \in Nat /\ (neighbors = {} \/ m >= 1)
    BY <1>7, <1>8, <1>11
  <2>2. ASSUME m >= 1 PROVE (m - 1) * e >= 0 /\ (m - 1) * e \in Int
    <3>1. m - 1 \in Nat
      BY <2>1, <2>2
    <3> HIDE DEF m, e
    <3> QED BY <2>1, <3>1
  <2>3. CASE TRUE \in Critical /\ neighbors # {}
    <3>1. Excess(c) = (m - 1) * e /\ m >= 1
      BY <1>9, <2>1, <2>3
    <3> HIDE DEF m, e
    <3> QED BY <2>2, <3>1
  <2>4. CASE ~ (TRUE \in Critical /\ neighbors # {})
    <3>1. Excess(c) = 0
      BY <1>9, <2>4
    <3> QED BY <3>1
  <2> HIDE DEF neighbors
  <2> QED BY <2>3, <2>4
<1>13. CASE k <= 1
  <2>1. k * b.evc <= b.evc
    <3> HIDE DEF k
    <3>1. k = 0 \/ k = 1
      BY <1>1, <1>13
    <3> QED BY <1>5, <3>1
  <2>2. k * b.evc \in Int
    BY <1>1, <1>5
  <2> HIDE DEF k, rs
  <2> QED BY <1>1, <1>3, <1>5, <1>12, <2>1, <2>2 DEF k, rs
<1>14. CASE k > 1
  <2>1. PICK r \in over, d \in over : r # d
    <3>1. ~ \E x : over = {x}
      <4> HIDE DEF over, k
      <4> QED BY <1>1, <1>14, FS_Singleton
    <3>2. over # {}
      <4> HIDE DEF over, k
      <4> QED BY <1>1, <1>14, FS_EmptySet
    <3> HIDE DEF over
    <3>3. PICK r \in over : TRUE
      BY <3>2
    <3>4. \E d \in over : d # r
      BY <3>1, <3>3
    <3> QED BY <3>3, <3>4
  <2>2. TRUE \in Critical /\ neighbors # {}
    <3>1. b.critical = TRUE
      BY <1>4, <1>5, <2>1, RouteSelectionAssumption
    <3>2. r \in meeting
      BY <1>4, <2>1
    <3> QED BY <1>5, <3>1, <3>2
  <2> DEFINE m == Cardinality(neighbors)  e == b.evc  x == Max(Evc)
  <2>3. Excess(c) = (m - 1) * x
    BY <1>9, <2>2
  <2>4. k \in Nat /\ m \in Nat /\ e \in Nat /\ x \in Nat /\ k <= m /\ e <= x /\ k > 1
    BY <1>1, <1>5, <1>7, <1>8, <1>10, <1>14
  <2> HIDE DEF m, e, x, k
  <2>5. k * e <= e + (m - 1) * x
    <3> DEFINE i == k - 1  j == m - 1
    <3>1. i \in Nat /\ j \in Nat /\ i <= j
      BY <2>4
    <3>2. k * e = e + i * e
      BY <2>4
    <3>3. i * e <= j * x
      <4> HIDE DEF i, j
      <4> QED BY <2>4, <3>1, TimesMonotonic
    <3> HIDE DEF i
    <3>4. i * e \in Int /\ j * x \in Int
      BY <2>4, <3>1
    <3> QED BY <2>4, <3>2, <3>3, <3>4
  <2> QED BY <1>1, <1>3, <2>3, <2>5 DEF k, e
<1> QED
  BY <1>1, <1>13, <1>14

-----------------------------------------------------------------------------
(* Every call chooses well, and leaves no contact overbooked *)

\* What is inductive: the account and the choice of the last call.
SelectionInv ==
  /\ AccountInv
  /\ TypeOK
  /\ NoOverbooking
  /\ \A b \in bestRoutes, r \in Range(candidates) :
       (bundle.critical => r.neighbor = b.neighbor) => ~ Beats(r, b)
  /\ \A r \in Range(candidates) : \E b \in bestRoutes :
       /\ bundle.critical => r.neighbor = b.neighbor
       /\ \A d \in bestRoutes \ {b} : bundle.critical /\ d.neighbor # b.neighbor

LEMMA ExcessNat ==
  ASSUME NEW c
  PROVE  Excess(c) \in Nat
<1> DEFINE meeting == {q \in Candidate : c \in q.hops}
           neighbors == {r.neighbor : r \in meeting}
           m == Cardinality(neighbors)
<1>1. IsFiniteSet(neighbors)
  <2>1. IsFiniteSet(meeting)
    BY RouteSelectionAssumption, FS_Subset
  <2> DEFINE f == [r \in meeting |-> r.neighbor]
  <2>2. f \in [meeting -> neighbors] /\ \A n \in neighbors : \E r \in meeting : f[r] = n
    OBVIOUS
  <2> HIDE DEF meeting, f, neighbors
  <2> QED BY <2>1, <2>2, ImageFinite
<1>2. Excess(c) = IF TRUE \in Critical /\ neighbors # {} THEN (m - 1) * Max(Evc) ELSE 0
  BY Zenon DEF Excess
<1> HIDE DEF neighbors
<1>3. m \in Nat /\ (neighbors # {} => m >= 1)
  BY <1>1, FS_CardinalityType, FS_EmptySet
<1>4. CASE TRUE \in Critical /\ neighbors # {}
  <2>1. m - 1 \in Nat /\ Max(Evc) \in Nat
    BY <1>3, <1>4, MaxOfEvc
  <2>2. Excess(c) = (m - 1) * Max(Evc)
    BY <1>2, <1>4
  <2> HIDE DEF m
  <2> QED BY <2>1, <2>2
<1>5. CASE ~ (TRUE \in Critical /\ neighbors # {})
  <2>1. Excess(c) = 0
    BY <1>2, <1>5, Zenon
  <2> QED BY <2>1
<1> QED
  BY <1>4, <1>5

LEMMA SelectionInit == Init => SelectionInv
<1> SUFFICES ASSUME Init PROVE SelectionInv
  OBVIOUS
<1>1. AccountInv
  BY AccountInit
<1>2. Range(candidates) = {}
  BY DEF Init, Range
<1>3. TypeOK
  <2>1. bundle \in Bundle
    <3>1. Min(Evc) \in Evc
      <4>1. Evc \in SUBSET Nat /\ Evc # {}
        BY RouteSelectionAssumption
      <4>2. PICK m \in Evc : \A e \in Evc : m <= e
        BY <4>1, LeastNatural
      <4> QED BY <4>2, Zenon DEF Min
    <3>2. {0} \subseteq Priority /\ {Min(Evc)} \subseteq Evc /\ {FALSE} \subseteq Critical
      <4>1. {0} \subseteq Priority
        BY DEF Priority
      <4>2. {Min(Evc)} \subseteq Evc /\ {FALSE} \subseteq Critical
        BY <3>1, RouteSelectionAssumption, Zenon
      <4> QED BY <4>1, <4>2
    <3>3. ASSUME NEW P, NEW E, NEW C, P \subseteq Priority, E \subseteq Evc, C \subseteq Critical
          PROVE  [priority : P, evc : E, critical : C] \subseteq Bundle
      BY <3>3 DEF Bundle
    <3>4. bundle \in [priority : {0}, evc : {Min(Evc)}, critical : {FALSE}]
      BY DEF Init
    <3> QED BY <3>2, <3>3, <3>4, Zenon
  <2>2. Cardinality(bestRoutes) = 0
    BY FS_EmptySet DEF Init
  <2>3. /\ Range(candidates) \subseteq Candidate /\ bestRoutes \subseteq Range(candidates)
        /\ bundle.critical \/ Cardinality(bestRoutes) <= 1
    BY <1>2, <2>2 DEF Init
  <2>4. antiLoop \in BOOLEAN
    BY Zenon DEF Init
  <2> QED BY <1>1, <2>1, <2>3, <2>4, Zenon DEF TypeOK, AccountInv, AccountTyped
<1>4. NoOverbooking
  <2> SUFFICES ASSUME NEW c \in Contact, NEW p \in Priority
               PROVE  SinceRevised(c)[p] <= volume[c] + Excess(c)
    BY DEF NoOverbooking
  <2>1. SinceRevised(c)[p] = 0 /\ volume[c] \in Nat
    BY RouteSelectionAssumption DEF Init, SinceRevised
  <2> QED BY <2>1, ExcessNat
<1> QED
  BY <1>1, <1>2, <1>3, <1>4 DEF Init, SelectionInv

LEMMA BeatsKept ==
  ASSUME antiLoop' = antiLoop, NEW a, NEW b
  PROVE  Beats(a, b)' <=> Beats(a, b)
<1>1. /\ Cheaper(a, b)' <=> Cheaper(a, b)
      /\ Cheaper(b, a)' <=> Cheaper(b, a)
  BY DEF Cheaper, Costs
<1>2. /\ Better(a, b)' <=> Better(a, b)
      /\ Better(b, a)' <=> Better(b, a)
  <2>1. antiLoop' <=> antiLoop
    BY Zenon
  <2> QED BY <1>1, <2>1, Zenon DEF Better
<1> QED
  BY <1>2 DEF Beats

LEMMA SelectionForward ==
  ASSUME SelectionInv, NEW b \in Bundle, NEW cs \in Offers, Forward(b, cs)
  PROVE  SelectionInv'
<1> DEFINE rs == ChooseBestRoutes(b, cs)
<1>1. AccountInv'
  BY AccountForward DEF SelectionInv
<1>2. /\ \A i \in DOMAIN cs : Fits(b, cs[i])
      /\ bundle' = b /\ candidates' = cs /\ bestRoutes' = rs /\ volume' = volume
      /\ forgotten' = forgotten
      /\ booked' = [c \in Contact |-> [booked[c] EXCEPT ![b.priority] = @ + Copies(c, rs) * b.evc]]
  BY DEF Forward, Record
<1>3. Range(cs)' = Range(cs)
  OBVIOUS
<1> HIDE DEF rs
<1>4. /\ rs \subseteq Range(cs)
      /\ \A r \in rs : \A q \in Rivals(b, cs, r) : ~ Beats(q, r)
      /\ \A q \in Range(cs) : \E r \in rs :
           /\ b.critical => q.neighbor = r.neighbor
           /\ \A d \in rs \ {r} : b.critical /\ d.neighbor # r.neighbor
      /\ \A r, d \in rs : r # d => b.critical /\ r.neighbor # d.neighbor
  BY ChosenUnbeaten, Zenon DEF rs
<1>5. /\ Range(cs) \subseteq Candidate /\ Range(cs) = {cs[i] : i \in DOMAIN cs}
  BY OffersType
<1>6. TypeOK'
  <2>1. b.critical \/ Cardinality(rs) <= 1
    <3>1. IsFiniteSet(rs)
      BY ChosenFinite DEF rs
    <3>2. CASE rs = {}
      BY <3>2, FS_EmptySet
    <3>3. CASE ~ b.critical /\ rs # {}
      <4>1. PICK r \in rs : rs = {r}
        BY <1>4, <3>3
      <4> QED BY <4>1, FS_Singleton
    <3> QED BY <3>2, <3>3
  <2>2. AccountTyped'
    BY <1>1 DEF AccountInv
  <2>3. /\ bundle' \in Bundle /\ Range(candidates') \subseteq Candidate
        /\ bestRoutes' \subseteq Range(candidates')
        /\ bundle'.critical \/ Cardinality(bestRoutes') <= 1
    BY <1>2, <1>4, <1>5, <2>1
  <2>4. antiLoop' \in BOOLEAN
    BY Zenon DEF SelectionInv, TypeOK, Forward
  <2> QED BY <2>2, <2>3, <2>4, Zenon DEF TypeOK, AccountTyped
<1>7. NoOverbooking'
  <2> SUFFICES ASSUME NEW c \in Contact, NEW p \in Priority
               PROVE  SinceRevised(c)'[p] <= volume'[c] + Excess(c)
    BY Zenon DEF NoOverbooking
  <2> DEFINE k == Copies(c, rs)
  <2>1. /\ b.priority \in Priority /\ b.evc \in Nat /\ booked[c][p] \in Nat /\ volume[c] \in Nat
        /\ volume'[c] = volume[c] /\ booked \in [Contact -> [Priority -> Nat]]
        /\ forgotten[c][p] \in Nat
    <3>1. b.priority \in Priority /\ b.evc \in Nat
      BY RouteSelectionAssumption DEF Bundle
    <3>2. /\ volume \in [Contact -> Nat] /\ booked \in [Contact -> [Priority -> Nat]]
          /\ forgotten \in [Contact -> [Priority -> Nat]]
      BY DEF SelectionInv, AccountInv, AccountTyped
    <3> QED BY <1>2, <3>1, <3>2
  <2>2. /\ k \in Nat /\ (k = 0 \/ \E r \in rs : c \in r.hops)
        /\ k * b.evc <= b.evc + Excess(c)
    BY CopiesBound, Zenon DEF rs
  <2>3. SinceRevised(c)[p] <= volume[c] + Excess(c)
    BY DEF SelectionInv, NoOverbooking
  <2> DEFINE since == booked[c][p] - forgotten[c][p]
  <2>6. SinceRevised(c)[p] = since /\ SinceRevised(c)'[p] = booked'[c][p] - forgotten[c][p]
    BY <1>2 DEF SinceRevised
  <2>4. CASE p # b.priority
    <3>1. booked'[c][p] = booked[c][p]
      BY <1>2, <2>1, <2>4
    <3> QED BY <2>1, <2>3, <2>6, <3>1
  <2>5. CASE p = b.priority
    <3>1. booked'[c][p] = booked[c][p] + k * b.evc
      BY <1>2, <2>1, <2>5
    <3> HIDE DEF k
    <3>2. CASE k = 0
      BY <2>1, <2>3, <2>6, <3>1, <3>2
    <3>3. CASE k # 0
      <4>1. PICK i \in DOMAIN cs : c \in cs[i].hops
        BY <1>4, <1>5, <2>2, <3>3
      <4>2. b.evc <= mtv[c][p]
        BY <1>2, <2>5, <4>1 DEF Fits
      <4>3. mtv[c][p] = volume[c] - From(SinceRevised(c), p)
        BY DEF SelectionInv, AccountInv, BookingAccounted
      <4>4. From(SinceRevised(c), p) \in Nat /\ From(SinceRevised(c), p) >= since
        <5>1. \A q \in Priority : SinceRevised(c)[q] \in Nat
          BY DEF SelectionInv, AccountInv, AccountTyped, SinceRevised
        <5> QED BY <2>6, <5>1 DEF From, Priority
      <4>5. k * b.evc \in Nat /\ Excess(c) \in Nat
        BY <2>1, <2>2, ExcessNat
      <4> QED BY <2>1, <2>2, <2>6, <3>1, <4>2, <4>3, <4>4, <4>5
    <3> QED BY <3>2, <3>3
  <2> QED BY <2>4, <2>5
<1>8. \A d \in rs, r \in Range(cs) :
        (b.critical => r.neighbor = d.neighbor) => ~ Beats(r, d)
  BY <1>4, Zenon DEF Rivals
<1>9. \A d \in rs, r \in Range(cs) : Beats(r, d)' <=> Beats(r, d)
  <2>1. antiLoop' = antiLoop
    BY Zenon DEF Forward
  <2> QED BY <2>1, BeatsKept
<1> QED
  BY <1>1, <1>2, <1>4, <1>6, <1>7, <1>8, <1>9 DEF SelectionInv, Range

LEMMA SelectionRevise ==
  ASSUME SelectionInv, NEW c \in Contact, NEW new \in RevisedVolume[c], ReviseContact(c, new)
  PROVE  SelectionInv'
<1>1. AccountInv'
  BY AccountRevise DEF SelectionInv
<1>2. /\ volume' = [volume EXCEPT ![c] = new] /\ new \in Nat
      /\ forgotten' = [forgotten EXCEPT ![c] = booked[c]] /\ booked' = booked
      /\ UNCHANGED <<bundle, candidates, bestRoutes>>
  BY RouteSelectionAssumption DEF ReviseContact
<1>3. TypeOK'
  <2>1. antiLoop' \in BOOLEAN
    BY Zenon DEF SelectionInv, TypeOK, ReviseContact
  <2>2. /\ bundle' \in Bundle /\ Range(candidates') \subseteq Candidate
        /\ bestRoutes' \subseteq Range(candidates')
        /\ bundle'.critical \/ Cardinality(bestRoutes') <= 1
    BY <1>2 DEF SelectionInv, TypeOK
  <2> QED BY <1>1, <2>1, <2>2, Zenon DEF TypeOK, AccountInv, AccountTyped
<1>4. NoOverbooking'
  <2> SUFFICES ASSUME NEW d \in Contact, NEW p \in Priority
               PROVE  SinceRevised(d)'[p] <= volume'[d] + Excess(d)
    BY Zenon DEF NoOverbooking
  <2>1. /\ volume \in [Contact -> Nat] /\ booked \in [Contact -> [Priority -> Nat]]
        /\ forgotten \in [Contact -> [Priority -> Nat]]
    BY DEF SelectionInv, AccountInv, AccountTyped
  <2>2. Excess(d) \in Nat /\ SinceRevised(d)[p] <= volume[d] + Excess(d)
    BY ExcessNat DEF SelectionInv, NoOverbooking
  <2>3. CASE d = c
    <3>1. SinceRevised(d)'[p] = 0
      BY <1>2, <2>1, <2>3 DEF SinceRevised
    <3> QED BY <1>2, <2>1, <2>2, <2>3, <3>1
  <2>4. CASE d # c
    <3>1. SinceRevised(d)'[p] = SinceRevised(d)[p] /\ volume'[d] = volume[d]
      BY <1>2, <2>1, <2>4 DEF SinceRevised
    <3> QED BY <2>2, <3>1
  <2> QED BY <2>3, <2>4
<1>5. \A b, r : Beats(r, b)' <=> Beats(r, b)
  <2>1. antiLoop' = antiLoop
    BY Zenon DEF ReviseContact
  <2> QED BY <2>1, BeatsKept
<1> QED
  BY <1>1, <1>2, <1>3, <1>4, <1>5 DEF SelectionInv, Range

LEMMA SelectionSetting ==
  ASSUME SelectionInv, NEW enabled \in BOOLEAN, SetAntiLoop(enabled)
  PROVE  SelectionInv'
<1>1. AccountInv'
  BY AccountStep DEF SelectionInv, Next
<1>2. /\ antiLoop' = enabled /\ candidates' = <<>> /\ bestRoutes' = {}
      /\ UNCHANGED <<volume, bundle, booked, forgotten>>
  BY DEF SetAntiLoop
<1>3. Range(candidates') = {}
  BY <1>2 DEF Range
<1>4. TypeOK'
  <2>1. Cardinality(bestRoutes') = 0
    BY <1>2, FS_EmptySet
  <2>2. /\ bundle' \in Bundle /\ Range(candidates') \subseteq Candidate
        /\ bestRoutes' \subseteq Range(candidates')
        /\ bundle'.critical \/ Cardinality(bestRoutes') <= 1
    BY <1>2, <1>3, <2>1 DEF SelectionInv, TypeOK
  <2>3. antiLoop' \in BOOLEAN
    BY <1>2, Zenon
  <2> QED BY <1>1, <2>2, <2>3, Zenon DEF TypeOK, AccountInv, AccountTyped
<1>5. NoOverbooking'
  BY <1>2, Zenon DEF SelectionInv, NoOverbooking, SinceRevised
<1> QED
  BY <1>1, <1>2, <1>3, <1>4, <1>5 DEF SelectionInv

LEMMA SelectionStep == SelectionInv /\ [Next]_vars => SelectionInv'
<1> SUFFICES ASSUME SelectionInv, [Next]_vars
             PROVE  SelectionInv'
  OBVIOUS
<1>1. CASE \E b \in Bundle, cs \in Offers : Forward(b, cs)
  BY <1>1, SelectionForward
<1>2. CASE \E c \in Contact : \E new \in RevisedVolume[c] : ReviseContact(c, new)
  BY <1>2, SelectionRevise
<1>3. CASE \E enabled \in BOOLEAN : SetAntiLoop(enabled)
  BY <1>3, SelectionSetting
<1>4. CASE UNCHANGED vars
  <2>1. AccountInv' /\ TypeOK'
    BY <1>4, AccountStep DEF vars, SelectionInv, TypeOK, AccountInv, AccountTyped
  <2>2. NoOverbooking'
    <3>1. volume' = volume /\ booked' = booked /\ forgotten' = forgotten
      BY <1>4 DEF vars
    <3> QED BY <3>1, Zenon DEF SelectionInv, NoOverbooking, SinceRevised
  <2> QED
    BY <1>4, <2>1, <2>2 DEF vars, SelectionInv, Beats, Better, Cheaper, Costs, Range
<1> QED
  BY <1>1, <1>2, <1>3, <1>4 DEF Next

\* Whatever the contacts, their volumes, the candidates and the bundles, a call returns
\* candidates, one of them unless the bundle is critical, and since a contact was last
\* revised bundles of one priority have not filled it beyond its volume, but for the copies
\* of one critical bundle.
THEOREM SelectionIsSound == Spec => []SelectionSound
<1>1. SelectionInv => SelectionSound
  BY DEF SelectionInv, SelectionSound
<1> QED
  BY SelectionInit, SelectionStep, <1>1, PTL DEF Spec

\* Whatever the candidates, one is chosen, for a critical bundle one per neighbor: without
\* an anti-loop feature no candidate left behind is cheaper, with one none is less of a loop.
THEOREM SelectionBestChosen == Spec => []BestChosen
<1>1. SelectionInv => BestChosen
  <2> SUFFICES ASSUME SelectionInv
               PROVE  \A b \in bestRoutes, r \in Range(candidates) : r \in LeftBehind(b) =>
                        IF antiLoop THEN b.checkValue <= r.checkValue ELSE ~ Cheaper(r, b)
    BY DEF SelectionInv, BestChosen
  <2> SUFFICES ASSUME NEW b \in bestRoutes, NEW r \in Range(candidates), r \in LeftBehind(b)
               PROVE  IF antiLoop THEN b.checkValue <= r.checkValue ELSE ~ Cheaper(r, b)
    OBVIOUS
  <2>1. r \in Route /\ b \in Route
    BY RouteSelectionAssumption DEF SelectionInv, TypeOK
  <2>2. ~ Beats(r, b)
    BY DEF SelectionInv, LeftBehind
  <2>3. CASE antiLoop
    BY <2>1, <2>2, <2>3 DEF Beats, Better, Route
  <2>4. CASE ~ antiLoop
    BY <2>1, <2>2, <2>4, CheaperOrder DEF Beats, Better
  <2> QED BY <2>3, <2>4
<1> QED
  BY SelectionInit, SelectionStep, <1>1, PTL DEF Spec

=============================================================================
