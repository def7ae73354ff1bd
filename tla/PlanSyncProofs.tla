---------------------------- MODULE PlanSyncProofs ----------------------------
(***************************************************************************)
(* Whatever lists DTNME's ContactPlanManager holds and however often it    *)
(* edits them while the interface walks the plan: the plan never has an    *)
(* overlap, an entry that did not change is not touched, and the walk,     *)
(* with its failed extensions, ends with the manager's lists.              *)
(***************************************************************************)
EXTENDS PlanSync, FiniteSetTheorems, TLAPS

\* What the plan is made of: entries as the library wants them.
Tidy(es) ==
  /\ es \subseteq Listed /\ IsFiniteSet(es) /\ Disjoint(es)
  /\ \A e \in es : e.fromTime < e.toTime

\* The entries of the list at hand, as the plan has them.
Wanted == {FromList(c) : c \in copy}

\* A walk that is at position a has left the entry with this key behind.
Passed(a, key) == a = NONE \/ Before(key, a)

\* What the walk has passed is as the list has it, or was refused its new end by an entry
\* that the walk has yet to remove: then it starts over.
Walked(es, a) ==
  \A e \in es : Passed(a, Key(e)) =>
    e \in Wanted \/ \E n \in es : Match(n) = {} /\ ~ Passed(a, Key(n))

\* What was offered is in the plan unless it is over, and nothing else is.
Offered(k) ==
  /\ plan[k] \subseteq Wanted /\ left \subseteq copy
  /\ \A c \in copy \ left : FromList(c).toTime > now => FromList(c) \in plan[k]

InStep(k) == Live(plan[k]) = Live({FromList(c) : c \in lists[k]})

Phases ==
  {<<>>, <<"route">>}
    \cup {<<p, k>> : p \in {"take", "update", "add"}, k \in Kind}

\* Contacts come first: they are done when the ranges have their turn.
DoneWith(k) ==
  \/ step = <<>> \/ step = <<"route">>
  \/ k = "contact" /\ \E p \in {"take", "update", "add"} : Running(p, "range")

Working(k) == Running("update", k) \/ Running("add", k)

SyncTyped ==
  /\ DOMAIN plan = Kind /\ DOMAIN lists = Kind
  /\ \A k \in Kind : Tidy(plan[k]) /\ lists[k] \in Lists[k]
  /\ seen \in Nat /\ edits \in Nat /\ seen <= edits /\ edits <= MaxEdits
  /\ now \in ClockTime /\ step \in Phases

SyncWork ==
  \A k \in Kind :
    /\ Working(k) => copy \in Lists[k] /\ (seen = edits => copy = lists[k])
    /\ Running("update", k) =>
         Walked(plan[k], at) /\ (at # NONE => \E e \in plan[k] : Key(e) = at)
    /\ Running("add", k) => Offered(k)
    /\ DoneWith(k) /\ seen = edits => InStep(k)

SyncInv == SyncTyped /\ SyncWork

-----------------------------------------------------------------------------
(* Finite sets *)

\* A non-empty finite set of integers has a least element: strict inclusion is
\* well-founded on its initial segments.
LEMMA LeastFinite ==
  ASSUME NEW S \in SUBSET Int, S # {}, IsFiniteSet(S)
  PROVE  \E m \in S : \A n \in S : m <= n
<1> DEFINE upto(k) == {n \in S : n <= k}
           segments == {upto(k) : k \in S}
<1>1. segments \subseteq FiniteSubsetsOf(S) /\ segments # {}
  <2>1. ASSUME NEW k \in S PROVE upto(k) \in FiniteSubsetsOf(S)
    <3>1. upto(k) \in SUBSET S
      OBVIOUS
    <3>2. IsFiniteSet(upto(k))
      <4> HIDE DEF upto
      <4> QED BY <3>1, FS_Subset
    <3> QED BY <3>2 DEF FiniteSubsetsOf
  <2> QED BY <2>1
<1>2. PICK least \in segments :
        \A other \in segments : <<other, least>> \notin StrictSubsetOrdering(S)
  <2> HIDE DEF segments
  <2> QED BY <1>1, FS_StrictSubsetOrderingWellFounded, WFMin
<1>3. PICK m \in S : least = upto(m)
  OBVIOUS
<1>4. ASSUME NEW n \in S PROVE m <= n
  <2>1. SUFFICES ASSUME n < m PROVE FALSE
    OBVIOUS
  <2>2. upto(n) \subseteq upto(m)
    <3>1. \A x \in S : x <= n => x <= m
      BY <2>1
    <3> QED BY <3>1
  <2>3. m \in upto(m) /\ m \notin upto(n)
    BY <2>1
  <2>4. upto(n) # upto(m)
    <3> HIDE DEF upto
    <3> QED BY <2>3
  <2>5. upto(n) \in SUBSET S /\ upto(m) \in SUBSET S
    OBVIOUS
  <2>6. <<upto(n), upto(m)>> \in StrictSubsetOrdering(S)
    <3> HIDE DEF upto
    <3> QED BY <2>2, <2>4, <2>5 DEF StrictSubsetOrdering
  <2>7. upto(n) \in segments
    OBVIOUS
  <2> HIDE DEF upto, segments
  <2> QED BY <1>2, <1>3, <2>6, <2>7
<1> QED
  BY <1>4

\* The values of a function on a finite set are finitely many.
LEMMA FiniteImage ==
  ASSUME NEW S, IsFiniteSet(S), NEW f, DOMAIN f = S, f = [x \in S |-> f[x]]
  PROVE  IsFiniteSet({f[x] : x \in S})
<1> DEFINE T == {f[x] : x \in S}
<1>1. f \in Surjection(S, T)
  BY DEF Surjection
<1> HIDE DEF T
<1>2. IsFiniteSet(T)
  BY <1>1, FS_Surjection
<1> QED
  BY <1>2 DEF T

-----------------------------------------------------------------------------
(* The order of the walk *)

Triple == Nat \X Nat \X Nat

LEMMA BeforeOrder ==
  ASSUME NEW a \in Triple, NEW b \in Triple
  PROVE  /\ a = b \/ Before(a, b) \/ Before(b, a)
         /\ ~ (Before(a, b) /\ Before(b, a)) /\ ~ Before(a, a)
         /\ \A c \in Triple : Before(a, b) /\ Before(b, c) => Before(a, c)
<1>1. a[1] \in Nat /\ a[2] \in Nat /\ a[3] \in Nat /\ a = <<a[1], a[2], a[3]>>
  BY DEF Triple
<1>2. b[1] \in Nat /\ b[2] \in Nat /\ b[3] \in Nat /\ b = <<b[1], b[2], b[3]>>
  BY DEF Triple
<1>3. a = b \/ Before(a, b) \/ Before(b, a)
  BY <1>1, <1>2 DEF Before
<1>4. ~ (Before(a, b) /\ Before(b, a)) /\ ~ Before(a, a)
  BY <1>1, <1>2 DEF Before
<1>5. ASSUME NEW c \in Triple, Before(a, b), Before(b, c) PROVE Before(a, c)
  <2>1. c[1] \in Nat /\ c[2] \in Nat /\ c[3] \in Nat
    BY DEF Triple
  <2> QED BY <1>1, <1>2, <1>5, <2>1 DEF Before
<1> QED
  BY <1>3, <1>4, <1>5

\* Of the keys with the least component i there is one.
LEMMA LeastComponent ==
  ASSUME NEW keys \in SUBSET Triple, IsFiniteSet(keys), keys # {}, NEW i \in 1 .. 3
  PROVE  \E m \in keys : \A b \in keys : m[i] <= b[i]
<1> DEFINE f == [a \in keys |-> a[i]]
           T == {f[a] : a \in keys}
<1>1. T \in SUBSET Int /\ T # {}
  BY DEF Triple
<1>2. IsFiniteSet(T)
  <2>1. DOMAIN f = keys /\ f = [a \in keys |-> f[a]]
    OBVIOUS
  <2> HIDE DEF f
  <2> QED BY <2>1, FiniteImage
<1>3. PICK m \in T : \A n \in T : m <= n
  <2> HIDE DEF T
  <2> QED BY <1>1, <1>2, LeastFinite
<1>4. PICK a \in keys : m = a[i]
  OBVIOUS
<1> QED
  BY <1>3, <1>4

LEMMA EarliestKey ==
  ASSUME NEW keys \in SUBSET Triple, IsFiniteSet(keys), keys # {}
  PROVE  /\ Earliest(keys) \in keys
         /\ \A b \in keys \ {Earliest(keys)} : Before(Earliest(keys), b)
<1>1. PICK m1 \in keys : \A b \in keys : m1[1] <= b[1]
  BY LeastComponent
<1> DEFINE K1 == {a \in keys : a[1] = m1[1]}
<1>2. K1 \in SUBSET Triple /\ IsFiniteSet(K1) /\ K1 # {}
  BY FS_Subset
<1>3. PICK m2 \in K1 : \A b \in K1 : m2[2] <= b[2]
  <2> HIDE DEF K1
  <2> QED BY <1>2, LeastComponent
<1> DEFINE K2 == {a \in K1 : a[2] = m2[2]}
<1>4. K2 \in SUBSET Triple /\ IsFiniteSet(K2) /\ K2 # {}
  <2> HIDE DEF K1
  <2> QED BY <1>2, FS_Subset
<1>5. PICK m \in K2 : \A b \in K2 : m[3] <= b[3]
  <2> HIDE DEF K2
  <2> QED BY <1>4, LeastComponent
<1>6. ASSUME NEW b \in keys, b # m PROVE Before(m, b)
  <2>1. /\ m[1] \in Nat /\ m[2] \in Nat /\ m[3] \in Nat /\ m = <<m[1], m[2], m[3]>>
        /\ b[1] \in Nat /\ b[2] \in Nat /\ b[3] \in Nat /\ b = <<b[1], b[2], b[3]>>
    BY DEF Triple
  <2>2. m[1] <= b[1]
    BY <1>1
  <2>3. b[1] = m[1] => m[2] <= b[2]
    BY <1>3
  <2>4. b[1] = m[1] /\ b[2] = m[2] => m[3] <= b[3]
    BY <1>5
  <2> QED BY <1>6, <2>1, <2>2, <2>3, <2>4 DEF Before
<1>7. \E a \in keys : \A b \in keys \ {a} : Before(a, b)
  BY <1>6
<1> QED
  BY <1>7 DEF Earliest

\* A key is a triple, and the only entry with it is found by it.
LEMMA KeyTriple ==
  ASSUME NEW e \in Listed
  PROVE  Key(e) \in Triple /\ Key(e) # NONE
BY TimetableAssumption DEF Listed, Key, Triple, NONE

LEMMA KeyUnique ==
  ASSUME NEW es, Tidy(es), NEW a \in es, NEW b \in es, Key(a) = Key(b)
  PROVE  a = b
<1>1. /\ a.fromNode = b.fromNode /\ a.toNode = b.toNode /\ a.fromTime = b.fromTime
      /\ a.fromTime < a.toTime /\ b.fromTime < b.toTime /\ a \in Listed /\ b \in Listed
  BY DEF Key, Tidy
<1> QED
  BY <1>1 DEF Tidy, Disjoint, SamePair, Listed

LEMMA KeysFinite ==
  ASSUME NEW es, Tidy(es), NEW keys \in SUBSET {Key(e) : e \in es}
  PROVE  keys \in SUBSET Triple /\ IsFiniteSet(keys)
<1> DEFINE f == [e \in es |-> Key(e)]
           T == {f[e] : e \in es}
<1>1. IsFiniteSet(T)
  <2>1. DOMAIN f = es /\ f = [e \in es |-> f[e]] /\ IsFiniteSet(es)
    BY DEF Tidy
  <2> HIDE DEF f
  <2> QED BY <2>1, FiniteImage
<1>2. T = {Key(e) : e \in es} /\ T \subseteq Triple
  BY KeyTriple DEF Tidy
<1> HIDE DEF T
<1> QED
  BY <1>1, <1>2, FS_Subset

LEMMA FirstKey ==
  ASSUME NEW es, Tidy(es)
  PROVE  /\ First(es) # NONE => \E e \in es : Key(e) = First(es)
         /\ First(es) = NONE => es = {}
         /\ \A e \in es : ~ Before(Key(e), First(es))
<1> DEFINE keys == {Key(e) : e \in es}
<1>1. keys \in SUBSET Triple /\ IsFiniteSet(keys)
  BY KeysFinite
<1>2. First(es) = Earliest(keys)
  BY DEF First
<1>3. CASE keys = {}
  <2>1. es = {} /\ First(es) = NONE
    BY <1>2, <1>3 DEF Earliest
  <2> QED BY <2>1
<1>4. CASE keys # {}
  <2>1. /\ Earliest(keys) \in keys
        /\ \A b \in keys \ {Earliest(keys)} : Before(Earliest(keys), b)
    <3> HIDE DEF keys
    <3> QED BY <1>1, <1>4, EarliestKey
  <2>2. First(es) # NONE
    BY <1>2, <2>1, KeyTriple DEF Tidy
  <2>3. ASSUME NEW e \in es PROVE ~ Before(Key(e), First(es))
    <3>1. Key(e) \in Triple /\ First(es) \in Triple /\ Key(e) \in keys
      BY <1>1, <1>2, <2>1
    <3> HIDE DEF keys
    <3> QED BY <1>2, <2>1, <3>1, BeforeOrder
  <2> QED BY <1>2, <2>1, <2>2, <2>3
<1> QED
  BY <1>3, <1>4

\* What comes next after key: nothing lies in between.
LEMMA NextAfter ==
  ASSUME NEW es, Tidy(es), NEW key \in Triple
  PROVE  /\ NextKey(es, key) # NONE =>
              (\E e \in es : Key(e) = NextKey(es, key)) /\ Before(key, NextKey(es, key))
         /\ \A e \in es : Before(key, Key(e)) =>
              NextKey(es, key) # NONE /\ ~ Before(Key(e), NextKey(es, key))
<1> DEFINE keys == {k \in {Key(e) : e \in es} : Before(key, k)}
<1>1. keys \in SUBSET Triple /\ IsFiniteSet(keys)
  <2>1. keys \in SUBSET {Key(e) : e \in es}
    OBVIOUS
  <2> HIDE DEF keys
  <2> QED BY <2>1, KeysFinite
<1>2. NextKey(es, key) = Earliest(keys)
  BY DEF NextKey
<1>3. CASE keys = {}
  <2>1. NextKey(es, key) = NONE /\ \A e \in es : ~ Before(key, Key(e))
    BY <1>2, <1>3 DEF Earliest
  <2> QED BY <2>1
<1>4. CASE keys # {}
  <2>1. /\ Earliest(keys) \in keys
        /\ \A b \in keys \ {Earliest(keys)} : Before(Earliest(keys), b)
    <3> HIDE DEF keys
    <3> QED BY <1>1, <1>4, EarliestKey
  <2>2. NextKey(es, key) # NONE
    BY <1>2, <2>1, KeyTriple DEF Tidy
  <2>3. ASSUME NEW e \in es, Before(key, Key(e)) PROVE ~ Before(Key(e), NextKey(es, key))
    <3>1. Key(e) \in Triple /\ NextKey(es, key) \in Triple /\ Key(e) \in keys
      BY <1>1, <1>2, <2>1, <2>3
    <3> HIDE DEF keys
    <3> QED BY <1>2, <2>1, <3>1, BeforeOrder
  <2> QED BY <1>2, <2>1, <2>2, <2>3
<1> QED
  BY <1>3, <1>4

-----------------------------------------------------------------------------
(* The lists, and the entries that are changed *)

LEMMA ListFacts ==
  ASSUME NEW k \in Kind, NEW list \in Lists[k]
  PROVE  /\ list \subseteq Listed /\ Disjoint(list) /\ \A c \in list : c.fromTime < c.toTime
         /\ \A c \in list :
              /\ FromList(c) \in Listed
              /\ FromList(c).fromNode = c.fromNode /\ FromList(c).toNode = c.toNode
              /\ FromList(c).fromTime = c.fromTime + TimeZero
              /\ FromList(c).toTime = c.toTime + TimeZero
              /\ FromList(c).value = c.value
<1>1. list \in ContactLists \cup RangeLists
  BY DEF Lists, Kind
<1>2. list \subseteq Listed /\ Disjoint(list) /\ \A c \in list : c.fromTime < c.toTime
  BY <1>1, PlanSyncAssumption
<1>3. ASSUME NEW c \in list
      PROVE  /\ FromList(c) \in Listed
             /\ FromList(c).fromNode = c.fromNode /\ FromList(c).toNode = c.toNode
             /\ FromList(c).fromTime = c.fromTime + TimeZero
             /\ FromList(c).toTime = c.toTime + TimeZero
             /\ FromList(c).value = c.value
  <2>1. TimeZero \in Nat /\ c \in Listed
    BY <1>2, PlanSyncAssumption
  <2>2. /\ FromList(c).fromNode = c.fromNode /\ FromList(c).toNode = c.toNode
        /\ FromList(c).fromTime = c.fromTime + TimeZero
        /\ FromList(c).toTime = c.toTime + TimeZero
        /\ FromList(c).value = c.value
    BY <2>1 DEF FromList, Listed
  <2>3. FromList(c) \in Listed
    <3>1. [c EXCEPT !.fromTime = @ + TimeZero] \in Listed
      BY <2>1 DEF Listed
    <3>2. c.toTime + TimeZero \in Nat
      BY <2>1 DEF Listed
    <3> QED BY <2>1, <3>1, <3>2 DEF FromList, Listed
  <2> QED BY <2>2, <2>3
<1> QED
  BY <1>2, <1>3

\* What the lists want has no overlaps in the plan's time, either.
LEMMA WantedApart ==
  ASSUME NEW k \in Kind, copy \in Lists[k]
  PROVE  /\ Wanted \subseteq Listed /\ Disjoint(Wanted)
         /\ \A w \in Wanted : w.fromTime < w.toTime
<1>1. \A c \in copy : c \in Listed /\ c.fromTime < c.toTime
  BY ListFacts
<1>2. Wanted \subseteq Listed /\ \A w \in Wanted : w.fromTime < w.toTime
  BY <1>1, ListFacts, PlanSyncAssumption DEF Wanted, Listed
<1>3. ASSUME NEW v \in Wanted, NEW w \in Wanted, SamePair(v, w), v # w
      PROVE  v.toTime <= w.fromTime \/ w.toTime <= v.fromTime
  <2>1. PICK c \in copy, d \in copy : v = FromList(c) /\ w = FromList(d)
    BY DEF Wanted
  <2>2. SamePair(c, d) /\ c # d
    BY <1>3, <2>1, ListFacts DEF SamePair
  <2>3. c.toTime <= d.fromTime \/ d.toTime <= c.fromTime
    BY <2>2, ListFacts DEF Disjoint
  <2> QED BY <1>1, <2>1, <2>3, ListFacts, PlanSyncAssumption DEF Listed
<1> QED
  BY <1>2, <1>3 DEF Disjoint

\* The entry of the list that an entry of the plan is compared with.
LEMMA Matched ==
  ASSUME NEW k \in Kind, copy \in Lists[k], NEW e \in Listed, NEW c \in Match(e)
  PROVE  /\ c \in copy /\ c \in Listed /\ FromList(c) \in Wanted /\ FromList(c) \in Listed
         /\ SamePair(FromList(c), e) /\ FromList(c).fromTime = e.fromTime
         /\ Key(FromList(c)) = Key(e)
<1>1. c \in copy /\ Key(c) = Key(ToList(e))
  BY DEF Match
<1>2. /\ c.fromNode = e.fromNode /\ c.toNode = e.toNode /\ c.fromTime = e.fromTime - TimeZero
  BY <1>1 DEF Key, ToList, Listed
<1>3. c \in Listed /\ e.fromTime \in Nat
  BY <1>1, ListFacts DEF Listed
<1>4. FromList(c).fromTime = e.fromTime
  BY <1>1, <1>2, <1>3, ListFacts, PlanSyncAssumption DEF Listed
<1> QED
  BY <1>1, <1>2, <1>3, <1>4, ListFacts DEF SamePair, Key, Wanted

LEMMA EndApart ==
  ASSUME NEW es, Tidy(es), NEW e \in es, NEW end \in Int, EndRevisable(es, e, end)
  PROVE  \A d \in es \ {e} : SamePair(d, e) => end <= d.fromTime \/ d.toTime <= e.fromTime
<1> SUFFICES ASSUME NEW d \in es \ {e}, SamePair(d, e)
             PROVE  end <= d.fromTime \/ d.toTime <= e.fromTime
  OBVIOUS
<1>1. \A x \in es : x.fromTime \in Int /\ x.toTime \in Int /\ x.fromTime < x.toTime
  BY DEF Tidy, Listed
<1>2. CASE d.fromTime < e.fromTime
  BY <1>1, <1>2 DEF Tidy, Disjoint, SamePair
<1>3. CASE d.fromTime >= e.fromTime
  <2> DEFINE after == {x \in es \ {e} : SamePair(x, e) /\ x.fromTime >= e.fromTime}
             start == [x \in after |-> x.fromTime]
             starts == {start[x] : x \in after}
  <2>1. IsFiniteSet(after) /\ d \in after /\ after \subseteq es
    BY <1>3, FS_Subset DEF Tidy
  <2>2. IsFiniteSet(starts)
    <3>1. DOMAIN start = after /\ start = [x \in after |-> start[x]]
      OBVIOUS
    <3> HIDE DEF start, after
    <3> QED BY <2>1, <3>1, FiniteImage
  <2>3. starts \in SUBSET Int /\ starts # {}
    BY <1>1, <2>1
  <2>4. PICK m \in starts : \A n \in starts : m <= n
    <3> HIDE DEF starts
    <3> QED BY <2>2, <2>3, LeastFinite
  <2>5. PICK x \in after : m = x.fromTime
    OBVIOUS
  <2>6. x \in Following(es, e)
    <3>1. \A y \in after : y.fromTime >= x.fromTime
      BY <1>1, <2>1, <2>4, <2>5
    <3> QED BY <3>1 DEF Following
  <2>7. end <= x.fromTime
    BY <2>6 DEF EndRevisable
  <2>8. x.fromTime <= d.fromTime
    BY <2>1, <2>4, <2>5
  <2> QED BY <1>1, <2>1, <2>5, <2>7, <2>8
<1> QED
  BY <1>1, <1>2, <1>3

LEMMA TidySubset ==
  ASSUME NEW es, Tidy(es), NEW part \in SUBSET es
  PROVE  Tidy(part)
BY FS_Subset DEF Tidy, Disjoint

LEMMA TidyReplace ==
  ASSUME NEW es, Tidy(es), NEW e \in es, NEW new \in Listed, SamePair(new, e),
         new.fromTime < new.toTime,
         \A d \in es \ {e} : SamePair(d, e) =>
            new.toTime <= d.fromTime \/ d.toTime <= new.fromTime
  PROVE  Tidy(Replace(es, e, new))
<1>1. IsFiniteSet(Replace(es, e, new))
  BY FS_RemoveElement, FS_AddElement DEF Replace, Tidy
<1>2. Disjoint(Replace(es, e, new))
  BY DEF Replace, Disjoint, Tidy, SamePair
<1> QED
  BY <1>1, <1>2 DEF Tidy, Replace

\* Another value leaves the times alone.
LEMMA TidyValue ==
  ASSUME NEW es, Tidy(es), NEW e \in es, NEW v \in Nat
  PROVE  /\ Tidy(Replace(es, e, [e EXCEPT !.value = v]))
         /\ [e EXCEPT !.value = v] \in Listed /\ Key([e EXCEPT !.value = v]) = Key(e)
         /\ [e EXCEPT !.value = v].toTime = e.toTime /\ [e EXCEPT !.value = v].value = v
<1> DEFINE new == [e EXCEPT !.value = v]
<1>1. e \in Listed /\ e.fromTime < e.toTime
  BY DEF Tidy
<1>2. /\ new \in Listed /\ new.fromNode = e.fromNode /\ new.toNode = e.toNode
      /\ new.fromTime = e.fromTime /\ new.toTime = e.toTime /\ new.value = v
  BY <1>1 DEF Listed
<1>3. \A d \in es \ {e} : SamePair(d, e) => e.toTime <= d.fromTime \/ d.toTime <= e.fromTime
  BY DEF Tidy, Disjoint, SamePair
<1> HIDE DEF new
<1>4. Tidy(Replace(es, e, new))
  BY <1>1, <1>2, <1>3, TidyReplace DEF SamePair
<1> QED
  BY <1>2, <1>4 DEF Key, new

\* What a change of the end leaves behind, and why it may leave everything as it was.
LEMMA EndChangedTidy ==
  ASSUME NEW es, Tidy(es), NEW e \in es, NEW end \in Nat, e.fromTime < end, e.toTime # end,
         now \in Nat
  PROVE  /\ Tidy(EndChanged(es, e, end))
         /\ es \ {e} \subseteq EndChanged(es, e, end)
         /\ EndChanged(es, e, end) = es =>
              \E n \in es \ {e} : SamePair(n, e) /\ e.fromTime <= n.fromTime /\ n.fromTime < end
<1> DEFINE new == [e EXCEPT !.toTime = end]
<1>1. e \in Listed
  BY DEF Tidy
<1>2. /\ new \in Listed /\ SamePair(new, e) /\ new.fromTime = e.fromTime /\ new.toTime = end
      /\ Key(new) = Key(e)
  BY <1>1 DEF Listed, SamePair, Key
<1>3. CASE end <= now
  <2>1. EndChanged(es, e, end) = es \ {e}
    BY <1>3 DEF EndChanged
  <2> QED BY <2>1, TidySubset
<1>4. CASE ~ (end <= now) /\ EndRevisable(es, e, end)
  <2>1. EndChanged(es, e, end) = Replace(es, e, new)
    BY <1>4 DEF EndChanged
  <2>2. \A d \in es \ {e} : SamePair(d, e) => end <= d.fromTime \/ d.toTime <= e.fromTime
    BY <1>4, EndApart
  <2>3. new \notin es
    <3>1. new \in es => new = e
      <4> HIDE DEF new
      <4> QED BY <1>2, KeyUnique
    <3> QED BY <1>2, <3>1
  <2> HIDE DEF new
  <2>4. Tidy(Replace(es, e, new))
    BY <1>2, <2>2, TidyReplace
  <2> QED BY <2>1, <2>3, <2>4 DEF Replace
<1>5. CASE ~ (end <= now) /\ ~ EndRevisable(es, e, end)
  <2>1. EndChanged(es, e, end) = es
    BY <1>5 DEF EndChanged
  <2>2. PICK n \in Following(es, e) : ~ (end <= n.fromTime)
    BY <1>1, <1>5 DEF EndRevisable, Listed
  <2>3. n \in es \ {e} /\ SamePair(n, e) /\ e.fromTime <= n.fromTime /\ n.fromTime < end
    BY <2>2 DEF Following, Tidy, Listed
  <2> QED BY <2>1, <2>3
<1> QED
  BY <1>3, <1>4, <1>5

-----------------------------------------------------------------------------
(* The walk *)

\* A walk that starts over has passed nothing.
LEMMA WalkRestarts ==
  ASSUME NEW es, Tidy(es)
  PROVE  Walked(es, First(es)) /\ (First(es) # NONE => \E e \in es : Key(e) = First(es))
BY FirstKey DEF Walked, Passed

\* A walk goes on past an entry that is as it should be, or that another one keeps from it.
LEMMA WalkGoesOn ==
  ASSUME NEW es, Tidy(es), NEW e \in es, NEW new \in Listed, Key(new) = Key(e),
         NEW ds, ds = Replace(es, e, new), Tidy(ds),
         Walked(es, Key(e)), Match(e) # {},
         new \in Wanted \/ \E n \in ds : Match(n) = {} /\ Before(Key(e), Key(n))
  PROVE  /\ Walked(ds, NextKey(ds, Key(e)))
         /\ NextKey(ds, Key(e)) # NONE => \E d \in ds : Key(d) = NextKey(ds, Key(e))
<1> DEFINE key == Key(e)
           next == NextKey(ds, key)
<1>1. key \in Triple /\ key # NONE
  BY KeyTriple DEF Tidy
<1>2. /\ next # NONE => (\E d \in ds : Key(d) = next) /\ Before(key, next)
      /\ \A d \in ds : Before(key, Key(d)) => next # NONE /\ ~ Before(Key(d), next)
  <2> HIDE DEF key
  <2> QED BY <1>1, NextAfter
<1>3. \A n \in ds : Before(key, Key(n)) => ~ Passed(next, Key(n))
  BY <1>2 DEF Passed
<1>4. ASSUME NEW d \in ds, Passed(next, Key(d)), d # new
      PROVE  d \in Wanted \/ \E n \in ds : Match(n) = {} /\ ~ Passed(next, Key(n))
  <2>1. d \in es /\ d # e
    BY <1>4 DEF Replace
  <2>2. Key(d) # key /\ Key(d) \in Triple
    BY <2>1, KeyUnique, KeyTriple DEF Tidy
  <2>3. ~ Before(key, Key(d))
    BY <1>3, <1>4
  <2>4. Before(Key(d), key)
    BY <1>1, <2>2, <2>3, BeforeOrder
  <2>5. CASE d \in Wanted
    BY <2>5
  <2>6. CASE d \notin Wanted
    <3>1. PICK n \in es : Match(n) = {} /\ ~ Passed(key, Key(n))
      BY <2>1, <2>4, <2>6 DEF Walked, Passed
    <3>2. n # e
      BY <3>1
    <3>3. Key(n) # key /\ Key(n) \in Triple /\ n \in ds
      BY <3>2, KeyUnique, KeyTriple DEF Tidy, Replace
    <3>4. Before(key, Key(n))
      BY <1>1, <3>1, <3>3, BeforeOrder DEF Passed
    <3> QED BY <1>3, <3>1, <3>3, <3>4
  <2> QED BY <2>5, <2>6
<1>5. new \in Wanted \/ \E n \in ds : Match(n) = {} /\ ~ Passed(next, Key(n))
  BY <1>3
<1>6. Walked(ds, next)
  <2> HIDE DEF next
  <2> QED BY <1>4, <1>5 DEF Walked
<1> QED
  BY <1>2, <1>6

\* What is in the way of an extension is not in the list: it will be removed.
LEMMA BlockerUnmatched ==
  ASSUME NEW k \in Kind, copy \in Lists[k], NEW es, Tidy(es),
         NEW e \in es, NEW c \in Match(e),
         NEW n \in es \ {e}, SamePair(n, e), e.fromTime <= n.fromTime,
         n.fromTime < FromList(c).toTime
  PROVE  Match(n) = {} /\ Before(Key(e), Key(n))
<1>1. e \in Listed /\ n \in Listed
  BY DEF Tidy
<1>2. Key(n) # Key(e)
  BY KeyUnique
<1>3. Before(Key(e), Key(n))
  BY <1>1, <1>2 DEF Before, Key, SamePair, Listed
<1>4. ASSUME NEW d \in Match(n) PROVE FALSE
  <2>1. /\ FromList(c) \in Wanted /\ FromList(c) \in Listed
        /\ SamePair(FromList(c), e) /\ FromList(c).fromTime = e.fromTime
        /\ Key(FromList(c)) = Key(e)
    BY <1>1, Matched
  <2>2. /\ FromList(d) \in Wanted /\ FromList(d) \in Listed
        /\ SamePair(FromList(d), n) /\ FromList(d).fromTime = n.fromTime
        /\ Key(FromList(d)) = Key(n)
    BY <1>1, <1>4, Matched
  <2>3. FromList(c) # FromList(d) /\ SamePair(FromList(c), FromList(d))
    BY <1>2, <2>1, <2>2 DEF SamePair
  <2>4. \/ FromList(c).toTime <= FromList(d).fromTime
        \/ FromList(d).toTime <= FromList(c).fromTime
    BY <2>1, <2>2, <2>3, WantedApart DEF Disjoint
  <2>5. FromList(d).fromTime < FromList(d).toTime
    BY <2>2, WantedApart
  <2>6. /\ FromList(c).toTime \in Nat /\ FromList(d).toTime \in Nat
        /\ e.fromTime \in Nat /\ n.fromTime \in Nat
    BY <1>1, <2>1, <2>2 DEF Listed
  <2> QED BY <2>1, <2>2, <2>4, <2>5, <2>6
<1> QED
  BY <1>3, <1>4

\* What a change of an entry that is in the list does to the plan of its kind.
LEMMA UpdateMatched ==
  ASSUME NEW k \in Kind, copy \in Lists[k], now \in Nat, NEW es, Tidy(es), NEW e \in es,
         NEW c \in Match(e), Walked(es, Key(e)),
         NEW endSet, endSet = (e.toTime # FromList(c).toTime),
         NEW revised,
         revised = IF endSet THEN EndChanged(es, e, FromList(c).toTime) ELSE es,
         NEW valueSet,
         valueSet = (~ (endSet /\ revised # es) /\ e.value # FromList(c).value),
         NEW ds,
         ds = IF valueSet THEN Replace(es, e, [e EXCEPT !.value = FromList(c).value]) ELSE revised,
         NEW next, \/ next = First(ds)
                   \/ ~ (endSet /\ revised # es) /\ next = NextKey(ds, Key(e))
  PROVE  /\ Tidy(ds) /\ Walked(ds, next)
         /\ next # NONE => \E d \in ds : Key(d) = next
         /\ \A d \in es : d # e \/ e \in Wanted => d \in ds
<1> DEFINE new == FromList(c)
<1>1. /\ e \in Listed /\ new \in Wanted /\ new \in Listed
      /\ SamePair(new, e) /\ new.fromTime = e.fromTime /\ Key(new) = Key(e)
  BY Matched DEF Tidy
<1>2. new.fromTime < new.toTime /\ new.toTime \in Nat /\ new.value \in Nat
  BY <1>1, WantedApart DEF Listed
<1>3. endSet => /\ Tidy(revised) /\ es \ {e} \subseteq revised
                /\ revised = es =>
                     \E n \in es \ {e} :
                       SamePair(n, e) /\ e.fromTime <= n.fromTime /\ n.fromTime < new.toTime
  <2> HIDE DEF new
  <2> QED BY <1>1, <1>2, EndChangedTidy DEF new
<1>4. e \in Wanted => e = new
  <2>1. e \in Wanted => ~ (SamePair(new, e) /\ new # e)
    BY <1>1, <1>2, WantedApart DEF Disjoint, Listed
  <2> QED BY <1>1, <2>1
<1>5. CASE endSet /\ revised # es
  <2>1. ds = revised /\ next = First(ds) /\ Tidy(ds)
    BY <1>3, <1>5
  <2>2. e \notin Wanted
    BY <1>4, <1>5
  <2>3. Walked(ds, next) /\ (next # NONE => \E d \in ds : Key(d) = next)
    BY <2>1, WalkRestarts
  <2> QED BY <1>3, <1>5, <2>1, <2>2, <2>3
<1>6. CASE ~ (endSet /\ revised # es)
  <2> DEFINE kept == IF valueSet THEN [e EXCEPT !.value = new.value] ELSE e
  <2>1. /\ Tidy(Replace(es, e, kept)) /\ kept \in Listed /\ Key(kept) = Key(e)
        /\ kept.toTime = e.toTime /\ kept.value = new.value
    <3>1. CASE valueSet
      <4>1. /\ Tidy(Replace(es, e, [e EXCEPT !.value = new.value]))
            /\ [e EXCEPT !.value = new.value] \in Listed
            /\ Key([e EXCEPT !.value = new.value]) = Key(e)
            /\ [e EXCEPT !.value = new.value].toTime = e.toTime
            /\ [e EXCEPT !.value = new.value].value = new.value
        <5> HIDE DEF new
        <5> QED BY <1>2, TidyValue
      <4> QED BY <3>1, <4>1
    <3>2. CASE ~ valueSet
      <4>1. Replace(es, e, e) = es
        BY DEF Replace
      <4>2. e.value = new.value
        BY <1>6, <3>2
      <4> QED BY <1>1, <3>2, <4>1, <4>2
    <3> QED BY <3>1, <3>2
  <2>2. ds = Replace(es, e, kept)
    <3>1. revised = es
      BY <1>6
    <3>2. Replace(es, e, e) = es
      BY DEF Replace
    <3> QED BY <3>1, <3>2
  <2>3. kept \in Wanted \/ \E n \in ds : Match(n) = {} /\ Before(Key(e), Key(n))
    <3>1. CASE endSet
      <4>1. PICK n \in es \ {e} :
              SamePair(n, e) /\ e.fromTime <= n.fromTime /\ n.fromTime < new.toTime
        BY <1>3, <1>6, <3>1
      <4>2. Match(n) = {} /\ Before(Key(e), Key(n))
        BY <4>1, BlockerUnmatched
      <4>3. n \in ds
        <5> HIDE DEF kept
        <5> QED BY <2>2 DEF Replace
      <4> QED BY <4>2, <4>3
    <3>2. CASE ~ endSet
      <4>1. kept.fromNode = e.fromNode /\ kept.toNode = e.toNode /\ kept.fromTime = e.fromTime
        BY <2>1 DEF Key
      <4>2. e.toTime = new.toTime
        BY <3>2
      <4>3. kept = new
        <5> HIDE DEF kept, new
        <5> QED BY <1>1, <2>1, <4>1, <4>2 DEF Listed, SamePair
      <4> QED BY <1>1, <4>3
    <3> QED BY <3>1, <3>2
  <2>4. \A d \in es : d # e \/ e \in Wanted => d \in ds
    <3>1. e \in Wanted => kept = e
      BY <1>4, <1>6
    <3> HIDE DEF kept
    <3> QED BY <2>2, <3>1 DEF Replace
  <2> HIDE DEF kept
  <2>5. CASE next = First(ds)
    BY <2>1, <2>2, <2>4, <2>5, WalkRestarts
  <2>6. CASE next = NextKey(ds, Key(e))
    <3>1. Match(e) # {}
      OBVIOUS
    <3>2. Walked(ds, NextKey(ds, Key(e)))
          /\ (NextKey(ds, Key(e)) # NONE => \E d \in ds : Key(d) = NextKey(ds, Key(e)))
      BY <2>1, <2>2, <2>3, <3>1, WalkGoesOn
    <3> QED BY <2>1, <2>2, <2>4, <2>6, <3>2
  <2> QED BY <2>5, <2>6
<1> QED
  BY <1>5, <1>6

\* An update of the walk, and what it leaves alone.
LEMMA UpdateStep ==
  ASSUME SyncInv, NEW k \in Kind, Update(k)
  PROVE  /\ DOMAIN plan' = Kind /\ \A j \in Kind : j # k => plan'[j] = plan[j]
         /\ Tidy(plan'[k]) /\ Walked(plan'[k], at')
         /\ at' # NONE => \E d \in plan'[k] : Key(d) = at'
         /\ \A d \in plan[k] : d \in Wanted => d \in plan'[k]
<1>1. PICK e \in plan[k] : Key(e) = at /\
       \/ /\ Match(e) = {}
          /\ plan' = [plan EXCEPT ![k] = @ \ {e}]
          /\ at' = GoOn(plan'[k], TRUE)
       \/ \E c \in Match(e) :
            LET new == FromList(c)
                endSet == e.toTime # new.toTime
                revised == IF endSet THEN EndChanged(plan[k], e, new.toTime) ELSE plan[k]
                ended == revised # plan[k]
                valueSet == ~ (endSet /\ ended) /\ e.value # new.value
                again == Again(k, endSet, ended, valueSet)
            IN
            /\ plan' = [plan EXCEPT ![k] =
                          IF valueSet THEN Replace(@, e, [e EXCEPT !.value = new.value])
                          ELSE revised]
            /\ \/ at' = GoOn(plan'[k], again)
               \/ k = "contact" /\ valueSet /\ ~ endSet /\ at' = GoOn(plan'[k], FALSE)
  BY DEF Update
<1>2. /\ DOMAIN plan = Kind /\ Tidy(plan[k]) /\ Walked(plan[k], Key(e)) /\ copy \in Lists[k]
      /\ now \in Nat
  BY <1>1, PlanSyncAssumption DEF Update, SyncInv, SyncTyped, SyncWork, Working
<1>3. CASE /\ Match(e) = {}
           /\ plan' = [plan EXCEPT ![k] = @ \ {e}]
           /\ at' = GoOn(plan'[k], TRUE)
  <2>1. plan'[k] = plan[k] \ {e} /\ at' = First(plan'[k])
    BY <1>2, <1>3 DEF GoOn
  <2>2. Tidy(plan'[k])
    BY <1>2, <2>1, TidySubset
  <2>3. e \notin Wanted
    <3>1. SUFFICES ASSUME NEW c \in copy, e = FromList(c) PROVE FALSE
      BY DEF Wanted
    <3>2. c \in Listed
      BY <1>2, ListFacts
    <3>3. Key(c) = Key(ToList(e))
      <4>1. /\ e \in Listed /\ e.fromNode = c.fromNode /\ e.toNode = c.toNode
            /\ e.fromTime = c.fromTime + TimeZero
        BY <1>2, <3>1, ListFacts
      <4>2. ToList(e).fromNode = e.fromNode /\ ToList(e).toNode = e.toNode
            /\ ToList(e).fromTime = e.fromTime - TimeZero
        BY <4>1 DEF ToList, Listed
      <4>3. e.fromTime - TimeZero = c.fromTime
        BY <3>2, <4>1, PlanSyncAssumption DEF Listed
      <4> QED BY <4>1, <4>2, <4>3 DEF Key
    <3> QED BY <1>3, <3>3 DEF Match
  <2>4. Walked(plan'[k], at') /\ (at' # NONE => \E d \in plan'[k] : Key(d) = at')
    BY <2>1, <2>2, WalkRestarts
  <2> QED BY <1>2, <1>3, <2>1, <2>2, <2>3, <2>4
<1>4. ASSUME NEW c \in Match(e),
            LET new == FromList(c)
                endSet == e.toTime # new.toTime
                revised == IF endSet THEN EndChanged(plan[k], e, new.toTime) ELSE plan[k]
                ended == revised # plan[k]
                valueSet == ~ (endSet /\ ended) /\ e.value # new.value
                again == Again(k, endSet, ended, valueSet)
            IN
            /\ plan' = [plan EXCEPT ![k] =
                          IF valueSet THEN Replace(@, e, [e EXCEPT !.value = new.value])
                          ELSE revised]
            /\ \/ at' = GoOn(plan'[k], again)
               \/ k = "contact" /\ valueSet /\ ~ endSet /\ at' = GoOn(plan'[k], FALSE)
      PROVE  /\ DOMAIN plan' = Kind /\ \A j \in Kind : j # k => plan'[j] = plan[j]
             /\ Tidy(plan'[k]) /\ Walked(plan'[k], at')
             /\ at' # NONE => \E d \in plan'[k] : Key(d) = at'
             /\ \A d \in plan[k] : d # e \/ e \in Wanted => d \in plan'[k]
  <2> DEFINE new == FromList(c)
             endSet == e.toTime # new.toTime
             revised == IF endSet THEN EndChanged(plan[k], e, new.toTime) ELSE plan[k]
             ended == revised # plan[k]
             valueSet == ~ (endSet /\ ended) /\ e.value # new.value
             again == Again(k, endSet, ended, valueSet)
             ds == IF valueSet THEN Replace(plan[k], e, [e EXCEPT !.value = new.value]) ELSE revised
  <2>1. plan' = [plan EXCEPT ![k] = ds]
    BY <1>4
  <2>2. plan'[k] = ds
    BY <1>2, <2>1
  <2>3. \/ at' = First(ds)
        \/ ~ (endSet /\ ended) /\ at' = NextKey(ds, Key(e))
    <3>1. \/ at' = GoOn(plan'[k], again)
          \/ valueSet /\ ~ endSet /\ at' = GoOn(plan'[k], FALSE)
      BY <1>4
    <3>2. endSet /\ ended => again
      BY DEF Again
    <3> HIDE DEF endSet, ended, valueSet, again, ds
    <3> QED BY <1>1, <2>2, <3>1, <3>2 DEF GoOn
  <2>4. /\ Tidy(ds) /\ Walked(ds, at')
        /\ at' # NONE => \E d \in ds : Key(d) = at'
        /\ \A d \in plan[k] : d # e \/ e \in Wanted => d \in ds
    <3> DEFINE es == plan[k]
               next == at'
    <3>1. /\ Tidy(es) /\ e \in es /\ Walked(es, Key(e))
          /\ endSet = (e.toTime # FromList(c).toTime)
          /\ revised = IF endSet THEN EndChanged(es, e, FromList(c).toTime) ELSE es
          /\ valueSet = (~ (endSet /\ revised # es) /\ e.value # FromList(c).value)
          /\ ds = IF valueSet THEN Replace(es, e, [e EXCEPT !.value = FromList(c).value]) ELSE revised
          /\ \/ next = First(ds)
             \/ ~ (endSet /\ revised # es) /\ next = NextKey(ds, Key(e))
      BY <1>2, <2>3
    <3> HIDE DEF endSet, revised, valueSet, ds, es, next
    <3>2. /\ Tidy(ds) /\ Walked(ds, next)
          /\ next # NONE => \E d \in ds : Key(d) = next
          /\ \A d \in es : d # e \/ e \in Wanted => d \in ds
      BY <1>2, <3>1, UpdateMatched
    <3> QED BY <3>2 DEF es, next
  <2> HIDE DEF ds
  <2> QED BY <1>2, <2>1, <2>2, <2>4
<1> QED
  BY <1>1, <1>3, <1>4

-----------------------------------------------------------------------------
(* Each step *)

LEMMA SyncInit == Init => SyncInv
<1> SUFFICES ASSUME Init PROVE SyncInv
  OBVIOUS
<1>1. \A k \in Kind : plan[k] = {} /\ lists[k] = {} /\ {} \in Lists[k]
  <2>1. \A k \in Kind : plan[k] = {} /\ lists[k] = {}
    BY DEF Init
  <2>2. {} \in Lists["contact"] /\ {} \in Lists["range"]
    BY PlanSyncAssumption DEF Lists
  <2> QED BY <2>1, <2>2 DEF Kind
<1>2. step = <<>> /\ seen = 0 /\ edits = 0 /\ now \in ClockTime
  BY DEF Init
<1>3. Tidy({})
  BY FS_EmptySet DEF Tidy, Disjoint
<1>4. SyncTyped
  <2>1. DOMAIN plan = Kind /\ DOMAIN lists = Kind
    BY DEF Init
  <2>2. \A k \in Kind : Tidy(plan[k]) /\ lists[k] \in Lists[k]
    BY <1>1, <1>3
  <2>3. MaxEdits \in Nat
    BY PlanSyncAssumption
  <2>4. step \in Phases
    BY <1>2 DEF Phases
  <2> QED BY <1>2, <2>1, <2>2, <2>3, <2>4 DEF SyncTyped
<1>5. SyncWork
  BY <1>1, <1>2 DEF SyncWork, Working, Running, InStep, Live
<1> QED
  BY <1>4, <1>5 DEF SyncInv

\* When the time goes on, what agreed on everything that is alive goes on doing so.
LEMMA SyncCall == ASSUME SyncInv, NEW time \in ClockTime, Call(time) PROVE SyncInv'
<1>1. /\ step = <<>> /\ time >= now /\ now' = time /\ seen' = edits
      /\ step' = (IF seen = edits THEN <<"route">> ELSE <<"take", "contact">>)
      /\ UNCHANGED <<lists, edits, plan, copy, at, left>>
  BY DEF Call
<1>2. SyncTyped'
  BY <1>1 DEF SyncInv, SyncTyped, Phases, Kind
<1>3. CASE seen = edits
  <2>1. step' = <<"route">>
    BY <1>1, <1>3
  <2>2. \A k \in Kind : Live(plan[k]) = Live({FromList(c) : c \in lists[k]})
    BY <1>1, <1>3 DEF SyncInv, SyncWork, DoneWith, InStep
  <2>3. ASSUME NEW k \in Kind PROVE InStep(k)'
    <3> DEFINE wanted == {FromList(c) : c \in lists[k]}
    <3>1. \A e \in plan[k] \cup wanted : e.toTime \in Nat
      BY ListFacts DEF SyncInv, SyncTyped, Tidy, Listed
    <3>2. now \in Nat /\ time \in Nat
      BY PlanSyncAssumption DEF SyncInv, SyncTyped
    <3>3. Live(plan[k]) = Live(wanted)
      BY <2>2
    <3> HIDE DEF wanted
    <3>4. {e \in plan[k] : e.toTime > time} = {e \in wanted : e.toTime > time}
      BY <1>1, <3>1, <3>2, <3>3 DEF Live
    <3> QED BY <1>1, <3>4 DEF InStep, Live, wanted
  <2>4. \A k \in Kind : ~ Working(k)'
    BY <2>1 DEF Working, Running
  <2>5. SyncWork'
    BY <2>3, <2>4 DEF SyncWork, Working
  <2> QED BY <1>2, <2>5 DEF SyncInv
<1>4. CASE seen # edits
  <2>1. step' = <<"take", "contact">>
    BY <1>1, <1>4
  <2>2. \A k \in Kind : ~ Working(k)' /\ ~ DoneWith(k)'
    BY <2>1 DEF Working, Running, DoneWith, Kind
  <2>3. SyncWork'
    BY <2>2 DEF SyncWork, Working
  <2> QED BY <1>2, <2>3 DEF SyncInv
<1> QED
  BY <1>3, <1>4

\* While one kind is worked on, the other keeps what it has.
LEMMA SyncPhase ==
  ASSUME SyncInv, SyncTyped', NEW k \in Kind, NEW p \in {"take", "update", "add"}, step = <<p, k>>,
         NEW q \in {"take", "update", "add"}, step' = <<q, k>>,
         UNCHANGED <<lists, edits, seen, now>>,
         \A j \in Kind \ {k} : plan'[j] = plan[j],
         q # "take" => copy' \in Lists[k] /\ (seen = edits => copy' = lists[k]),
         q = "update" => /\ Walked(plan[k], at)'
                         /\ at' # NONE => \E e \in plan'[k] : Key(e) = at',
         q = "add" => Offered(k)'
  PROVE  SyncInv'
<1>1. \A j \in Kind : DoneWith(j)' => j # k /\ DoneWith(j)
  BY DEF DoneWith, Running, Kind
<1>2. ASSUME NEW j \in Kind, DoneWith(j)', seen' = edits' PROVE InStep(j)'
  <2>1. j # k /\ DoneWith(j)
    BY <1>1, <1>2
  <2>2. InStep(j)
    BY <1>2, <2>1 DEF SyncInv, SyncWork
  <2> QED BY <2>1, <2>2 DEF InStep, Live
<1>3. ASSUME NEW j \in Kind, Working(j)'
      PROVE  j = k /\ q # "take"
  BY <1>3 DEF Working, Running
<1>4. SyncWork'
  BY <1>2, <1>3 DEF SyncWork, Working, Running
<1> QED
  BY <1>4 DEF SyncInv

LEMMA SyncTake == ASSUME SyncInv, NEW k \in Kind, Take(k) PROVE SyncInv'
<1>1. /\ step = <<"take", k>> /\ step' = <<"update", k>>
      /\ copy' = lists[k] /\ at' = First(plan[k])
      /\ UNCHANGED <<lists, edits, seen, plan, now, left>>
  BY DEF Take, Running
<1>2. SyncTyped'
  BY <1>1 DEF SyncInv, SyncTyped, Phases
<1>3. lists[k] \in Lists[k] /\ Tidy(plan[k])
  BY DEF SyncInv, SyncTyped
<1>4. /\ Walked(plan[k], at)'
      /\ at' # NONE => \E e \in plan'[k] : Key(e) = at'
  <2>1. \A e \in plan[k] : ~ Passed(at', Key(e))
    BY <1>1, <1>3, FirstKey DEF Passed
  <2>2. Walked(plan[k], at)'
    BY <1>1, <2>1 DEF Walked, Passed
  <2> QED BY <1>1, <1>3, <2>2, FirstKey
<1> QED
  BY <1>1, <1>2, <1>3, <1>4, SyncPhase

LEMMA SyncUpdate == ASSUME SyncInv, NEW k \in Kind, Update(k) PROVE SyncInv'
<1>1. step = <<"update", k>> /\ step' = step /\ UNCHANGED <<lists, edits, seen, now, copy, left>>
  BY DEF Update, Running
<1>2. /\ DOMAIN plan' = Kind /\ \A j \in Kind : j # k => plan'[j] = plan[j]
      /\ Tidy(plan'[k]) /\ Walked(plan'[k], at')
      /\ at' # NONE => \E d \in plan'[k] : Key(d) = at'
  BY UpdateStep
<1>3. SyncTyped'
  BY <1>1, <1>2 DEF SyncInv, SyncTyped
<1>4. copy' \in Lists[k] /\ (seen = edits => copy' = lists[k])
  BY <1>1 DEF SyncInv, SyncWork, Working, Running
<1>5. Walked(plan[k], at)'
  BY <1>1, <1>2 DEF Walked, Passed, Wanted, Match
<1> QED
  BY <1>1, <1>2, <1>3, <1>4, <1>5, SyncPhase

LEMMA SyncUpdateEnd == ASSUME SyncInv, NEW k \in Kind, UpdateEnd(k) PROVE SyncInv'
<1>1. /\ step = <<"update", k>> /\ step' = <<"add", k>> /\ at = NONE /\ left' = copy
      /\ UNCHANGED <<lists, edits, seen, plan, now, copy, at>>
  BY DEF UpdateEnd, Running
<1>2. SyncTyped'
  BY <1>1 DEF SyncInv, SyncTyped, Phases
<1>3. /\ copy \in Lists[k] /\ (seen = edits => copy = lists[k]) /\ Walked(plan[k], at)
  BY <1>1 DEF SyncInv, SyncWork, Working, Running
<1>4. plan[k] \subseteq Wanted
  BY <1>1, <1>3 DEF Walked, Passed
<1>5. Offered(k)'
  BY <1>1, <1>4 DEF Offered, Wanted
<1> QED
  BY <1>1, <1>2, <1>3, <1>5, SyncPhase

LEMMA TidyWanted ==
  ASSUME NEW k \in Kind, copy \in Lists[k], NEW es \in SUBSET Wanted, IsFiniteSet(es)
  PROVE  Tidy(es)
BY WantedApart DEF Tidy, Disjoint

\* An entry of the list is refused only if the plan has it, or it is over.
LEMMA OfferTaken ==
  ASSUME NEW k \in Kind, copy \in Lists[k], NEW es \in SUBSET Wanted, NEW new \in Wanted
  PROVE  Added(es, new) = IF new.toTime > now THEN es \cup {new} ELSE es
<1>1. CASE new \in es
  <2>1. es \cup {new} = es
    BY <1>1
  <2> QED BY <2>1 DEF Added
<1>2. CASE new \notin es
  <2>1. new \in Listed /\ new.fromTime < new.toTime
    BY WantedApart
  <2>2. ASSUME NEW e \in es, SamePair(new, e) PROVE ~ Overlaps(new, e)
    <3>1. e \in Listed /\ e.fromTime < e.toTime /\ e # new
      BY <1>2, WantedApart
    <3>2. new.toTime <= e.fromTime \/ e.toTime <= new.fromTime
      BY <2>2, <3>1, WantedApart DEF Disjoint
    <3> QED BY <2>1, <3>1, <3>2 DEF Overlaps, Listed
  <2>3. Accepted(es, new)
    BY <2>1, <2>2 DEF Accepted, VisibleFromTo, SamePair, Listed
  <2> QED BY <2>3 DEF Added
<1> QED
  BY <1>1, <1>2

LEMMA AddStep ==
  ASSUME SyncInv, NEW k \in Kind, Add(k)
  PROVE  /\ DOMAIN plan' = Kind /\ \A j \in Kind : j # k => plan'[j] = plan[j]
         /\ Tidy(plan'[k]) /\ plan[k] \subseteq plan'[k] /\ Offered(k)'
<1>1. PICK c \in left :
        left' = left \ {c} /\ plan' = [plan EXCEPT ![k] = Added(@, FromList(c))]
  BY DEF Add
<1>2. step = <<"add", k>> /\ UNCHANGED <<now, copy>>
  BY DEF Add, Running
<1>3. copy \in Lists[k] /\ Offered(k) /\ Tidy(plan[k]) /\ DOMAIN plan = Kind
  BY <1>2 DEF SyncInv, SyncWork, SyncTyped, Working, Running
<1> DEFINE new == FromList(c)
<1>4. new \in Wanted /\ plan[k] \in SUBSET Wanted /\ c \in copy
  BY <1>1, <1>3 DEF Offered, Wanted
<1>5. plan'[k] = IF new.toTime > now THEN plan[k] \cup {new} ELSE plan[k]
  <2>1. plan'[k] = Added(plan[k], new)
    BY <1>1, <1>3
  <2> HIDE DEF new
  <2> QED BY <1>3, <1>4, <2>1, OfferTaken
<1>6. Tidy(plan'[k])
  <2>1. IsFiniteSet(plan'[k])
    BY <1>3, <1>5, FS_AddElement DEF Tidy
  <2>2. plan'[k] \in SUBSET Wanted
    BY <1>4, <1>5
  <2> QED BY <1>3, <2>1, <2>2, TidyWanted
<1>7. Offered(k)'
  <2>1. plan'[k] \subseteq Wanted' /\ left' \subseteq copy'
    BY <1>1, <1>2, <1>3, <1>4, <1>5 DEF Offered, Wanted
  <2>2. ASSUME NEW d \in copy' \ left', FromList(d).toTime > now' PROVE FromList(d) \in plan'[k]
    <3>1. d \in copy \ left \/ d = c
      BY <1>1, <1>2
    <3> QED BY <1>2, <1>3, <1>5, <2>2, <3>1 DEF Offered
  <2> QED BY <2>1, <2>2 DEF Offered
<1> QED
  BY <1>1, <1>3, <1>5, <1>6, <1>7

LEMMA SyncAdd == ASSUME SyncInv, NEW k \in Kind, Add(k) PROVE SyncInv'
<1>1. step = <<"add", k>> /\ step' = step /\ UNCHANGED <<lists, edits, seen, now, copy, at>>
  BY DEF Add, Running
<1>2. /\ DOMAIN plan' = Kind /\ \A j \in Kind : j # k => plan'[j] = plan[j]
      /\ Tidy(plan'[k]) /\ Offered(k)'
  BY AddStep
<1>3. SyncTyped'
  BY <1>1, <1>2 DEF SyncInv, SyncTyped
<1>4. copy' \in Lists[k] /\ (seen = edits => copy' = lists[k])
  BY <1>1 DEF SyncInv, SyncWork, Working, Running
<1> QED
  BY <1>1, <1>2, <1>3, <1>4, SyncPhase

\* When every entry was offered, the plan has what the list has.
LEMMA SyncAddEnd == ASSUME SyncInv, NEW k \in Kind, AddEnd(k) PROVE SyncInv'
<1>1. /\ step = <<"add", k>> /\ left = {}
      /\ step' = (IF k = "contact" THEN <<"take", "range">> ELSE <<"route">>)
      /\ UNCHANGED <<lists, edits, seen, plan, now, copy, at, left>>
  BY DEF AddEnd, Running
<1>2. SyncTyped'
  BY <1>1 DEF SyncInv, SyncTyped, Phases, Kind
<1>3. /\ copy \in Lists[k] /\ (seen = edits => copy = lists[k]) /\ Offered(k)
  BY <1>1 DEF SyncInv, SyncWork, Working, Running
<1>4. seen = edits => InStep(k)
  <2> SUFFICES ASSUME seen = edits PROVE Live(plan[k]) = Live({FromList(c) : c \in copy})
    BY <1>3 DEF InStep
  <2>1. plan[k] \subseteq Wanted /\ \A c \in copy : FromList(c).toTime > now => FromList(c) \in plan[k]
    BY <1>1, <1>3 DEF Offered
  <2> QED BY <2>1 DEF Live, Wanted
<1>5. \A j \in Kind : ~ Working(j)' /\ (DoneWith(j)' => j = k \/ DoneWith(j))
  BY <1>1 DEF Working, Running, DoneWith, Kind
<1>6. ASSUME NEW j \in Kind, DoneWith(j)', seen' = edits' PROVE InStep(j)'
  <2>1. InStep(j)
    BY <1>1, <1>4, <1>5, <1>6 DEF SyncInv, SyncWork
  <2> QED BY <1>1, <2>1 DEF InStep, Live
<1>7. SyncWork'
  BY <1>5, <1>6 DEF SyncWork, Working
<1> QED
  BY <1>2, <1>7 DEF SyncInv

LEMMA SyncRoute == SyncInv /\ RouteBundle => SyncInv'
<1> SUFFICES ASSUME SyncInv, RouteBundle PROVE SyncInv'
  OBVIOUS
<1>1. /\ step = <<"route">> /\ step' = <<>>
      /\ plan' = [k \in Kind |-> plan[k] \ Expired(plan[k], now)]
      /\ UNCHANGED <<lists, edits, seen, now, at, left>>
  BY DEF RouteBundle
<1>2. SyncTyped'
  <2>1. \A k \in Kind : Tidy(plan'[k])
    <3> SUFFICES ASSUME NEW k \in Kind PROVE Tidy(plan'[k])
      OBVIOUS
    <3>1. plan'[k] \in SUBSET plan[k] /\ Tidy(plan[k])
      BY <1>1 DEF SyncInv, SyncTyped
    <3> QED BY <3>1, TidySubset
  <2> QED BY <1>1, <2>1 DEF SyncInv, SyncTyped, Phases
<1>3. ASSUME NEW k \in Kind, seen' = edits' PROVE InStep(k)'
  <2>1. InStep(k)
    BY <1>1, <1>3 DEF SyncInv, SyncWork, DoneWith
  <2>2. \A e \in plan[k] : e.toTime \in Nat
    BY DEF SyncInv, SyncTyped, Tidy, Listed
  <2>3. now \in Nat
    BY PlanSyncAssumption DEF SyncInv, SyncTyped
  <2>4. {e \in plan'[k] : e.toTime > now} = {e \in plan[k] : e.toTime > now}
    BY <1>1, <2>2, <2>3 DEF Expired
  <2> QED BY <1>1, <2>1, <2>4 DEF InStep, Live
<1>4. \A k \in Kind : ~ Working(k)'
  BY <1>1 DEF Working, Running
<1>5. SyncWork'
  BY <1>3, <1>4 DEF SyncWork, Working
<1> QED
  BY <1>2, <1>5 DEF SyncInv

\* The manager edits its lists: until the next call nothing is promised.
LEMMA SyncEdit == SyncInv /\ Edit => SyncInv'
<1> SUFFICES ASSUME SyncInv, Edit PROVE SyncInv'
  OBVIOUS
<1>1. /\ edits < MaxEdits /\ edits' = edits + 1
      /\ UNCHANGED <<seen, plan, now, step, copy, at, left>>
  BY DEF Edit
<1>2. PICK k \in Kind : \E list \in Lists[k] : lists' = [lists EXCEPT ![k] = list]
  BY DEF Edit
<1>3. SyncTyped'
  BY <1>1, <1>2, PlanSyncAssumption DEF SyncInv, SyncTyped
<1>4. seen' # edits'
  BY <1>1 DEF SyncInv, SyncTyped
<1>5. ASSUME NEW j \in Kind
      PROVE  /\ Working(j)' => copy' \in Lists[j]
             /\ Running("update", j)' =>
                  Walked(plan[j], at)' /\ (at' # NONE => \E e \in plan'[j] : Key(e) = at')
             /\ Running("add", j)' => Offered(j)'
  <2>1. /\ Working(j) => copy \in Lists[j]
        /\ Running("update", j) =>
             Walked(plan[j], at) /\ (at # NONE => \E e \in plan[j] : Key(e) = at)
        /\ Running("add", j) => Offered(j)
    BY DEF SyncInv, SyncWork
  <2> QED BY <1>1, <2>1 DEF Working, Running, Walked, Passed, Wanted, Match, Offered
<1>6. SyncWork'
  BY <1>4, <1>5 DEF SyncWork
<1> QED
  BY <1>3, <1>6 DEF SyncInv

LEMMA SyncStepInv == SyncInv /\ [Next]_vars => SyncInv'
<1> SUFFICES ASSUME SyncInv, [Next]_vars PROVE SyncInv'
  OBVIOUS
<1>1. CASE SyncStep
  BY <1>1, SyncTake, SyncUpdate, SyncUpdateEnd, SyncAdd, SyncAddEnd, SyncRoute DEF SyncStep
<1>2. CASE Edit
  BY <1>2, SyncEdit
<1>3. ASSUME NEW time \in ClockTime, Call(time) PROVE SyncInv'
  BY <1>3, SyncCall
<1>4. CASE UNCHANGED vars
  BY <1>4 DEF vars, SyncInv, SyncTyped, SyncWork, Working, Running, DoneWith, Offered, InStep,
                 Walked, Passed, Wanted, Match, Live
<1> QED
  BY <1>1, <1>2, <1>3, <1>4 DEF Next

\* After a call, unless the manager has edited its lists since the interface looked, the plan
\* is the manager's lists, but for what is over; and on the way no two entries ever overlap
\* and the iterator points to an entry.
THEOREM PlanSyncInSync == Spec => []InSync
<1>1. SyncInv => InSync
  <2> SUFFICES ASSUME SyncInv PROVE InSync
    OBVIOUS
  <2>1. TypeOK
    <3>1. /\ \A k \in Kind : plan[k] \subseteq Listed /\ Disjoint(plan[k]) /\ lists[k] \in Lists[k]
          /\ seen \in 0 .. edits /\ edits \in 0 .. MaxEdits /\ now \in ClockTime
      BY PlanSyncAssumption DEF SyncInv, SyncTyped, Tidy
    <3>2. ASSUME step # <<>>, step[1] = "update", at # NONE
          PROVE  \E e \in plan[step[2]] : Key(e) = at
      <4>1. step # <<"route">>
        BY <3>2
      <4>2. PICK p \in {"take", "update", "add"}, k \in Kind : step = <<p, k>>
        BY <3>2, <4>1 DEF SyncInv, SyncTyped, Phases
      <4>3. p = "update" /\ step[2] = k
        BY <3>2, <4>2
      <4> QED BY <3>2, <4>2, <4>3 DEF SyncInv, SyncWork, Running
    <3> QED BY <3>1, <3>2 DEF TypeOK
  <2>2. Synchronised
    BY DEF Synchronised, SyncInv, SyncWork, DoneWith, InStep
  <2> QED BY <2>1, <2>2 DEF InSync
<1> QED
  BY SyncInit, SyncStepInv, <1>1, PTL DEF Spec

\* An entry that the list still has is never touched by a synchronisation: a contact keeps
\* the volume that is booked on it.
THEOREM PlanSyncUnchangedKept == Spec => UnchangedKept
<1> DEFINE Kept == step # <<>> /\ step[1] \in {"update", "add"} =>
                     \A e \in plan[step[2]] : ToList(e) \in copy => e \in plan'[step[2]]
<1>1. SyncInv /\ [Next]_vars => [Kept]_vars
  <2> SUFFICES ASSUME SyncInv, Next, step # <<>>, step[1] \in {"update", "add"},
                      NEW e \in plan[step[2]], ToList(e) \in copy
               PROVE  e \in plan'[step[2]]
    BY DEF vars
  <2>1. PICK p \in {"take", "update", "add"}, k \in Kind : step = <<p, k>>
    BY DEF SyncInv, SyncTyped, Phases
  <2>2. step[2] = k /\ p # "take" /\ step # <<"route">>
    BY <2>1
  <2>3. e \in Wanted
    <3>1. e \in Listed /\ TimeZero \in Nat
      BY <2>1, <2>2, PlanSyncAssumption DEF SyncInv, SyncTyped, Tidy
    <3>2. copy \in Lists[k]
      BY <2>1, <2>2 DEF SyncInv, SyncWork, Working, Running
    <3>3. ToList(e) \in Listed
      BY <3>2, ListFacts
    <3>4. /\ ToList(e).fromNode = e.fromNode /\ ToList(e).toNode = e.toNode
          /\ ToList(e).fromTime = e.fromTime - TimeZero
          /\ ToList(e).toTime = e.toTime - TimeZero /\ ToList(e).value = e.value
      BY <3>1 DEF ToList, Listed
    <3>5. /\ FromList(ToList(e)).fromNode = e.fromNode /\ FromList(ToList(e)).toNode = e.toNode
          /\ FromList(ToList(e)).fromTime = e.fromTime
          /\ FromList(ToList(e)).toTime = e.toTime /\ FromList(ToList(e)).value = e.value
          /\ FromList(ToList(e)) \in Listed
      BY <3>1, <3>2, <3>4, ListFacts DEF Listed
    <3>6. FromList(ToList(e)) = e
      BY <3>1, <3>5 DEF Listed
    <3> QED BY <3>6 DEF Wanted
  <2>4. ASSUME NEW j \in Kind, Update(j) \/ Add(j) PROVE e \in plan'[k]
    <3>1. CASE j = k
      BY <2>2, <2>3, <2>4, <3>1, UpdateStep, AddStep
    <3>2. CASE j # k
      BY <2>2, <2>4, <3>2, UpdateStep, AddStep
    <3> QED BY <3>1, <3>2
  <2>5. CASE \/ \E j \in Kind : Take(j) \/ UpdateEnd(j) \/ AddEnd(j)
             \/ Edit
    BY <2>2, <2>5 DEF Take, UpdateEnd, AddEnd, Edit
  <2>6. ~ RouteBundle /\ \A time \in ClockTime : ~ Call(time)
    BY <2>1, <2>2 DEF RouteBundle, Call
  <2> QED BY <2>2, <2>4, <2>5, <2>6 DEF Next, SyncStep
<1> QED
  BY SyncInit, SyncStepInv, <1>1, PTL DEF Spec, UnchangedKept
===============================================================================
