--------------------------- MODULE UniboCGRProofs ---------------------------
(***************************************************************************)
(* The contact plan is well typed whatever the agent does, and keeps its   *)
(* promises for an agent that commits no lapse: for every set of nodes,    *)
(* links, times and reference times.  It then implements AgentPlan: the    *)
(* plan in Unix time changes as the agent asks, and a change of the        *)
(* reference time does not change it.                                      *)
(*                                                                         *)
(* What is kept from session to session, the neighbors and the routes,     *)
(* agrees with this plan, for every set of destinations and whatever phase *)
(* one finds.                                                              *)
(***************************************************************************)
EXTENDS UniboCGR, FiniteSetTheorems, TLAPS

-----------------------------------------------------------------------------
(* One timetable: what its operations preserve, for contacts and ranges    *)
(* alike.                                                                  *)

\* Every entry starts at or after the reference time, and lasts.
Ordered(es) == \A e \in es : 0 <= e.fromTime /\ e.fromTime < e.toTime

Bounded(es, bound) == \A e \in es : bound <= e.toTime

\* A tree and its expiry bound.
Sound(es, bound) ==
  /\ es \subseteq Entry
  /\ IsFiniteSet(es)
  /\ Ordered(es)
  /\ Disjoint(es)
  /\ bound \in Int
  /\ Bounded(es, bound)

-----------------------------------------------------------------------------
(* Finite sets of integers *)

\* A non-empty finite set of integers has a least element: strict inclusion is
\* well-founded on its initial segments.
LEMMA LeastFinite ==
  ASSUME NEW S \in SUBSET Int, S # {}, IsFiniteSet(S)
  PROVE  \E m \in S : \A n \in S : m <= n
<1> DEFINE upto(k) == {n \in S : n <= k}
           segments == {upto(k) : k \in S}
<1>1. segments \subseteq FiniteSubsetsOf(S) /\ segments # {}
  <2>1. ASSUME NEW k \in S PROVE upto(k) \in FiniteSubsetsOf(S)
    <3>1. upto(k) \in SUBSET S
      OBVIOUS
    <3>2. IsFiniteSet(upto(k))
      <4> HIDE DEF upto
      <4> QED BY <3>1, FS_Subset
    <3> QED BY <3>2 DEF FiniteSubsetsOf
  <2> QED BY <2>1
<1>2. PICK least \in segments :
        \A other \in segments : <<other, least>> \notin StrictSubsetOrdering(S)
  <2> HIDE DEF segments
  <2> QED BY <1>1, FS_StrictSubsetOrderingWellFounded, WFMin
<1>3. PICK m \in S : least = upto(m)
  OBVIOUS
<1>4. ASSUME NEW n \in S PROVE m <= n
  <2>1. SUFFICES ASSUME n < m PROVE FALSE
    OBVIOUS
  <2>2. upto(n) \subseteq upto(m)
    <3>1. \A x \in S : x <= n => x <= m
      BY <2>1
    <3> QED BY <3>1
  <2>3. m \in upto(m) /\ m \notin upto(n)
    BY <2>1
  <2>4. upto(n) # upto(m)
    <3> HIDE DEF upto
    <3> QED BY <2>3
  <2>5. upto(n) \in SUBSET S /\ upto(m) \in SUBSET S
    OBVIOUS
  <2>6. <<upto(n), upto(m)>> \in StrictSubsetOrdering(S)
    <3> HIDE DEF upto
    <3> QED BY <2>2, <2>4, <2>5 DEF StrictSubsetOrdering
  <2>7. upto(n) \in segments
    OBVIOUS
  <2> HIDE DEF upto, segments
  <2> QED BY <1>2, <1>3, <2>6, <2>7
<1> QED
  BY <1>4

\* What Min returns.
LEMMA MinFinite ==
  ASSUME NEW S \in SUBSET Int, S # {}, IsFiniteSet(S)
  PROVE  Min(S) \in S /\ \A n \in S : Min(S) <= n
BY LeastFinite DEF Min

LEMMA MinPair ==
  ASSUME NEW a \in Int, NEW b \in Int
  PROVE  Min({a, b}) \in Int /\ Min({a, b}) <= a /\ Min({a, b}) <= b
<1>1. \E m \in {a, b} : \A n \in {a, b} : m <= n
  BY SMT
<1> QED
  BY <1>1 DEF Min

\* The values of a function on a finite set are finitely many.
LEMMA FiniteImage ==
  ASSUME NEW S, IsFiniteSet(S), NEW f, DOMAIN f = S, f = [x \in S |-> f[x]]
  PROVE  IsFiniteSet({f[x] : x \in S})
<1> DEFINE T == {f[x] : x \in S}
<1>1. f \in Surjection(S, T)
  BY DEF Surjection
<1> HIDE DEF T
<1>2. IsFiniteSet(T)
  BY <1>1, FS_Surjection
<1> QED
  BY <1>2 DEF T

\* A non-empty finite set of integers has a greatest element.
LEMMA GreatestFinite ==
  ASSUME NEW S \in SUBSET Int, S # {}, IsFiniteSet(S)
  PROVE  \E m \in S : \A x \in S : x <= m
<1> DEFINE negated == [x \in S |-> -x]
           N == {negated[x] : x \in S}
<1>1. N \in SUBSET Int /\ N # {}
  <2>1. \A x \in S : negated[x] \in Int
    OBVIOUS
  <2> HIDE DEF negated
  <2> QED BY <2>1
<1>2. IsFiniteSet(N)
  <2>1. DOMAIN negated = S /\ negated = [x \in S |-> negated[x]]
    OBVIOUS
  <2> HIDE DEF negated
  <2> QED BY <2>1, FiniteImage
<1>3. PICK d \in N : \A n \in N : d <= n
  <2> HIDE DEF N
  <2> QED BY <1>1, <1>2, LeastFinite
<1>4. PICK m \in S : d = -m
  OBVIOUS
<1>5. ASSUME NEW x \in S PROVE x <= m
  BY <1>3, <1>4
<1> QED
  BY <1>5

-----------------------------------------------------------------------------
(* Entries *)

\* In a sound tree the key names the entry.
LEMMA SoundUnique ==
  ASSUME NEW es, NEW bound, Sound(es, bound), NEW a \in es, NEW b \in es, SameKey(a, b)
  PROVE  a = b
<1>1. a \in Entry /\ b \in Entry /\ a.fromTime < a.toTime /\ b.fromTime < b.toTime
  BY DEF Sound, Ordered
<1>2. SUFFICES ASSUME a # b PROVE FALSE
  OBVIOUS
<1>3. a.toTime <= b.fromTime \/ b.toTime <= a.fromTime
  BY <1>2 DEF Sound, Disjoint, SameKey
<1> QED
  BY <1>1, <1>3 DEF SameKey, Entry

\* ... and get_contact finds it.
LEMMA SoundFound ==
  ASSUME NEW es, NEW bound, Sound(es, bound)
  PROVE  AllFound(es)
<1> SUFFICES ASSUME NEW e \in es
             PROVE  Found(es, e.fromNode, e.toNode, e.fromTime) = {e}
  BY DEF AllFound
<1>1. e.fromTime >= 0
  BY DEF Sound, Ordered, Entry
<1>2. e \in Found(es, e.fromNode, e.toNode, e.fromTime)
  BY <1>1 DEF Found
<1>3. ASSUME NEW d \in Found(es, e.fromNode, e.toNode, e.fromTime) PROVE d = e
  <2>1. d \in es /\ SameKey(d, e)
    BY DEF Found, SameKey, SamePair
  <2> QED BY <2>1, SoundUnique
<1> QED
  BY <1>2, <1>3

\* The bound computed from a tree is a bound of it.
LEMMA NextExpiryBound ==
  ASSUME NEW es \in SUBSET Entry, IsFiniteSet(es)
  PROVE  NextExpiry(es) \in Int /\ Bounded(es, NextExpiry(es))
<1> DEFINE end == [e \in es |-> e.toTime]
           ends == {end[e] : e \in es}
           candidates == {MaxPosixTime} \cup ends
<1>1. NextExpiry(es) = Min(candidates)
  BY DEF NextExpiry
<1>2. candidates \in SUBSET Int /\ candidates # {}
  BY TimetableAssumption DEF Entry
<1>3. IsFiniteSet(candidates)
  <2>1. DOMAIN end = es /\ end = [e \in es |-> end[e]]
    OBVIOUS
  <2>2. IsFiniteSet(ends)
    <3> HIDE DEF end
    <3> QED BY <2>1, FiniteImage
  <2>3. IsFiniteSet({MaxPosixTime})
    BY FS_Singleton
  <2> HIDE DEF ends
  <2> QED BY <2>2, <2>3, FS_Union
<1>4. Min(candidates) \in candidates /\ \A n \in candidates : Min(candidates) <= n
  <2> HIDE DEF candidates
  <2> QED BY <1>2, <1>3, MinFinite
<1>5. \A e \in es : e.toTime \in candidates
  OBVIOUS
<1> QED
  BY <1>1, <1>2, <1>4, <1>5 DEF Bounded

\* A part of a sound tree is sound, under any bound of it.
LEMMA SoundSubset ==
  ASSUME NEW es, NEW bound, Sound(es, bound), NEW part \in SUBSET es,
         NEW b \in Int, Bounded(part, b)
  PROVE  Sound(part, b)
<1>1. IsFiniteSet(part)
  BY FS_Subset DEF Sound
<1> QED
  BY <1>1 DEF Sound, Ordered, Disjoint

-----------------------------------------------------------------------------
(* Operations *)

\* add_contact_to_graph refuses what overlaps, unless the new entry encloses another one.
LEMMA AddApart ==
  ASSUME NEW es, NEW bound, Sound(es, bound), NEW new \in Entry,
         Accepted(es, new), new.fromTime < new.toTime,
         \A e \in es : ~ (/\ SamePair(new, e)
                          /\ new.fromTime < e.fromTime /\ e.toTime < new.toTime)
  PROVE  \A e \in es : SamePair(new, e) =>
            new.toTime <= e.fromTime \/ e.toTime <= new.fromTime
<1>1. ASSUME NEW e \in es, SamePair(new, e)
      PROVE  new.toTime <= e.fromTime \/ e.toTime <= new.fromTime
  <2>1. e \in Entry /\ 0 <= e.fromTime /\ e.fromTime < e.toTime
    BY DEF Sound, Ordered
  <2>2. e \in VisibleFromTo(es, new.fromNode, new.toNode)
    <3>1. \A d \in es : d.fromTime >= 0 /\ d.fromTime # -1
      BY DEF Sound, Ordered, Entry
    <3> QED BY <1>1, <3>1 DEF VisibleFromTo, SamePair
  <2>3. ~ Overlaps(new, e)
    BY <2>2 DEF Accepted
  <2> QED BY <1>1, <2>1, <2>3 DEF Overlaps, Entry
<1> QED
  BY <1>1

LEMMA AddSound ==
  ASSUME NEW es, NEW bound, Sound(es, bound), NEW new \in Entry,
         Accepted(es, new), new.fromTime < new.toTime,
         \A e \in es : ~ (/\ SamePair(new, e)
                          /\ new.fromTime < e.fromTime /\ e.toTime < new.toTime)
  PROVE  Sound(es \cup {new}, Min({bound, new.toTime}))
<1>1. \A e \in es : SamePair(new, e) =>
         new.toTime <= e.fromTime \/ e.toTime <= new.fromTime
  BY AddApart
<1>2. Disjoint(es \cup {new})
  <2> SUFFICES ASSUME NEW a \in es \cup {new}, NEW b \in es \cup {new},
                      SamePair(a, b), a # b
               PROVE  a.toTime <= b.fromTime \/ b.toTime <= a.fromTime
    BY DEF Disjoint
  <2>1. CASE a \in es /\ b \in es
    BY <2>1 DEF Sound, Disjoint
  <2>2. CASE a = new /\ b \in es
    BY <2>2, <1>1
  <2>3. CASE a \in es /\ b = new
    <3>1. SamePair(new, a)
      BY <2>3 DEF SamePair
    <3> QED BY <2>3, <3>1, <1>1
  <2> QED BY <2>1, <2>2, <2>3
<1>3. new.toTime \in Int /\ bound \in Int
  BY DEF Entry, Sound
<1>4. /\ Min({bound, new.toTime}) \in Int
      /\ Min({bound, new.toTime}) <= bound /\ Min({bound, new.toTime}) <= new.toTime
  BY <1>3, MinPair
<1>5. Bounded(es \cup {new}, Min({bound, new.toTime}))
  <2>1. \A e \in es : bound <= e.toTime /\ e.toTime \in Int
    BY DEF Sound, Bounded, Entry
  <2> QED BY <1>3, <1>4, <2>1 DEF Bounded
<1>6. IsFiniteSet(es \cup {new})
  BY FS_AddElement DEF Sound
<1>7. Ordered(es \cup {new})
  BY DEF Accepted, Ordered, Sound
<1> QED
  BY <1>2, <1>4, <1>5, <1>6, <1>7 DEF Sound

\* An entry may take any interval that stays clear of the other entries of its pair.
LEMMA ReplaceSound ==
  ASSUME NEW es, NEW bound, Sound(es, bound), NEW e \in es, NEW new \in Entry,
         SamePair(new, e), 0 <= new.fromTime, new.fromTime < new.toTime,
         \A d \in es \ {e} : SamePair(d, e) =>
            new.toTime <= d.fromTime \/ d.toTime <= new.fromTime,
         NEW b \in Int, b <= bound, b <= new.toTime
  PROVE  Sound(Replace(es, e, new), b)
<1>1. Disjoint(Replace(es, e, new))
  <2> SUFFICES ASSUME NEW a \in Replace(es, e, new), NEW c \in Replace(es, e, new),
                      SamePair(a, c), a # c
               PROVE  a.toTime <= c.fromTime \/ c.toTime <= a.fromTime
    BY DEF Disjoint
  <2>1. CASE a # new /\ c # new
    BY <2>1 DEF Sound, Disjoint, Replace
  <2>2. CASE a = new
    <3>1. c \in es \ {e} /\ SamePair(c, e)
      BY <2>2 DEF Replace, SamePair
    <3> QED BY <2>2, <3>1
  <2>3. CASE c = new
    <3>1. a \in es \ {e} /\ SamePair(a, e)
      BY <2>3 DEF Replace, SamePair
    <3> QED BY <2>3, <3>1
  <2> QED BY <2>1, <2>2, <2>3
<1>2. IsFiniteSet(Replace(es, e, new))
  BY FS_RemoveElement, FS_AddElement DEF Sound, Replace
<1>3. Ordered(Replace(es, e, new))
  BY DEF Replace, Ordered, Sound
<1>4. Bounded(Replace(es, e, new), b)
  <2>1. \A d \in es : bound <= d.toTime /\ d.toTime \in Int /\ bound \in Int
    BY DEF Sound, Bounded, Entry
  <2>2. \A d \in es : b <= d.toTime
    BY <2>1
  <2> QED BY <2>2 DEF Bounded, Replace
<1> QED
  BY <1>1, <1>2, <1>3, <1>4 DEF Sound, Replace

\* revise_contact_start_time looks at the previous entry only; the ones before it end
\* even earlier.
LEMMA StartRevisedApart ==
  ASSUME NEW es, NEW bound, Sound(es, bound), NEW e \in es, NEW start \in Int,
         StartRevisable(es, e, start)
  PROVE  \A d \in es \ {e} : SamePair(d, e) =>
            e.toTime <= d.fromTime \/ d.toTime <= start
<1> DEFINE before == {d \in es \ {e} : SamePair(d, e) /\ d.fromTime <= e.fromTime}
<1>2. ASSUME NEW d \in before PROVE d.toTime <= start
  <2> DEFINE from == [c \in before |-> c.fromTime]
             starts == {from[c] : c \in before}
  <2>1. starts \in SUBSET Int /\ starts # {}
    BY DEF Sound, Entry
  <2>2. IsFiniteSet(starts)
    <3>1. IsFiniteSet(before)
      <4>1. before \in SUBSET es /\ IsFiniteSet(es)
        BY DEF Sound
      <4> HIDE DEF before
      <4> QED BY <4>1, FS_Subset
    <3>2. DOMAIN from = before /\ from = [c \in before |-> from[c]]
      OBVIOUS
    <3> HIDE DEF from, before
    <3> QED BY <3>1, <3>2, FiniteImage
  <2>3. PICK last \in starts : \A s \in starts : s <= last
    <3> HIDE DEF starts
    <3> QED BY <2>1, <2>2, GreatestFinite
  <2>4. PICK p \in before : last = p.fromTime
    OBVIOUS
  <2>5. \A b \in before : b.fromTime <= p.fromTime
    BY <2>3, <2>4
  <2>6. p \in Previous(es, e)
    BY <2>5 DEF Previous
  <2>7. p.toTime <= start
    BY <2>6 DEF StartRevisable
  <2>8. /\ d \in Entry /\ p \in Entry
        /\ d.fromTime < d.toTime /\ p.fromTime < p.toTime
    BY DEF Sound, Ordered
  <2>9. d = p \/ d.toTime <= p.fromTime \/ p.toTime <= d.fromTime
    <3>1. SamePair(d, p)
      BY DEF SamePair
    <3> QED BY <3>1 DEF Sound, Disjoint
  <2>10. d.fromTime <= p.fromTime
    BY <2>5
  <2> QED BY <2>7, <2>8, <2>9, <2>10 DEF Entry
<1>3. ASSUME NEW d \in es \ {e}, SamePair(d, e)
      PROVE  e.toTime <= d.fromTime \/ d.toTime <= start
  <2>1. /\ d \in Entry /\ e \in Entry
        /\ d.fromTime < d.toTime /\ e.fromTime < e.toTime
    BY DEF Sound, Ordered
  <2>2. d.toTime <= e.fromTime \/ e.toTime <= d.fromTime
    BY <1>3 DEF Sound, Disjoint
  <2>3. CASE d.toTime <= e.fromTime
    <3>1. d \in before
      BY <1>3, <2>1, <2>3 DEF Entry
    <3> QED BY <1>2, <3>1
  <2> QED BY <2>2, <2>3
<1> QED
  BY <1>3

LEMMA StartRevisedSound ==
  ASSUME NEW es, NEW bound, Sound(es, bound), NEW e \in es, NEW start \in Int,
         StartRevisable(es, e, start), 0 <= start, start < e.toTime
  PROVE  Sound(Replace(es, e, [e EXCEPT !.fromTime = start]), bound)
<1> DEFINE new == [e EXCEPT !.fromTime = start]
<1>1. e \in Entry /\ new \in Entry /\ new.fromTime = start /\ new.toTime = e.toTime
      /\ SamePair(new, e)
  BY DEF Sound, Entry, SamePair
<1>2. \A d \in es \ {e} : SamePair(d, e) =>
         new.toTime <= d.fromTime \/ d.toTime <= new.fromTime
  BY <1>1, StartRevisedApart
<1>3. bound \in Int /\ bound <= new.toTime /\ bound <= bound
  BY <1>1 DEF Sound, Bounded
<1>4. 0 <= new.fromTime /\ new.fromTime < new.toTime
  BY <1>1
<1> HIDE DEF new
<1>5. Sound(Replace(es, e, new), bound)
  BY <1>1, <1>2, <1>3, <1>4, ReplaceSound
<1> QED
  BY <1>5 DEF new

\* revise_contact_end_time looks at the following entry only; the ones after it start
\* even later.
LEMMA EndRevisedApart ==
  ASSUME NEW es, NEW bound, Sound(es, bound), NEW e \in es, NEW end \in Int,
         EndRevisable(es, e, end)
  PROVE  \A d \in es \ {e} : SamePair(d, e) =>
            end <= d.fromTime \/ d.toTime <= e.fromTime
<1> DEFINE after == {d \in es \ {e} : SamePair(d, e) /\ d.fromTime >= e.fromTime}
<1>2. ASSUME NEW d \in after PROVE end <= d.fromTime
  <2> DEFINE from == [c \in after |-> c.fromTime]
             starts == {from[c] : c \in after}
  <2>1. starts \in SUBSET Int /\ starts # {}
    BY DEF Sound, Entry
  <2>2. IsFiniteSet(starts)
    <3>1. IsFiniteSet(after)
      <4>1. after \in SUBSET es /\ IsFiniteSet(es)
        BY DEF Sound
      <4> HIDE DEF after
      <4> QED BY <4>1, FS_Subset
    <3>2. DOMAIN from = after /\ from = [c \in after |-> from[c]]
      OBVIOUS
    <3> HIDE DEF from, after
    <3> QED BY <3>1, <3>2, FiniteImage
  <2>3. PICK first \in starts : \A s \in starts : first <= s
    <3> HIDE DEF starts
    <3> QED BY <2>1, <2>2, LeastFinite
  <2>4. PICK n \in after : first = n.fromTime
    OBVIOUS
  <2>5. \A a \in after : a.fromTime >= n.fromTime
    BY <2>1, <2>3, <2>4
  <2>6. n \in Following(es, e)
    BY <2>5 DEF Following
  <2>7. end <= n.fromTime
    BY <2>6 DEF EndRevisable
  <2> QED BY <2>5, <2>7 DEF Sound, Entry
<1>3. ASSUME NEW d \in es \ {e}, SamePair(d, e)
      PROVE  end <= d.fromTime \/ d.toTime <= e.fromTime
  <2>1. /\ d \in Entry /\ e \in Entry
        /\ d.fromTime < d.toTime /\ e.fromTime < e.toTime
    BY DEF Sound, Ordered
  <2>2. d.toTime <= e.fromTime \/ e.toTime <= d.fromTime
    BY <1>3 DEF Sound, Disjoint
  <2>3. CASE e.toTime <= d.fromTime
    <3>1. d \in after
      BY <1>3, <2>1, <2>3 DEF Entry
    <3> QED BY <1>2, <3>1
  <2> QED BY <2>2, <2>3
<1> QED
  BY <1>3

LEMMA EndRevisedSound ==
  ASSUME NEW es, NEW bound, Sound(es, bound), NEW e \in es, NEW end \in Int,
         EndRevisable(es, e, end), e.fromTime < end
  PROVE  Sound(Replace(es, e, [e EXCEPT !.toTime = end]), Min({bound, end}))
<1> DEFINE new == [e EXCEPT !.toTime = end]
<1>1. e \in Entry /\ new \in Entry /\ new.fromTime = e.fromTime /\ new.toTime = end
      /\ SamePair(new, e) /\ 0 <= e.fromTime /\ bound \in Int
  BY DEF Sound, Ordered, Entry, SamePair
<1>2. \A d \in es \ {e} : SamePair(d, e) =>
         new.toTime <= d.fromTime \/ d.toTime <= new.fromTime
  BY <1>1, EndRevisedApart
<1>3. /\ Min({bound, end}) \in Int
      /\ Min({bound, end}) <= bound /\ Min({bound, end}) <= new.toTime
  BY <1>1, MinPair
<1>4. 0 <= new.fromTime /\ new.fromTime < new.toTime
  BY <1>1
<1> HIDE DEF new
<1>5. Sound(Replace(es, e, new), Min({bound, end}))
  BY <1>1, <1>2, <1>3, <1>4, ReplaceSound
<1> QED
  BY <1>5 DEF new

\* Deleting by key removes exactly the expired entries.
LEMMA VictimsExact ==
  ASSUME NEW es, NEW bound, Sound(es, bound), NEW now \in Int,
         NEW gone \in Victims(es, now)
  PROVE  gone = Expired(es, now)
<1>1. PICK v \in Injection(Expired(es, now), es) :
        /\ gone = Range(v)
        /\ \A e \in Expired(es, now) : SameKey(v[e], e)
  BY DEF Victims
<1>2. v \in [Expired(es, now) -> es]
  BY DEF Injection
<1>3. ASSUME NEW e \in Expired(es, now) PROVE v[e] = e
  <2>1. e \in es /\ v[e] \in es /\ SameKey(v[e], e)
    BY <1>1, <1>2 DEF Expired
  <2> QED BY <2>1, SoundUnique
<1> QED
  BY <1>1, <1>2, <1>3 DEF Range

\* What is left after a sweep is sound under the bound computed from it.
LEMMA SweptSound ==
  ASSUME NEW es, NEW bound, Sound(es, bound), NEW gone
  PROVE  Sound(es \ gone, NextExpiry(es \ gone))
<1> DEFINE left == es \ gone
<1>1. left \in SUBSET es /\ left \in SUBSET Entry /\ IsFiniteSet(left)
  BY FS_Difference DEF Sound
<1> HIDE DEF left
<1>2. NextExpiry(left) \in Int /\ Bounded(left, NextExpiry(left))
  BY <1>1, NextExpiryBound
<1>3. Sound(left, NextExpiry(left))
  BY <1>1, <1>2, SoundSubset
<1> QED
  BY <1>3 DEF left

\* ContactSAP_decrease_time moves every entry by diff.
LEMMA ShiftEntries ==
  ASSUME NEW es \in SUBSET Entry, IsFiniteSet(es), NEW diff \in Int
  PROVE  /\ Shift(es, diff) \in SUBSET Entry /\ IsFiniteSet(Shift(es, diff))
         /\ \A m \in Shift(es, diff) : \E e \in es :
              /\ SamePair(m, e)
              /\ m.fromTime = e.fromTime - diff /\ m.toTime = e.toTime - diff
<1> DEFINE moved == [e \in es |-> [e EXCEPT !.fromTime = @ - diff, !.toTime = @ - diff]]
<1>1. ASSUME NEW e \in es
      PROVE  /\ moved[e] \in Entry /\ SamePair(moved[e], e)
             /\ moved[e].fromTime = e.fromTime - diff
             /\ moved[e].toTime = e.toTime - diff
  <2>1. e \in Entry
    OBVIOUS
  <2>2. e.fromTime - diff \in Int /\ e.toTime - diff \in Int
    BY <2>1 DEF Entry
  <2>3. moved[e] = [e EXCEPT !.fromTime = e.fromTime - diff, !.toTime = e.toTime - diff]
    OBVIOUS
  <2> HIDE DEF moved
  <2> QED BY <2>1, <2>2, <2>3 DEF Entry, SamePair
<1>2. Shift(es, diff) = {moved[e] : e \in es}
  BY DEF Shift
<1>3. IsFiniteSet(Shift(es, diff))
  <2>1. DOMAIN moved = es /\ moved = [e \in es |-> moved[e]]
    OBVIOUS
  <2> HIDE DEF moved
  <2> QED BY <1>2, <2>1, FiniteImage
<1> HIDE DEF moved
<1> QED
  BY <1>1, <1>2, <1>3

\* ... and so keeps the intervals of a pair apart.
LEMMA ShiftSound ==
  ASSUME NEW es, NEW bound, Sound(es, bound), NEW diff \in Int,
         \A e \in es : e.fromTime - diff >= 0
  PROVE  Sound(Shift(es, diff), NextExpiry(Shift(es, diff)))
<1>1. /\ Shift(es, diff) \in SUBSET Entry /\ IsFiniteSet(Shift(es, diff))
      /\ \A m \in Shift(es, diff) : \E e \in es :
           /\ SamePair(m, e)
           /\ m.fromTime = e.fromTime - diff /\ m.toTime = e.toTime - diff
  BY ShiftEntries DEF Sound
<1>2. Ordered(Shift(es, diff))
  <2> SUFFICES ASSUME NEW m \in Shift(es, diff)
               PROVE  0 <= m.fromTime /\ m.fromTime < m.toTime
    BY DEF Ordered
  <2>1. PICK e \in es : m.fromTime = e.fromTime - diff /\ m.toTime = e.toTime - diff
    BY <1>1
  <2>2. e \in Entry /\ e.fromTime < e.toTime /\ e.fromTime - diff >= 0
    BY DEF Sound, Ordered
  <2> QED BY <2>1, <2>2 DEF Entry
<1>3. Disjoint(Shift(es, diff))
  <2> SUFFICES ASSUME NEW m \in Shift(es, diff), NEW n \in Shift(es, diff),
                      SamePair(m, n), m # n
               PROVE  m.toTime <= n.fromTime \/ n.toTime <= m.fromTime
    BY DEF Disjoint
  <2>1. PICK a \in es : /\ SamePair(m, a)
                        /\ m.fromTime = a.fromTime - diff /\ m.toTime = a.toTime - diff
    BY <1>1
  <2>2. PICK b \in es : /\ SamePair(n, b)
                        /\ n.fromTime = b.fromTime - diff /\ n.toTime = b.toTime - diff
    BY <1>1
  <2>3. a \in Entry /\ b \in Entry /\ SamePair(a, b)
    BY <2>1, <2>2 DEF Sound, SamePair
  <2>4. CASE a = b
    <3>1. m = n
      BY <1>1, <2>1, <2>2, <2>4 DEF Entry, SamePair
    <3> QED BY <3>1
  <2>5. CASE a # b
    <3>1. a.toTime <= b.fromTime \/ b.toTime <= a.fromTime
      BY <2>3, <2>5 DEF Sound, Disjoint
    <3> QED BY <2>1, <2>2, <2>3, <3>1 DEF Entry
  <2> QED BY <2>4, <2>5
<1>4. /\ NextExpiry(Shift(es, diff)) \in Int
      /\ Bounded(Shift(es, diff), NextExpiry(Shift(es, diff)))
  BY <1>1, NextExpiryBound
<1> QED
  BY <1>1, <1>2, <1>3, <1>4 DEF Sound

-----------------------------------------------------------------------------
(* The contact plan *)

\* What is inductive of the types alone.
Typed(es) ==
  /\ es \subseteq Entry
  /\ IsFiniteSet(es)
  /\ \A e \in es : e.fromTime <= e.toTime

PlanTyped ==
  /\ Typed(contacts) /\ Typed(ranges)
  /\ timeContactToRemove \in Int /\ timeRangeToRemove \in Int
  /\ currentTime \in Int /\ referenceTime \in Nat

\* What is inductive for an agent without lapses.
PlanInv ==
  /\ Sound(contacts, timeContactToRemove)
  /\ Sound(ranges, timeRangeToRemove)
  /\ currentTime \in Int
  /\ referenceTime \in Nat

-----------------------------------------------------------------------------
(* Both invariants hold initially *)

LEMMA PlanInitTyped == PlanInit => PlanTyped
BY TimetableAssumption, ContactPlanAssumption, FS_EmptySet DEF PlanInit, PlanTyped, Typed

LEMMA PlanInitInv == PlanInit => PlanInv
BY TimetableAssumption, ContactPlanAssumption, FS_EmptySet
   DEF PlanInit, PlanInv, Sound, Ordered, Disjoint, Bounded

-----------------------------------------------------------------------------
(* Type correctness *)

LEMMA TypedReplace ==
  ASSUME NEW es, Typed(es), NEW e, NEW new \in Entry, new.fromTime <= new.toTime
  PROVE  Typed(Replace(es, e, new))
BY FS_RemoveElement, FS_AddElement DEF Typed, Replace

LEMMA TypedSweep ==
  ASSUME NEW es, Typed(es), NEW gone
  PROVE  /\ Typed(es \ gone)
         /\ NextExpiry(es \ gone) \in Int
<1>1. Typed(es \ gone)
  BY FS_Difference DEF Typed
<1> QED
  BY <1>1, NextExpiryBound DEF Typed

LEMMA TypedShift ==
  ASSUME NEW es, Typed(es), NEW diff \in Int
  PROVE  Typed(Shift(es, diff)) /\ NextExpiry(Shift(es, diff)) \in Int
<1>1. /\ Shift(es, diff) \in SUBSET Entry /\ IsFiniteSet(Shift(es, diff))
      /\ \A m \in Shift(es, diff) : \E e \in es :
           /\ SamePair(m, e)
           /\ m.fromTime = e.fromTime - diff /\ m.toTime = e.toTime - diff
  BY ShiftEntries DEF Typed
<1>2. ASSUME NEW m \in Shift(es, diff) PROVE m.fromTime <= m.toTime
  BY <1>1 DEF Typed, Entry
<1> QED
  BY <1>1, <1>2, NextExpiryBound DEF Typed

\* The links and the times the agent offers make entries.
LEMMA OfferedEntry ==
  ASSUME NEW f \in Node, NEW t \in Node, NEW start \in PlanTime, NEW end \in PlanTime,
         referenceTime \in Nat
  PROVE  /\ Offered(f, t, start, end) \in Entry
         /\ RangeEnd(Offered(f, t, start, end).toTime) \in Int
         /\ start - referenceTime \in Int /\ end - referenceTime \in Int
BY ContactPlanAssumption, TimetableAssumption DEF Offered, Entry, RangeEnd

LEMMA PlanStepTyped == PlanTyped /\ [PlanNext]_planVars => PlanTyped'
<1> SUFFICES ASSUME PlanTyped, [PlanNext]_planVars PROVE PlanTyped'
  OBVIOUS
<1>1. CASE ContactNext
  <2> PICK link \in ContactLink, start \in PlanTime, time \in PlanTime :
        \/ AddContact(link[1], link[2], start, time)
        \/ ChangeContactStart(link[1], link[2], start, time)
        \/ ChangeContactEnd(link[1], link[2], start, time)
        \/ RemoveContact(link[1], link[2], start)
    BY <1>1 DEF ContactNext
  <2> link[1] \in Node /\ link[2] \in Node
    BY ContactPlanAssumption
  <2>1. CASE AddContact(link[1], link[2], start, time)
    <3> DEFINE new == Offered(link[1], link[2], start, time)
    <3>1. new \in Entry /\ new.fromTime <= new.toTime
      BY <2>1, OfferedEntry DEF AddContact, Accepted, PlanTyped
    <3> HIDE DEF new
    <3>2. contacts' = contacts \cup {new}
          /\ timeContactToRemove' = Min({timeContactToRemove, new.toTime})
      BY <2>1 DEF AddContact, new
    <3>3. Typed(contacts')
      BY <3>1, <3>2, FS_AddElement DEF PlanTyped, Typed
    <3>4. timeContactToRemove' \in Int
      BY <3>1, <3>2, MinPair DEF PlanTyped, Entry
    <3> QED BY <2>1, <3>3, <3>4 DEF AddContact, PlanTyped, rangeVars, clockVars
  <2>2. CASE ChangeContactStart(link[1], link[2], start, time)
    <3> DEFINE s == time - referenceTime
    <3>1. PICK c \in contacts :
             /\ s <= c.toTime
             /\ contacts' = Replace(contacts, c, [c EXCEPT !.fromTime = s])
      BY <2>2 DEF ChangeContactStart, StartRevisable, Found
    <3>2. s \in Int
      BY OfferedEntry DEF PlanTyped
    <3> HIDE DEF s
    <3>3. [c EXCEPT !.fromTime = s] \in Entry
          /\ [c EXCEPT !.fromTime = s].fromTime <= [c EXCEPT !.fromTime = s].toTime
      BY <3>1, <3>2 DEF PlanTyped, Typed, Entry
    <3>4. Typed(contacts')
      BY <3>1, <3>3, TypedReplace DEF PlanTyped
    <3> QED BY <2>2, <3>4 DEF ChangeContactStart, PlanTyped, rangeVars, clockVars
  <2>3. CASE ChangeContactEnd(link[1], link[2], start, time)
    <3> DEFINE e == time - referenceTime
    <3>1. PICK c \in contacts :
             /\ c.fromTime <= e
             /\ contacts' = Replace(contacts, c, [c EXCEPT !.toTime = e])
             /\ timeContactToRemove' = Min({timeContactToRemove, [c EXCEPT !.toTime = e].toTime})
      BY <2>3 DEF ChangeContactEnd, EndRevisable, Found
    <3>2. e \in Int
      BY OfferedEntry DEF PlanTyped
    <3> HIDE DEF e
    <3>3. [c EXCEPT !.toTime = e] \in Entry
          /\ [c EXCEPT !.toTime = e].fromTime <= [c EXCEPT !.toTime = e].toTime
          /\ [c EXCEPT !.toTime = e].toTime = e
      BY <3>1, <3>2 DEF PlanTyped, Typed, Entry
    <3>4. Typed(contacts')
      BY <3>1, <3>3, TypedReplace DEF PlanTyped
    <3>5. timeContactToRemove' \in Int
      BY <3>1, <3>2, <3>3, MinPair DEF PlanTyped
    <3> QED BY <2>3, <3>4, <3>5 DEF ChangeContactEnd, PlanTyped, rangeVars, clockVars
  <2>4. CASE RemoveContact(link[1], link[2], start)
    <3>1. PICK c : contacts' = contacts \ {c}
      BY <2>4 DEF RemoveContact
    <3>2. Typed(contacts')
      BY <3>1, TypedSweep DEF PlanTyped
    <3> QED BY <2>4, <3>2 DEF RemoveContact, PlanTyped, rangeVars, clockVars
  <2> QED BY <2>1, <2>2, <2>3, <2>4
<1>2. CASE RangeNext
  <2> PICK link \in RangeLink, start \in PlanTime, time \in PlanTime :
        \/ AddRange(link[1], link[2], start, time)
        \/ ChangeRangeStart(link[1], link[2], start, time)
        \/ ChangeRangeEnd(link[1], link[2], start, time)
        \/ RemoveRange(link[1], link[2], start)
    BY <1>2 DEF RangeNext
  <2> link[1] \in Node /\ link[2] \in Node
    BY ContactPlanAssumption
  <2>1. CASE AddRange(link[1], link[2], start, time)
    <3> DEFINE offered == Offered(link[1], link[2], start, time)
               new == [offered EXCEPT !.toTime = RangeEnd(@)]
    <3>1. offered \in Entry /\ RangeEnd(offered.toTime) \in Int
      BY OfferedEntry DEF PlanTyped
    <3>2. /\ Accepted(ranges, new)
          /\ ranges' = ranges \cup {new}
          /\ timeRangeToRemove' = Min({timeRangeToRemove, new.toTime})
      BY <2>1 DEF AddRange
    <3> HIDE DEF offered
    <3>3. new \in Entry
      BY <3>1 DEF Entry
    <3> HIDE DEF new
    <3>4. new.fromTime <= new.toTime
      BY <3>2 DEF Accepted
    <3>5. Typed(ranges')
      BY <3>2, <3>3, <3>4, FS_AddElement DEF PlanTyped, Typed
    <3>6. timeRangeToRemove' \in Int
      BY <3>2, <3>3, MinPair DEF PlanTyped, Entry
    <3> QED BY <2>1, <3>5, <3>6 DEF AddRange, PlanTyped, contactVars, clockVars
  <2>2. CASE ChangeRangeStart(link[1], link[2], start, time)
    <3> DEFINE s == time - referenceTime
    <3>1. PICK r \in ranges :
             /\ s <= r.toTime
             /\ ranges' = Replace(ranges, r, [r EXCEPT !.fromTime = s])
      BY <2>2 DEF ChangeRangeStart, StartRevisable, Found
    <3>2. s \in Int
      BY OfferedEntry DEF PlanTyped
    <3> HIDE DEF s
    <3>3. [r EXCEPT !.fromTime = s] \in Entry
          /\ [r EXCEPT !.fromTime = s].fromTime <= [r EXCEPT !.fromTime = s].toTime
      BY <3>1, <3>2 DEF PlanTyped, Typed, Entry
    <3>4. Typed(ranges')
      BY <3>1, <3>3, TypedReplace DEF PlanTyped
    <3> QED BY <2>2, <3>4 DEF ChangeRangeStart, PlanTyped, contactVars, clockVars
  <2>3. CASE ChangeRangeEnd(link[1], link[2], start, time)
    <3> DEFINE e == time - referenceTime
    <3>1. PICK r \in ranges :
             /\ r.fromTime <= e
             /\ ranges' = Replace(ranges, r, [r EXCEPT !.toTime = e])
             /\ timeRangeToRemove' = Min({timeRangeToRemove, [r EXCEPT !.toTime = e].toTime})
      BY <2>3 DEF ChangeRangeEnd, EndRevisable, Found
    <3>2. e \in Int
      BY OfferedEntry DEF PlanTyped
    <3> HIDE DEF e
    <3>3. [r EXCEPT !.toTime = e] \in Entry
          /\ [r EXCEPT !.toTime = e].fromTime <= [r EXCEPT !.toTime = e].toTime
          /\ [r EXCEPT !.toTime = e].toTime = e
      BY <3>1, <3>2 DEF PlanTyped, Typed, Entry
    <3>4. Typed(ranges')
      BY <3>1, <3>3, TypedReplace DEF PlanTyped
    <3>5. timeRangeToRemove' \in Int
      BY <3>1, <3>2, <3>3, MinPair DEF PlanTyped
    <3> QED BY <2>3, <3>4, <3>5 DEF ChangeRangeEnd, PlanTyped, contactVars, clockVars
  <2>4. CASE RemoveRange(link[1], link[2], start)
    <3>1. PICK r : ranges' = ranges \ {r}
      BY <2>4 DEF RemoveRange
    <3>2. Typed(ranges')
      BY <3>1, TypedSweep DEF PlanTyped
    <3> QED BY <2>4, <3>2 DEF RemoveRange, PlanTyped, contactVars, clockVars
  <2> QED BY <2>1, <2>2, <2>3, <2>4
<1>3. CASE ResetPlan
  BY <1>3, FS_EmptySet, TimetableAssumption DEF ResetPlan, PlanTyped, Typed, clockVars
<1>4. CASE Sweep
  <2>1. Typed(contacts') /\ timeContactToRemove' \in Int
    BY <1>4, TypedSweep DEF Sweep, RemoveExpiredContacts, PlanTyped, contactVars
  <2>2. Typed(ranges') /\ timeRangeToRemove' \in Int
    BY <1>4, TypedSweep DEF Sweep, RemoveExpiredRanges, PlanTyped, rangeVars
  <2> QED BY <1>4, <2>1, <2>2 DEF Sweep, PlanTyped, clockVars
<1>5. ASSUME NEW time \in ClockTime, SetCurrentTime(time) PROVE PlanTyped'
  BY <1>5, ContactPlanAssumption DEF SetCurrentTime, PlanTyped, contactVars, rangeVars
<1>6. ASSUME NEW reference \in RefTime, ChangeReferenceTime(reference) PROVE PlanTyped'
  <2> DEFINE diff == reference - referenceTime
  <2>1. reference \in Nat /\ diff \in Int /\ currentTime - diff \in Int
    BY ContactPlanAssumption DEF PlanTyped
  <2>2. /\ contacts' = Shift(contacts, diff) /\ ranges' = Shift(ranges, diff)
        /\ timeContactToRemove' = NextExpiry(Shift(contacts, diff))
        /\ timeRangeToRemove' = NextExpiry(Shift(ranges, diff))
        /\ currentTime' = currentTime - diff /\ referenceTime' = reference
    BY <1>6 DEF ChangeReferenceTime
  <2> HIDE DEF diff
  <2> QED BY <2>1, <2>2, TypedShift DEF PlanTyped
<1>7. CASE UNCHANGED planVars
  BY <1>7 DEF PlanTyped, planVars, contactVars, rangeVars, clockVars
<1> QED
  BY <1>1, <1>2, <1>3, <1>4, <1>5, <1>6, <1>7 DEF PlanNext

\* Whatever the agent does, the plan is well typed and no interval ends before it starts.
THEOREM PlanTypeCorrect == PlanSpec => []PlanTypeOK
<1>1. PlanTyped => PlanTypeOK
  BY DEF PlanTyped, Typed, PlanTypeOK
<1> QED
  BY PlanInitTyped, PlanStepTyped, <1>1, PTL DEF PlanSpec
-----------------------------------------------------------------------------
(* An agent without lapses *)

\* A sweep of one tree, however it deletes.
LEMMA SweepSound ==
  ASSUME NEW es, NEW bound, Sound(es, bound), NEW now \in Int,
         NEW gone \in Victims(es, now)
  PROVE  Sound(es \ gone, NextExpiry(es \ Expired(es, now)))
BY VictimsExact, SweptSound

LEMMA PlanStepInv ==
  ASSUME Lapses = {}
  PROVE  PlanInv /\ [PlanNext]_planVars => PlanInv'
<1> SUFFICES ASSUME PlanInv, [PlanNext]_planVars PROVE PlanInv'
  OBVIOUS
<1> USE DEF PlanInv
<1>1. CASE ContactNext
  <2> PICK link \in ContactLink, start \in PlanTime, time \in PlanTime :
        \/ AddContact(link[1], link[2], start, time)
        \/ ChangeContactStart(link[1], link[2], start, time)
        \/ ChangeContactEnd(link[1], link[2], start, time)
        \/ RemoveContact(link[1], link[2], start)
    BY <1>1 DEF ContactNext
  <2> link[1] \in Node /\ link[2] \in Node
    BY ContactPlanAssumption
  <2> time - referenceTime \in Int
    BY OfferedEntry
  <2>1. CASE AddContact(link[1], link[2], start, time)
    <3> DEFINE new == Offered(link[1], link[2], start, time)
    <3>1. new \in Entry
      BY OfferedEntry
    <3> HIDE DEF new
    <3>2. /\ OfferAllowed(contacts, new) /\ Accepted(contacts, new)
          /\ contacts' = contacts \cup {new}
          /\ timeContactToRemove' = Min({timeContactToRemove, new.toTime})
      BY <2>1 DEF AddContact, new
    <3>3. /\ new.fromTime < new.toTime
          /\ \A e \in contacts : ~ (/\ SamePair(new, e)
                                    /\ new.fromTime < e.fromTime /\ e.toTime < new.toTime)
      BY <3>1, <3>2 DEF OfferAllowed, Encloses, Accepted, Entry
    <3>4. Sound(contacts', timeContactToRemove')
      BY <3>1, <3>2, <3>3, AddSound
    <3> QED BY <2>1, <3>4 DEF AddContact, rangeVars, clockVars
  <2>2. CASE ChangeContactStart(link[1], link[2], start, time)
    <3> DEFINE s == time - referenceTime
    <3>1. PICK c \in contacts :
             /\ RevisionAllowed([c EXCEPT !.fromTime = s])
             /\ StartRevisable(contacts, c, [c EXCEPT !.fromTime = s].fromTime)
             /\ contacts' = Replace(contacts, c, [c EXCEPT !.fromTime = s])
      BY <2>2 DEF ChangeContactStart, Found
    <3>2. s \in Int /\ c \in Entry
      BY DEF Sound
    <3> HIDE DEF s
    <3>3. StartRevisable(contacts, c, s) /\ 0 <= s /\ s < c.toTime
      BY <3>1, <3>2 DEF RevisionAllowed, StartRevisable, EndRevisable, Entry
    <3>4. Sound(contacts', timeContactToRemove)
      BY <3>1, <3>2, <3>3, StartRevisedSound
    <3> QED BY <2>2, <3>4 DEF ChangeContactStart, rangeVars, clockVars
  <2>3. CASE ChangeContactEnd(link[1], link[2], start, time)
    <3> DEFINE e == time - referenceTime
    <3>1. PICK c \in contacts :
             /\ RevisionAllowed([c EXCEPT !.toTime = e])
             /\ EndRevisable(contacts, c, [c EXCEPT !.toTime = e].toTime)
             /\ contacts' = Replace(contacts, c, [c EXCEPT !.toTime = e])
             /\ timeContactToRemove' = Min({timeContactToRemove, [c EXCEPT !.toTime = e].toTime})
      BY <2>3 DEF ChangeContactEnd, Found
    <3>2. e \in Int /\ c \in Entry
      BY DEF Sound
    <3> HIDE DEF e
    <3>3. /\ [c EXCEPT !.toTime = e].toTime = e
          /\ EndRevisable(contacts, c, e) /\ c.fromTime < e
      BY <3>1, <3>2 DEF RevisionAllowed, StartRevisable, EndRevisable, Entry
    <3>4. Sound(contacts', timeContactToRemove')
      BY <3>1, <3>2, <3>3, EndRevisedSound
    <3> QED BY <2>3, <3>4 DEF ChangeContactEnd, rangeVars, clockVars
  <2>4. CASE RemoveContact(link[1], link[2], start)
    <3>1. PICK c : contacts' = contacts \ {c}
      BY <2>4 DEF RemoveContact
    <3>2. Sound(contacts', timeContactToRemove)
      BY <3>1, SoundSubset DEF Sound, Bounded
    <3> QED BY <2>4, <3>2 DEF RemoveContact, rangeVars, clockVars
  <2> QED BY <2>1, <2>2, <2>3, <2>4
<1>2. CASE RangeNext
  <2> PICK link \in RangeLink, start \in PlanTime, time \in PlanTime :
        \/ AddRange(link[1], link[2], start, time)
        \/ ChangeRangeStart(link[1], link[2], start, time)
        \/ ChangeRangeEnd(link[1], link[2], start, time)
        \/ RemoveRange(link[1], link[2], start)
    BY <1>2 DEF RangeNext
  <2> link[1] \in Node /\ link[2] \in Node
    BY ContactPlanAssumption
  <2> time - referenceTime \in Int
    BY OfferedEntry
  <2>1. CASE AddRange(link[1], link[2], start, time)
    <3> DEFINE offered == Offered(link[1], link[2], start, time)
               new == [offered EXCEPT !.toTime = RangeEnd(@)]
    <3>1. offered \in Entry /\ RangeEnd(offered.toTime) \in Int
      BY OfferedEntry
    <3>2. /\ OfferAllowed(ranges, new) /\ Accepted(ranges, new)
          /\ ranges' = ranges \cup {new}
          /\ timeRangeToRemove' = Min({timeRangeToRemove, new.toTime})
      BY <2>1 DEF AddRange
    <3> HIDE DEF offered
    <3>3. new \in Entry
      BY <3>1 DEF Entry
    <3> HIDE DEF new
    <3>4. /\ new.fromTime < new.toTime
          /\ \A e \in ranges : ~ (/\ SamePair(new, e)
                                  /\ new.fromTime < e.fromTime /\ e.toTime < new.toTime)
      BY <3>2, <3>3 DEF OfferAllowed, Encloses, Accepted, Entry
    <3>5. Sound(ranges', timeRangeToRemove')
      BY <3>2, <3>3, <3>4, AddSound
    <3> QED BY <2>1, <3>5 DEF AddRange, contactVars, clockVars
  <2>2. CASE ChangeRangeStart(link[1], link[2], start, time)
    <3> DEFINE s == time - referenceTime
    <3>1. PICK r \in ranges :
             /\ RevisionAllowed([r EXCEPT !.fromTime = s])
             /\ StartRevisable(ranges, r, [r EXCEPT !.fromTime = s].fromTime)
             /\ ranges' = Replace(ranges, r, [r EXCEPT !.fromTime = s])
      BY <2>2 DEF ChangeRangeStart, Found
    <3>2. s \in Int /\ r \in Entry
      BY DEF Sound
    <3> HIDE DEF s
    <3>3. StartRevisable(ranges, r, s) /\ 0 <= s /\ s < r.toTime
      BY <3>1, <3>2 DEF RevisionAllowed, StartRevisable, EndRevisable, Entry
    <3>4. Sound(ranges', timeRangeToRemove)
      BY <3>1, <3>2, <3>3, StartRevisedSound
    <3> QED BY <2>2, <3>4 DEF ChangeRangeStart, contactVars, clockVars
  <2>3. CASE ChangeRangeEnd(link[1], link[2], start, time)
    <3> DEFINE e == time - referenceTime
    <3>1. PICK r \in ranges :
             /\ RevisionAllowed([r EXCEPT !.toTime = e])
             /\ EndRevisable(ranges, r, [r EXCEPT !.toTime = e].toTime)
             /\ ranges' = Replace(ranges, r, [r EXCEPT !.toTime = e])
             /\ timeRangeToRemove' = Min({timeRangeToRemove, [r EXCEPT !.toTime = e].toTime})
      BY <2>3 DEF ChangeRangeEnd, Found
    <3>2. e \in Int /\ r \in Entry
      BY DEF Sound
    <3> HIDE DEF e
    <3>3. /\ [r EXCEPT !.toTime = e].toTime = e
          /\ EndRevisable(ranges, r, e) /\ r.fromTime < e
      BY <3>1, <3>2 DEF RevisionAllowed, StartRevisable, EndRevisable, Entry
    <3>4. Sound(ranges', timeRangeToRemove')
      BY <3>1, <3>2, <3>3, EndRevisedSound
    <3> QED BY <2>3, <3>4 DEF ChangeRangeEnd, contactVars, clockVars
  <2>4. CASE RemoveRange(link[1], link[2], start)
    <3>1. PICK r : ranges' = ranges \ {r}
      BY <2>4 DEF RemoveRange
    <3>2. Sound(ranges', timeRangeToRemove)
      BY <3>1, SoundSubset DEF Sound, Bounded
    <3> QED BY <2>4, <3>2 DEF RemoveRange, contactVars, clockVars
  <2> QED BY <2>1, <2>2, <2>3, <2>4
<1>3. CASE ResetPlan
  BY <1>3, FS_EmptySet, TimetableAssumption
     DEF ResetPlan, Sound, Ordered, Disjoint, Bounded, clockVars
<1>4. CASE Sweep
  <2>1. Sound(contacts', timeContactToRemove')
    BY <1>4, SweepSound DEF Sweep, RemoveExpiredContacts, contactVars
  <2>2. Sound(ranges', timeRangeToRemove')
    BY <1>4, SweepSound DEF Sweep, RemoveExpiredRanges, rangeVars
  <2> QED BY <1>4, <2>1, <2>2 DEF Sweep, clockVars
<1>5. ASSUME NEW time \in ClockTime, SetCurrentTime(time) PROVE PlanInv'
  BY <1>5, ContactPlanAssumption DEF SetCurrentTime, contactVars, rangeVars
<1>6. ASSUME NEW reference \in RefTime, ChangeReferenceTime(reference) PROVE PlanInv'
  <2> DEFINE diff == reference - referenceTime
  <2>1. reference \in Nat /\ diff \in Int /\ currentTime - diff \in Int
    BY ContactPlanAssumption
  <2>2. /\ contacts' = Shift(contacts, diff) /\ ranges' = Shift(ranges, diff)
        /\ timeContactToRemove' = NextExpiry(Shift(contacts, diff))
        /\ timeRangeToRemove' = NextExpiry(Shift(ranges, diff))
        /\ currentTime' = currentTime - diff /\ referenceTime' = reference
        /\ \A e \in contacts \cup ranges : e.fromTime - diff >= 0
    BY <1>6 DEF ChangeReferenceTime
  <2> HIDE DEF diff
  <2> QED BY <2>1, <2>2, ShiftSound
<1>7. CASE UNCHANGED planVars
  BY <1>7 DEF planVars, contactVars, rangeVars, clockVars
<1> QED
  BY <1>1, <1>2, <1>3, <1>4, <1>5, <1>6, <1>7 DEF PlanNext

\* The intervals of a pair of nodes never overlap: the tests of add_contact_to_graph and
\* of the revise functions suffice, whatever the order of the calls.
THEOREM PlanDisjoint ==
  ASSUME Lapses = {}
  PROVE  PlanSpec => []NoOverlap
<1>1. PlanInv => NoOverlap
  BY DEF PlanInv, Sound, NoOverlap
<1> QED
  BY PlanInitInv, PlanStepInv, <1>1, PTL DEF PlanSpec

\* The sender, the receiver and the start time name one entry, which get_contact finds.
THEOREM PlanAddressable ==
  ASSUME Lapses = {}
  PROVE  PlanSpec => []Addressable
<1>1. PlanInv => Addressable
  BY SoundFound DEF PlanInv, Addressable
<1> QED
  BY PlanInitInv, PlanStepInv, <1>1, PTL DEF PlanSpec

\* timeContactToRemove and timeRangeToRemove never hide an expiry.
THEOREM PlanBounds ==
  ASSUME Lapses = {}
  PROVE  PlanSpec => []ExpiryBound
<1>1. PlanInv => ExpiryBound
  BY DEF PlanInv, Sound, Bounded, ExpiryBound
<1> QED
  BY PlanInitInv, PlanStepInv, <1>1, PTL DEF PlanSpec

\* What one tree is after removeExpiredContacts, skipped or not.
LEMMA SweepLeaves ==
  ASSUME NEW es, NEW bound, Sound(es, bound), NEW now \in Int, NEW left,
         \/ now >= bound /\ \E gone \in Victims(es, now) : left = es \ gone
         \/ ~ (now >= bound) /\ left = es
  PROVE  left = {e \in es : e.toTime > now}
<1>1. \A e \in es : e.toTime \in Int /\ bound \in Int /\ bound <= e.toTime
  BY DEF Sound, Bounded, Entry
<1>2. CASE now >= bound
  <2>1. left = es \ Expired(es, now)
    BY <1>2, VictimsExact
  <2> QED BY <1>1, <2>1 DEF Expired
<1>3. CASE ~ (now >= bound)
  BY <1>1, <1>3
<1> QED
  BY <1>2, <1>3

\* removeExpiredContacts and removeExpiredRanges remove what is over and nothing else.
THEOREM PlanSweepExact ==
  ASSUME Lapses = {}
  PROVE  PlanSpec => SweepExact
<1>1. ASSUME PlanInv, Sweep
      PROVE  /\ contacts' = {c \in contacts : c.toTime > currentTime}
             /\ ranges' = {r \in ranges : r.toTime > currentTime}
  <2> USE <1>1 DEF PlanInv
  <2>1. contacts' = {c \in contacts : c.toTime > currentTime}
    BY SweepLeaves DEF Sweep, RemoveExpiredContacts, contactVars
  <2>2. ranges' = {r \in ranges : r.toTime > currentTime}
    BY SweepLeaves DEF Sweep, RemoveExpiredRanges, rangeVars
  <2> QED BY <2>1, <2>2
<1>2. PlanInv /\ [PlanNext]_planVars
        => [Sweep => /\ contacts' = {c \in contacts : c.toTime > currentTime}
                     /\ ranges' = {r \in ranges : r.toTime > currentTime}]_planVars
  BY <1>1
<1> QED
  BY PlanInitInv, PlanStepInv, <1>2, PTL DEF PlanSpec, SweepExact

-----------------------------------------------------------------------------
(* ContactPlan implements AgentPlan *)

\* An entry in Unix time.
Dated(e, reference) ==
  [e EXCEPT !.fromTime = @ + reference, !.toTime = @ + reference]

LEMMA DatedFields ==
  ASSUME NEW e \in Entry, NEW r \in Int
  PROVE  /\ Dated(e, r) \in Entry
         /\ Dated(e, r).fromNode = e.fromNode /\ Dated(e, r).toNode = e.toNode
         /\ Dated(e, r).fromTime = e.fromTime + r /\ Dated(e, r).toTime = e.toTime + r
<1>1. e.fromTime + r \in Int /\ e.toTime + r \in Int
  BY DEF Entry
<1> QED
  BY <1>1 DEF Entry, Dated

LEMMA SameSum ==
  ASSUME NEW x \in Int, NEW y \in Int, NEW r \in Int, x + r = y + r
  PROVE  x = y
OBVIOUS

LEMMA DatedInjective ==
  ASSUME NEW a \in Entry, NEW b \in Entry, NEW r \in Int, Dated(a, r) = Dated(b, r)
  PROVE  a = b
<1>1. /\ a.fromNode = b.fromNode /\ a.toNode = b.toNode
      /\ a.fromTime = b.fromTime /\ a.toTime = b.toTime
  <2>1. /\ Dated(a, r).fromNode = a.fromNode /\ Dated(a, r).toNode = a.toNode
        /\ Dated(a, r).fromTime = a.fromTime + r /\ Dated(a, r).toTime = a.toTime + r
    BY DatedFields
  <2>2. /\ Dated(b, r).fromNode = b.fromNode /\ Dated(b, r).toNode = b.toNode
        /\ Dated(b, r).fromTime = b.fromTime + r /\ Dated(b, r).toTime = b.toTime + r
    BY DatedFields
  <2>3. /\ a.fromTime \in Int /\ a.toTime \in Int
        /\ b.fromTime \in Int /\ b.toTime \in Int
    BY DEF Entry
  <2>4. Dated(a, r) = Dated(b, r)
    OBVIOUS
  <2>5. a.fromTime + r = b.fromTime + r /\ a.toTime + r = b.toTime + r
    BY <2>1, <2>2, <2>4, Zenon
  <2>6. a.fromNode = b.fromNode /\ a.toNode = b.toNode
    BY <2>1, <2>2, <2>4, Zenon
  <2>7. a.fromTime = b.fromTime /\ a.toTime = b.toTime
    BY <2>3, <2>5, SameSum, Zenon
  <2> QED BY <2>6, <2>7, Zenon
<1> QED
  BY <1>1 DEF Entry

LEMMA UnixDated ==
  ASSUME NEW es, NEW r
  PROVE  Unix(es, r) = {Dated(e, r) : e \in es}
BY DEF Unix, Dated

LEMMA UnixAdd ==
  ASSUME NEW es, NEW new, NEW r
  PROVE  Unix(es \cup {new}, r) = Unix(es, r) \cup {Dated(new, r)}
BY UnixDated

LEMMA UnixRemove ==
  ASSUME NEW es \in SUBSET Entry, NEW e \in Entry, NEW r \in Int
  PROVE  Unix(es \ {e}, r) = Unix(es, r) \ {Dated(e, r)}
<1>1. Unix(es \ {e}, r) \subseteq Unix(es, r) \ {Dated(e, r)}
  BY UnixDated, DatedInjective
<1>2. Unix(es, r) \ {Dated(e, r)} \subseteq Unix(es \ {e}, r)
  BY UnixDated
<1> QED
  BY <1>1, <1>2

\* The entries that are over are the same ones in either time.
LEMMA UnixLeft ==
  ASSUME NEW es \in SUBSET Entry, NEW r \in Int, NEW now \in Int
  PROVE  Unix({e \in es : e.toTime > now}, r) = {d \in Unix(es, r) : d.toTime > now + r}
<1>1. ASSUME NEW e \in es
      PROVE  e.toTime > now <=> Dated(e, r).toTime > now + r
  <2>1. e \in Entry /\ e.toTime \in Int
    BY DEF Entry
  <2>2. Dated(e, r).toTime = e.toTime + r
    BY <2>1, DatedFields
  <2> QED BY <2>1, <2>2
<1>2. Unix({e \in es : e.toTime > now}, r) = {Dated(e, r) : e \in {x \in es : x.toTime > now}}
  BY UnixDated
<1>3. Unix(es, r) = {Dated(e, r) : e \in es}
  BY UnixDated
<1> QED
  BY <1>1, <1>2, <1>3

\* Moving the reference time leaves the plan in Unix time as it was.
LEMMA UnixShift ==
  ASSUME NEW es \in SUBSET Entry, NEW r \in Int, NEW r2 \in Int
  PROVE  Unix(Shift(es, r2 - r), r2) = Unix(es, r)
<1> DEFINE moved(e) == [e EXCEPT !.fromTime = @ - (r2 - r), !.toTime = @ - (r2 - r)]
<1>1. ASSUME NEW e \in es PROVE Dated(moved(e), r2) = Dated(e, r)
  <2>1. e \in Entry /\ e.fromTime - (r2 - r) \in Int /\ e.toTime - (r2 - r) \in Int
    BY DEF Entry
  <2>2. /\ moved(e) \in Entry
        /\ moved(e).fromNode = e.fromNode /\ moved(e).toNode = e.toNode
        /\ moved(e).fromTime = e.fromTime - (r2 - r)
        /\ moved(e).toTime = e.toTime - (r2 - r)
    BY <2>1 DEF Entry
  <2> HIDE DEF moved
  <2>3. /\ Dated(moved(e), r2) \in Entry /\ Dated(e, r) \in Entry
        /\ Dated(moved(e), r2).fromNode = Dated(e, r).fromNode
        /\ Dated(moved(e), r2).toNode = Dated(e, r).toNode
    BY <2>1, <2>2, DatedFields
  <2>4. /\ Dated(moved(e), r2).fromTime = moved(e).fromTime + r2
        /\ Dated(e, r).fromTime = e.fromTime + r
        /\ Dated(moved(e), r2).toTime = moved(e).toTime + r2
        /\ Dated(e, r).toTime = e.toTime + r
    BY <2>1, <2>2, DatedFields
  <2>5. /\ Dated(moved(e), r2).fromTime = Dated(e, r).fromTime
        /\ Dated(moved(e), r2).toTime = Dated(e, r).toTime
    BY <2>1, <2>2, <2>4 DEF Entry
  <2> QED BY <2>3, <2>5 DEF Entry
<1>2. Shift(es, r2 - r) = {moved(e) : e \in es}
  BY DEF Shift
<1> HIDE DEF moved
<1>3. Unix(Shift(es, r2 - r), r2) = {Dated(m, r2) : m \in {moved(e) : e \in es}}
  BY <1>2, UnixDated
<1>4. Unix(es, r) = {Dated(e, r) : e \in es}
  BY UnixDated
<1> QED
  BY <1>1, <1>3, <1>4

-----------------------------------------------------------------------------
(* One tree *)

\* An entry kept apart from the others fits the plan in Unix time.
LEMMA FitsUnix ==
  ASSUME NEW es \in SUBSET Entry, NEW new \in Entry, NEW r \in Int,
         new.fromTime < new.toTime,
         \A e \in es : SamePair(new, e) =>
            new.toTime <= e.fromTime \/ e.toTime <= new.fromTime
  PROVE  Agent!Fits(Unix(es, r), Dated(new, r))
<1>1. Dated(new, r).fromTime < Dated(new, r).toTime
  BY DatedFields DEF Entry
<1>2. ASSUME NEW e \in es PROVE Agent!Apart(Dated(new, r), Dated(e, r))
  <2>1. e \in Entry
    OBVIOUS
  <2>2. /\ Dated(new, r).fromNode = new.fromNode /\ Dated(new, r).toNode = new.toNode
        /\ Dated(new, r).fromTime = new.fromTime + r /\ Dated(new, r).toTime = new.toTime + r
        /\ Dated(e, r).fromNode = e.fromNode /\ Dated(e, r).toNode = e.toNode
        /\ Dated(e, r).fromTime = e.fromTime + r /\ Dated(e, r).toTime = e.toTime + r
    BY <2>1, DatedFields
  <2> QED BY <2>1, <2>2 DEF Agent!Apart, SamePair, Entry
<1> QED
  BY <1>1, <1>2, UnixDated DEF Agent!Fits

LEMMA InsertedUnix ==
  ASSUME NEW es \in SUBSET Entry, NEW new \in Entry, NEW r \in Int,
         new.fromTime < new.toTime,
         \A e \in es : SamePair(new, e) =>
            new.toTime <= e.fromTime \/ e.toTime <= new.fromTime
  PROVE  Agent!Inserted(Unix(es, r), Unix(es \cup {new}, r))
BY FitsUnix, UnixAdd DEF Agent!Inserted

LEMMA RemovedUnix ==
  ASSUME NEW es \in SUBSET Entry, NEW e \in es, NEW r \in Int
  PROVE  Agent!Removed(Unix(es, r), Unix(es \ {e}, r))
<1>1. e \in Entry
  OBVIOUS
<1>2. Unix(es \ {e}, r) = Unix(es, r) \ {Dated(e, r)}
  BY <1>1, UnixRemove
<1>3. Dated(e, r) \in Unix(es, r)
  BY UnixDated
<1> QED
  BY <1>2, <1>3 DEF Agent!Removed

LEMMA RevisedUnix ==
  ASSUME NEW es \in SUBSET Entry, NEW e \in es, NEW new \in Entry, NEW r \in Int,
         SamePair(new, e), new.fromTime < new.toTime,
         new.fromTime = e.fromTime \/ new.toTime = e.toTime,
         \A d \in es \ {e} : SamePair(d, e) =>
            new.toTime <= d.fromTime \/ d.toTime <= new.fromTime
  PROVE  Agent!Revised(Unix(es, r), Unix(Replace(es, e, new), r))
<1>1. e \in Entry /\ es \ {e} \in SUBSET Entry
  OBVIOUS
<1>2. Unix(Replace(es, e, new), r) = (Unix(es, r) \ {Dated(e, r)}) \cup {Dated(new, r)}
  <2>1. Unix(es \ {e}, r) = Unix(es, r) \ {Dated(e, r)}
    BY <1>1, UnixRemove
  <2>2. Unix((es \ {e}) \cup {new}, r) = Unix(es \ {e}, r) \cup {Dated(new, r)}
    BY UnixAdd
  <2> QED BY <2>1, <2>2 DEF Replace
<1>3. Dated(e, r) \in Unix(es, r) /\ Unix(es \ {e}, r) = Unix(es, r) \ {Dated(e, r)}
  BY <1>1, UnixDated, UnixRemove
<1>4. Agent!Fits(Unix(es \ {e}, r), Dated(new, r))
  <2>1. \A d \in es \ {e} : SamePair(new, d) =>
           new.toTime <= d.fromTime \/ d.toTime <= new.fromTime
    BY DEF SamePair
  <2> QED BY <1>1, <2>1, FitsUnix
<1>5. /\ Dated(new, r).fromNode = Dated(e, r).fromNode
      /\ Dated(new, r).toNode = Dated(e, r).toNode
      /\ \/ Dated(new, r).fromTime = Dated(e, r).fromTime
         \/ Dated(new, r).toTime = Dated(e, r).toTime
  BY <1>1, DatedFields DEF SamePair
<1> QED
  BY <1>2, <1>3, <1>4, <1>5 DEF Agent!Revised
-----------------------------------------------------------------------------
(* The whole plan *)

\* The contacts and the ranges after an operation, in Unix time.
LEMMA StepUpdate ==
  ASSUME Lapses = {}, PlanInv, PlanInv', ContactNext \/ RangeNext
  PROVE  Agent!UpdateContacts \/ Agent!UpdateRanges
<1> USE DEF PlanInv
<1>0. /\ contacts \in SUBSET Entry /\ ranges \in SUBSET Entry
      /\ referenceTime \in Int
  BY DEF Sound
<1>1. CASE ContactNext
  <2> PICK link \in ContactLink, start \in PlanTime, time \in PlanTime :
        \/ AddContact(link[1], link[2], start, time)
        \/ ChangeContactStart(link[1], link[2], start, time)
        \/ ChangeContactEnd(link[1], link[2], start, time)
        \/ RemoveContact(link[1], link[2], start)
    BY <1>1 DEF ContactNext
  <2> link[1] \in Node /\ link[2] \in Node
    BY ContactPlanAssumption
  <2> time - referenceTime \in Int
    BY OfferedEntry
  <2>1. UNCHANGED <<ranges, currentTime, referenceTime>>
    BY DEF AddContact, ChangeContactStart, ChangeContactEnd, RemoveContact,
           rangeVars, clockVars
  <2>2. CASE AddContact(link[1], link[2], start, time)
    <3> DEFINE new == Offered(link[1], link[2], start, time)
    <3>1. new \in Entry
      BY OfferedEntry
    <3> HIDE DEF new
    <3>2. /\ OfferAllowed(contacts, new) /\ Accepted(contacts, new)
          /\ contacts' = contacts \cup {new}
      BY <2>2 DEF AddContact, new
    <3>3. new.fromTime < new.toTime
      BY <3>1, <3>2 DEF OfferAllowed, Accepted, Entry
    <3>4. \A e \in contacts : SamePair(new, e) =>
             new.toTime <= e.fromTime \/ e.toTime <= new.fromTime
      BY <3>1, <3>2, <3>3, AddApart DEF OfferAllowed, Encloses
    <3>5. Agent!Inserted(Unix(contacts, referenceTime), Unix(contacts', referenceTime))
      BY <1>0, <3>1, <3>2, <3>3, <3>4, InsertedUnix
    <3> QED BY <2>1, <3>5 DEF Agent!UpdateContacts, Agent!Updated
  <2>3. CASE ChangeContactStart(link[1], link[2], start, time)
    <3> DEFINE s == time - referenceTime
    <3>1. PICK c \in contacts :
             /\ RevisionAllowed([c EXCEPT !.fromTime = s])
             /\ StartRevisable(contacts, c, [c EXCEPT !.fromTime = s].fromTime)
             /\ contacts' = Replace(contacts, c, [c EXCEPT !.fromTime = s])
      BY <2>3 DEF ChangeContactStart, Found
    <3>2. s \in Int /\ c \in Entry
      BY DEF Sound
    <3> HIDE DEF s
    <3>3. StartRevisable(contacts, c, s) /\ s < c.toTime
      BY <3>1, <3>2 DEF RevisionAllowed, StartRevisable, EndRevisable, Entry
    <3>4. /\ [c EXCEPT !.fromTime = s] \in Entry
          /\ SamePair([c EXCEPT !.fromTime = s], c)
          /\ [c EXCEPT !.fromTime = s].fromTime = s
          /\ [c EXCEPT !.fromTime = s].toTime = c.toTime
      BY <3>2 DEF Entry, SamePair
    <3>5. \A d \in contacts \ {c} : SamePair(d, c) =>
             c.toTime <= d.fromTime \/ d.toTime <= s
      BY <3>2, <3>3, StartRevisedApart
    <3>6. Agent!Revised(Unix(contacts, referenceTime), Unix(contacts', referenceTime))
      BY <1>0, <3>1, <3>3, <3>4, <3>5, RevisedUnix
    <3> QED BY <2>1, <3>6 DEF Agent!UpdateContacts, Agent!Updated
  <2>4. CASE ChangeContactEnd(link[1], link[2], start, time)
    <3> DEFINE e == time - referenceTime
    <3>1. PICK c \in contacts :
             /\ RevisionAllowed([c EXCEPT !.toTime = e])
             /\ EndRevisable(contacts, c, [c EXCEPT !.toTime = e].toTime)
             /\ contacts' = Replace(contacts, c, [c EXCEPT !.toTime = e])
      BY <2>4 DEF ChangeContactEnd, Found
    <3>2. e \in Int /\ c \in Entry
      BY DEF Sound
    <3> HIDE DEF e
    <3>3. EndRevisable(contacts, c, e) /\ c.fromTime < e
      BY <3>1, <3>2 DEF RevisionAllowed, StartRevisable, EndRevisable, Entry
    <3>4. /\ [c EXCEPT !.toTime = e] \in Entry
          /\ SamePair([c EXCEPT !.toTime = e], c)
          /\ [c EXCEPT !.toTime = e].fromTime = c.fromTime
          /\ [c EXCEPT !.toTime = e].toTime = e
      BY <3>2 DEF Entry, SamePair
    <3>5. \A d \in contacts \ {c} : SamePair(d, c) =>
             e <= d.fromTime \/ d.toTime <= c.fromTime
      BY <3>2, <3>3, EndRevisedApart
    <3>6. Agent!Revised(Unix(contacts, referenceTime), Unix(contacts', referenceTime))
      BY <1>0, <3>1, <3>3, <3>4, <3>5, RevisedUnix
    <3> QED BY <2>1, <3>6 DEF Agent!UpdateContacts, Agent!Updated
  <2>5. CASE RemoveContact(link[1], link[2], start)
    <3>1. PICK c \in contacts : contacts' = contacts \ {c}
      BY <2>5 DEF RemoveContact
    <3>2. Agent!Removed(Unix(contacts, referenceTime), Unix(contacts', referenceTime))
      BY <1>0, <3>1, RemovedUnix
    <3> QED BY <2>1, <3>2 DEF Agent!UpdateContacts, Agent!Updated
  <2> QED BY <2>2, <2>3, <2>4, <2>5
<1>2. CASE RangeNext
  <2> PICK link \in RangeLink, start \in PlanTime, time \in PlanTime :
        \/ AddRange(link[1], link[2], start, time)
        \/ ChangeRangeStart(link[1], link[2], start, time)
        \/ ChangeRangeEnd(link[1], link[2], start, time)
        \/ RemoveRange(link[1], link[2], start)
    BY <1>2 DEF RangeNext
  <2> link[1] \in Node /\ link[2] \in Node
    BY ContactPlanAssumption
  <2> time - referenceTime \in Int
    BY OfferedEntry
  <2>1. UNCHANGED <<contacts, currentTime, referenceTime>>
    BY DEF AddRange, ChangeRangeStart, ChangeRangeEnd, RemoveRange,
           contactVars, clockVars
  <2>2. CASE AddRange(link[1], link[2], start, time)
    <3> DEFINE offered == Offered(link[1], link[2], start, time)
               new == [offered EXCEPT !.toTime = RangeEnd(@)]
    <3>1. offered \in Entry /\ RangeEnd(offered.toTime) \in Int
      BY OfferedEntry
    <3>2. /\ OfferAllowed(ranges, new) /\ Accepted(ranges, new)
          /\ ranges' = ranges \cup {new}
      BY <2>2 DEF AddRange
    <3> HIDE DEF offered
    <3>3. new \in Entry
      BY <3>1 DEF Entry
    <3> HIDE DEF new
    <3>4. new.fromTime < new.toTime
      BY <3>2, <3>3 DEF OfferAllowed, Accepted, Entry
    <3>5. \A e \in ranges : SamePair(new, e) =>
             new.toTime <= e.fromTime \/ e.toTime <= new.fromTime
      BY <3>2, <3>3, <3>4, AddApart DEF OfferAllowed, Encloses
    <3>6. Agent!Inserted(Unix(ranges, referenceTime), Unix(ranges', referenceTime))
      BY <1>0, <3>2, <3>3, <3>4, <3>5, InsertedUnix
    <3> QED BY <2>1, <3>6 DEF Agent!UpdateRanges, Agent!Updated
  <2>3. CASE ChangeRangeStart(link[1], link[2], start, time)
    <3> DEFINE s == time - referenceTime
    <3>1. PICK x \in ranges :
             /\ RevisionAllowed([x EXCEPT !.fromTime = s])
             /\ StartRevisable(ranges, x, [x EXCEPT !.fromTime = s].fromTime)
             /\ ranges' = Replace(ranges, x, [x EXCEPT !.fromTime = s])
      BY <2>3 DEF ChangeRangeStart, Found
    <3>2. s \in Int /\ x \in Entry
      BY DEF Sound
    <3> HIDE DEF s
    <3>3. StartRevisable(ranges, x, s) /\ s < x.toTime
      BY <3>1, <3>2 DEF RevisionAllowed, StartRevisable, EndRevisable, Entry
    <3>4. /\ [x EXCEPT !.fromTime = s] \in Entry
          /\ SamePair([x EXCEPT !.fromTime = s], x)
          /\ [x EXCEPT !.fromTime = s].fromTime = s
          /\ [x EXCEPT !.fromTime = s].toTime = x.toTime
      BY <3>2 DEF Entry, SamePair
    <3>5. \A d \in ranges \ {x} : SamePair(d, x) =>
             x.toTime <= d.fromTime \/ d.toTime <= s
      BY <3>2, <3>3, StartRevisedApart
    <3>6. Agent!Revised(Unix(ranges, referenceTime), Unix(ranges', referenceTime))
      BY <1>0, <3>1, <3>3, <3>4, <3>5, RevisedUnix
    <3> QED BY <2>1, <3>6 DEF Agent!UpdateRanges, Agent!Updated
  <2>4. CASE ChangeRangeEnd(link[1], link[2], start, time)
    <3> DEFINE e == time - referenceTime
    <3>1. PICK x \in ranges :
             /\ RevisionAllowed([x EXCEPT !.toTime = e])
             /\ EndRevisable(ranges, x, [x EXCEPT !.toTime = e].toTime)
             /\ ranges' = Replace(ranges, x, [x EXCEPT !.toTime = e])
      BY <2>4 DEF ChangeRangeEnd, Found
    <3>2. e \in Int /\ x \in Entry
      BY DEF Sound
    <3> HIDE DEF e
    <3>3. EndRevisable(ranges, x, e) /\ x.fromTime < e
      BY <3>1, <3>2 DEF RevisionAllowed, StartRevisable, EndRevisable, Entry
    <3>4. /\ [x EXCEPT !.toTime = e] \in Entry
          /\ SamePair([x EXCEPT !.toTime = e], x)
          /\ [x EXCEPT !.toTime = e].fromTime = x.fromTime
          /\ [x EXCEPT !.toTime = e].toTime = e
      BY <3>2 DEF Entry, SamePair
    <3>5. \A d \in ranges \ {x} : SamePair(d, x) =>
             e <= d.fromTime \/ d.toTime <= x.fromTime
      BY <3>2, <3>3, EndRevisedApart
    <3>6. Agent!Revised(Unix(ranges, referenceTime), Unix(ranges', referenceTime))
      BY <1>0, <3>1, <3>3, <3>4, <3>5, RevisedUnix
    <3> QED BY <2>1, <3>6 DEF Agent!UpdateRanges, Agent!Updated
  <2>5. CASE RemoveRange(link[1], link[2], start)
    <3>1. PICK x \in ranges : ranges' = ranges \ {x}
      BY <2>5 DEF RemoveRange
    <3>2. Agent!Removed(Unix(ranges, referenceTime), Unix(ranges', referenceTime))
      BY <1>0, <3>1, RemovedUnix
    <3> QED BY <2>1, <3>2 DEF Agent!UpdateRanges, Agent!Updated
  <2> QED BY <2>2, <2>3, <2>4, <2>5
<1> QED
  BY <1>1, <1>2

LEMMA PlanStepAgent ==
  ASSUME Lapses = {}, PlanInv, PlanInv', [PlanNext]_planVars
  PROVE  [Agent!Next]_(Agent!vars)
<1> USE DEF PlanInv
<1>0. /\ contacts \in SUBSET Entry /\ ranges \in SUBSET Entry
      /\ referenceTime \in Int /\ currentTime \in Int /\ referenceTime' \in Int
      /\ currentTime' \in Int
  BY DEF Sound
<1>1. CASE ContactNext \/ RangeNext
  BY <1>1, StepUpdate DEF Agent!Next
<1>2. CASE ResetPlan
  <2>1. Unix({}, referenceTime) = {}
    BY UnixDated
  <2>2. Agent!Reset
    BY <1>2, <2>1 DEF ResetPlan, clockVars, Agent!Reset
  <2> QED BY <2>2 DEF Agent!Next
<1>3. CASE Sweep
  <2>1. contacts' = {c \in contacts : c.toTime > currentTime}
    BY <1>3, SweepLeaves DEF Sweep, RemoveExpiredContacts, contactVars
  <2>2. ranges' = {x \in ranges : x.toTime > currentTime}
    BY <1>3, SweepLeaves DEF Sweep, RemoveExpiredRanges, rangeVars
  <2>3. UNCHANGED <<currentTime, referenceTime>>
    BY <1>3 DEF Sweep, clockVars
  <2>4. Agent!Expire
    <3>1. Unix(contacts', referenceTime') =
            {d \in Unix(contacts, referenceTime) : d.toTime > currentTime + referenceTime}
      BY <1>0, <2>1, <2>3, UnixLeft, Zenon
    <3>2. Unix(ranges', referenceTime') =
            {d \in Unix(ranges, referenceTime) : d.toTime > currentTime + referenceTime}
      BY <1>0, <2>2, <2>3, UnixLeft, Zenon
    <3> QED BY <2>3, <3>1, <3>2 DEF Agent!Expire
  <2> QED BY <2>4 DEF Agent!Next
<1>4. ASSUME NEW time \in ClockTime, SetCurrentTime(time)
      PROVE  [Agent!Next]_(Agent!vars)
  <2>1. UNCHANGED <<contacts, ranges, referenceTime>> /\ (currentTime + referenceTime)' \in Int
    BY <1>0, <1>4 DEF SetCurrentTime, contactVars, rangeVars
  <2>2. Agent!Tell
    BY <2>1 DEF Agent!Tell
  <2> QED BY <2>2 DEF Agent!Next
<1>5. ASSUME NEW reference \in RefTime, ChangeReferenceTime(reference)
      PROVE  [Agent!Next]_(Agent!vars)
  <2>1. /\ contacts' = Shift(contacts, reference - referenceTime)
        /\ ranges' = Shift(ranges, reference - referenceTime)
        /\ currentTime' = currentTime - (reference - referenceTime)
        /\ referenceTime' = reference
    BY <1>5 DEF ChangeReferenceTime
  <2>2. /\ Unix(contacts', referenceTime') = Unix(contacts, referenceTime)
        /\ Unix(ranges', referenceTime') = Unix(ranges, referenceTime)
    BY <1>0, <2>1, UnixShift
  <2>3. currentTime' + referenceTime' = currentTime + referenceTime
    BY <1>0, <2>1
  <2> QED BY <2>2, <2>3 DEF Agent!vars
<1>6. CASE UNCHANGED planVars
  BY <1>6 DEF planVars, contactVars, rangeVars, clockVars, Agent!vars
<1> QED
  BY <1>1, <1>2, <1>3, <1>4, <1>5, <1>6 DEF PlanNext

\* The plan of UniboCGR.c is the plan UniboCGR.h promises.
THEOREM PlanImplementsAgentPlan ==
  ASSUME Lapses = {}
  PROVE  PlanSpec => AgentView
<1>1. PlanInit => Agent!Init
  <2>1. Unix({}, referenceTime) = {}
    BY UnixDated
  <2> QED BY <2>1, ContactPlanAssumption DEF PlanInit, Agent!Init
<1>2. PlanInv /\ PlanInv' /\ [PlanNext]_planVars => [Agent!Next]_(Agent!vars)
  BY PlanStepAgent
<1> QED
  BY PlanInitInv, PlanStepInv, <1>1, <1>2, PTL DEF PlanSpec, AgentView, Agent!Spec

-----------------------------------------------------------------------------
(* The sessions: the types of what they keep *)

\* The neighbors have finitely many ends, none of them before the origin of time.
NeighborsTyped(nbs) ==
  /\ IsFiniteSet(DOMAIN nbs) /\ DOMAIN nbs \subseteq Node
  /\ nbs \in [DOMAIN nbs -> Nat]

\* The routes start at the local node and pass by entries of es.
RoutesOn(rs, es) ==
  \A r \in rs :
    /\ r \in Route /\ r.hops # <<>> /\ r.hops[1].fromNode = LocalNode
    /\ \A i \in DOMAIN r.hops : r.hops[i] \in es

\* What is inductive of the types, whatever the agent does.
UniboTyped ==
  /\ PlanTyped
  /\ session \in Session /\ mustClearRoutingObjects \in BOOLEAN
  /\ NeighborsTyped(neighbors) /\ timeNeighborToRemove \in Int
  /\ RoutesOn(routes, contacts)

-----------------------------------------------------------------------------
(* The plan changes as in ContactPlan *)

LEMMA UniboPlanStep == [Next]_vars => [PlanNext]_planVars
<1> SUFFICES ASSUME [Next]_vars PROVE [PlanNext]_planVars
  OBVIOUS
<1>1. ASSUME NEW s \in Session \ {"none"}, NEW time \in ClockTime, Open(s, time)
      PROVE  PlanNext
  BY <1>1 DEF Open, PlanNext
<1>2. CASE ChangePlan
  BY <1>2 DEF ChangePlan, PlanNext
<1>3. CASE Reset
  BY <1>3 DEF Reset, PlanNext
<1>4. ASSUME NEW reference \in RefTime, ChangeReference(reference) PROVE PlanNext
  BY <1>4 DEF ChangeReference, PlanNext
<1>5. ASSUME NEW dest \in Destination, Routing(dest) PROVE PlanNext
  BY <1>5 DEF Routing, PlanNext
<1>6. CASE Close \/ ContactPlanClose \/ TouchPlan \/ ChangeFeature
  BY <1>6 DEF Close, ContactPlanClose, TouchPlan, ChangeFeature
<1>7. CASE UNCHANGED vars
  BY <1>7 DEF vars
<1> QED
  BY <1>1, <1>2, <1>3, <1>4, <1>5, <1>6, <1>7 DEF Next

\* A call changes one entry: it adds it, revises it in place or removes it.
LEMMA ContactChange ==
  ASSUME ContactNext
  PROVE  \/ \E new : contacts' = contacts \cup {new}
         \/ \E c \in contacts : \E new :
              contacts' = Replace(contacts, c, new) /\ new.fromNode = c.fromNode
         \/ \E c \in contacts : contacts' = contacts \ {c}
<1> PICK link \in ContactLink, start \in PlanTime, time \in PlanTime :
      \/ AddContact(link[1], link[2], start, time)
      \/ ChangeContactStart(link[1], link[2], start, time)
      \/ ChangeContactEnd(link[1], link[2], start, time)
      \/ RemoveContact(link[1], link[2], start)
  BY DEF ContactNext
<1>1. CASE AddContact(link[1], link[2], start, time)
  BY <1>1 DEF AddContact
<1>2. CASE ChangeContactStart(link[1], link[2], start, time)
  <2>1. PICK c \in contacts :
          contacts' = Replace(contacts, c, [c EXCEPT !.fromTime = time - referenceTime])
    BY <1>2 DEF ChangeContactStart, Found
  <2>2. [c EXCEPT !.fromTime = time - referenceTime].fromNode = c.fromNode
    OBVIOUS
  <2> QED BY <2>1, <2>2
<1>3. CASE ChangeContactEnd(link[1], link[2], start, time)
  <2>1. PICK c \in contacts :
          contacts' = Replace(contacts, c, [c EXCEPT !.toTime = time - referenceTime])
    BY <1>3 DEF ChangeContactEnd, Found
  <2>2. [c EXCEPT !.toTime = time - referenceTime].fromNode = c.fromNode
    OBVIOUS
  <2> QED BY <2>1, <2>2
<1>4. CASE RemoveContact(link[1], link[2], start)
  BY <1>4 DEF RemoveContact
<1> QED
  BY <1>1, <1>2, <1>3, <1>4

LEMMA RangeChange ==
  ASSUME RangeNext
  PROVE  contacts' = contacts
<1> PICK link \in RangeLink, start \in PlanTime, time \in PlanTime :
      \/ AddRange(link[1], link[2], start, time)
      \/ ChangeRangeStart(link[1], link[2], start, time)
      \/ ChangeRangeEnd(link[1], link[2], start, time)
      \/ RemoveRange(link[1], link[2], start)
  BY DEF RangeNext
<1> QED
  BY DEF AddRange, ChangeRangeStart, ChangeRangeEnd, RemoveRange, contactVars

LEMMA CallsKeepClock ==
  ASSUME ContactNext \/ RangeNext
  PROVE  referenceTime' = referenceTime
<1>1. CASE ContactNext
  <2> PICK link \in ContactLink, start \in PlanTime, time \in PlanTime :
        \/ AddContact(link[1], link[2], start, time)
        \/ ChangeContactStart(link[1], link[2], start, time)
        \/ ChangeContactEnd(link[1], link[2], start, time)
        \/ RemoveContact(link[1], link[2], start)
    BY <1>1 DEF ContactNext
  <2> QED
    BY DEF AddContact, ChangeContactStart, ChangeContactEnd, RemoveContact, clockVars
<1>2. CASE RangeNext
  <2> PICK link \in RangeLink, start \in PlanTime, time \in PlanTime :
        \/ AddRange(link[1], link[2], start, time)
        \/ ChangeRangeStart(link[1], link[2], start, time)
        \/ ChangeRangeEnd(link[1], link[2], start, time)
        \/ RemoveRange(link[1], link[2], start)
    BY <1>2 DEF RangeNext
  <2> QED
    BY DEF AddRange, ChangeRangeStart, ChangeRangeEnd, RemoveRange, clockVars
<1> QED
  BY <1>1, <1>2

-----------------------------------------------------------------------------
(* The neighbors *)

\* What build_local_node_neighbors_list makes of a contacts graph.
LEMMA NeighborListsTyped ==
  ASSUME NEW es \in SUBSET Entry, IsFiniteSet(es), NEW nbs \in NeighborLists(es)
  PROVE  /\ NeighborsTyped(nbs)
         /\ \A n \in DOMAIN nbs : nbs[n] \in LastEnd(es, n)
         /\ DOMAIN nbs \subseteq {e.toNode : e \in {d \in es : d.fromNode = LocalNode}}
<1> DEFINE ours == {d \in es : d.fromNode = LocalNode}
           reached == {e.toNode : e \in ours}
           ends == [n \in reached |-> LastEnd(es, n)]
           Kept(f) == [n \in {m \in reached : f[m] >= 0} |-> f[n]]
<1>1. PICK g \in [reached -> UNION Range(ends)] :
        nbs = Kept(g) /\ \A n \in reached : g[n] \in ends[n]
  BY DEF NeighborLists
<1>2. \A n \in reached : g[n] \in LastEnd(es, n) /\ g[n] \in Int
  <2>1. ASSUME NEW n \in reached PROVE g[n] \in LastEnd(es, n)
    BY <1>1
  <2>2. ASSUME NEW n \in reached PROVE LastEnd(es, n) \subseteq Int
    BY DEF LastEnd, Entry
  <2> QED BY <2>1, <2>2
<1>3. reached \subseteq Node /\ IsFiniteSet(reached)
  <2> DEFINE to == [e \in ours |-> e.toNode]
  <2>1. ours \subseteq es /\ reached = {to[e] : e \in ours}
    OBVIOUS
  <2>2. IsFiniteSet(ours)
    <3> HIDE DEF ours
    <3> QED BY <2>1, FS_Subset
  <2>3. DOMAIN to = ours /\ to = [e \in ours |-> to[e]]
    OBVIOUS
  <2>4. IsFiniteSet(reached)
    <3> HIDE DEF to, ours, reached
    <3> QED BY <2>1, <2>2, <2>3, FiniteImage
  <2> QED BY <2>4 DEF Entry
<1>4. DOMAIN nbs = {m \in reached : g[m] >= 0} /\ nbs = [n \in DOMAIN nbs |-> g[n]]
  BY <1>1
<1> HIDE DEF reached, ends, ours
<1>5. IsFiniteSet(DOMAIN nbs)
  <2>1. DOMAIN nbs \subseteq reached
    BY <1>4
  <2> QED BY <1>3, <2>1, FS_Subset
<1> QED
  BY <1>2, <1>3, <1>4, <1>5 DEF NeighborsTyped, reached, ours

\* timeNeighborToRemove is never after the end of a neighbor.
LEMMA NextNeighborExpiryBound ==
  ASSUME NEW nbs, NeighborsTyped(nbs)
  PROVE  /\ NextNeighborExpiry(nbs) \in Int
         /\ \A n \in DOMAIN nbs : NextNeighborExpiry(nbs) <= nbs[n]
<1> DEFINE all == {MaxPosixTime} \cup Range(nbs)
<1>1. IsFiniteSet(Range(nbs))
  <2>1. nbs = [n \in DOMAIN nbs |-> nbs[n]] /\ Range(nbs) = {nbs[n] : n \in DOMAIN nbs}
    BY DEF NeighborsTyped, Range
  <2> QED BY <2>1, FiniteImage DEF NeighborsTyped
<1>2. IsFiniteSet(all) /\ all # {} /\ all \in SUBSET Int
  <2>1. IsFiniteSet(all)
    BY <1>1, FS_Singleton, FS_Union
  <2>2. Range(nbs) \subseteq Nat
    BY DEF NeighborsTyped, Range
  <2> QED BY <2>1, <2>2, TimetableAssumption
<1>3. \A n \in DOMAIN nbs : nbs[n] \in all
  BY DEF Range
<1>4. NextNeighborExpiry(nbs) = Min(all)
  BY DEF NextNeighborExpiry
<1> HIDE DEF all
<1> QED
  <2>1. Min(all) \in all /\ \A n \in all : Min(all) <= n
    BY <1>2, MinFinite
  <2> QED BY <1>2, <1>3, <1>4, <2>1

LEMMA StillNeighborsTyped ==
  ASSUME NEW nbs, NeighborsTyped(nbs), NEW bound
  PROVE  NeighborsTyped(StillNeighbors(nbs, bound))
<1> DEFINE still == {m \in DOMAIN nbs : nbs[m] > currentTime}
<1>1. IsFiniteSet(still)
  <2>1. still \subseteq DOMAIN nbs
    OBVIOUS
  <2> HIDE DEF still
  <2> QED BY <2>1, FS_Subset DEF NeighborsTyped
<1> QED
  BY <1>1 DEF StillNeighbors, NeighborsTyped

LEMMA NoNeighborsTyped == NeighborsTyped(NoNeighbors)
BY FS_EmptySet DEF NeighborsTyped, NoNeighbors

-----------------------------------------------------------------------------
(* The routes *)

\* free_contact and the revisions in place leave no route with a contact that is gone.
LEMMA FollowedOn ==
  ASSUME NEW es \in SUBSET Entry, NEW left \in SUBSET Entry, RoutesOn(routes, es),
         \/ \E new : left = es \cup {new}
         \/ \E c \in es : \E new : left = Replace(es, c, new) /\ new.fromNode = c.fromNode
         \/ left \subseteq es
  PROVE  RoutesOn(Followed(es \ left, left \ es), left)
<1> DEFINE lost == es \ left
           gained == left \ es
           Now(e) == IF e \in lost THEN CHOOSE new \in gained : TRUE ELSE e
<1>1. CASE gained = {}
  <2>1. Followed(lost, gained) = {r \in routes : \A e \in lost : ~ Uses(r, e)}
    BY <1>1 DEF Followed
  <2>2. ASSUME NEW r \in routes, \A e \in lost : ~ Uses(r, e), NEW i \in DOMAIN r.hops
        PROVE  r.hops[i] \in left
    BY <2>2 DEF Uses, RoutesOn
  <2> QED BY <2>1, <2>2 DEF RoutesOn
<1>2. CASE gained # {}
  <2>1. ASSUME NEW e \in es PROVE Now(e) \in left /\ Now(e).fromNode = e.fromNode
    <3>1. CASE e \notin lost
      BY <3>1
    <3>2. CASE e \in lost
      <4>0. PICK c \in es : \E new : left = Replace(es, c, new) /\ new.fromNode = c.fromNode
        BY <1>2, <3>2
      <4>1. PICK new : left = Replace(es, c, new) /\ new.fromNode = c.fromNode
        BY <4>0
      <4>2. lost \subseteq {c} /\ gained \subseteq {new}
        BY <4>1 DEF Replace
      <4>3. Now(e) = new /\ e = c
        <5>1. gained = {new}
          BY <1>2, <4>2
        <5>2. (CHOOSE x \in gained : TRUE) \in gained
          BY <5>1
        <5> QED BY <3>2, <4>2, <5>1, <5>2
      <4>4. new \in left
        BY <4>1 DEF Replace
      <4> HIDE DEF Now
      <4> QED BY <4>1, <4>3, <4>4
    <3> QED BY <3>1, <3>2
  <2>2. Followed(lost, gained)
          = {[r EXCEPT !.hops = [i \in DOMAIN r.hops |-> Now(r.hops[i])]] : r \in routes}
    BY <1>2 DEF Followed
  <2> HIDE DEF Now
  <2>3. ASSUME NEW r \in routes
        PROVE  LET s == [r EXCEPT !.hops = [i \in DOMAIN r.hops |-> Now(r.hops[i])]]
               IN  /\ s \in Route /\ s.hops # <<>> /\ s.hops[1].fromNode = LocalNode
                   /\ \A i \in DOMAIN s.hops : s.hops[i] \in left
    <3> DEFINE hops == [i \in DOMAIN r.hops |-> Now(r.hops[i])]
               s == [r EXCEPT !.hops = hops]
    <3>1. /\ r \in Route /\ r.hops # <<>> /\ r.hops[1].fromNode = LocalNode
          /\ \A i \in DOMAIN r.hops : r.hops[i] \in es
      BY DEF RoutesOn
    <3>2. r.hops \in Seq(Entry) /\ r.toTime \in Int
      BY <3>1 DEF Route
    <3>3. Len(r.hops) \in Nat /\ DOMAIN r.hops = 1 .. Len(r.hops) /\ 1 \in DOMAIN r.hops
      BY <3>1, <3>2
    <3>4. \A i \in DOMAIN r.hops : hops[i] \in left
      BY <2>1, <3>1
    <3>5. hops \in Seq(Entry) /\ hops # <<>> /\ DOMAIN hops = DOMAIN r.hops
      <4>1. hops \in [1 .. Len(r.hops) -> Entry]
        BY <3>3, <3>4
      <4>2. hops # <<>>
        BY <3>3
      <4> QED BY <3>3, <4>1, <4>2
    <3>6. hops[1].fromNode = LocalNode
      BY <2>1, <3>1, <3>3
    <3>7. s.hops = hops /\ s \in Route
      <4> HIDE DEF hops
      <4> QED BY <3>1, <3>2, <3>5 DEF Route
    <3> HIDE DEF hops
    <3> QED BY <3>4, <3>5, <3>6, <3>7 DEF s, hops
  <2> QED BY <2>2, <2>3 DEF RoutesOn
<1> QED
  BY <1>1, <1>2

\* A route that is found starts at the local node, passes by contacts, and ends with the
\* first of them.
LEMMA NewRoutesOn ==
  ASSUME NEW es \in SUBSET Entry, NEW dest, NEW r \in NewRoutes(es, dest)
  PROVE  /\ Travelable(r.hops) /\ r.toTime = Min({r.hops[i].toTime : i \in DOMAIN r.hops})
         /\ RoutesOn({r}, es)
<1>1. PICK p \in SeqOf(es, Cardinality(Node) - 1) :
        /\ p # <<>> /\ Travelable(p)
        /\ r = [hops |-> p, toTime |-> Min({p[i].toTime : i \in DOMAIN p})]
  BY DEF NewRoutes
<1>2. PICK m \in 0 .. Cardinality(Node) - 1 : p \in [1 .. m -> es]
  BY <1>1 DEF SeqOf
<1>3. m \in Nat /\ p \in Seq(Entry) /\ DOMAIN p = 1 .. m /\ \A i \in DOMAIN p : p[i] \in es
  BY <1>2
<1>4. 1 \in DOMAIN p
  BY <1>1, <1>3
<1>5. Min({p[i].toTime : i \in DOMAIN p}) \in Int
  <2> DEFINE end == [i \in DOMAIN p |-> p[i].toTime]
             ends == {end[i] : i \in DOMAIN p}
  <2>1. ends \in SUBSET Int /\ ends # {} /\ ends = {p[i].toTime : i \in DOMAIN p}
    BY <1>3, <1>4 DEF Entry
  <2>2. IsFiniteSet(ends)
    <3>1. IsFiniteSet(DOMAIN p)
      BY <1>3, FS_Interval
    <3>2. DOMAIN end = DOMAIN p /\ end = [i \in DOMAIN p |-> end[i]]
      OBVIOUS
    <3> HIDE DEF end
    <3> QED BY <3>1, <3>2, FiniteImage
  <2> HIDE DEF ends
  <2> QED BY <2>1, <2>2, MinFinite
<1>6. r.hops = p /\ r.toTime = Min({p[i].toTime : i \in DOMAIN p}) /\ r \in Route
  BY <1>1, <1>3, <1>5 DEF Route
<1>7. p[1].fromNode = LocalNode
  BY <1>1 DEF Travelable
<1> QED
  BY <1>1, <1>3, <1>6, <1>7 DEF RoutesOn

-----------------------------------------------------------------------------
(* Types *)

LEMMA UniboInitTyped == Init => UniboTyped
BY PlanInitTyped, NoNeighborsTyped DEF Init, UniboTyped, Session, RoutesOn

\* An update leaves new neighbors and no routes.
LEMMA RebuildTyped ==
  ASSUME UniboTyped, Rebuild
  PROVE  /\ NeighborsTyped(neighbors') /\ timeNeighborToRemove' \in Int
         /\ routes' = {} /\ mustClearRoutingObjects' = FALSE
BY NeighborListsTyped, NextNeighborExpiryBound DEF Rebuild, UniboTyped, PlanTyped, Typed

LEMMA ChangePlanTyped ==
  ASSUME UniboTyped, PlanTyped', ChangePlan
  PROVE  UniboTyped'
<1>1. RoutesOn(routes', contacts')
  <2>1. \/ \E new : contacts' = contacts \cup {new}
        \/ \E c \in contacts : \E new :
             contacts' = Replace(contacts, c, new) /\ new.fromNode = c.fromNode
        \/ contacts' \subseteq contacts
    BY ContactChange, RangeChange DEF ChangePlan
  <2>2. routes' = Followed(contacts \ contacts', contacts' \ contacts)
    BY DEF ChangePlan, RoutesFollowContacts
  <2>3. contacts \in SUBSET Entry /\ contacts' \in SUBSET Entry /\ RoutesOn(routes, contacts)
    BY DEF UniboTyped, PlanTyped, Typed
  <2> QED BY <2>1, <2>2, <2>3, FollowedOn
<1>2. mustClearRoutingObjects' \in BOOLEAN
  BY DEF ChangePlan, UniboTyped
<1>3. UNCHANGED <<session, neighbors, timeNeighborToRemove>>
  BY DEF ChangePlan, neighborVars
<1> QED
  BY <1>1, <1>2, <1>3 DEF UniboTyped

\* What a sweep leaves.
LEMMA SweepShrinks ==
  ASSUME Sweep
  PROVE  contacts' \subseteq contacts
BY DEF Sweep, RemoveExpiredContacts, contactVars

LEMMA RoutingTyped ==
  ASSUME UniboTyped, PlanTyped', NEW dest, Routing(dest)
  PROVE  UniboTyped'
<1>1. contacts' \subseteq contacts /\ contacts \in SUBSET Entry /\ contacts' \in SUBSET Entry
      /\ IsFiniteSet(contacts)
  BY SweepShrinks DEF Routing, UniboTyped, PlanTyped, Typed
<1>2. NeighborsTyped(neighbors') /\ timeNeighborToRemove' \in Int
  <2>1. PICK built \in IF mustClearRoutingObjects THEN NeighborLists(contacts) ELSE {neighbors} :
          LET bound == IF mustClearRoutingObjects THEN NextNeighborExpiry(built)
                       ELSE timeNeighborToRemove
          IN  /\ neighbors' = StillNeighbors(built, bound)
              /\ timeNeighborToRemove' =
                   IF currentTime >= bound THEN NextNeighborExpiry(neighbors') ELSE bound
    BY DEF Routing
  <2>2. NeighborsTyped(built)
    BY <1>1, <2>1, NeighborListsTyped DEF UniboTyped
  <2> DEFINE bound == IF mustClearRoutingObjects THEN NextNeighborExpiry(built)
                      ELSE timeNeighborToRemove
  <2>3. bound \in Int
    BY <2>2, NextNeighborExpiryBound DEF UniboTyped
  <2>4. NeighborsTyped(neighbors')
    BY <2>1, <2>2, StillNeighborsTyped
  <2>5. NextNeighborExpiry(neighbors') \in Int
    BY <2>4, NextNeighborExpiryBound
  <2> QED BY <2>1, <2>3, <2>4, <2>5
<1>3. RoutesOn(routes', contacts')
  <2>1. PICK found \in SUBSET NewRoutes(contacts', dest) :
          routes' = found \cup (IF mustClearRoutingObjects THEN {}
                                ELSE Followed(contacts \ contacts', {}))
    BY DEF Routing
  <2>2. RoutesOn(found, contacts')
    BY <1>1, NewRoutesOn DEF RoutesOn
  <2>3. RoutesOn(Followed(contacts \ contacts', {}), contacts')
    <3>1. contacts' \ contacts = {} /\ RoutesOn(routes, contacts)
      BY <1>1 DEF UniboTyped
    <3>2. RoutesOn(Followed(contacts \ contacts', contacts' \ contacts), contacts')
      BY <1>1, <3>1, FollowedOn
    <3> QED BY <3>1, <3>2
  <2> QED BY <2>1, <2>2, <2>3 DEF RoutesOn
<1>4. UNCHANGED session /\ mustClearRoutingObjects' = FALSE
  BY DEF Routing
<1> QED
  BY <1>2, <1>3, <1>4 DEF UniboTyped

LEMMA UniboStepTyped == UniboTyped /\ [Next]_vars => UniboTyped'
<1> SUFFICES ASSUME UniboTyped, [Next]_vars PROVE UniboTyped'
  OBVIOUS
<1> PlanTyped'
  BY UniboPlanStep, PlanStepTyped DEF UniboTyped
<1>1. ASSUME NEW s \in Session \ {"none"}, NEW time \in ClockTime, Open(s, time)
      PROVE  UniboTyped'
  BY <1>1 DEF Open, SetCurrentTime, UniboTyped, derivedVars, neighborVars, contactVars
<1>2. CASE Close
  BY <1>2 DEF Close, UniboTyped, Session, planVars, contactVars, derivedVars, neighborVars
<1>3. CASE ContactPlanClose
  BY <1>3, RebuildTyped DEF ContactPlanClose, UniboTyped, Session, RoutesOn
<1>4. CASE ChangePlan
  BY <1>4, ChangePlanTyped
<1>5. CASE TouchPlan
  BY <1>5 DEF TouchPlan, UniboTyped, planVars, contactVars, neighborVars
<1>6. CASE Reset
  BY <1>6, NoNeighborsTyped DEF Reset, UniboTyped, RoutesOn
<1>7. CASE ChangeFeature
  BY <1>7, RebuildTyped DEF ChangeFeature, UniboTyped, RoutesOn
<1>8. ASSUME NEW reference \in RefTime, ChangeReference(reference) PROVE UniboTyped'
  BY <1>8, RebuildTyped DEF ChangeReference, UniboTyped, RoutesOn
<1>9. ASSUME NEW dest \in Destination, Routing(dest) PROVE UniboTyped'
  BY <1>9, RoutingTyped
<1>10. CASE UNCHANGED vars
  BY <1>10 DEF vars, UniboTyped, planVars, contactVars, derivedVars, neighborVars
<1> QED
  BY <1>1, <1>2, <1>3, <1>4, <1>5, <1>6, <1>7, <1>8, <1>9, <1>10 DEF Next

\* No route ever holds a contact that is gone, or one that was revised as it was before:
\* whatever sessions follow each other, and whatever the agent does.
THEOREM UniboRoutesSound == Spec => []RoutesSound
<1>1. UniboTyped => RoutesSound
  <2> SUFFICES ASSUME UniboTyped PROVE RoutesSound
    OBVIOUS
  <2>1. PlanTypeOK
    BY DEF UniboTyped, PlanTyped, Typed, PlanTypeOK
  <2> QED BY <2>1 DEF UniboTyped, RoutesSound, UniboTypeOK, RoutesCited, RoutesOn, NeighborsTyped
<1> QED
  BY UniboInitTyped, UniboStepTyped, <1>1, PTL DEF Spec

-----------------------------------------------------------------------------
(* The routes a routing call ends with *)

\* A path that could be travelled if none of its contacts were over.
Connected(p) ==
  /\ p[1].fromNode = LocalNode
  /\ \A i \in 1 .. Len(p) - 1 : p[i].toNode = p[i + 1].fromNode
  /\ \A i \in DOMAIN p : p[i].toNode # LocalNode
  /\ \A i, j \in DOMAIN p : j <= i => p[j].fromTime < p[i].toTime
  /\ \A i, j \in DOMAIN p : j # i => p[j].toNode # p[i].toNode

RouteCurrent(r) ==
  Connected(r.hops) /\ r.toTime = Min({r.hops[i].toTime : i \in DOMAIN r.hops})

\* Unless an update is pending the routes are as they were found.
UniboCurrent ==
  /\ PlanInv /\ UniboTyped
  /\ ~ mustClearRoutingObjects => \A r \in routes : RouteCurrent(r)

LEMMA ChangePlanCurrent ==
  ASSUME UniboCurrent, ChangePlan, ~ mustClearRoutingObjects'
  PROVE  \A r \in routes' : RouteCurrent(r)
<1>1. contacts' \subseteq contacts /\ ~ mustClearRoutingObjects
  BY DEF ChangePlan
<1>2. routes' \subseteq routes
  <2>1. contacts' \ contacts = {}
    BY <1>1
  <2>2. routes' = Followed(contacts \ contacts', {})
    BY <2>1 DEF ChangePlan, RoutesFollowContacts
  <2> QED BY <2>2 DEF Followed
<1> QED
  BY <1>1, <1>2 DEF UniboCurrent

\* A routing call keeps routes whose contacts the sweep left, and finds new ones.
LEMMA RoutingCurrent ==
  ASSUME UniboCurrent, NEW dest, Routing(dest)
  PROVE  /\ \A r \in routes' : RouteCurrent(r)
         /\ \A r \in routes' : Travelable(r.hops)
<1>1. contacts' = {c \in contacts : c.toTime > currentTime}
  BY SweepLeaves DEF UniboCurrent, PlanInv, Routing, Sweep, RemoveExpiredContacts, contactVars
<1>2. PICK found \in SUBSET NewRoutes(contacts', dest) :
        routes' = found \cup (IF mustClearRoutingObjects THEN {}
                              ELSE Followed(contacts \ contacts', {}))
  BY DEF Routing
<1>3. ASSUME NEW r \in found PROVE RouteCurrent(r) /\ Travelable(r.hops)
  <2>1. PICK p \in SeqOf(contacts', Cardinality(Node) - 1) :
          Travelable(p) /\ r = [hops |-> p, toTime |-> Min({p[i].toTime : i \in DOMAIN p})]
    BY DEF NewRoutes
  <2>2. Travelable(r.hops) /\ r.toTime = Min({r.hops[i].toTime : i \in DOMAIN r.hops})
    BY <2>1
  <2> QED BY <2>2 DEF RouteCurrent, Connected, Travelable
<1>4. ASSUME NEW r \in Followed(contacts \ contacts', {}), ~ mustClearRoutingObjects
      PROVE  RouteCurrent(r) /\ Travelable(r.hops)
  <2>1. r \in routes /\ \A e \in contacts \ contacts' : ~ Uses(r, e)
    BY DEF Followed
  <2>2. \A i \in DOMAIN r.hops : r.hops[i] \in contacts'
    BY <2>1 DEF Uses, UniboCurrent, UniboTyped, RoutesOn
  <2>3. RouteCurrent(r)
    BY <1>4, <2>1 DEF UniboCurrent
  <2>4. \A i \in DOMAIN r.hops : r.hops[i].toTime > currentTime
    BY <1>1, <2>2
  <2> QED BY <2>3, <2>4 DEF RouteCurrent, Connected, Travelable
<1> QED
  BY <1>2, <1>3, <1>4

LEMMA UniboStepCurrent ==
  ASSUME Lapses = {}
  PROVE  UniboCurrent /\ [Next]_vars => UniboCurrent'
<1> SUFFICES ASSUME UniboCurrent, [Next]_vars PROVE UniboCurrent'
  OBVIOUS
<1>a. PlanInv' /\ UniboTyped'
  BY UniboPlanStep, PlanStepInv, UniboStepTyped DEF UniboCurrent
<1> SUFFICES ASSUME ~ mustClearRoutingObjects' PROVE \A r \in routes' : RouteCurrent(r)
  BY <1>a DEF UniboCurrent, RouteCurrent, Connected
<1>1. ASSUME NEW s \in Session \ {"none"}, NEW time \in ClockTime, Open(s, time)
      PROVE  \A r \in routes' : RouteCurrent(r)
  BY <1>1 DEF Open, UniboCurrent, derivedVars
<1>2. CASE Close
  BY <1>2 DEF Close, UniboCurrent, derivedVars
<1>3. CASE ContactPlanClose \/ ChangeFeature
  BY <1>3 DEF ContactPlanClose, ChangeFeature, Rebuild
<1>4. CASE ChangePlan
  BY <1>4, ChangePlanCurrent
<1>5. CASE TouchPlan
  BY <1>5 DEF TouchPlan
<1>6. CASE Reset
  BY <1>6 DEF Reset
<1>7. ASSUME NEW reference \in RefTime, ChangeReference(reference)
      PROVE  \A r \in routes' : RouteCurrent(r)
  BY <1>7 DEF ChangeReference, Rebuild
<1>8. ASSUME NEW dest \in Destination, Routing(dest) PROVE \A r \in routes' : RouteCurrent(r)
  BY <1>8, RoutingCurrent
<1>9. CASE UNCHANGED vars
  BY <1>9 DEF vars, UniboCurrent, derivedVars
<1> QED
  BY <1>1, <1>2, <1>3, <1>4, <1>5, <1>6, <1>7, <1>8, <1>9 DEF Next

\* However the plan was revised and the clock set in the sessions before, the routes a
\* routing call ends with can be travelled now, and their toTime is the end of the first
\* of their contacts to be over.
THEOREM UniboRoutesCurrent ==
  ASSUME Lapses = {}
  PROVE  Spec => RoutesCurrent
<1>1. Init => UniboCurrent
  BY PlanInitInv, UniboInitTyped DEF Init, UniboCurrent
<1>2. UniboCurrent /\ [Next]_vars
        => [\A dest \in Destination : Routing(dest) =>
              \A r \in routes' :
                /\ Travelable(r.hops)
                /\ r.toTime = Min({r.hops[i].toTime : i \in DOMAIN r.hops})]_vars
  BY RoutingCurrent DEF RouteCurrent
<1> QED
  BY <1>1, <1>2, UniboStepCurrent, PTL DEF Spec, RoutesCurrent

-----------------------------------------------------------------------------
(* The neighbors a routing call knows *)

Toward(es, n) == {c \in es : c.fromNode = LocalNode /\ c.toNode = n}

\* The neighbors are those of es, each until its last contact is over, and the bound hides
\* none of their ends.
NeighborsMatch(nbs, bound, es) ==
  /\ DOMAIN nbs = {n \in Node : Toward(es, n) # {}}
  /\ \A n \in DOMAIN nbs :
       /\ \E c \in Toward(es, n) : nbs[n] = c.toTime
       /\ \A c \in Toward(es, n) : c.toTime <= nbs[n]
  /\ bound \in Int /\ \A n \in DOMAIN nbs : bound <= nbs[n]

\* A session of the contact plan closes with an update, whatever the flag says.
UniboExact ==
  /\ PlanInv /\ UniboTyped /\ referenceTime \in RefTime
  /\ ~ mustClearRoutingObjects /\ session # "contact_plan"
       => NeighborsMatch(neighbors, timeNeighborToRemove, contacts)

\* In a sound contacts graph the last contact with a neighbor is also the last to end.
LEMMA NeighborListsMatch ==
  ASSUME NEW es, NEW b, Sound(es, b), NEW nbs \in NeighborLists(es)
  PROVE  NeighborsMatch(nbs, NextNeighborExpiry(nbs), es)
<1>1. es \in SUBSET Entry /\ IsFiniteSet(es)
  BY DEF Sound
<1>2. NeighborsTyped(nbs) /\ \A n \in DOMAIN nbs : nbs[n] \in LastEnd(es, n)
  BY <1>1, NeighborListsTyped
<1>3. ASSUME NEW n, NEW end \in LastEnd(es, n)
      PROVE  /\ \E c \in Toward(es, n) : end = c.toTime
             /\ \A c \in Toward(es, n) : c.toTime <= end
             /\ end >= 0
  <2>1. PICK d \in Toward(es, n) :
          end = d.toTime /\ \A c \in Toward(es, n) : c.fromTime <= d.fromTime
    BY DEF LastEnd, Toward
  <2>2. ASSUME NEW c \in Toward(es, n) PROVE c.toTime <= d.toTime
    <3>1. c \in es /\ d \in es /\ SamePair(c, d) /\ c \in Entry /\ d \in Entry
      BY <1>1 DEF Toward, SamePair
    <3>2. c.fromTime < c.toTime /\ d.fromTime < d.toTime /\ c.fromTime <= d.fromTime
      BY <2>1, <3>1 DEF Sound, Ordered
    <3>3. c = d \/ c.toTime <= d.fromTime \/ d.toTime <= c.fromTime
      BY <3>1 DEF Sound, Disjoint
    <3> QED BY <3>1, <3>2, <3>3 DEF Entry
  <2>3. d.toTime >= 0
    <3>1. d \in Entry /\ 0 <= d.fromTime /\ d.fromTime < d.toTime
      BY DEF Sound, Ordered, Toward
    <3> QED BY <3>1 DEF Entry
  <2> QED BY <2>1, <2>2, <2>3
<1>4. DOMAIN nbs = {n \in Node : Toward(es, n) # {}}
  <2> DEFINE reached == {e.toNode : e \in {d \in es : d.fromNode = LocalNode}}
             ends == [n \in reached |-> LastEnd(es, n)]
             Kept(f) == [n \in {m \in reached : f[m] >= 0} |-> f[n]]
  <2>1. PICK g : nbs = Kept(g) /\ \A n \in reached : g[n] \in ends[n]
    BY DEF NeighborLists
  <2>2. ASSUME NEW n \in reached PROVE g[n] >= 0
    <3>1. g[n] \in LastEnd(es, n)
      BY <2>1
    <3> QED BY <1>3, <3>1
  <2>3. DOMAIN nbs = reached
    BY <2>1, <2>2
  <2>4. reached = {n \in Node : Toward(es, n) # {}}
    BY <1>1 DEF Toward, Entry
  <2> QED BY <2>3, <2>4
<1>5. /\ NextNeighborExpiry(nbs) \in Int
      /\ \A n \in DOMAIN nbs : NextNeighborExpiry(nbs) <= nbs[n]
  BY <1>2, NextNeighborExpiryBound
<1> QED
  BY <1>2, <1>3, <1>4, <1>5 DEF NeighborsMatch

\* removeOldNeighbors does to the neighbors what the sweep does to the contacts.
LEMMA StillNeighborsMatch ==
  ASSUME NEW es \in SUBSET Entry, NEW nbs, NEW bound, NeighborsTyped(nbs),
         NeighborsMatch(nbs, bound, es), currentTime \in Int
  PROVE  LET still == StillNeighbors(nbs, bound)
             next == IF currentTime >= bound THEN NextNeighborExpiry(still) ELSE bound
         IN  NeighborsMatch(still, next, {c \in es : c.toTime > currentTime})
<1> DEFINE still == StillNeighbors(nbs, bound)
           next == IF currentTime >= bound THEN NextNeighborExpiry(still) ELSE bound
           left == {c \in es : c.toTime > currentTime}
<1>1. \A n \in DOMAIN nbs : nbs[n] \in Int
  BY DEF NeighborsTyped
<1>2. DOMAIN still = {n \in DOMAIN nbs : nbs[n] > currentTime}
      /\ \A n \in DOMAIN still : still[n] = nbs[n]
  <2>1. CASE currentTime >= bound
    BY <2>1 DEF StillNeighbors
  <2>2. CASE ~ (currentTime >= bound)
    BY <1>1, <2>2 DEF StillNeighbors, NeighborsMatch
  <2> QED BY <2>1, <2>2
<1>3. ASSUME NEW n \in DOMAIN nbs
      PROVE  /\ nbs[n] > currentTime <=> Toward(left, n) # {}
             /\ nbs[n] > currentTime => \E c \in Toward(left, n) : nbs[n] = c.toTime
             /\ \A c \in Toward(left, n) : c.toTime <= nbs[n]
  <2>1. PICK d \in Toward(es, n) : nbs[n] = d.toTime
    BY DEF NeighborsMatch
  <2>2. \A c \in Toward(es, n) : c.toTime <= nbs[n] /\ c.toTime \in Int
    BY DEF NeighborsMatch, Toward, Entry
  <2>3. Toward(left, n) = {c \in Toward(es, n) : c.toTime > currentTime}
    BY DEF Toward
  <2> HIDE DEF left
  <2> QED BY <1>1, <2>1, <2>2, <2>3
<1>4. DOMAIN still = {n \in Node : Toward(left, n) # {}}
  <2>1. ASSUME NEW n \in Node, Toward(left, n) # {} PROVE n \in DOMAIN nbs
    BY <2>1 DEF Toward, NeighborsMatch
  <2>2. DOMAIN nbs \subseteq Node
    BY DEF NeighborsMatch
  <2> HIDE DEF left, still
  <2> QED BY <1>2, <1>3, <2>1, <2>2
<1>5. next \in Int /\ \A n \in DOMAIN still : next <= still[n]
  <2>1. NeighborsTyped(still)
    BY StillNeighborsTyped
  <2>2. NextNeighborExpiry(still) \in Int /\ \A n \in DOMAIN still : NextNeighborExpiry(still) <= still[n]
    BY <2>1, NextNeighborExpiryBound
  <2>3. bound \in Int /\ \A n \in DOMAIN still : bound <= still[n]
    BY <1>2 DEF NeighborsMatch
  <2> HIDE DEF still
  <2> QED BY <2>2, <2>3
<1> HIDE DEF still, next, left
<1>6. NeighborsMatch(still, next, left)
  BY <1>2, <1>3, <1>4, <1>5 DEF NeighborsMatch
<1> QED
  BY <1>6 DEF still, next, left

\* What a routing call knows of the neighbors is what the plan says, as the sweep leaves it.
LEMMA RoutingExact ==
  ASSUME UniboExact, NEW dest, Routing(dest)
  PROVE  NeighborsMatch(neighbors', timeNeighborToRemove', contacts')
<1>1. contacts' = {c \in contacts : c.toTime > currentTime}
  BY SweepLeaves DEF UniboExact, PlanInv, Routing, Sweep, RemoveExpiredContacts, contactVars
<1>2. contacts \in SUBSET Entry /\ IsFiniteSet(contacts) /\ currentTime \in Int
  BY DEF UniboExact, PlanInv, Sound
<1>3. PICK built \in IF mustClearRoutingObjects THEN NeighborLists(contacts) ELSE {neighbors} :
        LET bound == IF mustClearRoutingObjects THEN NextNeighborExpiry(built)
                     ELSE timeNeighborToRemove
        IN  /\ neighbors' = StillNeighbors(built, bound)
            /\ timeNeighborToRemove' =
                 IF currentTime >= bound THEN NextNeighborExpiry(neighbors') ELSE bound
  BY DEF Routing
<1> DEFINE bound == IF mustClearRoutingObjects THEN NextNeighborExpiry(built)
                    ELSE timeNeighborToRemove
<1>4. NeighborsTyped(built) /\ NeighborsMatch(built, bound, contacts)
  <2>1. CASE mustClearRoutingObjects
    <3>1. built \in NeighborLists(contacts)
      BY <1>3, <2>1
    <3> QED BY <1>2, <2>1, <3>1, NeighborListsTyped, NeighborListsMatch DEF UniboExact, PlanInv
  <2>2. CASE ~ mustClearRoutingObjects
    <3>1. built = neighbors /\ session = "routing"
      BY <1>3, <2>2 DEF Routing
    <3> QED BY <2>2, <3>1 DEF UniboExact, UniboTyped
  <2> QED BY <2>1, <2>2
<1>5. /\ neighbors' = StillNeighbors(built, bound)
      /\ timeNeighborToRemove' =
           IF currentTime >= bound THEN NextNeighborExpiry(neighbors') ELSE bound
  BY <1>3
<1> HIDE DEF bound
<1> QED
  BY <1>1, <1>2, <1>4, <1>5, StillNeighborsMatch

\* An update, when the plan does not change with it.
LEMMA RebuildExact ==
  ASSUME UniboExact, Rebuild, contacts' = contacts
  PROVE  NeighborsMatch(neighbors', timeNeighborToRemove', contacts')
<1>1. neighbors' \in NeighborLists(contacts) /\ timeNeighborToRemove' = NextNeighborExpiry(neighbors')
  BY DEF Rebuild
<1>2. NeighborsMatch(neighbors', NextNeighborExpiry(neighbors'), contacts)
  BY <1>1, NeighborListsMatch DEF UniboExact, PlanInv
<1> QED
  BY <1>1, <1>2

LEMMA ShiftByZero ==
  ASSUME NEW es \in SUBSET Entry
  PROVE  Shift(es, 0) = es
<1>1. ASSUME NEW e \in es PROVE [e EXCEPT !.fromTime = @ - 0, !.toTime = @ - 0] = e
  <2>1. e.fromTime - 0 = e.fromTime /\ e.toTime - 0 = e.toTime /\ e \in Entry
    BY DEF Entry
  <2>2. [e EXCEPT !.fromTime = e.fromTime, !.toTime = e.toTime] = e
    BY <2>1 DEF Entry
  <2> QED BY <2>1, <2>2
<1> QED
  BY <1>1 DEF Shift

\* The reference time moves the contacts after the neighbors were built from them, which is
\* why it has to stay where it is.
LEMMA UniboStepExact ==
  ASSUME Lapses = {}, \A a, b \in RefTime : a = b
  PROVE  UniboExact /\ [Next]_vars => UniboExact'
<1> SUFFICES ASSUME UniboExact, [Next]_vars PROVE UniboExact'
  OBVIOUS
<1>a. PlanInv' /\ UniboTyped'
  BY UniboPlanStep, PlanStepInv, UniboStepTyped DEF UniboExact
<1>b. referenceTime' \in RefTime
  <2>1. [PlanNext]_planVars
    BY UniboPlanStep
  <2>2. referenceTime' = referenceTime \/ referenceTime' \in RefTime
    <3>1. CASE ContactNext \/ RangeNext
      BY <3>1, CallsKeepClock
    <3>2. CASE ~ ContactNext /\ ~ RangeNext
      BY <2>1, <3>2 DEF PlanNext, ResetPlan, Sweep, SetCurrentTime, ChangeReferenceTime,
                        planVars, clockVars
    <3> QED BY <3>1, <3>2
  <2> QED BY <2>2 DEF UniboExact
<1> SUFFICES ASSUME ~ mustClearRoutingObjects', session' # "contact_plan"
             PROVE  NeighborsMatch(neighbors', timeNeighborToRemove', contacts')
  BY <1>a, <1>b DEF UniboExact, NeighborsMatch, Toward
<1>1. ASSUME NEW s \in Session \ {"none"}, NEW time \in ClockTime, Open(s, time)
      PROVE  NeighborsMatch(neighbors', timeNeighborToRemove', contacts')
  BY <1>1 DEF Open, SetCurrentTime, UniboExact, derivedVars, neighborVars, contactVars
<1>2. CASE Close
  BY <1>2 DEF Close, UniboExact, derivedVars, neighborVars, planVars, contactVars
<1>3. CASE ContactPlanClose \/ ChangeFeature
  BY <1>3, RebuildExact DEF ContactPlanClose, ChangeFeature, planVars, contactVars
<1>4. CASE ChangePlan \/ TouchPlan \/ Reset
  BY <1>4 DEF ChangePlan, TouchPlan, Reset
<1>5. ASSUME NEW reference \in RefTime, ChangeReference(reference)
      PROVE  NeighborsMatch(neighbors', timeNeighborToRemove', contacts')
  <2>1. reference - referenceTime = 0
    BY ContactPlanAssumption DEF UniboExact, PlanInv
  <2>2. contacts' = Shift(contacts, reference - referenceTime)
    BY <1>5 DEF ChangeReference, ChangeReferenceTime
  <2>3. contacts' = contacts
    BY <2>1, <2>2, ShiftByZero DEF UniboExact, PlanInv, Sound
  <2> QED BY <1>5, <2>3, RebuildExact DEF ChangeReference
<1>6. ASSUME NEW dest \in Destination, Routing(dest)
      PROVE  NeighborsMatch(neighbors', timeNeighborToRemove', contacts')
  BY <1>6, RoutingExact
<1>7. CASE UNCHANGED vars
  BY <1>7 DEF vars, UniboExact, derivedVars, neighborVars, planVars, contactVars
<1> QED
  BY <1>1, <1>2, <1>3, <1>4, <1>5, <1>6, <1>7 DEF Next

\* A greatest end that some contact reaches is the maximum of the ends.
LEMMA MatchIsMax ==
  ASSUME NEW es \in SUBSET Entry, NEW nbs, NEW bound, NeighborsMatch(nbs, bound, es),
         NEW n \in DOMAIN nbs
  PROVE  nbs[n] = Max({c.toTime : c \in Toward(es, n)})
<1> DEFINE ends == {c.toTime : c \in Toward(es, n)}
<1>1. nbs[n] \in ends /\ \A x \in ends : x <= nbs[n]
  BY DEF NeighborsMatch
<1>2. ends \in SUBSET Int
  BY DEF Toward, Entry
<1> HIDE DEF ends
<1>3. Max(ends) \in ends /\ \A x \in ends : Max(ends) >= x
  BY <1>1, <1>2 DEF Max
<1>4. nbs[n] = Max(ends)
  <2>1. nbs[n] <= Max(ends) /\ Max(ends) <= nbs[n] /\ nbs[n] \in Int /\ Max(ends) \in Int
    BY <1>1, <1>2, <1>3
  <2> QED BY <2>1
<1> QED
  BY <1>4 DEF ends

\* A routing call knows as neighbors the nodes the local node has a contact with that is not
\* over, each until the end of the last one: whichever sessions changed the plan, and
\* although removeOldNeighbors is skipped on a bound.  The reference time stays the same.
THEOREM UniboNeighborsExact ==
  ASSUME Lapses = {}, \A a, b \in RefTime : a = b
  PROVE  Spec => NeighborsExact
<1>1. Init => UniboExact
  BY PlanInitInv, UniboInitTyped DEF Init, PlanInit, UniboExact
<1>2. UniboExact /\ [Next]_vars
        => [\A dest \in Destination : Routing(dest) =>
              LET toward(n) == {c \in contacts' : c.fromNode = LocalNode /\ c.toNode = n}
              IN  /\ DOMAIN neighbors' = {n \in Node : toward(n) # {}}
                  /\ \A n \in DOMAIN neighbors' :
                       neighbors'[n] = Max({c.toTime : c \in toward(n)})]_vars
  <2> SUFFICES ASSUME UniboExact, [Next]_vars, NEW dest \in Destination, Routing(dest)
               PROVE  /\ DOMAIN neighbors' = {n \in Node : Toward(contacts', n) # {}}
                      /\ \A n \in DOMAIN neighbors' :
                           neighbors'[n] = Max({c.toTime : c \in Toward(contacts', n)})
    BY DEF Toward
  <2>1. NeighborsMatch(neighbors', timeNeighborToRemove', contacts')
    BY RoutingExact
  <2>2. contacts' \in SUBSET Entry
    BY UniboPlanStep, PlanStepInv DEF UniboExact, PlanInv, Sound
  <2>3. DOMAIN neighbors' = {n \in Node : Toward(contacts', n) # {}}
    BY <2>1 DEF NeighborsMatch
  <2> QED BY <2>1, <2>2, <2>3, MatchIsMax, Zenon
<1> QED
  BY <1>1, <1>2, UniboStepExact, PTL DEF Spec, NeighborsExact

=============================================================================
