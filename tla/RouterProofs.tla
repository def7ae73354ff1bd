---------------------------- MODULE RouterProofs ----------------------------
(***************************************************************************)
(* Whatever links and bundles there are, whatever Unibo-CGR answers and in *)
(* whatever order events come: the DTNME router keeps its queues sound,    *)
(* loses no bundle and forgets none.                                       *)
(***************************************************************************)
EXTENDS Router, SequenceTheorems, FiniteSetTheorems, WellFoundedInduction, TLAPS

Entry == {"NONE", "QUEUED", "TRANSMITTED", "TRANSMIT_FAILED", "CANCELLED", "CUSTODY_TIMEOUT"}
LinkState == {"NONE", "UNAVAILABLE", "AVAILABLE", "OPENING", "OPEN"}

States ==
  [pending : SUBSET Bundle, deferred : [Link -> Seq(Bundle)], queue : [Link -> Seq(Bundle)],
   inflight : [Link -> Seq(Bundle)], log : [Bundle -> [Link -> Entry]],
   link : [Link -> LinkState], routes : SUBSET Link, listed : SUBSET Link,
   aside : SUBSET (Bundle \X Link)]

\* x is in seq once if at all.
Once(seq, x) == \A i, j \in DOMAIN seq : seq[i] = x /\ seq[j] = x => i = j

DeferredSound(s) ==
  \A l \in Link : /\ IsInjective(s.deferred[l])
                  /\ s.deferred[l] # <<>> => l \in s.listed
                  /\ Len(s.queue[l]) <= QueueHigh

\* The log knows bundle b, the link has it once, and it goes over one link only.
LogSound(s, b) ==
  \A l \in Link :
    /\ s.log[b][l] = "QUEUED" <=> On(s, b, l)
    /\ Once(s.queue[l], b)
    /\ b \in Range(s.queue[l]) => b \notin Range(s.inflight[l])
    /\ On(s, b, l) => \A m \in Link \ {l} : ~ On(s, b, m) /\ s.log[b][m] # "TRANSMITTED"

Sound(s, S) == s \in States /\ DeferredSound(s) /\ \A b \in S : LogSound(s, b)

BundleKind == {"transmitted", "failed", "cancelled", "custody_timeout"}
LinkKind == {"contact_up", "contact_down", "available", "check_deferred", "created", "deleted",
             "route_add"}
Events ==
  {OfBundle("received", b, 0) : b \in Bundle}
    \cup {OfBundle(k, b, l) : k \in BundleKind, b \in Bundle, l \in Link}
    \cup {OfLink(k, l) : k \in LinkKind, l \in Link}
    \cup {OfNode(k, n) : k \in {"plan_up", "route_del"}, n \in Node}

Report3 == {"transmitted", "failed", "custody_timeout"}

\* What a report says is still so, unless a timeout came between; and there is one at a time.
ReportsTrue ==
  /\ \A i \in DOMAIN events : events[i].bundle \notin late =>
       /\ events[i].kind \in {"transmitted", "failed"} =>
            events[i].bundle \in Range(inflight[events[i].link])
       /\ events[i].kind = "custody_timeout" =>
            log[events[i].bundle][events[i].link] = "TRANSMITTED"
  /\ \A i, j \in DOMAIN events :
       events[i].kind \in Report3 /\ events[j].kind \in Report3
         /\ events[i].bundle = events[j].bundle => i = j

Typed ==
  /\ open \subseteq Planned /\ events \in Seq(Events) /\ late \subseteq Bundle
  /\ timer \in [Link -> {"none", "pending", "fired", "missed"}]

QueueInv == Typed /\ Sound(State, Bundle \ late) /\ ReportsTrue

\* An event that ends with a check of link l.
Checking(e, l) ==
  \/ e.kind \in {"contact_up", "available", "check_deferred", "transmitted", "failed"} /\ e.link = l
  \/ e.kind = "plan_up" /\ e.node = Remote[l]

CheckComing(l) == \E i \in DOMAIN events : Checking(events[i], l)

\* A link that could send and has nothing to send was offered all that waits for it.
Offered(s, l) ==
  /\ s.link[l] = "OPEN" /\ (Remote[l] \in Planned => Remote[l] \in open)
  /\ s.queue[l] = <<>> /\ s.inflight[l] = <<>>
  => \A b \in Range(s.deferred[l]) : <<b, l>> \in s.aside

OfferInv == \A l \in Link : CheckComing(l) \/ Offered(State, l)

Is(i, kinds, l) == events[i].kind \in kinds /\ events[i].link = l

\* A queue whose link is down has a timer, or a contact_down is the last that will be heard
\* of the link; and a timer that fired left nothing in the queue.
TimerAt(l) ==
  /\ link[l] # "OPEN" /\ queue[l] # <<>> =>
       /\ \A i \in DOMAIN events : Is(i, {"contact_up", "deleted"}, l) =>
            \E j \in DOMAIN events : i < j /\ Is(j, {"contact_down"}, l)
       /\ timer[l] \in {"pending", "missed"}
            \/ \E j \in DOMAIN events : Is(j, {"contact_down"}, l)
  /\ timer[l] = "fired" =>
       \/ queue[l] = <<>> /\ link[l] # "OPEN"
       \/ \E i \in DOMAIN events : Is(i, {"contact_up"}, l)

TimerInv == \A l \in Link : TimerAt(l)

-----------------------------------------------------------------------------
(* Sequences: what is in them, and what is in them once *)

LEMMA LeastNatural ==
  ASSUME NEW T \in SUBSET Nat, T # {}
  PROVE  \E m \in T : \A k \in T : m <= k
<1>1. PICK m \in T : \A k \in T : <<k, m>> \notin OpToRel(<, Nat)
  BY NatLessThanWellFounded, WFMin
<1>2. OpToRel(<, Nat) = {ss \in Nat \X Nat : ss[1] < ss[2]}
  BY Zenon DEF OpToRel
<1>3. ASSUME NEW k \in T PROVE ~ (k < m)
  <2>1. <<k, m>> \notin {ss \in Nat \X Nat : ss[1] < ss[2]}
    BY <1>1, <1>2, Zenon
  <2>2. k \in Nat /\ m \in Nat
    OBVIOUS
  <2> QED BY <2>1, <2>2
<1>4. \A k \in T : m <= k
  <2>1. \A k \in T : k \in Nat /\ m \in Nat
    OBVIOUS
  <2> QED BY <1>3, <2>1
<1> QED
  BY <1>4

\* g holds, for every i, what Only keeps of the first i members of seq.
IsKept(seq, S, n, g) ==
  g = [i \in 0 .. n |->
         IF i = 0 THEN <<>> ELSE g[i - 1] \o (IF seq[i] \in S THEN <<seq[i]>> ELSE <<>>)]

LEMMA KeptExists ==
  ASSUME NEW seq, NEW S, NEW n \in Nat
  PROVE  \E g : IsKept(seq, S, n, g)
<1> DEFINE without == {k \in Nat : ~ \E g : IsKept(seq, S, k, g)}
<1>1. SUFFICES ASSUME without # {} PROVE FALSE
  OBVIOUS
<1>2. PICK m \in without : \A k \in without : m <= k
  <2>1. without \in SUBSET Nat
    OBVIOUS
  <2> HIDE DEF without
  <2> QED BY <1>1, <2>1, LeastNatural
<1>3. CASE m = 0
  <2>1. IsKept(seq, S, 0, [i \in 0 .. 0 |-> <<>>])
    BY DEF IsKept
  <2> QED BY <1>3, <2>1
<1>4. CASE m # 0
  <2>1. PICK g : IsKept(seq, S, m - 1, g)
    <3>1. m - 1 \in Nat /\ m - 1 \notin without
      <4> HIDE DEF without
      <4>1. m \in Nat
        BY DEF without
      <4> QED BY <1>2, <1>4, <4>1
    <3> QED BY <3>1
  <2> DEFINE add(i) == IF seq[i] \in S THEN <<seq[i]>> ELSE <<>>
             h == [i \in 0 .. m |-> IF i = m THEN g[m - 1] \o add(m) ELSE g[i]]
  <2>2. \A i \in 0 .. m - 1 : g[i] = IF i = 0 THEN <<>> ELSE g[i - 1] \o add(i)
    BY <2>1 DEF IsKept
  <2>3. m \in Nat /\ \A i \in 0 .. m : h[i] = IF i = m THEN g[m - 1] \o add(m) ELSE g[i]
    OBVIOUS
  <2>4. \A i \in 0 .. m : h[i] = IF i = 0 THEN <<>> ELSE h[i - 1] \o add(i)
    <3> HIDE DEF add, h, without
    <3> QED BY <1>4, <2>2, <2>3
  <2>5. h = [i \in 0 .. m |-> h[i]]
    OBVIOUS
  <2>6. IsKept(seq, S, m, h)
    <3> HIDE DEF h
    <3> QED BY <2>4, <2>5 DEF IsKept
  <2> QED BY <2>6
<1> QED
  BY <1>3, <1>4

\* What Only keeps: the members in S, each as often as before.
LEMMA OnlyFacts ==
  ASSUME NEW B, NEW seq \in Seq(B), NEW S
  PROVE  /\ Only(seq, S) \in Seq(B) /\ Len(Only(seq, S)) <= Len(seq)
         /\ Range(Only(seq, S)) = Range(seq) \cap S
         /\ \A x : Once(seq, x) => Once(Only(seq, S), x)
<1> DEFINE g == CHOOSE k : IsKept(seq, S, Len(seq), k)
           add(i) == IF seq[i] \in S THEN <<seq[i]>> ELSE <<>>
           good(i) == /\ g[i] \in Seq(B) /\ Len(g[i]) <= i
                      /\ Range(g[i]) = {seq[j] : j \in 1 .. i} \cap S
                      /\ \A x : Once(seq, x) => Once(g[i], x)
           bad == {i \in 0 .. Len(seq) : ~ good(i)}
<1>1. Only(seq, S) = g[Len(seq)]
  BY DEF Only, IsKept
<1>2. IsKept(seq, S, Len(seq), g)
  <2>1. Len(seq) \in Nat
    OBVIOUS
  <2> QED BY <2>1, KeptExists
<1>3. /\ \A i \in 0 .. Len(seq) : g[i] = IF i = 0 THEN <<>> ELSE g[i - 1] \o add(i)
      /\ Len(seq) \in Nat
  <2> HIDE DEF g
  <2> QED BY <1>2 DEF IsKept
<1>4. bad = {}
  <2>1. SUFFICES ASSUME bad # {} PROVE FALSE
    OBVIOUS
  <2>2. PICK m \in bad : \A k \in bad : m <= k
    <3>1. bad \in SUBSET Nat
      OBVIOUS
    <3> HIDE DEF bad
    <3> QED BY <2>1, <3>1, LeastNatural
  <2> HIDE DEF g
  <2>3. m \in 0 .. Len(seq) /\ ~ good(m)
    BY <2>2
  <2>4. CASE m = 0
    <3>1. g[m] = <<>>
      BY <1>3, <2>3, <2>4
    <3>2. good(m)
      BY <2>4, <3>1 DEF Range, Once
    <3> QED BY <2>3, <3>2
  <2>5. CASE m # 0
    <3>1. m - 1 \in 0 .. Len(seq) /\ m \in 1 .. Len(seq) /\ seq[m] \in B
      BY <1>3, <2>3, <2>5
    <3>2. good(m - 1)
      <4>1. m - 1 \notin bad
        <5> HIDE DEF bad
        <5> QED BY <2>2, <2>3, <3>1
      <4> QED BY <3>1, <4>1
    <3>3. g[m] = g[m - 1] \o add(m)
      BY <1>3, <2>3, <2>5
    <3>4. {seq[j] : j \in 1 .. m} = {seq[j] : j \in 1 .. m - 1} \cup {seq[m]}
      BY <3>1
    <3>5. CASE seq[m] \in S
      <4>1. g[m] = Append(g[m - 1], seq[m])
        <5>1. add(m) = <<seq[m]>>
          BY <3>5
        <5> HIDE DEF add
        <5> QED BY <3>1, <3>2, <3>3, <5>1, AppendIsConcat
      <4>2. g[m] \in Seq(B) /\ Len(g[m]) <= m
        <5>1. g[m - 1] \in Seq(B) /\ seq[m] \in B /\ Len(g[m - 1]) <= m - 1 /\ m \in Nat
          BY <3>1, <3>2
        <5>2. Len(g[m]) = Len(g[m - 1]) + 1 /\ g[m] \in Seq(B) /\ Len(g[m - 1]) \in Nat
          BY <4>1, <5>1, AppendProperties, LenProperties
        <5> QED BY <5>1, <5>2
      <4>3. Range(g[m]) = Range(g[m - 1]) \cup {seq[m]}
        <5>1. g[m] = g[m - 1] \o <<seq[m]>> /\ <<seq[m]>> \in Seq(B)
          BY <3>1, <3>2, <4>1, AppendIsConcat
        <5>2. Range(g[m]) = Range(g[m - 1]) \cup Range(<<seq[m]>>)
          BY <3>2, <5>1, RangeConcatenation
        <5>3. Range(<<seq[m]>>) = {seq[m]}
          BY DEF Range
        <5> QED BY <5>2, <5>3
      <4>4. ASSUME NEW x, Once(seq, x) PROVE Once(g[m], x)
        <5>1. Once(g[m - 1], x)
          BY <3>2, <4>4
        <5>2. seq[m] = x => x \notin Range(g[m - 1])
          <6>1. \A j \in 1 .. m - 1 : j \in DOMAIN seq /\ m \in DOMAIN seq /\ j # m
            BY <3>1
          <6>2. seq[m] = x => x \notin {seq[j] : j \in 1 .. m - 1}
            BY <4>4, <6>1 DEF Once
          <6> QED BY <3>2, <6>2
        <5> QED BY <3>1, <3>2, <4>1, <5>1, <5>2 DEF Once, Range
      <4> QED BY <2>3, <3>2, <3>4, <3>5, <4>2, <4>3, <4>4
    <3>6. CASE seq[m] \notin S
      <4>1. g[m] = g[m - 1]
        <5>1. add(m) = <<>>
          BY <3>6
        <5> HIDE DEF add
        <5> QED BY <3>2, <3>3, <5>1, ConcatEmptySeq
      <4>2. Len(g[m - 1]) <= m
        <5>1. Len(g[m - 1]) \in Nat /\ Len(g[m - 1]) <= m - 1 /\ m \in Nat
          BY <3>1, <3>2, LenProperties
        <5> QED BY <5>1
      <4> QED BY <2>3, <3>2, <3>4, <3>6, <4>1, <4>2
    <3> QED BY <3>5, <3>6
  <2> QED BY <2>4, <2>5
<1>5. good(Len(seq))
  <2> HIDE DEF g, good
  <2>1. Len(seq) \in 0 .. Len(seq)
    BY <1>3
  <2> QED BY <1>4, <2>1
<1>6. {seq[j] : j \in 1 .. Len(seq)} = Range(seq)
  BY DEF Range
<1> QED
  BY <1>1, <1>5, <1>6

LEMMA EmptyRange ==
  ASSUME NEW B, NEW seq \in Seq(B)
  PROVE  seq = <<>> <=> Range(seq) = {}
<1>1. seq # <<>> => seq[1] \in Range(seq)
  BY DEF Range
<1> QED
  BY <1>1 DEF Range

LEMMA InjectiveOnce ==
  ASSUME NEW seq
  PROVE  IsInjective(seq) <=> \A x : Once(seq, x)
BY DEF IsInjective, Once

LEMMA AbsentOnce == ASSUME NEW seq, NEW x, x \notin Range(seq) PROVE Once(seq, x)
BY DEF Range, Once

LEMMA PrefixFacts ==
  ASSUME NEW B, NEW seq \in Seq(B), NEW n \in 0 .. Len(seq)
  PROVE  LET prefix == SubSeq(seq, 1, n) IN
         /\ prefix \in Seq(B) /\ Len(prefix) = n
         /\ Range(prefix) \subseteq Range(seq)
         /\ \A x : Once(seq, x) => Once(prefix, x)
<1> DEFINE prefix == SubSeq(seq, 1, n)
<1>1. /\ prefix \in Seq(B) /\ Len(prefix) = n /\ DOMAIN prefix = 1 .. n /\ DOMAIN seq = 1 .. Len(seq)
      /\ \A i \in 1 .. n : prefix[i] = seq[i] /\ i \in 1 .. Len(seq)
  BY SubSeqProperties
<1> HIDE DEF prefix
<1>2. Range(prefix) \subseteq Range(seq)
  BY <1>1 DEF Range
<1>3. ASSUME NEW x, Once(seq, x) PROVE Once(prefix, x)
  BY <1>1, <1>3 DEF Once
<1> QED
  BY <1>1, <1>2, <1>3 DEF prefix

LEMMA ConcatFacts ==
  ASSUME NEW B, NEW s \in Seq(B), NEW t \in Seq(B)
  PROVE  /\ s \o t \in Seq(B) /\ Len(s \o t) = Len(s) + Len(t)
         /\ Range(s \o t) = Range(s) \cup Range(t)
         /\ \A x : Once(s, x) /\ Once(t, x) /\ (x \in Range(s) => x \notin Range(t)) =>
              Once(s \o t, x)
<1>1. /\ s \o t \in Seq(B) /\ Len(s \o t) = Len(s) + Len(t) /\ Range(s \o t) = Range(s) \cup Range(t)
  BY ConcatProperties, RangeConcatenation
<1>2. ASSUME NEW x, Once(s, x), Once(t, x), x \in Range(s) => x \notin Range(t)
      PROVE  Once(s \o t, x)
  <2>1. /\ DOMAIN s = 1 .. Len(s) /\ DOMAIN t = 1 .. Len(t) /\ Len(s) \in Nat /\ Len(t) \in Nat
        /\ DOMAIN (s \o t) = 1 .. Len(s) + Len(t)
        /\ \A i \in 1 .. Len(s) + Len(t) :
             /\ (s \o t)[i] = IF i <= Len(s) THEN s[i] ELSE t[i - Len(s)]
             /\ i <= Len(s) => i \in DOMAIN s
             /\ ~ (i <= Len(s)) => i - Len(s) \in DOMAIN t
    BY <1>1, ConcatProperties
  <2>2. \A i \in DOMAIN s, j \in DOMAIN t : ~ (s[i] = x /\ t[j] = x)
    BY <1>2 DEF Range
  <2>3. SUFFICES ASSUME NEW i \in 1 .. Len(s) + Len(t), NEW j \in 1 .. Len(s) + Len(t),
                        (s \o t)[i] = x, (s \o t)[j] = x
                 PROVE  i = j
    BY <2>1 DEF Once
  <2>4. CASE i <= Len(s) /\ j <= Len(s)
    BY <1>2, <2>1, <2>3, <2>4 DEF Once
  <2>5. CASE ~ (i <= Len(s)) /\ ~ (j <= Len(s))
    <3>1. i - Len(s) = j - Len(s)
      BY <1>2, <2>1, <2>3, <2>5 DEF Once
    <3> QED BY <2>1, <3>1
  <2> QED BY <2>1, <2>2, <2>3, <2>4, <2>5
<1> QED
  BY <1>1, <1>2

LEMMA AppendFacts ==
  ASSUME NEW B, NEW seq \in Seq(B), NEW e \in B
  PROVE  /\ Append(seq, e) \in Seq(B) /\ Append(seq, e) # <<>>
         /\ Len(Append(seq, e)) = Len(seq) + 1
         /\ Range(Append(seq, e)) = Range(seq) \cup {e}
         /\ \A x : Once(seq, x) /\ (x = e => x \notin Range(seq)) => Once(Append(seq, e), x)
<1>1. Append(seq, e) = seq \o <<e>> /\ <<e>> \in Seq(B) /\ Len(<<e>>) = 1
  BY AppendIsConcat
<1>2. Range(<<e>>) = {e} /\ \A x : Once(<<e>>, x)
  BY DEF Range, Once
<1>3. Append(seq, e) # <<>>
  BY AppendProperties
<1> DEFINE one == <<e>>
<1> HIDE DEF one
<1>4. one \in Seq(B) /\ Len(one) = 1 /\ Range(one) = {e} /\ \A x : Once(one, x)
  BY <1>1, <1>2 DEF one
<1>5. Append(seq, e) = seq \o one
  BY <1>1 DEF one
<1>6. /\ seq \o one \in Seq(B) /\ Len(seq \o one) = Len(seq) + 1
      /\ Range(seq \o one) = Range(seq) \cup {e}
      /\ \A x : Once(seq, x) /\ (x \in Range(seq) => x # e) => Once(seq \o one, x)
  BY <1>4, ConcatFacts
<1> QED
  BY <1>3, <1>5, <1>6

LEMMA TailFacts ==
  ASSUME NEW B, NEW seq \in Seq(B), seq # <<>>
  PROVE  /\ Head(seq) \in B /\ Tail(seq) \in Seq(B) /\ Len(Tail(seq)) = Len(seq) - 1
         /\ Range(seq) = {Head(seq)} \cup Range(Tail(seq))
         /\ \A x : Once(seq, x) =>
              Once(Tail(seq), x) /\ (x = Head(seq) => x \notin Range(Tail(seq)))
<1>1. /\ Head(seq) \in B /\ Tail(seq) \in Seq(B) /\ Len(Tail(seq)) = Len(seq) - 1
      /\ \A i \in 1 .. Len(Tail(seq)) : Tail(seq)[i] = seq[i + 1]
  BY HeadTailProperties
<1>2. /\ Len(seq) \in Nat \ {0} /\ DOMAIN seq = 1 .. Len(seq) /\ Head(seq) = seq[1]
      /\ DOMAIN Tail(seq) = 1 .. Len(seq) - 1
  BY <1>1, EmptySeq
<1>3. Range(seq) = {Head(seq)} \cup Range(Tail(seq))
  <2>1. ASSUME NEW i \in DOMAIN seq PROVE seq[i] \in {Head(seq)} \cup Range(Tail(seq))
    <3>1. i = 1 \/ (i - 1 \in DOMAIN Tail(seq) /\ Tail(seq)[i - 1] = seq[i])
      BY <1>1, <1>2
    <3> QED BY <1>2, <3>1 DEF Range
  <2>2. ASSUME NEW i \in DOMAIN Tail(seq) PROVE Tail(seq)[i] \in Range(seq)
    <3>1. i + 1 \in DOMAIN seq /\ Tail(seq)[i] = seq[i + 1]
      BY <1>1, <1>2
    <3> QED BY <3>1 DEF Range
  <2>3. Head(seq) \in Range(seq)
    BY <1>2 DEF Range
  <2>4. Range(seq) \subseteq {Head(seq)} \cup Range(Tail(seq))
    BY <2>1 DEF Range
  <2>5. Range(Tail(seq)) \subseteq Range(seq)
    BY <2>2 DEF Range
  <2> QED BY <2>3, <2>4, <2>5
<1>4. ASSUME NEW x, Once(seq, x)
      PROVE  Once(Tail(seq), x) /\ (x = Head(seq) => x \notin Range(Tail(seq)))
  <2>1. \A i \in DOMAIN Tail(seq) :
          /\ i + 1 \in DOMAIN seq /\ Tail(seq)[i] = seq[i + 1] /\ i \in Nat
          /\ 1 \in DOMAIN seq /\ i + 1 # 1
    BY <1>1, <1>2
  <2>2. ASSUME NEW i \in DOMAIN Tail(seq), NEW j \in DOMAIN Tail(seq),
               Tail(seq)[i] = x, Tail(seq)[j] = x
        PROVE  i = j
    <3>1. i + 1 = j + 1
      BY <1>4, <2>1, <2>2 DEF Once
    <3> QED BY <2>1, <3>1
  <2>3. x = Head(seq) => x \notin Range(Tail(seq))
    BY <1>2, <1>4, <2>1 DEF Once, Range
  <2> QED BY <2>2, <2>3 DEF Once
<1> QED
  BY <1>1, <1>3, <1>4

LEMMA MinOfTwo ==
  ASSUME NEW a \in Int, NEW b \in Int
  PROVE  Min({a, b}) = IF a <= b THEN a ELSE b
<1> DEFINE m == IF a <= b THEN a ELSE b
<1>1. m \in {a, b} /\ \A y \in {a, b} : m <= y
  OBVIOUS
<1>2. \A x \in {a, b} : (\A y \in {a, b} : x <= y) => x = m
  OBVIOUS
<1>3. Min({a, b}) \in {a, b} /\ \A y \in {a, b} : Min({a, b}) <= y
  <2> HIDE DEF m
  <2>1. \E x \in {a, b} : \A y \in {a, b} : x <= y
    BY <1>1
  <2> QED BY <2>1, Zenon DEF Min
<1> QED
  BY <1>2, <1>3

-----------------------------------------------------------------------------
(* check_next_hop *)

LEMMA QueueLimits == QueueHigh \in Nat \ {0} /\ QueueLow \in 1 .. QueueHigh
BY RouterAssumption DEF RouterAssumption

LEMMA StateFields ==
  ASSUME NEW s \in States
  PROVE  /\ s.pending \subseteq Bundle /\ s.deferred \in [Link -> Seq(Bundle)]
         /\ s.queue \in [Link -> Seq(Bundle)] /\ s.inflight \in [Link -> Seq(Bundle)]
         /\ s.log \in [Bundle -> [Link -> Entry]] /\ s.link \in [Link -> LinkState]
         /\ s.routes \subseteq Link /\ s.listed \subseteq Link /\ s.aside \subseteq Bundle \X Link
BY DEF States

MayGo(s, l) == {b \in Bundle : ShouldFwd(s, b, l)}

\* What is moved from the deferred list may go, and fits into the queue.
LEMMA MovedFacts ==
  ASSUME NEW s \in States, NEW l \in Link, IsInjective(s.deferred[l]), Ready(s, l)
  PROVE  /\ Moved(s, l) \in Seq(Bundle)
         /\ Len(s.queue[l]) + Len(Moved(s, l)) <= QueueHigh
         /\ Range(Moved(s, l)) \subseteq Range(s.deferred[l]) \cap MayGo(s, l)
         /\ \A x : Once(Moved(s, l), x)
         /\ Moved(s, l) = <<>> => Range(s.deferred[l]) \cap MayGo(s, l) = {}
         /\ Range(Sendable(s, l)) = Range(s.deferred[l]) \cap MayGo(s, l)
<1> DEFINE able == Sendable(s, l)
           room == QueueHigh - Len(s.queue[l])
           n == Min({Len(able), room})
<1>1. s.deferred[l] \in Seq(Bundle) /\ s.queue[l] \in Seq(Bundle)
  BY StateFields
<1>2. /\ able \in Seq(Bundle) /\ Range(able) = Range(s.deferred[l]) \cap MayGo(s, l)
      /\ \A x : Once(able, x)
  <2>1. able = Only(s.deferred[l], MayGo(s, l))
    BY DEF Sendable, MayGo
  <2>2. \A x : Once(s.deferred[l], x)
    BY InjectiveOnce
  <2> HIDE DEF able
  <2> QED BY <1>1, <2>1, <2>2, OnlyFacts
<1>3. Len(s.queue[l]) \in Nat /\ Len(able) \in Nat /\ room \in Nat \ {0}
  <2>1. Len(s.queue[l]) < QueueLow
    BY DEF Ready
  <2>2. Len(s.queue[l]) \in Nat /\ Len(able) \in Nat
    BY <1>1, <1>2, LenProperties
  <2> QED BY <2>1, <2>2, QueueLimits
<1>4. n \in 0 .. Len(able) /\ n <= room /\ (n = 0 => Len(able) = 0)
  <2> HIDE DEF able, room
  <2>1. n = IF Len(able) <= room THEN Len(able) ELSE room
    BY <1>3, MinOfTwo
  <2> QED BY <1>3, <2>1
<1>5. Moved(s, l) = SubSeq(able, 1, n)
  BY DEF Moved
<1> HIDE DEF able, n
<1>6. /\ Moved(s, l) \in Seq(Bundle) /\ Len(Moved(s, l)) = n
      /\ Range(Moved(s, l)) \subseteq Range(able)
      /\ \A x : Once(Moved(s, l), x)
  BY <1>2, <1>4, <1>5, PrefixFacts
<1>7. Moved(s, l) = <<>> => Range(able) = {}
  <2>1. Moved(s, l) = <<>> => able = <<>>
    BY <1>2, <1>4, <1>6, EmptySeq
  <2> QED BY <1>2, <2>1, EmptyRange
<1>8. Len(s.queue[l]) + n <= QueueHigh
  BY <1>3, <1>4, QueueLimits
<1> QED
  BY <1>2, <1>6, <1>7, <1>8 DEF able

LEMMA WithoutFacts ==
  ASSUME NEW seq \in Seq(Bundle), NEW S
  PROVE  /\ Without(seq, S) \in Seq(Bundle) /\ Len(Without(seq, S)) <= Len(seq)
         /\ Range(Without(seq, S)) = Range(seq) \ S
         /\ \A x : Once(seq, x) => Once(Without(seq, S), x)
<1>1. Range(seq) \subseteq Bundle
  BY RangeOfSeq
<1>2. /\ Only(seq, Bundle \ S) \in Seq(Bundle) /\ Len(Only(seq, Bundle \ S)) <= Len(seq)
      /\ Range(Only(seq, Bundle \ S)) = Range(seq) \cap (Bundle \ S)
      /\ \A x : Once(seq, x) => Once(Only(seq, Bundle \ S), x)
  BY OnlyFacts
<1> QED
  BY <1>1, <1>2 DEF Without

\* The state after a check that found the link ready.
LEMMA Checked ==
  ASSUME NEW s \in States, NEW l \in Link, Ready(s, l), IsInjective(s.deferred[l])
  PROVE  LET t == CheckNextHop(s, l)
             m == Moved(s, l)
         IN  /\ t \in States
             /\ t.pending = s.pending /\ t.inflight = s.inflight /\ t.link = s.link
             /\ t.routes = s.routes /\ t.listed = s.listed
             /\ t.deferred = [s.deferred EXCEPT ![l] = Without(s.deferred[l], Range(m))]
             /\ t.queue = [s.queue EXCEPT ![l] = s.queue[l] \o m]
             /\ t.log = [b \in Bundle |-> IF b \in Range(m)
                                          THEN [s.log[b] EXCEPT ![l] = "QUEUED"] ELSE s.log[b]]
             /\ t.aside = {p \in s.aside : p[2] # l}
                            \cup ((Range(s.deferred[l]) \ MayGo(s, l)) \X {l})
<1> DEFINE m == Moved(s, l)
           passed == Range(s.deferred[l]) \ Range(Sendable(s, l))
           t == CheckNextHop(s, l)
           d == [s.deferred EXCEPT ![l] = Without(s.deferred[l], Range(m))]
           q == [s.queue EXCEPT ![l] = s.queue[l] \o m]
           g == [b \in Bundle |-> IF b \in Range(m)
                                  THEN [s.log[b] EXCEPT ![l] = "QUEUED"] ELSE s.log[b]]
           a == {p \in s.aside : p[2] # l} \cup (passed \X {l})
<1>1. m \in Seq(Bundle) /\ passed = Range(s.deferred[l]) \ MayGo(s, l)
  <2>1. Moved(s, l) \in Seq(Bundle)
    BY MovedFacts
  <2>2. Range(Sendable(s, l)) = Range(s.deferred[l]) \cap MayGo(s, l)
    BY MovedFacts
  <2> QED BY <2>1, <2>2
<1>2. s.deferred[l] \in Seq(Bundle) /\ s.queue[l] \in Seq(Bundle)
  BY StateFields
<1>3. t = [s EXCEPT !.deferred = d, !.queue = q, !.log = g, !.aside = a]
  BY DEF CheckNextHop, States
<1>4. d \in [Link -> Seq(Bundle)]
  <2>1. Without(s.deferred[l], Range(m)) \in Seq(Bundle)
    BY <1>2, WithoutFacts
  <2> HIDE DEF m
  <2> QED BY <2>1, StateFields
<1>5. q \in [Link -> Seq(Bundle)]
  <2>1. s.queue[l] \o m \in Seq(Bundle)
    BY <1>1, <1>2
  <2> HIDE DEF m
  <2> QED BY <2>1, StateFields
<1>6. g \in [Bundle -> [Link -> Entry]]
  <2> HIDE DEF m
  <2> QED BY StateFields DEF Entry
<1>7. a \subseteq Bundle \X Link
  <2>1. Range(s.deferred[l]) \subseteq Bundle
    BY <1>2, RangeOfSeq
  <2> QED BY <2>1, StateFields
<1> HIDE DEF m, passed, d, q, g, a, t
<1>8. t \in States
  BY <1>3, <1>4, <1>5, <1>6, <1>7 DEF States
<1>9. /\ t.pending = s.pending /\ t.inflight = s.inflight /\ t.link = s.link
      /\ t.routes = s.routes /\ t.listed = s.listed
      /\ t.deferred = d /\ t.queue = q /\ t.log = g /\ t.aside = a
  BY <1>3 DEF States
<1> QED
  BY <1>1, <1>8, <1>9 DEF m, d, q, g, a, t

\* What every part of routing leaves as it was: no bundle falls off the lists, nothing is
\* queued on a link that is not open, and a link that was offered what waits for it still is.
Follows(s, t) ==
  /\ t.pending = s.pending /\ t.inflight = s.inflight
  /\ t.routes = s.routes /\ t.listed = s.listed
  /\ \A l \in Link : t.link[l] = s.link[l] \/ (s.link[l] = "AVAILABLE" /\ t.link[l] = "OPENING")
  /\ \A l \in Link : s.link[l] # "OPEN" => t.queue[l] = s.queue[l]
  /\ \A b \in Bundle : Placed(s, b) => Placed(t, b)
  /\ \A b \in Bundle, l \in Link : s.log[b][l] = "TRANSMITTED" => t.log[b][l] = "TRANSMITTED"
  /\ \A l \in Link : Offered(s, l) => Offered(t, l)

LEMMA FollowsItself == ASSUME NEW s PROVE Follows(s, s)
BY DEF Follows

LEMMA FollowsOn ==
  ASSUME NEW s, NEW t, NEW u, Follows(s, t), Follows(t, u)
  PROVE  Follows(s, u)
<1>1. /\ u.pending = s.pending /\ u.inflight = s.inflight
      /\ u.routes = s.routes /\ u.listed = s.listed
  BY DEF Follows
<1>2. \A l \in Link : u.link[l] = s.link[l] \/ (s.link[l] = "AVAILABLE" /\ u.link[l] = "OPENING")
  BY DEF Follows
<1>3. \A l \in Link : s.link[l] # "OPEN" => u.queue[l] = s.queue[l]
  BY DEF Follows
<1>4. \A b \in Bundle : Placed(s, b) => Placed(u, b)
  BY DEF Follows
<1>5. \A b \in Bundle, l \in Link : s.log[b][l] = "TRANSMITTED" => u.log[b][l] = "TRANSMITTED"
  BY DEF Follows
<1>6. \A l \in Link : Offered(s, l) => Offered(u, l)
  BY DEF Follows
<1> QED
  BY <1>1, <1>2, <1>3, <1>4, <1>5, <1>6 DEF Follows

LEMMA CheckSound ==
  ASSUME NEW S \in SUBSET Bundle, NEW s, Sound(s, S), NEW l \in Link
  PROVE  Sound(CheckNextHop(s, l), S)
<1>1. CASE ~ Ready(s, l)
  BY <1>1 DEF CheckNextHop
<1>2. CASE Ready(s, l)
  <2> DEFINE t == CheckNextHop(s, l)
             m == Moved(s, l)
             rest == Without(s.deferred[l], Range(m))
             full == s.queue[l] \o m
  <2>1. s \in States /\ DeferredSound(s) /\ IsInjective(s.deferred[l]) /\ Len(s.queue[l]) <= QueueHigh
    BY DEF Sound, DeferredSound
  <2>2. /\ t \in States /\ t.inflight = s.inflight /\ t.listed = s.listed
        /\ t.deferred = [s.deferred EXCEPT ![l] = rest]
        /\ t.queue = [s.queue EXCEPT ![l] = full]
        /\ t.log = [b \in Bundle |-> IF b \in Range(m)
                                     THEN [s.log[b] EXCEPT ![l] = "QUEUED"] ELSE s.log[b]]
    BY <1>2, <2>1, Checked
  <2>3. /\ m \in Seq(Bundle) /\ Len(s.queue[l]) + Len(m) <= QueueHigh
        /\ Range(m) \subseteq Range(s.deferred[l]) \cap MayGo(s, l) /\ \A x : Once(m, x)
    BY <1>2, <2>1, MovedFacts
  <2>4. s.deferred[l] \in Seq(Bundle) /\ s.queue[l] \in Seq(Bundle)
    BY <2>1, StateFields
  <2>5. /\ rest \in Seq(Bundle) /\ Range(rest) = Range(s.deferred[l]) \ Range(m)
        /\ IsInjective(rest)
    <3>1. \A x : Once(s.deferred[l], x)
      BY <2>1, InjectiveOnce
    <3> HIDE DEF m
    <3>2. /\ rest \in Seq(Bundle) /\ Range(rest) = Range(s.deferred[l]) \ Range(m)
          /\ \A x : Once(rest, x)
      BY <2>4, <3>1, WithoutFacts
    <3> HIDE DEF rest
    <3> QED BY <3>2, InjectiveOnce
  <2>6. /\ full \in Seq(Bundle) /\ Len(full) = Len(s.queue[l]) + Len(m)
        /\ Range(full) = Range(s.queue[l]) \cup Range(m)
        /\ \A x : Once(s.queue[l], x) /\ (x \in Range(s.queue[l]) => x \notin Range(m))
                    => Once(full, x)
    <3> HIDE DEF m
    <3> QED BY <2>3, <2>4, ConcatFacts
  <2> HIDE DEF t, m, rest, full
  <2>7. \A k \in Link : /\ t.deferred[k] = IF k = l THEN rest ELSE s.deferred[k]
                        /\ t.queue[k] = IF k = l THEN full ELSE s.queue[k]
    BY <2>1, <2>2, StateFields
  <2>8. DeferredSound(t)
    <3>1. ASSUME NEW k \in Link, k # l
          PROVE  /\ IsInjective(t.deferred[k]) /\ Len(t.queue[k]) <= QueueHigh
                 /\ t.deferred[k] # <<>> => k \in t.listed
      BY <2>1, <2>2, <2>7, <3>1 DEF DeferredSound
    <3>2. rest # <<>> => s.deferred[l] # <<>>
      BY <2>4, <2>5, EmptyRange
    <3>3. /\ IsInjective(t.deferred[l]) /\ Len(t.queue[l]) <= QueueHigh
          /\ t.deferred[l] # <<>> => l \in t.listed
      BY <2>1, <2>2, <2>3, <2>5, <2>6, <2>7, <3>2 DEF DeferredSound
    <3> QED BY <3>1, <3>3 DEF DeferredSound
  <2>9. ASSUME NEW b \in S PROVE LogSound(t, b)
    <3>1. b \in Bundle /\ LogSound(s, b)
      BY DEF Sound
    <3>2. \A k \in Link : On(t, b, k) <=> On(s, b, k) \/ (k = l /\ b \in Range(m))
      BY <2>2, <2>6, <2>7 DEF On
    <3>3. \A k \in Link : s.log[b][k] \in Entry
      BY <2>1, <3>1, StateFields
    <3>4. \A k \in Link : t.log[b][k] = IF k = l /\ b \in Range(m) THEN "QUEUED" ELSE s.log[b][k]
      BY <2>1, <2>2, <3>1, StateFields
    <3>5. CASE b \in Range(m)
      <4>1. \A k \in Link : s.log[b][k] \notin {"QUEUED", "TRANSMITTED"}
        BY <2>3, <3>5 DEF MayGo, ShouldFwd
      <4>2. \A k \in Link : ~ On(s, b, k)
        BY <3>1, <4>1 DEF LogSound
      <4>3. Once(full, b)
        BY <2>6, <3>1, <4>2 DEF LogSound, On
      <4>4. \A k \in Link : b \notin Range(s.inflight[k])
        BY <4>2 DEF On
      <4>5. ASSUME NEW k \in Link PROVE
              /\ t.log[b][k] = "QUEUED" <=> On(t, b, k)
              /\ Once(t.queue[k], b)
              /\ b \in Range(t.queue[k]) => b \notin Range(t.inflight[k])
              /\ On(t, b, k) => \A j \in Link \ {k} : ~ On(t, b, j) /\ t.log[b][j] # "TRANSMITTED"
        BY <2>2, <2>7, <3>1, <3>2, <3>4, <3>5, <4>1, <4>2, <4>3, <4>4 DEF LogSound
      <4> QED BY <4>5 DEF LogSound
    <3>6. CASE b \notin Range(m)
      <4>1. Once(full, b)
        BY <2>6, <3>1, <3>6 DEF LogSound
      <4>2. b \in Range(t.queue[l]) <=> b \in Range(s.queue[l])
        BY <2>6, <2>7, <3>6
      <4>3. ASSUME NEW k \in Link PROVE
              /\ t.log[b][k] = "QUEUED" <=> On(t, b, k)
              /\ Once(t.queue[k], b)
              /\ b \in Range(t.queue[k]) => b \notin Range(t.inflight[k])
              /\ On(t, b, k) => \A j \in Link \ {k} : ~ On(t, b, j) /\ t.log[b][j] # "TRANSMITTED"
        BY <2>2, <2>7, <3>1, <3>2, <3>4, <3>6, <4>1, <4>2 DEF LogSound
      <4> QED BY <4>3 DEF LogSound
    <3> QED BY <3>5, <3>6
  <2> QED BY <2>2, <2>8, <2>9 DEF Sound, t
<1> QED
  BY <1>1, <1>2

LEMMA CheckFollows ==
  ASSUME NEW s \in States, DeferredSound(s), NEW l \in Link
  PROVE  Follows(s, CheckNextHop(s, l)) /\ Offered(CheckNextHop(s, l), l)
<1>1. CASE ~ Ready(s, l)
  <2>1. Offered(s, l)
    <3>1. Len(<<>>) < QueueLow
      BY QueueLimits
    <3> QED BY <1>1, <3>1 DEF Offered, Ready
  <2> QED BY <1>1, <2>1, FollowsItself DEF CheckNextHop
<1>2. CASE Ready(s, l)
  <2> DEFINE t == CheckNextHop(s, l)
             m == Moved(s, l)
             rest == Without(s.deferred[l], Range(m))
             full == s.queue[l] \o m
  <2>1. IsInjective(s.deferred[l])
    BY DEF DeferredSound
  <2>2. /\ t \in States
        /\ t.pending = s.pending /\ t.inflight = s.inflight /\ t.link = s.link
        /\ t.routes = s.routes /\ t.listed = s.listed
        /\ t.deferred = [s.deferred EXCEPT ![l] = rest]
        /\ t.queue = [s.queue EXCEPT ![l] = full]
        /\ t.log = [b \in Bundle |-> IF b \in Range(m)
                                     THEN [s.log[b] EXCEPT ![l] = "QUEUED"] ELSE s.log[b]]
        /\ t.aside = {p \in s.aside : p[2] # l} \cup ((Range(s.deferred[l]) \ MayGo(s, l)) \X {l})
    BY <1>2, <2>1, Checked
  <2>3. /\ m \in Seq(Bundle) /\ Range(m) \subseteq Range(s.deferred[l]) \cap MayGo(s, l)
        /\ m = <<>> => Range(s.deferred[l]) \cap MayGo(s, l) = {}
    BY <1>2, <2>1, MovedFacts
  <2>4. s.deferred[l] \in Seq(Bundle) /\ s.queue[l] \in Seq(Bundle)
    BY StateFields
  <2>5. Range(rest) = Range(s.deferred[l]) \ Range(m)
    <3> HIDE DEF m
    <3> QED BY <2>4, WithoutFacts
  <2>6. Range(full) = Range(s.queue[l]) \cup Range(m) /\ (full = <<>> => m = <<>> /\ s.queue[l] = <<>>)
    <3> HIDE DEF m
    <3> QED BY <2>3, <2>4, ConcatFacts, ConcatEqualIffEmpty
  <2> HIDE DEF t, m, rest, full
  <2>7. \A k \in Link : /\ t.deferred[k] = IF k = l THEN rest ELSE s.deferred[k]
                        /\ t.queue[k] = IF k = l THEN full ELSE s.queue[k]
    BY <2>2, StateFields
  <2>8. ASSUME NEW b \in Bundle, Placed(s, b) PROVE Placed(t, b)
    <3>1. PICK k \in Link : Waiting(s, b, k) \/ On(s, b, k)
      BY <2>8 DEF Placed
    <3>2. Waiting(t, b, k) \/ On(t, b, k)
      BY <2>2, <2>5, <2>6, <2>7, <3>1 DEF Waiting, On
    <3> QED BY <3>2 DEF Placed
  <2>9. ASSUME NEW b \in Bundle, NEW k \in Link, s.log[b][k] = "TRANSMITTED"
        PROVE  t.log[b][k] = "TRANSMITTED"
    <3>1. b \notin Range(m)
      BY <2>3, <2>9 DEF MayGo, ShouldFwd
    <3> QED BY <2>2, <2>9, <3>1
  <2>10. Offered(t, l)
    <3>1. full = <<>> => \A b \in Range(rest) : <<b, l>> \in t.aside
      <4>1. full = <<>> => Range(s.deferred[l]) \cap MayGo(s, l) = {}
        BY <2>3, <2>6
      <4> QED BY <2>2, <2>5, <4>1
    <3> QED BY <2>7, <3>1 DEF Offered
  <2>11. \A k \in Link : Offered(s, k) => Offered(t, k)
    <3>1. ASSUME NEW k \in Link, k # l, Offered(s, k) PROVE Offered(t, k)
      BY <2>2, <2>7, <3>1 DEF Offered
    <3> QED BY <2>10, <3>1
  <2>12. s.link[l] = "OPEN"
    BY <1>2 DEF Ready
  <2>13. Follows(s, t)
    BY <2>2, <2>7, <2>8, <2>9, <2>11, <2>12 DEF Follows
  <2> QED BY <2>10, <2>13 DEF t
<1> QED
  BY <1>1, <1>2

-----------------------------------------------------------------------------
(* Folds: what the library computes by recursion over the subsets of a finite set *)

LEMMA SmallestSet ==
  ASSUME NEW S, NEW T, T \subseteq FiniteSubsetsOf(S), T # {}
  PROVE  \E m \in T : \A u \in T : u \subseteq m => u = m
<1>1. PICK m \in T : \A u \in T : <<u, m>> \notin StrictSubsetOrdering(S)
  BY FS_StrictSubsetOrderingWellFounded, WFMin
<1>2. T \subseteq SUBSET S
  BY DEF FiniteSubsetsOf
<1> QED
  BY <1>1, <1>2 DEF StrictSubsetOrdering

\* c picks an element of every part of S.
Picks(c, S) == \A u \in SUBSET S : u # {} => c[u] \in u

\* What holds of {}, and of a set when it holds without the element c picks, holds of S.
LEMMA ByRemoval ==
  ASSUME NEW S, IsFiniteSet(S), NEW c, Picks(c, S),
         NEW T, {} \in T, \A u \in SUBSET S : u # {} /\ u \ {c[u]} \in T => u \in T
  PROVE  S \in T
<1> DEFINE bad == {u \in FiniteSubsetsOf(S) : u \notin T}
<1>1. SUFFICES ASSUME bad # {} PROVE FALSE
  BY DEF FiniteSubsetsOf
<1>2. PICK m \in bad : \A u \in bad : u \subseteq m => u = m
  <2>1. bad \subseteq FiniteSubsetsOf(S)
    OBVIOUS
  <2> HIDE DEF bad
  <2> QED BY <1>1, <2>1, SmallestSet
<1>3. m \in SUBSET S /\ IsFiniteSet(m) /\ m # {} /\ m \notin T /\ c[m] \in m
  BY DEF FiniteSubsetsOf, Picks
<1>4. /\ m \ {c[m]} \in FiniteSubsetsOf(S) /\ m \ {c[m]} \subseteq m /\ m \ {c[m]} # m
  BY <1>3, FS_Subset DEF FiniteSubsetsOf
<1> QED
  BY <1>2, <1>3, <1>4

\* g holds, for every part of S, what step F makes of base with its members one by one.
IsFold(S, A, base, F, c, g) ==
  /\ g \in [SUBSET S -> A]
  /\ \A u \in SUBSET S : g[u] = IF u = {} THEN base ELSE F[<<c[u], g[u \ {c[u]}]>>]

\* A step that keeps a value in A can be applied to the members of a finite set one by one.
LEMMA FoldExists ==
  ASSUME NEW S, IsFiniteSet(S), NEW A, NEW base \in A, NEW F \in [S \X A -> A],
         NEW c, Picks(c, S)
  PROVE  \E g : IsFold(S, A, base, F, c, g)
<1> DEFINE Next1(g) == [u \in SUBSET S |-> IF u = {} THEN base ELSE F[<<c[u], g[u \ {c[u]}]>>]]
           Upto(g, n) == \A u \in SUBSET S : Cardinality(u) <= n => g[u] = Next1(g)[u]
           without == {n \in Nat : ~ \E g \in [SUBSET S -> A] : Upto(g, n)}
<1>1. \A u \in SUBSET S : u # {} => u \ {c[u]} \in SUBSET S /\ c[u] \in S /\ c[u] \in u
  BY DEF Picks
<1>2. ASSUME NEW g \in [SUBSET S -> A] PROVE Next1(g) \in [SUBSET S -> A]
  <2>1. ASSUME NEW u \in SUBSET S
        PROVE  (IF u = {} THEN base ELSE F[<<c[u], g[u \ {c[u]}]>>]) \in A
    <3>1. CASE u # {}
      <4>1. <<c[u], g[u \ {c[u]}]>> \in S \X A
        BY <1>1, <3>1
      <4> QED BY <3>1, <4>1
    <3> QED BY <3>1
  <2> QED BY <2>1
<1>3. \A u \in SUBSET S : IsFiniteSet(u) /\ Cardinality(u) \in Nat /\ (u # {} => Cardinality(u) > 0)
  BY FS_Subset, FS_CardinalityType, FS_EmptySet
<1>4. \A u \in SUBSET S : u # {} => Cardinality(u \ {c[u]}) = Cardinality(u) - 1
  BY <1>1, <1>3, FS_RemoveElement
<1>5. without = {}
  <2>1. SUFFICES ASSUME without # {} PROVE FALSE
    OBVIOUS
  <2>2. PICK m \in without : \A n \in without : m <= n
    <3>1. without \in SUBSET Nat
      OBVIOUS
    <3> HIDE DEF without
    <3> QED BY <2>1, <3>1, LeastNatural
  <2>3. CASE m = 0
    <3> DEFINE g == [u \in SUBSET S |-> base]
    <3>1. g \in [SUBSET S -> A] /\ \A u \in SUBSET S : g[u] = base
      OBVIOUS
    <3>2. \A u \in SUBSET S : Cardinality(u) <= 0 => u = {}
      BY <1>3
    <3>3. \A u \in SUBSET S : u = {} => Next1(g)[u] = base
      OBVIOUS
    <3>4. Upto(g, 0)
      <4> HIDE DEF g, Next1
      <4> QED BY <3>1, <3>2, <3>3
    <3> QED BY <2>3, <3>1, <3>4
  <2>4. CASE m # 0
    <3>1. PICK g \in [SUBSET S -> A] : Upto(g, m - 1)
      <4>1. m - 1 \in Nat /\ ~ (m <= m - 1)
        BY <2>4
      <4> HIDE DEF Upto
      <4> QED BY <2>2, <4>1
    <3> DEFINE h == Next1(g)
    <3>2. h \in [SUBSET S -> A]
      BY <1>2
    <3>3. ASSUME NEW u \in SUBSET S, Cardinality(u) <= m PROVE h[u] = Next1(h)[u]
      <4>1. CASE u = {}
        BY <4>1
      <4>2. CASE u # {}
        <5> DEFINE v == u \ {c[u]}
        <5>1. v \in SUBSET S /\ Cardinality(v) <= m - 1
          <6>1. v \in SUBSET S /\ Cardinality(v) = Cardinality(u) - 1 /\ m \in Nat
            BY <1>4, <4>2
          <6> HIDE DEF v
          <6> QED BY <1>3, <3>3, <6>1
        <5>2. g[v] = h[v]
          <6> HIDE DEF v, Next1
          <6> QED BY <3>1, <5>1
        <5>3. h[u] = F[<<c[u], g[v]>>] /\ Next1(h)[u] = F[<<c[u], h[v]>>]
          <6>1. \A k \in [SUBSET S -> A] : Next1(k)[u] = F[<<c[u], k[u \ {c[u]}]>>]
            BY <4>2
          <6> HIDE DEF h, Next1
          <6> QED BY <3>2, <6>1 DEF h
        <5> HIDE DEF h, v, Next1
        <5> QED BY <5>2, <5>3
      <4> QED BY <4>1, <4>2
    <3>4. Upto(h, m)
      <4> HIDE DEF h, Next1
      <4> QED BY <3>3
    <3> HIDE DEF h, Upto
    <3> QED BY <3>2, <3>4
  <2> QED BY <2>3, <2>4
<1>6. Cardinality(S) \in Nat /\ \A u \in SUBSET S : Cardinality(u) <= Cardinality(S)
  BY FS_Subset, FS_CardinalityType
<1>7. PICK g \in [SUBSET S -> A] : Upto(g, Cardinality(S))
  <2> HIDE DEF Upto
  <2> QED BY <1>5, <1>6
<1>8. \A u \in SUBSET S : g[u] = Next1(g)[u]
  <2> HIDE DEF Next1
  <2> QED BY <1>6, <1>7
<1> QED
  BY <1>8 DEF IsFold

LEMMA MaxIn ==
  ASSUME NEW u \in SUBSET Nat, IsFiniteSet(u), u # {}
  PROVE  Max(u) \in u
<1> DEFINE topless == {v \in FiniteSubsetsOf(u) : v # {} /\ ~ \E x \in v : \A y \in v : x >= y}
<1>1. topless = {}
  <2>1. SUFFICES ASSUME topless # {} PROVE FALSE
    OBVIOUS
  <2>2. PICK m \in topless : \A v \in topless : v \subseteq m => v = m
    <3>1. topless \subseteq FiniteSubsetsOf(u)
      OBVIOUS
    <3> HIDE DEF topless
    <3> QED BY <2>1, <3>1, SmallestSet
  <2>3. m \in SUBSET u /\ IsFiniteSet(m) /\ m # {} /\ ~ \E x \in m : \A y \in m : x >= y
    BY DEF FiniteSubsetsOf
  <2>4. PICK z \in m : TRUE
    BY <2>3
  <2>5. m \ {z} \in FiniteSubsetsOf(u) /\ m \ {z} \subseteq m /\ m \ {z} # m
    BY <2>3, <2>4, FS_Subset DEF FiniteSubsetsOf
  <2>6. m \ {z} = {} \/ \E x \in m \ {z} : \A y \in m \ {z} : x >= y
    BY <2>2, <2>5
  <2>7. CASE m \ {z} = {}
    <3>1. \A y \in m : y = z /\ z \in Nat
      BY <2>3, <2>4, <2>7
    <3> QED BY <2>3, <2>4, <3>1
  <2>8. CASE \E x \in m \ {z} : \A y \in m \ {z} : x >= y
    <3>1. PICK x \in m \ {z} : \A y \in m \ {z} : x >= y
      BY <2>8
    <3>2. x \in Nat /\ z \in Nat /\ \A y \in m : y \in Nat
      BY <2>3, <2>4
    <3>3. \A y \in m : (IF x >= z THEN x ELSE z) >= y
      BY <3>1, <3>2
    <3> QED BY <2>3, <2>4, <3>1, <3>3
  <2> QED BY <2>6, <2>7, <2>8
<1>2. u \in FiniteSubsetsOf(u)
  BY DEF FiniteSubsetsOf
<1>3. \E x \in u : \A y \in u : x >= y
  BY <1>1, <1>2
<1> QED
  BY <1>3, Zenon DEF Max

-----------------------------------------------------------------------------
(* route_bundle *)

LEMMA ListOfSet ==
  ASSUME NEW B, NEW T \in SUBSET B, IsFiniteSet(T)
  PROVE  SetToSeq(T) \in Seq(B)
<1>1. PICK n \in Nat : ExistsBijection(1 .. n, T)
  BY FS_NatBijection
<1>2. Cardinality(T) = n
  BY <1>1, FS_CountingElements
<1>3. PICK f \in Bijection(1 .. n, T) : TRUE
  BY <1>1 DEF ExistsBijection
<1>4. f \in [1 .. n -> T] /\ IsInjective(f)
  BY <1>3 DEF Bijection, Injection, Surjection, IsInjective
<1>5. SetToSeq(T) \in [1 .. n -> T]
  <2>1. \E k \in [1 .. Cardinality(T) -> T] : IsInjective(k)
    BY <1>2, <1>4
  <2>2. (CHOOSE k \in [1 .. Cardinality(T) -> T] : IsInjective(k)) \in [1 .. Cardinality(T) -> T]
    BY <2>1
  <2> QED BY <1>2, <2>2 DEF SetToSeq
<1> QED
  BY <1>5, SeqDef

LEMMA FlattenTwo ==
  ASSUME NEW B, NEW n \in {1, 2}, NEW seqs \in [1 .. n -> Seq(B)]
  PROVE  FlattenSeq(seqs) \in Seq(B)
<1> DEFINE Flat(f) == f = [i \in 1 .. Len(seqs) |->
                            IF i = 1 THEN seqs[i] ELSE f[i - 1] \o seqs[i]]
           g == CHOOSE f : Flat(f)
           h == [i \in 1 .. n |-> IF i = 1 THEN seqs[1] ELSE seqs[1] \o seqs[2]]
<1>1. Len(seqs) = n
  OBVIOUS
<1>2. Flat(h)
  <2>1. \A i \in 1 .. n : h[i] = IF i = 1 THEN seqs[i] ELSE h[i - 1] \o seqs[i]
    OBVIOUS
  <2>2. h = [i \in 1 .. n |-> h[i]]
    OBVIOUS
  <2> HIDE DEF h
  <2> QED BY <1>1, <2>1, <2>2
<1>3. Flat(g)
  <2> HIDE DEF h, Flat
  <2> QED BY <1>2
<1>4. \A i \in 1 .. n : g[i] = IF i = 1 THEN seqs[i] ELSE g[i - 1] \o seqs[i]
  <2> HIDE DEF g
  <2> QED BY <1>1, <1>3
<1>5. FlattenSeq(seqs) = g[n]
  BY <1>1 DEF FlattenSeq
<1>6. g[n] \in Seq(B)
  <2> HIDE DEF g
  <2>1. g[1] = seqs[1] /\ g[1] \in Seq(B)
    BY <1>4
  <2>2. CASE n = 2
    <3>1. g[2] = g[1] \o seqs[2] /\ seqs[2] \in Seq(B)
      BY <1>4, <2>2
    <3> QED BY <2>1, <2>2, <3>1, ConcatProperties
  <2> QED BY <2>1, <2>2
<1> QED
  BY <1>5, <1>6

LEMMA MatchesSeq ==
  ASSUME NEW s \in States, NEW b \in Bundle, NEW hops \in Answers(b)
  PROVE  Matches(s, hops) \in Seq(Link)
<1>1. \E n \in {1, 2} : DOMAIN hops = 1 .. n
  BY DEF Answers
<1>2. PICK n \in {1, 2} : DOMAIN hops = 1 .. n
  BY <1>1
<1> DEFINE of(i) == SetToSeq({l \in s.routes : Remote[l] = hops[i]})
           seqs == [i \in 1 .. n |-> of(i)]
<1>3. ASSUME NEW i \in 1 .. n PROVE of(i) \in Seq(Link)
  <2>1. {l \in s.routes : Remote[l] = hops[i]} \in SUBSET Link
    BY StateFields
  <2>2. IsFiniteSet(Link)
    BY RouterAssumption DEF RouterAssumption
  <2> QED BY <2>1, <2>2, FS_Subset, ListOfSet
<1>4. seqs \in [1 .. n -> Seq(Link)]
  <2> HIDE DEF of
  <2> QED BY <1>3
<1>5. Matches(s, hops) = FlattenSeq(seqs)
  BY <1>2 DEF Matches
<1> HIDE DEF seqs
<1> QED
  BY <1>4, <1>5, FlattenTwo

\* The bundle is on the list of one more link, whatever the link had been offered.
LEMMA GivenFacts ==
  ASSUME NEW S \in SUBSET Bundle, NEW s, Sound(s, S), NEW b \in Bundle, NEW l \in Link,
         ~ Skipped(s, b, l)
  PROVE  LET t == FwdToNexthop(s, b, l) IN
         /\ Sound(t, S)
         /\ t.pending = s.pending /\ t.inflight = s.inflight
         /\ t.routes = s.routes /\ t.listed = s.listed
         /\ t.queue = s.queue /\ t.log = s.log /\ t.aside = s.aside
         /\ \A k \in Link :
              /\ t.link[k] = s.link[k] \/ (s.link[k] = "AVAILABLE" /\ t.link[k] = "OPENING")
              /\ t.deferred[k] = IF k = l THEN Append(s.deferred[l], b) ELSE s.deferred[k]
              /\ Range(t.deferred[k]) = Range(s.deferred[k]) \cup (IF k = l THEN {b} ELSE {})
<1> DEFINE t == FwdToNexthop(s, b, l)
           d == [s.deferred EXCEPT ![l] = Append(s.deferred[l], b)]
           st == IF s.link[l] = "AVAILABLE" THEN "OPENING" ELSE s.link[l]
           k0 == [s.link EXCEPT ![l] = st]
<1>1. s \in States /\ DeferredSound(s) /\ l \in s.listed /\ b \notin Range(s.deferred[l])
  BY DEF Sound, Skipped, Waiting
<1>2. s.deferred \in [Link -> Seq(Bundle)] /\ s.link \in [Link -> LinkState]
  BY <1>1, StateFields
<1>3. t = [s EXCEPT !.link = k0, !.deferred = d]
  BY <1>1 DEF FwdToNexthop, States
<1>4. /\ Append(s.deferred[l], b) \in Seq(Bundle)
      /\ Range(Append(s.deferred[l], b)) = Range(s.deferred[l]) \cup {b}
      /\ IsInjective(Append(s.deferred[l], b))
  <2> DEFINE longer == Append(s.deferred[l], b)
  <2>1. IsInjective(s.deferred[l]) /\ s.deferred[l] \in Seq(Bundle)
    BY <1>1, <1>2 DEF DeferredSound
  <2>2. \A x : Once(s.deferred[l], x)
    BY <2>1, InjectiveOnce
  <2>3. /\ longer \in Seq(Bundle) /\ Range(longer) = Range(s.deferred[l]) \cup {b}
        /\ \A x : Once(longer, x)
    BY <1>1, <2>1, <2>2, AppendFacts
  <2> HIDE DEF longer
  <2>4. IsInjective(longer)
    BY <2>3, InjectiveOnce
  <2> QED BY <2>3, <2>4 DEF longer
<1>5. d \in [Link -> Seq(Bundle)] /\ \A k \in Link : d[k] = IF k = l THEN Append(s.deferred[l], b) ELSE s.deferred[k]
  BY <1>2, <1>4
<1>6. k0 \in [Link -> LinkState] /\ \A k \in Link : k0[k] = s.link[k] \/ (s.link[k] = "AVAILABLE" /\ k0[k] = "OPENING")
  BY <1>2 DEF LinkState
<1> HIDE DEF t, d, k0
<1>7. /\ t \in States
      /\ t.pending = s.pending /\ t.inflight = s.inflight /\ t.link = k0
      /\ t.routes = s.routes /\ t.listed = s.listed /\ t.deferred = d
      /\ t.queue = s.queue /\ t.log = s.log /\ t.aside = s.aside
  BY <1>1, <1>3, <1>5, <1>6 DEF States
<1>8. DeferredSound(t)
  BY <1>1, <1>4, <1>5, <1>7 DEF DeferredSound
<1>9. ASSUME NEW x \in S PROVE LogSound(t, x)
  <2>1. LogSound(s, x)
    BY DEF Sound
  <2> QED BY <1>7, <2>1 DEF LogSound, On
<1>10. \A k \in Link : Range(t.deferred[k]) = Range(s.deferred[k]) \cup (IF k = l THEN {b} ELSE {})
  BY <1>4, <1>5, <1>7
<1>11. Sound(t, S)
  BY <1>7, <1>8, <1>9 DEF Sound
<1> QED
  BY <1>5, <1>6, <1>7, <1>10, <1>11 DEF t

LEMMA TryKeeps ==
  ASSUME NEW S \in SUBSET Bundle, NEW s, Sound(s, S), NEW b \in Bundle, NEW l \in Link,
         ~ Skipped(s, b, l), NEW checks \in BOOLEAN
  PROVE  Sound(TryRoute(s, b, l, checks), S) /\ Follows(s, TryRoute(s, b, l, checks))
<1> DEFINE t == FwdToNexthop(s, b, l)
           u == TryRoute(s, b, l, checks)
<1>1. /\ Sound(t, S)
      /\ t.pending = s.pending /\ t.inflight = s.inflight
      /\ t.routes = s.routes /\ t.listed = s.listed
      /\ t.queue = s.queue /\ t.log = s.log /\ t.aside = s.aside
      /\ \A k \in Link :
           /\ t.link[k] = s.link[k] \/ (s.link[k] = "AVAILABLE" /\ t.link[k] = "OPENING")
           /\ t.deferred[k] = IF k = l THEN Append(s.deferred[l], b) ELSE s.deferred[k]
           /\ Range(t.deferred[k]) = Range(s.deferred[k]) \cup (IF k = l THEN {b} ELSE {})
  BY GivenFacts
<1>2. t \in States /\ DeferredSound(t)
  BY <1>1 DEF Sound
<1> HIDE DEF t
<1>3. \A x \in Bundle : Placed(s, x) => Placed(t, x)
  BY <1>1 DEF Placed, Waiting, On
<1>4. \A k \in Link \ {l} : Offered(s, k) => Offered(t, k)
  <2>1. ASSUME NEW k \in Link \ {l}, Offered(s, k) PROVE Offered(t, k)
    <3>1. t.link[k] = "OPEN" => s.link[k] = "OPEN"
      BY <1>1
    <3> QED BY <1>1, <2>1, <3>1 DEF Offered
  <2> QED BY <2>1
<1>5. CASE checks
  <2>1. u = CheckNextHop(t, l)
    BY <1>5 DEF TryRoute, t
  <2>2. Sound(u, S)
    BY <1>1, <2>1, CheckSound
  <2>3. Follows(t, u) /\ Offered(u, l)
    BY <1>2, <2>1, CheckFollows
  <2> HIDE DEF u
  <2>4. /\ u.pending = s.pending /\ u.inflight = s.inflight
        /\ u.routes = s.routes /\ u.listed = s.listed
    BY <1>1, <2>3 DEF Follows
  <2>5. \A k \in Link : u.link[k] = s.link[k] \/ (s.link[k] = "AVAILABLE" /\ u.link[k] = "OPENING")
    BY <1>1, <2>3 DEF Follows
  <2>6. \A k \in Link : s.link[k] # "OPEN" => u.queue[k] = s.queue[k]
    <3>1. \A k \in Link : s.link[k] # "OPEN" => t.link[k] # "OPEN"
      BY <1>1
    <3> QED BY <1>1, <2>3, <3>1 DEF Follows
  <2>7. \A x \in Bundle : Placed(s, x) => Placed(u, x)
    BY <1>3, <2>3 DEF Follows
  <2>8. \A x \in Bundle, k \in Link : s.log[x][k] = "TRANSMITTED" => u.log[x][k] = "TRANSMITTED"
    BY <1>1, <2>3 DEF Follows
  <2>9. \A k \in Link : Offered(s, k) => Offered(u, k)
    BY <1>4, <2>3 DEF Follows
  <2>10. Follows(s, u)
    BY <2>4, <2>5, <2>6, <2>7, <2>8, <2>9 DEF Follows
  <2> QED BY <2>2, <2>10 DEF u
<1>6. CASE ~ checks
  <2> DEFINE a == t.aside \cup {<<b, l>>}
  <2>1. u = [t EXCEPT !.aside = a] /\ a \in SUBSET (Bundle \X Link)
    BY <1>2, <1>6, StateFields DEF TryRoute, t, States
  <2> HIDE DEF u, a
  <2>2. /\ u \in States
        /\ u.pending = t.pending /\ u.inflight = t.inflight /\ u.link = t.link
        /\ u.routes = t.routes /\ u.listed = t.listed /\ u.deferred = t.deferred
        /\ u.queue = t.queue /\ u.log = t.log /\ u.aside = a
    BY <1>2, <2>1 DEF States
  <2>3. Sound(u, S)
    <3>1. DeferredSound(u)
      BY <1>2, <2>2 DEF DeferredSound
    <3>2. ASSUME NEW x \in S PROVE LogSound(u, x)
      <4>1. LogSound(t, x)
        BY <1>1 DEF Sound
      <4> QED BY <2>2, <4>1 DEF LogSound, On
    <3> QED BY <2>2, <3>1, <3>2 DEF Sound
  <2>4. \A k \in Link : Offered(s, k) => Offered(u, k)
    <3>1. ASSUME NEW k \in Link, Offered(s, k) PROVE Offered(u, k)
      <4>1. u.link[k] = "OPEN" => s.link[k] = "OPEN"
        BY <1>1, <2>2
      <4> QED BY <1>1, <2>2, <3>1, <4>1 DEF Offered, a
    <3> QED BY <3>1
  <2>5. \A x \in Bundle : Placed(s, x) => Placed(u, x)
    BY <1>3, <2>2 DEF Placed, Waiting, On
  <2>6. Follows(s, u)
    BY <1>1, <2>2, <2>4, <2>5 DEF Follows
  <2> QED BY <2>3, <2>6 DEF u
<1> QED
  BY <1>5, <1>6

\* One turn of the loop over the matching routes.
RouteStep(b, checks, acc, l) ==
  IF acc.done \/ Skipped(acc.s, b, l) THEN acc
  ELSE [s |-> TryRoute(acc.s, b, l, checks), done |-> l \in AlwaysOn]

\* What is sound and follows s.
After(s, S) == {t \in States : Sound(t, S) /\ Follows(s, t)}

\* g holds the outcome for every part of the list of routes.
IsRouting(b, checks, seq, base, g) ==
  g = [u \in SUBSET DOMAIN seq |->
         IF u = {} THEN base ELSE RouteStep(b, checks, g[u \ {Max(u)}], seq[Max(u)])]

LEMMA RouteStepKeeps ==
  ASSUME NEW S \in SUBSET Bundle, NEW s, NEW b \in Bundle, NEW checks \in BOOLEAN,
         NEW acc \in [s : After(s, S), done : BOOLEAN], NEW l
  PROVE  RouteStep(b, checks, acc, l) \in [s : After(s, S), done : BOOLEAN]
<1>1. CASE acc.done \/ Skipped(acc.s, b, l)
  BY <1>1 DEF RouteStep
<1>2. CASE ~ (acc.done \/ Skipped(acc.s, b, l))
  <2> DEFINE u == TryRoute(acc.s, b, l, checks)
  <2>1. acc.s \in States /\ Sound(acc.s, S) /\ Follows(s, acc.s)
    BY DEF After
  <2>2. l \in Link
    BY <1>2, <2>1, StateFields DEF Skipped
  <2>3. Sound(u, S) /\ Follows(acc.s, u)
    BY <1>2, <2>1, <2>2, TryKeeps
  <2> HIDE DEF u
  <2>4. Follows(s, u) /\ u \in States
    BY <2>1, <2>3, FollowsOn DEF Sound
  <2>5. u \in After(s, S)
    BY <2>3, <2>4 DEF After
  <2>6. RouteStep(b, checks, acc, l) = [s |-> u, done |-> l \in AlwaysOn]
    BY <1>2 DEF RouteStep, u
  <2> QED BY <2>5, <2>6
<1> QED
  BY <1>1, <1>2

LEMMA RouteKeeps ==
  ASSUME NEW S \in SUBSET Bundle, NEW s, Sound(s, S), NEW b \in Bundle,
         NEW hops \in Answers(b), NEW checks \in BOOLEAN
  PROVE  RouteBundle(s, b, hops, checks) \in After(s, S)
<1> DEFINE seq == Matches(s, hops)
           D == DOMAIN seq
           base == [s |-> s, done |-> FALSE]
           A == [s : After(s, S), done : BOOLEAN]
           F == [p \in D \X A |-> RouteStep(b, checks, p[2], seq[p[1]])]
           c == [u \in SUBSET D |-> Max(u)]
           g == CHOOSE k : IsRouting(b, checks, seq, base, k)
<1>1. D \in SUBSET Nat /\ IsFiniteSet(D)
  <2>1. seq \in Seq(Link)
    BY MatchesSeq DEF Sound
  <2> HIDE DEF seq
  <2>2. D = 1 .. Len(seq) /\ Len(seq) \in Nat
    BY <2>1
  <2> QED BY <2>2, FS_Interval
<1>2. base \in A
  BY FollowsItself DEF After, Sound
<1> HIDE DEF seq, D
<1>3. F \in [D \X A -> A]
  <2>1. ASSUME NEW p \in D \X A PROVE RouteStep(b, checks, p[2], seq[p[1]]) \in A
    BY RouteStepKeeps
  <2> HIDE DEF A
  <2> QED BY <2>1
<1>4. Picks(c, D)
  <2>1. \A u \in SUBSET D : u # {} => Max(u) \in u
    BY <1>1, FS_Subset, MaxIn
  <2> QED BY <2>1 DEF Picks
<1>5. \A u \in SUBSET D : u # {} => c[u] = Max(u) /\ Max(u) \in D /\ u \ {Max(u)} \in SUBSET D
  BY <1>4 DEF Picks
<1> HIDE DEF c
<1>6. \E k : IsRouting(b, checks, seq, base, k)
  <2>1. PICK k : IsFold(D, A, base, F, c, k)
    <3> HIDE DEF A, F, base
    <3> QED BY <1>1, <1>2, <1>3, <1>4, FoldExists
  <2>2. k \in [SUBSET D -> A] /\ k[{}] = base
    <3> HIDE DEF A, F, base
    <3> QED BY <2>1 DEF IsFold
  <2>3. ASSUME NEW u \in SUBSET D, u # {}
        PROVE  k[u] = RouteStep(b, checks, k[u \ {Max(u)}], seq[Max(u)])
    <3>1. <<Max(u), k[u \ {Max(u)}]>> \in D \X A
      <4> HIDE DEF A
      <4> QED BY <1>5, <2>2, <2>3
    <3>2. k[u] = F[<<Max(u), k[u \ {Max(u)}]>>]
      <4> HIDE DEF A, F, base
      <4> QED BY <1>5, <2>1, <2>3 DEF IsFold
    <3> HIDE DEF A, base
    <3> QED BY <3>1, <3>2
  <2> HIDE DEF A, F, base
  <2>4. k = [u \in SUBSET D |->
               IF u = {} THEN base ELSE RouteStep(b, checks, k[u \ {Max(u)}], seq[Max(u)])]
    BY <2>2, <2>3
  <2>5. IsRouting(b, checks, seq, base, k)
    BY <2>4 DEF IsRouting, D
  <2> QED BY <2>5
<1>7. IsRouting(b, checks, seq, base, g)
  BY <1>6
<1> HIDE DEF g
<1>8. g[{}] = base /\ \A u \in SUBSET D : u # {} =>
        g[u] = RouteStep(b, checks, g[u \ {Max(u)}], seq[Max(u)])
  <2> HIDE DEF base
  <2> QED BY <1>7 DEF IsRouting, D
<1> HIDE DEF base, F
<1>9. g[D] \in A
  <2> DEFINE T == {u \in SUBSET D : g[u] \in A}
  <2>1. {} \in T
    BY <1>2, <1>8
  <2>2. ASSUME NEW u \in SUBSET D, u # {}, u \ {c[u]} \in T PROVE u \in T
    <3> DEFINE v == g[u \ {Max(u)}]
    <3>1. v \in A /\ g[u] = RouteStep(b, checks, v, seq[Max(u)])
      BY <1>5, <1>8, <2>2
    <3> HIDE DEF v
    <3>2. g[u] \in A
      BY <3>1, RouteStepKeeps
    <3> QED BY <3>2
  <2> HIDE DEF T
  <2>3. D \in T
    BY <1>1, <1>4, <2>1, <2>2, ByRemoval
  <2> QED BY <2>3 DEF T
<1>10. RouteBundle(s, b, hops, checks) = g[D].s
  BY DEF RouteBundle, FoldLeft, MapThenFoldSet, IsRouting, RouteStep, g, D, seq, base
<1> QED
  BY <1>9, <1>10

\* g holds the outcome for every part of the pending list.
IsRerouting(first, answer, base, P, g) ==
  g = [u \in SUBSET P |->
         IF u = {} THEN base
         ELSE RouteBundle(g[u \ {Max(u)}], Max(u), answer[Max(u)], Max(u) = first)]

LEMMA RerouteKeeps ==
  ASSUME NEW S \in SUBSET Bundle, NEW s, Sound(s, S), NEW t \in Reroutings(s)
  PROVE  t \in After(s, S)
<1> DEFINE P == s.pending
           A == After(s, S)
           c == [u \in SUBSET P |-> Max(u)]
<1>1. PICK answer : /\ \A b \in P : answer[b] \in Answers(b)
                    /\ t = RerouteAll(s, answer)
  BY DEF Reroutings
<1> DEFINE first == Min(P)
           step(b, u) == RouteBundle(u, b, answer[b], b = first)
           F == [p \in P \X A |-> step(p[1], p[2])]
           g == CHOOSE k : IsRerouting(first, answer, s, P, k)
<1>2. P \in SUBSET Nat /\ P \in SUBSET Bundle /\ IsFiniteSet(P)
  <2>1. Bundle \subseteq Nat /\ IsFiniteSet(Bundle)
    BY RouterAssumption DEF RouterAssumption
  <2> QED BY <2>1, StateFields, FS_Subset DEF Sound
<1> HIDE DEF P, first
<1>3. s \in A
  BY FollowsItself DEF After, Sound
<1>4. ASSUME NEW b \in P, NEW u \in A PROVE step(b, u) \in A
  <2>1. Sound(u, S) /\ Follows(s, u)
    BY DEF After
  <2>2. (b = first) \in BOOLEAN /\ b \in Bundle /\ answer[b] \in Answers(b)
    BY <1>1, <1>2
  <2>3. step(b, u) \in After(u, S)
    BY <2>1, <2>2, RouteKeeps
  <2> HIDE DEF step
  <2>4. Follows(s, step(b, u))
    BY <2>1, <2>3, FollowsOn DEF After
  <2> QED BY <2>3, <2>4 DEF After
<1>5. F \in [P \X A -> A]
  <2> HIDE DEF step, A
  <2> QED BY <1>4
<1>6. Picks(c, P)
  <2>1. \A u \in SUBSET P : u # {} => Max(u) \in u
    BY <1>2, FS_Subset, MaxIn
  <2> QED BY <2>1 DEF Picks
<1>7. \A u \in SUBSET P : u # {} => c[u] = Max(u) /\ Max(u) \in P /\ u \ {Max(u)} \in SUBSET P
  BY <1>6 DEF Picks
<1> HIDE DEF c
<1>8. \E k : IsRerouting(first, answer, s, P, k)
  <2>1. PICK k : IsFold(P, A, s, F, c, k)
    <3> HIDE DEF A, F
    <3> QED BY <1>2, <1>3, <1>5, <1>6, FoldExists
  <2>2. k \in [SUBSET P -> A] /\ k[{}] = s
    <3> HIDE DEF A, F
    <3> QED BY <2>1 DEF IsFold
  <2>3. ASSUME NEW u \in SUBSET P, u # {}
        PROVE  k[u] = step(Max(u), k[u \ {Max(u)}])
    <3>1. <<Max(u), k[u \ {Max(u)}]>> \in P \X A
      <4> HIDE DEF A
      <4> QED BY <1>7, <2>2, <2>3
    <3>2. k[u] = F[<<Max(u), k[u \ {Max(u)}]>>]
      <4> HIDE DEF A, F
      <4> QED BY <1>7, <2>1, <2>3 DEF IsFold
    <3> HIDE DEF A, step
    <3> QED BY <3>1, <3>2
  <2>4. k = [u \in SUBSET P |-> IF u = {} THEN s ELSE step(Max(u), k[u \ {Max(u)}])]
    <3> HIDE DEF A, F, step
    <3> QED BY <2>2, <2>3
  <2> HIDE DEF A, F
  <2>5. IsRerouting(first, answer, s, P, k)
    BY <2>4 DEF IsRerouting
  <2> QED BY <2>5
<1>9. IsRerouting(first, answer, s, P, g)
  BY <1>8
<1> HIDE DEF g
<1>10. g[{}] = s /\ \A u \in SUBSET P : u # {} => g[u] = step(Max(u), g[u \ {Max(u)}])
  BY <1>9 DEF IsRerouting
<1> HIDE DEF A, F, step
<1>11. g[P] \in A
  <2> DEFINE T == {u \in SUBSET P : g[u] \in A}
  <2>1. {} \in T
    BY <1>3, <1>10
  <2>2. ASSUME NEW u \in SUBSET P, u # {}, u \ {c[u]} \in T PROVE u \in T
    <3>1. g[u \ {Max(u)}] \in A /\ g[u] = step(Max(u), g[u \ {Max(u)}]) /\ Max(u) \in P
      BY <1>7, <1>10, <2>2
    <3>2. g[u] \in A
      BY <1>4, <3>1
    <3> QED BY <3>2
  <2> HIDE DEF T
  <2>3. P \in T
    BY <1>2, <1>6, <2>1, <2>2, ByRemoval
  <2> QED BY <2>3 DEF T
<1>12. t = g[P]
  BY <1>1 DEF RerouteAll, MapThenFoldSet, IsRerouting, g, P, first
<1> QED
  BY <1>11, <1>12 DEF A

\* The check of every link to a node whose contact begins.
CheckAll(s, links) == FoldSet(LAMBDA l, t : CheckNextHop(t, l), s, links)

IsCheckAll(base, links, g) ==
  g = [u \in SUBSET links |->
         IF u = {} THEN base ELSE CheckNextHop(g[u \ {CHOOSE x \in u : TRUE}], CHOOSE x \in u : TRUE)]

LEMMA CheckAllKeeps ==
  ASSUME NEW S \in SUBSET Bundle, NEW s, Sound(s, S), NEW links \in SUBSET Link
  PROVE  /\ CheckAll(s, links) \in After(s, S)
         /\ \A l \in links : Offered(CheckAll(s, links), l)
<1> DEFINE A == After(s, S)
           c == [u \in SUBSET links |-> CHOOSE x \in u : TRUE]
           F == [p \in links \X A |-> CheckNextHop(p[2], p[1])]
           g == CHOOSE k : IsCheckAll(s, links, k)
<1>1. IsFiniteSet(links)
  <2>1. IsFiniteSet(Link)
    BY RouterAssumption DEF RouterAssumption
  <2> QED BY <2>1, FS_Subset
<1>2. s \in A
  BY FollowsItself DEF After, Sound
<1>3. ASSUME NEW l \in links, NEW u \in A
      PROVE  /\ CheckNextHop(u, l) \in A /\ Offered(CheckNextHop(u, l), l)
             /\ Follows(u, CheckNextHop(u, l))
  <2>1. Sound(u, S) /\ Follows(s, u) /\ u \in States /\ DeferredSound(u)
    BY DEF After, Sound
  <2>2. Sound(CheckNextHop(u, l), S)
    BY <2>1, CheckSound
  <2>3. Follows(u, CheckNextHop(u, l)) /\ Offered(CheckNextHop(u, l), l)
    BY <2>1, CheckFollows
  <2>4. Follows(s, CheckNextHop(u, l)) /\ CheckNextHop(u, l) \in States
    BY <2>1, <2>2, <2>3, FollowsOn DEF Sound
  <2> QED BY <2>2, <2>3, <2>4 DEF After
<1> HIDE DEF A
<1>4. F \in [links \X A -> A]
  BY <1>3
<1>5. Picks(c, links)
  <2>1. ASSUME NEW u \in SUBSET links, u # {} PROVE (CHOOSE x \in u : TRUE) \in u
    BY <2>1
  <2> QED BY <2>1 DEF Picks
<1>6. \A u \in SUBSET links :
        /\ c[u] = CHOOSE x \in u : TRUE
        /\ u # {} => c[u] \in u /\ c[u] \in links /\ u \ {c[u]} \in SUBSET links
  BY <1>5 DEF Picks
<1> HIDE DEF c
<1>7. \E k : IsCheckAll(s, links, k)
  <2>1. PICK k : IsFold(links, A, s, F, c, k)
    <3> HIDE DEF F
    <3> QED BY <1>1, <1>2, <1>4, <1>5, FoldExists
  <2>2. k \in [SUBSET links -> A] /\ k[{}] = s
    <3> HIDE DEF F
    <3> QED BY <2>1 DEF IsFold
  <2>3. ASSUME NEW u \in SUBSET links, u # {}
        PROVE  k[u] = CheckNextHop(k[u \ {c[u]}], c[u])
    <3>1. <<c[u], k[u \ {c[u]}]>> \in links \X A
      BY <1>6, <2>2, <2>3
    <3>2. k[u] = F[<<c[u], k[u \ {c[u]}]>>]
      <4> HIDE DEF F
      <4> QED BY <2>1, <2>3 DEF IsFold
    <3> QED BY <3>1, <3>2
  <2>4. k = [u \in SUBSET links |->
               IF u = {} THEN s
               ELSE CheckNextHop(k[u \ {CHOOSE x \in u : TRUE}], CHOOSE x \in u : TRUE)]
    <3> HIDE DEF F
    <3> QED BY <1>6, <2>2, <2>3
  <2> HIDE DEF F
  <2>5. IsCheckAll(s, links, k)
    BY <2>4 DEF IsCheckAll
  <2> QED BY <2>5
<1>8. IsCheckAll(s, links, g)
  BY <1>7
<1> HIDE DEF g, F
<1>9. g[{}] = s /\ \A u \in SUBSET links : u # {} => g[u] = CheckNextHop(g[u \ {c[u]}], c[u])
  BY <1>6, <1>8 DEF IsCheckAll
<1>10. g[links] \in A /\ \A l \in links : Offered(g[links], l)
  <2> DEFINE T == {u \in SUBSET links : g[u] \in A /\ \A l \in u : Offered(g[u], l)}
  <2>1. {} \in T
    BY <1>2, <1>9
  <2>2. ASSUME NEW u \in SUBSET links, u # {}, u \ {c[u]} \in T PROVE u \in T
    <3> DEFINE v == g[u \ {c[u]}]
    <3>1. v \in A /\ \A l \in u \ {c[u]} : Offered(v, l)
      BY <2>2
    <3>2. c[u] \in links /\ g[u] = CheckNextHop(v, c[u])
      BY <1>6, <1>9, <2>2
    <3> HIDE DEF v
    <3>3. g[u] \in A /\ Offered(g[u], c[u]) /\ Follows(v, g[u])
      BY <1>3, <3>1, <3>2
    <3>4. \A l \in u : Offered(g[u], l)
      BY <2>2, <3>1, <3>3 DEF Follows
    <3> QED BY <3>3, <3>4
  <2> HIDE DEF T
  <2>3. links \in T
    BY <1>1, <1>5, <2>1, <2>2, ByRemoval
  <2> QED BY <2>3 DEF T
<1>11. CheckAll(s, links) = g[links]
  BY DEF CheckAll, FoldSet, MapThenFoldSet, IsCheckAll, g
<1> QED
  BY <1>10, <1>11 DEF A

LEMMA CheckAfter ==
  ASSUME NEW S \in SUBSET Bundle, NEW s, Sound(s, S), NEW l \in Link
  PROVE  CheckNextHop(s, l) \in After(s, S) /\ Offered(CheckNextHop(s, l), l)
<1>1. Sound(CheckNextHop(s, l), S)
  BY CheckSound
<1>2. Follows(s, CheckNextHop(s, l)) /\ Offered(CheckNextHop(s, l), l)
  BY CheckFollows DEF Sound
<1> QED
  BY <1>1, <1>2 DEF After, Sound

LEMMA AfterOn ==
  ASSUME NEW S \in SUBSET Bundle, NEW s, NEW t \in After(s, S), NEW u \in After(t, S)
  PROVE  u \in After(s, S)
BY FollowsOn DEF After

LEMMA AfterItself ==
  ASSUME NEW S \in SUBSET Bundle, NEW s, Sound(s, S)
  PROVE  s \in After(s, S)
BY FollowsItself DEF After, Sound

\* What soundness depends on.
LEMMA SoundStill ==
  ASSUME NEW S \in SUBSET Bundle, NEW s, Sound(s, S), NEW t \in States,
         t.deferred = s.deferred, t.queue = s.queue, t.inflight = s.inflight, t.log = s.log,
         s.listed \subseteq t.listed
  PROVE  Sound(t, S)
<1>1. DeferredSound(t)
  BY DEF Sound, DeferredSound
<1>2. ASSUME NEW b \in S PROVE LogSound(t, b)
  <2>1. LogSound(s, b)
    BY DEF Sound
  <2> QED BY <2>1 DEF LogSound, On
<1> QED
  BY <1>1, <1>2 DEF Sound

-----------------------------------------------------------------------------
(* The step a handler takes *)

LEMMA StateNow ==
  /\ State.pending = pending /\ State.deferred = deferred /\ State.queue = queue
  /\ State.inflight = inflight /\ State.log = log /\ State.link = link
  /\ State.routes = routes /\ State.listed = listed /\ State.aside = aside
BY DEF State

LEMMA StateNext ==
  /\ State'.pending = pending' /\ State'.deferred = deferred' /\ State'.queue = queue'
  /\ State'.inflight = inflight' /\ State'.log = log' /\ State'.link = link'
  /\ State'.routes = routes' /\ State'.listed = listed' /\ State'.aside = aside'
BY DEF State

LEMMA StateTyped ==
  ASSUME pending' \subseteq Bundle, deferred' \in [Link -> Seq(Bundle)],
         queue' \in [Link -> Seq(Bundle)], inflight' \in [Link -> Seq(Bundle)],
         log' \in [Bundle -> [Link -> Entry]], link' \in [Link -> LinkState],
         routes' \subseteq Link, listed' \subseteq Link, aside' \subseteq Bundle \X Link
  PROVE  State' \in States
BY DEF State, States

\* The handler leaves s, but for pairs put aside that no longer wait.
LEMMA BecomeKeeps ==
  ASSUME NEW S \in SUBSET Bundle, NEW s, Sound(s, S), NEW routed, Become(s, routed)
  PROVE  /\ Sound(State', S)
         /\ open' = open => \A l \in Link : Offered(s, l) => Offered(State, l)'
         /\ \A b : Placed(s, b) <=> Placed(State, b)'
         /\ inflight' = s.inflight /\ log' = s.log /\ late' = late
<1>1. /\ pending' = s.pending /\ deferred' = s.deferred /\ queue' = s.queue
      /\ inflight' = s.inflight /\ log' = s.log /\ link' = s.link
      /\ routes' = s.routes /\ listed' = s.listed /\ late' = late
      /\ aside' = {p \in s.aside : Waiting(s, p[1], p[2])}
  BY DEF Become
<1>2. s \in States
  BY DEF Sound
<1>3. State' \in States
  <2>1. aside' \subseteq Bundle \X Link
    BY <1>1, <1>2, StateFields
  <2> QED BY <1>1, <1>2, <2>1, StateFields, StateTyped
<1> DEFINE t == State'
<1>4. /\ t.deferred = s.deferred /\ t.queue = s.queue /\ t.inflight = s.inflight
      /\ t.log = s.log /\ t.listed = s.listed /\ t.link = s.link /\ t.aside = aside'
  BY <1>1, StateNext
<1>5. Sound(t, S)
  <2>1. t \in States
    BY <1>3
  <2> HIDE DEF t
  <2> QED BY <1>4, <2>1, SoundStill
<1>6. ASSUME open' = open, NEW l \in Link, Offered(s, l) PROVE Offered(State, l)'
  <2>1. \A b \in Range(s.deferred[l]) : <<b, l>> \in s.aside => <<b, l>> \in aside'
    BY <1>1 DEF Waiting
  <2> QED BY <1>1, <1>6, <2>1 DEF Offered, State
<1>7. ASSUME NEW b PROVE Placed(s, b) <=> Placed(State, b)'
  BY <1>1 DEF Placed, Waiting, On, State
<1> QED
  BY <1>1, <1>5, <1>6, <1>7

LEMMA EventFacts ==
  ASSUME Typed, NEW i \in DOMAIN events
  PROVE  /\ events[i] \in Events
         /\ events[i].kind \in BundleKind \cup {"received"} => events[i].bundle \in Bundle
         /\ events[i].kind \in BundleKind \cup LinkKind => events[i].link \in Link
         /\ events[i].kind \in LinkKind => events[i].node = 0
<1>1. events[i] \in Events
  BY DEF Typed
<1> QED
  BY <1>1 DEF Events, OfBundle, OfLink, OfNode, Happens, BundleKind, LinkKind

\* The events that are left when the first is handled.
LEMMA HandleFacts ==
  ASSUME Typed, NEW kind, Handle(kind)
  PROVE  /\ events' \in Seq(Events) /\ Event = events[1] /\ 1 \in DOMAIN events
         /\ Event.kind = kind
         /\ \A i \in DOMAIN events' : /\ events'[i] = events[i + 1] /\ i + 1 \in DOMAIN events
                                      /\ i + 1 # 1 /\ i \in Nat
         /\ \A i \in DOMAIN events : i # 1 => i - 1 \in DOMAIN events' /\ events'[i - 1] = events[i]
<1>1. events \in Seq(Events) /\ events # <<>> /\ events' = Tail(events) /\ Event.kind = kind
  BY DEF Typed, Handle
<1>2. /\ Tail(events) \in Seq(Events) /\ Len(Tail(events)) = Len(events) - 1
      /\ \A i \in 1 .. Len(Tail(events)) : Tail(events)[i] = events[i + 1]
  BY <1>1, HeadTailProperties
<1>3. Len(events) \in Nat \ {0} /\ DOMAIN events = 1 .. Len(events) /\ Event = events[1]
  BY <1>1, EmptySeq DEF Event
<1>4. events' \in Seq(Events) /\ DOMAIN events' = 1 .. Len(events) - 1
  BY <1>1, <1>2
<1>5. \A i \in 1 .. Len(events) - 1 : events'[i] = events[i + 1]
  BY <1>1, <1>2
<1> QED
  BY <1>1, <1>3, <1>4, <1>5

\* In t, what the reports yet to be handled say is as true as it was.
Remembers(t) ==
  \A b \in Bundle \ late : Event.kind \notin Report3 \/ b # Event.bundle =>
    \A l \in Link : /\ b \in Range(inflight[l]) => b \in Range(t.inflight[l])
                    /\ log[b][l] = "TRANSMITTED" => t.log[b][l] = "TRANSMITTED"

LEMMA RemembersAfter ==
  ASSUME NEW S, NEW s, Remembers(s), NEW t \in After(s, S)
  PROVE  Remembers(t)
BY DEF Remembers, After, Follows

LEMMA RemembersState ==
  ASSUME NEW t, t.inflight = inflight, t.log = log
  PROVE  Remembers(t)
BY DEF Remembers

LEMMA Handled ==
  ASSUME QueueInv, NEW kind, Handle(kind), NEW t, Sound(t, Bundle \ late), Remembers(t),
         NEW routed, Become(t, routed), open' = open,
         timer' \in [Link -> {"none", "pending", "fired", "missed"}]
  PROVE  QueueInv'
<1>1. /\ events' \in Seq(Events) /\ Event = events[1] /\ 1 \in DOMAIN events
      /\ \A i \in DOMAIN events' : /\ events'[i] = events[i + 1] /\ i + 1 \in DOMAIN events
                                   /\ i + 1 # 1 /\ i \in Nat
  BY HandleFacts DEF QueueInv
<1>2. Sound(State', Bundle \ late) /\ inflight' = t.inflight /\ log' = t.log /\ late' = late
  BY BecomeKeeps
<1>3. Typed'
  BY <1>1, <1>2 DEF QueueInv, Typed
<1>4. ASSUME NEW i \in DOMAIN events', events'[i].bundle \notin late'
      PROVE  /\ events'[i].kind \in {"transmitted", "failed"} =>
                  events'[i].bundle \in Range(inflight'[events'[i].link])
             /\ events'[i].kind = "custody_timeout" =>
                  log'[events'[i].bundle][events'[i].link] = "TRANSMITTED"
  <2> DEFINE e == events[i + 1]
  <2>1. events'[i] = e /\ i + 1 \in DOMAIN events /\ i + 1 # 1 /\ e.bundle \notin late
    BY <1>1, <1>2, <1>4
  <2>2. /\ e.kind \in BundleKind => e.bundle \in Bundle /\ e.link \in Link
        /\ e.kind \in {"transmitted", "failed"} => e.bundle \in Range(inflight[e.link])
        /\ e.kind = "custody_timeout" => log[e.bundle][e.link] = "TRANSMITTED"
        /\ e.kind \in Report3 /\ Event.kind \in Report3 => e.bundle # Event.bundle
    BY <1>1, <2>1, EventFacts DEF QueueInv, ReportsTrue
  <2> HIDE DEF e
  <2>3. ASSUME e.kind \in Report3
        PROVE  \A l \in Link : /\ e.bundle \in Range(inflight[l]) => e.bundle \in Range(t.inflight[l])
                               /\ log[e.bundle][l] = "TRANSMITTED" => t.log[e.bundle][l] = "TRANSMITTED"
    <3>1. e.bundle \in Bundle \ late /\ (Event.kind \notin Report3 \/ e.bundle # Event.bundle)
      BY <2>1, <2>2, <2>3 DEF Report3, BundleKind
    <3> QED BY <3>1 DEF Remembers
  <2> QED BY <1>2, <2>1, <2>2, <2>3 DEF Report3, BundleKind
<1>5. ASSUME NEW i \in DOMAIN events', NEW j \in DOMAIN events',
             events'[i].kind \in Report3, events'[j].kind \in Report3,
             events'[i].bundle = events'[j].bundle
      PROVE  i = j
  <2>1. i + 1 = j + 1
    BY <1>1, <1>5 DEF QueueInv, ReportsTrue
  <2> QED BY <1>1, <2>1
<1>6. ReportsTrue'
  BY <1>4, <1>5 DEF ReportsTrue
<1>7. Sound(State, Bundle \ late)'
  BY <1>2
<1> QED
  BY <1>3, <1>6, <1>7 DEF QueueInv

\* The forwarding of the event's bundle, and the check of its link.
LEMMA RouteOf ==
  ASSUME NEW S \in SUBSET Bundle, NEW s, Sound(s, S), Event.bundle \in Bundle,
         Event.kind = "failed" => Event.link \in Link, Route(s)
  PROVE  \E t \in After(s, S) :
           /\ Become(t, {Event.bundle})
           /\ Event.kind = "failed" => Offered(t, Event.link)
<1>1. PICK hops \in Answers(Event.bundle) :
        LET routed == RouteBundle(s, Event.bundle, hops, TRUE)
        IN  Become(IF Event.kind = "failed" THEN CheckNextHop(routed, Event.link) ELSE routed,
                   {Event.bundle})
  BY DEF Route
<1> DEFINE r == RouteBundle(s, Event.bundle, hops, TRUE)
           t == IF Event.kind = "failed" THEN CheckNextHop(r, Event.link) ELSE r
<1>2. r \in After(s, S)
  BY RouteKeeps
<1>3. Become(t, {Event.bundle})
  BY <1>1
<1> HIDE DEF r
<1>4. CASE Event.kind = "failed"
  <2>1. Sound(r, S)
    BY <1>2 DEF After
  <2>2. t \in After(r, S) /\ Offered(t, Event.link)
    BY <1>4, <2>1, CheckAfter
  <2> HIDE DEF t
  <2> QED BY <1>2, <1>3, <2>2, AfterOn
<1>5. CASE Event.kind # "failed"
  BY <1>2, <1>3, <1>5
<1> QED
  BY <1>4, <1>5

\* A report of the bundle, which is not late: its link has it, no other link does, and once.
LEMMA LeftSound ==
  ASSUME QueueInv, NEW kind \in {"transmitted", "failed"}, Handle(kind),
         NEW entry \in {"TRANSMITTED", "TRANSMIT_FAILED"}
  PROVE  Sound(Left(entry), Bundle \ late) /\ Remembers(Left(entry))
<1> DEFINE b == Event.bundle
           l == Event.link
           rest == Without(inflight[l], {b})
           f == [inflight EXCEPT ![l] = rest]
           g == [log EXCEPT ![b] = [log[b] EXCEPT ![l] = entry]]
           t == Left(entry)
<1>1. /\ Event = events[1] /\ 1 \in DOMAIN events /\ Event.kind = kind
      /\ b \in Bundle /\ l \in Link
  BY HandleFacts, EventFacts DEF QueueInv, BundleKind
<1>2. b \notin late => b \in Range(inflight[l])
  BY <1>1 DEF QueueInv, ReportsTrue
<1> HIDE DEF b, l
<1>3. /\ State \in States /\ DeferredSound(State)
      /\ \A x \in Bundle \ late : LogSound(State, x)
  BY DEF QueueInv, Sound
<1>4. inflight \in [Link -> Seq(Bundle)] /\ log \in [Bundle -> [Link -> Entry]]
  BY <1>3, StateFields, StateNow
<1>5. rest \in Seq(Bundle) /\ Range(rest) = Range(inflight[l]) \ {b}
  BY <1>1, <1>4, WithoutFacts
<1>6. t = [State EXCEPT !.inflight = f, !.log = g]
  BY DEF Left, State, b, l
<1> HIDE DEF rest
<1>7. f \in [Link -> Seq(Bundle)] /\ \A k \in Link : f[k] = IF k = l THEN rest ELSE inflight[k]
  BY <1>4, <1>5
<1>8. /\ g \in [Bundle -> [Link -> Entry]]
      /\ \A x \in Bundle, k \in Link : g[x][k] = IF x = b /\ k = l THEN entry ELSE log[x][k]
  BY <1>1, <1>4 DEF Entry
<1> HIDE DEF f, g, t
<1>9. /\ t \in States /\ t.inflight = f /\ t.log = g
      /\ t.deferred = deferred /\ t.queue = queue /\ t.listed = listed
  BY <1>3, <1>6, <1>7, <1>8, StateNow DEF States
<1>10. DeferredSound(t)
  BY <1>3, <1>9, StateNow DEF DeferredSound
<1>11. \A x \in Bundle, k \in Link :
         /\ x \in Range(t.inflight[k]) <=> x \in Range(inflight[k]) /\ ~ (x = b /\ k = l)
         /\ t.log[x][k] = IF x = b /\ k = l THEN entry ELSE log[x][k]
  BY <1>5, <1>7, <1>8, <1>9
<1>12. ASSUME NEW x \in Bundle \ late PROVE LogSound(t, x)
  <2>1. \A k \in Link :
          /\ log[x][k] = "QUEUED" <=> On(State, x, k)
          /\ Once(queue[k], x)
          /\ x \in Range(queue[k]) => x \notin Range(inflight[k])
          /\ On(State, x, k) => \A m \in Link \ {k} : ~ On(State, x, m) /\ log[x][m] # "TRANSMITTED"
    BY <1>3, StateNow DEF LogSound
  <2>2. \A k \in Link : On(t, x, k) <=> x \in Range(queue[k]) \cup Range(t.inflight[k])
    BY <1>9 DEF On
  <2>3. \A k \in Link : On(State, x, k) <=> x \in Range(queue[k]) \cup Range(inflight[k])
    BY StateNow DEF On
  <2>4. \A k \in Link : On(t, x, k) <=> On(State, x, k) /\ ~ (x = b /\ k = l)
    BY <1>2, <1>11, <2>1, <2>2, <2>3
  <2>5. x = b => \A k \in Link : ~ On(t, x, k)
    BY <1>1, <1>2, <2>1, <2>3, <2>4
  <2>6. \A k \in Link : t.log[x][k] = "QUEUED" <=> On(t, x, k)
    BY <1>11, <2>1, <2>4
  <2>7. \A k \in Link : On(t, x, k) =>
          \A m \in Link \ {k} : ~ On(t, x, m) /\ t.log[x][m] # "TRANSMITTED"
    BY <1>11, <2>1, <2>4, <2>5
  <2> QED BY <1>9, <1>11, <2>1, <2>6, <2>7 DEF LogSound
<1>13. Remembers(t)
  BY <1>1, <1>11 DEF Remembers, Report3, b, l
<1>14. Sound(t, Bundle \ late)
  BY <1>9, <1>10, <1>12 DEF Sound
<1> QED
  BY <1>13, <1>14 DEF t

LEMMA RemovedFacts ==
  ASSUME NEW S \in SUBSET Bundle, NEW s, Sound(s, S), NEW b
  PROVE  LET t == RemoveFromDeferred(s, b) IN
         /\ Sound(t, S)
         /\ t.pending = s.pending /\ t.inflight = s.inflight /\ t.log = s.log /\ t.link = s.link
         /\ t.routes = s.routes /\ t.listed = s.listed /\ t.queue = s.queue /\ t.aside = s.aside
         /\ \A l \in Link : Range(t.deferred[l]) = Range(s.deferred[l]) \ {b}
<1> DEFINE t == RemoveFromDeferred(s, b)
           d == [l \in Link |-> Without(s.deferred[l], {b})]
<1>1. s \in States /\ DeferredSound(s)
  BY DEF Sound
<1>2. ASSUME NEW l \in Link
      PROVE  /\ d[l] \in Seq(Bundle) /\ Range(d[l]) = Range(s.deferred[l]) \ {b}
             /\ IsInjective(d[l]) /\ (d[l] # <<>> => l \in s.listed)
  <2> DEFINE rest == Without(s.deferred[l], {b})
  <2>1. /\ s.deferred[l] \in Seq(Bundle) /\ IsInjective(s.deferred[l])
        /\ s.deferred[l] # <<>> => l \in s.listed
    BY <1>1, StateFields DEF DeferredSound
  <2>2. \A x : Once(s.deferred[l], x)
    BY <2>1, InjectiveOnce
  <2>3. /\ rest \in Seq(Bundle) /\ Range(rest) = Range(s.deferred[l]) \ {b}
        /\ \A x : Once(rest, x)
    BY <2>1, <2>2, WithoutFacts
  <2>4. d[l] = rest
    OBVIOUS
  <2> HIDE DEF rest, d
  <2>5. IsInjective(rest)
    BY <2>3, InjectiveOnce
  <2>6. rest # <<>> => s.deferred[l] # <<>>
    BY <2>1, <2>3, EmptyRange
  <2> QED BY <2>1, <2>3, <2>4, <2>5, <2>6
<1>3. t = [s EXCEPT !.deferred = d]
  BY DEF RemoveFromDeferred
<1>4. d \in [Link -> Seq(Bundle)]
  BY <1>2
<1> HIDE DEF d, t
<1>5. /\ t \in States /\ t.deferred = d
      /\ t.pending = s.pending /\ t.inflight = s.inflight /\ t.log = s.log /\ t.link = s.link
      /\ t.routes = s.routes /\ t.listed = s.listed /\ t.queue = s.queue /\ t.aside = s.aside
  BY <1>1, <1>3, <1>4 DEF States
<1>6. DeferredSound(t)
  BY <1>1, <1>2, <1>5 DEF DeferredSound
<1>7. ASSUME NEW x \in S PROVE LogSound(t, x)
  <2>1. LogSound(s, x)
    BY DEF Sound
  <2> QED BY <1>5, <2>1 DEF LogSound, On
<1>8. Sound(t, S)
  BY <1>5, <1>6, <1>7 DEF Sound
<1> QED
  BY <1>2, <1>5, <1>8 DEF t

LEMMA DeletedFacts ==
  ASSUME NEW S \in SUBSET Bundle, NEW s, Sound(s, S), NEW b
  PROVE  LET t == Deleted(s, b) IN
         /\ Sound(t, S)
         /\ b \in Custody => t.pending = s.pending
         /\ b \notin Custody => t.pending = s.pending \ {b}
         /\ t.inflight = s.inflight /\ t.log = s.log /\ t.link = s.link
         /\ t.routes = s.routes /\ t.listed = s.listed /\ t.queue = s.queue /\ t.aside = s.aside
         /\ t.deferred = s.deferred
<1> DEFINE t == Deleted(s, b)
           p == IF b \in Custody THEN s.pending ELSE s.pending \ {b}
<1>1. s \in States /\ p \subseteq Bundle
  BY StateFields DEF Sound
<1>2. t = [s EXCEPT !.pending = p]
  BY DEF Deleted
<1> HIDE DEF p, t
<1>3. /\ t \in States /\ t.pending = p
      /\ t.inflight = s.inflight /\ t.log = s.log /\ t.link = s.link
      /\ t.routes = s.routes /\ t.listed = s.listed /\ t.queue = s.queue /\ t.aside = s.aside
      /\ t.deferred = s.deferred
  BY <1>1, <1>2 DEF States
<1>4. Sound(t, S)
  BY <1>3, SoundStill
<1> QED
  BY <1>3, <1>4 DEF t, p

-----------------------------------------------------------------------------
(* The queues stay sound: the handlers *)

LEMMA ReceivedKeeps == ASSUME QueueInv, HandleBundleReceived PROVE QueueInv'
<1> DEFINE s == [State EXCEPT !.pending = @ \cup {Event.bundle}]
           S == Bundle \ late
<1>1. Handle("received") /\ Route(s) /\ open' = open /\ timer' = timer
  BY DEF HandleBundleReceived
<1>2. Event.bundle \in Bundle /\ Event.kind # "failed"
  BY <1>1, HandleFacts, EventFacts DEF QueueInv
<1>3. s \in States /\ s.inflight = inflight /\ s.log = log /\ s.deferred = State.deferred
      /\ s.queue = State.queue /\ s.listed = State.listed
  BY <1>2, StateNow DEF QueueInv, Sound, States
<1> HIDE DEF s
<1>4. Sound(s, S) /\ Remembers(s)
  BY <1>3, SoundStill, RemembersState, StateNow DEF QueueInv
<1>5. PICK t \in After(s, S) : Become(t, {Event.bundle})
  BY <1>1, <1>2, <1>4, RouteOf
<1>6. Sound(t, S) /\ Remembers(t)
  BY <1>4, <1>5, RemembersAfter DEF After
<1> QED
  BY <1>1, <1>5, <1>6, Handled DEF QueueInv, Typed

LEMMA TransmittedKeeps == ASSUME QueueInv, HandleBundleTransmitted PROVE QueueInv'
<1> DEFINE S == Bundle \ late
           s == Left("TRANSMITTED")
           sent == RemoveFromDeferred(s, Event.bundle)
           u == CheckNextHop(sent, Event.link)
           t == Deleted(u, Event.bundle)
<1>1. Handle("transmitted") /\ Become(t, {}) /\ open' = open /\ timer' = timer
  BY DEF HandleBundleTransmitted
<1>2. Event.link \in Link
  BY <1>1, HandleFacts, EventFacts DEF QueueInv, BundleKind
<1>3. Sound(s, S) /\ Remembers(s)
  BY <1>1, LeftSound
<1> HIDE DEF s
<1>4. Sound(sent, S) /\ Remembers(sent)
  BY <1>3, RemovedFacts DEF Remembers
<1> HIDE DEF sent
<1>5. Sound(u, S) /\ Remembers(u)
  <2>1. u \in After(sent, S)
    BY <1>2, <1>4, CheckAfter
  <2> HIDE DEF u
  <2> QED BY <1>4, <2>1, RemembersAfter DEF After
<1> HIDE DEF u
<1>6. Sound(t, S) /\ t.inflight = u.inflight /\ t.log = u.log
  <2> DEFINE b == Event.bundle
  <2>1. S \in SUBSET Bundle /\ t = Deleted(u, b)
    OBVIOUS
  <2> HIDE DEF S, b, t
  <2>2. /\ Sound(Deleted(u, b), S)
        /\ Deleted(u, b).inflight = u.inflight /\ Deleted(u, b).log = u.log
    BY <1>5, <2>1, DeletedFacts
  <2> QED BY <2>1, <2>2
<1> HIDE DEF t
<1>7. Remembers(t)
  BY <1>5, <1>6 DEF Remembers
<1> QED
  BY <1>1, <1>6, <1>7, Handled DEF QueueInv, Typed

LEMMA FailedKeeps == ASSUME QueueInv, HandleTransmissionFailed PROVE QueueInv'
<1> DEFINE S == Bundle \ late
           s == Left("TRANSMIT_FAILED")
<1>1. Handle("failed") /\ Route(s) /\ open' = open /\ timer' = timer
  BY DEF HandleTransmissionFailed
<1>2. Event.link \in Link /\ Event.bundle \in Bundle
  BY <1>1, HandleFacts, EventFacts DEF QueueInv, BundleKind
<1>3. Sound(s, S) /\ Remembers(s)
  BY <1>1, LeftSound
<1> HIDE DEF s
<1>4. PICK t \in After(s, S) : Become(t, {Event.bundle})
  BY <1>1, <1>2, <1>3, RouteOf
<1>5. Sound(t, S) /\ Remembers(t)
  BY <1>3, <1>4, RemembersAfter DEF After
<1> QED
  BY <1>1, <1>4, <1>5, Handled DEF QueueInv, Typed

LEMMA CancelledKeeps == ASSUME QueueInv, HandleBundleCancelled PROVE QueueInv'
<1> DEFINE S == Bundle \ late
<1>1. /\ Handle("cancelled") /\ open' = open /\ timer' = timer
      /\ Route(State) \/ Become(State, {})
  BY DEF HandleBundleCancelled
<1>2. Event.bundle \in Bundle /\ Event.kind # "failed"
  BY <1>1, HandleFacts, EventFacts DEF QueueInv, BundleKind
<1>3. Sound(State, S) /\ Remembers(State) /\ State \in After(State, S)
  BY RemembersState, StateNow, AfterItself DEF QueueInv
<1>4. PICK t \in After(State, S) : \E routed : Become(t, routed)
  BY <1>1, <1>2, <1>3, RouteOf
<1>5. Sound(t, S) /\ Remembers(t)
  BY <1>3, <1>4, RemembersAfter DEF After
<1> QED
  BY <1>1, <1>4, <1>5, Handled DEF QueueInv, Typed

\* What the daemon does when no one took custody in time.
TimedOut == [State EXCEPT !.log[Event.bundle][Event.link] = "CUSTODY_TIMEOUT"]

LEMMA TimedOutSound ==
  ASSUME QueueInv, Handle("custody_timeout")
  PROVE  /\ Sound(TimedOut, Bundle \ late) /\ Remembers(TimedOut)
         /\ TimedOut.pending = pending /\ TimedOut.deferred = deferred
         /\ TimedOut.queue = queue /\ TimedOut.inflight = inflight
         /\ \A x \in Bundle \ {Event.bundle} : TimedOut.log[x] = log[x]
         /\ \A l \in Link : Offered(State, l) => Offered(TimedOut, l)
         /\ TimedOut.link = link
<1> DEFINE S == Bundle \ late
           b == Event.bundle
           l == Event.link
           g == [log EXCEPT ![b] = [log[b] EXCEPT ![l] = "CUSTODY_TIMEOUT"]]
           s == TimedOut
<1>1. s = [State EXCEPT !.log = g]
  BY DEF TimedOut, State
<1>2. /\ Event = events[1] /\ 1 \in DOMAIN events /\ Event.kind = "custody_timeout"
      /\ b \in Bundle /\ l \in Link
  BY HandleFacts, EventFacts DEF QueueInv, BundleKind
<1>3. b \notin late => log[b][l] = "TRANSMITTED"
  BY <1>2 DEF QueueInv, ReportsTrue
<1>4. /\ State \in States /\ DeferredSound(State)
      /\ \A x \in Bundle \ late : LogSound(State, x)
  BY DEF QueueInv, Sound
<1>5. log \in [Bundle -> [Link -> Entry]]
  BY <1>4, StateFields, StateNow
<1> HIDE DEF b, l
<1>6. /\ g \in [Bundle -> [Link -> Entry]]
      /\ \A x \in Bundle \ {b} : g[x] = log[x]
      /\ \A x \in Bundle, k \in Link :
           g[x][k] = IF x = b /\ k = l THEN "CUSTODY_TIMEOUT" ELSE log[x][k]
  BY <1>2, <1>5 DEF Entry
<1> HIDE DEF g, s
<1>7. /\ s \in States /\ s.log = g /\ s.inflight = inflight /\ s.pending = pending
      /\ s.deferred = deferred /\ s.queue = queue /\ s.listed = listed /\ s.link = link
      /\ s.aside = aside
  BY <1>1, <1>4, <1>6, StateNow DEF States
<1>8. DeferredSound(s)
  BY <1>4, <1>7, StateNow DEF DeferredSound
<1>9. ASSUME NEW x \in S PROVE LogSound(s, x)
  <2>1. /\ \A k \in Link : On(s, x, k) <=> On(State, x, k)
        /\ LogSound(State, x) /\ x \in Bundle
    BY <1>4, <1>7, StateNow DEF On
  <2>2. \A k \in Link : /\ s.log[x][k] = "QUEUED" <=> log[x][k] = "QUEUED"
                        /\ s.log[x][k] = "TRANSMITTED" => log[x][k] = "TRANSMITTED"
    BY <1>3, <1>6, <1>7, <2>1
  <2> QED BY <1>7, <2>1, <2>2, StateNow DEF LogSound
<1>10. Sound(s, S)
  BY <1>7, <1>8, <1>9 DEF Sound
<1>11. Remembers(s)
  BY <1>2, <1>6, <1>7 DEF Remembers, Report3, b
<1>12. \A k \in Link : Offered(State, k) => Offered(s, k)
  BY <1>7, StateNow DEF Offered
<1> QED
  BY <1>6, <1>7, <1>10, <1>11, <1>12 DEF s, b

LEMMA CustodyTimeoutKeeps == ASSUME QueueInv, HandleCustodyTimeout PROVE QueueInv'
<1> DEFINE S == Bundle \ late
<1>1. /\ Handle("custody_timeout") /\ open' = open /\ timer' = timer
      /\ Route(TimedOut) \/ Become(State, {})
  BY DEF HandleCustodyTimeout, TimedOut
<1>2. Event.bundle \in Bundle /\ Event.kind # "failed"
  BY <1>1, HandleFacts, EventFacts DEF QueueInv, BundleKind
<1>3. CASE Route(TimedOut)
  <2>1. Sound(TimedOut, S) /\ Remembers(TimedOut)
    BY <1>1, TimedOutSound
  <2>2. PICK t \in After(TimedOut, S) : Become(t, {Event.bundle})
    BY <1>2, <1>3, <2>1, RouteOf
  <2>3. Sound(t, S) /\ Remembers(t)
    BY <2>1, <2>2, RemembersAfter DEF After
  <2> QED BY <1>1, <2>2, <2>3, Handled DEF QueueInv, Typed
<1>4. CASE Become(State, {})
  <2>1. Sound(State, S) /\ Remembers(State)
    BY RemembersState, StateNow DEF QueueInv
  <2> QED BY <1>1, <1>4, <2>1, Handled DEF QueueInv, Typed
<1> QED
  BY <1>1, <1>3, <1>4

\* A handler that changes the routes and the links with a deferred list first.
WithRoutes(newListed, newRoutes) == [State EXCEPT !.listed = newListed, !.routes = newRoutes]

LEMMA RoutesChange ==
  ASSUME QueueInv, NEW newRoutes \in SUBSET Link, NEW newListed \in SUBSET Link,
         listed \subseteq newListed
  PROVE  LET s == WithRoutes(newListed, newRoutes) IN
         /\ Sound(s, Bundle \ late) /\ Remembers(s)
         /\ s.pending = pending /\ s.deferred = deferred /\ s.queue = queue
         /\ s.inflight = inflight /\ s.log = log /\ s.link = link /\ s.aside = aside
         /\ s.routes = newRoutes /\ s.listed = newListed
<1> DEFINE s == WithRoutes(newListed, newRoutes)
<1>1. State \in States
  BY DEF QueueInv, Sound
<1>2. /\ s \in States
      /\ s.pending = pending /\ s.deferred = deferred /\ s.queue = queue
      /\ s.inflight = inflight /\ s.log = log /\ s.link = link /\ s.aside = aside
      /\ s.routes = newRoutes /\ s.listed = newListed
  BY <1>1, StateNow DEF States, WithRoutes
<1> HIDE DEF s
<1>3. Sound(s, Bundle \ late)
  BY <1>2, SoundStill, StateNow DEF QueueInv
<1>4. Remembers(s)
  BY <1>2, RemembersState
<1> QED
  BY <1>2, <1>3, <1>4 DEF s

\* In s, everything but routes and deferred lists that exist is as it is.
Lists(s) ==
  /\ s.pending = pending /\ s.deferred = deferred /\ s.queue = queue /\ s.inflight = inflight
  /\ s.log = log /\ s.link = link /\ s.aside = aside

\* The event at hand is of this kind, and its handler leaves a state that follows s, where
\* the links to be checked were offered what waits for them.
LinkEventFrom(kind, s, t, routed) ==
  /\ Handle(kind) /\ Lists(s) /\ Sound(s, Bundle \ late) /\ t \in After(s, Bundle \ late)
  /\ Become(t, routed) /\ \A l \in Link : Checking(Event, l) => Offered(t, l)

LEMMA ContactUpStep ==
  ASSUME QueueInv, HandleContactUp
  PROVE  \E s, t, routed : LinkEventFrom("contact_up", s, t, routed)
<1> DEFINE S == Bundle \ late
           l == Event.link
           s0 == WithRoutes(listed, routes \cup {l})
<1>1. /\ Handle("contact_up")
      /\ \E r \in IF l \in routes THEN {State}
                  ELSE Reroutings([State EXCEPT !.routes = @ \cup {l}]) :
           \E routed : Become(CheckNextHop(r, l), routed)
  BY DEF HandleContactUp
<1>2. l \in Link /\ Event.kind = "contact_up"
  BY <1>1, HandleFacts, EventFacts DEF QueueInv, LinkKind
<1>3. routes \subseteq Link /\ listed \subseteq Link /\ State \in States
  BY StateFields, StateNow DEF QueueInv, Sound
<1>4. [State EXCEPT !.routes = @ \cup {l}] = s0
  BY <1>3, StateNow DEF States, WithRoutes
<1>5. Sound(s0, S) /\ Lists(s0)
  BY <1>2, <1>3, RoutesChange DEF Lists
<1> HIDE DEF s0
<1>6. Sound(State, S) /\ Lists(State) /\ State \in After(State, S)
  BY AfterItself, StateNow DEF QueueInv, Lists
<1>7. PICK r : /\ r = State \/ r \in Reroutings(s0)
               /\ \E routed : Become(CheckNextHop(r, l), routed)
  BY <1>1, <1>4
<1>8. PICK s : Sound(s, S) /\ Lists(s) /\ r \in After(s, S)
  <2>1. r \in Reroutings(s0) => r \in After(s0, S)
    BY <1>5, RerouteKeeps
  <2> QED BY <1>5, <1>6, <1>7, <2>1
<1> DEFINE t == CheckNextHop(r, l)
<1>9. t \in After(r, S) /\ Offered(t, l)
  <2>1. Sound(r, S)
    BY <1>8 DEF After
  <2> QED BY <1>2, <2>1, CheckAfter
<1>10. PICK routed : Become(t, routed)
  BY <1>7
<1> HIDE DEF t
<1>11. t \in After(s, S)
  BY <1>8, <1>9, AfterOn
<1>12. \A k \in Link : Checking(Event, k) => Offered(t, k)
  BY <1>2, <1>9 DEF Checking
<1>13. LinkEventFrom("contact_up", s, t, routed)
  BY <1>1, <1>8, <1>10, <1>11, <1>12 DEF LinkEventFrom
<1> QED
  BY <1>13

LEMMA ChecksStep ==
  ASSUME QueueInv, NEW kind \in {"available", "check_deferred"}, Checks(kind)
  PROVE  \E s, t, routed : LinkEventFrom(kind, s, t, routed)
<1> DEFINE S == Bundle \ late
           l == Event.link
           t == CheckNextHop(State, l)
<1>1. Handle(kind) /\ Become(t, {})
  BY DEF Checks
<1>2. l \in Link /\ Event.kind = kind
  BY <1>1, HandleFacts, EventFacts DEF QueueInv, LinkKind
<1>3. Sound(State, S) /\ Lists(State)
  BY StateNow DEF QueueInv, Lists
<1>4. t \in After(State, S) /\ Offered(t, l)
  BY <1>2, <1>3, CheckAfter
<1> HIDE DEF t
<1>5. \A k \in Link : Checking(Event, k) => Offered(t, k)
  BY <1>2, <1>4 DEF Checking
<1>6. LinkEventFrom(kind, State, t, {})
  BY <1>1, <1>3, <1>4, <1>5 DEF LinkEventFrom
<1> QED
  BY <1>6

LEMMA ContactPlanUpStep ==
  ASSUME QueueInv, HandleContactPlanUp
  PROVE  \E s, t, routed : LinkEventFrom("plan_up", s, t, routed)
<1> DEFINE S == Bundle \ late
           links == {l \in Link : link[l] # "NONE" /\ Remote[l] = Event.node}
           t == CheckAll(State, links)
<1>1. Handle("plan_up") /\ Become(t, {}) /\ Event.kind = "plan_up"
  BY HandleFacts DEF HandleContactPlanUp, CheckAll, QueueInv
<1>2. Sound(State, S) /\ Lists(State)
  BY StateNow DEF QueueInv, Lists
<1>3. t \in After(State, S) /\ \A l \in links : Offered(t, l)
  <2>1. links \in SUBSET Link
    OBVIOUS
  <2> HIDE DEF links
  <2> QED BY <1>2, <2>1, CheckAllKeeps
<1> HIDE DEF t
<1>4. ASSUME NEW k \in Link, Checking(Event, k) PROVE Offered(t, k)
  <2>1. Remote[k] = Event.node
    BY <1>1, <1>4 DEF Checking
  <2>2. CASE link[k] # "NONE"
    BY <1>3, <2>1, <2>2
  <2>3. CASE link[k] = "NONE"
    <3>1. t.link[k] # "OPEN"
      BY <1>3, <2>3, StateNow DEF After, Follows
    <3> QED BY <3>1 DEF Offered
  <2> QED BY <2>2, <2>3
<1>5. LinkEventFrom("plan_up", State, t, {})
  BY <1>1, <1>2, <1>3, <1>4 DEF LinkEventFrom
<1> QED
  BY <1>5

LEMMA CreatedStep ==
  ASSUME QueueInv, HandleLinkCreated
  PROVE  \E s, t, routed : LinkEventFrom("created", s, t, routed)
<1> DEFINE S == Bundle \ late
           s == WithRoutes(listed \cup {Event.link}, routes \cup {Event.link})
<1>1. Handle("created") /\ \E t \in Reroutings(s) : Become(t, pending)
  BY DEF HandleLinkCreated, State, WithRoutes
<1>2. Event.link \in Link /\ Event.kind = "created"
  BY <1>1, HandleFacts, EventFacts DEF QueueInv, LinkKind
<1>3. Sound(s, S) /\ Lists(s)
  <2> DEFINE newListed == listed \cup {Event.link}
             newRoutes == routes \cup {Event.link}
  <2>1. routes \subseteq Link /\ listed \subseteq Link
    BY StateFields, StateNow DEF QueueInv, Sound
  <2>2. newListed \in SUBSET Link /\ newRoutes \in SUBSET Link /\ listed \subseteq newListed
    BY <1>2, <2>1
  <2> HIDE DEF newListed, newRoutes
  <2>3. Sound(WithRoutes(newListed, newRoutes), S) /\ Lists(WithRoutes(newListed, newRoutes))
    BY <2>2, RoutesChange DEF Lists
  <2> QED BY <2>3 DEF newListed, newRoutes
<1> HIDE DEF s
<1>4. PICK t \in Reroutings(s) : Become(t, pending)
  BY <1>1
<1>5. t \in After(s, S)
  BY <1>3, <1>4, RerouteKeeps
<1>6. LinkEventFrom("created", s, t, pending)
  BY <1>1, <1>2, <1>3, <1>4, <1>5 DEF LinkEventFrom, Checking
<1> QED
  BY <1>6

LEMMA RouteAddStep ==
  ASSUME QueueInv, HandleRouteAdd
  PROVE  \E s, t, routed : LinkEventFrom("route_add", s, t, routed)
<1> DEFINE S == Bundle \ late
           more == routes \cup ({Event.link} \cap listed)
           s == WithRoutes(listed, more)
<1>1. /\ Handle("route_add") /\ \E t \in Reroutings([State EXCEPT !.routes = more]) : Become(t, pending)
  BY DEF HandleRouteAdd, State
<1>2. routes \subseteq Link /\ listed \subseteq Link /\ State \in States
  BY StateFields, StateNow DEF QueueInv, Sound
<1>3. [State EXCEPT !.routes = more] = s
  BY <1>2, StateNow DEF States, WithRoutes
<1>4. Sound(s, S) /\ Lists(s)
  BY <1>2, RoutesChange DEF Lists
<1> HIDE DEF s
<1>5. PICK t \in Reroutings(s) : Become(t, pending)
  BY <1>1, <1>3
<1>6. t \in After(s, S)
  BY <1>4, <1>5, RerouteKeeps
<1>7. Event.kind = "route_add"
  BY <1>1, HandleFacts DEF QueueInv
<1>8. LinkEventFrom("route_add", s, t, pending)
  BY <1>1, <1>4, <1>5, <1>6, <1>7 DEF LinkEventFrom, Checking
<1> QED
  BY <1>8

\* The events that only lead to checks, or to routing first.
LinkEvent ==
  \/ HandleContactUp \/ HandleContactPlanUp \/ HandleLinkAvailable \/ HandleLinkCheckDeferred
  \/ HandleLinkCreated \/ HandleRouteAdd

LEMMA LinkEventStep ==
  ASSUME QueueInv, LinkEvent
  PROVE  \E kind \in (LinkKind \ {"contact_down", "deleted"}) \cup {"plan_up"} :
           \E s, t, routed : LinkEventFrom(kind, s, t, routed)
<1>1. {"contact_up", "available", "check_deferred", "created", "route_add", "plan_up"}
        = (LinkKind \ {"contact_down", "deleted"}) \cup {"plan_up"}
  BY DEF LinkKind
<1>2. CASE HandleContactUp
  BY <1>1, <1>2, ContactUpStep
<1>3. CASE HandleContactPlanUp
  BY <1>1, <1>3, ContactPlanUpStep
<1>4. CASE HandleLinkAvailable
  BY <1>1, <1>4, ChecksStep DEF HandleLinkAvailable
<1>5. CASE HandleLinkCheckDeferred
  BY <1>1, <1>5, ChecksStep DEF HandleLinkCheckDeferred
<1>6. CASE HandleLinkCreated
  BY <1>1, <1>6, CreatedStep
<1>7. CASE HandleRouteAdd
  BY <1>1, <1>7, RouteAddStep
<1> QED
  BY <1>2, <1>3, <1>4, <1>5, <1>6, <1>7 DEF LinkEvent

LEMMA LinkEventKeeps == ASSUME QueueInv, LinkEvent PROVE QueueInv'
<1> DEFINE S == Bundle \ late
<1>1. PICK kind \in (LinkKind \ {"contact_down", "deleted"}) \cup {"plan_up"} :
        \E s, t, routed : LinkEventFrom(kind, s, t, routed)
  BY LinkEventStep
<1>2. PICK s, t, routed : LinkEventFrom(kind, s, t, routed)
  BY <1>1
<1>3. Handle(kind) /\ Sound(s, S) /\ t \in After(s, S) /\ Become(t, routed) /\ Remembers(s)
  BY <1>2, RemembersState DEF LinkEventFrom, Lists
<1>4. Sound(t, S) /\ Remembers(t)
  BY <1>3, RemembersAfter DEF After
<1>5. open' = open /\ timer' \in [Link -> {"none", "pending", "fired", "missed"}]
  BY DEF LinkEvent, HandleContactUp, HandleContactPlanUp, HandleLinkAvailable,
         HandleLinkCheckDeferred, HandleLinkCreated, HandleRouteAdd, Checks, CancelTimer,
         QueueInv, Typed
<1> QED
  BY <1>3, <1>4, <1>5, Handled

LEMMA ContactDownKeeps == ASSUME QueueInv, HandleContactDown PROVE QueueInv'
<1>1. /\ Handle("contact_down") /\ open' = open
      /\ timer' \in [Link -> {"none", "pending", "fired", "missed"}]
      /\ inflight' = inflight /\ log' = log /\ late' = late
      /\ State' = State
  BY DEF HandleContactDown, QueueInv, Typed, State
<1>2. /\ events' \in Seq(Events)
      /\ \A i \in DOMAIN events' : events'[i] = events[i + 1] /\ i + 1 \in DOMAIN events /\ i \in Nat
  BY <1>1, HandleFacts DEF QueueInv
<1>3. Typed' /\ Sound(State, Bundle \ late)'
  BY <1>1, <1>2 DEF QueueInv, Typed
<1>4. ReportsTrue'
  <2>1. ASSUME NEW i \in DOMAIN events', NEW j \in DOMAIN events',
               events'[i].kind \in Report3, events'[j].kind \in Report3,
               events'[i].bundle = events'[j].bundle
        PROVE  i = j
    <3>1. i + 1 = j + 1
      BY <1>2, <2>1 DEF QueueInv, ReportsTrue
    <3> QED BY <1>2, <3>1
  <2> QED BY <1>1, <1>2, <2>1 DEF QueueInv, ReportsTrue
<1> QED
  BY <1>3, <1>4 DEF QueueInv

LEMMA RouteDelKeeps == ASSUME QueueInv, HandleRouteDel PROVE QueueInv'
<1>1. /\ Handle("route_del") /\ open' = open /\ timer' = timer
      /\ routes' = {l \in routes : Remote[l] # Event.node}
      /\ pending' = pending /\ deferred' = deferred /\ queue' = queue /\ inflight' = inflight
      /\ log' = log /\ link' = link /\ listed' = listed /\ aside' = aside /\ late' = late
  BY DEF HandleRouteDel
<1>2. /\ events' \in Seq(Events)
      /\ \A i \in DOMAIN events' : events'[i] = events[i + 1] /\ i + 1 \in DOMAIN events /\ i \in Nat
  BY <1>1, HandleFacts DEF QueueInv
<1>3. Sound(State', Bundle \ late)
  <2>1. State \in States /\ Sound(State, Bundle \ late)
    BY DEF QueueInv, Sound
  <2>2. State' \in States
    BY <1>1, <2>1, StateFields, StateNow, StateTyped
  <2> DEFINE t == State'
  <2>3. /\ t \in States /\ t.deferred = State.deferred /\ t.queue = State.queue
        /\ t.inflight = State.inflight /\ t.log = State.log /\ t.listed = State.listed
    BY <1>1, <2>2, StateNow, StateNext
  <2> HIDE DEF t
  <2>4. Sound(t, Bundle \ late)
    BY <2>1, <2>3, SoundStill
  <2> QED BY <2>4 DEF t
<1>4. Typed' /\ Sound(State, Bundle \ late)'
  BY <1>1, <1>2, <1>3 DEF QueueInv, Typed
<1>5. ReportsTrue'
  <2>1. ASSUME NEW i \in DOMAIN events', NEW j \in DOMAIN events',
               events'[i].kind \in Report3, events'[j].kind \in Report3,
               events'[i].bundle = events'[j].bundle
        PROVE  i = j
    <3>1. i + 1 = j + 1
      BY <1>2, <2>1 DEF QueueInv, ReportsTrue
    <3> QED BY <1>2, <3>1
  <2> QED BY <1>1, <1>2, <2>1 DEF QueueInv, ReportsTrue
<1> QED
  BY <1>4, <1>5 DEF QueueInv

LEMMA DeletedLinkKeeps == ASSUME QueueInv, HandleLinkDeleted PROVE QueueInv'
<1> DEFINE S == Bundle \ late
           l == Event.link
           d == [deferred EXCEPT ![l] = <<>>]
           t == [State EXCEPT !.listed = listed \ {l}, !.routes = routes \ {l}, !.deferred = d]
<1>1. /\ Handle("deleted") /\ open' = open /\ timer' = CancelTimer(l)
      /\ \E routed : Become(t, routed)
  BY DEF HandleLinkDeleted, State
<1>2. l \in Link
  BY <1>1, HandleFacts, EventFacts DEF QueueInv, LinkKind
<1>3. State \in States /\ DeferredSound(State) /\ \A x \in S : LogSound(State, x)
  BY DEF QueueInv, Sound
<1> HIDE DEF l
<1>4. d \in [Link -> Seq(Bundle)] /\ \A k \in Link : d[k] = IF k = l THEN <<>> ELSE deferred[k]
  <2>1. <<>> \in Seq(Bundle) /\ deferred \in [Link -> Seq(Bundle)]
    BY <1>3, StateFields, StateNow
  <2> QED BY <2>1
<1> HIDE DEF d
<1>5. /\ t \in States /\ t.deferred = d /\ t.listed = listed \ {l}
      /\ t.queue = queue /\ t.inflight = inflight /\ t.log = log
  BY <1>3, <1>4, StateNow DEF States
<1>6. timer' \in [Link -> {"none", "pending", "fired", "missed"}]
  BY <1>1 DEF CancelTimer, QueueInv, Typed
<1>7. PICK routed : Become(t, routed)
  BY <1>1
<1> HIDE DEF t
<1>8. Sound(t, S)
  <2>1. IsInjective(<<>>)
    BY DEF IsInjective
  <2>2. DeferredSound(t)
    BY <1>3, <1>4, <1>5, <2>1, StateNow DEF DeferredSound
  <2>3. ASSUME NEW x \in S PROVE LogSound(t, x)
    <3>1. LogSound(State, x)
      BY <1>3
    <3> QED BY <1>5, <3>1, StateNow DEF LogSound, On
  <2> QED BY <1>5, <2>2, <2>3 DEF Sound
<1>9. Remembers(t)
  BY <1>5, RemembersState
<1> QED
  BY <1>1, <1>6, <1>7, <1>8, <1>9, Handled

-----------------------------------------------------------------------------
(* The queues stay sound: timer, links and contact plan *)

LEMMA MoreEvents ==
  ASSUME NEW old \in Seq(Events), NEW more \in Seq(Events)
  PROVE  LET all == old \o more IN
         /\ all \in Seq(Events)
         /\ \A i \in DOMAIN old : i \in DOMAIN all /\ all[i] = old[i]
         /\ \A i \in DOMAIN all : i \in DOMAIN old \/ \E k \in DOMAIN more : all[i] = more[k]
         /\ \A k \in DOMAIN more : \E i \in DOMAIN all : all[i] = more[k]
<1> DEFINE all == old \o more
<1>1. /\ all \in Seq(Events) /\ Len(all) = Len(old) + Len(more)
      /\ Len(old) \in Nat /\ Len(more) \in Nat
      /\ DOMAIN old = 1 .. Len(old) /\ DOMAIN more = 1 .. Len(more)
      /\ DOMAIN all = 1 .. Len(all)
      /\ \A i \in 1 .. Len(all) : all[i] = IF i <= Len(old) THEN old[i] ELSE more[i - Len(old)]
  BY ConcatProperties, LenProperties
<1> HIDE DEF all
<1>2. \A i \in DOMAIN old : i \in DOMAIN all /\ all[i] = old[i]
  BY <1>1
<1>3. \A i \in DOMAIN all : i \notin DOMAIN old =>
        i - Len(old) \in DOMAIN more /\ all[i] = more[i - Len(old)]
  BY <1>1
<1>4. \A k \in DOMAIN more : k + Len(old) \in DOMAIN all /\ all[k + Len(old)] = more[k]
  BY <1>1
<1>5. \A i \in DOMAIN all : i \in DOMAIN old \/ \E k \in DOMAIN more : all[i] = more[k]
  BY <1>3
<1>6. \A k \in DOMAIN more : \E i \in DOMAIN all : all[i] = more[k]
  BY <1>4
<1> QED
  BY <1>1, <1>2, <1>5, <1>6 DEF all

LEMMA PostFacts ==
  ASSUME Typed, NEW e \in Events, Post(e)
  PROVE  /\ events' \in Seq(Events)
         /\ \A i \in DOMAIN events : i \in DOMAIN events' /\ events'[i] = events[i]
         /\ \E n \in DOMAIN events' : /\ n \notin DOMAIN events /\ events'[n] = e
                                      /\ \A i \in DOMAIN events' : i \in DOMAIN events \/ i = n
                                      /\ \A i \in DOMAIN events : i < n
<1>1. events' = Append(events, e) /\ events \in Seq(Events)
  BY DEF Post, Typed
<1>2. /\ events' \in Seq(Events) /\ Len(events') = Len(events) + 1 /\ Len(events) \in Nat
      /\ \A i \in 1 .. Len(events) : events'[i] = events[i]
      /\ events'[Len(events) + 1] = e
  BY <1>1, AppendProperties, LenProperties
<1>3. DOMAIN events' = 1 .. Len(events) + 1 /\ DOMAIN events = 1 .. Len(events)
  BY <1>1, <1>2
<1> DEFINE n == Len(events) + 1
<1>4. /\ n \in DOMAIN events' /\ n \notin DOMAIN events /\ events'[n] = e
      /\ \A i \in DOMAIN events' : i \in DOMAIN events \/ i = n
      /\ \A i \in DOMAIN events : i < n
  BY <1>2, <1>3
<1> QED
  BY <1>2, <1>3, <1>4

\* One more report, of a bundle no report is about, or another event.
LEMMA ReportsGrow ==
  ASSUME QueueInv, NEW e \in Events, Post(e), inflight' = inflight, log' = log, late' = late,
         e.kind \in Report3 =>
           /\ ~ EventOf(e.bundle)
           /\ e.kind \in {"transmitted", "failed"} => e.bundle \in Range(inflight[e.link])
           /\ e.kind = "custody_timeout" => log[e.bundle][e.link] = "TRANSMITTED"
  PROVE  events' \in Seq(Events) /\ ReportsTrue'
<1>1. /\ events' \in Seq(Events)
      /\ \A i \in DOMAIN events : i \in DOMAIN events' /\ events'[i] = events[i]
  BY PostFacts DEF QueueInv
<1>2. PICK n \in DOMAIN events' : /\ n \notin DOMAIN events /\ events'[n] = e
                                  /\ \A i \in DOMAIN events' : i \in DOMAIN events \/ i = n
  BY PostFacts DEF QueueInv
<1>3. ReportsTrue
  BY DEF QueueInv
<1>4. e.kind \in Report3 => \A i \in DOMAIN events : events[i].bundle # e.bundle
  BY DEF EventOf
<1>5. \A i \in DOMAIN events' : events'[i].bundle \notin late' =>
        /\ events'[i].kind \in {"transmitted", "failed"} =>
             events'[i].bundle \in Range(inflight'[events'[i].link])
        /\ events'[i].kind = "custody_timeout" =>
             log'[events'[i].bundle][events'[i].link] = "TRANSMITTED"
  BY <1>1, <1>2, <1>3 DEF ReportsTrue, Report3
<1>6. \A i, j \in DOMAIN events' :
        events'[i].kind \in Report3 /\ events'[j].kind \in Report3
          /\ events'[i].bundle = events'[j].bundle => i = j
  BY <1>1, <1>2, <1>3, <1>4 DEF ReportsTrue
<1> QED
  BY <1>1, <1>5, <1>6 DEF ReportsTrue

LEMMA EventTypes ==
  /\ \A b \in Bundle : OfBundle("received", b, 0) \in Events
  /\ \A k \in BundleKind, b \in Bundle, l \in Link : OfBundle(k, b, l) \in Events
  /\ \A k \in LinkKind, l \in Link : OfLink(k, l) \in Events
  /\ \A k \in {"plan_up", "route_del"}, n \in Node : OfNode(k, n) \in Events
BY DEF Events

LEMMA EventFields ==
  /\ \A k, b, l : OfBundle(k, b, l).kind = k /\ OfBundle(k, b, l).bundle = b /\ OfBundle(k, b, l).link = l
  /\ \A k, l : OfLink(k, l).kind = k /\ OfLink(k, l).bundle = 0 /\ OfLink(k, l).link = l
                 /\ OfLink(k, l).node = 0
  /\ \A k, n : OfNode(k, n).kind = k /\ OfNode(k, n).bundle = 0 /\ OfNode(k, n).link = 0
                 /\ OfNode(k, n).node = n
  /\ \A k, b, l : OfBundle(k, b, l).node = 0
BY DEF OfBundle, OfLink, OfNode, Happens

\* What Cancel does to the bundles of S on link l, and the events it leaves.
CancelLeaves(l, S) ==
  /\ queue' \in [Link -> Seq(Bundle)] /\ inflight' \in [Link -> Seq(Bundle)]
  /\ log' \in [Bundle -> [Link -> Entry]]
  /\ \A k \in Link :
       /\ Range(queue'[k]) = IF k = l THEN Range(queue[l]) \ S ELSE Range(queue[k])
       /\ Range(inflight'[k]) = IF k = l THEN Range(inflight[l]) \ S ELSE Range(inflight[k])
       /\ \A x : Once(queue[k], x) => Once(queue'[k], x)
       /\ Len(queue[k]) <= QueueHigh => Len(queue'[k]) <= QueueHigh
  /\ \A x \in Bundle, k \in Link :
       log'[x][k] = IF k = l /\ x \in S /\ On(State, x, l) THEN "CANCELLED" ELSE log[x][k]
  /\ events' \in Seq(Events)
  /\ \A i \in DOMAIN events : i \in DOMAIN events' /\ events'[i] = events[i]
  /\ \A i \in DOMAIN events' :
       \/ i \in DOMAIN events
       \/ \E x \in S : events'[i] = OfBundle("cancelled", x, l)
       \/ events'[i] = OfLink("check_deferred", l)
  /\ \A x \in S : On(State, x, l) =>
       /\ \E i \in DOMAIN events' : events'[i] = OfBundle("cancelled", x, l)
       /\ \E i \in DOMAIN events' : events'[i] = OfLink("check_deferred", l)

LEMMA CancelFacts ==
  ASSUME Typed, State \in States, NEW l \in Link, NEW S \in SUBSET Bundle, Cancel(l, S)
  PROVE  CancelLeaves(l, S)
<1> DEFINE both == queue[l] \o inflight[l]
           gone == Only(both, S)
           told == [i \in DOMAIN gone |-> OfBundle("cancelled", gone[i], l)]
           check == IF gone = <<>> THEN <<>> ELSE <<OfLink("check_deferred", l)>>
           q == Without(queue[l], S)
           f == Without(inflight[l], S)
<1>1. /\ queue \in [Link -> Seq(Bundle)] /\ inflight \in [Link -> Seq(Bundle)]
      /\ log \in [Bundle -> [Link -> Entry]] /\ events \in Seq(Events)
  BY StateFields, StateNow DEF Typed
<1>2. /\ queue' = [queue EXCEPT ![l] = q] /\ inflight' = [inflight EXCEPT ![l] = f]
      /\ log' = [x \in Bundle |-> IF x \in Range(gone) THEN [log[x] EXCEPT ![l] = "CANCELLED"]
                                                      ELSE log[x]]
      /\ events' = events \o told \o check
  BY DEF Cancel
<1>3. /\ q \in Seq(Bundle) /\ Len(q) <= Len(queue[l]) /\ Range(q) = Range(queue[l]) \ S
      /\ \A x : Once(queue[l], x) => Once(q, x)
      /\ f \in Seq(Bundle) /\ Range(f) = Range(inflight[l]) \ S
  BY <1>1, WithoutFacts
<1>4. /\ gone \in Seq(Bundle)
      /\ \A x : x \in Range(gone) <=> x \in S /\ On(State, x, l)
  <2>1. both \in Seq(Bundle) /\ Range(both) = Range(queue[l]) \cup Range(inflight[l])
    BY <1>1, ConcatFacts
  <2> HIDE DEF both
  <2>2. gone \in Seq(Bundle) /\ Range(gone) = Range(both) \cap S
    BY <2>1, OnlyFacts
  <2> HIDE DEF gone
  <2> QED BY <2>1, <2>2, StateNow DEF On
<1> HIDE DEF q, f, gone
<1>5. /\ queue' \in [Link -> Seq(Bundle)] /\ inflight' \in [Link -> Seq(Bundle)]
      /\ \A k \in Link : /\ queue'[k] = IF k = l THEN q ELSE queue[k]
                         /\ inflight'[k] = IF k = l THEN f ELSE inflight[k]
  <2>1. q \in Seq(Bundle) /\ f \in Seq(Bundle)
    BY <1>3
  <2>2. /\ queue \in [Link -> Seq(Bundle)] /\ queue' = [queue EXCEPT ![l] = q]
        /\ inflight \in [Link -> Seq(Bundle)] /\ inflight' = [inflight EXCEPT ![l] = f]
    BY <1>1, <1>2
  <2> QED BY <2>1, <2>2
<1>6. /\ log' \in [Bundle -> [Link -> Entry]]
      /\ \A x \in Bundle, k \in Link :
           log'[x][k] = IF k = l /\ x \in S /\ On(State, x, l) THEN "CANCELLED" ELSE log[x][k]
  BY <1>1, <1>2, <1>4 DEF Entry
<1>7. /\ told \in Seq(Events) /\ DOMAIN told = DOMAIN gone
      /\ \A i \in DOMAIN gone : told[i] = OfBundle("cancelled", gone[i], l) /\ gone[i] \in S
  <2>1. DOMAIN gone = 1 .. Len(gone) /\ Len(gone) \in Nat
    BY <1>4
  <2>2. \A i \in DOMAIN gone : gone[i] \in S /\ OfBundle("cancelled", gone[i], l) \in Events
    <3>1. \A i \in DOMAIN gone : gone[i] \in S /\ gone[i] \in Bundle
      BY <1>4 DEF Range
    <3> QED BY <3>1, EventTypes DEF BundleKind
  <2> QED BY <2>1, <2>2
<1>8. /\ check \in Seq(Events)
      /\ \A i \in DOMAIN check : check[i] = OfLink("check_deferred", l)
      /\ gone # <<>> => 1 \in DOMAIN check
  <2>1. OfLink("check_deferred", l) \in Events
    BY EventTypes DEF LinkKind
  <2> QED BY <2>1
<1> HIDE DEF told, check
<1> DEFINE mid == events \o told
<1>9. /\ mid \in Seq(Events)
      /\ \A i \in DOMAIN events : i \in DOMAIN mid /\ mid[i] = events[i]
      /\ \A i \in DOMAIN mid : i \in DOMAIN events \/ \E k \in DOMAIN told : mid[i] = told[k]
      /\ \A k \in DOMAIN told : \E i \in DOMAIN mid : mid[i] = told[k]
  BY <1>1, <1>7, MoreEvents
<1>10. events' = mid \o check
  BY <1>2
<1> HIDE DEF mid
<1>11. /\ events' \in Seq(Events)
       /\ \A i \in DOMAIN mid : i \in DOMAIN events' /\ events'[i] = mid[i]
       /\ \A i \in DOMAIN events' : i \in DOMAIN mid \/ \E k \in DOMAIN check : events'[i] = check[k]
       /\ \A k \in DOMAIN check : \E i \in DOMAIN events' : events'[i] = check[k]
  BY <1>8, <1>9, <1>10, MoreEvents
<1>12. \A i \in DOMAIN events : i \in DOMAIN events' /\ events'[i] = events[i]
  BY <1>9, <1>11
<1>13. \A i \in DOMAIN events' :
         \/ i \in DOMAIN events
         \/ \E x \in S : events'[i] = OfBundle("cancelled", x, l)
         \/ events'[i] = OfLink("check_deferred", l)
  BY <1>7, <1>8, <1>9, <1>11
<1>14. ASSUME NEW x \in S, On(State, x, l)
       PROVE  /\ \E i \in DOMAIN events' : events'[i] = OfBundle("cancelled", x, l)
              /\ \E i \in DOMAIN events' : events'[i] = OfLink("check_deferred", l)
  <2>1. PICK k \in DOMAIN gone : gone[k] = x
    BY <1>4, <1>14 DEF Range
  <2>2. PICK i \in DOMAIN mid : mid[i] = told[k]
    BY <1>7, <1>9
  <2>3. i \in DOMAIN events' /\ events'[i] = OfBundle("cancelled", x, l)
    BY <1>7, <1>11, <2>1, <2>2
  <2>4. gone # <<>>
    BY <2>1
  <2> QED BY <1>8, <1>11, <2>3, <2>4
<1>15. \A k \in Link :
         /\ Range(queue'[k]) = IF k = l THEN Range(queue[l]) \ S ELSE Range(queue[k])
         /\ Range(inflight'[k]) = IF k = l THEN Range(inflight[l]) \ S ELSE Range(inflight[k])
         /\ \A x : Once(queue[k], x) => Once(queue'[k], x)
  <2>1. \A k \in Link : k # l => queue'[k] = queue[k] /\ inflight'[k] = inflight[k]
    BY <1>5
  <2>2. queue'[l] = q /\ inflight'[l] = f
    BY <1>5
  <2> QED BY <1>3, <2>1, <2>2
<1>16. ASSUME NEW k \in Link, Len(queue[k]) <= QueueHigh PROVE Len(queue'[k]) <= QueueHigh
  <2>1. Len(q) \in Nat /\ Len(queue[l]) \in Nat /\ QueueHigh \in Nat
    BY <1>1, <1>3, LenProperties, QueueLimits
  <2>2. Len(q) <= Len(queue[l])
    BY <1>3
  <2>3. queue'[k] = IF k = l THEN q ELSE queue[k]
    BY <1>5
  <2> QED BY <1>16, <2>1, <2>2, <2>3
<1> QED
  BY <1>5, <1>6, <1>11, <1>12, <1>13, <1>14, <1>15, <1>16 DEF CancelLeaves

LEMMA TimeoutKeeps == ASSUME QueueInv, NEW l \in Link, Timeout(l) PROVE QueueInv'
<1>1. /\ timer' = [timer EXCEPT ![l] = IF link[l] = "UNAVAILABLE" THEN "fired" ELSE "missed"]
      /\ pending' = pending /\ listed' = listed /\ deferred' = deferred /\ link' = link
      /\ routes' = routes /\ open' = open /\ aside' = aside
  BY DEF Timeout
<1>2. timer' \in [Link -> {"none", "pending", "fired", "missed"}] /\ open' \subseteq Planned
  BY <1>1 DEF QueueInv, Typed
<1>3. /\ State \in States /\ DeferredSound(State)
      /\ \A x \in Bundle \ late : LogSound(State, x)
  BY DEF QueueInv, Sound
<1>4. CASE link[l] # "UNAVAILABLE"
  <2>1. /\ queue' = queue /\ inflight' = inflight /\ log' = log /\ events' = events /\ late' = late
        /\ State' = State
    BY <1>1, <1>4 DEF Timeout, State
  <2>2. Typed' /\ Sound(State, Bundle \ late)'
    BY <1>2, <2>1 DEF QueueInv, Typed
  <2>3. ReportsTrue'
    BY <2>1 DEF QueueInv, ReportsTrue
  <2> QED BY <2>2, <2>3 DEF QueueInv
<1>5. CASE link[l] = "UNAVAILABLE"
  <2>1. /\ Cancel(l, Bundle)
        /\ late' = late \cup {b \in Bundle : On(State, b, l) /\ Reported(b)}
    BY <1>5 DEF Timeout
  <2>2. /\ queue' \in [Link -> Seq(Bundle)] /\ inflight' \in [Link -> Seq(Bundle)]
        /\ log' \in [Bundle -> [Link -> Entry]]
        /\ \A k \in Link :
             /\ Range(queue'[k]) = IF k = l THEN Range(queue[l]) \ Bundle ELSE Range(queue[k])
             /\ Range(inflight'[k]) = IF k = l THEN Range(inflight[l]) \ Bundle ELSE Range(inflight[k])
             /\ \A x : Once(queue[k], x) => Once(queue'[k], x)
             /\ Len(queue[k]) <= QueueHigh => Len(queue'[k]) <= QueueHigh
        /\ \A x \in Bundle, k \in Link :
             log'[x][k] = IF k = l /\ x \in Bundle /\ On(State, x, l) THEN "CANCELLED" ELSE log[x][k]
        /\ events' \in Seq(Events)
        /\ \A i \in DOMAIN events : i \in DOMAIN events' /\ events'[i] = events[i]
        /\ \A i \in DOMAIN events' :
             \/ i \in DOMAIN events
             \/ \E x \in Bundle : events'[i] = OfBundle("cancelled", x, l)
             \/ events'[i] = OfLink("check_deferred", l)
    <3>1. Bundle \in SUBSET Bundle /\ Typed
      BY DEF QueueInv
    <3>2. CancelLeaves(l, Bundle)
      BY <1>3, <2>1, <3>1, CancelFacts
    <3> QED BY <3>2 DEF CancelLeaves
  <2>3. State' \in States
    BY <1>1, <1>3, <2>2, StateFields, StateNow, StateTyped
  <2>4. DeferredSound(State')
    BY <1>1, <1>3, <2>2, StateNow, StateNext DEF DeferredSound
  <2>5. \A k \in Link, x \in Bundle :
          /\ x \in Range(queue'[k]) <=> x \in Range(queue[k]) /\ k # l
          /\ x \in Range(inflight'[k]) <=> x \in Range(inflight[k]) /\ k # l
    BY <2>2
  <2>6. ASSUME NEW x \in Bundle \ late' PROVE LogSound(State', x)
    <3>1. x \in Bundle /\ x \notin late /\ LogSound(State, x)
      BY <1>3, <2>1, <2>6
    <3>2. \A k \in Link : On(State', x, k) <=> On(State, x, k) /\ k # l
      BY <2>5, <3>1, StateNow, StateNext DEF On
    <3>3. \A k \in Link : log'[x][k] = IF k = l /\ On(State, x, l) THEN "CANCELLED" ELSE log[x][k]
      BY <2>2, <3>1
    <3>4. \A k \in Link :
            /\ log[x][k] = "QUEUED" <=> On(State, x, k)
            /\ Once(queue[k], x)
            /\ x \in Range(queue[k]) => x \notin Range(inflight[k])
            /\ On(State, x, k) => \A m \in Link \ {k} : ~ On(State, x, m) /\ log[x][m] # "TRANSMITTED"
      BY <3>1, StateNow DEF LogSound
    <3>5. \A k \in Link : Once(queue'[k], x)
      BY <2>2, <3>4
    <3>6. \A k \in Link : log'[x][k] = "QUEUED" <=> On(State', x, k)
      BY <3>2, <3>3, <3>4
    <3>7. \A k \in Link : On(State', x, k) =>
            \A m \in Link \ {k} : ~ On(State', x, m) /\ log'[x][m] # "TRANSMITTED"
      BY <3>2, <3>3, <3>4
    <3>8. \A k \in Link : x \in Range(queue'[k]) => x \notin Range(inflight'[k])
      BY <2>5, <3>1, <3>4
    <3> QED BY <3>5, <3>6, <3>7, <3>8, StateNext DEF LogSound
  <2>7. Sound(State, Bundle \ late)'
    BY <2>3, <2>4, <2>6 DEF Sound
  <2>8. Typed'
    BY <1>2, <2>1, <2>2 DEF QueueInv, Typed
  <2>9. \A i \in DOMAIN events' : events'[i].kind \in Report3 =>
          i \in DOMAIN events /\ events'[i] = events[i]
    BY <2>2, EventFields DEF Report3
  <2>10. ASSUME NEW i \in DOMAIN events', events'[i].bundle \notin late', events'[i].kind \in Report3
         PROVE  /\ events'[i].kind \in {"transmitted", "failed"} =>
                     events'[i].bundle \in Range(inflight'[events'[i].link])
                /\ events'[i].kind = "custody_timeout" =>
                     log'[events'[i].bundle][events'[i].link] = "TRANSMITTED"
    <3> DEFINE e == events[i]
    <3>1. i \in DOMAIN events /\ events'[i] = e /\ e.kind \in Report3 /\ e.bundle \notin late
          /\ e.bundle \notin {b \in Bundle : On(State, b, l) /\ Reported(b)}
      BY <2>1, <2>9, <2>10
    <3>2. e.bundle \in Bundle /\ e.link \in Link
      BY <3>1, EventFacts DEF QueueInv, Report3, BundleKind
    <3>3. /\ e.kind \in {"transmitted", "failed"} => e.bundle \in Range(inflight[e.link])
          /\ e.kind = "custody_timeout" => log[e.bundle][e.link] = "TRANSMITTED"
      BY <3>1 DEF QueueInv, ReportsTrue
    <3>4. e.kind \in {"transmitted", "failed"} => Reported(e.bundle)
      BY <3>1 DEF Reported
    <3> HIDE DEF e
    <3>5. CASE e.kind \in {"transmitted", "failed"}
      <4>1. e.link # l
        BY <3>1, <3>2, <3>3, <3>4, <3>5, StateNow DEF On
      <4> QED BY <2>5, <3>1, <3>2, <3>3, <3>5, <4>1
    <3>6. CASE e.kind = "custody_timeout"
      <4>1. ~ On(State, e.bundle, e.link)
        BY <1>3, <3>1, <3>2, <3>3, <3>6, StateNow DEF LogSound
      <4> QED BY <2>2, <3>1, <3>2, <3>3, <3>6, <4>1
    <3> QED BY <3>1, <3>5, <3>6 DEF Report3
  <2>11. \A i, j \in DOMAIN events' :
           events'[i].kind \in Report3 /\ events'[j].kind \in Report3
             /\ events'[i].bundle = events'[j].bundle => i = j
    BY <2>9 DEF QueueInv, ReportsTrue
  <2>12. ReportsTrue'
    BY <2>10, <2>11 DEF ReportsTrue, Report3
  <2> QED BY <2>7, <2>8, <2>12 DEF QueueInv
<1> QED
  BY <1>4, <1>5

LEMMA ExpireKeeps ==
  ASSUME QueueInv, NEW b \in Bundle, NEW l \in Link, Expire(b, l)
  PROVE  QueueInv'
<1> DEFINE r == RemoveFromDeferred(State, b)
           only == {b}
<1>1. /\ b \in pending /\ \A m \in Link : b \notin Range(inflight[m])
      /\ \A m \in Link : On(State, b, m) => m = l
      /\ Cancel(l, only)
      /\ pending' = pending \ {b} /\ deferred' = r.deferred
      /\ aside' = {p \in aside : p[1] # b}
      /\ listed' = listed /\ link' = link /\ routes' = routes /\ timer' = timer /\ open' = open
      /\ late' = late
  BY DEF Expire
<1>2. /\ State \in States /\ DeferredSound(State)
      /\ \A x \in Bundle \ late : LogSound(State, x)
  BY DEF QueueInv, Sound
<1>3. /\ queue' \in [Link -> Seq(Bundle)] /\ inflight' \in [Link -> Seq(Bundle)]
      /\ log' \in [Bundle -> [Link -> Entry]]
      /\ \A k \in Link :
           /\ Range(queue'[k]) = IF k = l THEN Range(queue[l]) \ only ELSE Range(queue[k])
           /\ Range(inflight'[k]) = IF k = l THEN Range(inflight[l]) \ only ELSE Range(inflight[k])
           /\ \A x : Once(queue[k], x) => Once(queue'[k], x)
           /\ Len(queue[k]) <= QueueHigh => Len(queue'[k]) <= QueueHigh
      /\ \A x \in Bundle, k \in Link :
           log'[x][k] = IF k = l /\ x \in only /\ On(State, x, l) THEN "CANCELLED" ELSE log[x][k]
      /\ events' \in Seq(Events)
      /\ \A i \in DOMAIN events : i \in DOMAIN events' /\ events'[i] = events[i]
      /\ \A i \in DOMAIN events' :
           \/ i \in DOMAIN events
           \/ \E x \in only : events'[i] = OfBundle("cancelled", x, l)
           \/ events'[i] = OfLink("check_deferred", l)
  <2>1. only \in SUBSET Bundle /\ Typed /\ State \in States /\ Cancel(l, only)
    BY <1>1, <1>2 DEF QueueInv
  <2> HIDE DEF only, r
  <2>2. CancelLeaves(l, only)
    BY <2>1, CancelFacts
  <2> QED BY <2>2 DEF CancelLeaves
<1>4. Sound(r, Bundle \ late) /\ r.listed = listed
  <2>1. Bundle \ late \in SUBSET Bundle /\ Sound(State, Bundle \ late)
    BY DEF QueueInv
  <2> QED BY <2>1, RemovedFacts, StateNow
<1>5. deferred' \in [Link -> Seq(Bundle)] /\ aside' \subseteq Bundle \X Link /\ pending' \subseteq Bundle
  <2>1. r \in States
    BY <1>4 DEF Sound
  <2> HIDE DEF r
  <2>2. r.deferred \in [Link -> Seq(Bundle)]
    BY <2>1, StateFields
  <2> QED BY <1>1, <1>2, <2>2, StateFields, StateNow
<1>6. State' \in States
  BY <1>1, <1>2, <1>3, <1>5, StateFields, StateNow, StateTyped
<1> HIDE DEF r
<1>7. DeferredSound(State')
  <2>1. DeferredSound(r)
    BY <1>4 DEF Sound
  <2>2. \A k \in Link : Len(queue'[k]) <= QueueHigh
    BY <1>2, <1>3, StateNow DEF DeferredSound
  <2>3. \A k \in Link : IsInjective(deferred'[k]) /\ (deferred'[k] # <<>> => k \in listed')
    BY <1>1, <1>4, <2>1 DEF DeferredSound
  <2> QED BY <2>2, <2>3, StateNext DEF DeferredSound
<1>8. \A k \in Link, x \in Bundle :
        /\ x \in Range(queue'[k]) <=> x \in Range(queue[k]) /\ ~ (k = l /\ x = b)
        /\ x \in Range(inflight'[k]) <=> x \in Range(inflight[k]) /\ ~ (k = l /\ x = b)
  BY <1>3
<1>9. ASSUME NEW x \in Bundle \ late' PROVE LogSound(State', x)
  <2>1. x \in Bundle /\ x \notin late /\ LogSound(State, x)
    BY <1>1, <1>2, <1>9
  <2>2. \A k \in Link : On(State', x, k) <=> On(State, x, k) /\ ~ (k = l /\ x = b)
    BY <1>8, <2>1, StateNow, StateNext DEF On
  <2>3. \A k \in Link : log'[x][k] = IF k = l /\ x = b /\ On(State, x, l) THEN "CANCELLED" ELSE log[x][k]
    BY <1>3, <2>1
  <2>4. \A k \in Link :
          /\ log[x][k] = "QUEUED" <=> On(State, x, k)
          /\ Once(queue[k], x)
          /\ x \in Range(queue[k]) => x \notin Range(inflight[k])
          /\ On(State, x, k) => \A m \in Link \ {k} : ~ On(State, x, m) /\ log[x][m] # "TRANSMITTED"
    BY <2>1, StateNow DEF LogSound
  <2>5. \A k \in Link : Once(queue'[k], x)
    BY <1>3, <2>4
  <2>6. \A k \in Link : log'[x][k] = "QUEUED" <=> On(State', x, k)
    BY <2>2, <2>3, <2>4
  <2>7. \A k \in Link : On(State', x, k) =>
          \A m \in Link \ {k} : ~ On(State', x, m) /\ log'[x][m] # "TRANSMITTED"
    BY <2>2, <2>3, <2>4
  <2>8. \A k \in Link : x \in Range(queue'[k]) => x \notin Range(inflight'[k])
    BY <1>8, <2>1, <2>4
  <2> QED BY <2>5, <2>6, <2>7, <2>8, StateNext DEF LogSound
<1>10. Sound(State, Bundle \ late)'
  BY <1>6, <1>7, <1>9 DEF Sound
<1>11. Typed'
  BY <1>1, <1>3 DEF QueueInv, Typed
<1>12. \A i \in DOMAIN events' : events'[i].kind \in Report3 =>
         i \in DOMAIN events /\ events'[i] = events[i]
  <2>1. \A i \in DOMAIN events' :
          \/ i \in DOMAIN events /\ events'[i] = events[i]
          \/ events'[i].kind \in {"cancelled", "check_deferred"}
    <3>1. ASSUME NEW i \in DOMAIN events'
          PROVE  \/ i \in DOMAIN events /\ events'[i] = events[i]
                 \/ events'[i] = OfBundle("cancelled", b, l)
                 \/ events'[i] = OfLink("check_deferred", l)
      BY <1>3
    <3> QED BY <3>1, EventFields
  <2> QED BY <2>1 DEF Report3
<1>13. ASSUME NEW i \in DOMAIN events', events'[i].bundle \notin late', events'[i].kind \in Report3
       PROVE  /\ events'[i].kind \in {"transmitted", "failed"} =>
                   events'[i].bundle \in Range(inflight'[events'[i].link])
              /\ events'[i].kind = "custody_timeout" =>
                   log'[events'[i].bundle][events'[i].link] = "TRANSMITTED"
  <2> DEFINE e == events[i]
  <2>1. i \in DOMAIN events /\ events'[i] = e /\ e.kind \in Report3 /\ e.bundle \notin late
    BY <1>1, <1>12, <1>13
  <2>2. e.bundle \in Bundle /\ e.link \in Link
    BY <2>1, EventFacts DEF QueueInv, Report3, BundleKind
  <2>3. /\ e.kind \in {"transmitted", "failed"} => e.bundle \in Range(inflight[e.link])
        /\ e.kind = "custody_timeout" => log[e.bundle][e.link] = "TRANSMITTED"
    BY <2>1 DEF QueueInv, ReportsTrue
  <2> HIDE DEF e
  <2>4. CASE e.kind \in {"transmitted", "failed"}
    <3>1. e.bundle # b
      BY <1>1, <2>2, <2>3, <2>4
    <3> QED BY <1>8, <2>1, <2>2, <2>3, <2>4, <3>1
  <2>5. CASE e.kind = "custody_timeout"
    <3>1. ~ On(State, e.bundle, e.link)
      BY <1>2, <2>1, <2>2, <2>3, <2>5, StateNow DEF LogSound
    <3> QED BY <1>3, <2>1, <2>2, <2>3, <2>5, <3>1
  <2> QED BY <2>1, <2>4, <2>5 DEF Report3
<1>14. \A i, j \in DOMAIN events' :
         events'[i].kind \in Report3 /\ events'[j].kind \in Report3
           /\ events'[i].bundle = events'[j].bundle => i = j
  BY <1>12 DEF QueueInv, ReportsTrue
<1>15. ReportsTrue'
  BY <1>13, <1>14 DEF ReportsTrue, Report3
<1> QED
  BY <1>10, <1>11, <1>15 DEF QueueInv

\* A step that posts an event, and changes nothing the queues depend on.
LEMMA PostKeeps ==
  ASSUME QueueInv, NEW e \in Events, Post(e),
         pending' = pending, deferred' = deferred, queue' = queue, inflight' = inflight,
         log' = log, routes' = routes, listed' = listed, aside' = aside, late' = late,
         timer' = timer, link' \in [Link -> LinkState], open' \subseteq Planned,
         e.kind \in Report3 =>
           /\ ~ EventOf(e.bundle)
           /\ e.kind \in {"transmitted", "failed"} => e.bundle \in Range(inflight[e.link])
           /\ e.kind = "custody_timeout" => log[e.bundle][e.link] = "TRANSMITTED"
  PROVE  QueueInv'
<1>1. events' \in Seq(Events) /\ ReportsTrue'
  BY ReportsGrow
<1>2. Typed'
  BY <1>1 DEF QueueInv, Typed
<1>3. Sound(State', Bundle \ late)
  <2>1. State \in States /\ Sound(State, Bundle \ late)
    BY DEF QueueInv, Sound
  <2>2. State' \in States
    BY <2>1, StateFields, StateNow, StateTyped
  <2> DEFINE t == State'
  <2>3. /\ t \in States /\ t.deferred = State.deferred /\ t.queue = State.queue
        /\ t.inflight = State.inflight /\ t.log = State.log /\ t.listed = State.listed
    BY <2>2, StateNow, StateNext
  <2> HIDE DEF t
  <2>4. Sound(t, Bundle \ late)
    BY <2>1, <2>3, SoundStill
  <2> QED BY <2>4 DEF t
<1> QED
  BY <1>1, <1>2, <1>3 DEF QueueInv

\* The same without an event.
LEMMA LinkKeeps ==
  ASSUME QueueInv, events' = events,
         pending' = pending, deferred' = deferred, queue' = queue, inflight' = inflight,
         log' = log, routes' = routes, listed' = listed, aside' = aside, late' = late,
         timer' = timer, link' \in [Link -> LinkState], open' \subseteq Planned
  PROVE  QueueInv'
<1>1. ReportsTrue' /\ Typed'
  BY DEF QueueInv, ReportsTrue, Typed
<1>2. Sound(State', Bundle \ late)
  <2>1. State \in States /\ Sound(State, Bundle \ late)
    BY DEF QueueInv, Sound
  <2>2. State' \in States
    BY <2>1, StateFields, StateNow, StateTyped
  <2> DEFINE t == State'
  <2>3. /\ t \in States /\ t.deferred = State.deferred /\ t.queue = State.queue
        /\ t.inflight = State.inflight /\ t.log = State.log /\ t.listed = State.listed
    BY <2>2, StateNow, StateNext
  <2> HIDE DEF t
  <2>4. Sound(t, Bundle \ late)
    BY <2>1, <2>3, SoundStill
  <2> QED BY <2>4 DEF t
<1> QED
  BY <1>1, <1>2 DEF QueueInv

LEMMA SendKeeps == ASSUME QueueInv, NEW l \in Link, Send(l) PROVE QueueInv'
<1> DEFINE b == Head(queue[l])
           q == Tail(queue[l])
           f == Append(inflight[l], b)
<1>1. /\ queue[l] # <<>> /\ queue' = [queue EXCEPT ![l] = q] /\ inflight' = [inflight EXCEPT ![l] = f]
      /\ pending' = pending /\ deferred' = deferred /\ log' = log /\ routes' = routes
      /\ listed' = listed /\ aside' = aside /\ late' = late /\ timer' = timer /\ link' = link
      /\ open' = open /\ events' = events
  BY DEF Send, routerVars
<1>2. /\ State \in States /\ DeferredSound(State)
      /\ \A x \in Bundle \ late : LogSound(State, x)
  BY DEF QueueInv, Sound
<1>3. queue \in [Link -> Seq(Bundle)] /\ inflight \in [Link -> Seq(Bundle)]
  BY <1>2, StateFields, StateNow
<1>4. /\ b \in Bundle /\ q \in Seq(Bundle) /\ Len(q) = Len(queue[l]) - 1
      /\ Range(queue[l]) = {b} \cup Range(q)
      /\ \A x : Once(queue[l], x) => Once(q, x) /\ (x = b => x \notin Range(q))
  BY <1>1, <1>3, TailFacts
<1>5. f \in Seq(Bundle) /\ Range(f) = Range(inflight[l]) \cup {b}
  <2> HIDE DEF b
  <2> QED BY <1>3, <1>4, AppendFacts
<1> HIDE DEF b, q, f
<1>6. queue' \in [Link -> Seq(Bundle)] /\ inflight' \in [Link -> Seq(Bundle)]
  <2>1. q \in Seq(Bundle) /\ f \in Seq(Bundle)
    BY <1>4, <1>5
  <2> QED BY <1>1, <1>3, <2>1
<1>7. \A k \in Link : /\ queue'[k] = IF k = l THEN q ELSE queue[k]
                      /\ inflight'[k] = IF k = l THEN f ELSE inflight[k]
  BY <1>1, <1>3
<1>8. State' \in States
  BY <1>1, <1>2, <1>6, StateFields, StateNow, StateTyped
<1>9. DeferredSound(State')
  <2>1. \A k \in Link : /\ Len(queue[k]) <= QueueHigh /\ IsInjective(deferred[k])
                        /\ deferred[k] # <<>> => k \in listed
    BY <1>2, StateNow DEF DeferredSound
  <2>2. Len(q) <= QueueHigh
    <3>1. Len(queue[l]) \in Nat /\ QueueHigh \in Nat
      BY <1>3, LenProperties, QueueLimits
    <3> QED BY <1>4, <2>1, <3>1
  <2>3. \A k \in Link : Len(queue'[k]) <= QueueHigh
    BY <1>7, <2>1, <2>2
  <2> QED BY <1>1, <2>1, <2>3, StateNext DEF DeferredSound
<1>10. ASSUME NEW x \in Bundle \ late PROVE LogSound(State', x)
  <2>1. \A k \in Link :
          /\ log[x][k] = "QUEUED" <=> On(State, x, k)
          /\ Once(queue[k], x)
          /\ x \in Range(queue[k]) => x \notin Range(inflight[k])
          /\ On(State, x, k) => \A m \in Link \ {k} : ~ On(State, x, m) /\ log[x][m] # "TRANSMITTED"
    BY <1>2, StateNow DEF LogSound
  <2>2. \A k \in Link : On(State', x, k) <=> On(State, x, k)
    <3>1. \A k \in Link : /\ On(State', x, k) <=> x \in Range(queue'[k]) \cup Range(inflight'[k])
                          /\ On(State, x, k) <=> x \in Range(queue[k]) \cup Range(inflight[k])
      BY StateNow, StateNext DEF On
    <3> QED BY <1>4, <1>5, <1>7, <3>1
  <2>3. \A k \in Link : Once(queue'[k], x)
    BY <1>4, <1>7, <2>1
  <2>4. \A k \in Link : x \in Range(queue'[k]) => x \notin Range(inflight'[k])
    <3>1. x \in Range(q) => x \notin Range(f)
      BY <1>4, <1>5, <2>1
    <3> QED BY <1>7, <2>1, <3>1
  <2> QED BY <1>1, <2>1, <2>2, <2>3, <2>4, StateNext DEF LogSound
<1>11. Sound(State, Bundle \ late)'
  BY <1>1, <1>8, <1>9, <1>10 DEF Sound
<1>12. ReportsTrue'
  <2>1. \A x, k : k \in Link /\ x \in Range(inflight[k]) => x \in Range(inflight'[k])
    BY <1>5, <1>7
  <2>2. \A i \in DOMAIN events : events[i].kind \in {"transmitted", "failed"} => events[i].link \in Link
    BY EventFacts DEF QueueInv, BundleKind
  <2> QED BY <1>1, <2>1, <2>2 DEF QueueInv, ReportsTrue
<1>13. Typed'
  BY <1>1 DEF QueueInv, Typed
<1> QED
  BY <1>11, <1>12, <1>13 DEF QueueInv

LEMMA LinkStepKeeps == ASSUME QueueInv, NEW l \in Link, LinkStep(l) PROVE QueueInv'
<1>1. /\ pending' = pending /\ deferred' = deferred /\ queue' = queue /\ inflight' = inflight
      /\ log' = log /\ routes' = routes /\ listed' = listed /\ aside' = aside /\ late' = late
      /\ timer' = timer /\ open' = open
  BY DEF LinkStep, routerVars
<1>2. open' \subseteq Planned
  BY <1>1 DEF QueueInv, Typed
<1>3. link' \in [Link -> LinkState]
  <2>1. link \in [Link -> LinkState]
    BY StateFields, StateNow DEF QueueInv, Sound
  <2>2. \E to \in LinkState : link' = [link EXCEPT ![l] = to]
    BY DEF LinkStep, SetLink, LinkState
  <2> QED BY <2>1, <2>2
<1>4. \/ events' = events
      \/ \E kind \in {"created", "available", "contact_up", "contact_down", "deleted"} :
           Post(OfLink(kind, l))
  BY DEF LinkStep
<1>5. CASE events' = events
  BY <1>1, <1>2, <1>3, <1>5, LinkKeeps
<1>6. ASSUME NEW kind \in {"created", "available", "contact_up", "contact_down", "deleted"},
             Post(OfLink(kind, l))
      PROVE  QueueInv'
  <2> DEFINE e == OfLink(kind, l)
  <2>1. e \in Events /\ Post(e) /\ e.kind \notin Report3
    BY <1>6, EventTypes, EventFields DEF LinkKind, Report3
  <2> HIDE DEF e
  <2> QED BY <1>1, <1>2, <1>3, <2>1, PostKeeps
<1> QED
  BY <1>4, <1>5, <1>6

LEMMA OutsideKeeps ==
  ASSUME QueueInv,
         \/ \E b \in Bundle : Receive(b)
         \/ \E b \in Bundle, l \in Link :
              CustodyLate(b, l) \/ Report(l, b, "transmitted") \/ Report(l, b, "failed")
         \/ \E n \in Planned : ContactBegins(n) \/ ContactEnds(n)
         \/ RouteChange
  PROVE  QueueInv'
<1> DEFINE Same == /\ pending' = pending /\ deferred' = deferred /\ queue' = queue
                   /\ inflight' = inflight /\ log' = log /\ routes' = routes /\ listed' = listed
                   /\ aside' = aside /\ late' = late /\ timer' = timer /\ link' = link
<1>1. link \in [Link -> LinkState] /\ open \subseteq Planned /\ routes \subseteq Link /\ listed \subseteq Link
  BY StateFields, StateNow DEF QueueInv, Sound, Typed
<1>2. \A n \in Planned : n \in Node
  BY RouterAssumption DEF RouterAssumption
<1>3. \A l \in Link : Remote[l] \in Node
  BY RouterAssumption DEF RouterAssumption, Node, Range
<1>4. ASSUME NEW e \in Events, Post(e), Same, open' \subseteq Planned,
             e.kind \in Report3 =>
               /\ ~ EventOf(e.bundle)
               /\ e.kind \in {"transmitted", "failed"} => e.bundle \in Range(inflight[e.link])
               /\ e.kind = "custody_timeout" => log[e.bundle][e.link] = "TRANSMITTED"
      PROVE  QueueInv'
  BY <1>1, <1>4, PostKeeps
<1>5. ASSUME NEW b \in Bundle, Receive(b) PROVE QueueInv'
  <2> DEFINE e == OfBundle("received", b, 0)
  <2>1. e \in Events /\ e.kind \notin Report3 /\ Post(e) /\ Same /\ open' \subseteq Planned
    BY <1>1, <1>5, EventTypes, EventFields DEF Receive, routerVars, Report3
  <2> HIDE DEF e, Same
  <2> QED BY <1>4, <2>1
<1>6. ASSUME NEW b \in Bundle, NEW l \in Link, CustodyLate(b, l) PROVE QueueInv'
  <2> DEFINE e == OfBundle("custody_timeout", b, l)
  <2>1. /\ e \in Events /\ Post(e) /\ Same /\ open' \subseteq Planned
        /\ e.kind = "custody_timeout" /\ ~ EventOf(e.bundle)
        /\ log[e.bundle][e.link] = "TRANSMITTED"
    BY <1>1, <1>6, EventTypes, EventFields DEF CustodyLate, routerVars, BundleKind
  <2> HIDE DEF e, Same
  <2> QED BY <1>4, <2>1
<1>7. ASSUME NEW b \in Bundle, NEW l \in Link, NEW kind \in {"transmitted", "failed"},
             Report(l, b, kind)
      PROVE  QueueInv'
  <2> DEFINE e == OfBundle(kind, b, l)
  <2>1. /\ e \in Events /\ Post(e) /\ Same /\ open' \subseteq Planned
        /\ e.kind = kind /\ ~ EventOf(e.bundle) /\ e.bundle \in Range(inflight[e.link])
    BY <1>1, <1>7, EventTypes, EventFields DEF Report, routerVars, BundleKind
  <2> HIDE DEF e, Same
  <2> QED BY <1>4, <2>1
<1>8. ASSUME NEW n \in Planned, ContactBegins(n) PROVE QueueInv'
  <2> DEFINE e == OfNode("plan_up", n)
  <2>1. e \in Events /\ e.kind \notin Report3 /\ Post(e) /\ Same /\ open' \subseteq Planned
    BY <1>1, <1>2, <1>8, EventTypes, EventFields DEF ContactBegins, routerVars, Report3
  <2> HIDE DEF e, Same
  <2> QED BY <1>4, <2>1
<1>9. ASSUME NEW n \in Planned, ContactEnds(n) PROVE QueueInv'
  <2>1. events' = events /\ Same /\ open' \subseteq Planned
    BY <1>1, <1>9 DEF ContactEnds, routerVars
  <2> QED BY <1>1, <2>1, LinkKeeps
<1>10. ASSUME RouteChange PROVE QueueInv'
  <2>1. PICK e : /\ \/ \E l \in listed : e = OfLink("route_add", l)
                    \/ \E l \in routes : e = OfNode("route_del", Remote[l])
                 /\ Post(e)
    BY <1>10 DEF RouteChange
  <2>2. e \in Events /\ e.kind \notin Report3
    BY <1>1, <1>3, <2>1, EventTypes, EventFields DEF LinkKind, Report3
  <2>3. Same /\ open' \subseteq Planned
    BY <1>1, <1>10 DEF RouteChange, routerVars
  <2> HIDE DEF Same
  <2> QED BY <1>4, <2>1, <2>2, <2>3
<1> QED
  BY <1>5, <1>6, <1>7, <1>8, <1>9, <1>10

LEMMA InitQueue == Init => QueueInv
<1> SUFFICES ASSUME Init PROVE QueueInv
  OBVIOUS
<1>1. Existing \subseteq Link
  BY RouterAssumption DEF RouterAssumption
<1>2. Typed
  BY DEF Init, Typed
<1>3. ReportsTrue
  BY DEF Init, ReportsTrue
<1>4. State \in States
  BY <1>1 DEF Init, State, States, Entry, LinkState
<1>5. Range(<<>>) = {} /\ IsInjective(<<>>) /\ Len(<<>>) = 0 /\ \A x : Once(<<>>, x)
  BY DEF Range, IsInjective, Once
<1>6. DeferredSound(State)
  BY <1>5, StateNow, QueueLimits DEF Init, DeferredSound
<1>7. ASSUME NEW b \in Bundle PROVE LogSound(State, b)
  <2>1. \A k \in Link : ~ On(State, b, k)
    BY <1>5, StateNow DEF Init, On
  <2>2. \A k \in Link : log[b][k] = "NONE" /\ queue[k] = <<>>
    BY DEF Init
  <2> QED BY <1>5, <2>1, <2>2, StateNow DEF LogSound
<1> QED
  BY <1>2, <1>3, <1>4, <1>6, <1>7 DEF QueueInv, Sound

LEMMA StepQueue == QueueInv /\ [Next]_vars => QueueInv'
<1> SUFFICES ASSUME QueueInv, [Next]_vars PROVE QueueInv'
  OBVIOUS
<1>1. CASE HandleEvent
  <2>1. CASE HandleBundleReceived BY <2>1, ReceivedKeeps
  <2>2. CASE HandleBundleTransmitted BY <2>2, TransmittedKeeps
  <2>3. CASE HandleTransmissionFailed BY <2>3, FailedKeeps
  <2>4. CASE HandleBundleCancelled BY <2>4, CancelledKeeps
  <2>5. CASE HandleCustodyTimeout BY <2>5, CustodyTimeoutKeeps
  <2>6. CASE LinkEvent BY <2>6, LinkEventKeeps
  <2>7. CASE HandleContactDown BY <2>7, ContactDownKeeps
  <2>8. CASE HandleLinkDeleted BY <2>8, DeletedLinkKeeps
  <2>9. CASE HandleRouteDel BY <2>9, RouteDelKeeps
  <2> QED BY <1>1, <2>1, <2>2, <2>3, <2>4, <2>5, <2>6, <2>7, <2>8, <2>9 DEF HandleEvent, LinkEvent
<1>2. ASSUME NEW l \in Link, Timeout(l) PROVE QueueInv'
  BY <1>2, TimeoutKeeps
<1>3. ASSUME NEW l \in Link, Send(l) PROVE QueueInv'
  BY <1>3, SendKeeps
<1>4. ASSUME NEW l \in Link, LinkStep(l) PROVE QueueInv'
  BY <1>4, LinkStepKeeps
<1>5. ASSUME NEW b \in Bundle, NEW l \in Link, Expire(b, l) PROVE QueueInv'
  BY <1>5, ExpireKeeps
<1>6. CASE \/ \E b \in Bundle : Receive(b)
           \/ \E b \in Bundle, l \in Link :
                CustodyLate(b, l) \/ Report(l, b, "transmitted") \/ Report(l, b, "failed")
           \/ \E n \in Planned : ContactBegins(n) \/ ContactEnds(n)
           \/ RouteChange
  BY <1>6, OutsideKeeps
<1>7. CASE UNCHANGED vars
  <2>1. link \in [Link -> LinkState] /\ open \subseteq Planned
    BY StateFields, StateNow DEF QueueInv, Sound, Typed
  <2> QED BY <1>7, <2>1, LinkKeeps DEF vars
<1> QED
  BY <1>1, <1>2, <1>3, <1>4, <1>5, <1>6, <1>7 DEF Next

LEMMA QueueInvariant == Spec => []QueueInv
BY InitQueue, StepQueue, PTL DEF Spec

\* Whatever Unibo-CGR answers and in whatever order links, timers, contacts and the operator
\* act: no queue is longer than its limit, a bundle waits once for a link the router knows,
\* the log says QUEUED of exactly the bundles on a link, and no bundle is on two links, or on
\* one after it was sent, but for those a timeout took from a link that had reported them.
THEOREM RouterQueuesSound == Spec => []QueuesSound
<1>1. QueueInv => QueuesSound
  <2> SUFFICES ASSUME QueueInv PROVE QueuesSound
    OBVIOUS
  <2>1. /\ State \in States /\ DeferredSound(State)
        /\ \A x \in Bundle \ late : LogSound(State, x)
    BY DEF QueueInv, Sound
  <2>2. pending \subseteq Bundle /\ routes \subseteq Link /\ deferred \in [Link -> Seq(Bundle)]
    BY <2>1, StateFields, StateNow
  <2>3. TypeOK
    BY <2>1, <2>2, StateNow DEF TypeOK, QueueInv, Typed, DeferredSound, LogSound
  <2>4. SentOnce
    <3> SUFFICES ASSUME NEW b \in Bundle \ late, NEW l \in Link, NEW m \in Link,
                        On(State, b, l), l # m
                 PROVE  ~ On(State, b, m) /\ log[b][m] # "TRANSMITTED"
      BY DEF SentOnce
    <3> QED BY <2>1, StateNow DEF LogSound
  <2> QED BY <2>3, <2>4 DEF QueuesSound
<1> QED
  BY <1>1, QueueInvariant, PTL

-----------------------------------------------------------------------------
(* No bundle is lost *)

LEMMA NotOfBundle ==
  ASSUME Typed, NEW i \in DOMAIN events,
         events[i].kind \in LinkKind \cup {"plan_up", "route_del"}
  PROVE  events[i].bundle \notin Bundle
<1>1. events[i] \in Events
  BY DEF Typed
<1>2. events[i].bundle = 0
  BY <1>1 DEF Events, OfBundle, OfLink, OfNode, Happens, BundleKind, LinkKind
<1> QED
  BY <1>2, RouterAssumption DEF RouterAssumption

\* In t, bundle b is where it was and the log still knows that it was sent.
Holds(t, b) ==
  /\ Placed(State, b) => Placed(t, b)
  /\ \A l \in Link : log[b][l] = "TRANSMITTED" => t.log[b][l] = "TRANSMITTED"

LEMMA HoldsAfter ==
  ASSUME NEW S, NEW s, NEW b \in Bundle, Holds(s, b), NEW t \in After(s, S)
  PROVE  Holds(t, b)
BY DEF Holds, After, Follows

LEMMA HoldsState ==
  ASSUME NEW t, t.deferred = deferred, t.queue = queue, t.inflight = inflight, t.log = log
  PROVE  \A b : Holds(t, b)
BY StateNow DEF Holds, Placed, Waiting, On

LEMMA LostHandled ==
  ASSUME Typed, NoneLost, NEW kind, Handle(kind), NEW t, NEW routed, Become(t, routed),
         \A b \in t.pending :
           \/ b \in routed
           \/ b \in Custody /\ \E l \in Link : t.log[b][l] = "TRANSMITTED"
           \/ b \in pending /\ b # Event.bundle /\ Holds(t, b)
  PROVE  NoneLost'
<1>1. /\ pending' = t.pending /\ log' = t.log
      /\ homeless' = {b \in (homeless \cup routed) \cap t.pending : ~ Placed(t, b)}
  BY DEF Become
<1>2. \A b : Placed(t, b) <=> Placed(State, b)'
  BY DEF Become, Placed, Waiting, On, State
<1>3. \A i \in DOMAIN events : i = 1 \/ \E j \in DOMAIN events' : events'[j] = events[i]
  BY HandleFacts
<1>4. Event = events[1]
  BY HandleFacts
<1>5. SUFFICES ASSUME NEW b \in t.pending
               PROVE  \/ Placed(State, b)' \/ EventOf(b)' \/ b \in homeless'
                      \/ b \in Custody /\ \E l \in Link : log'[b][l] = "TRANSMITTED"
  BY <1>1 DEF NoneLost
<1>6. CASE b \in routed
  BY <1>1, <1>2, <1>6
<1>7. CASE b \in Custody /\ \E l \in Link : t.log[b][l] = "TRANSMITTED"
  BY <1>1, <1>7
<1>8. CASE b \in pending /\ b # Event.bundle /\ Holds(t, b)
  <2>1. \/ Placed(State, b) \/ EventOf(b) \/ b \in homeless
        \/ b \in Custody /\ \E l \in Link : log[b][l] = "TRANSMITTED"
    BY <1>8 DEF NoneLost
  <2>2. EventOf(b) => EventOf(b)'
    <3>1. ASSUME NEW i \in DOMAIN events, events[i].bundle = b PROVE EventOf(b)'
      <4>1. i # 1
        BY <1>4, <1>8, <3>1
      <4> QED BY <1>3, <3>1, <4>1 DEF EventOf
    <3> QED BY <3>1 DEF EventOf
  <2>3. Placed(State, b) => Placed(State, b)'
    BY <1>2, <1>8 DEF Holds
  <2>4. b \in homeless => Placed(State, b)' \/ b \in homeless'
    BY <1>1, <1>2
  <2>5. \A l \in Link : log[b][l] = "TRANSMITTED" => log'[b][l] = "TRANSMITTED"
    BY <1>1, <1>8 DEF Holds
  <2> QED BY <2>1, <2>2, <2>3, <2>4, <2>5
<1> QED
  BY <1>5, <1>6, <1>7, <1>8

\* The handler of an event about a link or a node leaves a state that follows s.
LEMMA LostLinkEvent ==
  ASSUME QueueInv, NoneLost, NEW kind \in LinkKind \cup {"plan_up", "route_del"}, Handle(kind),
         NEW S, NEW s, s.pending = pending, s.deferred = deferred, s.queue = queue,
         s.inflight = inflight, s.log = log, NEW t \in After(s, S), NEW routed, Become(t, routed)
  PROVE  NoneLost'
<1>1. Event = events[1] /\ 1 \in DOMAIN events /\ Event.kind = kind
  BY HandleFacts DEF QueueInv
<1>2. Event.bundle \notin Bundle
  BY <1>1, NotOfBundle DEF QueueInv
<1>3. t.pending = pending /\ pending \subseteq Bundle
  BY StateFields, StateNow DEF After, Follows, QueueInv, Sound
<1>4. \A b \in pending : Holds(t, b)
  BY <1>3, HoldsState, HoldsAfter
<1>5. Typed
  BY DEF QueueInv
<1> QED
  BY <1>2, <1>3, <1>4, <1>5, LostHandled

LEMMA LostReceived == ASSUME QueueInv, NoneLost, HandleBundleReceived PROVE NoneLost'
<1> DEFINE s == [State EXCEPT !.pending = @ \cup {Event.bundle}]
           S == Bundle \ late
<1>1. Handle("received") /\ Route(s)
  BY DEF HandleBundleReceived
<1>2. Event.bundle \in Bundle /\ Event.kind # "failed" /\ Typed
  BY <1>1, HandleFacts, EventFacts DEF QueueInv
<1>3. /\ s \in States /\ s.inflight = inflight /\ s.log = log /\ s.deferred = deferred
      /\ s.queue = queue /\ s.listed = listed /\ s.pending = pending \cup {Event.bundle}
  BY <1>2, StateNow DEF QueueInv, Sound, States
<1> HIDE DEF s
<1>4. Sound(s, S)
  BY <1>3, SoundStill, StateNow DEF QueueInv
<1>5. PICK t \in After(s, S) : Become(t, {Event.bundle})
  BY <1>1, <1>2, <1>4, RouteOf
<1>6. t.pending = s.pending /\ s.pending \subseteq Bundle
  BY <1>3, <1>5, StateFields DEF After, Follows
<1>7. \A b \in s.pending : Holds(t, b)
  BY <1>3, <1>5, <1>6, HoldsState, HoldsAfter
<1> QED
  BY <1>1, <1>2, <1>3, <1>5, <1>6, <1>7, LostHandled

\* What the daemon does before the router hears of a report disturbs the event's bundle only.
LEMMA LeftHolds ==
  ASSUME QueueInv, NEW kind \in {"transmitted", "failed"}, Handle(kind),
         NEW entry \in {"TRANSMITTED", "TRANSMIT_FAILED"}
  PROVE  /\ Left(entry) \in States /\ Left(entry).pending = pending
         /\ Left(entry).log[Event.bundle][Event.link] = entry
         /\ \A b \in Bundle \ {Event.bundle} : Holds(Left(entry), b)
<1> DEFINE e == Event.bundle
           l == Event.link
           rest == Without(inflight[l], {e})
           f == [inflight EXCEPT ![l] = rest]
           g == [log EXCEPT ![e] = [log[e] EXCEPT ![l] = entry]]
           t == Left(entry)
<1>1. e \in Bundle /\ l \in Link
  BY HandleFacts, EventFacts DEF QueueInv, BundleKind
<1>2. t = [State EXCEPT !.inflight = f, !.log = g]
  BY DEF Left, State
<1> HIDE DEF e, l
<1>3. State \in States /\ inflight \in [Link -> Seq(Bundle)] /\ log \in [Bundle -> [Link -> Entry]]
  BY StateFields, StateNow DEF QueueInv, Sound
<1>4. rest \in Seq(Bundle) /\ Range(rest) = Range(inflight[l]) \ {e}
  BY <1>1, <1>3, WithoutFacts
<1> HIDE DEF rest
<1>5. f \in [Link -> Seq(Bundle)] /\ \A k \in Link : f[k] = IF k = l THEN rest ELSE inflight[k]
  BY <1>3, <1>4
<1>6. /\ g \in [Bundle -> [Link -> Entry]] /\ g[e][l] = entry
      /\ \A b \in Bundle \ {e} : g[b] = log[b]
  BY <1>1, <1>3 DEF Entry
<1> HIDE DEF f, g, t
<1>7. /\ t \in States /\ t.inflight = f /\ t.log = g /\ t.pending = pending
      /\ t.deferred = deferred /\ t.queue = queue
  BY <1>2, <1>3, <1>5, <1>6, StateNow DEF States
<1>8. ASSUME NEW b \in Bundle \ {e} PROVE Holds(t, b)
  <2>1. \A k \in Link : b \in Range(inflight[k]) => b \in Range(f[k])
    BY <1>4, <1>5
  <2>2. Placed(State, b) => Placed(t, b)
    BY <1>7, <2>1, StateNow DEF Placed, Waiting, On
  <2> QED BY <1>6, <1>7, <2>2 DEF Holds
<1>9. t.log[e][l] = entry
  BY <1>6, <1>7
<1> QED
  BY <1>7, <1>8, <1>9 DEF t, e, l

LEMMA LostTransmitted == ASSUME QueueInv, NoneLost, HandleBundleTransmitted PROVE NoneLost'
<1> DEFINE S == Bundle \ late
           e == Event.bundle
           l == Event.link
           s == Left("TRANSMITTED")
           sent == RemoveFromDeferred(s, e)
           u == CheckNextHop(sent, l)
           t == Deleted(u, e)
<1>1. Handle("transmitted") /\ Become(t, {}) /\ Typed
  BY DEF HandleBundleTransmitted, QueueInv
<1>2. l \in Link /\ e \in Bundle
  BY <1>1, HandleFacts, EventFacts DEF QueueInv, BundleKind
<1>3. /\ Sound(s, S) /\ s.pending = pending /\ s.log[e][l] = "TRANSMITTED"
      /\ \A b \in Bundle \ {e} : Holds(s, b)
  BY <1>1, LeftSound, LeftHolds
<1> HIDE DEF s, e, l
<1>4. /\ Sound(sent, S) /\ sent.pending = s.pending /\ sent.inflight = s.inflight
      /\ sent.log = s.log /\ sent.queue = s.queue
      /\ \A k \in Link : Range(sent.deferred[k]) = Range(s.deferred[k]) \ {e}
  <2>1. S \in SUBSET Bundle
    OBVIOUS
  <2> HIDE DEF S
  <2> QED BY <1>3, <2>1, RemovedFacts
<1> HIDE DEF sent
<1>5. u \in After(sent, S) /\ Sound(u, S)
  BY <1>2, <1>4, CheckAfter DEF After
<1> HIDE DEF u
<1>6. /\ e \in Custody => t.pending = u.pending
      /\ e \notin Custody => t.pending = u.pending \ {e}
      /\ t.inflight = u.inflight /\ t.log = u.log /\ t.queue = u.queue /\ t.deferred = u.deferred
  <2>1. S \in SUBSET Bundle
    OBVIOUS
  <2>2. Sound(u, S)
    BY <1>5
  <2> HIDE DEF S
  <2>3. /\ e \in Custody => Deleted(u, e).pending = u.pending
        /\ e \notin Custody => Deleted(u, e).pending = u.pending \ {e}
        /\ Deleted(u, e).inflight = u.inflight /\ Deleted(u, e).log = u.log
        /\ Deleted(u, e).queue = u.queue /\ Deleted(u, e).deferred = u.deferred
    BY <2>1, <2>2, DeletedFacts
  <2> QED BY <2>3
<1> HIDE DEF t
<1>7. u.pending = pending /\ pending \subseteq Bundle /\ u.log[e][l] = "TRANSMITTED"
  BY <1>2, <1>3, <1>4, <1>5, StateFields, StateNow DEF After, Follows, QueueInv, Sound
<1>8. ASSUME NEW b \in pending, b # e PROVE Holds(t, b)
  <2>1. Holds(s, b) /\ b \in Bundle
    BY <1>3, <1>7, <1>8
  <2>2. Holds(sent, b)
    BY <1>4, <1>8, <2>1 DEF Holds, Placed, Waiting, On
  <2>3. Holds(u, b)
    BY <1>5, <2>1, <2>2, HoldsAfter
  <2> QED BY <1>6, <2>3 DEF Holds, Placed, Waiting, On
<1>9. \A b \in t.pending : \/ b \in {}
                           \/ b \in Custody /\ \E k \in Link : t.log[b][k] = "TRANSMITTED"
                           \/ b \in pending /\ b # Event.bundle /\ Holds(t, b)
  BY <1>2, <1>6, <1>7, <1>8 DEF e
<1> QED
  BY <1>1, <1>9, LostHandled

LEMMA LostFailed == ASSUME QueueInv, NoneLost, HandleTransmissionFailed PROVE NoneLost'
<1> DEFINE S == Bundle \ late
           s == Left("TRANSMIT_FAILED")
<1>1. Handle("failed") /\ Route(s) /\ Typed
  BY DEF HandleTransmissionFailed, QueueInv
<1>2. Event.link \in Link /\ Event.bundle \in Bundle
  BY <1>1, HandleFacts, EventFacts DEF QueueInv, BundleKind
<1>3. /\ Sound(s, S) /\ s.pending = pending
      /\ \A b \in Bundle \ {Event.bundle} : Holds(s, b)
  BY <1>1, LeftSound, LeftHolds
<1> HIDE DEF s
<1>4. PICK t \in After(s, S) : Become(t, {Event.bundle})
  BY <1>1, <1>2, <1>3, RouteOf
<1>5. t.pending = pending /\ pending \subseteq Bundle
  BY <1>3, <1>4, StateFields, StateNow DEF After, Follows, QueueInv, Sound
<1>6. \A b \in pending : b # Event.bundle => Holds(t, b)
  BY <1>3, <1>4, <1>5, HoldsAfter
<1> QED
  BY <1>1, <1>4, <1>5, <1>6, LostHandled

LEMMA LostCancelled == ASSUME QueueInv, NoneLost, HandleBundleCancelled PROVE NoneLost'
<1> DEFINE S == Bundle \ late
<1>1. Handle("cancelled") /\ Typed
  BY DEF HandleBundleCancelled, QueueInv
<1>2. Event.bundle \in Bundle /\ Event.kind # "failed"
  BY <1>1, HandleFacts, EventFacts DEF BundleKind
<1>3. Sound(State, S) /\ \A b : Holds(State, b)
  BY HoldsState, StateNow DEF QueueInv
<1>4. CASE Route(State)
  <2>1. PICK t \in After(State, S) : Become(t, {Event.bundle})
    BY <1>2, <1>3, <1>4, RouteOf
  <2>2. t.pending = pending /\ pending \subseteq Bundle
    BY <2>1, StateFields, StateNow DEF After, Follows, QueueInv, Sound
  <2>3. \A b \in pending : Holds(t, b)
    BY <1>3, <2>1, <2>2, HoldsAfter
  <2> QED BY <1>1, <2>1, <2>2, <2>3, LostHandled
<1>5. CASE Event.bundle \notin pending /\ Become(State, {})
  BY <1>1, <1>3, <1>5, StateNow, LostHandled
<1> QED
  BY <1>4, <1>5 DEF HandleBundleCancelled, RoutedAgain

LEMMA LostCustodyTimeout == ASSUME QueueInv, NoneLost, HandleCustodyTimeout PROVE NoneLost'
<1> DEFINE S == Bundle \ late
<1>1. Handle("custody_timeout") /\ Typed
  BY DEF HandleCustodyTimeout, QueueInv
<1>2. Event.bundle \in Bundle /\ Event.kind # "failed"
  BY <1>1, HandleFacts, EventFacts DEF BundleKind
<1>3. CASE Route(TimedOut)
  <2>1. /\ Sound(TimedOut, S) /\ TimedOut.pending = pending
        /\ \A b \in Bundle \ {Event.bundle} : Holds(TimedOut, b)
    BY <1>1, TimedOutSound, StateNow DEF Holds, Placed, Waiting, On
  <2>2. PICK t \in After(TimedOut, S) : Become(t, {Event.bundle})
    BY <1>2, <1>3, <2>1, RouteOf
  <2>3. t.pending = pending /\ pending \subseteq Bundle
    BY <2>1, <2>2, StateFields, StateNow DEF After, Follows, QueueInv, Sound
  <2>4. \A b \in pending : b # Event.bundle => Holds(t, b)
    BY <2>1, <2>2, <2>3, HoldsAfter
  <2> QED BY <1>1, <2>2, <2>3, <2>4, LostHandled
<1>4. CASE Event.bundle \notin pending /\ Become(State, {})
  <2>1. \A b : Holds(State, b)
    BY HoldsState, StateNow
  <2> QED BY <1>1, <1>4, <2>1, StateNow, LostHandled
<1> QED
  BY <1>3, <1>4 DEF HandleCustodyTimeout, TimedOut

LEMMA LostLink == ASSUME QueueInv, NoneLost, LinkEvent PROVE NoneLost'
<1>1. PICK kind \in (LinkKind \ {"contact_down", "deleted"}) \cup {"plan_up"} :
        \E s, t, routed : LinkEventFrom(kind, s, t, routed)
  BY LinkEventStep
<1>2. PICK s, t, routed : LinkEventFrom(kind, s, t, routed)
  BY <1>1
<1>3. /\ kind \in LinkKind \cup {"plan_up", "route_del"} /\ Handle(kind) /\ Lists(s)
      /\ t \in After(s, Bundle \ late) /\ Become(t, routed)
  BY <1>2 DEF LinkEventFrom
<1> QED
  BY <1>3, LostLinkEvent DEF Lists

\* The deferred list of a deleted link goes; its bundles have just found no other link, unless
\* they are on one.
LEMMA LostDeletedLink == ASSUME QueueInv, NoneLost, HandleLinkDeleted PROVE NoneLost'
<1> DEFINE l == Event.link
           d == [deferred EXCEPT ![l] = <<>>]
           t == [State EXCEPT !.listed = listed \ {l}, !.routes = routes \ {l}, !.deferred = d]
           routed == Range(deferred[l])
<1>1. Handle("deleted") /\ Become(t, routed) /\ Typed
  BY DEF HandleLinkDeleted, State, QueueInv
<1>2. Event.bundle \notin Bundle /\ l \in Link
  BY <1>1, HandleFacts, NotOfBundle, EventFacts DEF QueueInv, LinkKind
<1>3. State \in States /\ deferred \in [Link -> Seq(Bundle)] /\ pending \subseteq Bundle
  BY StateFields, StateNow DEF QueueInv, Sound
<1> HIDE DEF l
<1>4. \A k \in Link : d[k] = IF k = l THEN <<>> ELSE deferred[k]
  BY <1>3
<1> HIDE DEF d
<1>5. /\ t.deferred = d /\ t.pending = pending /\ t.queue = queue /\ t.inflight = inflight
      /\ t.log = log
  BY <1>3, StateNow DEF States
<1> HIDE DEF t
<1>6. ASSUME NEW b \in pending, b \notin routed PROVE Holds(t, b)
  <2>1. \A k \in Link : Waiting(State, b, k) => Waiting(t, b, k)
    BY <1>4, <1>5, <1>6, StateNow DEF Waiting
  <2> QED BY <1>5, <2>1, StateNow DEF Holds, Placed, On
<1> HIDE DEF routed
<1> QED
  BY <1>1, <1>2, <1>3, <1>5, <1>6, LostHandled

\* A step after which every bundle that was somewhere is somewhere, or has an event.
LEMMA LostStill ==
  ASSUME NoneLost, pending' \subseteq pending, pending \subseteq Bundle,
         \A b \in pending' :
           /\ b \in homeless => b \in homeless'
           /\ EventOf(b) => EventOf(b)'
           /\ Placed(State, b) => Placed(State', b) \/ EventOf(b)'
           /\ \A l \in Link : log[b][l] = "TRANSMITTED" => log'[b][l] = "TRANSMITTED" \/ EventOf(b)'
  PROVE  NoneLost'
<1> SUFFICES ASSUME NEW b \in pending'
             PROVE  \/ Placed(State', b) \/ EventOf(b)' \/ b \in homeless'
                    \/ b \in Custody /\ \E l \in Link : log'[b][l] = "TRANSMITTED"
  BY DEF NoneLost
<1>1. \/ Placed(State, b) \/ EventOf(b) \/ b \in homeless
      \/ b \in Custody /\ \E l \in Link : log[b][l] = "TRANSMITTED"
  BY DEF NoneLost
<1> QED
  BY <1>1

LEMMA EventStays ==
  ASSUME QueueInv, NEW kind \in LinkKind \cup {"plan_up", "route_del"}, Handle(kind),
         NEW b \in Bundle, EventOf(b)
  PROVE  EventOf(b)'
<1>1. PICK i \in DOMAIN events : events[i].bundle = b
  BY DEF EventOf
<1>2. Event = events[1] /\ 1 \in DOMAIN events /\ Event.kind = kind
  BY HandleFacts DEF QueueInv
<1>3. i # 1
  BY <1>1, <1>2, NotOfBundle DEF QueueInv
<1> QED
  BY <1>1, <1>3, HandleFacts DEF EventOf, QueueInv

LEMMA LostQuiet ==
  ASSUME QueueInv, NoneLost, HandleContactDown \/ HandleRouteDel
  PROVE  NoneLost'
<1>1. /\ pending' = pending /\ deferred' = deferred /\ queue' = queue /\ inflight' = inflight
      /\ log' = log /\ homeless' = homeless
      /\ Handle("contact_down") \/ Handle("route_del")
  BY DEF HandleContactDown, HandleRouteDel
<1>2. pending \subseteq Bundle
  BY StateFields, StateNow DEF QueueInv, Sound
<1>3. \A b \in pending : EventOf(b) => EventOf(b)'
  BY <1>1, <1>2, EventStays DEF LinkKind
<1>4. \A b : Placed(State, b) => Placed(State', b)
  BY <1>1, StateNow, StateNext DEF Placed, Waiting, On
<1> QED
  BY <1>1, <1>2, <1>3, <1>4, LostStill

LEMMA LostTimeout == ASSUME QueueInv, NoneLost, NEW l \in Link, Timeout(l) PROVE NoneLost'
<1>1. pending' = pending /\ deferred' = deferred /\ homeless' = homeless
  BY DEF Timeout
<1>2. pending \subseteq Bundle /\ State \in States
  BY StateFields, StateNow DEF QueueInv, Sound
<1>3. CASE link[l] # "UNAVAILABLE"
  <2>1. queue' = queue /\ inflight' = inflight /\ log' = log /\ events' = events
    BY <1>3 DEF Timeout
  <2>2. \A b : (Placed(State, b) => Placed(State', b)) /\ (EventOf(b) => EventOf(b)')
    BY <1>1, <2>1, StateNow, StateNext DEF Placed, Waiting, On, EventOf
  <2> QED BY <1>1, <1>2, <2>1, <2>2, LostStill
<1>4. CASE link[l] = "UNAVAILABLE"
  <2>1. Cancel(l, Bundle)
    BY <1>4 DEF Timeout
  <2>2. /\ \A k \in Link :
             /\ Range(queue'[k]) = IF k = l THEN Range(queue[l]) \ Bundle ELSE Range(queue[k])
             /\ Range(inflight'[k]) = IF k = l THEN Range(inflight[l]) \ Bundle ELSE Range(inflight[k])
        /\ \A x \in Bundle, k \in Link :
             log'[x][k] = IF k = l /\ x \in Bundle /\ On(State, x, l) THEN "CANCELLED" ELSE log[x][k]
        /\ \A i \in DOMAIN events : i \in DOMAIN events' /\ events'[i] = events[i]
        /\ \A x \in Bundle : On(State, x, l) =>
             \E i \in DOMAIN events' : events'[i] = OfBundle("cancelled", x, l)
    <3>1. Bundle \in SUBSET Bundle /\ Typed
      BY DEF QueueInv
    <3>2. CancelLeaves(l, Bundle)
      BY <1>2, <2>1, <3>1, CancelFacts
    <3> QED BY <3>2 DEF CancelLeaves
  <2>3. \A b \in Bundle : On(State, b, l) => EventOf(b)'
    BY <2>2, EventFields DEF EventOf
  <2>4. ASSUME NEW b \in pending PROVE Placed(State, b) => Placed(State', b) \/ EventOf(b)'
    <3>1. \A k \in Link : On(State, b, k) => On(State', b, k) \/ EventOf(b)'
      BY <1>2, <2>2, <2>3, StateNow, StateNext DEF On
    <3>2. \A k \in Link : Waiting(State, b, k) => Waiting(State', b, k)
      BY <1>1, StateNow, StateNext DEF Waiting
    <3> QED BY <3>1, <3>2 DEF Placed
  <2>5. \A b \in pending, k \in Link :
          log[b][k] = "TRANSMITTED" => log'[b][k] = "TRANSMITTED" \/ EventOf(b)'
    BY <1>2, <2>2, <2>3
  <2>6. \A b \in pending : EventOf(b) => EventOf(b)'
    BY <2>2 DEF EventOf
  <2> QED BY <1>1, <1>2, <2>4, <2>5, <2>6, LostStill
<1> QED
  BY <1>3, <1>4

LEMMA LostExpire ==
  ASSUME QueueInv, NoneLost, NEW b \in Bundle, NEW l \in Link, Expire(b, l)
  PROVE  NoneLost'
<1> DEFINE only == {b}
           r == RemoveFromDeferred(State, b)
<1>1. /\ Cancel(l, only) /\ pending' = pending \ {b} /\ homeless' = homeless \ {b}
      /\ deferred' = r.deferred
  BY DEF Expire
<1>2. pending \subseteq Bundle /\ State \in States
  BY StateFields, StateNow DEF QueueInv, Sound
<1>3. \A k \in Link : Range(deferred'[k]) = Range(deferred[k]) \ {b}
  <2> DEFINE S == Bundle \ late
  <2>1. S \in SUBSET Bundle /\ Sound(State, S)
    BY DEF QueueInv
  <2> HIDE DEF S
  <2>2. \A k \in Link : Range(r.deferred[k]) = Range(State.deferred[k]) \ {b}
    BY <2>1, RemovedFacts
  <2> QED BY <1>1, <2>2, StateNow
<1> HIDE DEF r
<1>4. /\ \A k \in Link :
           /\ Range(queue'[k]) = IF k = l THEN Range(queue[l]) \ only ELSE Range(queue[k])
           /\ Range(inflight'[k]) = IF k = l THEN Range(inflight[l]) \ only ELSE Range(inflight[k])
      /\ \A x \in Bundle, k \in Link :
           log'[x][k] = IF k = l /\ x \in only /\ On(State, x, l) THEN "CANCELLED" ELSE log[x][k]
      /\ \A i \in DOMAIN events : i \in DOMAIN events' /\ events'[i] = events[i]
  <2>1. only \in SUBSET Bundle /\ Typed
    BY DEF QueueInv
  <2> HIDE DEF only
  <2>2. CancelLeaves(l, only)
    BY <1>1, <1>2, <2>1, CancelFacts
  <2> QED BY <2>2 DEF CancelLeaves
<1>5. ASSUME NEW x \in pending \ {b} PROVE Placed(State, x) => Placed(State', x)
  <2>1. \A k \in Link : On(State, x, k) => On(State', x, k)
    BY <1>4, StateNow, StateNext DEF On
  <2>2. \A k \in Link : Waiting(State, x, k) => Waiting(State', x, k)
    BY <1>3, StateNow, StateNext DEF Waiting
  <2> QED BY <2>1, <2>2 DEF Placed
<1>6. \A x \in pending \ {b} : /\ EventOf(x) => EventOf(x)'
                               /\ \A k \in Link : log'[x][k] = log[x][k]
  BY <1>2, <1>4 DEF EventOf
<1> QED
  BY <1>1, <1>2, <1>5, <1>6, LostStill

LEMMA LostSend == ASSUME QueueInv, NoneLost, NEW l \in Link, Send(l) PROVE NoneLost'
<1> DEFINE b == Head(queue[l])
           q == Tail(queue[l])
           f == Append(inflight[l], b)
<1>1. /\ queue[l] # <<>> /\ queue' = [queue EXCEPT ![l] = q] /\ inflight' = [inflight EXCEPT ![l] = f]
      /\ pending' = pending /\ deferred' = deferred /\ log' = log /\ homeless' = homeless
      /\ events' = events
  BY DEF Send, routerVars
<1>2. /\ pending \subseteq Bundle /\ queue \in [Link -> Seq(Bundle)]
      /\ inflight \in [Link -> Seq(Bundle)]
  BY StateFields, StateNow DEF QueueInv, Sound
<1>3. b \in Bundle /\ Range(queue[l]) = {b} \cup Range(q)
  BY <1>1, <1>2, TailFacts
<1>4. Range(f) = Range(inflight[l]) \cup {b}
  <2> HIDE DEF b
  <2> QED BY <1>2, <1>3, AppendFacts
<1> HIDE DEF b, q, f
<1>5. \A k \in Link : /\ queue'[k] = IF k = l THEN q ELSE queue[k]
                      /\ inflight'[k] = IF k = l THEN f ELSE inflight[k]
  BY <1>1, <1>2
<1>6. ASSUME NEW x, Placed(State, x) PROVE Placed(State', x)
  <2>1. \A k \in Link : On(State, x, k) => On(State', x, k)
    BY <1>3, <1>4, <1>5, StateNow, StateNext DEF On
  <2>2. \A k \in Link : Waiting(State, x, k) => Waiting(State', x, k)
    BY <1>1, StateNow, StateNext DEF Waiting
  <2> QED BY <1>6, <2>1, <2>2 DEF Placed
<1> QED
  BY <1>1, <1>2, <1>6, LostStill DEF EventOf

\* Posting an event, or none, moves no bundle.
LEMMA LostPosted ==
  ASSUME QueueInv, NoneLost, events' = events \/ \E e : e \in Events /\ Post(e),
         pending' = pending, deferred' = deferred, queue' = queue, inflight' = inflight,
         log' = log, homeless' = homeless
  PROVE  NoneLost'
<1>1. pending \subseteq Bundle
  BY StateFields, StateNow DEF QueueInv, Sound
<1>2. \A i \in DOMAIN events : i \in DOMAIN events' /\ events'[i] = events[i]
  BY PostFacts DEF QueueInv
<1>3. \A b : (Placed(State, b) => Placed(State', b)) /\ (EventOf(b) => EventOf(b)')
  BY <1>2, StateNow, StateNext DEF Placed, Waiting, On, EventOf
<1> QED
  BY <1>1, <1>3, LostStill

\* What links, contacts, other nodes and the operator do is an event or none.
LEMMA OutsidePosts ==
  ASSUME QueueInv,
         \/ \E l \in Link : LinkStep(l)
         \/ \E b \in Bundle : Receive(b)
         \/ \E b \in Bundle, l \in Link :
              CustodyLate(b, l) \/ Report(l, b, "transmitted") \/ Report(l, b, "failed")
         \/ \E n \in Planned : ContactBegins(n) \/ ContactEnds(n)
         \/ RouteChange
  PROVE  events' = events \/ \E e : e \in Events /\ Post(e)
<1>1. /\ routes \subseteq Link /\ listed \subseteq Link
      /\ \A n \in Planned : n \in Node
      /\ \A l \in Link : Remote[l] \in Node
  <2>1. routes \subseteq Link /\ listed \subseteq Link
    BY StateFields, StateNow DEF QueueInv, Sound
  <2> QED BY <2>1, RouterAssumption DEF RouterAssumption, Node, Range
<1>2. ASSUME NEW l \in Link, LinkStep(l) PROVE events' = events \/ \E e : e \in Events /\ Post(e)
  <2>1. \/ events' = events
        \/ \E kind \in {"created", "available", "contact_up", "contact_down", "deleted"} :
             Post(OfLink(kind, l))
    BY <1>2 DEF LinkStep
  <2>2. \A kind \in {"created", "available", "contact_up", "contact_down", "deleted"} :
          OfLink(kind, l) \in Events
    BY EventTypes DEF LinkKind
  <2> QED BY <2>1, <2>2
<1>3. ASSUME NEW b \in Bundle, Receive(b) PROVE \E e : e \in Events /\ Post(e)
  BY <1>3, EventTypes DEF Receive
<1>4. ASSUME NEW b \in Bundle, NEW l \in Link,
             CustodyLate(b, l) \/ Report(l, b, "transmitted") \/ Report(l, b, "failed")
      PROVE  \E e : e \in Events /\ Post(e)
  BY <1>4, EventTypes DEF CustodyLate, Report, BundleKind
<1>5. ASSUME NEW n \in Planned, ContactBegins(n) PROVE \E e : e \in Events /\ Post(e)
  BY <1>1, <1>5, EventTypes DEF ContactBegins
<1>6. ASSUME NEW n \in Planned, ContactEnds(n) PROVE events' = events
  BY <1>6 DEF ContactEnds
<1>7. ASSUME RouteChange PROVE \E e : e \in Events /\ Post(e)
  <2>1. PICK e : /\ \/ \E l \in listed : e = OfLink("route_add", l)
                    \/ \E l \in routes : e = OfNode("route_del", Remote[l])
                 /\ Post(e)
    BY <1>7 DEF RouteChange
  <2>2. e \in Events
    <3>1. ASSUME NEW l \in listed PROVE OfLink("route_add", l) \in Events
      BY <1>1, EventTypes DEF LinkKind
    <3>2. ASSUME NEW l \in routes PROVE OfNode("route_del", Remote[l]) \in Events
      BY <1>1, EventTypes
    <3> QED BY <2>1, <3>1, <3>2
  <2> QED BY <2>1, <2>2
<1> QED
  BY <1>2, <1>3, <1>4, <1>5, <1>6, <1>7

LEMMA StepLost == QueueInv /\ NoneLost /\ [Next]_vars => NoneLost'
<1> SUFFICES ASSUME QueueInv, NoneLost, [Next]_vars PROVE NoneLost'
  OBVIOUS
<1>1. CASE HandleEvent
  <2>1. CASE HandleBundleReceived BY <2>1, LostReceived
  <2>2. CASE HandleBundleTransmitted BY <2>2, LostTransmitted
  <2>3. CASE HandleTransmissionFailed BY <2>3, LostFailed
  <2>4. CASE HandleBundleCancelled BY <2>4, LostCancelled
  <2>5. CASE HandleCustodyTimeout BY <2>5, LostCustodyTimeout
  <2>6. CASE LinkEvent BY <2>6, LostLink
  <2>7. CASE HandleContactDown \/ HandleRouteDel BY <2>7, LostQuiet
  <2>8. CASE HandleLinkDeleted BY <2>8, LostDeletedLink
  <2> QED BY <1>1, <2>1, <2>2, <2>3, <2>4, <2>5, <2>6, <2>7, <2>8 DEF HandleEvent, LinkEvent
<1>2. ASSUME NEW l \in Link, Timeout(l) PROVE NoneLost'
  BY <1>2, LostTimeout
<1>3. ASSUME NEW l \in Link, Send(l) PROVE NoneLost'
  BY <1>3, LostSend
<1>4. ASSUME NEW b \in Bundle, NEW l \in Link, Expire(b, l) PROVE NoneLost'
  BY <1>4, LostExpire
<1>5. CASE \/ \E l \in Link : LinkStep(l)
           \/ \E b \in Bundle : Receive(b)
           \/ \E b \in Bundle, l \in Link :
                CustodyLate(b, l) \/ Report(l, b, "transmitted") \/ Report(l, b, "failed")
           \/ \E n \in Planned : ContactBegins(n) \/ ContactEnds(n)
           \/ RouteChange
  <2>1. events' = events \/ \E e : e \in Events /\ Post(e)
    BY <1>5, OutsidePosts
  <2>2. /\ pending' = pending /\ deferred' = deferred /\ queue' = queue /\ inflight' = inflight
        /\ log' = log /\ homeless' = homeless
    BY <1>5 DEF LinkStep, Receive, CustodyLate, Report, ContactBegins, ContactEnds, RouteChange,
                routerVars
  <2> QED BY <2>1, <2>2, LostPosted
<1>6. CASE UNCHANGED vars
  BY <1>6, LostPosted DEF vars
<1> QED
  BY <1>1, <1>2, <1>3, <1>4, <1>5, <1>6 DEF Next

\* A pending bundle is never lost: it waits for a link, is on one, or has an event that will
\* route it again; or another node took custody; or the last routing found no link for it.
THEOREM RouterNoneLost == Spec => []NoneLost
<1>1. Init => NoneLost
  BY DEF Init, NoneLost
<1> QED
  BY <1>1, QueueInvariant, StepLost, PTL DEF Spec

-----------------------------------------------------------------------------
(* No bundle is forgotten *)

ForgottenInv == OfferInv /\ TimerInv

\* In t, no link opened or closed, the queues of links that are not open are as they were,
\* and a link was offered what waits if it had been before, or is to be checked now.
Serves(t) ==
  \A l \in Link :
    /\ t.link[l] = "OPEN" <=> link[l] = "OPEN"
    /\ link[l] # "OPEN" => t.queue[l] = queue[l]
    /\ Offered(State, l) \/ Checking(Event, l) => Offered(t, l)

LEMMA ServesAfter ==
  ASSUME NEW S, NEW s, s.link = link, s.queue = queue, NEW t \in After(s, S),
         \A l \in Link : Offered(State, l) => Offered(s, l) \/ Offered(t, l),
         \A l \in Link : Checking(Event, l) => Offered(t, l)
  PROVE  Serves(t)
<1>1. Follows(s, t)
  BY DEF After
<1>2. \A l \in Link : Offered(s, l) => Offered(t, l)
  BY <1>1 DEF Follows
<1>3. \A l \in Link : /\ t.link[l] = "OPEN" <=> link[l] = "OPEN"
                      /\ link[l] # "OPEN" => t.queue[l] = queue[l]
  BY <1>1 DEF Follows
<1> QED
  BY <1>2, <1>3 DEF Serves

\* What Offered looks at.
LEMMA OfferedStill ==
  ASSUME NEW s, NEW t, NEW l \in Link, Offered(s, l), t.link[l] = "OPEN" => s.link[l] = "OPEN",
         t.queue[l] = s.queue[l], t.inflight[l] = s.inflight[l],
         Range(t.deferred[l]) \subseteq Range(s.deferred[l]), t.aside = s.aside
  PROVE  Offered(t, l)
BY DEF Offered

\* The event at hand is handled, the others stay, in their order.
LEMMA OthersStay ==
  ASSUME Typed, NEW kind, Handle(kind), NEW l
  PROVE  /\ CheckComing(l) => CheckComing(l)' \/ Checking(Event, l)
         /\ \A i \in DOMAIN events' : /\ i \in Nat /\ i + 1 \in DOMAIN events
                                      /\ events'[i] = events[i + 1]
         /\ \A i \in DOMAIN events : i \in Nat /\ (i # 1 => i - 1 \in DOMAIN events' /\ events'[i - 1] = events[i])
         /\ Event = events[1] /\ Event.kind = kind
<1>1. \A i \in DOMAIN events : i \in Nat
  BY DEF Typed
<1>2. /\ Event = events[1] /\ Event.kind = kind
      /\ \A i \in DOMAIN events' : /\ events'[i] = events[i + 1] /\ i + 1 \in DOMAIN events
                                   /\ i \in Nat
      /\ \A i \in DOMAIN events : i # 1 => i - 1 \in DOMAIN events' /\ events'[i - 1] = events[i]
  BY HandleFacts
<1>3. ASSUME NEW i \in DOMAIN events, Checking(events[i], l)
      PROVE  CheckComing(l)' \/ Checking(Event, l)
  <2>1. CASE i = 1
    BY <1>2, <1>3, <2>1
  <2>2. CASE i # 1
    <3>1. i - 1 \in DOMAIN events' /\ Checking(events'[i - 1], l)
      BY <1>2, <1>3, <2>2
    <3> QED BY <3>1 DEF CheckComing
  <2> QED BY <2>1, <2>2
<1> QED
  BY <1>1, <1>2, <1>3 DEF CheckComing

LEMMA OfferHandled ==
  ASSUME QueueInv, OfferInv, NEW kind, Handle(kind), NEW t, Sound(t, Bundle \ late), Serves(t),
         NEW routed, Become(t, routed), open' = open
  PROVE  OfferInv'
<1> SUFFICES ASSUME NEW l \in Link PROVE CheckComing(l)' \/ Offered(State, l)'
  BY DEF OfferInv
<1>1. CheckComing(l) \/ Offered(State, l)
  BY DEF OfferInv
<1>2. CheckComing(l) => CheckComing(l)' \/ Checking(Event, l)
  BY OthersStay DEF QueueInv
<1>3. Offered(State, l) \/ Checking(Event, l) => Offered(t, l)
  BY DEF Serves
<1>4. Offered(t, l) => Offered(State, l)'
  BY BecomeKeeps
<1> QED
  BY <1>1, <1>2, <1>3, <1>4

\* What is heard of a link later is what was, but for the event at hand; so its timer is
\* right if it is touched as that event demands.
LEMMA TimerHandled ==
  ASSUME QueueInv, TimerInv, NEW kind, Handle(kind),
         \A l \in Link : /\ link'[l] = "OPEN" <=> link[l] = "OPEN"
                         /\ link[l] # "OPEN" => queue'[l] = queue[l],
         timer' = IF kind \in {"contact_up", "deleted"} THEN CancelTimer(Event.link)
                  ELSE IF kind = "contact_down"
                       THEN [timer EXCEPT ![Event.link] =
                               IF queue[Event.link] # <<>> /\ @ = "none" THEN "pending" ELSE @]
                       ELSE timer
  PROVE  TimerInv'
<1>1. /\ \A i \in DOMAIN events' : /\ i \in Nat /\ i + 1 \in DOMAIN events
                                   /\ events'[i] = events[i + 1]
      /\ \A i \in DOMAIN events : /\ i \in Nat
                                  /\ i # 1 => i - 1 \in DOMAIN events' /\ events'[i - 1] = events[i]
      /\ Event = events[1] /\ Event.kind = kind /\ 1 \in DOMAIN events
  BY OthersStay, HandleFacts DEF QueueInv
<1>2. timer \in [Link -> {"none", "pending", "fired", "missed"}]
  BY DEF QueueInv, Typed
<1> SUFFICES ASSUME NEW l \in Link PROVE TimerAt(l)'
  BY DEF TimerInv
<1>3. /\ link[l] # "OPEN" /\ queue[l] # <<>> =>
           /\ \A i \in DOMAIN events : Is(i, {"contact_up", "deleted"}, l) =>
                \E j \in DOMAIN events : i < j /\ Is(j, {"contact_down"}, l)
           /\ timer[l] \in {"pending", "missed"}
                \/ \E j \in DOMAIN events : Is(j, {"contact_down"}, l)
      /\ timer[l] = "fired" =>
           \/ queue[l] = <<>> /\ link[l] # "OPEN"
           \/ \E i \in DOMAIN events : Is(i, {"contact_up"}, l)
  BY DEF TimerInv, TimerAt
<1>4. \A kinds : \A i \in DOMAIN events' : Is(i, kinds, l)' <=> Is(i + 1, kinds, l)
  BY <1>1 DEF Is
<1>5. \A kinds : \A i \in DOMAIN events : i # 1 /\ Is(i, kinds, l) =>
        i - 1 \in DOMAIN events' /\ Is(i - 1, kinds, l)'
  BY <1>1 DEF Is
<1>6. \A kinds : Is(1, kinds, l) <=> kind \in kinds /\ Event.link = l
  BY <1>1 DEF Is
<1>7. ASSUME link'[l] # "OPEN", queue'[l] # <<>>
      PROVE  /\ \A i \in DOMAIN events' : Is(i, {"contact_up", "deleted"}, l)' =>
                  \E j \in DOMAIN events' : i < j /\ Is(j, {"contact_down"}, l)'
             /\ timer'[l] \in {"pending", "missed"}
                  \/ \E j \in DOMAIN events' : Is(j, {"contact_down"}, l)'
  <2>1. link[l] # "OPEN" /\ queue[l] # <<>>
    BY <1>7
  <2>2. ASSUME NEW i \in DOMAIN events, Is(i, {"contact_up", "deleted"}, l)
        PROVE  \E j \in DOMAIN events' : i - 1 < j /\ Is(j, {"contact_down"}, l)'
    <3>1. PICK j \in DOMAIN events : i < j /\ Is(j, {"contact_down"}, l)
      BY <1>3, <2>1, <2>2
    <3>2. i \in Nat /\ j \in Nat /\ j # 1 /\ i - 1 < j - 1
      <4>1. i \in 1 .. Len(events) /\ Len(events) \in Nat /\ j \in Nat
        BY <1>1, LenProperties DEF QueueInv, Typed
      <4> QED BY <3>1, <4>1
    <3> QED BY <1>5, <3>1, <3>2
  <2>3. ASSUME NEW i \in DOMAIN events', Is(i, {"contact_up", "deleted"}, l)'
        PROVE  \E j \in DOMAIN events' : i < j /\ Is(j, {"contact_down"}, l)'
    <3>1. i + 1 \in DOMAIN events /\ Is(i + 1, {"contact_up", "deleted"}, l) /\ i + 1 - 1 = i
      BY <1>1, <1>4, <2>3
    <3> QED BY <2>2, <3>1
  <2>4. timer'[l] \in {"pending", "missed"} \/ \E j \in DOMAIN events' : Is(j, {"contact_down"}, l)'
    <3>1. CASE kind \in {"contact_up", "deleted"} /\ Event.link = l
      BY <1>1, <1>6, <2>2, <3>1
    <3>2. CASE kind = "contact_down" /\ Event.link = l
      <4>1. CASE timer[l] = "fired"
        <5>1. PICK i \in DOMAIN events : Is(i, {"contact_up"}, l)
          BY <1>3, <2>1, <4>1
        <5>2. Is(i, {"contact_up", "deleted"}, l)
          BY <5>1 DEF Is
        <5> QED BY <2>2, <5>2
      <4>2. CASE timer[l] # "fired"
        BY <1>2, <2>1, <3>2, <4>2
      <4> QED BY <4>1, <4>2
    <3>3. CASE ~ (kind \in {"contact_up", "deleted", "contact_down"} /\ Event.link = l)
      <4>1. timer'[l] = timer[l]
        BY <1>2, <3>3 DEF CancelTimer
      <4>2. \A j \in DOMAIN events : Is(j, {"contact_down"}, l) => j # 1
        BY <1>6, <3>3
      <4> QED BY <1>3, <1>5, <2>1, <4>1, <4>2
    <3> QED BY <3>1, <3>2, <3>3
  <2> QED BY <2>3, <2>4
<1>8. ASSUME timer'[l] = "fired"
      PROVE  \/ queue'[l] = <<>> /\ link'[l] # "OPEN"
             \/ \E i \in DOMAIN events' : Is(i, {"contact_up"}, l)'
  <2>1. timer[l] = "fired" /\ ~ (kind \in {"contact_up", "deleted"} /\ Event.link = l)
    BY <1>2, <1>8 DEF CancelTimer
  <2>2. \A i \in DOMAIN events : Is(i, {"contact_up"}, l) => i # 1
    BY <1>6, <2>1
  <2> QED BY <1>3, <1>5, <2>1, <2>2
<1> QED
  BY <1>7, <1>8 DEF TimerAt

\* A handler that leaves the timers alone.
LEMMA ForgottenHandled ==
  ASSUME QueueInv, ForgottenInv, NEW kind, kind \notin {"contact_up", "deleted", "contact_down"},
         Handle(kind), NEW t, Sound(t, Bundle \ late), Serves(t), NEW routed, Become(t, routed),
         open' = open, timer' = timer
  PROVE  ForgottenInv'
<1>1. OfferInv'
  BY OfferHandled DEF ForgottenInv
<1>2. \A l \in Link : /\ link'[l] = "OPEN" <=> link[l] = "OPEN"
                      /\ link[l] # "OPEN" => queue'[l] = queue[l]
  BY DEF Become, Serves
<1>3. TimerInv'
  BY <1>2, TimerHandled DEF ForgottenInv
<1> QED
  BY <1>1, <1>3 DEF ForgottenInv

LEMMA ForgottenLink == ASSUME QueueInv, ForgottenInv, LinkEvent PROVE ForgottenInv'
<1>1. PICK kind \in (LinkKind \ {"contact_down", "deleted"}) \cup {"plan_up"} :
        \E s, t, routed : LinkEventFrom(kind, s, t, routed)
  BY LinkEventStep
<1>2. PICK s, t, routed : LinkEventFrom(kind, s, t, routed)
  BY <1>1
<1>3. /\ Handle(kind) /\ Lists(s) /\ t \in After(s, Bundle \ late) /\ Become(t, routed)
      /\ \A l \in Link : Checking(Event, l) => Offered(t, l)
  BY <1>2 DEF LinkEventFrom
<1>4. \A l \in Link : Offered(State, l) => Offered(s, l)
  BY <1>3, OfferedStill, StateNow DEF Lists
<1>5. Serves(t) /\ Sound(t, Bundle \ late)
  BY <1>3, <1>4, ServesAfter DEF Lists, After
<1>6. Event.kind = kind
  BY <1>3, HandleFacts DEF QueueInv
<1>7. /\ open' = open
      /\ timer' = IF kind \in {"contact_up", "deleted"} THEN CancelTimer(Event.link) ELSE timer
  BY <1>1, <1>6 DEF LinkEvent, HandleContactUp, HandleContactPlanUp, HandleLinkAvailable,
         HandleLinkCheckDeferred, HandleLinkCreated, HandleRouteAdd, Checks, Handle, LinkKind
<1>8. OfferInv'
  BY <1>3, <1>5, <1>7, OfferHandled DEF ForgottenInv
<1>9. \A l \in Link : /\ link'[l] = "OPEN" <=> link[l] = "OPEN"
                      /\ link[l] # "OPEN" => queue'[l] = queue[l]
  BY <1>3, <1>5 DEF Become, Serves
<1>10. kind # "contact_down"
  BY <1>1 DEF LinkKind
<1>11. TimerInv'
  BY <1>3, <1>7, <1>9, <1>10, TimerHandled DEF ForgottenInv
<1> QED
  BY <1>8, <1>11 DEF ForgottenInv

LEMMA ForgottenReceived == ASSUME QueueInv, ForgottenInv, HandleBundleReceived PROVE ForgottenInv'
<1> DEFINE s == [State EXCEPT !.pending = @ \cup {Event.bundle}]
           S == Bundle \ late
<1>1. Handle("received") /\ Route(s) /\ open' = open /\ timer' = timer
  BY DEF HandleBundleReceived
<1>2. Event.bundle \in Bundle /\ Event.kind = "received"
  BY <1>1, HandleFacts, EventFacts DEF QueueInv
<1>3. /\ s \in States /\ s.inflight = inflight /\ s.log = log /\ s.deferred = deferred
      /\ s.queue = queue /\ s.listed = listed /\ s.link = link /\ s.aside = aside
  BY <1>2, StateNow DEF QueueInv, Sound, States
<1> HIDE DEF s
<1>4. Sound(s, S)
  BY <1>3, SoundStill, StateNow DEF QueueInv
<1>5. PICK t \in After(s, S) : Become(t, {Event.bundle})
  BY <1>1, <1>2, <1>4, RouteOf
<1>6. \A l \in Link : Offered(State, l) => Offered(s, l)
  BY <1>3, OfferedStill, StateNow
<1>7. \A l \in Link : ~ Checking(Event, l)
  BY <1>2 DEF Checking
<1>8. Serves(t) /\ Sound(t, S)
  BY <1>3, <1>5, <1>6, <1>7, ServesAfter DEF After
<1> QED
  BY <1>1, <1>5, <1>8, ForgottenHandled

\* Left takes one bundle from what one link is sending, and is felt by no other link.
LEMMA LeftOffers ==
  ASSUME QueueInv, NEW kind \in {"transmitted", "failed"}, Handle(kind),
         NEW entry \in {"TRANSMITTED", "TRANSMIT_FAILED"}
  PROVE  LET t == Left(entry) IN
         /\ t.link = link /\ t.queue = queue /\ t.deferred = deferred /\ t.aside = aside
         /\ \A l \in Link : l # Event.link /\ Offered(State, l) => Offered(t, l)
<1> DEFINE e == Event.bundle
           l == Event.link
           rest == Without(inflight[l], {e})
           f == [inflight EXCEPT ![l] = rest]
           g == [log EXCEPT ![e] = [log[e] EXCEPT ![l] = entry]]
           t == Left(entry)
<1>1. t = [State EXCEPT !.inflight = f, !.log = g]
  BY DEF Left, State
<1>2. State \in States /\ inflight \in [Link -> Seq(Bundle)]
  BY StateFields, StateNow DEF QueueInv, Sound
<1> HIDE DEF rest
<1>3. \A k \in Link : k # l => f[k] = inflight[k]
  BY <1>2
<1> HIDE DEF f, g, l
<1>4. /\ t.link = link /\ t.queue = queue /\ t.deferred = deferred /\ t.aside = aside
      /\ t.inflight = f
  BY <1>1, <1>2, StateNow DEF States
<1> HIDE DEF t
<1>5. ASSUME NEW k \in Link, k # l, Offered(State, k) PROVE Offered(t, k)
  BY <1>3, <1>4, <1>5, OfferedStill, StateNow
<1> QED
  BY <1>4, <1>5 DEF t, l

LEMMA ForgottenFailed == ASSUME QueueInv, ForgottenInv, HandleTransmissionFailed PROVE ForgottenInv'
<1> DEFINE S == Bundle \ late
           s == Left("TRANSMIT_FAILED")
<1>1. Handle("failed") /\ Route(s) /\ open' = open /\ timer' = timer
  BY DEF HandleTransmissionFailed
<1>2. Event.link \in Link /\ Event.bundle \in Bundle /\ Event.kind = "failed"
  BY <1>1, HandleFacts, EventFacts DEF QueueInv, BundleKind
<1>3. /\ Sound(s, S) /\ s.link = link /\ s.queue = queue
      /\ \A l \in Link : l # Event.link /\ Offered(State, l) => Offered(s, l)
  BY <1>1, LeftSound, LeftOffers
<1> HIDE DEF s
<1>4. PICK t \in After(s, S) : Become(t, {Event.bundle}) /\ Offered(t, Event.link)
  BY <1>1, <1>2, <1>3, RouteOf
<1>5. \A l \in Link : Checking(Event, l) => l = Event.link
  BY <1>2 DEF Checking
<1>6. Serves(t) /\ Sound(t, S)
  BY <1>3, <1>4, <1>5, ServesAfter DEF After
<1> QED
  BY <1>1, <1>4, <1>6, ForgottenHandled

LEMMA RemovedServes ==
  ASSUME NEW S \in SUBSET Bundle, NEW s, Sound(s, S), NEW b
  PROVE  LET t == RemoveFromDeferred(s, b) IN
         /\ Sound(t, S) /\ t.inflight = s.inflight
         /\ t.link = s.link /\ t.aside = s.aside /\ t.queue = s.queue
         /\ \A l \in Link : Range(t.deferred[l]) = Range(s.deferred[l]) \ {b}
BY RemovedFacts

LEMMA ForgottenTransmitted ==
  ASSUME QueueInv, ForgottenInv, HandleBundleTransmitted
  PROVE  ForgottenInv'
<1> DEFINE S == Bundle \ late
           e == Event.bundle
           l == Event.link
           s == Left("TRANSMITTED")
           sent == RemoveFromDeferred(s, e)
           u == CheckNextHop(sent, l)
           t == Deleted(u, e)
<1>1. Handle("transmitted") /\ Become(t, {}) /\ open' = open /\ timer' = timer
  BY DEF HandleBundleTransmitted
<1>2. l \in Link /\ e \in Bundle /\ Event.kind = "transmitted"
  BY <1>1, HandleFacts, EventFacts DEF QueueInv, BundleKind
<1>3. /\ Sound(s, S) /\ s.link = link /\ s.queue = queue
      /\ \A k \in Link : k # l /\ Offered(State, k) => Offered(s, k)
  BY <1>1, LeftSound, LeftOffers
<1> HIDE DEF s, e
<1>4. /\ Sound(sent, S) /\ sent.inflight = s.inflight
      /\ sent.link = s.link /\ sent.aside = s.aside /\ sent.queue = s.queue
      /\ \A k \in Link : Range(sent.deferred[k]) = Range(s.deferred[k]) \ {e}
  <2>1. S \in SUBSET Bundle /\ Sound(s, S)
    BY <1>3
  <2> HIDE DEF S, l, u, t
  <2> QED BY <2>1, RemovedServes
<1> HIDE DEF sent
<1>5. u \in After(sent, S) /\ Offered(u, l) /\ Sound(u, S)
  <2> HIDE DEF l
  <2> QED BY <1>2, <1>4, CheckAfter DEF After
<1> HIDE DEF u
<1>6. /\ Sound(t, S) /\ t.inflight = u.inflight /\ t.link = u.link /\ t.queue = u.queue
      /\ t.aside = u.aside /\ t.deferred = u.deferred
  <2>1. S \in SUBSET Bundle
    OBVIOUS
  <2> HIDE DEF S
  <2>2. /\ Sound(Deleted(u, e), S)
        /\ Deleted(u, e).inflight = u.inflight /\ Deleted(u, e).link = u.link
        /\ Deleted(u, e).queue = u.queue /\ Deleted(u, e).aside = u.aside
        /\ Deleted(u, e).deferred = u.deferred
    BY <1>5, <2>1, DeletedFacts
  <2> QED BY <2>2
<1> HIDE DEF t
<1>7. \A k \in Link : Checking(Event, k) => k = l
  BY <1>2 DEF Checking
<1>8. \A k \in Link : k # l /\ Offered(State, k) => Offered(sent, k)
  BY <1>3, <1>4, OfferedStill
<1>9. Serves(u)
  BY <1>3, <1>4, <1>5, <1>7, <1>8, ServesAfter
<1>10. \A k \in Link : Offered(u, k) => Offered(t, k)
  BY <1>6, OfferedStill
<1>11. Serves(t)
  BY <1>6, <1>9, <1>10 DEF Serves
<1> QED
  BY <1>1, <1>6, <1>11, ForgottenHandled

LEMMA ForgottenRerouted ==
  ASSUME QueueInv, ForgottenInv, NEW kind \in {"cancelled", "custody_timeout"}, Handle(kind),
         open' = open, timer' = timer, NEW s, Sound(s, Bundle \ late), s.link = link, s.queue = queue,
         \A l \in Link : Offered(State, l) => Offered(s, l),
         Route(s) \/ Become(s, {})
  PROVE  ForgottenInv'
<1> DEFINE S == Bundle \ late
<1>1. Event.bundle \in Bundle /\ Event.kind = kind
  BY HandleFacts, EventFacts DEF QueueInv, BundleKind
<1>2. \A l \in Link : ~ Checking(Event, l)
  BY <1>1 DEF Checking
<1>3. PICK t \in After(s, S), routed \in {{}, {Event.bundle}} : Become(t, routed)
  <2>1. Route(s) => \E t \in After(s, S) : Become(t, {Event.bundle})
    BY <1>1, RouteOf
  <2>2. s \in After(s, S)
    BY AfterItself
  <2> QED BY <2>1, <2>2
<1>4. Serves(t) /\ Sound(t, S)
  BY <1>2, <1>3, ServesAfter DEF After
<1> QED
  BY <1>3, <1>4, ForgottenHandled

LEMMA ForgottenCancelled == ASSUME QueueInv, ForgottenInv, HandleBundleCancelled PROVE ForgottenInv'
<1>1. /\ Handle("cancelled") /\ open' = open /\ timer' = timer
      /\ Route(State) \/ Become(State, {})
  BY DEF HandleBundleCancelled
<1>2. Sound(State, Bundle \ late) /\ State.link = link /\ State.queue = queue
  BY StateNow DEF QueueInv
<1> QED
  BY <1>1, <1>2, ForgottenRerouted

LEMMA ForgottenCustodyTimeout ==
  ASSUME QueueInv, ForgottenInv, HandleCustodyTimeout
  PROVE  ForgottenInv'
<1>1. /\ Handle("custody_timeout") /\ open' = open /\ timer' = timer
      /\ Route(TimedOut) \/ Become(State, {})
  BY DEF HandleCustodyTimeout, TimedOut
<1>2. Sound(State, Bundle \ late) /\ State.link = link /\ State.queue = queue
  BY StateNow DEF QueueInv
<1>3. /\ Sound(TimedOut, Bundle \ late) /\ TimedOut.link = link /\ TimedOut.queue = queue
      /\ \A l \in Link : Offered(State, l) => Offered(TimedOut, l)
  BY <1>1, TimedOutSound
<1> QED
  BY <1>1, <1>2, <1>3, ForgottenRerouted

LEMMA ForgottenDeletedLink == ASSUME QueueInv, ForgottenInv, HandleLinkDeleted PROVE ForgottenInv'
<1> DEFINE l == Event.link
           d == [deferred EXCEPT ![l] = <<>>]
           t == [State EXCEPT !.listed = listed \ {l}, !.routes = routes \ {l}, !.deferred = d]
<1>1. /\ Handle("deleted") /\ open' = open /\ timer' = CancelTimer(l)
      /\ \E routed : Become(t, routed)
  BY DEF HandleLinkDeleted, State
<1>2. l \in Link /\ Event.kind = "deleted"
  BY <1>1, HandleFacts, EventFacts DEF QueueInv, LinkKind
<1>3. PICK routed : Become(t, routed)
  BY <1>1
<1>4. State \in States /\ deferred \in [Link -> Seq(Bundle)]
  BY StateFields, StateNow DEF QueueInv, Sound
<1> HIDE DEF l
<1>5. \A k \in Link : Range(d[k]) \subseteq Range(deferred[k])
  <2>1. \A k \in Link : d[k] = IF k = l THEN <<>> ELSE deferred[k]
    BY <1>4
  <2>2. Range(<<>>) = {}
    BY DEF Range
  <2> QED BY <2>1, <2>2
<1> HIDE DEF d
<1>6. /\ t.deferred = d /\ t.queue = queue /\ t.inflight = inflight /\ t.link = link
      /\ t.aside = aside
  BY <1>4, StateNow DEF States
<1> HIDE DEF t
<1>7. OfferInv'
  <2> SUFFICES ASSUME NEW k \in Link PROVE CheckComing(k)' \/ Offered(State, k)'
    BY DEF OfferInv
  <2>1. CheckComing(k) \/ Offered(State, k)
    BY DEF ForgottenInv, OfferInv
  <2>2. CheckComing(k) => CheckComing(k)'
    BY <1>1, <1>2, OthersStay DEF QueueInv, Checking
  <2>3. Offered(State, k) => Offered(t, k)
    BY <1>5, <1>6, OfferedStill, StateNow
  <2>4. Offered(t, k) => Offered(State, k)'
    BY <1>1, <1>3, <1>6, StateNext DEF Offered, Become, Waiting
  <2> QED BY <2>1, <2>2, <2>3, <2>4
<1>8. link' = link /\ queue' = queue
  BY <1>3, <1>6 DEF Become
<1>9. TimerInv'
  BY <1>1, <1>8, TimerHandled DEF ForgottenInv, l
<1> QED
  BY <1>7, <1>9 DEF ForgottenInv

LEMMA ForgottenQuiet ==
  ASSUME QueueInv, ForgottenInv, HandleContactDown \/ HandleRouteDel
  PROVE  ForgottenInv'
<1>1. PICK kind \in {"contact_down", "route_del"} :
        /\ Handle(kind)
        /\ timer' = IF kind = "contact_down"
                    THEN [timer EXCEPT ![Event.link] =
                            IF queue[Event.link] # <<>> /\ @ = "none" THEN "pending" ELSE @]
                    ELSE timer
  BY DEF HandleContactDown, HandleRouteDel
<1>2. /\ deferred' = deferred /\ queue' = queue /\ inflight' = inflight /\ link' = link
      /\ aside' = aside /\ open' = open
  BY DEF HandleContactDown, HandleRouteDel
<1>3. Event.kind = kind
  BY <1>1, HandleFacts DEF QueueInv
<1>4. OfferInv'
  <2> SUFFICES ASSUME NEW k \in Link PROVE CheckComing(k)' \/ Offered(State, k)'
    BY DEF OfferInv
  <2>1. CheckComing(k) \/ Offered(State, k)
    BY DEF ForgottenInv, OfferInv
  <2>2. CheckComing(k) => CheckComing(k)'
    BY <1>1, <1>3, OthersStay DEF QueueInv, Checking
  <2>3. Offered(State, k) => Offered(State, k)'
    BY <1>2, StateNow, StateNext DEF Offered
  <2> QED BY <2>1, <2>2, <2>3
<1>5. TimerInv'
  BY <1>1, <1>2, TimerHandled DEF ForgottenInv
<1> QED
  BY <1>4, <1>5 DEF ForgottenInv

\* Every event stays where it is; the new ones are about no contact and no deleted link.
More(kinds) ==
  /\ \A i \in DOMAIN events : i \in DOMAIN events' /\ events'[i] = events[i]
  /\ \A i \in DOMAIN events' : i \in DOMAIN events \/ events'[i].kind \in kinds

Other == {"received", "transmitted", "failed", "cancelled", "custody_timeout", "available",
          "check_deferred", "created", "plan_up", "route_add", "route_del"}

\* Nor is any about link l.
Unheard(l) ==
  /\ \A i \in DOMAIN events : i \in DOMAIN events' /\ events'[i] = events[i]
  /\ \A i \in DOMAIN events' : Is(i, {"contact_up", "deleted"}, l)' => i \in DOMAIN events

LEMMA MoreUnheard == ASSUME More(Other), NEW l PROVE Unheard(l)
BY DEF More, Other, Unheard, Is

LEMMA CheckStays == ASSUME NEW kinds, More(kinds), NEW l, CheckComing(l) PROVE CheckComing(l)'
BY DEF More, CheckComing

\* While links stay open or closed, a timer only has to follow what its queue does.
LEMMA TimerStays ==
  ASSUME TimerInv, NEW l \in Link, Unheard(l), link'[l] = "OPEN" <=> link[l] = "OPEN",
         timer'[l] = timer[l],
         link[l] # "OPEN" /\ queue[l] = <<>> => queue'[l] = <<>>
  PROVE  TimerAt(l)'
<1>1. \A kinds : \A i \in DOMAIN events : Is(i, kinds, l) =>
        i \in DOMAIN events' /\ Is(i, kinds, l)'
  BY DEF Is, Unheard
<1>2. \A i \in DOMAIN events' : Is(i, {"contact_up", "deleted"}, l)' =>
        i \in DOMAIN events /\ Is(i, {"contact_up", "deleted"}, l)
  BY DEF Is, Unheard
<1>3. /\ link[l] # "OPEN" /\ queue[l] # <<>> =>
           /\ \A i \in DOMAIN events : Is(i, {"contact_up", "deleted"}, l) =>
                \E j \in DOMAIN events : i < j /\ Is(j, {"contact_down"}, l)
           /\ timer[l] \in {"pending", "missed"}
                \/ \E j \in DOMAIN events : Is(j, {"contact_down"}, l)
      /\ timer[l] = "fired" =>
           \/ queue[l] = <<>> /\ link[l] # "OPEN"
           \/ \E i \in DOMAIN events : Is(i, {"contact_up"}, l)
  BY DEF TimerInv, TimerAt
<1>4. ASSUME link'[l] # "OPEN", queue'[l] # <<>>
      PROVE  /\ \A i \in DOMAIN events' : Is(i, {"contact_up", "deleted"}, l)' =>
                  \E j \in DOMAIN events' : i < j /\ Is(j, {"contact_down"}, l)'
             /\ timer'[l] \in {"pending", "missed"}
                  \/ \E j \in DOMAIN events' : Is(j, {"contact_down"}, l)'
  BY <1>1, <1>2, <1>3, <1>4
<1>5. ASSUME timer'[l] = "fired"
      PROVE  \/ queue'[l] = <<>> /\ link'[l] # "OPEN"
             \/ \E i \in DOMAIN events' : Is(i, {"contact_up"}, l)'
  BY <1>1, <1>3, <1>5
<1> QED
  BY <1>4, <1>5 DEF TimerAt

\* A step that posts events, and moves nothing to or from a link.
LEMMA ForgottenPosted ==
  ASSUME QueueInv, ForgottenInv, More(Other), deferred' = deferred, queue' = queue,
         inflight' = inflight, aside' = aside, timer' = timer,
         \A l \in Link : link'[l] = "OPEN" <=> link[l] = "OPEN",
         \A l \in Link : Remote[l] \in open' \ open => CheckComing(l)',
         open' \subseteq Planned
  PROVE  ForgottenInv'
<1>1. ASSUME NEW l \in Link PROVE CheckComing(l)' \/ Offered(State, l)'
  <2>1. CheckComing(l) \/ Offered(State, l)
    BY DEF ForgottenInv, OfferInv
  <2>2. CheckComing(l) => CheckComing(l)'
    BY CheckStays
  <2>3. Offered(State, l) => Offered(State, l)' \/ Remote[l] \in open' \ open
    BY StateNow, StateNext DEF Offered
  <2> QED BY <2>1, <2>2, <2>3
<1>2. OfferInv'
  BY <1>1 DEF OfferInv
<1>3. TimerInv'
  BY MoreUnheard, TimerStays DEF ForgottenInv, TimerInv
<1> QED
  BY <1>2, <1>3 DEF ForgottenInv

\* What Cancel does to the links, and says of them.
LEMMA CancelQuiet ==
  ASSUME QueueInv, NEW l \in Link, NEW S \in SUBSET Bundle, Cancel(l, S)
  PROVE  /\ More(Other)
         /\ \A k \in Link \ {l} : queue'[k] = queue[k] /\ inflight'[k] = inflight[k]
         /\ queue[l] = <<>> => queue'[l] = <<>>
         /\ S = Bundle => queue'[l] = <<>>
         /\ (\E x \in S : On(State, x, l)) => CheckComing(l)'
         /\ (\A x \in S : ~ On(State, x, l)) =>
              /\ queue'[l] = <<>> => queue[l] = <<>>
              /\ inflight'[l] = <<>> => inflight[l] = <<>>
<1>1. /\ Typed /\ State \in States
      /\ queue \in [Link -> Seq(Bundle)] /\ inflight \in [Link -> Seq(Bundle)]
  BY StateFields, StateNow DEF QueueInv, Sound
<1>2. /\ queue' \in [Link -> Seq(Bundle)] /\ inflight' \in [Link -> Seq(Bundle)]
      /\ \A k \in Link :
           /\ Range(queue'[k]) = IF k = l THEN Range(queue[l]) \ S ELSE Range(queue[k])
           /\ Range(inflight'[k]) = IF k = l THEN Range(inflight[l]) \ S ELSE Range(inflight[k])
      /\ \A i \in DOMAIN events : i \in DOMAIN events' /\ events'[i] = events[i]
      /\ \A i \in DOMAIN events' :
           \/ i \in DOMAIN events
           \/ \E x \in S : events'[i] = OfBundle("cancelled", x, l)
           \/ events'[i] = OfLink("check_deferred", l)
      /\ \A x \in S : On(State, x, l) =>
           \E i \in DOMAIN events' : events'[i] = OfLink("check_deferred", l)
  <2>1. CancelLeaves(l, S)
    BY <1>1, CancelFacts
  <2> QED BY <2>1 DEF CancelLeaves
<1>3. More(Other)
  <2>1. ASSUME NEW i \in DOMAIN events', i \notin DOMAIN events
        PROVE  events'[i].kind \in {"cancelled", "check_deferred"}
    <3>1. (\E x \in S : events'[i] = OfBundle("cancelled", x, l)) \/ events'[i] = OfLink("check_deferred", l)
      BY <1>2, <2>1
    <3> QED BY <3>1, EventFields
  <2> QED BY <1>2, <2>1 DEF More, Other
<1>4. \A k \in Link \ {l} : queue'[k] = queue[k] /\ inflight'[k] = inflight[k]
  BY <1>1 DEF Cancel
<1>5. /\ Range(queue'[l]) = Range(queue[l]) \ S /\ Range(inflight'[l]) = Range(inflight[l]) \ S
      /\ queue[l] = <<>> <=> Range(queue[l]) = {}
      /\ queue'[l] = <<>> <=> Range(queue'[l]) = {}
      /\ inflight[l] = <<>> <=> Range(inflight[l]) = {}
      /\ inflight'[l] = <<>> <=> Range(inflight'[l]) = {}
      /\ Range(queue[l]) \subseteq Bundle
  BY <1>1, <1>2, EmptyRange, RangeOfSeq
<1>6. (\E x \in S : On(State, x, l)) => CheckComing(l)'
  BY <1>2, EventFields DEF CheckComing, Checking
<1>7. ASSUME \A x \in S : ~ On(State, x, l)
      PROVE  Range(queue'[l]) = Range(queue[l]) /\ Range(inflight'[l]) = Range(inflight[l])
  BY <1>5, <1>7, StateNow DEF On
<1> QED
  BY <1>3, <1>4, <1>5, <1>6, <1>7

LEMMA OfferedHere ==
  ASSUME NEW l, Offered(State, l), link'[l] = "OPEN" => link[l] = "OPEN", open' = open,
         queue'[l] = <<>> => queue[l] = <<>>, inflight'[l] = <<>> => inflight[l] = <<>>,
         \A x \in Range(deferred'[l]) :
           x \in Range(deferred[l]) /\ (<<x, l>> \in aside => <<x, l>> \in aside')
  PROVE  Offered(State, l)'
BY StateNow, StateNext DEF Offered

LEMMA ForgottenTimeout ==
  ASSUME QueueInv, ForgottenInv, NEW l \in Link, Timeout(l)
  PROVE  ForgottenInv'
<1>1. /\ timer[l] = "pending"
      /\ timer' = [timer EXCEPT ![l] = IF link[l] = "UNAVAILABLE" THEN "fired" ELSE "missed"]
      /\ deferred' = deferred /\ link' = link /\ open' = open /\ aside' = aside
  BY DEF Timeout
<1>2. timer \in [Link -> {"none", "pending", "fired", "missed"}]
  BY DEF QueueInv, Typed
<1>3. \A k \in Link : CheckComing(k) \/ Offered(State, k)
  BY DEF ForgottenInv, OfferInv
<1>4. CASE link[l] # "UNAVAILABLE"
  <2>1. queue' = queue /\ inflight' = inflight /\ events' = events
    BY <1>4 DEF Timeout
  <2>2. OfferInv'
    BY <1>1, <1>3, <2>1, OfferedHere DEF OfferInv, CheckComing
  <2>3. TimerInv'
    BY <1>1, <1>2, <1>4, <2>1 DEF ForgottenInv, TimerInv, TimerAt, Is
  <2> QED BY <2>2, <2>3 DEF ForgottenInv
<1>5. CASE link[l] = "UNAVAILABLE"
  <2>1. Cancel(l, Bundle)
    BY <1>5 DEF Timeout
  <2>2. /\ More(Other) /\ queue'[l] = <<>>
        /\ \A k \in Link \ {l} : queue'[k] = queue[k] /\ inflight'[k] = inflight[k]
    BY <2>1, CancelQuiet
  <2>3. ASSUME NEW k \in Link PROVE CheckComing(k)' \/ Offered(State, k)'
    <3>1. CheckComing(k) => CheckComing(k)'
      BY <2>2, CheckStays
    <3>2. CASE k = l
      BY <1>1, <1>5, <3>2, StateNext DEF Offered
    <3>3. CASE k # l
      BY <1>1, <1>3, <2>2, <3>1, <3>3, OfferedHere
    <3> QED BY <3>2, <3>3
  <2>4. ASSUME NEW k \in Link PROVE TimerAt(k)'
    <3>1. CASE k = l
      BY <1>1, <1>5, <2>2, <3>1 DEF TimerAt
    <3>2. CASE k # l
      <4>1. Unheard(k) /\ timer'[k] = timer[k] /\ queue'[k] = queue[k]
        BY <1>1, <1>2, <2>2, <3>2, MoreUnheard
      <4> QED BY <1>1, <4>1, TimerStays DEF ForgottenInv
    <3> QED BY <3>1, <3>2
  <2> QED BY <2>3, <2>4 DEF ForgottenInv, OfferInv, TimerInv
<1> QED
  BY <1>4, <1>5

LEMMA ForgottenExpire ==
  ASSUME QueueInv, ForgottenInv, NEW b \in Bundle, NEW l \in Link, Expire(b, l)
  PROVE  ForgottenInv'
<1> DEFINE only == {b}
           r == RemoveFromDeferred(State, b)
<1>1. /\ Cancel(l, only) /\ deferred' = r.deferred /\ aside' = {p \in aside : p[1] # b}
      /\ link' = link /\ timer' = timer /\ open' = open
  BY DEF Expire
<1>2. \A k \in Link : Range(deferred'[k]) = Range(deferred[k]) \ {b}
  <2> DEFINE S == Bundle \ late
  <2>1. S \in SUBSET Bundle /\ Sound(State, S)
    BY DEF QueueInv
  <2> HIDE DEF S
  <2>2. \A k \in Link : Range(r.deferred[k]) = Range(State.deferred[k]) \ {b}
    BY <2>1, RemovedFacts
  <2> QED BY <1>1, <2>2, StateNow
<1> HIDE DEF r
<1>3. /\ More(Other)
      /\ \A k \in Link \ {l} : queue'[k] = queue[k] /\ inflight'[k] = inflight[k]
      /\ queue[l] = <<>> => queue'[l] = <<>>
      /\ On(State, b, l) => CheckComing(l)'
      /\ ~ On(State, b, l) => /\ queue'[l] = <<>> => queue[l] = <<>>
                              /\ inflight'[l] = <<>> => inflight[l] = <<>>
  <2>1. only \in SUBSET Bundle /\ b \in only /\ \A x \in only : x = b
    OBVIOUS
  <2> HIDE DEF only
  <2> QED BY <1>1, <2>1, CancelQuiet
<1>4. ASSUME NEW k \in Link PROVE CheckComing(k)' \/ Offered(State, k)'
  <2>1. CheckComing(k) \/ Offered(State, k)
    BY DEF ForgottenInv, OfferInv
  <2>2. CheckComing(k) => CheckComing(k)'
    BY <1>3, CheckStays
  <2>3. \A x \in Range(deferred'[k]) :
          x \in Range(deferred[k]) /\ (<<x, k>> \in aside => <<x, k>> \in aside')
    BY <1>1, <1>2
  <2>4. CASE k = l /\ On(State, b, l)
    BY <1>3, <2>4
  <2>5. CASE ~ (k = l /\ On(State, b, l))
    <3>1. (queue'[k] = <<>> => queue[k] = <<>>) /\ (inflight'[k] = <<>> => inflight[k] = <<>>)
      BY <1>3, <2>5
    <3> QED BY <1>1, <2>1, <2>2, <2>3, <3>1, OfferedHere
  <2> QED BY <2>4, <2>5
<1>5. ASSUME NEW k \in Link PROVE TimerAt(k)'
  BY <1>1, <1>3, MoreUnheard, TimerStays DEF ForgottenInv
<1> QED
  BY <1>4, <1>5 DEF ForgottenInv, OfferInv, TimerInv

LEMMA ForgottenSend ==
  ASSUME QueueInv, ForgottenInv, NEW l \in Link, Send(l)
  PROVE  ForgottenInv'
<1> DEFINE b == Head(queue[l])
           f == Append(inflight[l], b)
<1>1. /\ link[l] = "OPEN" /\ queue[l] # <<>>
      /\ queue' = [queue EXCEPT ![l] = Tail(queue[l])] /\ inflight' = [inflight EXCEPT ![l] = f]
      /\ deferred' = deferred /\ aside' = aside /\ timer' = timer /\ link' = link
      /\ open' = open /\ events' = events
  BY DEF Send, routerVars
<1>2. queue \in [Link -> Seq(Bundle)] /\ inflight \in [Link -> Seq(Bundle)]
  BY StateFields, StateNow DEF QueueInv, Sound
<1>3. f # <<>>
  <2>1. b \in Bundle
    BY <1>1, <1>2, TailFacts
  <2> HIDE DEF b
  <2> QED BY <1>2, <2>1, AppendFacts
<1> HIDE DEF f
<1>4. /\ \A k \in Link \ {l} : queue'[k] = queue[k] /\ inflight'[k] = inflight[k]
      /\ inflight'[l] # <<>>
  BY <1>1, <1>2, <1>3
<1>5. More(Other)
  BY <1>1 DEF More
<1>6. ASSUME NEW k \in Link PROVE CheckComing(k)' \/ Offered(State, k)'
  <2>1. CheckComing(k) \/ Offered(State, k)
    BY DEF ForgottenInv, OfferInv
  <2>2. CheckComing(k) => CheckComing(k)'
    BY <1>5, CheckStays
  <2>3. CASE k = l
    BY <1>4, <2>3, StateNext DEF Offered
  <2>4. CASE k # l
    BY <1>1, <1>4, <2>1, <2>2, <2>4, OfferedHere
  <2> QED BY <2>3, <2>4
<1>7. ASSUME NEW k \in Link PROVE TimerAt(k)'
  <2>1. link[k] # "OPEN" /\ queue[k] = <<>> => queue'[k] = <<>>
    BY <1>1, <1>4
  <2> QED BY <1>1, <1>5, <2>1, MoreUnheard, TimerStays DEF ForgottenInv
<1> QED
  BY <1>6, <1>7 DEF ForgottenInv, OfferInv, TimerInv

\* A link that was opened, broken or deleted says so.
LEMMA ForgottenContact ==
  ASSUME QueueInv, ForgottenInv, NEW l \in Link,
         NEW kind \in {"contact_up", "contact_down", "deleted"}, Post(OfLink(kind, l)),
         link'[l] = "OPEN" <=> kind = "contact_up",
         kind = "contact_down" => link[l] = "OPEN",
         kind = "deleted" => queue[l] = <<>>,
         \A k \in Link \ {l} : link'[k] = link[k],
         deferred' = deferred, queue' = queue, inflight' = inflight, aside' = aside,
         timer' = timer, open' = open
  PROVE  ForgottenInv'
<1> DEFINE e == OfLink(kind, l)
<1>1. /\ e \in Events /\ e.kind = kind /\ e.link = l /\ Post(e)
  BY EventTypes, EventFields DEF LinkKind
<1> HIDE DEF e
<1>2. \A i \in DOMAIN events : i \in DOMAIN events' /\ events'[i] = events[i]
  BY <1>1, PostFacts DEF QueueInv
<1>3. PICK n \in DOMAIN events' : /\ n \notin DOMAIN events /\ events'[n] = e
                                  /\ \A i \in DOMAIN events' : i \in DOMAIN events \/ i = n
                                  /\ \A i \in DOMAIN events : i < n
  BY <1>1, PostFacts DEF QueueInv
<1>4. \A kinds : Is(n, kinds, l)' <=> kind \in kinds
  BY <1>1, <1>3 DEF Is
<1>5. ASSUME NEW k \in Link PROVE CheckComing(k)' \/ Offered(State, k)'
  <2>1. CheckComing(k) \/ Offered(State, k)
    BY DEF ForgottenInv, OfferInv
  <2>2. CheckComing(k) => CheckComing(k)'
    BY <1>2 DEF CheckComing
  <2>3. CASE k # l
    BY <2>1, <2>2, <2>3, OfferedHere
  <2>4. CASE k = l /\ kind = "contact_up"
    BY <1>1, <1>3, <2>4 DEF CheckComing, Checking
  <2>5. CASE k = l /\ kind # "contact_up"
    BY <2>5, StateNext DEF Offered
  <2> QED BY <2>3, <2>4, <2>5
<1>6. ASSUME NEW k \in Link PROVE TimerAt(k)'
  <2>1. CASE k # l
    <3>1. Unheard(k)
      BY <1>1, <1>2, <1>3, <2>1 DEF Unheard, Is
    <3> QED BY <2>1, <3>1, TimerStays DEF ForgottenInv
  <2>2. CASE k = l
    <3> SUFFICES TimerAt(l)'
      BY <2>2
    <3>1. TimerAt(l)
      BY DEF ForgottenInv, TimerInv
    <3>2. \A kinds : \A i \in DOMAIN events : Is(i, kinds, l) => Is(i, kinds, l)'
      BY <1>2 DEF Is
    <3>3. CASE kind = "contact_up"
      BY <1>3, <1>4, <3>3 DEF TimerAt
    <3>4. CASE kind = "contact_down"
      <4>1. \A i \in DOMAIN events' : Is(i, {"contact_up", "deleted"}, l)' => i < n
        BY <1>3, <1>4, <3>4
      <4>2. Is(n, {"contact_down"}, l)'
        BY <1>4, <3>4
      <4>3. timer[l] = "fired" => \E i \in DOMAIN events : Is(i, {"contact_up"}, l)
        BY <3>1, <3>4 DEF TimerAt
      <4> QED BY <1>2, <1>3, <3>2, <4>1, <4>2, <4>3 DEF TimerAt
    <3>5. CASE kind = "deleted"
      BY <3>5 DEF TimerAt
    <3> QED BY <3>3, <3>4, <3>5
  <2> QED BY <2>1, <2>2
<1> QED
  BY <1>5, <1>6 DEF ForgottenInv, OfferInv, TimerInv

LEMMA PostedMore ==
  ASSUME QueueInv, NEW e \in Events, e.kind \in Other, Post(e)
  PROVE  More(Other) /\ \A l \in Link : Checking(e, l) => CheckComing(l)'
<1>1. \A i \in DOMAIN events : i \in DOMAIN events' /\ events'[i] = events[i]
  BY PostFacts DEF QueueInv
<1>2. PICK n \in DOMAIN events' : /\ events'[n] = e
                                  /\ \A i \in DOMAIN events' : i \in DOMAIN events \/ i = n
  BY PostFacts DEF QueueInv
<1> QED
  BY <1>1, <1>2 DEF More, CheckComing

LEMMA ForgottenLinkStep ==
  ASSUME QueueInv, ForgottenInv, NEW l \in Link, LinkStep(l)
  PROVE  ForgottenInv'
<1>1. /\ deferred' = deferred /\ queue' = queue /\ inflight' = inflight /\ aside' = aside
      /\ timer' = timer /\ open' = open
  BY DEF LinkStep, routerVars
<1>2. link \in [Link -> LinkState] /\ open \subseteq Planned
  BY StateFields, StateNow DEF QueueInv, Sound, Typed
<1>3. PICK to \in LinkState :
        /\ link' = [link EXCEPT ![l] = to]
        /\ \/ \E kind \in {"created", "available"} :
                link[l] # "OPEN" /\ to # "OPEN" /\ Post(OfLink(kind, l))
           \/ link[l] # "OPEN" /\ to # "OPEN" /\ events' = events
           \/ to = "OPEN" /\ Post(OfLink("contact_up", l))
           \/ link[l] = "OPEN" /\ to # "OPEN" /\ Post(OfLink("contact_down", l))
           \/ queue[l] = <<>> /\ to # "OPEN" /\ Post(OfLink("deleted", l))
  BY DEF LinkStep, SetLink, LinkState
<1>4. link'[l] = to /\ \A k \in Link \ {l} : link'[k] = link[k]
  BY <1>2, <1>3
<1>5. ASSUME link[l] # "OPEN", to # "OPEN", More(Other) PROVE ForgottenInv'
  <2>1. \A k \in Link : link'[k] = "OPEN" <=> link[k] = "OPEN"
    BY <1>4, <1>5
  <2> QED BY <1>1, <1>2, <1>5, <2>1, ForgottenPosted
<1>6. ASSUME NEW kind \in {"created", "available"}, link[l] # "OPEN", to # "OPEN",
             Post(OfLink(kind, l))
      PROVE  ForgottenInv'
  <2> DEFINE e == OfLink(kind, l)
  <2>1. e \in Events /\ e.kind \in Other /\ Post(e)
    BY <1>6, EventTypes, EventFields DEF LinkKind, Other
  <2> HIDE DEF e
  <2>2. More(Other)
    BY <2>1, PostedMore
  <2> QED BY <1>5, <1>6, <2>2
<1>7. CASE link[l] # "OPEN" /\ to # "OPEN" /\ events' = events
  BY <1>5, <1>7 DEF More
<1>8. CASE to = "OPEN" /\ Post(OfLink("contact_up", l))
  BY <1>1, <1>4, <1>8, ForgottenContact
<1>9. CASE link[l] = "OPEN" /\ to # "OPEN" /\ Post(OfLink("contact_down", l))
  BY <1>1, <1>4, <1>9, ForgottenContact
<1>10. CASE queue[l] = <<>> /\ to # "OPEN" /\ Post(OfLink("deleted", l))
  BY <1>1, <1>4, <1>10, ForgottenContact
<1> QED
  BY <1>3, <1>6, <1>7, <1>8, <1>9, <1>10

LEMMA ForgottenOutside ==
  ASSUME QueueInv, ForgottenInv,
         \/ \E b \in Bundle : Receive(b)
         \/ \E b \in Bundle, l \in Link :
              CustodyLate(b, l) \/ Report(l, b, "transmitted") \/ Report(l, b, "failed")
         \/ \E n \in Planned : ContactBegins(n) \/ ContactEnds(n)
         \/ RouteChange
  PROVE  ForgottenInv'
<1>1. /\ deferred' = deferred /\ queue' = queue /\ inflight' = inflight /\ aside' = aside
      /\ timer' = timer /\ link' = link
  BY DEF Receive, CustodyLate, Report, ContactBegins, ContactEnds, RouteChange, routerVars
<1>2. /\ routes \subseteq Link /\ listed \subseteq Link /\ open \subseteq Planned
      /\ \A n \in Planned : n \in Node
      /\ \A l \in Link : Remote[l] \in Node
  <2>1. routes \subseteq Link /\ listed \subseteq Link /\ open \subseteq Planned
    BY StateFields, StateNow DEF QueueInv, Sound, Typed
  <2> QED BY <2>1, RouterAssumption DEF RouterAssumption, Node, Range
<1>3. ASSUME More(Other), open' \subseteq Planned,
             \A l \in Link : Remote[l] \in open' \ open => CheckComing(l)'
      PROVE  ForgottenInv'
  BY <1>1, <1>3, ForgottenPosted
<1>4. ASSUME NEW e \in Events, e.kind \in Other, Post(e), open' = open PROVE ForgottenInv'
  BY <1>2, <1>3, <1>4, PostedMore
<1>5. ASSUME NEW b \in Bundle, Receive(b) PROVE ForgottenInv'
  <2> DEFINE e == OfBundle("received", b, 0)
  <2>1. e \in Events /\ e.kind \in Other /\ Post(e) /\ open' = open
    BY <1>5, EventTypes, EventFields DEF Receive, Other
  <2> HIDE DEF e
  <2> QED BY <1>4, <2>1
<1>6. ASSUME NEW b \in Bundle, NEW l \in Link,
             NEW kind \in {"custody_timeout", "transmitted", "failed"},
             Post(OfBundle(kind, b, l)), open' = open
      PROVE  ForgottenInv'
  <2> DEFINE e == OfBundle(kind, b, l)
  <2>1. e \in Events /\ e.kind \in Other /\ Post(e)
    BY <1>6, EventTypes, EventFields DEF BundleKind, Other
  <2> HIDE DEF e
  <2> QED BY <1>4, <1>6, <2>1
<1>7. ASSUME NEW b \in Bundle, NEW l \in Link,
             CustodyLate(b, l) \/ Report(l, b, "transmitted") \/ Report(l, b, "failed")
      PROVE  ForgottenInv'
  BY <1>6, <1>7 DEF CustodyLate, Report
<1>8. ASSUME NEW n \in Planned, ContactBegins(n) PROVE ForgottenInv'
  <2> DEFINE e == OfNode("plan_up", n)
  <2>1. e \in Events /\ e.kind \in Other /\ Post(e) /\ e.kind = "plan_up" /\ e.node = n
    BY <1>2, <1>8, EventTypes, EventFields DEF ContactBegins, Other
  <2> HIDE DEF e
  <2>2. \A l \in Link : Remote[l] \in open' \ open => Checking(e, l)
    BY <1>8, <2>1 DEF ContactBegins, Checking
  <2>3. More(Other) /\ \A l \in Link : Checking(e, l) => CheckComing(l)'
    BY <2>1, PostedMore
  <2>4. open' \subseteq Planned
    BY <1>2, <1>8 DEF ContactBegins
  <2> QED BY <1>3, <2>2, <2>3, <2>4
<1>9. ASSUME NEW n \in Planned, ContactEnds(n) PROVE ForgottenInv'
  <2>1. open' \subseteq open /\ More(Other)
    BY <1>9 DEF ContactEnds, More
  <2> QED BY <1>2, <1>3, <2>1
<1>10. ASSUME RouteChange PROVE ForgottenInv'
  <2>1. PICK e : /\ \/ \E l \in listed : e = OfLink("route_add", l)
                    \/ \E l \in routes : e = OfNode("route_del", Remote[l])
                 /\ Post(e)
    BY <1>10 DEF RouteChange
  <2>2. ASSUME NEW l \in Link
        PROVE  /\ OfLink("route_add", l) \in Events /\ OfLink("route_add", l).kind \in Other
               /\ OfNode("route_del", Remote[l]) \in Events
               /\ OfNode("route_del", Remote[l]).kind \in Other
    BY <1>2, EventTypes, EventFields DEF LinkKind, Other
  <2>3. e \in Events /\ e.kind \in Other
    BY <1>2, <2>1, <2>2
  <2>4. open' = open
    BY <1>10 DEF RouteChange
  <2> QED BY <1>4, <2>1, <2>3, <2>4
<1> QED
  BY <1>5, <1>7, <1>8, <1>9, <1>10

LEMMA StepForgotten == QueueInv /\ ForgottenInv /\ [Next]_vars => ForgottenInv'
<1> SUFFICES ASSUME QueueInv, ForgottenInv, [Next]_vars PROVE ForgottenInv'
  OBVIOUS
<1>1. CASE HandleEvent
  <2>1. CASE HandleBundleReceived BY <2>1, ForgottenReceived
  <2>2. CASE HandleBundleTransmitted BY <2>2, ForgottenTransmitted
  <2>3. CASE HandleTransmissionFailed BY <2>3, ForgottenFailed
  <2>4. CASE HandleBundleCancelled BY <2>4, ForgottenCancelled
  <2>5. CASE HandleCustodyTimeout BY <2>5, ForgottenCustodyTimeout
  <2>6. CASE LinkEvent BY <2>6, ForgottenLink
  <2>7. CASE HandleContactDown \/ HandleRouteDel BY <2>7, ForgottenQuiet
  <2>8. CASE HandleLinkDeleted BY <2>8, ForgottenDeletedLink
  <2> QED BY <1>1, <2>1, <2>2, <2>3, <2>4, <2>5, <2>6, <2>7, <2>8 DEF HandleEvent, LinkEvent
<1>2. ASSUME NEW l \in Link, Timeout(l) PROVE ForgottenInv'
  BY <1>2, ForgottenTimeout
<1>3. ASSUME NEW l \in Link, Send(l) PROVE ForgottenInv'
  BY <1>3, ForgottenSend
<1>4. ASSUME NEW b \in Bundle, NEW l \in Link, Expire(b, l) PROVE ForgottenInv'
  BY <1>4, ForgottenExpire
<1>5. ASSUME NEW l \in Link, LinkStep(l) PROVE ForgottenInv'
  BY <1>5, ForgottenLinkStep
<1>6. CASE \/ \E b \in Bundle : Receive(b)
           \/ \E b \in Bundle, l \in Link :
                CustodyLate(b, l) \/ Report(l, b, "transmitted") \/ Report(l, b, "failed")
           \/ \E n \in Planned : ContactBegins(n) \/ ContactEnds(n)
           \/ RouteChange
  BY <1>6, ForgottenOutside
<1>7. CASE UNCHANGED vars
  <2>1. More(Other) /\ open' \subseteq Planned
    BY <1>7 DEF vars, More, QueueInv, Typed
  <2> QED BY <1>7, <2>1, ForgottenPosted DEF vars
<1> QED
  BY <1>1, <1>2, <1>3, <1>4, <1>5, <1>6, <1>7 DEF Next

\* No bundle is forgotten on its way: while nothing more is heard of a link that is open and
\* has nothing to send, no bundle waits that it was offered and may send; and the queue of a
\* link that is down has a timer that will give it to another link, or one that fired while
\* the link was neither open nor down.
THEOREM RouterNoneForgotten == Spec => []NoneForgotten
<1>1. Init => ForgottenInv
  <2> SUFFICES ASSUME Init PROVE ForgottenInv
    OBVIOUS
  <2>1. Range(<<>>) = {}
    BY DEF Range
  <2>2. OfferInv
    BY <2>1, StateNow DEF Init, OfferInv, Offered
  <2>3. TimerInv
    BY DEF Init, TimerInv, TimerAt
  <2> QED BY <2>2, <2>3 DEF ForgottenInv
<1>2. QueueInv /\ ForgottenInv => NoneForgotten
  <2> SUFFICES ASSUME QueueInv, ForgottenInv, NEW l \in Link
               PROVE  /\ Idle(l) => \A b \in Range(deferred[l]) :
                                      ShouldFwd(State, b, l) => <<b, l>> \in aside
                      /\ link[l] = "UNAVAILABLE" /\ queue[l] # <<>> /\ ~ Coming(l) =>
                           timer[l] \in {"pending", "missed"}
    BY DEF NoneForgotten, NoneStuckOnceOffered, Armed
  <2>1. ~ Coming(l) => ~ CheckComing(l)
    BY DEF Coming, CheckComing, Checking
  <2>2. CheckComing(l) \/ Offered(State, l)
    BY DEF ForgottenInv, OfferInv
  <2>3. Idle(l) => \A b \in Range(deferred[l]) : <<b, l>> \in aside
    BY <2>1, <2>2, StateNow DEF Idle, Ready, Offered
  <2>4. link[l] = "UNAVAILABLE" /\ queue[l] # <<>> /\ ~ Coming(l) => timer[l] \in {"pending", "missed"}
    BY DEF ForgottenInv, TimerInv, TimerAt, Coming, Is
  <2> QED BY <2>3, <2>4
<1> QED
  BY <1>1, <1>2, QueueInvariant, StepForgotten, PTL DEF Spec

=============================================================================
