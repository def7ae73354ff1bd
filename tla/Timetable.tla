----------------------------- MODULE Timetable -----------------------------
(***************************************************************************)
(* What core/contact_plan/contacts/contacts.c and .../ranges/ranges.c have *)
(* in common.  Both files keep, in a red-black tree ordered by             *)
(* <<fromNode, toNode, fromTime>>, entries that are valid from fromTime to *)
(* toTime, refuse an entry that overlaps another one of the same pair of   *)
(* nodes, and remember a lower bound of the times at which the next entry  *)
(* expires.                                                                *)
(*                                                                         *)
(* A tree is modelled by the set of its entries.  The in-order position of *)
(* an entry is decided by its key, so this is exact as long as no two      *)
(* entries of the tree compare equal.  Where two do, the code takes one    *)
(* that depends on the shape of the tree and the model takes any of them.  *)
(***************************************************************************)
EXTENDS Integers, FiniteSetsExt, Functions

CONSTANTS Node,           \* node numbers; 0 is not a node
          MaxPosixTime    \* MAX_POSIX_TIME, "never"

ASSUME TimetableAssumption == Node \subseteq Nat \ {0} /\ MaxPosixTime \in Nat

\* Times are relative to the reference time of the instance and may be negative.
Entry == [fromNode : Node, toNode : Node, fromTime : Int, toTime : Int]

SamePair(a, b) == a.fromNode = b.fromNode /\ a.toNode = b.toNode

\* compare_contacts(a, b) == 0
SameKey(a, b) == SamePair(a, b) /\ a.fromTime = b.fromTime

-----------------------------------------------------------------------------
(* Searching *)

\* get_contact: an entry with this key; a negative start time is an invalid argument.
Found(es, f, t, s) ==
  {e \in es : s >= 0 /\ e.fromNode = f /\ e.toNode = t /\ e.fromTime = s}

\* The entries met by a walk that starts at get_first_contact_from_node_to_node, which
\* takes the successor of the key <<f, t, -1>>: none if that very key is in the tree.
VisibleFromTo(es, f, t) ==
  LET pair == {e \in es : e.fromNode = f /\ e.toNode = t}
  IN  {e \in pair : e.fromTime >= 0 /\ \A d \in pair : d.fromTime # -1}

-----------------------------------------------------------------------------
(* Adding *)

\* Wrong on purpose, to see that a run notices: an entry that starts in a gap and ends
\* inside another one.
OverlapsAtStart(new, e) ==
  \/ new.fromTime = e.fromTime /\ new.toTime = e.toTime
  \/ e.fromTime <= new.fromTime /\ new.fromTime < e.toTime

\* The tests of the loop of add_contact_to_graph for an entry of the same pair.
Overlaps(new, e) ==
  \/ new.fromTime = e.fromTime /\ new.toTime = e.toTime
  \/ e.fromTime <= new.fromTime /\ new.fromTime < e.toTime
  \/ e.fromTime < new.toTime /\ new.toTime <= e.toTime

\* add_contact_to_graph and add_range_to_graph insert new.
Accepted(es, new) ==
  /\ 0 <= new.fromTime /\ new.fromTime <= new.toTime
  /\ \A e \in VisibleFromTo(es, new.fromNode, new.toNode) : ~ Overlaps(new, e)

-----------------------------------------------------------------------------
(* Revising *)

\* The in-order neighbours of e in the tree, when they are entries of the same pair.
Previous(es, e) ==
  LET before == {d \in es \ {e} : SamePair(d, e) /\ d.fromTime <= e.fromTime}
  IN  {d \in before : \A b \in before : b.fromTime <= d.fromTime}

Following(es, e) ==
  LET after == {d \in es \ {e} : SamePair(d, e) /\ d.fromTime >= e.fromTime}
  IN  {d \in after : \A a \in after : a.fromTime >= d.fromTime}

\* Wrong on purpose: the previous contact is not looked at.
StartRevisableAlone(es, e, start) == start <= e.toTime

\* revise_contact_start_time succeeds.
StartRevisable(es, e, start) ==
  /\ start <= e.toTime
  /\ \A p \in Previous(es, e) : p.toTime <= start

\* Wrong on purpose: the new end is not compared with the start.
EndRevisableBefore(es, e, end) == \A n \in Following(es, e) : end <= n.fromTime

\* revise_contact_end_time succeeds.
EndRevisable(es, e, end) ==
  /\ e.fromTime <= end
  /\ \A n \in Following(es, e) : end <= n.fromTime

Replace(es, old, new) == (es \ {old}) \cup {new}

-----------------------------------------------------------------------------
(* Expiring *)

\* Wrong on purpose: an entry that ends now is kept.
ExpiredBefore(es, now) == {e \in es : e.toTime < now}

Expired(es, now) == {e \in es : e.toTime <= now}

\* Wrong on purpose: the next sweep is put off for ever.
NextExpiryNever(es) == MaxPosixTime

\* The expiry bound a sweep, or a change of the reference time, leaves behind.
NextExpiry(es) == Min({MaxPosixTime} \cup {e.toTime : e \in es})

\* rbt_delete looks the entry to delete up by its key: what a sweep removes is, for
\* each expired entry, one entry of the tree that compares equal to it.
Victims(es, now) ==
  {Range(v) : v \in {w \in Injection(Expired(es, now), es) :
                       \A e \in Expired(es, now) : SameKey(w[e], e)}}

\* Wrong on purpose: the end times stay in the old time base.
ShiftStarts(es, diff) == {[e EXCEPT !.fromTime = @ - diff] : e \in es}

\* ContactSAP_decrease_time
Shift(es, diff) ==
  {[e EXCEPT !.fromTime = @ - diff, !.toTime = @ - diff] : e \in es}

-----------------------------------------------------------------------------
(* What a timetable should satisfy *)

Disjoint(es) ==
  \A a, b \in es : SamePair(a, b) /\ a # b => a.toTime <= b.fromTime \/ b.toTime <= a.fromTime

AllFound(es) == \A e \in es : Found(es, e.fromNode, e.toNode, e.fromTime) = {e}

=============================================================================
