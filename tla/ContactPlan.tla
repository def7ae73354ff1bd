---------------------------- MODULE ContactPlan ----------------------------
(***************************************************************************)
(* The contact plan of a Unibo-CGR instance: the contacts graph            *)
(* (contacts.c), the ranges graph (ranges.c) and the operations by which   *)
(* UniboCGR.c lets the bundle protocol agent change them, together with    *)
(* the two clocks every stored time depends on (current_time and           *)
(* reference_time of struct UniboCGRSAP).                                  *)
(*                                                                         *)
(* A call that the code refuses (an overlap, an entry not found, an        *)
(* invalid argument) leaves the plan as it was and is a step the actions   *)
(* below do not take.  Sessions are added by module UniboCGR.              *)
(***************************************************************************)
EXTENDS Timetable

CONSTANTS ContactLink,    \* the <<sender, receiver>> pairs contacts are offered for
          RangeLink,      \* ... and ranges
          PlanTime,       \* the times, in Unix time, of the contacts and ranges offered
          ClockTime,      \* the times at which the agent opens a session
          RefTime,        \* the reference times the agent may change to
          Lapses          \* what the agent does in spite of the documentation

(***************************************************************************)
(* UniboCGR.h asks of the agent that the intervals of a pair of nodes do   *)
(* not overlap, and a contact or a range is meant to last.  The lapses:    *)
(*   "enclosing"  an entry offered strictly encloses an existing one       *)
(*   "empty"      an entry is given an interval without duration           *)
(*   "hidden"     the reference time, or a start time, is chosen so that   *)
(*                an entry starts before the reference time                *)
(***************************************************************************)
ASSUME ContactPlanAssumption ==
  /\ ContactLink \subseteq Node \X Node /\ RangeLink \subseteq Node \X Node
  /\ PlanTime \subseteq Int /\ ClockTime \subseteq Int /\ RefTime \subseteq Nat
  /\ Lapses \subseteq {"enclosing", "empty", "hidden"}

VARIABLES contacts,             \* ContactSAP.contacts
          timeContactToRemove,  \* ContactSAP.timeContactToRemove
          ranges,               \* RangeSAP.ranges
          timeRangeToRemove,    \* RangeSAP.timeRangeToRemove
          currentTime,          \* UniboCGRSAP.current_time, relative
          referenceTime         \* UniboCGRSAP.reference_time, Unix time

contactVars == <<contacts, timeContactToRemove>>
rangeVars == <<ranges, timeRangeToRemove>>
clockVars == <<currentTime, referenceTime>>
planVars == <<contactVars, rangeVars, clockVars>>

\* Types.  No interval ends before it starts, whatever the agent does: the volume of a
\* contact is computed from toTime - fromTime cast to an unsigned type (contacts.c:873).
PlanTypeOK ==
  /\ contacts \subseteq Entry /\ ranges \subseteq Entry
  /\ \A e \in contacts \cup ranges : e.fromTime <= e.toTime
  /\ timeContactToRemove \in Int /\ timeRangeToRemove \in Int
  /\ currentTime \in Int /\ referenceTime \in Nat

-----------------------------------------------------------------------------
\* UniboCGR_open; time_zero is not after the current time.
PlanInit ==
  /\ contacts = {} /\ timeContactToRemove = MaxPosixTime
  /\ ranges = {} /\ timeRangeToRemove = MaxPosixTime
  /\ referenceTime \in RefTime
  /\ \E time \in ClockTime : referenceTime <= time /\ currentTime = time - referenceTime

\* An entry offered by the agent, and whether offering it is a lapse.
Offered(f, t, start, end) ==
  [fromNode |-> f, toNode |-> t,
   fromTime |-> start - referenceTime, toTime |-> end - referenceTime]

Encloses(a, b) ==
  SamePair(a, b) /\ a.fromTime < b.fromTime /\ b.toTime < a.toTime

OfferAllowed(es, new) ==
  /\ "enclosing" \in Lapses \/ \A e \in es : ~ Encloses(new, e)
  /\ "empty" \in Lapses \/ new.fromTime # new.toTime

RevisionAllowed(new) ==
  /\ "empty" \in Lapses \/ new.fromTime # new.toTime
  /\ "hidden" \in Lapses \/ new.fromTime >= 0

-----------------------------------------------------------------------------
(* Contacts *)

\* UniboCGR_contact_plan_add_contact: a contact already over is ignored.
AddContact(f, t, start, end) ==
  LET new == Offered(f, t, start, end) IN
  /\ OfferAllowed(contacts, new)
  /\ new.toTime > currentTime
  /\ Accepted(contacts, new)
  /\ contacts' = contacts \cup {new}
  /\ timeContactToRemove' = Min({timeContactToRemove, new.toTime})
  /\ UNCHANGED <<rangeVars, clockVars>>

\* UniboCGR_contact_plan_change_contact_start_time
ChangeContactStart(f, t, start, newStart) ==
  \E c \in Found(contacts, f, t, start - referenceTime) :
    LET revised == [c EXCEPT !.fromTime = newStart - referenceTime] IN
    /\ RevisionAllowed(revised)
    /\ StartRevisable(contacts, c, revised.fromTime)
    /\ contacts' = Replace(contacts, c, revised)
    /\ UNCHANGED <<timeContactToRemove, rangeVars, clockVars>>

\* UniboCGR_contact_plan_change_contact_end_time, the new end not being over yet.
ChangeContactEnd(f, t, start, newEnd) ==
  \E c \in Found(contacts, f, t, start - referenceTime) :
    LET revised == [c EXCEPT !.toTime = newEnd - referenceTime] IN
    /\ RevisionAllowed(revised)
    /\ revised.toTime > currentTime
    /\ EndRevisable(contacts, c, revised.toTime)
    /\ contacts' = Replace(contacts, c, revised)
    /\ timeContactToRemove' = Min({timeContactToRemove, revised.toTime})
    /\ UNCHANGED <<rangeVars, clockVars>>

\* remove_contact_from_graph: rbt_delete of the key, of whatever sign the start time is.
\* UniboCGR_contact_plan_remove_contact, and a new end time that is already over.
RemoveContact(f, t, start) ==
  \E c \in contacts :
    /\ c.fromNode = f /\ c.toNode = t /\ c.fromTime = start - referenceTime
    /\ contacts' = contacts \ {c}
    /\ UNCHANGED <<timeContactToRemove, rangeVars, clockVars>>

-----------------------------------------------------------------------------
(* Ranges *)

\* add_range_to_graph takes the end time 0 for "no end".
RangeEnd(toTime) == IF toTime = 0 THEN MaxPosixTime ELSE toTime

\* UniboCGR_contact_plan_add_range
AddRange(f, t, start, end) ==
  LET offered == Offered(f, t, start, end)
      new == [offered EXCEPT !.toTime = RangeEnd(@)]
  IN
  /\ OfferAllowed(ranges, new)
  /\ offered.toTime > currentTime
  /\ Accepted(ranges, new)
  /\ ranges' = ranges \cup {new}
  /\ timeRangeToRemove' = Min({timeRangeToRemove, new.toTime})
  /\ UNCHANGED <<contactVars, clockVars>>

\* UniboCGR_contact_plan_change_range_start_time
ChangeRangeStart(f, t, start, newStart) ==
  \E r \in Found(ranges, f, t, start - referenceTime) :
    LET revised == [r EXCEPT !.fromTime = newStart - referenceTime] IN
    /\ RevisionAllowed(revised)
    /\ StartRevisable(ranges, r, revised.fromTime)
    /\ ranges' = Replace(ranges, r, revised)
    /\ UNCHANGED <<timeRangeToRemove, contactVars, clockVars>>

\* UniboCGR_contact_plan_change_range_end_time, the new end not being over yet.
ChangeRangeEnd(f, t, start, newEnd) ==
  \E r \in Found(ranges, f, t, start - referenceTime) :
    LET revised == [r EXCEPT !.toTime = newEnd - referenceTime] IN
    /\ RevisionAllowed(revised)
    /\ revised.toTime > currentTime
    /\ EndRevisable(ranges, r, revised.toTime)
    /\ ranges' = Replace(ranges, r, revised)
    /\ timeRangeToRemove' = Min({timeRangeToRemove, revised.toTime})
    /\ UNCHANGED <<contactVars, clockVars>>

\* UniboCGR_contact_plan_remove_range, and a new end time that is already over.
RemoveRange(f, t, start) ==
  \E r \in ranges :
    /\ r.fromNode = f /\ r.toNode = t /\ r.fromTime = start - referenceTime
    /\ ranges' = ranges \ {r}
    /\ UNCHANGED <<timeRangeToRemove, contactVars, clockVars>>

-----------------------------------------------------------------------------
(* The whole plan, and time *)

\* UniboCGR_contact_plan_reset
ResetPlan ==
  /\ contacts' = {} /\ timeContactToRemove' = MaxPosixTime
  /\ ranges' = {} /\ timeRangeToRemove' = MaxPosixTime
  /\ UNCHANGED clockVars

\* UniboCGR_set_current_time: the agent passes any time, later or earlier.
SetCurrentTime(time) ==
  /\ currentTime' = time - referenceTime
  /\ UNCHANGED <<contactVars, rangeVars, referenceTime>>

\* removeExpiredContacts
RemoveExpiredContacts ==
  IF currentTime >= timeContactToRemove
  THEN /\ \E gone \in Victims(contacts, currentTime) : contacts' = contacts \ gone
       /\ timeContactToRemove' = NextExpiry(contacts \ Expired(contacts, currentTime))
  ELSE UNCHANGED contactVars

\* removeExpiredRanges
RemoveExpiredRanges ==
  IF currentTime >= timeRangeToRemove
  THEN /\ \E gone \in Victims(ranges, currentTime) : ranges' = ranges \ gone
       /\ timeRangeToRemove' = NextExpiry(ranges \ Expired(ranges, currentTime))
  ELSE UNCHANGED rangeVars

\* The sweep getBestRoutes makes before it looks for a route.
Sweep ==
  /\ RemoveExpiredContacts
  /\ RemoveExpiredRanges
  /\ UNCHANGED clockVars

\* UniboCGR_feature_change_reference_time
ChangeReferenceTime(reference) ==
  LET diff == reference - referenceTime IN
  /\ currentTime - diff >= 0
  /\ "hidden" \in Lapses \/ \A e \in contacts \cup ranges : e.fromTime - diff >= 0
  /\ currentTime' = currentTime - diff
  /\ referenceTime' = reference
  /\ contacts' = Shift(contacts, diff)
  /\ timeContactToRemove' = NextExpiry(Shift(contacts, diff))
  /\ ranges' = Shift(ranges, diff)
  /\ timeRangeToRemove' = NextExpiry(Shift(ranges, diff))

-----------------------------------------------------------------------------
ContactNext ==
  \E link \in ContactLink, start, time \in PlanTime :
    \/ AddContact(link[1], link[2], start, time)
    \/ ChangeContactStart(link[1], link[2], start, time)
    \/ ChangeContactEnd(link[1], link[2], start, time)
    \/ RemoveContact(link[1], link[2], start)

RangeNext ==
  \E link \in RangeLink, start, time \in PlanTime :
    \/ AddRange(link[1], link[2], start, time)
    \/ ChangeRangeStart(link[1], link[2], start, time)
    \/ ChangeRangeEnd(link[1], link[2], start, time)
    \/ RemoveRange(link[1], link[2], start)

PlanNext ==
  \/ ContactNext
  \/ RangeNext
  \/ ResetPlan
  \/ Sweep
  \/ \E time \in ClockTime : SetCurrentTime(time)
  \/ \E reference \in RefTime : ChangeReferenceTime(reference)

PlanSpec == PlanInit /\ [][PlanNext]_planVars

-----------------------------------------------------------------------------
(* What the plan promises *)

\* No two contacts, and no two ranges, of the same pair of nodes overlap in time: what the
\* -1 of add_contact_to_graph and the -3 of the revise functions are there to preserve.
NoOverlap == Disjoint(contacts) /\ Disjoint(ranges)

\* The agent names an entry by sender, receiver and start time (UniboCGR.h).  That name
\* finds every entry of the plan, and no other one.
Addressable == AllFound(contacts) /\ AllFound(ranges)

\* The cached bounds never hide an expiry: a sweep is skipped only when nothing expired.
\* remove_contact, change_end and the revisions leave the bounds behind the plan.
ExpiryBound ==
  /\ \A c \in contacts : timeContactToRemove <= c.toTime
  /\ \A r \in ranges : timeRangeToRemove <= r.toTime

\* A sweep removes the contacts and the ranges that are over, and nothing else, although it
\* may be skipped on the bounds and deletes by key.
SweepExact ==
  [][Sweep => /\ contacts' = {c \in contacts : c.toTime > currentTime}
              /\ ranges' = {r \in ranges : r.toTime > currentTime}]_planVars
-----------------------------------------------------------------------------
(* The agent's view *)

Unix(es, reference) ==
  {[e EXCEPT !.fromTime = @ + reference, !.toTime = @ + reference] : e \in es}

Agent == INSTANCE AgentPlan WITH
  contactPlan <- Unix(contacts, referenceTime),
  rangePlan <- Unix(ranges, referenceTime),
  now <- currentTime + referenceTime

\* "Internally all times are relative to this quantity, but this is transparent for the
\* external user" (UniboCGR.h): changing the reference time is a stuttering step, and every
\* other operation does to the plan in Unix time what the agent asked for.
AgentView == Agent!Spec

=============================================================================
