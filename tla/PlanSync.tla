------------------------------ MODULE PlanSync ------------------------------
(***************************************************************************)
(* How the DTNME interface (interface_unibocgr_dtn2.cc) keeps the contact  *)
(* plan of its Unibo-CGR instance equal to the lists of DTNME's            *)
(* ContactPlanManager.  Before a routing call update_contact_plan walks    *)
(* the instance's entries with the instance's own iterator, changes or     *)
(* removes those the list has otherwise or no more, starting over after    *)
(* each change, and then offers every entry of the list.  The manager is   *)
(* part of another program and goes on editing its lists meanwhile.        *)
(*                                                                         *)
(* The lists are in the manager's time, the plan in Unix time; TimeZero is *)
(* the difference.  An entry's value is the transmission rate of a contact *)
(* or the light time of a range.                                           *)
(***************************************************************************)
EXTENDS Timetable

CONSTANTS TimeZero,       \* ContactPlanManager::get_time_zero()
          ContactLists,   \* the lists of contacts the manager may hold
          RangeLists,     \* ... and of ranges
          ClockTime,      \* the times, in Unix time, of the routing calls
          MaxEdits        \* bound on the edits of the manager

Kind == {"contact", "range"}

Listed == [fromNode : Node, toNode : Node, fromTime : Nat, toTime : Nat, value : Nat]

\* UniboCGR.h wants the entries of a pair of nodes not to overlap.
ASSUME PlanSyncAssumption ==
  /\ TimeZero \in Nat /\ MaxEdits \in Nat /\ ClockTime \subseteq Nat
  /\ \A list \in ContactLists \cup RangeLists :
       /\ list \subseteq Listed /\ Disjoint(list)
       /\ \A e \in list : e.fromTime < e.toTime
  /\ {} \in ContactLists /\ {} \in RangeLists

VARIABLES lists,    \* the manager's contact list and range list
          edits,    \* the number of edits so far, the manager's update time
          seen,     \* lastContactPlanUpdate
          plan,     \* the instance's contacts and ranges
          now,      \* the instance's current time, in Unix time
          step,     \* where update_contact_plan is: <<>> when it is not running
          copy,     \* the copy of the manager's list it works with
          at,       \* contact_iterator or range_iterator: a key, or NONE
          left      \* the entries of the copy still to be offered

vars == <<lists, edits, seen, plan, now, step, copy, at, left>>

NONE == <<>>

Lists == [contact |-> ContactLists, range |-> RangeLists]

Key(e) == <<e.fromNode, e.toNode, e.fromTime>>

Init ==
  /\ lists \in [Kind -> {{}}] /\ edits = 0 /\ seen = 0
  /\ plan = [k \in Kind |-> {}] /\ now \in ClockTime
  /\ step = <<>> /\ copy = {} /\ at = NONE /\ left = {}

-----------------------------------------------------------------------------
(* Walking the plan *)

Before(a, b) ==
  \/ a[1] < b[1]
  \/ a[1] = b[1] /\ a[2] < b[2]
  \/ a[1] = b[1] /\ a[2] = b[2] /\ a[3] < b[3]

Earliest(keys) ==
  IF keys = {} THEN NONE ELSE CHOOSE a \in keys : \A b \in keys \ {a} : Before(a, b)

\* UniboCGR_get_first_contact, UniboCGR_get_first_range
First(es) == Earliest({Key(e) : e \in es})

\* UniboCGR_get_next_contact, UniboCGR_get_next_range
NextKey(es, key) == Earliest({k \in {Key(e) : e \in es} : Before(key, k)})

-----------------------------------------------------------------------------
(* Conversions between the manager's entries and the instance's *)

FromList(e) == [e EXCEPT !.fromTime = @ + TimeZero, !.toTime = @ + TimeZero]

ToList(e) == [e EXCEPT !.fromTime = @ - TimeZero, !.toTime = @ - TimeZero]

\* Wrong on purpose: the two times are of different bases.
MatchAsIs(e) == {c \in copy : Key(c) = Key(e)}

\* operator== of CPContact and CPRange: sender, receiver and start time.
Match(e) == {c \in copy : Key(c) = Key(ToList(e))}

-----------------------------------------------------------------------------
(* The calls of the library, as far as they change the plan *)

\* UniboCGR_contact_plan_change_contact_end_time and its twin: an end already over removes
\* the entry, an overlap is an error.
EndChanged(es, e, end) ==
  IF end <= now THEN es \ {e}
  ELSE IF EndRevisable(es, e, end) THEN Replace(es, e, [e EXCEPT !.toTime = end])
  ELSE es

\* UniboCGR_contact_plan_add_contact and its twin.
Added(es, new) ==
  IF new.toTime > now /\ Accepted(es, new) THEN es \cup {new} ELSE es

-----------------------------------------------------------------------------
(* update_contact_plan *)

Running(phase, k) == step = <<phase, k>>

\* A call at some time; the interface looks whether the manager's lists have changed and,
\* if so, opens a session for the contact plan.
Call(time) ==
  /\ step = <<>>
  /\ time >= now /\ now' = time
  /\ step' = IF seen = edits THEN <<"route">> ELSE <<"take", "contact">>
  /\ seen' = edits
  /\ UNCHANGED <<lists, edits, plan, copy, at, left>>

\* get_contact_list, get_range_list; the first entry of the plan.
Take(k) ==
  /\ Running("take", k)
  /\ copy' = lists[k]
  /\ at' = First(plan[k])
  /\ step' = <<"update", k>>
  /\ UNCHANGED <<lists, edits, seen, plan, now, left>>

\* Wrong on purpose: the walk goes on from the entry after the one that changed.
GoOnAnyway(es, again) == NextKey(es, at)

\* "need to iterate again from first contact -- change occurred (current iterator invalidated)"
GoOn(es, again) == IF again THEN First(es) ELSE NextKey(es, at)

\* Wrong on purpose: a failed change of the end time starts the walk over, too.
AgainAlways(k, endSet, ended, valueSet) == endSet \/ valueSet

\* handle_contact_update, handle_range_update: whether the walk starts over.  After a change
\* of the rate the result is judged by the variable of the change of the end time, which has
\* no value if there was none; a change of the light time is judged by its own result.
Again(k, endSet, ended, valueSet) ==
  \/ endSet /\ ended
  \/ valueSet /\ k = "range"
  \/ valueSet /\ k = "contact" /\ ~ endSet

Update(k) ==
  /\ Running("update", k) /\ at # NONE
  /\ \E e \in plan[k] : Key(e) = at /\
       \/ /\ Match(e) = {}
          /\ plan' = [plan EXCEPT ![k] = @ \ {e}]
          /\ at' = GoOn(plan'[k], TRUE)
       \/ \E c \in Match(e) :
            LET new == FromList(c)
                endSet == e.toTime # new.toTime
                revised == IF endSet THEN EndChanged(plan[k], e, new.toTime) ELSE plan[k]
                ended == revised # plan[k]
                valueSet == ~ (endSet /\ ended) /\ e.value # new.value
                again == Again(k, endSet, ended, valueSet)
            IN
            /\ plan' = [plan EXCEPT ![k] =
                          IF valueSet THEN Replace(@, e, [e EXCEPT !.value = new.value])
                          ELSE revised]
            /\ \/ at' = GoOn(plan'[k], again)
               \/ k = "contact" /\ valueSet /\ ~ endSet /\ at' = GoOn(plan'[k], FALSE)
  /\ UNCHANGED <<lists, edits, seen, now, step, copy, left>>

UpdateEnd(k) ==
  /\ Running("update", k) /\ at = NONE
  /\ left' = copy /\ step' = <<"add", k>>
  /\ UNCHANGED <<lists, edits, seen, plan, now, copy, at>>

\* Every entry of the list is offered; those the plan has already overlap and are refused.
Add(k) ==
  /\ Running("add", k)
  /\ \E c \in left :
       /\ left' = left \ {c}
       /\ plan' = [plan EXCEPT ![k] = Added(@, FromList(c))]
  /\ UNCHANGED <<lists, edits, seen, now, step, copy, at>>

\* After the contacts the ranges, then the session is closed.
AddEnd(k) ==
  /\ Running("add", k) /\ left = {}
  /\ step' = IF k = "contact" THEN <<"take", "range">> ELSE <<"route">>
  /\ UNCHANGED <<lists, edits, seen, plan, now, copy, at, left>>

\* The routing session: entries that are over are swept away.
RouteBundle ==
  /\ step = <<"route">>
  /\ plan' = [k \in Kind |-> plan[k] \ Expired(plan[k], now)]
  /\ step' = <<>> /\ copy' = {}
  /\ UNCHANGED <<lists, edits, seen, now, at, left>>

\* The manager loads other lists, from a file, a command or a peer, at any time.
Edit ==
  /\ edits < MaxEdits /\ edits' = edits + 1
  /\ \E k \in Kind : \E list \in Lists[k] : lists' = [lists EXCEPT ![k] = list]
  /\ UNCHANGED <<seen, plan, now, step, copy, at, left>>

SyncStep == (\E k \in Kind : Take(k) \/ Update(k) \/ UpdateEnd(k) \/ Add(k) \/ AddEnd(k)) \/ RouteBundle

Next == SyncStep \/ Edit \/ \E time \in ClockTime : Call(time)

\* A call is a function of the daemon's only router thread: once begun it goes on.
Spec == Init /\ [][Next]_vars /\ WF_vars(SyncStep)

-----------------------------------------------------------------------------
(* What the interface promises *)

\* Types; whatever the order of the changes, no two entries of the plan ever overlap, and
\* the iterator of the walk points to an entry of the plan.
TypeOK ==
  /\ \A k \in Kind : plan[k] \subseteq Listed /\ Disjoint(plan[k]) /\ lists[k] \in Lists[k]
  /\ seen \in 0 .. edits /\ edits \in 0 .. MaxEdits /\ now \in ClockTime
  /\ step # <<>> /\ step[1] = "update" /\ at # NONE =>
       \E e \in plan[step[2]] : Key(e) = at

Live(es) == {e \in es : e.toTime > now}

\* After a call, unless the manager has changed its lists since the interface looked, the
\* plan is the manager's lists, but for what is over.  Extensions refused for an entry that
\* had to be removed first, and changes judged by the wrong result, are made up for.
Synchronised ==
  step = <<>> /\ seen = edits =>
    \A k \in Kind : Live(plan[k]) = Live({FromList(c) : c \in lists[k]})

\* The plan has no overlaps on the way, and the lists' entries at the end.
InSync == TypeOK /\ Synchronised

\* An entry that the list still has as it is is never touched: a contact keeps the volume
\* that is booked on it, and the routes that use it, through every synchronisation.
UnchangedKept ==
  [][step # <<>> /\ step[1] \in {"update", "add"} =>
       \A e \in plan[step[2]] : ToList(e) \in copy => e \in plan'[step[2]]]_vars

\* The walk starts over after each change, and ends all the same.
CallsEnd == (step # <<>>) ~> (step = <<>>)

=============================================================================
