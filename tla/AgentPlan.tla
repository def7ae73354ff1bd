----------------------------- MODULE AgentPlan -----------------------------
(***************************************************************************)
(* The contact plan as UniboCGR.h presents it to the bundle protocol       *)
(* agent: contacts and ranges with Unix times, which the agent inserts,    *)
(* revises and removes by name, and which vanish once they are over.  The  *)
(* reference time, the cached expiry bounds and the way entries are        *)
(* deleted are not part of the promise.                                    *)
(***************************************************************************)
EXTENDS Integers

VARIABLES contactPlan,    \* the contacts
          rangePlan,      \* the ranges
          now             \* the time the agent gave last

vars == <<contactPlan, rangePlan, now>>

Init == contactPlan = {} /\ rangePlan = {} /\ now \in Int

\* Two entries that may be in one plan.
Apart(a, b) ==
  \/ a.fromNode # b.fromNode \/ a.toNode # b.toNode
  \/ a.toTime <= b.fromTime \/ b.toTime <= a.fromTime

Fits(plan, new) == new.fromTime < new.toTime /\ \A e \in plan : Apart(new, e)

Inserted(before, after) ==
  \E new \in after : after = before \cup {new} /\ Fits(before, new)

\* A revision moves the start or the end of one entry.
Revised(before, after) ==
  \E old \in before, new \in after :
    /\ after = (before \ {old}) \cup {new}
    /\ new.fromNode = old.fromNode /\ new.toNode = old.toNode
    /\ new.fromTime = old.fromTime \/ new.toTime = old.toTime
    /\ Fits(before \ {old}, new)

Removed(before, after) == \E old \in before : after = before \ {old}

Updated(before, after) ==
  Inserted(before, after) \/ Revised(before, after) \/ Removed(before, after)

UpdateContacts == Updated(contactPlan, contactPlan') /\ UNCHANGED <<rangePlan, now>>

UpdateRanges == Updated(rangePlan, rangePlan') /\ UNCHANGED <<contactPlan, now>>

Reset == contactPlan' = {} /\ rangePlan' = {} /\ UNCHANGED now

\* The step the agent does not ask for: a routing call forgets what is over.
Expire ==
  /\ contactPlan' = {c \in contactPlan : c.toTime > now}
  /\ rangePlan' = {r \in rangePlan : r.toTime > now}
  /\ UNCHANGED now

Tell == now' \in Int /\ UNCHANGED <<contactPlan, rangePlan>>

Next == UpdateContacts \/ UpdateRanges \/ Reset \/ Expire \/ Tell

Spec == Init /\ [][Next]_vars

=============================================================================
