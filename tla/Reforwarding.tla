---------------------------- MODULE Reforwarding ----------------------------
(***************************************************************************)
(* The ION interface (interface_cgr_ion.c) of one node, with the record    *)
(* that the extension block CGRR (cgrr.c, cgrr_utils.c) keeps of a         *)
(* bundle's last route and of the volume booked for it.                    *)
(*                                                                         *)
(* ION keeps the volume left of every contact in its database.  A SAP has  *)
(* two instances of Unibo-CGR, one per region, each with a copy of the     *)
(* whole plan and of those volumes.  A routing call reloads both when ION  *)
(* has edited its plan; gives back, in the instance and in ION, what was   *)
(* booked for the bundle before; lets the instance choose and book routes, *)
(* and records the choice.  ION books the routes that it is given.  A call *)
(* runs within one transaction: it is one step here.                       *)
(*                                                                         *)
(* ION's forwarder, its daemon rfxclock and its administration are modelled *)
(* from how the interface uses them.  What the core does is in other       *)
(* modules: here it chooses any route that the volumes allow.  Builds with *)
(* CGRREB; moderate source routing is in module Travel.                    *)
(***************************************************************************)
EXTENDS Integers, FiniteSetsExt, Functions

CONSTANTS Contact,       \* the contacts, named by sender, receiver and start time
          RegionOf,      \* the region of each
          Capacity,      \* the volume ION gives it when it is added
          Near,          \* the contacts of its pair that start within the time tolerance of it
          Route,         \* the routes, sets of contacts
          Bundle,        \* the bundles
          PriorityOf,    \* the priority of each
          RegionTo,      \* the region of its destination, 2 if ION knows none
          Critical,      \* the bundles of minimum latency
          Recorded,      \* the bundles with a CGRR block
          Unsteady,      \* the contacts that are edited or removed
          Arriving,      \* per bundle the part and the last route that a bundle may come with
          CopyId,        \* names of the copies of bundles in this node
          CloneFragments, \* fragments are cloned whole, too
          MaxEvents      \* bound on the calls, edits, removals, restarts and failures

Region == {0, 1}       \* home_cgr and outer_cgr
Priority == 0 .. 1

\* A bundle is whole or one of its two fragments.
Part == {"whole", "first", "second"}

ASSUME ReforwardingAssumption ==
  /\ IsFiniteSet(Contact) /\ RegionOf \in [Contact -> Region] /\ Capacity \in [Contact -> Nat]
  /\ Near \in [Contact -> SUBSET Contact] /\ \A c \in Contact : c \in Near[c]
  /\ Route \subseteq SUBSET Contact /\ {} \notin Route
  /\ PriorityOf \in [Bundle -> Priority] /\ RegionTo \in [Bundle -> Region \cup {2}]
  /\ Unsteady \subseteq Contact
  /\ IsFiniteSet(Bundle) /\ \A b \in Bundle : Arriving[b] \subseteq Part \X (Route \cup {{}})
  /\ Critical \subseteq Bundle /\ Recorded \subseteq Bundle /\ CloneFragments \in BOOLEAN
  /\ MaxEvents \in Nat

Payload(part) == IF part = "whole" THEN 2 ELSE 1

\* computeBundleEVC: the overheads come on top.
Evc(part) == Payload(part) + 1

VARIABLES ion,      \* IonContact.mtv of the contacts in ION's plan
          current,  \* contact_plan_edit_time is ION's lastEditTime
          inst,     \* per instance its contacts with their mtv
          copies,   \* the copies of bundles, by CopyId
          events,   \* how many there were
          owed,     \* history: what ION has booked for a bundle and has not been given back
          replaced, \* history: the contacts that were removed and added again
          expired,  \* history: the contacts rfxclock removed since the last edit
          leaking,  \* history: a call failed after the instance had booked, since the last reload
          broken    \* history: the last reload failed

vars == <<ion, current, inst, copies, events, owed, replaced, expired, leaking, broken>>

\* CGRRObject; part stands for fragmOffset and fragmLength.
Object == [cloneLevel : 0 .. 2, readLock : BOOLEAN, evc : Nat, part : Part]
NewObject == [cloneLevel |-> 0, readLock |-> FALSE, evc |-> 0, part |-> "whole"]

\* last is the last route in the CGRR block; a copy that is not queued waits to be forwarded.
Copy == [bundle : Bundle, part : Part, queued : BOOLEAN, last : Route \cup {{}}, object : Object]

Free(c) == [p \in Priority |-> Capacity[c]]

\* cgr_start_SAP: both instances load the plan.
Init ==
  /\ ion = [c \in Contact |-> Free(c)]
  /\ current = TRUE /\ inst = [i \in Region |-> ion]
  /\ copies = [id \in {} |-> NewObject]
  /\ events = 0
  /\ owed = [b \in Bundle |-> [c \in Contact |-> 0]]
  /\ replaced = {} /\ expired = {} /\ leaking = FALSE /\ broken = FALSE

-----------------------------------------------------------------------------
(* cgrr_utils.c *)

\* cgrr_getUsedEvc says 2: there is nothing to give back, or it was given back.
Unreadable(object) == ~ object.readLock \/ object.cloneLevel = 2

\* "Bundle has been cloned, now we risk that the clone forwarding is interpreted as original
\* bundle reforwarding".
IsClone(copy) == copy.object.cloneLevel = 1 /\ copy.part = "whole"

\* The volume to give back: a fragment that was not booked as such gives back its payload.
UsedEvc(copy) ==
  IF Unreadable(copy.object) \/ IsClone(copy) THEN 0
  ELSE IF copy.part # "whole" /\ copy.object.part # copy.part THEN Payload(copy.part)
  ELSE copy.object.evc

\* Wrong on purpose: the record is not locked once it was read.
ReadOnly(copy) ==
  IF ~ Unreadable(copy.object) /\ IsClone(copy)
  THEN [copy.object EXCEPT !.cloneLevel = 2, !.evc = 0, !.readLock = FALSE] ELSE copy.object

\* The record after cgrr_getUsedEvc.
Read(copy) ==
  IF Unreadable(copy.object) THEN copy.object
  ELSE IF IsClone(copy) THEN [copy.object EXCEPT !.cloneLevel = 2, !.evc = 0, !.readLock = FALSE]
  ELSE [copy.object EXCEPT !.readLock = FALSE]

\* cgrr_setUsedEvc, but for a clone.
SetUsedEvc(object, part) ==
  [object EXCEPT !.evc = Evc(part), !.readLock = TRUE, !.part = part]

\* cgrr_copy
Copied(object) == [object EXCEPT !.cloneLevel = IF @ = 0 THEN 1 ELSE @]

-----------------------------------------------------------------------------
(* update_contact_plan *)

\* Wrong on purpose: the contacts are added without their mtv.
ReloadedFree == {[i \in Region |-> [c \in DOMAIN ion |-> Free(c)]]}

\* update_region_contact_plan resets a plan and adds ION's contacts to it, with their mtv.
Reloaded == {[i \in Region |-> ion]}

\* Adding a contact failed, to the home region or, that being done, to the outer one.
HalfReloaded ==
  {IF i = 0 THEN [inst EXCEPT ![0] = Restrict(ion, some)]
   ELSE [j \in Region |-> IF j = 0 THEN ion ELSE Restrict(ion, some)] :
     i \in Region, some \in SUBSET DOMAIN ion \ {DOMAIN ion}}

\* What update_contact_plan may leave behind when it succeeds.
UpdatedPlans == IF current THEN {inst} ELSE Reloaded

-----------------------------------------------------------------------------
(* Volumes, of the priorities up to the bundle's *)

Changed(mtv, b, amount) ==
  [p \in Priority |-> IF p <= PriorityOf[b] THEN mtv[p] + amount ELSE mtv[p]]

\* What update_mtv_before_reforwarding gives back to contact c.
GivenBack(copy, c) ==
  IF copy.bundle \in Critical THEN 0
  ELSE Cardinality({hop \in copy.last : c \in Near[hop]}) * UsedEvc(copy)

Refilled(plan, copy) == [c \in DOMAIN plan |-> Changed(plan[c], copy.bundle, GivenBack(copy, c))]

\* ION's contact is found under the number of the instance's region.
FoundInIon(i, c) == c \in DOMAIN ion /\ RegionOf[c] = i

\* Wrong on purpose: nothing is given back in ION.
IonKept(i, plan, copy) == ion

\* ION's volumes become those of the instance where something was given back.
IonRefilled(i, plan, copy) ==
  [c \in DOMAIN ion |->
     IF FoundInIon(i, c) /\ c \in DOMAIN plan /\ GivenBack(copy, c) > 0
     THEN Refilled(plan, copy)[c] ELSE ion[c]]

\* Phase two's test; the routes of a call are booked by phase three together.
Fits(plan, copy, route) ==
  \A c \in route : c \in DOMAIN plan /\ plan[c][PriorityOf[copy.bundle]] >= Evc(copy.part)

Booked(plan, copy, routes) ==
  [c \in DOMAIN plan |->
     Changed(plan[c], copy.bundle, - Cardinality({r \in routes : c \in r}) * Evc(copy.part))]

-----------------------------------------------------------------------------
(* cgr_identify_best_routes *)

\* What the core may return: nothing, a route, or for a critical bundle several.
Selections(plan, copy) ==
  LET fitting == {r \in Route : Fits(plan, copy, r)}
  IN  {{}} \cup {{r} : r \in fitting}
        \cup IF copy.bundle \in Critical THEN {rs \in SUBSET fitting : Cardinality(rs) = 2} ELSE {}

\* convert_routes_from_cgr_to_ion: a route with a contact that ION does not have is skipped.
Converted(i, routes) == {r \in routes : \A c \in r : FoundInIon(i, c)}

\* select_UniboCGR_instance: the regions with an instance.
HasInstance(b) == RegionTo[b] \in Region

\* get_cgrr_ext_block: the copy with what is read of its block, nothing if it has none.
AsRead(copy) == IF copy.bundle \in Recorded THEN copy ELSE [copy EXCEPT !.object = NewObject]

\* getCGRRoute: the route that becomes the last one of the block.
RecordedRoute(copy, routes) ==
  IF routes # {} /\ copy.bundle \in Recorded \ Critical
  THEN CHOOSE r \in routes : TRUE ELSE copy.last

\* update_CGRR_evc
RecordedEvc(object, part, done) == IF done THEN SetUsedEvc(object, part) ELSE object

\* CGRR_management has an error for no route, for every critical bundle, without a CGRR
\* block, and for a clone that was forwarded before.
Managed(copy, routes) ==
  /\ routes # {} /\ copy.bundle \notin Critical /\ copy.bundle \in Recorded
  /\ Read(copy).cloneLevel # 2

\* The routing of copy id, in instances as they are after update_contact_plan: what was
\* booked before is given back, whether or not there is a route.
RouteCopy(id, plans) ==
  LET copy == copies[id]
      b == copy.bundle
      i == RegionTo[b]
      before == AsRead(copy)
      plan == Refilled(plans[i], before)
      ionBefore == IonRefilled(i, plans[i], before)
      object == IF b \in Recorded \ Critical THEN Read(copy) ELSE copy.object
  IN
  \E chosen \in Selections(plan, copy) :
    LET routes == Converted(i, chosen)
        done == Managed(copy, routes)
    IN
    /\ inst' = [plans EXCEPT ![i] = Booked(plan, copy, chosen)]
    /\ ion' = IF done THEN Booked(ionBefore, copy, routes) ELSE ionBefore
    /\ leaking' = ((leaking /\ current) \/ (chosen # {} /\ ~ done))
    /\ owed' = [owed EXCEPT ![b] = [c \in Contact |->
                  @[c] - GivenBack(before, c)
                  + IF done /\ \E r \in routes : c \in r THEN Evc(copy.part) ELSE 0]]
    /\ copies' = [copies EXCEPT ![id] =
         [@ EXCEPT !.queued = done,
                   !.last = RecordedRoute(copy, routes),
                   !.object = RecordedEvc(object, copy.part, done)]]

Event == events < MaxEvents /\ events' = events + 1

\* A call for a copy that waits.
Forward(id) ==
  /\ Event
  /\ ~ copies[id].queued
  /\ \E plans \in UpdatedPlans :
       IF HasInstance(copies[id].bundle) THEN RouteCopy(id, plans)
       ELSE /\ inst' = plans /\ leaking' = (leaking /\ current)
            /\ UNCHANGED <<ion, copies, owed>>
  /\ current' = TRUE /\ broken' = (broken /\ current)
  /\ expired' = IF current THEN expired ELSE {}
  /\ UNCHANGED replaced

-----------------------------------------------------------------------------
(* ION *)

\* The edit time is stored, then a reload fails: the call ends.
ForwardFails ==
  /\ ~ current /\ current' = TRUE /\ Event
  /\ inst' \in HalfReloaded
  /\ broken' = TRUE /\ expired' = {} /\ leaking' = FALSE
  /\ UNCHANGED <<ion, copies, owed, replaced>>

NewIds == CopyId \ DOMAIN copies
NewId == CHOOSE id \in NewIds : TRUE

With(id, copy) == [j \in DOMAIN copies \cup {id} |-> IF j = id THEN copy ELSE copies[j]]

\* A bundle is created here, or comes from another node, which may have sent it back: with
\* the routes of other nodes in its CGRR block, and a new record (cgrr_offer, cgrr_record).
Receive(b, part, last) ==
  /\ \A id \in DOMAIN copies : copies[id].bundle # b
  /\ NewIds # {}
  /\ copies' = With(NewId, [bundle |-> b, part |-> part, queued |-> FALSE, last |-> last,
                                  object |-> NewObject])
  /\ UNCHANGED <<ion, current, inst, events, owed, replaced, expired, leaking, broken>>

\* The bundle is not sent in time: it is to be forwarded again.
Timeout(id) ==
  /\ copies[id].queued /\ copies' = [copies EXCEPT ![id].queued = FALSE]
  /\ UNCHANGED <<ion, current, inst, events, owed, replaced, expired, leaking, broken>>

\* A copy is sent, or expires.
Leave(id) ==
  /\ copies' = Restrict(copies, DOMAIN copies \ {id})
  /\ UNCHANGED <<ion, current, inst, events, owed, replaced, expired, leaking, broken>>

Clone(id) ==
  /\ copies[id].part = "whole" \/ CloneFragments
  /\ NewIds # {}
  /\ copies' = With(NewId, [copies[id] EXCEPT !.queued = FALSE,
                                                    !.object = Copied(@)])
  /\ UNCHANGED <<ion, current, inst, events, owed, replaced, expired, leaking, broken>>

\* A bundle that was just given a route is fragmented: both fragments are copies, the first
\* keeps its place in the queue and the second is to be forwarded.
Fragment(id) ==
  /\ NewIds # {} /\ copies[id].queued /\ copies[id].part = "whole"
  /\ LET fragment == [copies[id] EXCEPT !.object = Copied(@)]
     IN  copies' = [With(NewId, [fragment EXCEPT !.part = "second", !.queued = FALSE])
                      EXCEPT ![id] = [fragment EXCEPT !.part = "first"]]
  /\ UNCHANGED <<ion, current, inst, events, owed, replaced, expired, leaking, broken>>

\* The administrator edits the plan.
EditPlan(c) ==
  /\ Event /\ current' = FALSE
  /\ IF c \in DOMAIN ion
     THEN ion' = Restrict(ion, DOMAIN ion \ {c}) /\ UNCHANGED replaced
     ELSE /\ ion' = [d \in DOMAIN ion \cup {c} |-> IF d = c THEN Free(c) ELSE ion[d]]
          /\ replaced' = replaced \cup {c}
  /\ UNCHANGED <<inst, copies, owed, expired, leaking, broken>>

\* "maybe it has been removed by RFX daemon", which is no edit.
RfxRemove(c) ==
  /\ Event /\ c \in DOMAIN ion
  /\ ion' = Restrict(ion, DOMAIN ion \ {c}) /\ expired' = expired \cup {c}
  /\ UNCHANGED <<current, inst, copies, owed, replaced, leaking, broken>>

\* ION's forwarder is stopped, or ended by an error, and started again: cgr_stop_SAP,
\* cgr_start_SAP.  ION's database keeps the volumes and the bundles with their records.
Restart ==
  /\ Event
  /\ inst' = [i \in Region |-> ion] /\ current' = TRUE
  /\ expired' = {} /\ leaking' = FALSE /\ broken' = FALSE
  /\ UNCHANGED <<ion, copies, owed, replaced>>

Next ==
  \/ \E id \in DOMAIN copies :
       Forward(id) \/ Timeout(id) \/ Leave(id) \/ Clone(id) \/ Fragment(id)
  \/ \E b \in Bundle : \E arriving \in Arriving[b] : Receive(b, arriving[1], arriving[2])
  \/ \E c \in Unsteady : EditPlan(c) \/ RfxRemove(c)
  \/ ForwardFails \/ Restart

Spec == Init /\ [][Next]_vars

-----------------------------------------------------------------------------
(* What the interface promises *)

Mtvs == [Priority -> Int]

\* Types; what waits or is queued is known to the interface as it is to ION.
TypeOK ==
  /\ \A plan \in {ion, inst[0], inst[1]} :
       DOMAIN plan \subseteq Contact /\ \A c \in DOMAIN plan : plan[c] \in Mtvs
  /\ DOMAIN copies \subseteq CopyId /\ \A id \in DOMAIN copies : copies[id] \in Copy
  /\ \A b \in Bundle : owed[b] \in [Contact -> Int]

CopiesOf(b) == {id \in DOMAIN copies : copies[id].bundle = b}

\* The copies of a bundle in this node can never get back more of a contact than was booked on
\* it for that bundle here, whatever fragmentation, clones of whole bundles, timeouts and returns
\* follow each other.  A clone is not "interpreted as original bundle reforwarding"
\* (cgrr_utils.c:1128), unless what is cloned is a fragment, which the code does not tell from
\* a fragment that was booked as such: with CloneFragments this does not hold.
RefillCovered ==
  \A b \in Bundle, c \in Contact :
    SumFunctionOnSet([id \in DOMAIN copies |-> GivenBack(copies[id], c)], CopiesOf(b)) <= owed[b][c]

\* What ION has left of a contact for a priority is never more than its capacity less what is
\* booked and was not given back, unless the contact was taken out of the plan in between.
VolumeCovered ==
  \A c \in DOMAIN ion \ replaced, p \in Priority :
    ion[c][p] + SumFunctionOnSet([b \in Bundle |-> owed[b][c]], {b \in Bundle : PriorityOf[b] >= p})
      <= Capacity[c]

\* An instance never believes that more is left of a contact of its region than ION does; and
\* it believes the same unless a call has failed after the instance had booked.
InstancesAgree ==
  \A i \in Region : \A c \in DOMAIN inst[i] \cap DOMAIN ion :
    RegionOf[c] = i /\ c \notin replaced =>
      /\ \A p \in Priority : inst[i][c][p] <= ion[c][p]
      /\ ~ leaking /\ ~ broken => inst[i][c] = ion[c]

\* While the edit time is ION's, both instances have ION's plan, but for what rfxclock has
\* removed since; unless the reload failed, which no later call makes up for: it takes an
\* edit or a restart.
PlanLoaded ==
  current /\ ~ broken =>
    \A i \in Region : DOMAIN ion = DOMAIN inst[i] \ expired

\* What the instances believe of the plan and of the volumes is what ION has.
InstancesSound == TypeOK /\ InstancesAgree /\ PlanLoaded

\* A queued copy can give back all that was booked for it, if it is the original or a
\* fragment that was booked as such: a retry never shrinks a contact.
QueuedRefundable ==
  \A id \in DOMAIN copies :
    LET copy == copies[id] IN
    copy.queued /\ (copy.object.cloneLevel = 0
                    \/ (copy.part # "whole" /\ copy.object.part = copy.part))
      => copy.last # {} /\ UsedEvc(copy) = Evc(copy.part)

\* Without clones of fragments, what is booked for a bundle can be given back once, by the copy
\* that it was booked for.
RefillExact == RefillCovered /\ QueuedRefundable

=============================================================================
