---------------------------- MODULE ContactGraph ----------------------------
(***************************************************************************)
(* What phase one (phase_one.c) means by a path through the contact graph  *)
(* and by its best-case arrival time.                                      *)
(*                                                                         *)
(* A contact carries the light time of the range that is valid when the    *)
(* contact starts, the only one phase one looks for, or NoRange.  Times    *)
(* are whole seconds.  Contacts have confidence 1, and the contacts of a   *)
(* node with itself are left out.                                          *)
(***************************************************************************)
EXTENDS Integers, SequencesExt, FiniteSetsExt

CONSTANTS Network,      \* the contacts of the plan
          LocalNode     \* the node that computes routes

\* The light time of a contact for which get_applicable_range finds nothing.
NoRange == -1

ASSUME ContactGraphAssumption ==
  /\ IsFiniteSet(Network)
  /\ Network \subseteq [fromNode : Nat, toNode : Nat, fromTime : Nat, toTime : Nat,
                        owlt : Nat \cup {NoRange}]
  /\ \A c \in Network : c.fromNode # c.toNode /\ c.fromTime < c.toTime
  /\ \A c, d \in Network : c.fromNode = d.fromNode /\ c.toNode = d.toNode /\ c # d =>
       c.toTime <= d.fromTime \/ d.toTime <= c.fromTime
  /\ LocalNode \in Nat

\* The light time with the margin for the motion of the nodes, MAX_SPEED_MPH / 3600 = 125
\* miles a second.
LightTime(c) == c.owlt + (125 * c.owlt) \div 186282

\* A bundle at hand at time t is sent over c at this time.
Departure(c, t) == Max({c.fromTime, t})

\* The times at which a bundle sent along p from time t on is at each node of p.
TimesAlong(p, t) ==
  LET at[i \in 0 .. Len(p)] ==
        IF i = 0 THEN t ELSE Departure(p[i], at[i - 1]) + LightTime(p[i])
  IN  at

Arrival(p, t) == TimesAlong(p, t)[Len(p)]

\* The light times up to each node of p.
LightAlong(p) ==
  LET sum[i \in 0 .. Len(p)] == IF i = 0 THEN 0 ELSE sum[i - 1] + LightTime(p[i])
  IN  sum

\* compute_new_distances: each contact is entered before it ends, and has a range.
Feasible(p, t) ==
  LET at == TimesAlong(p, t)
  IN  \A i \in DOMAIN p : p[i].owlt # NoRange /\ Departure(p[i], at[i - 1]) < p[i].toTime

\* initialize_root_path and update_cost_values: entering a contact as it ends will do.
BarelyFeasible(p, t) ==
  LET at == TimesAlong(p, t)
  IN  \A i \in DOMAIN p : p[i].owlt # NoRange /\ Departure(p[i], at[i - 1]) <= p[i].toTime

Nodes == {c.fromNode : c \in Network} \cup {c.toNode : c \in Network}

\* The paths from the local node that visit no node twice.
SimplePaths ==
  {p \in SeqOf(Network, Cardinality(Nodes) - 1) :
     /\ p # <<>>
     /\ p[1].fromNode = LocalNode
     /\ \A i \in 1 .. Len(p) - 1 : p[i].toNode = p[i + 1].fromNode
     /\ \A i, j \in DOMAIN p : p[i].toNode # LocalNode /\ (i # j => p[i].toNode # p[j].toNode)}

PathsTo(dest) == {p \in SimplePaths : p[Len(p)].toNode = dest}

\* The paths to dest that go on after prefix over contacts of allowed, what a search from
\* the end of prefix may find at time t.
Continuations(prefix, allowed, dest, t) ==
  {p \in PathsTo(dest) :
     /\ IsStrictPrefix(prefix, p)
     /\ \A i \in Len(prefix) + 1 .. Len(p) : p[i] \in allowed
     /\ BarelyFeasible(p, t)
     /\ \A i \in Len(prefix) + 1 .. Len(p) :
          Departure(p[i], TimesAlong(p, t)[i - 1]) < p[i].toTime}

Earliest(paths, t) ==
  LET earliest == Min({Arrival(p, t) : p \in paths})
  IN  {p \in paths : Arrival(p, t) = earliest}

=============================================================================
