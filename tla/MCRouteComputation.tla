------------------------ MODULE MCRouteComputation ------------------------
(* Small networks for RouteComputation: node 1 is the local node, node 4 the destination. *)
EXTENDS RouteComputation

C(f, t, start, end, light) ==
  [fromNode |-> f, toNode |-> t, fromTime |-> start, toTime |-> end, owlt |-> light]

B(full, expiration, excluded, critical) ==
  [full |-> full, expiration |-> expiration, excluded |-> excluded, critical |-> critical]

\* Two contacts with neighbor 2 and two from it to the destination, a slow way by 3, a
\* relay from 2 to 3; a third neighbor, 5, to which 3 can only send early.
a1 == C(1, 2, 0, 4, 1)
a2 == C(1, 2, 5, 9, 1)
ad == C(2, 4, 3, 9, 1)
ae == C(2, 4, 9, 14, 1)
b1 == C(1, 3, 0, 9, 3)
bd == C(3, 4, 2, 14, 4)
ab == C(2, 3, 1, 9, 1)
e1 == C(1, 5, 0, 9, 5)
ed == C(5, 4, 5, 14, 2)
be == C(3, 5, 0, 6, 1)

MCNetwork == {a1, a2, ad, ae, b1, bd, ab}
MCNetworkThree == MCNetwork \cup {e1, ed, be}

MCPlain == {B({}, 20, {}, FALSE), B({ad}, 20, {}, FALSE), B({a1, bd}, 20, {}, FALSE),
            B({}, 12, {3}, FALSE), B({ad, ae}, 20, {}, FALSE),
            B({ad, ae, b1}, 20, {}, FALSE), B({ad, ae, bd}, 20, {}, FALSE)}
MCBundle == MCPlain \cup {B({ad}, 20, {}, TRUE)}
MCBundleThree == {B({}, 20, {}, FALSE), B({ad, b1}, 20, {}, FALSE),
                  B({a1, ed}, 20, {2}, FALSE), B({ad}, 20, {}, TRUE)}

Agents(limits, bundles, times) ==
  [limits |-> limits, bundles |-> bundles, times |-> times]

\* One never enables the feature, the other one does, or sets a limit, at any time.
MCAgent == {Agents({1}, MCPlain, {0, 4, 9}), Agents({0, 1, 2}, MCBundleThree, {0, 6})}

\* For the known divergences: three ways on from neighbor 2, the second of which soon
\* closes, and a way by 3.
q  == C(1, 2, 0, 20, 1)
k  == C(1, 3, 0, 20, 4)
w1 == C(2, 4, 0, 20, 1)
w2 == C(2, 5, 0, 4, 1)
v2 == C(5, 4, 0, 4, 1)
w3 == C(2, 6, 0, 20, 5)
v3 == C(6, 4, 0, 20, 5)
kd == C(3, 4, 0, 20, 1)

MCNetworkWays == {q, k, w1, w2, v2, w3, v3, kd}
MCBundleWays == {B(f, 30, {}, FALSE) : f \in {{}, {w1}, {w1, kd}}}

\* The agents for the known divergences that the README lists.
AgentLost == {Agents({1}, MCBundleWays, {0, 4})}
AgentTwice == {Agents({1}, MCBundle, {0})}
===========================================================================
