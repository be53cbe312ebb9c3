----------------------------- MODULE MCTaskQueue -----------------------------
(* Instances of TaskQueue for TLC: agents, groups and publish bodies.       *)
EXTENDS TaskQueueContract, TLC

CONSTANTS a1, a2, p1, p2, g1, g2, cap

Symmetry == Permutations(Calls)

Sub(a, p, g) == [agent |-> a, project |-> p, group |-> g]
OneEach(n) == [a \in Agents |-> n]

(* a1 is in both groups of p1 and has the capability; a2 is in g2 only.     *)
TwoAgentSubs == {Sub(a1, p1, g1), Sub(a1, p1, g2), Sub(a2, p1, g2)}
TwoGroupSubs == {Sub(a1, p1, g1), Sub(a1, p1, g2)}
OneAgentSubs == {Sub(a1, p1, g1)}

CapsOfA1 == [a \in Agents |-> IF a = a1 THEN {cap} ELSE {}]
NoCaps == [a \in Agents |-> {}]
One == OneEach(1)

Req(p, g, caps, prio, max, delay) ==
  [project |-> p, target_group_id |-> g, required_capabilities |-> caps,
   priority |-> prio, max_retries |-> max, delay |-> delay]

MinusOne == -1

(* A plain task, a task for group g1 that needs the capability, and one     *)
(* that must not be retried (a negative max_retries is accepted as well).   *)
RoutedRequests == {Req(p1, NULL, {}, 0, 2, 0), Req(p1, g2, {}, 0, 1, 0),
                   Req(p1, NULL, {cap}, 0, 0, 0), Req(p1, g1, {}, 0, -1, 0)}
PlainRequests == {Req(p1, NULL, {}, 0, 1, 0)}
ScheduledRequests == {Req(p1, NULL, {}, 0, 1, 2)}
MixedRequests == {Req(p1, NULL, {}, 0, 1, 0), Req(p1, g2, {}, 1, 0, 1)}
PriorityRequests == {Req(p1, NULL, {}, 0, 0, 0), Req(p1, NULL, {}, 1, 0, 0)}
=============================================================================
