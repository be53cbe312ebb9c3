------------------------------ MODULE MCWorker -------------------------------
(* Instances of Worker for TLC: one agent, one project, one kind of task.   *)
EXTENDS Worker, TLC

CONSTANTS w, v, p, g

Symmetry == Permutations(Runs)

Subs == {[agent |-> a, project |-> p, group |-> g] : a \in Agents}
NoCaps == [a \in Agents |-> {}]
Many == [a \in Agents |-> 2]
OneRequest == {[project |-> p, target_group_id |-> NULL, required_capabilities |-> {},
                priority |-> 0, max_retries |-> 1, delay |-> 0]}
=============================================================================
