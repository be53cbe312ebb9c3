-------------------------- MODULE TaskQueueContract --------------------------
(***************************************************************************)
(* TaskQueue implements TaskContract: the refinement mapping.              *)
(***************************************************************************)
EXTENDS TaskQueue

StageOf(row) ==
  CASE row.status = "ABSENT" -> "absent"
    [] row.status = "PENDING" -> "open"
    [] row.status \in INFLIGHT_STATUSES -> "held"
    [] row.status = "COMPLETED" -> "done"
    [] OTHER -> "dead"

HolderOf(row) == IF row.status \in INFLIGHT_STATUSES THEN row.assigned_agent_id ELSE NULL
BudgetOf(row) == IF row.status = "ABSENT" THEN 0 ELSE row.req.max_retries

Stage  == [t \in Tasks |-> StageOf(task[t])]
Holder == [t \in Tasks |-> HolderOf(task[t])]
Budget == [t \in Tasks |-> BudgetOf(task[t])]
Spent  == [t \in Tasks |-> task[t].retry_count]

Contract == INSTANCE TaskContract WITH
  Nobody  <- NULL,
  Budgets <- {r.max_retries : r \in Requests},
  stage <- Stage, holder <- Holder, budget <- Budget, spent <- Spent

(* Whatever claims, lost calls, expiring leases, clock differences and     *)
(* operators do to the rows, each task lives the life the contract says.   *)
ImplementsContract == Contract!Spec
=============================================================================
