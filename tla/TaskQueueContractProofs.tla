----------------------- MODULE TaskQueueContractProofs -----------------------
(***************************************************************************)
(* TaskQueue implements TaskContract, for every value of the constants.    *)
(***************************************************************************)
EXTENDS TaskQueueContract, TaskQueueProofs

(* The mapping of a step that replaces one row. *)
LEMMA OneRowMapped ==
  ASSUME IInv, NEW t \in Tasks, NEW new, task' = [task EXCEPT ![t] = new]
  PROVE  /\ Stage' = [Stage EXCEPT ![t] = StageOf(new)]
         /\ Holder' = [Holder EXCEPT ![t] = HolderOf(new)]
         /\ Budget' = [Budget EXCEPT ![t] = BudgetOf(new)]
         /\ Spent' = [Spent EXCEPT ![t] = new.retry_count]
  BY DEF IInv, TypeOK, Stage, Holder, Budget, Spent

LEMMA StageFacts ==
  ASSUME NEW row
  PROVE  /\ row.status = "ABSENT" => StageOf(row) = "absent"
         /\ row.status = "PENDING" => StageOf(row) = "open"
         /\ row.status \in INFLIGHT_STATUSES => StageOf(row) = "held"
         /\ row.status = "COMPLETED" => StageOf(row) = "done"
         /\ row.status = "DEAD" => StageOf(row) = "dead"
         /\ row.status \notin INFLIGHT_STATUSES => HolderOf(row) = NULL
         /\ row.status \in INFLIGHT_STATUSES => HolderOf(row) = row.assigned_agent_id
         /\ row.status # "ABSENT" => BudgetOf(row) = row.req.max_retries
  BY DEF StageOf, HolderOf, BudgetOf, INFLIGHT_STATUSES

(* A step of one published row is a step of the contract or a stutter. *)
LEMMA OneRowImplements ==
  ASSUME IInv, NEW t \in Tasks, NEW new, task' = [task EXCEPT ![t] = new],
         Published(t), new.req = task[t].req,
         \/ /\ new.status = task[t].status
            /\ new.assigned_agent_id = task[t].assigned_agent_id
            /\ new.retry_count = task[t].retry_count
         \/ /\ InFlight(t) /\ new.status \in INFLIGHT_STATUSES
            /\ new.assigned_agent_id = task[t].assigned_agent_id
            /\ new.retry_count = task[t].retry_count
         \/ /\ task[t].status = "PENDING" /\ new.status = "CLAIMED"
            /\ new.assigned_agent_id \in Agents
            /\ new.retry_count = task[t].retry_count
         \/ /\ InFlight(t) /\ new.status = "COMPLETED"
            /\ new.retry_count = task[t].retry_count
         \/ /\ InFlight(t)
            /\ new.status = IF task[t].retry_count < task[t].req.max_retries
                            THEN "PENDING" ELSE "DEAD"
            /\ new.retry_count = task[t].retry_count + 1
         \/ /\ InFlight(t) /\ new.status = "PENDING"
            /\ new.retry_count = task[t].retry_count
         \/ /\ ~Terminal(t) /\ new.status = "DEAD"
            /\ new.retry_count = task[t].retry_count
         \/ /\ Terminal(t) /\ new.status = "PENDING"
            /\ new.retry_count = 0
  PROVE  [Contract!Next]_(Contract!vars)
  <1>1. /\ Stage' = [Stage EXCEPT ![t] = StageOf(new)]
        /\ Holder' = [Holder EXCEPT ![t] = HolderOf(new)]
        /\ Budget' = [Budget EXCEPT ![t] = BudgetOf(new)]
        /\ Spent' = [Spent EXCEPT ![t] = new.retry_count]
    BY OneRowMapped
  <1>2. /\ Stage[t] = StageOf(task[t]) /\ Holder[t] = HolderOf(task[t])
        /\ Budget[t] = BudgetOf(task[t]) /\ Spent[t] = task[t].retry_count
        /\ DOMAIN Stage = Tasks /\ DOMAIN Holder = Tasks
        /\ DOMAIN Budget = Tasks /\ DOMAIN Spent = Tasks
    BY DEF Stage, Holder, Budget, Spent
  <1>3. /\ [Stage EXCEPT ![t] = Stage[t]] = Stage
        /\ [Holder EXCEPT ![t] = Holder[t]] = Holder
        /\ [Budget EXCEPT ![t] = Budget[t]] = Budget
        /\ [Spent EXCEPT ![t] = Spent[t]] = Spent
    BY DEF Stage, Holder, Budget, Spent
  <1>4. task[t].status \in Statuses \ {"ABSENT", "FAILED"}
    BY DEF IInv, RowOK, Row, Published
  <1>5. /\ InFlight(t) => Stage[t] = "held"
        /\ task[t].status = "PENDING" => Stage[t] = "open" /\ Holder[t] = NULL
        /\ ~InFlight(t) => Holder[t] = NULL
        /\ Terminal(t) => Stage[t] \in {"done", "dead"}
        /\ ~Terminal(t) => Stage[t] \in {"open", "held"}
        /\ Budget[t] = task[t].req.max_retries
    BY <1>2, <1>4, StageFacts DEF InFlight, Terminal, Statuses, INFLIGHT_STATUSES
  <1>6. new.status # "ABSENT" => Budget' = Budget
    BY <1>1, <1>3, <1>5, StageFacts
  <1>7. new.retry_count = task[t].retry_count => Spent' = Spent
    BY <1>1, <1>2, <1>3
  <1>. HIDE DEF Stage, Holder, Budget, Spent
  <1>8. CASE /\ new.status = task[t].status
             /\ new.assigned_agent_id = task[t].assigned_agent_id
             /\ new.retry_count = task[t].retry_count
    <2>1. StageOf(new) = Stage[t] /\ HolderOf(new) = Holder[t]
      BY <1>2, <1>8 DEF StageOf, HolderOf
    <2>. QED
      BY <1>1, <1>3, <1>4, <1>6, <1>7, <1>8, <2>1 DEF Contract!vars
  <1>9. CASE /\ InFlight(t) /\ new.status \in INFLIGHT_STATUSES
             /\ new.assigned_agent_id = task[t].assigned_agent_id
             /\ new.retry_count = task[t].retry_count
    <2>1. StageOf(new) = Stage[t] /\ HolderOf(new) = Holder[t] /\ new.status # "ABSENT"
      BY <1>2, <1>5, <1>9, StageFacts DEF InFlight, INFLIGHT_STATUSES
    <2>. QED
      BY <1>1, <1>3, <1>6, <1>7, <1>9, <2>1 DEF Contract!vars
  <1>10. CASE /\ task[t].status = "PENDING" /\ new.status = "CLAIMED"
              /\ new.assigned_agent_id \in Agents
              /\ new.retry_count = task[t].retry_count
    <2>1. StageOf(new) = "held" /\ HolderOf(new) = new.assigned_agent_id
      BY <1>10, StageFacts DEF INFLIGHT_STATUSES
    <2>2. Contract!Grant(t, new.assigned_agent_id)
      BY <1>1, <1>5, <1>6, <1>7, <1>10, <2>1 DEF Contract!Grant
    <2>. QED
      BY <1>10, <2>2 DEF Contract!Next
  <1>11. CASE InFlight(t) /\ new.status = "COMPLETED" /\ new.retry_count = task[t].retry_count
    <2>1. StageOf(new) = "done" /\ HolderOf(new) = NULL
      BY <1>11, StageFacts DEF INFLIGHT_STATUSES
    <2>2. Contract!Succeed(t)
      BY <1>1, <1>5, <1>6, <1>7, <1>11, <2>1 DEF Contract!Succeed
    <2>. QED
      BY <2>2 DEF Contract!Next
  <1>12. CASE /\ InFlight(t)
              /\ new.status = IF task[t].retry_count < task[t].req.max_retries
                              THEN "PENDING" ELSE "DEAD"
              /\ new.retry_count = task[t].retry_count + 1
    <2>1. /\ StageOf(new) = IF Spent[t] < Budget[t] THEN "open" ELSE "dead"
          /\ HolderOf(new) = NULL /\ new.status # "ABSENT"
      BY <1>2, <1>5, <1>12, StageFacts DEF INFLIGHT_STATUSES
    <2>2. Stage' = [u \in Tasks |-> IF u \notin {t} THEN Stage[u]
                                    ELSE IF Spent[u] < Budget[u] THEN "open" ELSE "dead"]
      BY <1>1, <2>1 DEF Stage
    <2>3. Holder' = [u \in Tasks |-> IF u \in {t} THEN NULL ELSE Holder[u]]
      BY <1>1, <2>1 DEF Holder
    <2>4. Spent' = [u \in Tasks |-> IF u \in {t} THEN Spent[u] + 1 ELSE Spent[u]]
      BY <1>1, <1>2, <1>12 DEF Spent
    <2>5. Contract!Charge({t})
      BY <1>5, <1>6, <1>12, <2>1, <2>2, <2>3, <2>4 DEF Contract!Charge
    <2>. QED
      BY <2>5 DEF Contract!Next
  <1>13. CASE InFlight(t) /\ new.status = "PENDING" /\ new.retry_count = task[t].retry_count
    <2>1. StageOf(new) = "open" /\ HolderOf(new) = NULL
      BY <1>13, StageFacts DEF INFLIGHT_STATUSES
    <2>2. Contract!Recall(t)
      BY <1>1, <1>5, <1>6, <1>7, <1>13, <2>1 DEF Contract!Recall
    <2>. QED
      BY <2>2 DEF Contract!Next
  <1>14. CASE ~Terminal(t) /\ new.status = "DEAD" /\ new.retry_count = task[t].retry_count
    <2>1. StageOf(new) = "dead" /\ HolderOf(new) = NULL
      BY <1>14, StageFacts DEF INFLIGHT_STATUSES
    <2>2. Contract!Withdraw(t)
      BY <1>1, <1>5, <1>6, <1>7, <1>14, <2>1 DEF Contract!Withdraw
    <2>. QED
      BY <2>2 DEF Contract!Next
  <1>15. CASE Terminal(t) /\ new.status = "PENDING" /\ new.retry_count = 0
    <2>1. StageOf(new) = "open" /\ HolderOf(new) = NULL /\ ~InFlight(t)
      BY <1>15, StageFacts DEF INFLIGHT_STATUSES, Terminal, InFlight
    <2>2. Holder' = Holder
      BY <1>1, <1>3, <1>5, <2>1
    <2>3. Contract!Reopen(t)
      BY <1>1, <1>5, <1>6, <1>15, <2>1, <2>2 DEF Contract!Reopen
    <2>. QED
      BY <2>3 DEF Contract!Next
  <1>. QED
    BY <1>8, <1>9, <1>10, <1>11, <1>12, <1>13, <1>14, <1>15

(* A step that leaves every row's status, holder, request and retries alone *)
(* is a stutter of the contract.                                            *)
LEMMA SameRowsStutter ==
  ASSUME \A t \in Tasks : /\ task'[t].status = task[t].status
                           /\ task'[t].assigned_agent_id = task[t].assigned_agent_id
                           /\ task'[t].req = task[t].req
                           /\ task'[t].retry_count = task[t].retry_count
  PROVE  UNCHANGED Contract!vars
  <1>1. \A t \in Tasks : /\ StageOf(task[t])' = StageOf(task[t])
                          /\ HolderOf(task[t])' = HolderOf(task[t])
                          /\ BudgetOf(task[t])' = BudgetOf(task[t])
    BY DEF StageOf, HolderOf, BudgetOf
  <1>. QED
    BY <1>1 DEF Contract!vars, Stage, Holder, Budget, Spent

LEMMA PublishImplements ==
  ASSUME IInv, NEW r \in Requests, Publish(r) PROVE Contract!Next
  <1>. DEFINE new == [AbsentRow EXCEPT !.req = r, !.status = "PENDING",
                                       !.visible_after = r.delay,
                                       !.scheduled_for = r.delay]
  <1>1. PICK t \in Tasks : ~Published(t) /\ task' = [task EXCEPT ![t] = new]
    BY DEF Publish
  <1>2. task[t] = AbsentRow
    BY <1>1 DEF IInv, RowOK, Published
  <1>3. /\ new.status = "PENDING" /\ new.req = r /\ new.retry_count = 0
        /\ new.status \notin INFLIGHT_STATUSES /\ new.status # "ABSENT"
    BY DEF AbsentRow, INFLIGHT_STATUSES
  <1>. HIDE DEF new
  <1>4. /\ Stage' = [Stage EXCEPT ![t] = StageOf(new)]
        /\ Holder' = [Holder EXCEPT ![t] = HolderOf(new)]
        /\ Budget' = [Budget EXCEPT ![t] = BudgetOf(new)]
        /\ Spent' = [Spent EXCEPT ![t] = new.retry_count]
    BY <1>1, OneRowMapped
  <1>5. StageOf(new) = "open" /\ HolderOf(new) = NULL /\ BudgetOf(new) = r.max_retries
    BY <1>3, StageFacts
  <1>6. AbsentRow.status = "ABSENT" /\ AbsentRow.status \notin INFLIGHT_STATUSES
    BY DEF AbsentRow, INFLIGHT_STATUSES
  <1>7. Stage[t] = "absent" /\ Holder[t] = NULL /\ Spent[t] = 0
    BY <1>2, <1>6, StageFacts DEF Stage, Holder, Spent, AbsentRow
  <1>8. Holder' = Holder /\ Spent' = Spent
    BY <1>3, <1>4, <1>5, <1>7 DEF Holder, Spent
  <1>9. Contract!Publish(t, r.max_retries)
    BY <1>4, <1>5, <1>7, <1>8 DEF Contract!Publish
  <1>. QED
    BY <1>9 DEF Contract!Next

LEMMA CommitImplements ==
  ASSUME IInv, NEW c \in Calls, ClaimCommit(c)
  PROVE  [Contract!Next]_(Contract!vars)
  <1>. DEFINE a == claim[c].agent
              t == claim[c].task
              New(g) == [task[t] EXCEPT !.status = "CLAIMED", !.assigned_agent_id = a,
                                        !.group_id = g,
                                        !.lease_expires_at = VisibilityTimeout]
  <1>1. a \in Agents /\ t \in Tasks /\ task[t].status = "PENDING"
    BY DEF IInv, ClaimsSound, ClaimCommit
  <1>2. PICK g \in Routes(a, task[t].req) : task' = [task EXCEPT ![t] = New(g)]
    BY <1>1 DEF ClaimCommit, IInv, TypeOK
  <1>3. task[t] \in Row /\ Published(t)
    BY <1>1 DEF IInv, TypeOK, Published
  <1>4. /\ New(g).status = "CLAIMED" /\ New(g).assigned_agent_id = a
        /\ New(g).req = task[t].req /\ New(g).retry_count = task[t].retry_count
    BY <1>3 DEF Row
  <1>. HIDE DEF New, a, t
  <1>. QED
    BY <1>1, <1>2, <1>3, <1>4, OneRowImplements

LEMMA AgentImplements ==
  ASSUME IInv, NEW a \in Agents, NEW t \in Tasks, AgentStep(a, t)
  PROVE  [Contract!Next]_(Contract!vars)
  <1>1. /\ task[t] \in Row /\ InFlight(t) /\ Published(t)
        /\ task[t].retry_count \in Nat /\ task[t].req.max_retries \in Int
    BY RowFacts DEF AgentStep, Heartbeat, Checkpoint, CompleteSuccess, CompleteFailure,
                    LeaseIsValid, Published, InFlight, INFLIGHT_STATUSES, IInv, TypeOK
  <1>2. CASE Heartbeat(a, t)
    <2>. DEFINE new == [task[t] EXCEPT !.lease_expires_at = VisibilityTimeout,
                                       !.status = "RUNNING"]
    <2>1. /\ new.status \in INFLIGHT_STATUSES /\ new.req = task[t].req
          /\ new.assigned_agent_id = task[t].assigned_agent_id
          /\ new.retry_count = task[t].retry_count
      BY <1>1 DEF Row, INFLIGHT_STATUSES
    <2>2. task' = [task EXCEPT ![t] = new]
      BY <1>2 DEF Heartbeat, SetTask
    <2>. HIDE DEF new
    <2>. QED
      BY <1>1, <2>1, <2>2, OneRowImplements
  <1>3. ASSUME NEW s \in Checkpoints, Checkpoint(a, t, s)
        PROVE  [Contract!Next]_(Contract!vars)
    <2>. DEFINE new == [task[t] EXCEPT !.state = s]
    <2>1. /\ new.status = task[t].status /\ new.req = task[t].req
          /\ new.assigned_agent_id = task[t].assigned_agent_id
          /\ new.retry_count = task[t].retry_count
      BY <1>1 DEF Row
    <2>2. task' = [task EXCEPT ![t] = new]
      BY <1>3 DEF Checkpoint, SetTask
    <2>. HIDE DEF new
    <2>. QED
      BY <1>1, <2>1, <2>2, OneRowImplements
  <1>4. CASE CompleteSuccess(a, t)
    <2>. DEFINE new == [task[t] EXCEPT !.status = "COMPLETED"]
    <2>1. /\ new.status = "COMPLETED" /\ new.req = task[t].req
          /\ new.retry_count = task[t].retry_count
      BY <1>1 DEF Row
    <2>2. task' = [task EXCEPT ![t] = new]
      BY <1>4 DEF CompleteSuccess, SetTask
    <2>. HIDE DEF new
    <2>. QED
      BY <1>1, <2>1, <2>2, OneRowImplements
  <1>5. CASE CompleteFailure(a, t)
    <2>1. PICK new : /\ task' = [task EXCEPT ![t] = new]
                     /\ new.status = IF task[t].retry_count < task[t].req.max_retries
                                     THEN "PENDING" ELSE "DEAD"
                     /\ new.retry_count = task[t].retry_count + 1
                     /\ new.req = task[t].req
      <3>1. CASE task[t].retry_count < task[t].req.max_retries
        <4>. DEFINE r == [Released(task[t]) EXCEPT
                            !.status = "PENDING", !.retry_count = @ + 1,
                            !.visible_after = Backoff(task[t].retry_count)]
        <4>1. task' = [task EXCEPT ![t] = r]
          BY <1>1, <1>5, <3>1 DEF CompleteFailure, SetTask
        <4>2. /\ r.status = "PENDING" /\ r.retry_count = task[t].retry_count + 1
              /\ r.req = task[t].req
          BY <1>1, ReleasedType DEF Row
        <4>. QED
          BY <3>1, <4>1, <4>2
      <3>2. CASE ~(task[t].retry_count < task[t].req.max_retries)
        <4>. DEFINE r == [task[t] EXCEPT !.status = "DEAD", !.retry_count = @ + 1]
        <4>1. task' = [task EXCEPT ![t] = r]
          BY <1>1, <1>5, <3>2 DEF CompleteFailure, SetTask
        <4>2. /\ r.status = "DEAD" /\ r.retry_count = task[t].retry_count + 1
              /\ r.req = task[t].req
          BY <1>1 DEF Row
        <4>. QED
          BY <3>2, <4>1, <4>2
      <3>. QED
        BY <3>1, <3>2
    <2>. QED
      BY <1>1, <2>1, OneRowImplements
  <1>. QED
    BY <1>2, <1>3, <1>4, <1>5 DEF AgentStep

LEMMA OperatorImplements ==
  ASSUME IInv, NEW t \in Tasks,
         \/ Requeue(t) \/ Cancel(t)
         \/ \E x \in Agents \union {NULL} : Stop(t, x)
         \/ \E x \in Agents : Reassign(t, x)
  PROVE  [Contract!Next]_(Contract!vars)
  <1>1. task[t] \in Row /\ task[t].status # "FAILED" /\ Published(t)
    BY DEF IInv, TypeOK, RowOK, Requeue, Cancel, Stop, Reassign, Published, InFlight,
           INFLIGHT_STATUSES
  <1>. DEFINE r == Released(task[t])
  <1>2. r \in Row /\ r.req = task[t].req /\ r.retry_count = task[t].retry_count
    BY <1>1, ReleasedType
  <1>. HIDE DEF r
  <1>3. CASE Requeue(t)
    <2>. DEFINE new == [r EXCEPT !.status = "PENDING", !.visible_after = 0, !.retry_count = 0]
    <2>1. new.status = "PENDING" /\ new.req = task[t].req /\ new.retry_count = 0
      BY <1>2 DEF Row
    <2>2. task' = [task EXCEPT ![t] = new] /\ Terminal(t)
      BY <1>1, <1>3 DEF Requeue, SetTask, Terminal, r
    <2>. HIDE DEF new
    <2>. QED
      BY <1>1, <2>1, <2>2, OneRowImplements
  <1>4. CASE Cancel(t)
    <2>. DEFINE new == [r EXCEPT !.status = "DEAD"]
    <2>1. /\ new.status = "DEAD" /\ new.req = task[t].req
          /\ new.retry_count = task[t].retry_count
      BY <1>2 DEF Row
    <2>2. task' = [task EXCEPT ![t] = new] /\ ~Terminal(t)
      BY <1>4 DEF Cancel, SetTask, r
    <2>. HIDE DEF new
    <2>. QED
      BY <1>1, <2>1, <2>2, OneRowImplements
  <1>5. ASSUME InFlight(t),
               NEW x, task' = [task EXCEPT ![t] =
                                 [r EXCEPT !.status = "PENDING", !.visible_after = 0,
                                           !.assign_to_agent_id = x]]
        PROVE  [Contract!Next]_(Contract!vars)
    <2>. DEFINE new == [r EXCEPT !.status = "PENDING", !.visible_after = 0,
                                 !.assign_to_agent_id = x]
    <2>1. /\ new.status = "PENDING" /\ new.req = task[t].req
          /\ new.retry_count = task[t].retry_count
      BY <1>2 DEF Row
    <2>2. task' = [task EXCEPT ![t] = new]
      BY <1>5
    <2>. HIDE DEF new
    <2>. QED
      BY <1>1, <1>5, <2>1, <2>2, OneRowImplements
  <1>6. ASSUME NEW x \in Agents \union {NULL}, Stop(t, x)
        PROVE  [Contract!Next]_(Contract!vars)
    <2>. DEFINE y == IF x = NULL THEN task[t].assign_to_agent_id ELSE x
    <2>1. task' = [task EXCEPT ![t] = [r EXCEPT !.status = "PENDING", !.visible_after = 0,
                                                !.assign_to_agent_id = y]]
      <3>1. r.assign_to_agent_id = task[t].assign_to_agent_id
        BY <1>1 DEF r, Released, Row
      <3>. QED
        BY <1>2, <1>6, <3>1 DEF Stop, SetTask, r, Row
    <2>2. InFlight(t)
      BY <1>6 DEF Stop
    <2>. HIDE DEF y
    <2>. QED
      BY <1>5, <2>1, <2>2
  <1>7. ASSUME NEW x \in Agents, Reassign(t, x)
        PROVE  [Contract!Next]_(Contract!vars)
    <2>1. CASE InFlight(t)
      BY <1>5, <1>7, <2>1 DEF Reassign, SetTask, r
    <2>2. CASE ~InFlight(t)
      <3>. DEFINE new == [task[t] EXCEPT !.assign_to_agent_id = x]
      <3>1. /\ new.status = task[t].status /\ new.req = task[t].req
            /\ new.assigned_agent_id = task[t].assigned_agent_id
            /\ new.retry_count = task[t].retry_count
        BY <1>1 DEF Row
      <3>2. task' = [task EXCEPT ![t] = new]
        BY <1>7, <2>2 DEF Reassign, SetTask
      <3>. HIDE DEF new
      <3>. QED
        BY <1>1, <3>1, <3>2, OneRowImplements
    <2>. QED
      BY <2>1, <2>2
  <1>. QED
    BY <1>3, <1>4, <1>6, <1>7

LEMMA ReclaimImplements ==
  ASSUME IInv, ReclaimExpiredLeases PROVE Contract!Next
  <1>. DEFINE S == {t \in Tasks : Expired(t)}
  <1>1. task' = [t \in Tasks |-> IF t \in S THEN ReclaimedRow(task[t]) ELSE task[t]]
    BY DEF ReclaimExpiredLeases
  <1>2. \A t \in S : InFlight(t) /\ Published(t)
    BY DEF Expired, InFlight, Published, INFLIGHT_STATUSES
  <1>. HIDE DEF S
  <1>3. S \subseteq Tasks
    BY DEF S
  <1>4. ASSUME NEW t \in S
        PROVE  /\ Stage[t] = "held"
               /\ StageOf(ReclaimedRow(task[t])) =
                    IF Spent[t] < Budget[t] THEN "open" ELSE "dead"
               /\ HolderOf(ReclaimedRow(task[t])) = NULL
               /\ BudgetOf(ReclaimedRow(task[t])) = Budget[t]
               /\ ReclaimedRow(task[t]).retry_count = Spent[t] + 1
    <2>. DEFINE new == ReclaimedRow(task[t])
    <2>1. /\ task[t] \in Row /\ task[t].req \in Requests /\ InFlight(t)
          /\ task[t].retry_count \in Nat /\ task[t].req.max_retries \in Int
      BY <1>2, <1>3, RowFacts
    <2>2. Stage[t] = "held" /\ Budget[t] = task[t].req.max_retries
          /\ Spent[t] = task[t].retry_count
      BY <1>3, <2>1, StageFacts DEF Stage, Budget, Spent, InFlight, BudgetOf,
                                    INFLIGHT_STATUSES
    <2>3. new.req = task[t].req /\ new.retry_count = task[t].retry_count + 1
      BY <2>1, ReleasedType DEF ReclaimedRow, Row
    <2>4. new.status = IF task[t].retry_count + 1 > task[t].req.max_retries
                       THEN "DEAD" ELSE "PENDING"
      BY <2>1, ReleasedType DEF ReclaimedRow, Row
    <2>5. new.status = IF Spent[t] < Budget[t] THEN "PENDING" ELSE "DEAD"
      BY <2>1, <2>2, <2>4
    <2>. HIDE DEF new
    <2>6. StageOf(new) = IF Spent[t] < Budget[t] THEN "open" ELSE "dead"
      BY <2>5, StageFacts
    <2>7. HolderOf(new) = NULL /\ BudgetOf(new) = Budget[t]
      BY <2>2, <2>3, <2>5, StageFacts DEF INFLIGHT_STATUSES
    <2>. QED
      BY <2>2, <2>3, <2>6, <2>7 DEF new
  <1>5. Stage' = [t \in Tasks |-> IF t \notin S THEN Stage[t]
                                  ELSE IF Spent[t] < Budget[t] THEN "open" ELSE "dead"]
    BY <1>1, <1>4 DEF Stage
  <1>6. Holder' = [t \in Tasks |-> IF t \in S THEN NULL ELSE Holder[t]]
    BY <1>1, <1>4 DEF Holder
  <1>7. Spent' = [t \in Tasks |-> IF t \in S THEN Spent[t] + 1 ELSE Spent[t]]
    BY <1>1, <1>4 DEF Spent
  <1>8. Budget' = Budget
    BY <1>1, <1>4 DEF Budget
  <1>9. Contract!Charge(S)
    BY <1>4, <1>5, <1>6, <1>7, <1>8 DEF Contract!Charge
  <1>. QED
    BY <1>3, <1>9 DEF Contract!Next

LEMMA StepImplements ==
  IInv /\ [Next]_vars => [Contract!Next]_(Contract!vars)
  <1>. SUFFICES ASSUME IInv, [Next]_vars PROVE [Contract!Next]_(Contract!vars)
    OBVIOUS
  <1>1. ASSUME NEW r \in Requests, Publish(r) PROVE [Contract!Next]_(Contract!vars)
    BY <1>1, PublishImplements
  <1>2. ASSUME UNCHANGED task PROVE UNCHANGED Contract!vars
    BY <1>2, SameRowsStutter
  <1>3. ASSUME NEW c \in Calls, ClaimStep(c) \/ ClaimAbort(c)
        PROVE  [Contract!Next]_(Contract!vars)
    BY <1>2, <1>3, CommitImplements
       DEF ClaimStep, ClaimAuth, ClaimCount, ClaimTopics, ClaimLock, ClaimAbort
  <1>4. ASSUME NEW a \in Agents, NEW t \in Tasks, AgentStep(a, t)
        PROVE  [Contract!Next]_(Contract!vars)
    BY <1>4, AgentImplements
  <1>5. CASE ReclaimExpiredLeases
    BY <1>5, ReclaimImplements
  <1>6. CASE OperatorStep
    <2>1. CASE UNCHANGED task
      BY <1>2, <2>1
    <2>2. CASE ~UNCHANGED task
      <3>1. PICK t \in Tasks : \/ Requeue(t) \/ Cancel(t)
                               \/ \E x \in Agents \union {NULL} : Stop(t, x)
                               \/ \E x \in Agents : Reassign(t, x)
        BY <1>6, <2>2 DEF OperatorStep, SetResting, SetTopicRest
      <3>. QED
        BY <3>1, OperatorImplements
    <2>. QED
      BY <2>1, <2>2
  <1>7. CASE Tick
    <2>1. \A t \in Tasks : task[t] \in Row /\ task'[t] = Older(task[t])
      BY <1>7 DEF Tick, IInv, TypeOK
    <2>2. ASSUME NEW row \in Row
          PROVE  /\ Older(row).status = row.status /\ Older(row).req = row.req
                 /\ Older(row).assigned_agent_id = row.assigned_agent_id
                 /\ Older(row).retry_count = row.retry_count
      BY DEF Older, Row
    <2>. QED
      BY <2>1, <2>2, SameRowsStutter
  <1>8. CASE UNCHANGED vars
    BY <1>2, <1>8 DEF vars
  <1>. QED
    BY <1>1, <1>3, <1>4, <1>5, <1>6, <1>7, <1>8 DEF Next

(* The task table, under any claims, reports, expiries, clock differences  *)
(* and operator calls, is an implementation of the contract.               *)
THEOREM Implementation == Spec => ImplementsContract
  <1>1. Init => Contract!Init
    BY DEF Init, Contract!Init, Stage, Holder, Budget, Spent, StageOf, HolderOf,
           BudgetOf, AbsentRow, INFLIGHT_STATUSES
  <1>2. IInv /\ [Next]_vars => [Contract!Next]_(Contract!vars)
    BY StepImplements
  <1>. QED
    BY <1>1, <1>2, Invariance, PTL DEF Spec, ImplementsContract, Contract!Spec
=============================================================================
