--------------------------- MODULE TaskQueueProofs ---------------------------
(***************************************************************************)
(* Proofs about TaskQueue, for any agents, tasks, calls, requests,         *)
(* timeouts and clock difference.                                          *)
(***************************************************************************)
EXTENDS TaskQueue, FiniteSetTheorems, TLAPS

-----------------------------------------------------------------------------
(* Operators on rows *)

(* The delay before a retry is never longer than BACKOFF_CAP_SEC. *)
LEMMA BackoffBounded == ASSUME NEW n \in Nat PROVE Backoff(n) \in 0..BackoffCap
  BY NumbersAssumption DEF Backoff

(* Releasing a row keeps it a row and only clears who holds it. *)
LEMMA ReleasedType ==
  ASSUME NEW row \in Row
  PROVE  /\ Released(row) \in Row
         /\ Released(row).req = row.req
         /\ Released(row).retry_count = row.retry_count
  BY DEF Released, Row

LEMMA ReclaimedType ==
  ASSUME NEW row \in Row, row.req \in Requests
  PROVE  ReclaimedRow(row) \in Row /\ ReclaimedRow(row).req \in Requests
  <1>. DEFINE r == Released(row)
  <1>1. r \in Row /\ r.req = row.req
    BY ReleasedType
  <1>2. r.retry_count + 1 \in Nat /\ Backoff(row.retry_count) \in Nat
    BY <1>1, BackoffBounded, NumbersAssumption DEF Row
  <1>3. {"PENDING", "DEAD"} \subseteq Statuses
    BY DEF Statuses
  <1>. HIDE DEF r
  <1>4. [r EXCEPT !.status = "DEAD", !.retry_count = @ + 1] \in Row
    BY <1>1, <1>2, <1>3 DEF Row
  <1>5. [r EXCEPT !.status = "PENDING", !.retry_count = @ + 1,
                  !.visible_after = Backoff(row.retry_count)] \in Row
    BY <1>1, <1>2, <1>3 DEF Row
  <1>6. /\ [r EXCEPT !.status = "DEAD", !.retry_count = @ + 1].req = row.req
        /\ [r EXCEPT !.status = "PENDING", !.retry_count = @ + 1,
                     !.visible_after = Backoff(row.retry_count)].req = row.req
    BY <1>1 DEF Row
  <1>. QED
    BY <1>4, <1>5, <1>6 DEF ReclaimedRow, r

LEMMA OlderType ==
  ASSUME NEW row \in Row
  PROVE  /\ Older(row) \in Row
         /\ Older(row).req = row.req
         /\ Older(row).status = row.status
  <1>1. Countdown(row.visible_after) \in Nat /\ Countdown(row.scheduled_for) \in Nat
    BY DEF Countdown, Row
  <1>2. Past \in Int /\ Past < 0
    BY NumbersAssumption DEF Past
  <1>3. row.lease_expires_at # NULL /\ row.lease_expires_at > Past
          => row.lease_expires_at - 1 \in LeaseTime
    BY <1>2, NumbersAssumption DEF Row, LeaseTime
  <1>. QED
    BY <1>1, <1>3, SetsAssumption DEF Older, Row
-----------------------------------------------------------------------------
(* The inductive invariant: what is true of every row with its results, and *)
(* of every claim call.                                                     *)

RowOK(row, res) ==
  /\ row \in Row /\ res \in ResultCount
  /\ row.status # "FAILED"
  /\ row.status = "ABSENT" => row = AbsentRow
  /\ row.status # "ABSENT" => row.req \in Requests
  /\ row.status \in INFLIGHT_STATUSES =>
       /\ row.assigned_agent_id \in Agents
       /\ row.group_id \in Routes(row.assigned_agent_id, row.req)
       /\ row.lease_expires_at # NULL
       /\ RoutedTo(row.assigned_agent_id, row)
  /\ row.status \in {"ABSENT", "PENDING"} =>
       /\ row.assigned_agent_id = NULL
       /\ row.group_id = NULL
       /\ row.lease_expires_at = NULL
  /\ res.success = IF row.status = "COMPLETED" THEN 1 ELSE 0
  /\ res.failure <= row.retry_count
  /\ row.status # "ABSENT" =>
       row.retry_count = 0 \/ row.retry_count <= row.req.max_retries + 1
                           \/ row.retry_count = 1
  /\ row.status \in {"PENDING"} \union INFLIGHT_STATUSES =>
       row.retry_count = 0 \/ row.retry_count <= row.req.max_retries

IInv ==
  /\ TypeOK
  /\ \A t \in Tasks : RowOK(task[t], results[t])
  /\ ClaimsSound

(* A group an agent is routed through is one of the schema's groups. *)
LEMMA RoutesAreGroups ==
  ASSUME NEW a, NEW req PROVE Routes(a, req) \subseteq Groups
  BY DEF Routes, Groups

LEMMA RetriesTyped ==
  ASSUME NEW row \in Row, row.req \in Requests
  PROVE  row.req.max_retries \in Int /\ row.retry_count \in Nat /\ row.req # NULL
  BY TablesAssumption, SetsAssumption DEF Row, RequestType

LEMMA AbsentRowOK == RowOK(AbsentRow, NoResults)
  <1>1. AbsentRow \in Row
    BY DEF AbsentRow, Row, Statuses
  <1>. QED
    BY <1>1 DEF RowOK, AbsentRow, NoResults, ResultCount, INFLIGHT_STATUSES

LEMMA InitIInv == Init => IInv
  <1>. SUFFICES ASSUME Init PROVE IInv
    OBVIOUS
  <1>1. AbsentRow \in Row /\ NoResults \in ResultCount
    BY AbsentRowOK DEF RowOK
  <1>2. TypeOK
    BY <1>1 DEF Init, TypeOK, IdleCall, CallType, Published, AbsentRow
  <1>. QED
    BY <1>2, AbsentRowOK DEF Init, IInv, ClaimsSound, IdleCall
-----------------------------------------------------------------------------
(* Each handler turns a sound row into a sound row *)

(* Routing reads only the request and the operator's target. *)
LEMMA RoutedSame ==
  ASSUME NEW a, NEW row, NEW new, new.req = row.req,
         new.assign_to_agent_id = row.assign_to_agent_id
  PROVE  RoutedTo(a, new) <=> RoutedTo(a, row)
  BY DEF RoutedTo

LEMMA PublishRowOK ==
  ASSUME NEW r \in Requests, NEW res, RowOK(AbsentRow, res)
  PROVE  RowOK([AbsentRow EXCEPT !.req = r, !.status = "PENDING",
                                 !.visible_after = r.delay,
                                 !.scheduled_for = r.delay], res)
  <1>. DEFINE new == [AbsentRow EXCEPT !.req = r, !.status = "PENDING",
                                       !.visible_after = r.delay,
                                       !.scheduled_for = r.delay]
  <1>1. r.delay \in Nat
    BY TablesAssumption DEF RequestType
  <1>2. AbsentRow \in Row
    BY AbsentRowOK DEF RowOK
  <1>3. new \in Row
    BY <1>1, <1>2 DEF Row, Statuses
  <1>4. /\ new.status = "PENDING" /\ new.req = r /\ new.retry_count = 0
        /\ new.assigned_agent_id = NULL /\ new.group_id = NULL
        /\ new.lease_expires_at = NULL
    BY DEF AbsentRow
  <1>5. AbsentRow.retry_count = 0 /\ AbsentRow.status = "ABSENT"
    BY DEF AbsentRow
  <1>. HIDE DEF new
  <1>6. RowOK(new, res)
    BY <1>3, <1>4, <1>5 DEF RowOK, INFLIGHT_STATUSES
  <1>. QED
    BY <1>6 DEF new

LEMMA ClaimRowOK ==
  ASSUME NEW row, NEW res, RowOK(row, res), row.status = "PENDING",
         NEW a \in Agents, RoutedTo(a, row), NEW g \in Routes(a, row.req)
  PROVE  RowOK([row EXCEPT !.status = "CLAIMED", !.assigned_agent_id = a,
                           !.group_id = g,
                           !.lease_expires_at = VisibilityTimeout], res)
  <1>. DEFINE new == [row EXCEPT !.status = "CLAIMED", !.assigned_agent_id = a,
                                 !.group_id = g,
                                 !.lease_expires_at = VisibilityTimeout]
  <1>1. row \in Row /\ g \in Groups /\ "CLAIMED" \in Statuses
    BY RoutesAreGroups DEF RowOK, Statuses
  <1>2. VisibilityTimeout \in LeaseTime /\ VisibilityTimeout # NULL
    BY NumbersAssumption, SetsAssumption DEF LeaseTime, Past
  <1>3. new \in Row
    BY <1>1, <1>2 DEF Row
  <1>4. /\ new.status = "CLAIMED" /\ new.req = row.req
        /\ new.retry_count = row.retry_count
        /\ new.assigned_agent_id = a /\ new.group_id = g
        /\ new.lease_expires_at = VisibilityTimeout
        /\ new.assign_to_agent_id = row.assign_to_agent_id
    BY <1>1 DEF Row
  <1>. HIDE DEF new
  <1>5. RoutedTo(a, new)
    BY <1>4, RoutedSame
  <1>6. RowOK(new, res)
    BY <1>2, <1>3, <1>4, <1>5 DEF RowOK, INFLIGHT_STATUSES
  <1>. QED
    BY <1>6 DEF new

(* Heartbeat and checkpoint: the row stays in flight with its holder. *)
LEMMA HeldRowOK ==
  ASSUME NEW row, NEW res, RowOK(row, res), row.status \in INFLIGHT_STATUSES,
         NEW new \in Row, new.status \in INFLIGHT_STATUSES,
         new.req = row.req, new.retry_count = row.retry_count,
         new.assigned_agent_id = row.assigned_agent_id,
         new.group_id = row.group_id, new.lease_expires_at # NULL,
         new.assign_to_agent_id = row.assign_to_agent_id
  PROVE  RowOK(new, res)
  <1>1. RoutedTo(row.assigned_agent_id, new)
    BY RoutedSame DEF RowOK
  <1>. QED
    BY <1>1 DEF RowOK, INFLIGHT_STATUSES

(* A row that stops being in flight: it is charged a retry or not, and is   *)
(* open only within its budget and without a holder.                        *)
LEMMA EndedRowOK ==
  ASSUME NEW row, NEW res, RowOK(row, res), row.status # "ABSENT",
         NEW new \in Row, NEW res2 \in ResultCount,
         new.status \in {"PENDING", "DEAD"}, new.req = row.req,
         \/ new.retry_count = row.retry_count
         \/ /\ row.status \in INFLIGHT_STATUSES
            /\ new.retry_count = row.retry_count + 1
            /\ new.status = "PENDING" => row.retry_count < row.req.max_retries
         \/ new.retry_count = 0,
         new.status = "PENDING" =>
           /\ new.assigned_agent_id = NULL /\ new.group_id = NULL
           /\ new.lease_expires_at = NULL
           /\ new.retry_count = row.retry_count =>
                row.status \in {"PENDING"} \union INFLIGHT_STATUSES
                  \/ new.retry_count = 0,
         res2.success = 0,
         res2.failure <= new.retry_count
  PROVE  RowOK(new, res2)
  <1>1. /\ row.req.max_retries \in Int /\ row.retry_count \in Nat
        /\ new.retry_count \in Nat /\ row.req \in Requests
    BY RetriesTyped DEF RowOK, Row
  <1>. QED
    BY <1>1 DEF RowOK, INFLIGHT_STATUSES

(* reaper.ts: an expired row is charged and released. *)
LEMMA ReclaimedRowOK ==
  ASSUME NEW row, NEW res, RowOK(row, res), row.status \in INFLIGHT_STATUSES
  PROVE  RowOK(ReclaimedRow(row), res)
  <1>. DEFINE new == ReclaimedRow(row)
              r == Released(row)
  <1>1. row \in Row /\ row.req \in Requests /\ res \in ResultCount /\ row.status # "ABSENT"
    BY DEF RowOK, INFLIGHT_STATUSES
  <1>2. new \in Row
    BY <1>1, ReclaimedType
  <1>3. /\ r \in Row /\ r.req = row.req /\ r.retry_count = row.retry_count
        /\ r.assigned_agent_id = NULL /\ r.group_id = NULL
        /\ r.lease_expires_at = NULL
    BY <1>1, ReleasedType DEF Released, Row
  <1>4. /\ row.req.max_retries \in Int /\ row.retry_count \in Nat
    BY <1>1, RetriesTyped
  <1>5. /\ new.req = row.req /\ new.retry_count = row.retry_count + 1
        /\ new.status = IF row.retry_count + 1 > row.req.max_retries
                        THEN "DEAD" ELSE "PENDING"
        /\ new.assigned_agent_id = NULL /\ new.group_id = NULL
        /\ new.lease_expires_at = NULL
    <2>. HIDE DEF r
    <2>. QED
      BY <1>3 DEF ReclaimedRow, r, Row
  <1>6. res.success = 0 /\ res.failure <= new.retry_count /\ res.failure \in Nat
    BY <1>4, <1>5 DEF RowOK, INFLIGHT_STATUSES, ResultCount
  <1>. HIDE DEF new, r
  <1>7. RowOK(new, res)
    BY <1>1, <1>2, <1>4, <1>5, <1>6, EndedRowOK
  <1>. QED
    BY <1>7 DEF new

(* The passage of time touches no column that RowOK reads but the lease. *)
LEMMA OlderRowOK ==
  ASSUME NEW row, NEW res, RowOK(row, res)
  PROVE  RowOK(Older(row), res)
  <1>1. row \in Row
    BY DEF RowOK
  <1>2. /\ Older(row) \in Row /\ Older(row).req = row.req
        /\ Older(row).status = row.status
    BY <1>1, OlderType
  <1>3. /\ Older(row).retry_count = row.retry_count
        /\ Older(row).assigned_agent_id = row.assigned_agent_id
        /\ Older(row).group_id = row.group_id
        /\ Older(row).assign_to_agent_id = row.assign_to_agent_id
    BY <1>1 DEF Older, Row
  <1>4. (Older(row).lease_expires_at = NULL) <=> (row.lease_expires_at = NULL)
    BY <1>1, SetsAssumption, NumbersAssumption DEF Older, Row, LeaseTime, Past
  <1>5. Older(AbsentRow) = AbsentRow
    <2>1. Countdown(0) = 0
      BY DEF Countdown
    <2>2. /\ AbsentRow.visible_after = 0 /\ AbsentRow.scheduled_for = 0
          /\ AbsentRow.lease_expires_at = NULL
      BY DEF AbsentRow
    <2>3. Older(AbsentRow) = [AbsentRow EXCEPT !.lease_expires_at = NULL,
                                               !.visible_after = 0,
                                               !.scheduled_for = 0]
      BY <2>1, <2>2 DEF Older
    <2>. QED
      BY <2>3 DEF AbsentRow
  <1>6. RoutedTo(row.assigned_agent_id, Older(row)) <=> RoutedTo(row.assigned_agent_id, row)
    BY <1>2, <1>3, RoutedSame
  <1>. QED
    BY <1>2, <1>3, <1>4, <1>5, <1>6 DEF RowOK
-----------------------------------------------------------------------------
(* Steps of the whole system *)

(* A step that replaces one unlocked row and its results by sound ones.     *)
LEMMA OneRowStep ==
  ASSUME IInv, NEW t \in Tasks, ~Locked(t),
         NEW row, NEW res, RowOK(row, res),
         task' = [task EXCEPT ![t] = row],
         results' = [results EXCEPT ![t] = res],
         UNCHANGED <<resting, topicRest, claim>>
  PROVE  IInv'
  <1>1. /\ task' \in [Tasks -> Row]
        /\ results' \in [Tasks -> ResultCount]
        /\ \A u \in Tasks : RowOK(task'[u], results'[u])
    BY DEF IInv, TypeOK, RowOK
  <1>2. TypeOK'
    BY <1>1 DEF IInv, TypeOK, RowOK, Published
  <1>3. ClaimsSound'
    BY DEF IInv, ClaimsSound, Locked, TypeOK
  <1>. QED
    BY <1>1, <1>2, <1>3 DEF IInv

(* A step that only changes one claim call, which then holds no row.        *)
LEMMA CallStep ==
  ASSUME IInv, NEW c \in Calls, NEW call \in CallType,
         call.phase # "locked", call.phase # "idle" => call.agent \in Agents,
         SetCall(c, call), UNCHANGED <<task, results, resting, topicRest>>
  PROVE  IInv'
  <1>1. TypeOK'
    BY DEF IInv, TypeOK, SetCall, Published
  <1>2. ClaimsSound'
    BY DEF IInv, ClaimsSound, SetCall, TypeOK
  <1>. QED
    BY <1>1, <1>2 DEF IInv

(* The row of a held or pending task, as the handlers find it. *)
LEMMA RowFacts ==
  ASSUME IInv, NEW t \in Tasks, Published(t)
  PROVE  /\ RowOK(task[t], results[t]) /\ task[t] \in Row /\ results[t] \in ResultCount
         /\ task[t].req \in Requests /\ task[t].req # NULL
         /\ task[t].retry_count \in Nat /\ task[t].req.max_retries \in Int
         /\ results[t].failure \in Nat /\ results[t].success \in Nat
         /\ results[t].failure <= task[t].retry_count
  <1>1. RowOK(task[t], results[t]) /\ task[t] \in Row /\ task[t].req \in Requests
    BY DEF IInv, RowOK, Published
  <1>. QED
    BY <1>1, RetriesTyped DEF RowOK, ResultCount

LEMMA PublishStep ==
  ASSUME IInv, NEW r \in Requests, Publish(r) PROVE IInv'
  <1>1. PICK t \in Tasks :
          /\ ~Published(t)
          /\ task' = [task EXCEPT ![t] =
                        [AbsentRow EXCEPT !.req = r, !.status = "PENDING",
                                          !.visible_after = r.delay,
                                          !.scheduled_for = r.delay]]
          /\ UNCHANGED <<results, resting, topicRest, claim>>
    BY DEF Publish
  <1>2. task[t] = AbsentRow /\ RowOK(AbsentRow, results[t])
    BY <1>1 DEF IInv, RowOK, Published
  <1>3. ~Locked(t)
    BY <1>1 DEF IInv, ClaimsSound, Locked, Published
  <1>4. results' = [results EXCEPT ![t] = results[t]]
    BY <1>1 DEF IInv, TypeOK
  <1>. QED
    BY <1>1, <1>2, <1>3, <1>4, PublishRowOK, OneRowStep

LEMMA CommitStep ==
  ASSUME IInv, NEW c \in Calls, ClaimCommit(c) PROVE IInv'
  <1>. DEFINE a == claim[c].agent
              t == claim[c].task
  <1>1. /\ claim[c].phase = "locked" /\ a \in Agents /\ t \in Tasks
        /\ task[t].status = "PENDING" /\ RoutedTo(a, task[t])
        /\ \A d \in Calls \ {c} : claim[d].phase = "locked" => claim[d].task # t
    BY DEF IInv, ClaimsSound, ClaimCommit
  <1>2. PICK g \in Routes(a, task[t].req) :
          task' = [task EXCEPT ![t] =
                     [task[t] EXCEPT !.status = "CLAIMED", !.assigned_agent_id = a,
                                     !.group_id = g,
                                     !.lease_expires_at = VisibilityTimeout]]
    BY <1>1 DEF ClaimCommit, IInv, TypeOK
  <1>. DEFINE row == [task[t] EXCEPT !.status = "CLAIMED", !.assigned_agent_id = a,
                                     !.group_id = g,
                                     !.lease_expires_at = VisibilityTimeout]
  <1>3. RowOK(row, results[t])
    BY <1>1, ClaimRowOK DEF IInv
  <1>. HIDE DEF row, a, t
  <1>4. claim' = [claim EXCEPT ![c] = IdleCall] /\ UNCHANGED <<results, resting, topicRest>>
    BY DEF ClaimCommit, SetCall
  <1>5. TypeOK'
    <2>1. row \in Row /\ (row.status # "ABSENT" => row.req \in Requests)
      BY <1>3 DEF RowOK
    <2>2. IdleCall \in CallType
      BY DEF IdleCall, CallType
    <2>. QED
      BY <1>1, <1>2, <1>4, <2>1, <2>2 DEF IInv, TypeOK, Published, row
  <1>6. \A u \in Tasks : RowOK(task'[u], results'[u])
    BY <1>1, <1>2, <1>3, <1>4 DEF IInv, TypeOK, row
  <1>7. ClaimsSound'
    <2>1. IdleCall.phase = "idle"
      BY DEF IdleCall
    <2>2. \A d \in Calls \ {c} : claim'[d] = claim[d]
      BY <1>4 DEF IInv, TypeOK
    <2>3. claim'[c].phase = "idle"
      BY <1>4, <2>1 DEF IInv, TypeOK
    <2>4. \A u \in Tasks \ {t} : task'[u] = task[u]
      BY <1>2 DEF IInv, TypeOK
    <2>. QED
      BY <1>1, <2>2, <2>3, <2>4 DEF IInv, ClaimsSound
  <1>. QED
    BY <1>5, <1>6, <1>7 DEF IInv

LEMMA LockStep ==
  ASSUME IInv, NEW c \in Calls, ClaimLock(c) PROVE IInv'
  <1>1. claim[c] \in CallType /\ claim[c].agent \in Agents
    BY DEF IInv, TypeOK, ClaimsSound, ClaimLock
  <1>2. CASE SetCall(c, IdleCall)
    BY <1>2, CallStep DEF ClaimLock, IdleCall, CallType
  <1>3. CASE ~SetCall(c, IdleCall)
    <2>1. PICK t \in Tasks :
            /\ Eligible(claim[c].agent, claim[c].allowed, t) /\ ~Locked(t)
            /\ SetCall(c, [claim[c] EXCEPT !.phase = "locked", !.task = t])
      BY <1>3 DEF ClaimLock
    <2>2. [claim[c] EXCEPT !.phase = "locked", !.task = t] \in CallType
      BY <1>1 DEF CallType
    <2>3. UNCHANGED <<task, results, resting, topicRest>>
      BY DEF ClaimLock
    <2>4. TypeOK'
      BY <2>1, <2>2, <2>3 DEF IInv, TypeOK, SetCall, Published
    <2>5. /\ claim'[c].phase = "locked" /\ claim'[c].task = t
          /\ claim'[c].agent = claim[c].agent
      BY <1>1, <2>1 DEF SetCall, IInv, TypeOK, CallType
    <2>6. \A d \in Calls \ {c} : claim'[d] = claim[d]
      BY <2>1 DEF SetCall, IInv, TypeOK
    <2>7. task[t].status = "PENDING" /\ RoutedTo(claim[c].agent, task[t])
      BY <2>1 DEF Eligible
    <2>8. \A d \in Calls : claim[d].phase = "locked" => claim[d].task # t
      BY <2>1 DEF Locked
    <2>9. ClaimsSound'
      BY <1>1, <2>3, <2>5, <2>6, <2>7, <2>8 DEF IInv, ClaimsSound
    <2>. QED
      BY <2>3, <2>4, <2>9 DEF IInv
  <1>. QED
    BY <1>2, <1>3

LEMMA CallSteps ==
  ASSUME IInv, NEW c \in Calls,
         \/ \E a \in Agents : ClaimAuth(c, a)
         \/ ClaimCount(c) \/ ClaimTopics(c) \/ ClaimAbort(c)
  PROVE  IInv'
  <1>0. claim[c] \in CallType /\ IdleCall \in CallType /\ IdleCall.phase = "idle"
    BY DEF IInv, TypeOK, IdleCall, CallType
  <1>1. ASSUME NEW a \in Agents, ClaimAuth(c, a) PROVE IInv'
    <2>. DEFINE call == [IdleCall EXCEPT !.phase = "authed", !.agent = a]
    <2>1. call \in CallType /\ call.phase = "authed" /\ call.agent = a
      BY <1>0 DEF CallType, IdleCall
    <2>. HIDE DEF call
    <2>2. SetCall(c, call) /\ UNCHANGED <<task, results, resting, topicRest>>
      BY <1>1 DEF ClaimAuth, call
    <2>. QED
      BY <2>1, <2>2, CallStep
  <1>2. CASE ClaimAbort(c)
    BY <1>0, <1>2, CallStep DEF ClaimAbort
  <1>3. CASE ClaimCount(c)
    <2>1. claim[c].agent \in Agents
      BY <1>3 DEF ClaimCount, IInv, ClaimsSound
    <2>. DEFINE call == [claim[c] EXCEPT !.phase = "counted"]
    <2>2. call \in CallType /\ call.phase = "counted" /\ call.agent = claim[c].agent
      BY <1>0 DEF CallType
    <2>3. SetCall(c, IdleCall) \/ SetCall(c, call)
      BY <1>3 DEF ClaimCount
    <2>. HIDE DEF call
    <2>. QED
      BY <1>0, <1>3, <2>1, <2>2, <2>3, CallStep DEF ClaimCount
  <1>4. CASE ClaimTopics(c)
    <2>1. claim[c].agent \in Agents
      BY <1>4 DEF ClaimTopics, IInv, ClaimsSound
    <2>. DEFINE allowed == SubscribedProjects(claim[c].agent) \ topicRest[claim[c].agent]
                call == [claim[c] EXCEPT !.phase = "routed", !.allowed = allowed]
    <2>2. allowed \subseteq Projects
      BY DEF SubscribedProjects, Projects
    <2>. HIDE DEF allowed
    <2>3. call \in CallType /\ call.phase = "routed" /\ call.agent = claim[c].agent
      BY <1>0, <2>2 DEF CallType
    <2>4. SetCall(c, IdleCall) \/ SetCall(c, call)
      BY <1>4 DEF ClaimTopics, allowed
    <2>. HIDE DEF call
    <2>. QED
      BY <1>0, <1>4, <2>1, <2>3, <2>4, CallStep DEF ClaimTopics
  <1>. QED
    BY <1>1, <1>2, <1>3, <1>4

(* Heartbeat and checkpoint keep the row in flight. *)
LEMMA RenewStep ==
  ASSUME IInv, NEW a \in Agents, NEW t \in Tasks,
         Heartbeat(a, t) \/ \E s \in Checkpoints : Checkpoint(a, t, s)
  PROVE  IInv'
  <1>1. PICK s \in Checkpoints \union {NULL} :
          \/ SetTask(t, [task[t] EXCEPT !.lease_expires_at = VisibilityTimeout,
                                        !.status = "RUNNING"])
          \/ SetTask(t, [task[t] EXCEPT !.state = s])
    BY DEF Heartbeat, Checkpoint
  <1>2. /\ ~Locked(t) /\ LeaseIsValid(task[t], a)
        /\ UNCHANGED <<results, resting, topicRest, claim>>
    BY DEF Heartbeat, Checkpoint
  <1>3. Published(t) /\ task[t].status \in INFLIGHT_STATUSES
    BY <1>2 DEF LeaseIsValid, Published, INFLIGHT_STATUSES
  <1>4. RowOK(task[t], results[t]) /\ task[t] \in Row
    BY <1>3, RowFacts
  <1>5. results' = [results EXCEPT ![t] = results[t]]
    BY <1>2 DEF IInv, TypeOK
  <1>6. ASSUME NEW row \in Row, SetTask(t, row), RowOK(row, results[t]) PROVE IInv'
    BY <1>2, <1>5, <1>6, OneRowStep DEF SetTask
  <1>7. CASE SetTask(t, [task[t] EXCEPT !.state = s])
    <2>. DEFINE row == [task[t] EXCEPT !.state = s]
    <2>1. /\ row \in Row /\ row.status = task[t].status
          /\ row.req = task[t].req /\ row.retry_count = task[t].retry_count
          /\ row.assigned_agent_id = task[t].assigned_agent_id
          /\ row.group_id = task[t].group_id
          /\ row.lease_expires_at = task[t].lease_expires_at
          /\ row.assign_to_agent_id = task[t].assign_to_agent_id
      BY <1>4 DEF Row
    <2>. HIDE DEF row
    <2>2. RowOK(row, results[t])
      BY <1>2, <1>3, <1>4, <2>1, HeldRowOK DEF LeaseIsValid
    <2>. QED
      BY <1>6, <1>7, <2>1, <2>2 DEF row
  <1>8. CASE SetTask(t, [task[t] EXCEPT !.lease_expires_at = VisibilityTimeout,
                                        !.status = "RUNNING"])
    <2>. DEFINE row == [task[t] EXCEPT !.lease_expires_at = VisibilityTimeout,
                                       !.status = "RUNNING"]
    <2>1. /\ VisibilityTimeout \in LeaseTime /\ VisibilityTimeout # NULL
          /\ "RUNNING" \in Statuses
      BY NumbersAssumption, SetsAssumption DEF LeaseTime, Past, Statuses
    <2>2. /\ row \in Row /\ row.status = "RUNNING"
          /\ row.req = task[t].req /\ row.retry_count = task[t].retry_count
          /\ row.assigned_agent_id = task[t].assigned_agent_id
          /\ row.group_id = task[t].group_id
          /\ row.lease_expires_at = VisibilityTimeout
          /\ row.assign_to_agent_id = task[t].assign_to_agent_id
      BY <1>4, <2>1 DEF Row
    <2>. HIDE DEF row
    <2>3. RowOK(row, results[t])
      BY <1>3, <1>4, <2>1, <2>2, HeldRowOK DEF INFLIGHT_STATUSES
    <2>. QED
      BY <1>6, <1>8, <2>2, <2>3 DEF row
  <1>. QED
    BY <1>1, <1>7, <1>8

LEMMA SuccessStep ==
  ASSUME IInv, NEW a \in Agents, NEW t \in Tasks, CompleteSuccess(a, t)
  PROVE  IInv'
  <1>1. /\ ~Locked(t) /\ task[t].status \in INFLIGHT_STATUSES /\ Published(t)
        /\ UNCHANGED <<resting, topicRest, claim>>
    BY DEF CompleteSuccess, LeaseIsValid, Published, INFLIGHT_STATUSES
  <1>. DEFINE row == [task[t] EXCEPT !.status = "COMPLETED"]
              res == [results[t] EXCEPT !.success = @ + 1]
  <1>2. RowOK(task[t], results[t]) /\ task[t] \in Row /\ results[t] \in ResultCount
    BY <1>1, RowFacts
  <1>3. /\ row \in Row /\ row.status = "COMPLETED" /\ row.req = task[t].req
        /\ row.retry_count = task[t].retry_count
    BY <1>2 DEF Row, Statuses
  <1>4. /\ res.success = 1 /\ res.failure = results[t].failure /\ res \in ResultCount
    BY <1>1, <1>2 DEF RowOK, ResultCount, INFLIGHT_STATUSES
  <1>5. task' = [task EXCEPT ![t] = row] /\ results' = [results EXCEPT ![t] = res]
    BY DEF CompleteSuccess, SetTask, IInv, TypeOK
  <1>. HIDE DEF row, res
  <1>6. RowOK(row, res)
    BY <1>1, <1>2, <1>3, <1>4, RowFacts DEF RowOK, INFLIGHT_STATUSES
  <1>. QED
    BY <1>1, <1>5, <1>6, OneRowStep

LEMMA FailureStep ==
  ASSUME IInv, NEW a \in Agents, NEW t \in Tasks, CompleteFailure(a, t)
  PROVE  IInv'
  <1>1. /\ ~Locked(t) /\ task[t].status \in INFLIGHT_STATUSES /\ Published(t)
        /\ UNCHANGED <<resting, topicRest, claim>>
    BY DEF CompleteFailure, LeaseIsValid, Published, INFLIGHT_STATUSES
  <1>. DEFINE res  == [results[t] EXCEPT !.failure = @ + 1]
              r    == Released(task[t])
              n    == task[t].retry_count + 1
              back == [r EXCEPT !.status = "PENDING", !.retry_count = @ + 1,
                                !.visible_after = Backoff(task[t].retry_count)]
              dead == [task[t] EXCEPT !.status = "DEAD", !.retry_count = @ + 1]
  <1>2. /\ RowOK(task[t], results[t]) /\ task[t] \in Row /\ results[t] \in ResultCount
        /\ task[t].retry_count \in Nat /\ task[t].req.max_retries \in Int
        /\ results[t].failure <= task[t].retry_count /\ results[t].failure \in Nat
    BY <1>1, RowFacts
  <1>3. results[t].success = 0
    BY <1>1, <1>2 DEF RowOK, INFLIGHT_STATUSES
  <1>4. res.success = 0 /\ res.failure <= n /\ res \in ResultCount
    BY <1>2, <1>3 DEF ResultCount
  <1>5. /\ r \in Row /\ r.req = task[t].req /\ r.retry_count = task[t].retry_count
        /\ r.assigned_agent_id = NULL /\ r.group_id = NULL /\ r.lease_expires_at = NULL
    BY <1>2, ReleasedType DEF Released, Row
  <1>6. n \in Nat /\ Backoff(task[t].retry_count) \in Nat /\ {"PENDING", "DEAD"} \subseteq Statuses
    BY <1>2, BackoffBounded, NumbersAssumption DEF Statuses
  <1>7. results' = [results EXCEPT ![t] = res]
    BY DEF CompleteFailure, IInv, TypeOK
  <1>8. \/ task[t].retry_count < task[t].req.max_retries /\ SetTask(t, back)
        \/ SetTask(t, dead)
    BY DEF CompleteFailure
  <1>. HIDE DEF res, r
  <1>9. /\ back \in Row /\ back.status = "PENDING" /\ back.req = task[t].req
        /\ back.retry_count = n /\ back.assigned_agent_id = NULL
        /\ back.group_id = NULL /\ back.lease_expires_at = NULL
    BY <1>5, <1>6 DEF Row
  <1>10. /\ dead \in Row /\ dead.status = "DEAD" /\ dead.req = task[t].req
         /\ dead.retry_count = n
    BY <1>2, <1>6 DEF Row
  <1>. HIDE DEF back, dead, n
  <1>11. n = task[t].retry_count + 1 /\ n # task[t].retry_count
    BY <1>2 DEF n
  <1>12. task[t].retry_count < task[t].req.max_retries => RowOK(back, res)
    BY <1>1, <1>2, <1>4, <1>9, <1>11, EndedRowOK DEF Published
  <1>13. RowOK(dead, res)
    BY <1>1, <1>2, <1>4, <1>10, <1>11, EndedRowOK DEF Published
  <1>. QED
    BY <1>1, <1>7, <1>8, <1>12, <1>13, OneRowStep DEF SetTask

(* Requeue, cancel and stop, and reassign of an in-flight row, release it.  *)
LEMMA ReleaseStep ==
  ASSUME IInv, NEW t \in Tasks, ~Locked(t), Published(t),
         UNCHANGED <<resting, topicRest, claim>>,
         NEW row \in Row, SetTask(t, row), row.req = task[t].req,
         row.status \in {"PENDING", "DEAD"},
         row.assigned_agent_id = NULL, row.group_id = NULL,
         row.lease_expires_at = NULL,
         \/ /\ row.retry_count = task[t].retry_count
            /\ results' = results
            /\ task[t].status \in {"PENDING"} \union INFLIGHT_STATUSES
         \/ /\ row.retry_count = 0
            /\ results' = [results EXCEPT ![t] = NoResults]
  PROVE  IInv'
  <1>1. /\ RowOK(task[t], results[t]) /\ results[t] \in ResultCount
        /\ results[t].failure <= task[t].retry_count
        /\ task[t].status # "ABSENT"
    BY RowFacts DEF Published
  <1>2. NoResults \in ResultCount /\ NoResults.success = 0 /\ NoResults.failure = 0
    BY DEF NoResults, ResultCount
  <1>3. task' = [task EXCEPT ![t] = row]
    BY DEF SetTask
  <1>4. CASE results' = results /\ row.retry_count = task[t].retry_count
             /\ task[t].status \in {"PENDING"} \union INFLIGHT_STATUSES
    <2>1. results' = [results EXCEPT ![t] = results[t]]
      BY <1>4 DEF IInv, TypeOK
    <2>2. results[t].success = 0
      BY <1>1, <1>4 DEF RowOK, INFLIGHT_STATUSES
    <2>3. RowOK(row, results[t])
      BY <1>1, <1>4, <2>2, EndedRowOK
    <2>. QED
      BY <1>3, <2>1, <2>3, OneRowStep
  <1>5. CASE row.retry_count = 0 /\ results' = [results EXCEPT ![t] = NoResults]
    <2>1. RowOK(row, NoResults)
      BY <1>1, <1>2, <1>5, EndedRowOK
    <2>. QED
      BY <1>3, <1>5, <2>1, OneRowStep
  <1>. QED
    BY <1>4, <1>5

LEMMA OperatorSteps ==
  ASSUME IInv, NEW t \in Tasks,
         \/ Requeue(t) \/ Cancel(t)
         \/ \E x \in Agents \union {NULL} : Stop(t, x)
         \/ \E a \in Agents : Reassign(t, a)
  PROVE  IInv'
  <1>1. ~Locked(t) /\ UNCHANGED <<resting, topicRest, claim>>
    BY DEF Requeue, Cancel, Stop, Reassign
  <1>2. Published(t)
    BY DEF Requeue, Cancel, Stop, Reassign, InFlight, Published, INFLIGHT_STATUSES
  <1>3. task[t] \in Row /\ RowOK(task[t], results[t])
    BY <1>2, RowFacts
  <1>. DEFINE r == Released(task[t])
  <1>4. /\ r \in Row /\ r.req = task[t].req /\ r.retry_count = task[t].retry_count
        /\ r.assigned_agent_id = NULL /\ r.group_id = NULL /\ r.lease_expires_at = NULL
        /\ r.assign_to_agent_id = task[t].assign_to_agent_id
    BY <1>3, ReleasedType DEF Released, Row
  <1>5. {"PENDING", "DEAD"} \subseteq Statuses
    BY DEF Statuses
  <1>. HIDE DEF r
  <1>6. CASE Requeue(t)
    <2>. DEFINE row == [r EXCEPT !.status = "PENDING", !.visible_after = 0,
                                 !.retry_count = 0]
    <2>1. /\ row \in Row /\ row.req = task[t].req /\ row.status = "PENDING"
          /\ row.assigned_agent_id = NULL /\ row.group_id = NULL
          /\ row.lease_expires_at = NULL /\ row.retry_count = 0
      BY <1>4, <1>5 DEF Row
    <2>2. SetTask(t, row) /\ results' = [results EXCEPT ![t] = NoResults]
      BY <1>6 DEF Requeue, r
    <2>. HIDE DEF row
    <2>. QED
      BY <1>1, <1>2, <2>1, <2>2, ReleaseStep
  <1>7. CASE Cancel(t)
    <2>. DEFINE row == [r EXCEPT !.status = "DEAD"]
    <2>1. /\ row \in Row /\ row.req = task[t].req /\ row.status = "DEAD"
          /\ row.assigned_agent_id = NULL /\ row.group_id = NULL
          /\ row.lease_expires_at = NULL /\ row.retry_count = task[t].retry_count
      BY <1>4, <1>5 DEF Row
    <2>2. SetTask(t, row) /\ results' = results
      BY <1>7 DEF Cancel, r
    <2>3. task[t].status \in {"PENDING"} \union INFLIGHT_STATUSES
      BY <1>3, <1>7 DEF Cancel, Terminal, Published, RowOK, Row, Statuses, INFLIGHT_STATUSES
    <2>. HIDE DEF row
    <2>. QED
      BY <1>1, <1>2, <2>1, <2>2, <2>3, ReleaseStep
  <1>8. ASSUME NEW y \in Agents \union {NULL}, InFlight(t), results' = results,
               SetTask(t, [r EXCEPT !.status = "PENDING", !.visible_after = 0,
                                    !.assign_to_agent_id = y])
        PROVE  IInv'
    <2>. DEFINE row == [r EXCEPT !.status = "PENDING", !.visible_after = 0,
                                 !.assign_to_agent_id = y]
    <2>1. /\ row \in Row /\ row.req = task[t].req /\ row.status = "PENDING"
          /\ row.assigned_agent_id = NULL /\ row.group_id = NULL
          /\ row.lease_expires_at = NULL /\ row.retry_count = task[t].retry_count
      BY <1>4, <1>5 DEF Row
    <2>2. SetTask(t, row) /\ task[t].status \in INFLIGHT_STATUSES
      BY <1>8 DEF InFlight
    <2>. HIDE DEF row
    <2>. QED
      BY <1>1, <1>2, <1>8, <2>1, <2>2, ReleaseStep
  <1>9. ASSUME NEW x \in Agents \union {NULL}, Stop(t, x) PROVE IInv'
    <2>1. task[t].assign_to_agent_id \in Agents \union {NULL}
      BY <1>3 DEF Row
    <2>. QED
      BY <1>4, <1>8, <1>9, <2>1 DEF Stop, r
  <1>10. ASSUME NEW a \in Agents, Reassign(t, a) PROVE IInv'
    <2>1. CASE InFlight(t)
      BY <1>8, <1>10, <2>1 DEF Reassign, r
    <2>2. CASE ~InFlight(t)
      <3>. DEFINE row == [task[t] EXCEPT !.assign_to_agent_id = a]
      <3>1. /\ row \in Row /\ row.status = task[t].status
            /\ row.req = task[t].req /\ row.retry_count = task[t].retry_count
            /\ row.assigned_agent_id = task[t].assigned_agent_id
            /\ row.group_id = task[t].group_id
            /\ row.lease_expires_at = task[t].lease_expires_at
        BY <1>3 DEF Row
      <3>2. SetTask(t, row) /\ results' = results
        BY <1>10, <2>2 DEF Reassign
      <3>. HIDE DEF row
      <3>3. RowOK(row, results[t])
        BY <1>2, <1>3, <2>2, <3>1 DEF RowOK, InFlight, Published
      <3>4. results' = [results EXCEPT ![t] = results[t]]
        BY <3>2 DEF IInv, TypeOK
      <3>. QED
        BY <1>1, <3>2, <3>3, <3>4, OneRowStep DEF SetTask
    <2>. QED
      BY <2>1, <2>2
  <1>. QED
    BY <1>6, <1>7, <1>9, <1>10

(* Every row at once: the reaper and the clock. *)
LEMMA ReclaimStep == ASSUME IInv, ReclaimExpiredLeases PROVE IInv'
  <1>1. /\ task' \in [Tasks -> Row]
        /\ \A t \in Tasks : RowOK(task'[t], results'[t])
    <2>1. ASSUME NEW t \in Tasks PROVE RowOK(task'[t], results'[t])
      <3>1. RowOK(task[t], results[t]) /\ results'[t] = results[t]
        BY DEF IInv, ReclaimExpiredLeases
      <3>2. CASE Expired(t)
        BY <3>1, <3>2, ReclaimedRowOK DEF ReclaimExpiredLeases, Expired, InFlight
      <3>3. CASE ~Expired(t)
        BY <3>1, <3>3 DEF ReclaimExpiredLeases
      <3>. QED
        BY <3>2, <3>3
    <2>2. \A t \in Tasks : task'[t] \in Row
      BY <2>1 DEF RowOK
    <2>. QED
      BY <2>1, <2>2 DEF ReclaimExpiredLeases
  <1>2. TypeOK'
    BY <1>1 DEF IInv, TypeOK, RowOK, Published, ReclaimExpiredLeases
  <1>3. \A t \in Tasks : task[t].status = "PENDING" => task'[t] = task[t]
    BY DEF ReclaimExpiredLeases, Expired, InFlight, INFLIGHT_STATUSES
  <1>4. ClaimsSound'
    BY <1>3 DEF IInv, ClaimsSound, ReclaimExpiredLeases
  <1>. QED
    BY <1>1, <1>2, <1>4 DEF IInv

LEMMA TickStep == ASSUME IInv, Tick PROVE IInv'
  <1>1. /\ task' \in [Tasks -> Row]
        /\ \A t \in Tasks : RowOK(task'[t], results'[t])
    <2>1. \A t \in Tasks : RowOK(task'[t], results'[t])
      BY OlderRowOK DEF Tick, IInv
    <2>2. \A t \in Tasks : task'[t] \in Row
      BY <2>1 DEF RowOK
    <2>. QED
      BY <2>1, <2>2 DEF Tick
  <1>2. TypeOK'
    BY <1>1 DEF IInv, TypeOK, RowOK, Published, Tick
  <1>3. ClaimsSound'
    BY DEF IInv, ClaimsSound, Tick, TxOpen
  <1>. QED
    BY <1>1, <1>2, <1>3 DEF IInv

LEMMA NextIInv == IInv /\ [Next]_vars => IInv'
  <1>. SUFFICES ASSUME IInv, [Next]_vars PROVE IInv'
    OBVIOUS
  <1>1. ASSUME NEW r \in Requests, Publish(r) PROVE IInv'
    BY <1>1, PublishStep
  <1>2. ASSUME NEW c \in Calls, ClaimStep(c) \/ ClaimAbort(c) PROVE IInv'
    BY <1>2, CallSteps, LockStep, CommitStep DEF ClaimStep
  <1>3. ASSUME NEW a \in Agents, NEW t \in Tasks, AgentStep(a, t) PROVE IInv'
    BY <1>3, RenewStep, SuccessStep, FailureStep DEF AgentStep
  <1>4. CASE ReclaimExpiredLeases
    BY <1>4, ReclaimStep
  <1>5. CASE OperatorStep
    <2>1. ASSUME NEW a \in Agents, SetResting(a) PROVE IInv'
      BY <2>1 DEF SetResting, IInv, TypeOK, ClaimsSound, Published
    <2>2. ASSUME NEW a \in Agents, NEW p \in Projects, SetTopicRest(a, p) PROVE IInv'
      <3>1. TypeOK'
        BY <2>2 DEF SetTopicRest, IInv, TypeOK, Published
      <3>. QED
        BY <2>2, <3>1 DEF SetTopicRest, IInv, ClaimsSound
    <2>. QED
      BY <1>5, <2>1, <2>2, OperatorSteps DEF OperatorStep
  <1>6. CASE Tick
    BY <1>6, TickStep
  <1>7. CASE UNCHANGED vars
    BY <1>7 DEF vars, IInv, TypeOK, ClaimsSound, Published
  <1>. QED
    BY <1>1, <1>2, <1>3, <1>4, <1>5, <1>6, <1>7 DEF Next

LEMMA Invariance == Spec => []IInv
  BY InitIInv, NextIInv, PTL DEF Spec
-----------------------------------------------------------------------------
(* What follows from the invariant in every reachable state *)

(* Every column of every table keeps its type, in every execution. *)
THEOREM TypeCorrect == Spec => []TypeOK
  <1>1. IInv => TypeOK
    BY DEF IInv
  <1>. QED
    BY <1>1, Invariance, PTL

(* Claims never select a row another claim holds, and what they selected    *)
(* is still theirs to take when they commit.                                *)
THEOREM ClaimsAreSound == Spec => []ClaimsSound
  <1>1. IInv => ClaimsSound
    BY DEF IInv
  <1>. QED
    BY <1>1, Invariance, PTL

(* In-flight rows always have a holder, a group and a lease; pending rows   *)
(* never have any of them.                                                  *)
THEOREM Ownership == Spec => []OwnershipConsistent
  <1>1. IInv => OwnershipConsistent
    BY SetsAssumption, RoutesAreGroups DEF IInv, RowOK, OwnershipConsistent, InFlight
  <1>. QED
    BY <1>1, Invariance, PTL

(* An agent only ever holds a task it was routed to. *)
THEOREM Routing == Spec => []HeldByRoutedAgent
  <1>1. IInv => HeldByRoutedAgent
    BY DEF IInv, RowOK, HeldByRoutedAgent, InFlight
  <1>. QED
    BY <1>1, Invariance, PTL

(* A COMPLETED task has exactly one recorded success, any other task none.  *)
THEOREM ResultsOnce == Spec => []ResultsMatchStatus
  <1>1. IInv => ResultsMatchStatus
    BY DEF IInv, RowOK, ResultsMatchStatus
  <1>. QED
    BY <1>1, Invariance, PTL

(* A task that can still run never exceeds its retry budget. *)
THEOREM RetryBudget == Spec => []RetriesWithinBudget
  <1>1. ASSUME IInv, NEW t \in Tasks, Published(t)
        PROVE  LET row == task[t]
               IN  /\ row.retry_count > 1 => row.retry_count <= row.req.max_retries + 1
                   /\ row.status \in {"PENDING"} \union INFLIGHT_STATUSES =>
                        (row.retry_count > 0 => row.retry_count <= row.req.max_retries)
    BY <1>1, RowFacts DEF RowOK, Published
  <1>2. IInv => RetriesWithinBudget
    BY <1>1 DEF RetriesWithinBudget
  <1>. QED
    BY <1>2, Invariance, PTL
-----------------------------------------------------------------------------
(* What no step does *)

(* A task that is in flight before and after a step has the same holder. *)
LEMMA HoldersStay ==
  ASSUME IInv, [Next]_vars, NEW t \in Tasks, InFlight(t), InFlight(t)'
  PROVE  task'[t].assigned_agent_id = task[t].assigned_agent_id
  <1>. SUFFICES ASSUME task'[t] # task[t]
                PROVE  task'[t].assigned_agent_id = task[t].assigned_agent_id
    OBVIOUS
  <1>0. /\ task \in [Tasks -> Row] /\ task[t] \in Row
        /\ task[t].status \in INFLIGHT_STATUSES /\ task'[t].status \in INFLIGHT_STATUSES
    BY DEF IInv, TypeOK, InFlight
  <1>1. ASSUME NEW r \in Requests, Publish(r) PROVE FALSE
    BY <1>0, <1>1 DEF Publish, Published, INFLIGHT_STATUSES
  <1>2. ASSUME NEW c \in Calls, ClaimStep(c) \/ ClaimAbort(c) PROVE FALSE
    BY <1>0, <1>2 DEF ClaimStep, ClaimAbort, ClaimAuth, ClaimCount, ClaimTopics, ClaimLock,
                      ClaimCommit, IInv, ClaimsSound, INFLIGHT_STATUSES
  <1>3. ASSUME NEW a \in Agents, NEW u \in Tasks, AgentStep(a, u)
        PROVE  task'[t].assigned_agent_id = task[t].assigned_agent_id
    <2>1. CASE Heartbeat(a, u)
      BY <1>0, <2>1 DEF Heartbeat, SetTask, Row
    <2>4. ASSUME NEW s \in Checkpoints, Checkpoint(a, u, s)
          PROVE  task'[t].assigned_agent_id = task[t].assigned_agent_id
      BY <1>0, <2>4 DEF Checkpoint, SetTask, Row
    <2>2. CASE CompleteSuccess(a, u)
      BY <1>0, <2>2 DEF CompleteSuccess, SetTask, Row, INFLIGHT_STATUSES
    <2>3. CASE CompleteFailure(a, u)
      <3>1. task'[t].status \in {"PENDING", "DEAD"}
        BY <1>0, <2>3 DEF CompleteFailure, SetTask, Released, Row
      <3>. QED
        BY <1>0, <3>1 DEF INFLIGHT_STATUSES
    <2>. QED
      BY <1>3, <2>1, <2>2, <2>3, <2>4 DEF AgentStep
  <1>4. CASE ReclaimExpiredLeases
    <2>1. task'[t] = ReclaimedRow(task[t])
      BY <1>4 DEF ReclaimExpiredLeases
    <2>2. task'[t].status \in {"PENDING", "DEAD"}
      BY <1>0, <2>1 DEF ReclaimedRow, Released, Row
    <2>. QED
      BY <1>0, <2>2 DEF INFLIGHT_STATUSES
  <1>5. CASE OperatorStep
    <2>1. PICK u \in Tasks : \/ Requeue(u) \/ Cancel(u)
                            \/ \E x \in Agents \union {NULL} : Stop(u, x)
                            \/ \E a \in Agents : Reassign(u, a)
      BY <1>0, <1>5 DEF OperatorStep, SetResting, SetTopicRest
    <2>2. u = t
      BY <1>0, <2>1 DEF Requeue, Cancel, Stop, Reassign, SetTask
    <2>3. task'[t].status \in {"PENDING", "DEAD"}
      <3>1. CASE Requeue(t) \/ Cancel(t)
        BY <1>0, <3>1 DEF Requeue, Cancel, SetTask, Released, Row
      <3>2. CASE \E x \in Agents \union {NULL} : Stop(t, x)
        BY <1>0, <3>2 DEF Stop, SetTask, Released, Row
      <3>3. CASE \E a \in Agents : Reassign(t, a)
        BY <1>0, <3>3 DEF Reassign, SetTask, Released, Row, InFlight
      <3>. QED
        BY <2>1, <2>2, <3>1, <3>2, <3>3
    <2>. QED
      BY <1>0, <2>3 DEF INFLIGHT_STATUSES
  <1>6. CASE Tick
    BY <1>0, <1>6 DEF Tick, Older, Row
  <1>. QED
    BY <1>1, <1>2, <1>3, <1>4, <1>5, <1>6 DEF Next, vars

(* No step takes a task from one agent and gives it to another. *)
THEOREM HandOver == Spec => HolderChangesOnlyByRelease
  <1>1. IInv /\ [Next]_vars =>
          [\A t \in Tasks : InFlight(t) /\ InFlight(t)' =>
             task'[t].assigned_agent_id = task[t].assigned_agent_id]_vars
    BY HoldersStay
  <1>. QED
    BY <1>1, Invariance, PTL DEF Spec, HolderChangesOnlyByRelease
-----------------------------------------------------------------------------
(* Every step is classified by what it does to one row; the action          *)
(* properties follow from the classes.                                      *)

SameAccount(t) ==
  /\ task'[t].retry_count = task[t].retry_count
  /\ results'[t] = results[t]

(* Nobody holds t: it is published, claimed, cancelled, retargeted, or     *)
(* left alone.                                                             *)
Waits(t) == ~InFlight(t) /\ SameAccount(t) /\ task'[t].state = task[t].state

Reopens(t) ==
  /\ ~InFlight(t) /\ ~InFlight(t)'
  /\ task'[t].retry_count = 0 /\ task'[t].state = task[t].state

(* The holder of t renews its lease or saves a checkpoint, or time passes. *)
Works(t) ==
  /\ InFlight(t) /\ InFlight(t)'
  /\ SameAccount(t)
  /\ task'[t].assigned_agent_id = task[t].assigned_agent_id
  /\ task'[t].state \in Checkpoints \union {task[t].state}

Succeeds(t) ==
  /\ InFlight(t) /\ task'[t].status = "COMPLETED"
  /\ results'[t].success = results[t].success + 1
  /\ task'[t].retry_count = task[t].retry_count
  /\ task'[t].state = task[t].state

Fails(t) ==
  /\ InFlight(t) /\ ~InFlight(t)' /\ Charged(t)
  /\ results' # results /\ task'[t].state = task[t].state

Lapses(t) ==
  /\ Expired(t) /\ ~InFlight(t)' /\ Charged(t)
  /\ task'[t].state = task[t].state

Withdraws(t) ==
  /\ InFlight(t) /\ task'[t].status \in {"PENDING", "DEAD"}
  /\ SameAccount(t) /\ task'[t].state = task[t].state

RowStep(t) == \/ Waits(t) \/ Reopens(t) \/ Works(t) \/ Succeeds(t)
              \/ Fails(t) \/ Lapses(t) \/ Withdraws(t)
-----------------------------------------------------------------------------
(* A row the step does not touch. *)
LEMMA UntouchedRow ==
  ASSUME NEW t \in Tasks, task'[t] = task[t], results'[t] = results[t]
  PROVE  RowStep(t)
  BY DEF RowStep, Waits, Works, SameAccount, InFlight

LEMMA ReleasedColumns ==
  ASSUME NEW row \in Row
  PROVE  /\ Released(row) \in Row
         /\ Released(row).retry_count = row.retry_count
         /\ Released(row).state = row.state
  BY DEF Released, Row

LEMMA ClaimRowStep ==
  ASSUME IInv, NEW c \in Calls, ClaimStep(c) \/ ClaimAbort(c), NEW t \in Tasks
  PROVE  RowStep(t)
  <1>1. CASE ClaimCommit(c)
    <2>1. claim[c].task \in Tasks /\ task[claim[c].task].status = "PENDING"
      BY <1>1 DEF ClaimCommit, IInv, ClaimsSound
    <2>2. results' = results
      BY <1>1 DEF ClaimCommit
    <2>3. task \in [Tasks -> Row]
      BY DEF IInv, TypeOK
    <2>4. CASE t = claim[c].task
      <3>1. task'[t].retry_count = task[t].retry_count /\ task'[t].state = task[t].state
        BY <1>1, <2>1, <2>3, <2>4 DEF ClaimCommit, Row
      <3>. QED
        BY <2>1, <2>2, <2>4, <3>1 DEF RowStep, Waits, SameAccount, InFlight, INFLIGHT_STATUSES
    <2>5. CASE t # claim[c].task
      <3>1. task'[t] = task[t]
        BY <1>1, <2>3, <2>5 DEF ClaimCommit
      <3>. QED
        BY <2>2, <3>1, UntouchedRow
    <2>. QED
      BY <2>4, <2>5
  <1>2. CASE ~ClaimCommit(c)
    <2>1. task' = task /\ results' = results
      BY <1>2 DEF ClaimStep, ClaimAbort, ClaimAuth, ClaimCount, ClaimTopics, ClaimLock
    <2>. QED
      BY <2>1, UntouchedRow
  <1>. QED
    BY <1>1, <1>2

LEMMA PublishRowStep ==
  ASSUME IInv, NEW r \in Requests, Publish(r), NEW t \in Tasks
  PROVE  RowStep(t)
  <1>1. PICK u \in Tasks : /\ ~Published(u)
                           /\ task' = [task EXCEPT ![u] =
                                [AbsentRow EXCEPT !.req = r, !.status = "PENDING",
                                                  !.visible_after = r.delay,
                                                  !.scheduled_for = r.delay]]
    BY DEF Publish
  <1>2. results' = results /\ task \in [Tasks -> Row]
    BY DEF Publish, IInv, TypeOK
  <1>3. CASE t = u
    <2>1. task[t] = AbsentRow
      BY <1>1, <1>3 DEF IInv, RowOK, Published
    <2>2. task'[t].retry_count = task[t].retry_count /\ task'[t].state = task[t].state
      BY <1>1, <1>2, <1>3, <2>1 DEF AbsentRow
    <2>. QED
      BY <1>2, <2>1, <2>2 DEF RowStep, Waits, SameAccount, InFlight, INFLIGHT_STATUSES, AbsentRow
  <1>4. CASE t # u
    <2>1. task'[t] = task[t]
      BY <1>1, <1>2, <1>4
    <2>. QED
      BY <1>2, <2>1, UntouchedRow
  <1>. QED
    BY <1>3, <1>4

(* The holder of a valid lease is working. *)
LEMMA LeaseInFlight ==
  ASSUME NEW a, NEW t, LeaseIsValid(task[t], a)
  PROVE  InFlight(t) /\ task[t].status \in INFLIGHT_STATUSES
  BY DEF LeaseIsValid, InFlight

LEMMA AgentRowStep ==
  ASSUME IInv, NEW a \in Agents, NEW u \in Tasks, AgentStep(a, u), NEW t \in Tasks
  PROVE  RowStep(t)
  <1>1. /\ task \in [Tasks -> Row] /\ results \in [Tasks -> ResultCount]
        /\ task[t] \in Row /\ results[t] \in ResultCount
    BY DEF IInv, TypeOK
  <1>2. CASE t # u
    <2>1. task'[t] = task[t] /\ results'[t] = results[t]
      BY <1>1, <1>2 DEF AgentStep, Heartbeat, Checkpoint, CompleteSuccess, CompleteFailure, SetTask
    <2>. QED
      BY <2>1, UntouchedRow
  <1>3. ASSUME Heartbeat(a, t) PROVE RowStep(t)
    <2>1. task'[t] = [task[t] EXCEPT !.lease_expires_at = VisibilityTimeout, !.status = "RUNNING"]
      BY <1>1, <1>3 DEF Heartbeat, SetTask
    <2>2. /\ task'[t].retry_count = task[t].retry_count
          /\ task'[t].state = task[t].state
          /\ task'[t].assigned_agent_id = task[t].assigned_agent_id
          /\ task'[t].status = "RUNNING"
      BY <1>1, <2>1 DEF Row
    <2>3. InFlight(t) /\ results' = results
      BY <1>3, LeaseInFlight DEF Heartbeat
    <2>. QED
      BY <2>2, <2>3 DEF RowStep, Works, SameAccount, InFlight, INFLIGHT_STATUSES
  <1>4. ASSUME NEW s \in Checkpoints, Checkpoint(a, t, s) PROVE RowStep(t)
    <2>1. task'[t] = [task[t] EXCEPT !.state = s]
      BY <1>1, <1>4 DEF Checkpoint, SetTask
    <2>2. /\ task'[t].retry_count = task[t].retry_count
          /\ task'[t].state = s
          /\ task'[t].assigned_agent_id = task[t].assigned_agent_id
          /\ task'[t].status = task[t].status
      BY <1>1, <2>1 DEF Row
    <2>3. InFlight(t) /\ results' = results
      BY <1>4, LeaseInFlight DEF Checkpoint
    <2>. QED
      BY <2>2, <2>3 DEF RowStep, Works, SameAccount, InFlight
  <1>5. ASSUME CompleteSuccess(a, t) PROVE RowStep(t)
    <2>1. task'[t] = [task[t] EXCEPT !.status = "COMPLETED"]
      BY <1>1, <1>5 DEF CompleteSuccess, SetTask
    <2>2. results'[t].success = results[t].success + 1
      BY <1>1, <1>5 DEF CompleteSuccess, ResultCount
    <2>3. InFlight(t)
      BY <1>5, LeaseInFlight DEF CompleteSuccess
    <2>. QED
      BY <1>1, <2>1, <2>2, <2>3 DEF RowStep, Succeeds, Row
  <1>6. ASSUME CompleteFailure(a, t) PROVE RowStep(t)
    <2>1. InFlight(t) /\ Published(t)
      BY <1>6, LeaseInFlight DEF CompleteFailure, Published, INFLIGHT_STATUSES
    <2>2. task[t].retry_count \in Nat /\ task[t].req.max_retries \in Int
      BY <2>1, RowFacts
    <2>3. results'[t] = [results[t] EXCEPT !.failure = @ + 1]
      BY <1>1, <1>6 DEF CompleteFailure
    <2>4. results'[t].success = results[t].success /\ results' # results
      BY <1>1, <2>3 DEF ResultCount
    <2>5. CASE task[t].retry_count < task[t].req.max_retries
      <3>. DEFINE row == Released(task[t])
      <3>1. task'[t] = [row EXCEPT !.status = "PENDING", !.retry_count = @ + 1,
                                   !.visible_after = Backoff(task[t].retry_count)]
        BY <1>1, <1>6, <2>2, <2>5 DEF CompleteFailure, SetTask
      <3>2. row \in Row /\ row.retry_count = task[t].retry_count /\ row.state = task[t].state
        BY <1>1, ReleasedColumns
      <3>. HIDE DEF row
      <3>3. /\ task'[t].status = "PENDING"
            /\ task'[t].retry_count = task[t].retry_count + 1
            /\ task'[t].visible_after = Backoff(task[t].retry_count)
            /\ task'[t].state = task[t].state
        BY <3>1, <3>2 DEF Row
      <3>4. Charged(t)
        BY <2>2, <2>4, <2>5, <3>3 DEF Charged
      <3>. QED
        BY <2>1, <2>4, <3>3, <3>4 DEF RowStep, Fails, InFlight, INFLIGHT_STATUSES
    <2>6. CASE task[t].retry_count >= task[t].req.max_retries
      <3>1. task'[t] = [task[t] EXCEPT !.status = "DEAD", !.retry_count = @ + 1]
        BY <1>1, <1>6, <2>2, <2>6 DEF CompleteFailure, SetTask
      <3>2. /\ task'[t].status = "DEAD"
            /\ task'[t].retry_count = task[t].retry_count + 1
            /\ task'[t].state = task[t].state
        BY <1>1, <3>1 DEF Row
      <3>3. Charged(t)
        BY <2>4, <2>6, <3>2 DEF Charged
      <3>. QED
        BY <2>1, <2>4, <3>2, <3>3 DEF RowStep, Fails, InFlight, INFLIGHT_STATUSES
    <2>. QED
      BY <2>2, <2>5, <2>6
  <1>. QED
    BY <1>2, <1>3, <1>4, <1>5, <1>6 DEF AgentStep

LEMMA ReaperRowStep ==
  ASSUME IInv, ReclaimExpiredLeases, NEW t \in Tasks
  PROVE  RowStep(t)
  <1>1. task[t] \in Row /\ results' = results
    BY DEF IInv, TypeOK, ReclaimExpiredLeases
  <1>2. CASE ~Expired(t)
    <2>1. task'[t] = task[t]
      BY <1>2 DEF ReclaimExpiredLeases
    <2>. QED
      BY <1>1, <2>1, UntouchedRow
  <1>3. CASE Expired(t)
    <2>. DEFINE row == Released(task[t])
    <2>1. row \in Row /\ row.retry_count = task[t].retry_count /\ row.state = task[t].state
      BY <1>1, ReleasedColumns
    <2>2. task[t].retry_count \in Nat /\ task[t].req.max_retries \in Int
      BY <1>3, RowFacts DEF Expired, InFlight, Published, INFLIGHT_STATUSES
    <2>3. task'[t] = ReclaimedRow(task[t])
      BY <1>3 DEF ReclaimExpiredLeases
    <2>4. CASE task[t].retry_count + 1 > task[t].req.max_retries
      <3>1. task'[t] = [row EXCEPT !.status = "DEAD", !.retry_count = @ + 1]
        BY <2>3, <2>4 DEF ReclaimedRow
      <3>. HIDE DEF row
      <3>2. /\ task'[t].status = "DEAD"
            /\ task'[t].retry_count = task[t].retry_count + 1
            /\ task'[t].state = task[t].state
        BY <2>1, <3>1 DEF Row
      <3>3. Charged(t)
        BY <1>1, <2>2, <2>4, <3>2 DEF Charged
      <3>. QED
        BY <1>3, <3>2, <3>3 DEF RowStep, Lapses, InFlight, INFLIGHT_STATUSES
    <2>5. CASE ~(task[t].retry_count + 1 > task[t].req.max_retries)
      <3>1. task'[t] = [row EXCEPT !.status = "PENDING", !.retry_count = @ + 1,
                                   !.visible_after = Backoff(task[t].retry_count)]
        BY <2>3, <2>5 DEF ReclaimedRow
      <3>. HIDE DEF row
      <3>2. /\ task'[t].status = "PENDING"
            /\ task'[t].retry_count = task[t].retry_count + 1
            /\ task'[t].visible_after = Backoff(task[t].retry_count)
            /\ task'[t].state = task[t].state
        BY <2>1, <3>1 DEF Row
      <3>3. Charged(t)
        BY <1>1, <2>2, <2>5, <3>2 DEF Charged
      <3>. QED
        BY <1>3, <3>2, <3>3 DEF RowStep, Lapses, InFlight, INFLIGHT_STATUSES
    <2>. QED
      BY <2>4, <2>5
  <1>. QED
    BY <1>2, <1>3

(* A row that an operator takes back, opens afresh or retargets. *)
LEMMA OperatorRowStep ==
  ASSUME IInv, OperatorStep, NEW t \in Tasks
  PROVE  RowStep(t)
  <1>1. /\ task \in [Tasks -> Row] /\ results \in [Tasks -> ResultCount]
        /\ task[t] \in Row
    BY DEF IInv, TypeOK
  <1>. DEFINE row == Released(task[t])
  <1>2. row \in Row /\ row.retry_count = task[t].retry_count /\ row.state = task[t].state
    BY <1>1, ReleasedColumns
  <1>. HIDE DEF row
  <1>3. CASE UNCHANGED <<task, results>>
    BY <1>3, UntouchedRow
  <1>4. ASSUME NEW u \in Tasks, u # t,
               \/ Requeue(u) \/ Cancel(u)
               \/ \E x \in Agents \union {NULL} : Stop(u, x)
               \/ \E a \in Agents : Reassign(u, a)
        PROVE  RowStep(t)
    <2>1. task'[t] = task[t] /\ results'[t] = results[t]
      BY <1>1, <1>4 DEF Requeue, Cancel, Stop, Reassign, SetTask
    <2>. QED
      BY <2>1, UntouchedRow
  <1>5. ASSUME Requeue(t) PROVE RowStep(t)
    <2>1. task'[t] = [row EXCEPT !.status = "PENDING", !.visible_after = 0, !.retry_count = 0]
      BY <1>1, <1>5 DEF Requeue, SetTask, row
    <2>2. task'[t].status = "PENDING" /\ task'[t].retry_count = 0 /\ task'[t].state = task[t].state
      BY <1>2, <2>1 DEF Row
    <2>. QED
      BY <1>5, <2>2 DEF Requeue, RowStep, Reopens, InFlight, INFLIGHT_STATUSES
  <1>6. ASSUME Cancel(t) PROVE RowStep(t)
    <2>1. task'[t] = [row EXCEPT !.status = "DEAD"] /\ results' = results
      BY <1>1, <1>6 DEF Cancel, SetTask, row
    <2>2. /\ task'[t].status = "DEAD" /\ task'[t].state = task[t].state
          /\ task'[t].retry_count = task[t].retry_count
      BY <1>2, <2>1 DEF Row
    <2>. QED
      BY <2>1, <2>2 DEF RowStep, Waits, Withdraws, SameAccount
  <1>7. ASSUME NEW x \in Agents \union {NULL}, Stop(t, x) PROVE RowStep(t)
    <2>1. \E y : task'[t] = [row EXCEPT !.status = "PENDING", !.visible_after = 0,
                                       !.assign_to_agent_id = y]
      BY <1>1, <1>7 DEF Stop, SetTask, row
    <2>2. /\ task'[t].status = "PENDING" /\ task'[t].state = task[t].state
          /\ task'[t].retry_count = task[t].retry_count
      BY <1>2, <2>1 DEF Row
    <2>3. InFlight(t) /\ results' = results
      BY <1>7 DEF Stop
    <2>. QED
      BY <2>2, <2>3 DEF RowStep, Withdraws, SameAccount
  <1>8. ASSUME NEW a \in Agents, Reassign(t, a) PROVE RowStep(t)
    <2>1. results' = results
      BY <1>8 DEF Reassign
    <2>2. CASE InFlight(t)
      <3>1. task'[t] = [row EXCEPT !.status = "PENDING", !.visible_after = 0,
                                   !.assign_to_agent_id = a]
        BY <1>1, <1>8, <2>2 DEF Reassign, SetTask, row
      <3>2. /\ task'[t].status = "PENDING" /\ task'[t].state = task[t].state
            /\ task'[t].retry_count = task[t].retry_count
        BY <1>2, <3>1 DEF Row
      <3>. QED
        BY <2>1, <2>2, <3>2 DEF RowStep, Withdraws, SameAccount
    <2>3. CASE ~InFlight(t)
      <3>1. task'[t] = [task[t] EXCEPT !.assign_to_agent_id = a]
        BY <1>1, <1>8, <2>3 DEF Reassign, SetTask
      <3>2. task'[t].state = task[t].state /\ task'[t].retry_count = task[t].retry_count
        BY <1>1, <3>1 DEF Row
      <3>. QED
        BY <2>1, <2>3, <3>2 DEF RowStep, Waits, SameAccount
    <2>. QED
      BY <2>2, <2>3
  <1>. QED
    BY <1>3, <1>4, <1>5, <1>6, <1>7, <1>8 DEF OperatorStep, SetResting, SetTopicRest

LEMMA TickRowStep ==
  ASSUME IInv, Tick, NEW t \in Tasks
  PROVE  RowStep(t)
  <1>1. task[t] \in Row /\ task'[t] = Older(task[t]) /\ results' = results
    BY DEF IInv, TypeOK, Tick
  <1>2. /\ task'[t].retry_count = task[t].retry_count /\ task'[t].state = task[t].state
        /\ task'[t].assigned_agent_id = task[t].assigned_agent_id
        /\ task'[t].status = task[t].status
    BY <1>1 DEF Older, Row
  <1>. QED
    BY <1>1, <1>2 DEF RowStep, Waits, Works, SameAccount, InFlight

(* Every step of the system does one of seven things to each row. *)
LEMMA StepsClassified ==
  ASSUME IInv, [Next]_vars, NEW t \in Tasks
  PROVE  RowStep(t)
  <1>1. CASE UNCHANGED vars
    BY <1>1, UntouchedRow DEF vars
  <1>2. CASE Next
    BY <1>2, PublishRowStep, ClaimRowStep, AgentRowStep, ReaperRowStep, OperatorRowStep,
       TickRowStep DEF Next
  <1>. QED
    BY <1>1, <1>2
-----------------------------------------------------------------------------
(* Theorems *)

(* An attempt never ends without a recorded success, a charged retry or an *)
(* operator's decision, and is never charged in two ways.                  *)
THEOREM AttemptsAccounted == Spec => EveryAttemptAccounted
  <1>. DEFINE Accounted(t) ==
         InFlight(t) /\ ~InFlight(t)' =>
           \/ /\ task'[t].status = "COMPLETED"
              /\ results'[t].success = results[t].success + 1
              /\ task'[t].retry_count = task[t].retry_count
           \/ Charged(t)
           \/ /\ task'[t].status \in {"PENDING", "DEAD"}
              /\ task'[t].retry_count = task[t].retry_count
              /\ results'[t] = results[t]
  <1>1. ASSUME IInv, [Next]_vars, NEW t \in Tasks PROVE Accounted(t)
    BY <1>1, StepsClassified
       DEF RowStep, Waits, Reopens, Works, Succeeds, Fails, Lapses, Withdraws, SameAccount
  <1>2. IInv /\ [Next]_vars => [\A t \in Tasks : Accounted(t)]_vars
    BY <1>1
  <1>. QED
    BY <1>2, Invariance, PTL DEF Spec, EveryAttemptAccounted

(* The reaper charges no attempt whose lease has not run out, whatever the *)
(* difference of the clocks.                                               *)
THEOREM LiveLeasesAreSafe == Spec => LiveLeaseNeverReclaimed
  <1>. DEFINE Safe(t) ==
         task'[t].retry_count > task[t].retry_count /\ results' = results =>
           InFlight(t) /\ task[t].lease_expires_at < 0
  <1>1. ASSUME IInv, [Next]_vars, NEW t \in Tasks PROVE Safe(t)
    <2>1. task[t].retry_count \in Nat /\ results[t].success \in Nat
      BY <1>1 DEF IInv, TypeOK, Row, ResultCount
    <2>2. Lapses(t) => InFlight(t) /\ task[t].lease_expires_at < 0
      BY DEF Lapses, Expired
    <2>3. RowStep(t)
      BY <1>1, StepsClassified
    <2>. QED
      BY <2>1, <2>2, <2>3 DEF RowStep, Waits, Reopens, Works, Succeeds, Fails, Withdraws, SameAccount
  <1>2. IInv /\ [Next]_vars => [\A t \in Tasks : Safe(t)]_vars
    BY <1>1
  <1>. QED
    BY <1>2, Invariance, PTL DEF Spec, LiveLeaseNeverReclaimed

(* No release, cancellation or requeue loses a checkpoint, and nobody but  *)
(* the holder writes one.                                                  *)
THEOREM CheckpointsSurvive == Spec => CheckpointSurvives
  <1>. DEFINE Survives(t) ==
         task'[t].state # task[t].state =>
           /\ InFlight(t) /\ InFlight(t)'
           /\ task'[t].assigned_agent_id = task[t].assigned_agent_id
           /\ task'[t].state # NULL
  <1>1. ASSUME IInv, [Next]_vars, NEW t \in Tasks PROVE Survives(t)
    BY <1>1, StepsClassified, SetsAssumption
       DEF RowStep, Waits, Reopens, Works, Succeeds, Fails, Lapses, Withdraws
  <1>2. IInv /\ [Next]_vars => [\A t \in Tasks : Survives(t)]_vars
    BY <1>1
  <1>. QED
    BY <1>2, Invariance, PTL DEF Spec, CheckpointSurvives
-----------------------------------------------------------------------------
(* The concurrency limit *)

(* A task comes into flight by the commit of a claim and in no other way. *)
LEMMA OnlyClaimsTake ==
  ASSUME IInv, [Next]_vars, NEW t \in Tasks, ~InFlight(t), InFlight(t)'
  PROVE  \E c \in Calls : ClaimCommit(c)
  <1>. SUFFICES ASSUME \A c \in Calls : ~ClaimCommit(c) PROVE FALSE
    OBVIOUS
  <1>0. /\ task \in [Tasks -> Row] /\ task[t] \in Row
        /\ task[t].status \notin INFLIGHT_STATUSES /\ task'[t].status \in INFLIGHT_STATUSES
    BY DEF IInv, TypeOK, InFlight
  <1>1. ASSUME NEW r \in Requests, Publish(r) PROVE FALSE
    <2>1. PICK u \in Tasks : task' = [task EXCEPT ![u] =
                               [AbsentRow EXCEPT !.req = r, !.status = "PENDING",
                                                 !.visible_after = r.delay,
                                                 !.scheduled_for = r.delay]]
      BY <1>1 DEF Publish
    <2>. QED
      BY <1>0, <2>1 DEF AbsentRow, INFLIGHT_STATUSES
  <1>2. ASSUME NEW c \in Calls, ClaimStep(c) \/ ClaimAbort(c) PROVE FALSE
    BY <1>0, <1>2 DEF ClaimStep, ClaimAbort, ClaimAuth, ClaimCount, ClaimTopics, ClaimLock
  <1>3. ASSUME NEW a \in Agents, NEW u \in Tasks, AgentStep(a, u) PROVE FALSE
    BY <1>0, <1>3 DEF AgentStep, Heartbeat, Checkpoint, CompleteSuccess, CompleteFailure,
                      SetTask, LeaseIsValid
  <1>4. CASE ReclaimExpiredLeases
    BY <1>0, <1>4 DEF ReclaimExpiredLeases, Expired, InFlight
  <1>5. CASE OperatorStep
    <2>1. PICK u \in Tasks : \/ Requeue(u) \/ Cancel(u)
                            \/ \E x \in Agents \union {NULL} : Stop(u, x)
                            \/ \E a \in Agents : Reassign(u, a)
      BY <1>0, <1>5 DEF OperatorStep, SetResting, SetTopicRest
    <2>2. u = t
      BY <1>0, <2>1 DEF Requeue, Cancel, Stop, Reassign, SetTask
    <2>3. CASE Requeue(t) \/ Cancel(t)
      BY <1>0, <2>3 DEF Requeue, Cancel, SetTask, Released, Row, INFLIGHT_STATUSES
    <2>4. CASE \E x \in Agents \union {NULL} : Stop(t, x)
      BY <1>0, <2>4 DEF Stop, InFlight
    <2>5. CASE \E a \in Agents : Reassign(t, a)
      BY <1>0, <2>5 DEF Reassign, InFlight, SetTask, Row
    <2>. QED
      BY <2>1, <2>2, <2>3, <2>4, <2>5
  <1>6. CASE Tick
    BY <1>0, <1>6 DEF Tick, Older, Row
  <1>7. CASE UNCHANGED vars
    BY <1>0, <1>7 DEF vars
  <1>. QED
    BY <1>1, <1>2, <1>3, <1>4, <1>5, <1>6, <1>7 DEF Next

(* The claims of an agent that have counted its tasks and not yet committed. *)
Committing(a) == {c \in Calls : /\ claim[c].agent = a
                               /\ claim[c].phase \in {"counted", "routed", "locked"}}

(* Each of them is paid for in advance: this is what OvershootBounded lacks *)
(* to be inductive.                                                         *)
CountedOnce ==
  \A a \in Agents :
    Cardinality(InflightOf(a)) + Cardinality(Committing(a))
      <= MaxConcurrency[a] + Cardinality(Calls) - 1

LEMMA CountsAreFinite ==
  ASSUME NEW a
  PROVE  /\ IsFiniteSet(InflightOf(a)) /\ Cardinality(InflightOf(a)) \in Nat
         /\ IsFiniteSet(Committing(a)) /\ Cardinality(Committing(a)) \in Nat
         /\ Cardinality(Committing(a)) <= Cardinality(Calls) /\ Cardinality(Calls) \in Nat
  <1>1. IsFiniteSet(Tasks)
    BY FS_Interval, NumbersAssumption DEF Tasks
  <1>2. InflightOf(a) \in SUBSET Tasks /\ Committing(a) \in SUBSET Calls
    BY DEF InflightOf, Committing
  <1>3. IsFiniteSet(Calls)
    BY SetsAssumption
  <1>. QED
    BY <1>1, <1>2, <1>3, FS_Subset, FS_CardinalityType

(* The same of the step's second state. *)
LEMMA CountsStayFinite ==
  ASSUME NEW a
  PROVE  /\ Cardinality(InflightOf(a)') \in Nat /\ Cardinality(Committing(a)') \in Nat
         /\ Cardinality(Committing(a)') <= Cardinality(Calls)
  <1>1. IsFiniteSet(Tasks)
    BY FS_Interval, NumbersAssumption DEF Tasks
  <1>2. InflightOf(a)' \in SUBSET Tasks /\ Committing(a)' \in SUBSET Calls
    BY DEF InflightOf, Committing
  <1>3. IsFiniteSet(Calls)
    BY SetsAssumption
  <1>. QED
    BY <1>1, <1>2, <1>3, FS_Subset, FS_CardinalityType

(* What a step that commits no claim leaves an agent with. *)
LEMMA InflightShrinks ==
  ASSUME IInv, [Next]_vars, \A c \in Calls : ~ClaimCommit(c), NEW a
  PROVE  Cardinality(InflightOf(a)') <= Cardinality(InflightOf(a))
  <1>1. ASSUME NEW t \in InflightOf(a)' PROVE t \in InflightOf(a)
    <2>1. t \in Tasks /\ InFlight(t)' /\ task'[t].assigned_agent_id = a
      BY DEF InflightOf
    <2>2. InFlight(t)
      BY <2>1, OnlyClaimsTake
    <2>. QED
      BY <2>1, <2>2, HoldersStay DEF InflightOf
  <1>. QED
    BY <1>1, CountsAreFinite, FS_Subset

(* The commit turns one claim under way into one task in flight. *)
LEMMA CommitCounts ==
  ASSUME IInv, CountedOnce, NEW c \in Calls, ClaimCommit(c)
  PROVE  CountedOnce'
  <1>. DEFINE b == claim[c].agent
              t == claim[c].task
  <1>1. /\ b \in Agents /\ t \in Tasks /\ task[t].status = "PENDING"
        /\ task \in [Tasks -> Row] /\ claim \in [Calls -> CallType] /\ task[t] \in Row
    BY DEF IInv, TypeOK, ClaimsSound, ClaimCommit
  <1>2. PICK g \in Routes(b, task[t].req) :
          task' = [task EXCEPT ![t] =
                     [task[t] EXCEPT !.status = "CLAIMED", !.assigned_agent_id = b,
                                     !.group_id = g,
                                     !.lease_expires_at = VisibilityTimeout]]
    BY <1>1 DEF ClaimCommit
  <1>3. task'[t].assigned_agent_id = b /\ \A u \in Tasks \ {t} : task'[u] = task[u]
    BY <1>1, <1>2 DEF Row
  <1>4. claim' = [claim EXCEPT ![c] = IdleCall] /\ IdleCall.phase = "idle"
    BY DEF ClaimCommit, SetCall, IdleCall
  <1>5. claim[c].phase = "locked"
    BY DEF ClaimCommit
  <1>. HIDE DEF b, t
  <1>6. ASSUME NEW a \in Agents
        PROVE  Cardinality(InflightOf(a)') + Cardinality(Committing(a)')
                 <= MaxConcurrency[a] + Cardinality(Calls) - 1
    <2>0. /\ MaxConcurrency[a] \in Nat
          /\ Cardinality(InflightOf(a)) + Cardinality(Committing(a))
               <= MaxConcurrency[a] + Cardinality(Calls) - 1
      BY TablesAssumption DEF CountedOnce
    <2>1. CASE a # b
      <3>1. InflightOf(a)' \subseteq InflightOf(a)
        BY <1>3, <2>1 DEF InflightOf, InFlight
      <3>2. Committing(a)' \subseteq Committing(a)
        BY <1>1, <1>4 DEF Committing
      <3>3. /\ Cardinality(InflightOf(a)') <= Cardinality(InflightOf(a))
            /\ Cardinality(Committing(a)') <= Cardinality(Committing(a))
        BY <3>1, <3>2, CountsAreFinite, FS_Subset
      <3>. QED
        BY <2>0, <3>3, CountsAreFinite, CountsStayFinite
    <2>2. CASE a = b
      <3>1. InflightOf(a)' \subseteq InflightOf(a) \union {t}
        BY <1>3 DEF InflightOf, InFlight
      <3>2. c \in Committing(a) /\ Committing(a)' \subseteq Committing(a) \ {c}
        BY <1>1, <1>4, <1>5, <2>2 DEF Committing, b
      <3>3. /\ IsFiniteSet(InflightOf(a) \union {t})
            /\ Cardinality(InflightOf(a) \union {t}) <= Cardinality(InflightOf(a)) + 1
        <4>1. IsFiniteSet(InflightOf(a)) /\ Cardinality(InflightOf(a)) \in Nat
          BY CountsAreFinite
        <4>2. IF t \in InflightOf(a)
              THEN Cardinality(InflightOf(a) \union {t}) = Cardinality(InflightOf(a))
              ELSE Cardinality(InflightOf(a) \union {t}) = Cardinality(InflightOf(a)) + 1
          BY <4>1, FS_AddElement
        <4>. QED
          BY <4>1, <4>2, FS_AddElement
      <3>4. /\ IsFiniteSet(Committing(a) \ {c})
            /\ Cardinality(Committing(a) \ {c}) = Cardinality(Committing(a)) - 1
        BY <3>2, CountsAreFinite, FS_RemoveElement
      <3>5. /\ Cardinality(InflightOf(a)') <= Cardinality(InflightOf(a) \union {t})
            /\ Cardinality(Committing(a)') <= Cardinality(Committing(a) \ {c})
        BY <3>1, <3>2, <3>3, <3>4, FS_Subset
      <3>6. Cardinality(InflightOf(a) \union {t}) \in Nat
        BY <3>3, FS_CardinalityType
      <3>. QED
        BY <2>0, <3>3, <3>4, <3>5, <3>6, CountsAreFinite, CountsStayFinite
    <2>. QED
      BY <2>1, <2>2
  <1>. QED
    BY <1>6 DEF CountedOnce

(* A claim is let in when the agent has fewer tasks than its limit, and at  *)
(* most every call can then be one of its claims.                           *)
LEMMA CountCounts ==
  ASSUME IInv, CountedOnce, NEW c \in Calls, ClaimCount(c)
  PROVE  CountedOnce'
  <1>1. /\ claim \in [Calls -> CallType] /\ task' = task
        /\ IdleCall.phase = "idle"
    BY DEF IInv, TypeOK, ClaimCount, IdleCall
  <1>. DEFINE b == claim[c].agent
              call == [claim[c] EXCEPT !.phase = "counted"]
  <1>2. \A a : InflightOf(a)' = InflightOf(a)
    BY <1>1 DEF InflightOf, InFlight
  <1>3. /\ call.agent = b
        /\ claim' = [claim EXCEPT ![c] = IdleCall]
             \/ (Cardinality(InflightOf(b)) < MaxConcurrency[b]
                 /\ claim' = [claim EXCEPT ![c] = call])
    BY <1>1 DEF ClaimCount, SetCall, CallType
  <1>. HIDE DEF b, call
  <1>4. ASSUME NEW a \in Agents
        PROVE  Cardinality(InflightOf(a)') + Cardinality(Committing(a)')
                 <= MaxConcurrency[a] + Cardinality(Calls) - 1
    <2>1. CASE a = b /\ Cardinality(InflightOf(b)) < MaxConcurrency[b]
      BY <1>2, <2>1, CountsAreFinite, CountsStayFinite, TablesAssumption
    <2>2. CASE ~(a = b /\ Cardinality(InflightOf(b)) < MaxConcurrency[b])
      <3>1. Committing(a)' \subseteq Committing(a)
        BY <1>1, <1>3, <2>2 DEF Committing
      <3>2. Cardinality(Committing(a)') <= Cardinality(Committing(a))
        BY <3>1, CountsAreFinite, FS_Subset
      <3>. QED
        BY <1>2, <3>2, CountsAreFinite, CountsStayFinite, TablesAssumption DEF CountedOnce
    <2>. QED
      BY <2>1, <2>2
  <1>. QED
    BY <1>4 DEF CountedOnce

(* No other step adds to either side. *)
LEMMA OtherStepsCount ==
  ASSUME IInv, CountedOnce, [Next]_vars,
         \A c \in Calls : ~ClaimCommit(c) /\ ~ClaimCount(c)
  PROVE  CountedOnce'
  <1>1. claim \in [Calls -> CallType]
    BY DEF IInv, TypeOK
  <1>2. \A a : Committing(a)' \subseteq Committing(a)
    <2>1. CASE claim' = claim
      BY <2>1 DEF Committing
    <2>2. ASSUME NEW c \in Calls, ClaimStep(c) \/ ClaimAbort(c)
          PROVE  \A a : Committing(a)' \subseteq Committing(a)
      <3>. DEFINE Fewer == \A a : Committing(a)' \subseteq Committing(a)
      <3>. SUFFICES Fewer
        OBVIOUS
      <3>1. \A call : /\ claim' = [claim EXCEPT ![c] = call]
                      /\ \/ call.phase \in {"idle", "authed"}
                         \/ /\ call.agent = claim[c].agent
                            /\ claim[c].phase \in {"counted", "routed"}
                      => Fewer
        BY <1>1 DEF Committing
      <3>. HIDE DEF Fewer
      <3>2. IdleCall.phase = "idle" /\ claim[c] \in CallType
        BY <1>1 DEF IdleCall
      <3>3. SetCall(c, IdleCall) => Fewer
        BY <3>1, <3>2 DEF SetCall
      <3>4. ASSUME NEW b \in Agents, ClaimAuth(c, b) PROVE Fewer
        <4>. DEFINE call == [IdleCall EXCEPT !.phase = "authed", !.agent = b]
        <4>1. call.phase = "authed"
          BY DEF IdleCall
        <4>2. SetCall(c, call)
          BY <3>4 DEF ClaimAuth
        <4>. HIDE DEF call
        <4>. QED
          BY <3>1, <4>1, <4>2 DEF SetCall
      <3>5. CASE ClaimTopics(c)
        <4>. DEFINE allowed == SubscribedProjects(claim[c].agent) \ topicRest[claim[c].agent]
                    call == [claim[c] EXCEPT !.phase = "routed", !.allowed = allowed]
        <4>1. call.agent = claim[c].agent
          BY <3>2 DEF CallType
        <4>2. claim[c].phase = "counted" /\ (SetCall(c, IdleCall) \/ SetCall(c, call))
          BY <3>5 DEF ClaimTopics
        <4>. HIDE DEF call
        <4>. QED
          BY <3>1, <3>3, <4>1, <4>2 DEF SetCall
      <3>6. CASE ClaimLock(c)
        <4>. DEFINE call(t) == [claim[c] EXCEPT !.phase = "locked", !.task = t]
        <4>1. \A t : call(t).agent = claim[c].agent
          BY <3>2 DEF CallType
        <4>2. claim[c].phase = "routed" /\ (SetCall(c, IdleCall) \/ \E t : SetCall(c, call(t)))
          BY <3>6 DEF ClaimLock
        <4>. HIDE DEF call
        <4>. QED
          BY <3>1, <3>3, <4>1, <4>2 DEF SetCall
      <3>7. CASE ClaimAbort(c)
        BY <3>3, <3>7 DEF ClaimAbort, SetCall
      <3>. QED
        BY <2>2, <3>4, <3>5, <3>6, <3>7 DEF ClaimStep
    <2>3. claim' = claim \/ \E c \in Calls : ClaimStep(c) \/ ClaimAbort(c)
      BY DEF Next, vars, Publish, AgentStep, Heartbeat, Checkpoint, CompleteSuccess,
             CompleteFailure, ReclaimExpiredLeases, OperatorStep, Requeue, Cancel, Stop,
             Reassign, SetResting, SetTopicRest, Tick
    <2>. QED
      BY <2>1, <2>2, <2>3
  <1>3. ASSUME NEW a \in Agents
        PROVE  Cardinality(InflightOf(a)') + Cardinality(Committing(a)')
                 <= MaxConcurrency[a] + Cardinality(Calls) - 1
    <2>1. Cardinality(InflightOf(a)') <= Cardinality(InflightOf(a))
      BY InflightShrinks
    <2>2. Cardinality(Committing(a)') <= Cardinality(Committing(a))
      BY <1>2, CountsAreFinite, FS_Subset
    <2>. QED
      BY <2>1, <2>2, CountsAreFinite, CountsStayFinite, TablesAssumption DEF CountedOnce
  <1>. QED
    BY <1>3 DEF CountedOnce

LEMMA InitCounts == Init => CountedOnce
  <1>. SUFFICES ASSUME Init, NEW a \in Agents
                PROVE  Cardinality(InflightOf(a)) + Cardinality(Committing(a))
                         <= MaxConcurrency[a] + Cardinality(Calls) - 1
    BY DEF CountedOnce
  <1>1. InflightOf(a) = {} /\ Committing(a) = {}
    BY DEF Init, InflightOf, InFlight, AbsentRow, INFLIGHT_STATUSES, Committing, IdleCall
  <1>2. Cardinality({}) = 0
    BY FS_EmptySet
  <1>. QED
    BY <1>1, <1>2, CountsAreFinite, TablesAssumption

(* However many claims race, an agent exceeds its max_concurrency by fewer  *)
(* tasks than there are calls served at the same time.                      *)
THEOREM Overshoot == Spec => []OvershootBounded
  <1>1. IInv /\ CountedOnce /\ [Next]_vars => CountedOnce'
    BY CommitCounts, CountCounts, OtherStepsCount
  <1>2. CountedOnce => OvershootBounded
    BY CountsAreFinite, TablesAssumption DEF CountedOnce, OvershootBounded
  <1>. QED
    BY <1>1, <1>2, InitCounts, Invariance, PTL DEF Spec
=============================================================================
