------------------------------ MODULE TaskQueue ------------------------------
(***************************************************************************)
(* The task table of the agent_mq server and every request handler and     *)
(* background job that changes a row of it: publish, claim, task           *)
(* heartbeat, checkpoint, complete, the operator endpoints (requeue,       *)
(* cancel, stop, reassign), pause, and the reaper.                         *)
(*                                                                         *)
(* Every handler but the claim changes one row in one locked transaction,  *)
(* so it is one action.  A claim reads the agent, counts, selects, and     *)
(* commits in separate statements that nothing serialises, so a claim call *)
(* is a process of its own with a phase.                                   *)
(*                                                                         *)
(* Timestamps are kept relative to the database's now(): lease_expires_at  *)
(* and visible_after count down as time passes, so a behaviour has no      *)
(* horizon.  "NULL or in the past" is 0 for visible_after; a lease keeps   *)
(* the difference between the instant it ends (0) and later (Past).        *)
(***************************************************************************)
EXTENDS Integers, FiniteSets

CONSTANTS
  Agents,             \* registered agents
  Calls,              \* concurrent POST /api/claim requests the server serves
  MaxTasks,           \* bound: rows that may be published
  Requests,           \* bound: publish bodies that are exercised
  Subscriptions,      \* rows of subscriptions: [agent, project, group]
  Capabilities,       \* agents.capabilities, by agent
  MaxConcurrency,     \* agents.max_concurrency, by agent
  VisibilityTimeout,  \* env.DEFAULT_VISIBILITY_TIMEOUT, in ticks
  BackoffBase,        \* env.BACKOFF_BASE_SEC, in ticks
  BackoffCap,         \* env.BACKOFF_CAP_SEC, in ticks
  NodeClockAhead,     \* Date.now() minus the database's now(), in ticks
  Checkpoints,        \* values an agent may save as a task's state
  OperatorCalls,      \* operator endpoints in use, a subset of Operators
  NULL

Operators == {"requeue", "cancel", "stop", "reassign", "pause", "topic pause"}

Tasks    == 1..MaxTasks      \* a row's number is its rank in created_at
Projects == {s.project : s \in Subscriptions}
Groups   == {s.group : s \in Subscriptions}

(* What POST /api/tasks stores once: delay > 0 is a future scheduled_for.  *)
RequestType == [project : Projects, target_group_id : Groups \union {NULL},
                required_capabilities : SUBSET UNION {Capabilities[a] : a \in Agents},
                priority : Int, max_retries : Int, delay : Nat]

ASSUME SetsAssumption ==
  /\ IsFiniteSet(Agents) /\ IsFiniteSet(Calls)
  /\ NULL \notin Agents \union Calls \union Groups \union Checkpoints
  /\ NULL \notin Requests /\ NULL \notin Int
  /\ OperatorCalls \subseteq Operators
ASSUME NumbersAssumption ==
  /\ MaxTasks \in Nat /\ VisibilityTimeout \in Nat \ {0}
  /\ BackoffBase \in Nat /\ BackoffCap \in Nat
  /\ NodeClockAhead \in Int
ASSUME TablesAssumption ==
  /\ MaxConcurrency \in [Agents -> Nat \ {0}]
  /\ Requests \subseteq RequestType
  /\ \A s \in Subscriptions : s.agent \in Agents

VARIABLES
  task,      \* the tasks table
  results,   \* rows of results per task since it was published or requeued
  resting,   \* per agent: paused, or in a global rest window
  topicRest, \* per agent: projects whose subscription is paused or resting
  claim      \* the claim calls being served

vars == <<task, results, resting, topicRest, claim>>
-----------------------------------------------------------------------------
(* Rows, leases and claim calls *)

(* FAILED is a task_status of the schema that no statement ever writes.    *)
Statuses == {"ABSENT", "PENDING", "CLAIMED", "RUNNING", "COMPLETED",
             "FAILED", "DEAD"}
INFLIGHT_STATUSES == {"CLAIMED", "RUNNING"}

(* The reaper compares a lease with 0 and the handlers compare it with     *)
(* NodeClockAhead: below Past neither test changes its answer any more.    *)
Past == IF NodeClockAhead < 0 THEN NodeClockAhead - 1 ELSE -1

LeaseTime == Past..VisibilityTimeout

Row == [req                : Requests \union {NULL},
        status             : Statuses,
        assigned_agent_id  : Agents \union {NULL},
        group_id           : Groups \union {NULL},
        lease_expires_at   : LeaseTime \union {NULL},
        visible_after      : Nat,
        scheduled_for      : Nat,
        retry_count        : Nat,
        assign_to_agent_id : Agents \union {NULL},
        state              : Checkpoints \union {NULL}]

ResultCount == [success : Nat, failure : Nat]

AbsentRow == [req |-> NULL, status |-> "ABSENT", assigned_agent_id |-> NULL,
              group_id |-> NULL, lease_expires_at |-> NULL,
              visible_after |-> 0, scheduled_for |-> 0, retry_count |-> 0,
              assign_to_agent_id |-> NULL, state |-> NULL]

NoResults == [success |-> 0, failure |-> 0]

IdleCall == [phase |-> "idle", agent |-> NULL, allowed |-> {}, task |-> NULL]

CallType == [phase   : {"idle", "authed", "counted", "routed", "locked"},
             agent   : Agents \union {NULL},
             allowed : SUBSET Projects,
             task    : Tasks \union {NULL}]

Published(t) == task[t].status # "ABSENT"
InFlight(t)  == task[t].status \in INFLIGHT_STATUSES
Terminal(t)  == task[t].status \in {"COMPLETED", "DEAD"}

InflightOf(a) == {t \in Tasks : InFlight(t) /\ task[t].assigned_agent_id = a}

(* Mutant: statements that neither wait for row locks nor skip them. *)
LockedNever(t) == FALSE

(* A claim transaction holds the lock of the row it selected until it      *)
(* commits or rolls back; the other statements on that row wait for it.    *)
Locked(t) == \E c \in Calls : claim[c].phase = "locked" /\ claim[c].task = t
TxOpen    == \E c \in Calls : claim[c].phase \in {"counted", "routed", "locked"}

(* Mutant: the lease outlives its holder. *)
ReleasedKeepsLease(row) == [row EXCEPT !.assigned_agent_id = NULL, !.group_id = NULL]

(* The row once nobody holds it: what complete(failure), the reaper, stop, *)
(* reassign, cancel and requeue all write.                                 *)
Released(row) == [row EXCEPT !.assigned_agent_id = NULL, !.group_id = NULL,
                             !.lease_expires_at = NULL]

(* min(base * 2^n, cap): the delay after a row's (n+1)-th failed attempt.  *)
Backoff(n) == LET raw == BackoffBase * 2^n
              IN  IF raw \in 0..BackoffCap THEN raw ELSE BackoffCap

Init ==
  /\ task = [t \in Tasks |-> AbsentRow]
  /\ results = [t \in Tasks |-> NoResults]
  /\ resting = [a \in Agents |-> FALSE]
  /\ topicRest = [a \in Agents |-> {}]
  /\ claim = [c \in Calls |-> IdleCall]
-----------------------------------------------------------------------------
(* POST /api/tasks *)

Publish(r) ==
  \E t \in Tasks :
    /\ ~Published(t)
    /\ \A u \in Tasks : u < t => Published(u)
    /\ task' = [task EXCEPT ![t] =
                  [AbsentRow EXCEPT !.req = r, !.status = "PENDING",
                                    !.visible_after = r.delay,
                                    !.scheduled_for = r.delay]]
    /\ UNCHANGED <<results, resting, topicRest, claim>>
-----------------------------------------------------------------------------
(* POST /api/claim *)

SetCall(c, call) == claim' = [claim EXCEPT ![c] = call]

(* requireAgent reads agents.paused and computeAgentResting the global     *)
(* rest windows, both before the transaction; a resting agent gets null.   *)
ClaimAuth(c, a) ==
  /\ claim[c].phase = "idle"
  /\ ~resting[a]
  /\ SetCall(c, [IdleCall EXCEPT !.phase = "authed", !.agent = a])
  /\ UNCHANGED <<task, results, resting, topicRest>>

SubscribedProjects(a) == {s.project : s \in {x \in Subscriptions : x.agent = a}}

(* Mutant: one task too many. *)
ClaimCountOffByOne(c) ==
  LET a == claim[c].agent
  IN  /\ claim[c].phase = "authed"
      /\ SetCall(c, IF Cardinality(InflightOf(a)) <= MaxConcurrency[a]
                    THEN [claim[c] EXCEPT !.phase = "counted"]
                    ELSE IdleCall)
      /\ UNCHANGED <<task, results, resting, topicRest>>

(* BEGIN and countInflight.                                                *)
ClaimCount(c) ==
  LET a == claim[c].agent
  IN  /\ claim[c].phase = "authed"
      /\ SetCall(c, IF Cardinality(InflightOf(a)) < MaxConcurrency[a]
                    THEN [claim[c] EXCEPT !.phase = "counted"]
                    ELSE IdleCall)
      /\ UNCHANGED <<task, results, resting, topicRest>>

(* Mutant: the topics' own pauses are not looked at. *)
ClaimTopicsAll(c) ==
  /\ claim[c].phase = "counted"
  /\ SetCall(c, [claim[c] EXCEPT !.phase = "routed",
                                 !.allowed = SubscribedProjects(claim[c].agent)])
  /\ UNCHANGED <<task, results, resting, topicRest>>

(* The agent's projects less the resting ones, read outside the transaction. *)
ClaimTopics(c) ==
  LET a == claim[c].agent
      allowed == SubscribedProjects(a) \ topicRest[a]
  IN  /\ claim[c].phase = "counted"
      /\ SetCall(c, IF allowed # {}
                    THEN [claim[c] EXCEPT !.phase = "routed", !.allowed = allowed]
                    ELSE IdleCall)
      /\ UNCHANGED <<task, results, resting, topicRest>>

(* The groups through which agent a may be given a task published with req. *)
Routes(a, req) ==
  {s.group : s \in {x \in Subscriptions :
     /\ x.agent = a
     /\ x.project = req.project
     /\ req.target_group_id \in {NULL, x.group}}}

(* The clauses of the query that do not change while a row is pending, but *)
(* for reassign: routing, capabilities and the operator's target.          *)
RoutedTo(a, row) ==
  /\ Routes(a, row.req) # {}
  /\ row.req.required_capabilities \subseteq Capabilities[a]
  /\ row.assign_to_agent_id \in {NULL, a}

Eligible(a, allowed, t) ==
  /\ task[t].status = "PENDING"
  /\ task[t].req.project \in allowed
  /\ RoutedTo(a, task[t])
  /\ task[t].visible_after = 0

(* ORDER BY priority DESC, created_at ASC *)
Before(t, u) == \/ task[t].req.priority > task[u].req.priority
                \/ task[t].req.priority = task[u].req.priority /\ t < u

(* Mutant: SELECT without FOR UPDATE SKIP LOCKED. *)
ClaimLockUnlocked(c) ==
  LET open == {t \in Tasks : Eligible(claim[c].agent, claim[c].allowed, t)}
  IN  /\ claim[c].phase = "routed"
      /\ \/ /\ open = {}
            /\ SetCall(c, IdleCall)
         \/ \E t \in open :
              /\ \A u \in open \ {t} : Before(t, u)
              /\ SetCall(c, [claim[c] EXCEPT !.phase = "locked", !.task = t])
      /\ UNCHANGED <<task, results, resting, topicRest>>

(* SELECT ... LIMIT 1 FOR UPDATE SKIP LOCKED: the first eligible row that  *)
(* no other claim has locked, or none and the call answers null.           *)
ClaimLock(c) ==
  LET open == {t \in Tasks : Eligible(claim[c].agent, claim[c].allowed, t) /\ ~Locked(t)}
  IN  /\ claim[c].phase = "routed"
      /\ \/ /\ open = {}
            /\ SetCall(c, IdleCall)
         \/ \E t \in open :
              /\ \A u \in open \ {t} : Before(t, u)
              /\ SetCall(c, [claim[c] EXCEPT !.phase = "locked", !.task = t])
      /\ UNCHANGED <<task, results, resting, topicRest>>

(* The UPDATE becomes visible and the row lock is released.                *)
ClaimCommit(c) ==
  LET a == claim[c].agent
      t == claim[c].task
  IN  /\ claim[c].phase = "locked"
      /\ \E g \in Routes(a, task[t].req) :
           task' = [task EXCEPT ![t] =
                      [@ EXCEPT !.status = "CLAIMED", !.assigned_agent_id = a,
                                !.group_id = g,
                                !.lease_expires_at = VisibilityTimeout]]
      /\ SetCall(c, IdleCall)
      /\ UNCHANGED <<results, resting, topicRest>>

(* A failed statement, a lost connection or a server crash: ROLLBACK.      *)
ClaimAbort(c) ==
  /\ claim[c].phase # "idle"
  /\ SetCall(c, IdleCall)
  /\ UNCHANGED <<task, results, resting, topicRest>>
-----------------------------------------------------------------------------
(* The calls of the lease holder.  Any agent may send them for any task at *)
(* any time; a call whose lease is not valid is answered 409 and changes   *)
(* nothing.                                                                *)

(* Mutant: the status of the row is not compared. *)
LeaseIsValidAnyStatus(row, a) ==
  /\ row.assigned_agent_id = a
  /\ row.lease_expires_at # NULL
  /\ row.lease_expires_at > NodeClockAhead

LeaseIsValid(row, a) ==
  /\ row.assigned_agent_id = a
  /\ row.status \in INFLIGHT_STATUSES
  /\ row.lease_expires_at # NULL
  /\ row.lease_expires_at > NodeClockAhead

SetTask(t, row) == task' = [task EXCEPT ![t] = row]

(* Mutant: the timeout is added to what is left of the lease. *)
HeartbeatExtends(a, t) ==
  /\ ~Locked(t)
  /\ LeaseIsValid(task[t], a)
  /\ SetTask(t, [task[t] EXCEPT !.lease_expires_at = @ + VisibilityTimeout,
                                !.status = "RUNNING"])
  /\ UNCHANGED <<results, resting, topicRest, claim>>

Heartbeat(a, t) ==
  /\ ~Locked(t)
  /\ LeaseIsValid(task[t], a)
  /\ SetTask(t, [task[t] EXCEPT !.lease_expires_at = VisibilityTimeout,
                                !.status = "RUNNING"])
  /\ UNCHANGED <<results, resting, topicRest, claim>>

Checkpoint(a, t, s) ==
  /\ ~Locked(t)
  /\ LeaseIsValid(task[t], a)
  /\ SetTask(t, [task[t] EXCEPT !.state = s])
  /\ UNCHANGED <<results, resting, topicRest, claim>>

(* A completed row keeps its assigned agent and its lease.                 *)
CompleteSuccess(a, t) ==
  /\ ~Locked(t)
  /\ LeaseIsValid(task[t], a)
  /\ results' = [results EXCEPT ![t].success = @ + 1]
  /\ SetTask(t, [task[t] EXCEPT !.status = "COMPLETED"])
  /\ UNCHANGED <<resting, topicRest, claim>>

(* A row that complete(failure) sends to DEAD keeps them too.              *)
CompleteFailure(a, t) ==
  LET row == task[t]
  IN  /\ ~Locked(t)
      /\ LeaseIsValid(row, a)
      /\ results' = [results EXCEPT ![t].failure = @ + 1]
      /\ \/ /\ row.retry_count < row.req.max_retries
            /\ SetTask(t, [Released(row) EXCEPT
                             !.status = "PENDING", !.retry_count = @ + 1,
                             !.visible_after = Backoff(row.retry_count)])
         \/ /\ row.retry_count >= row.req.max_retries
            /\ SetTask(t, [row EXCEPT !.status = "DEAD", !.retry_count = @ + 1])
      /\ UNCHANGED <<resting, topicRest, claim>>
-----------------------------------------------------------------------------
(* The reaper *)

(* Mutants: every in-flight row is reclaimed; rows never renewed are not. *)
ExpiredAlways(t) == InFlight(t)
ExpiredRunning(t) ==
  /\ task[t].status = "RUNNING"
  /\ task[t].lease_expires_at # NULL
  /\ task[t].lease_expires_at < 0

Expired(t) ==
  /\ InFlight(t)
  /\ task[t].lease_expires_at # NULL
  /\ task[t].lease_expires_at < 0

(* Mutants: the budget test is off by one; no backoff; no charge. *)
ReclaimedOffByOne(row) ==
  IF row.retry_count > row.req.max_retries
  THEN [Released(row) EXCEPT !.status = "DEAD", !.retry_count = @ + 1]
  ELSE [Released(row) EXCEPT !.status = "PENDING", !.retry_count = @ + 1,
                             !.visible_after = Backoff(row.retry_count)]
ReclaimedAtOnce(row) ==
  IF row.retry_count + 1 > row.req.max_retries
  THEN [Released(row) EXCEPT !.status = "DEAD", !.retry_count = @ + 1]
  ELSE [Released(row) EXCEPT !.status = "PENDING", !.retry_count = @ + 1]
ReclaimedFree(row) ==
  IF row.retry_count + 1 > row.req.max_retries
  THEN [Released(row) EXCEPT !.status = "DEAD", !.retry_count = @ + 1]
  ELSE [Released(row) EXCEPT !.status = "PENDING",
                             !.visible_after = Backoff(row.retry_count)]

ReclaimedRow(row) ==
  IF row.retry_count + 1 > row.req.max_retries
  THEN [Released(row) EXCEPT !.status = "DEAD", !.retry_count = @ + 1]
  ELSE [Released(row) EXCEPT !.status = "PENDING", !.retry_count = @ + 1,
                             !.visible_after = Backoff(row.retry_count)]

(* One UPDATE for every expired row; the advisory lock and the transaction *)
(* make it a single step even with several server instances.               *)
ReclaimExpiredLeases ==
  /\ \E t \in Tasks : Expired(t)
  /\ task' = [t \in Tasks |-> IF Expired(t) THEN ReclaimedRow(task[t]) ELSE task[t]]
  /\ UNCHANGED <<results, resting, topicRest, claim>>
-----------------------------------------------------------------------------
(* Operator endpoints *)

Requeue(t) ==
  /\ ~Locked(t)
  /\ task[t].status \in {"FAILED", "DEAD", "COMPLETED"}
  /\ SetTask(t, [Released(task[t]) EXCEPT !.status = "PENDING",
                                          !.visible_after = 0, !.retry_count = 0])
  /\ results' = [results EXCEPT ![t] = NoResults]
  /\ UNCHANGED <<resting, topicRest, claim>>

(* Mutant: a finished task can be cancelled. *)
CancelFinished(t) ==
  /\ ~Locked(t)
  /\ Published(t)
  /\ SetTask(t, [Released(task[t]) EXCEPT !.status = "DEAD"])
  /\ UNCHANGED <<results, resting, topicRest, claim>>

Cancel(t) ==
  /\ ~Locked(t)
  /\ Published(t) /\ ~Terminal(t)
  /\ SetTask(t, [Released(task[t]) EXCEPT !.status = "DEAD"])
  /\ UNCHANGED <<results, resting, topicRest, claim>>

(* Mutant: the next agent starts from scratch. *)
StopDiscards(t, x) ==
  /\ ~Locked(t)
  /\ InFlight(t)
  /\ SetTask(t, [Released(task[t]) EXCEPT
                   !.status = "PENDING", !.visible_after = 0, !.state = NULL,
                   !.assign_to_agent_id = IF x = NULL THEN @ ELSE x])
  /\ UNCHANGED <<results, resting, topicRest, claim>>

(* x is the body's assign_to_agent_id, which COALESCE ignores when NULL.   *)
Stop(t, x) ==
  /\ ~Locked(t)
  /\ InFlight(t)
  /\ SetTask(t, [Released(task[t]) EXCEPT
                   !.status = "PENDING", !.visible_after = 0,
                   !.assign_to_agent_id = IF x = NULL THEN @ ELSE x])
  /\ UNCHANGED <<results, resting, topicRest, claim>>

(* Mutant: a running task keeps its agent. *)
ReassignInPlace(t, a) ==
  /\ ~Locked(t)
  /\ Published(t)
  /\ SetTask(t, [task[t] EXCEPT !.assign_to_agent_id = a])
  /\ UNCHANGED <<results, resting, topicRest, claim>>

(* Only an in-flight row is released; any other keeps its status.          *)
Reassign(t, a) ==
  /\ ~Locked(t)
  /\ Published(t)
  /\ SetTask(t, IF InFlight(t)
                THEN [Released(task[t]) EXCEPT
                        !.status = "PENDING", !.visible_after = 0,
                        !.assign_to_agent_id = a]
                ELSE [task[t] EXCEPT !.assign_to_agent_id = a])
  /\ UNCHANGED <<results, resting, topicRest, claim>>

(* The pause endpoint, or a global rest window that starts or ends.        *)
SetResting(a) ==
  /\ resting' = [resting EXCEPT ![a] = ~@]
  /\ UNCHANGED <<task, results, topicRest, claim>>

(* The subscription-pause endpoint, or a topic's rest window.              *)
SetTopicRest(a, p) ==
  /\ topicRest' = [topicRest EXCEPT ![a] = IF p \in @ THEN @ \ {p} ELSE @ \union {p}]
  /\ UNCHANGED <<task, results, resting, claim>>
-----------------------------------------------------------------------------
(* Time.  now() is the same throughout a transaction, and a transaction is *)
(* taken to be shorter than a tick: no tick while a claim's is open.       *)

Countdown(n) == IF n > 0 THEN n - 1 ELSE 0

Older(row) ==
  [row EXCEPT !.lease_expires_at = IF @ # NULL /\ @ > Past THEN @ - 1 ELSE @,
              !.visible_after = Countdown(@),
              !.scheduled_for = Countdown(@)]

Tick ==
  /\ ~TxOpen
  /\ task' = [t \in Tasks |-> Older(task[t])]
  /\ UNCHANGED <<results, resting, topicRest, claim>>
-----------------------------------------------------------------------------
ClaimStep(c) ==
  \/ \E a \in Agents : ClaimAuth(c, a)
  \/ ClaimCount(c)
  \/ ClaimTopics(c)
  \/ ClaimLock(c)
  \/ ClaimCommit(c)

AgentStep(a, t) ==
  \/ Heartbeat(a, t)
  \/ \E s \in Checkpoints : Checkpoint(a, t, s)
  \/ CompleteSuccess(a, t)
  \/ CompleteFailure(a, t)

OperatorStep ==
  \/ "requeue" \in OperatorCalls /\ \E t \in Tasks : Requeue(t)
  \/ "cancel" \in OperatorCalls /\ \E t \in Tasks : Cancel(t)
  \/ "stop" \in OperatorCalls /\ \E t \in Tasks, x \in Agents \union {NULL} : Stop(t, x)
  \/ "reassign" \in OperatorCalls /\ \E t \in Tasks, a \in Agents : Reassign(t, a)
  \/ "pause" \in OperatorCalls /\ \E a \in Agents : SetResting(a)
  \/ "topic pause" \in OperatorCalls /\ \E a \in Agents, p \in Projects : SetTopicRest(a, p)

Next ==
  \/ \E r \in Requests : Publish(r)
  \/ \E c \in Calls : ClaimStep(c) \/ ClaimAbort(c)
  \/ \E a \in Agents, t \in Tasks : AgentStep(a, t)
  \/ ReclaimExpiredLeases
  \/ OperatorStep
  \/ Tick

Spec == Init /\ [][Next]_vars
-----------------------------------------------------------------------------
(* Safety *)

(* Every column keeps its type: statuses are those of the schema, a lease  *)
(* lies within one visibility timeout, a published row carries its request.*)
TypeOK ==
  /\ task \in [Tasks -> Row]
  /\ results \in [Tasks -> ResultCount]
  /\ resting \in [Agents -> BOOLEAN]
  /\ topicRest \in [Agents -> SUBSET Projects]
  /\ claim \in [Calls -> CallType]
  /\ \A t \in Tasks : Published(t) => task[t].req \in Requests

(* An in-flight row names its holder, group and lease, so that its holder  *)
(* can renew it and the reaper can find it; a pending row names none, so   *)
(* that no earlier holder's call is accepted for it.  Eight statements in  *)
(* four files write these columns.                                         *)
OwnershipConsistent ==
  \A t \in Tasks :
    LET row == task[t]
        unowned == /\ row.assigned_agent_id = NULL
                   /\ row.group_id = NULL
                   /\ row.lease_expires_at = NULL
    IN  /\ InFlight(t) => /\ row.assigned_agent_id # NULL
                          /\ row.group_id # NULL
                          /\ row.lease_expires_at # NULL
        /\ row.status \in {"ABSENT", "PENDING"} => unowned

(* A task is only ever worked on by an agent it was routed to: subscribed  *)
(* to its project in the targeted group, with its capabilities, and the    *)
(* one an operator named.  reassign may retarget a row at any moment of a  *)
(* claim or a run.                                                         *)
HeldByRoutedAgent ==
  \A t \in Tasks : InFlight(t) =>
    LET a == task[t].assigned_agent_id
    IN  task[t].group_id \in Routes(a, task[t].req) /\ RoutedTo(a, task[t])

(* The row a claim has selected stays as it was selected until the claim   *)
(* commits, and no other claim selects it: SKIP LOCKED on one side, every  *)
(* other statement waiting for the row lock on the other.                  *)
ClaimsSound ==
  \A c \in Calls :
    LET a == claim[c].agent
        t == claim[c].task
    IN  /\ claim[c].phase # "idle" => a \in Agents
        /\ claim[c].phase = "locked" =>
             /\ t \in Tasks
             /\ task[t].status = "PENDING"
             /\ RoutedTo(a, task[t])
             /\ \A d \in Calls \ {c} : claim[d].phase = "locked" => claim[d].task # t

(* Since it was published or requeued a task has exactly one success in    *)
(* results if it is COMPLETED and none otherwise, and no more failures     *)
(* than retries charged: no complete is recorded twice although a finished *)
(* row keeps its agent and an unexpired lease.                             *)
ResultsMatchStatus ==
  \A t \in Tasks :
    /\ results[t].success = IF task[t].status = "COMPLETED" THEN 1 ELSE 0
    /\ results[t].failure <= task[t].retry_count

(* complete (retry_count < max_retries) and the reaper (retry_count + 1 >  *)
(* max_retries) draw the same line: a task that can still run has not      *)
(* exceeded its budget, and none is charged more than one attempt past it. *)
RetriesWithinBudget ==
  \A t \in Tasks : Published(t) =>
    LET row == task[t]
    IN  /\ row.retry_count > 1 => row.retry_count <= row.req.max_retries + 1
        /\ row.status \in {"PENDING"} \union INFLIGHT_STATUSES =>
             (row.retry_count > 0 => row.retry_count <= row.req.max_retries)

(* The tasks of an agent can exceed its max_concurrency only by the claims *)
(* served at the same time, which count before any of them commits.  With  *)
(* one call at a time the limit is exact.                                  *)
OvershootBounded ==
  \A a \in Agents :
    Cardinality(InflightOf(a)) <= MaxConcurrency[a] + Cardinality(Calls) - 1

(* README: the atomic claim gives an agent a task "while it is under its   *)
(* concurrency limit".                                                     *)
InflightWithinLimit ==
  \A a \in Agents : Cardinality(InflightOf(a)) <= MaxConcurrency[a]
-----------------------------------------------------------------------------
(* Steps *)

(* A task passes from one agent to another only by being released: two     *)
(* concurrent claims never both get it, and no other statement moves it.   *)
HolderChangesOnlyByRelease ==
  [][\A t \in Tasks : InFlight(t) /\ InFlight(t)' =>
       task'[t].assigned_agent_id = task[t].assigned_agent_id]_vars

(* Every attempt ends in one of three ways: its success is recorded; it is *)
(* charged one retry, with the same budget test and the same backoff       *)
(* whether the agent reported it or the reaper found it; or an operator    *)
(* withdraws it without charge.                                            *)
Charged(t) ==
  LET row == task[t]
  IN  /\ task'[t].retry_count = row.retry_count + 1
      /\ results'[t].success = results[t].success
      /\ IF row.retry_count >= row.req.max_retries
         THEN task'[t].status = "DEAD"
         ELSE /\ task'[t].status = "PENDING"
              /\ task'[t].visible_after = Backoff(row.retry_count)

EveryAttemptAccounted ==
  [][\A t \in Tasks : InFlight(t) /\ ~InFlight(t)' =>
       \/ /\ task'[t].status = "COMPLETED"
          /\ results'[t].success = results[t].success + 1
          /\ task'[t].retry_count = task[t].retry_count
       \/ Charged(t)
       \/ /\ task'[t].status \in {"PENDING", "DEAD"}
          /\ task'[t].retry_count = task[t].retry_count
          /\ results'[t] = results[t]]_vars

(* A retry is charged without a report of the agent only when its lease    *)
(* has run out: the reaper never races a renewed lease.                    *)
LiveLeaseNeverReclaimed ==
  [][\A t \in Tasks : task'[t].retry_count > task[t].retry_count /\ results' = results =>
       InFlight(t) /\ task[t].lease_expires_at < 0]_vars

(* A checkpoint is written only by the agent that holds the task, and      *)
(* outlives every failure, expiry, stop, cancellation and requeue.         *)
CheckpointSurvives ==
  [][\A t \in Tasks : task'[t].state # task[t].state =>
       /\ InFlight(t) /\ InFlight(t)'
       /\ task'[t].assigned_agent_id = task[t].assigned_agent_id
       /\ task'[t].state # NULL]_vars
-----------------------------------------------------------------------------
(* Progress *)

(* Time passes and the reaper's interval timer runs.  Tick is strongly     *)
(* fair: an endless series of short transactions does not stop the clock.  *)
TimeFairness == SF_vars(Tick) /\ WF_vars(ReclaimExpiredLeases)

(* A statement sent to the database is answered. *)
CallFairness ==
  \A c \in Calls : /\ WF_vars(ClaimCount(c)) /\ WF_vars(ClaimTopics(c))
                  /\ WF_vars(ClaimLock(c)) /\ WF_vars(ClaimCommit(c))

(* Agents keep polling, an agent whose claims are tried again and again is *)
(* not always the one that is aborted, and a handler that still holds its  *)
(* lease reports its outcome.                                              *)
AgentFairness ==
  \A a \in Agents :
    /\ \A c \in Calls : /\ SF_vars(ClaimAuth(c, a))
                        /\ SF_vars(claim[c].agent = a /\ ClaimCount(c))
                        /\ SF_vars(claim[c].agent = a /\ ClaimTopics(c))
                        /\ SF_vars(claim[c].agent = a /\ ClaimLock(c))
                        /\ SF_vars(claim[c].agent = a /\ ClaimCommit(c))
    /\ \A t \in Tasks : WF_vars(CompleteSuccess(a, t) \/ CompleteFailure(a, t))

ServerFairSpec == Spec /\ TimeFairness /\ CallFairness

(* A lease that its holder stops renewing does not stay: agents that crash *)
(* or lose the answer of a claim never keep a task.                        *)
AbandonedLeaseReclaimed ==
  \A t \in Tasks : []<>(~InFlight(t) \/ task[t].lease_expires_at = VisibilityTimeout)

(* When agents keep polling and reporting and operators interfere only     *)
(* finitely often, a task that some agent can run ends COMPLETED or DEAD,  *)
(* whatever attempts fail, expire or get lost, unless an agent is paused.  *)
PausedSomewhere == \E a \in Agents : resting[a] \/ topicRest[a] # {}

EveryTaskSettles ==
  AgentFairness /\ <>[][~OperatorStep]_vars =>
    \A t \in Tasks : Published(t) ~> (Terminal(t) \/ PausedSomewhere)

(* An agent that stays paused is, from some moment on, given nothing: the  *)
(* claims that read its pause too early run out.                           *)
Receives(a, t) == ~InFlight(t) /\ InFlight(t)' /\ task'[t].assigned_agent_id = a

PauseTakesEffect ==
  \A a \in Agents : <>[]resting[a] => <>[][\A t \in Tasks : ~Receives(a, t)]_vars

(* The same of a topic in which it stays paused, whose list of resting     *)
(* topics a claim reads in its middle, outside its transaction.            *)
TopicPauseTakesEffect ==
  \A a \in Agents, p \in Projects : <>[](p \in topicRest[a]) =>
    <>[][\A t \in Tasks : Receives(a, t) => task[t].req.project # p]_vars

(* Pauses of either kind, which race every claim that is under way.        *)
RestTakesEffect == PauseTakesEffect /\ TopicPauseTakesEffect
=============================================================================
