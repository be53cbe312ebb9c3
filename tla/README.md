# TLA+ models of agent_mq

agent_mq is a task queue for agents: a Fastify server keeps tasks in Postgres,
and worker processes on other machines pull them, one claim at a time, work
under a lease that they renew by heartbeats, and report the outcome. This
directory models that system in TLA+, checks the models with TLC on small
instances, and proves the central theorems with TLAPS for all of them.

`PROJECT.json` lists the components, the runs, the source lines each definition
models (`map`), the hazards the properties are aimed at, the divergences between
code and documents that were found, and the theorems.

## 1. The system

Paths are below `src/packages/`, those of `BUILD-CONTRACT.md` and `db/` below `src/`.

| Component | State | Operations | What is hard | What makes it correct |
|---|---|---|---|---|
| **Claim** `server/src/claim.ts`, `routes/claim.ts`, `auth.ts`, `db.ts` | none of its own; one transaction per call on the task table | `POST /api/claim`: authenticate, check rest, count, filter topics, select with `FOR UPDATE SKIP LOCKED`, update | several statements, several connections, no serialisation between claims of one agent; commit may be unheard | one holder per task; only routed agents; limit respected (as far as it is) |
| **Task lifecycle** `server/src/routes/taskLifecycle.ts` | rows of `tasks` and `results` | heartbeat, checkpoint, complete | leases expire by two clocks; late, repeated and stale calls; no lease token | nothing recorded twice, nothing of a lost lease recorded |
| **Reaper** `server/src/reaper.ts` | lease columns | periodic reclaim; mark agents offline | races with heartbeats and completes; several server instances | only expired leases; every one of them, eventually |
| **Operator endpoints** `server/src/routes/tasks.ts` | rows of `tasks` | publish with `dedup_key`, requeue, cancel, stop, reassign | they move rows under claims and running agents; lookup and insert are two statements | ownership columns stay consistent, checkpoints survive, one task per key |
| **Worker** `agent/src/worker.ts`, `api.ts` | runs, heartbeat timers, `leaseLost` flags | batches of claim, run, report | lost answers, rejected batches, a crash, timers that outlive their use | acknowledged work counts; a lost lease is not reported |
| **Connection pool** `server/src/db.ts` and its callers | free connections | connect, query, release | a holder that asks for a second connection | no circular wait |
| **Scheduler** `server/src/scheduler.ts`, `scheduling.ts`, `routes/schedules.ts` | schedules, `next_run_at`, the advisory lock | spawn due tasks, advance; create, change, delete | catch-up, one transaction for all, events before commit, edits under a tick, time zones | one task per slot; the next slot at a chosen time and nothing ahead skipped |
| **Spaces** `server/src/spaces.ts`, `routes/spaces.ts`, `joinRequests.ts`, `projects.ts`, `routes/auth.ts` | spaces, roles, join requests, sessions | create, patch, delete, members, apply, decide, topics | permission and write are separate queries; concurrent decisions; deletion cascades | whoever changes something was entitled to; one decision; one public space |
| **Presence** `server/src/routes/agents.ts`, `agentSchedules.ts`, `routes/subscriptions.ts`, `reaper.ts` | registry, `last_heartbeat_at`, poll rows | register, heartbeat, subscribe, stale marking | several statements; heartbeat against reaper; events after the fact | the silent are shown offline; the mirror shows the polls there are |
| **Rest and pause** `server/src/rest.ts`, `claim.ts` | `paused`, subscriptions, windows | pause, windows per agent and topic | read at several moments of a claim; overnight windows and time zones | nothing is taken from what rests all along |
| **Command line** `agent/src/cli.ts`, `config.ts`, `session.ts`, `scheduleInstall.ts` | `.agent-mq/config.json`, crontab, launchd jobs | login, logout, register, schedule install | whole files rewritten without a lock, truncated first | what a command saved stays |
| **Events, views, prompts, web** | subscribers; none | SSE fan-out, queries | events sent before commits | display only |

Interaction: workers call the server over HTTP; handlers, the reaper and the ticker
meet only in Postgres rows. The handlers of a task each work on one row in one locked
transaction; the others read and write with separate statements. Operators act through
the web console or `curl` on the same rows. The jobs that `schedule install` leaves on
a machine start workers that poll.

## 2. Modules

| Module | Models |
|---|---|
| `TaskQueue` | the task table with every handler and job that changes a row of it |
| `TaskContract` | abstract: what the queue promises of each task |
| `TaskQueueContract` | the refinement mapping from `TaskQueue` to `TaskContract` |
| `Worker` | extends `TaskQueue` with a worker process and the HTTP channel between them |
| `ConnectionPool` | the handlers' use of the pool of database connections |
| `Recurrence` | `nextRun` of a schedule as functions on a calendar with zones |
| `Scheduler` | extends `Recurrence` with the tickers of several servers and the schedule endpoints |
| `Spaces` | spaces, members, join requests, topics and dedup keys under concurrent requests |
| `RestWindows` | `isWindowActiveNow` and what a window means, as functions |
| `Presence` | extends `RestWindows` with registration, heartbeats, subscriptions, the reaper's stale marking, and the rest checks of a claim |
| `Cli` | commands as processes over a configuration file, a crontab and launchd |
| `TaskQueueProofs`, `TaskQueueContractProofs`, `WorkerProofs`, `ConnectionPoolProofs`, `SchedulerProofs`, `SpacesProofs`, `PresenceProofs`, `CliProofs` | theorems and proofs |
| `MCTaskQueue`, `MCWorker`, `MCConnectionPool`, `MCScheduler`, `MCSpaces`, `MCPresence`, `MCCli` | constants of the instances that TLC checks |

Operators whose comment begins with *Mutant* are not part of the models. Each is a
wrong variant of a definition after it; with it in place of that definition
the property it is listed with in `PROJECT.json` fails.

The modules meet where the code does. A claim is in `TaskQueue` (which task, for whom),
in `Presence` (what its rest checks read, and when) and in `ConnectionPool` (what it
borrows); a publish in `TaskQueue` (the row), in `Spaces` (the permission and the
`dedup_key`) and in `Scheduler` (by the ticker). Each module leaves out only what no
property of it can tell apart.

### TaskQueue

State. `task[t]` is the row: the columns that decide who may do what
(`status`, `assigned_agent_id`, `group_id`, `lease_expires_at`, `visible_after`,
`scheduled_for`, `retry_count`, `assign_to_agent_id`, `state`), and the request it was
published with, which never changes (`req`). `results[t]` counts the rows of
`results` written since the task was published or last requeued (a counter for the
properties; requeue deletes no row of `results`). `resting` and `topicRest`
are what pauses and rest windows say now. `claim[c]` is the c-th concurrent claim
call.

Actions. `Publish`, `Heartbeat`, `Checkpoint`, `CompleteSuccess`, `CompleteFailure`,
`Requeue`, `Cancel`, `Stop`, `Reassign` are the handlers; a call that
the code answers with 4xx without a change is the disabled action.
`ReclaimExpiredLeases` is the reaper's UPDATE. `ClaimAuth`, `ClaimCount`,
`ClaimTopics`, `ClaimLock`, `ClaimCommit` are the steps of one claim call, in the order
of the code; `ClaimAbort` is a ROLLBACK at any of them. `SetResting` and `SetTopicRest`
stand for the pause endpoints and for windows that begin or end. `Tick` is time.

Decisions.
- *Time is relative.* Timestamps are kept as the difference to the database's
  `now()`, and `Tick` decrements them. Behaviours have no horizon: a
  lease can expire and be granted any number of times. A lease keeps counting below 0 to
  `Past`, past which no comparison changes.
- *Two clocks.* Handlers compare the lease with the server's `Date.now()`
  (`LeaseIsValid`), the reaper with the database's `now()` (`Expired`).
  `NodeClockAhead` is their difference, positive or negative; the proofs hold for every
  integer.
- *A claim is not atomic, its row lock is real.* `Locked(t)` between
  select and commit makes the other statements on the row wait, and other claims skip it.
  Under READ COMMITTED a claim whose row changed between its snapshot and its lock
  evaluates the conditions again on the new row and gets no row when they fail; in the model
  the select is one step on the current rows, and the empty answer that such a
  race may give is covered by `ClaimAbort`, which also ends with nothing claimed.
- *A transaction is shorter than a tick*: `Tick` waits for `TxOpen`. Its `now()` is
  fixed, and ticks stand for the seconds of leases, not for statement latency.
- Several server instances are several `Calls`; the reaper's advisory lock makes
  its pass one step.

### TaskContract

A task is absent, open, held by one agent, done or dead. It changes hands only by
becoming open; `done` and `dead` are left only by an operator's `Reopen`; each attempt
ends in success, in a charge against the budget (several at once, as the reaper
does), or in an operator's decision. `TaskQueueContract` maps rows to stages, and
`ImplementsContract` says that every behaviour of `TaskQueue`, with its leases, clocks, claims
in progress, and operators, is one of the contract.

### Worker

State. `run[i]` is a call of `claimAndRunOne`: its phase, its task and its
`leaseLost` flag. `batch` is what the current `Promise.all` waits for: when one claim fails
the loop goes on and the others stay alive outside any batch. `requests` and `answers`
are what is under way on the network; `asker[c]` is the run that waits for the server's
claim call `c`.

Actions on the worker's side follow `runSingleTask` from the answer of the claim to the
`finally` block; on the server's side each request is served by the action of
`TaskQueue` for it, at most once, at any later time, or never. A call that throws for the
client may have been served: its request stays, *unheard*, and may still change the
table (`Unheard`). `Crash` is the process being killed and started again. Other
agents and operators act through `QueueStep` and `OtherClaim`.

The answer of an api call is matched to its caller by HTTP, so an answer nobody waits for
is dropped; that this bookkeeping is right is part of `WorkerTypeOK`.

### ConnectionPool

Each request or job is a program over the pool: `query` borrows a connection for one
statement (`db.ts:35-40`), `connect` and `release` enclose a transaction (`db.ts:46-65`, and
the handlers that write the same frame out). Four kinds query the pool inside their
transaction: a claim (`claim.ts:61`, two queries in `restingProjectIds`), a publish
(`tasks.ts:58-59`), a new space (`spaces.ts:88`) and a registration (`auth.ts:78`). The
others have the shape of `lifecycle`, `job` or `lookup`.

State. `kind` and `pos` say what a handler serves and where in its program it is; `held`
are the handlers in a transaction, `using` those whose single statement runs, and `waiting`
is pg-pool's queue, first come, first served. Neither `pg.Pool` is given a timeout nor
do handlers have one, so who waits is served or waits for ever. `Leave` is an early
return or an error at any point: it skips operations, but never the release of a
held connection, since that is in a `finally` block.

The pool is modelled apart from the task table: no handler waits for the pool while it
has a row lock (the claim and a publish query it before they lock or insert a row, and
`register` after its commit), so a wait for a row lock ends whatever the pool does, and
is part of a statement's duration (`Answered`).

### Recurrence and Scheduler

`Recurrence` counts instants from a Sunday midnight in units that a day has `DayLength`
of, and gives a zone an offset with one stretch of daylight saving. `NextRuns` is
`nextRun` as a set of at most one value: it is empty where the code throws. Its parts
follow `scheduling.ts`: the bounded walk over intervals, the candidate days from the
local date on, *the weekday of a candidate tested at its noon in UTC*, and
`WallClockToUtc`, which corrects a guess by the offset at the guess. `Occurs` says what a
weekly recurrence means, without any of that: the clocks of its zone show one of its times
on one of its days. `Placed` is the set of instants that `WallClockToUtc` gives for those days
and times; they differ around a change of daylight saving, where the clocks skip or repeat a time.

State of `Scheduler`. `row[s]` is a schedule, `spawned[s]` the slots of its committed
tasks (a counter for the properties; tasks live in `TaskQueue`), `announced` the events
`schedule.fired`, `tick[i]` where server i's `tick()` is and what its open transaction
has written, `advisory` and `lock` who has the advisory lock and the row locks.

Actions. `TakeAdvisory`, `FetchDue`, `Advance`, `Walk`, `Spawn`, `Commit`, `Rollback`
and `ReleaseAdvisory` are the steps of a tick in the order of the code; `Crash` ends a server
and with it its session's locks. `Create`, `PatchLock`, `PatchCommit`, `PatchAbort` and `Delete`
are the endpoints. `Pass` moves the clock to a later instant; the
transaction's own `now()` and the loop's `Date.now()` do not differ by more than
the code notices, so `Pass` waits for a catch-up loop under way.

### Spaces

State. `account` and `session`; `space`, `role`, `request`, `home` (the space of each
topic and consumer) and `tasks` (those with a `dedup_key`) are the tables; `call[c]` is
a request under way: what it is for, what it has read of its space (`seen`), and its
phase. `could[c]` remembers whether its user has been entitled at some moment
since it arrived.

Actions. `Arrive` reads the space, `Authorise` the caller's role, and one action per
endpoint writes: permission and effect are never one step, as in the code, so any other
request may come between. `Delete` and `Cascade` are one statement that takes the
locks of the rows it removes one after the other; `DecideLock` and
`Approve` or `Deny` are a transaction. `Lookup` and `Publish` are the two statements of a
publish with a key, `Boot`, `BootInsert` and `BootRecheck` those of
`ensurePublicSpace`. `Victim` is Postgres ending one of two transactions that wait for each
other, `Fail` any statement that fails. A name, a slug and a description are data; since any
space may have taken the slug `public`, `BootInsert` may find it taken.

### RestWindows and Presence

`RestWindows` renders an instant as weekday and minute and evaluates a window as
`rest.ts` does. `QuietTime` says the same as a set of moments of the week.

State. `agent`, `group`, `subscription`, `poll` with `polled`, and `window` are the
tables, `call[c]` a request under way. `announced` is the last `agent.online` or
`agent.offline` of each agent, `marked` what the reaper has still to announce. `ever`
and `always` remember which parts of an agent were awake at some and at every moment of a
claim; `raced` the heartbeats whose event may be lost.

Actions. Every handler is its queries: `RequireAgent`, then for a heartbeat
`HeartbeatUpdate`, `TouchSiteUpdateSchedule`, `HeartbeatAnswer`; for a claim
`ComputeAgentResting`, `FetchSubscribed`, `ExcludePaused`, `ExcludeResting` and, when it
has taken what it may, `TouchProjectPollSchedules`. A registration's transaction is one
step, `RegisterCommit`, as no other statement sees its rows before. `MarkStaleAgentsOffline`
and `AnnounceOffline` are the reaper. `SetPause`, `SetSubscriptionPause`, `AddRestWindow`,
`RemoveRestWindow` and `CreateGroup` are the operator. `Tick` ages heartbeats; `HoursPass`
brings another time of the week, and every heartbeat is old then.

### Cli

State. `file[d]` is what `loadConfig` reads in directory d, where a file that is missing
and one that does not parse are both the empty configuration; `crontab` the lines, `plist` and
`loaded` the property lists and what launchd has of them; `proc[x]` a command under way
with its copy of the configuration. `asked` and `installed` remember what the commands
have been told to save, `spoiled` and `torn` where two met or one was killed half way.

Actions. `UpdateConfig` and `RegisterLoad` read, `RegisterCall` is the server's answer,
`Truncate` and `Write` the two halves of `writeFile`. `ReadCurrentCrontab`, `ReadNothing`
(any failure of `crontab -l`) and `InstallLine`; `TruncatePlist`, `WritePlist`, `Unload`
and `Load` install a poll, and `Fire` starts the command of a job, in the directory where
cron and launchd start it. `IntervalToCronSchedule` is the rounding of an interval to what
cron can express.

## 3. Runs

| Run | Instance | Question |
|---|---|---|
| `lifecycle` | 1 task, 2 agents, 2 claims at once, four kinds of request, checkpoints, four operator endpoints, server clock one tick behind | ownership, routing, results, retries, leases, checkpoints |
| `concurrency` | 3 tasks of two priorities, 2 claims of 1 agent, cancel and requeue | how far `max_concurrency` can be overshot; refinement of `TaskContract` |
| `settles` | 2 tasks in two groups, stop, pauses; fair server, fair agents where the property says so | every task ends COMPLETED or DEAD; an abandoned lease is reclaimed; a pause takes effect |
| `worker` | 2 runs of one worker, 1 task, 1 unheard request | acknowledged success, silence after a lost lease, no mixed-up answers; refinement of `TaskQueue` |
| `worker_progress` | 1 run, a second agent, pauses, fairness | no task is held for ever |
| `pool` | 3 handlers of every kind, 2 connections, fair pool and handlers | nothing lent twice or kept; when the pool can stall; everything else is answered |
| `scheduler` | 2 servers, 2 schedules (one cannot be paid), a daily and two weekly recurrences, 3 edits, 1 failure or crash | one task per slot; the right slot; edits against ticks; due schedules are served |
| `spaces` | 2 users and the bearer, 2 spaces, 2 requests at once, 3 in all, 1 failure | unique rows, nothing left of deleted spaces; authority; decisions; deadlocks end |
| `presence` | 1 agent, 2 topics, 4 windows, 2 requests at once, 1 edit, 1 failure | polls, events and status agree; rests are honoured; the silent go offline |
| `cli` | 2 processes, 3 directories, 3 polls, 4 commands, 1 failure, Linux and macOS; intervals around every turn of the rounding | what commands save is kept; installs are idempotent |
| `concurrency_race`, `wrong_weekday` | as small as the case allows | a statement of the documents that the code does not keep |

Bounds, and why they are enough.

*Task queue and worker.* Rows interact only through the count of an agent's
tasks, through the order of the select, and in the reaper's common UPDATE, so
one task shows all races on a row, and two or three the rest. Two claims are the
smallest number that race; the theorems cover any number. A
visibility timeout of 2 ticks separates a fresh, an old, and an expired lease;
a retry budget of -1 to 2 crosses each side of both budget tests; a backoff of 2
with a cap of 3 reaches the cap. `MaxUnheard` bounds requests that are still to
be served though nobody waits for them; one is enough for a late call of a dead run to meet
a later run. Symmetry is used for claim calls and runs, only where a run checks no liveness.

*Pool.* Three handlers on two connections show both: a stall needs two of them, and the
third finds out what a stalled or a full pool does to the rest.

*Scheduler.* A second server finds the advisory lock taken or left behind, and a second
schedule shares the batch with one whose payload throws. The instants are hours of real
weeks: before and after a Monday's slots, just before a change of daylight saving that skips
the time of one schedule, and more than eight days after the first, so that a daily schedule is further behind than the two walks, each
bounded by 1 here, can go. Three edits create both schedules and change one
between the steps of a tick.

*Spaces.* A step meets at most one other request; the three histories to begin
with (a team space with two managers beside the public one, a public space with an owner,
no public space at all) save the requests that lead there, and with three more there are
two decisions of one application, a decision against a deletion, or two boots
and a PATCH.

*Presence.* No action but the reaper's UPDATE touches two agents' rows, and it treats them
alike, so one agent is enough; the theorems cover any number. The windows are global and
of a topic, overnight, in another zone, with an end that is no time, and with a zone that is
none; the moments fall inside, at an end and outside of them. One edit
between two queries of a claim is what the claim can see of an operator.

*Cli.* Two processes are what meets in one file. Four commands let a login, a
registration and an install be followed by one that shows what is left.

`pool`, `spaces` and `cli` disable deadlock checking. The pool really stops when every
connection is held by a handler that waits for another (two claims at once in the
instance, ten in a server with pg's default); `StallNeedsNesting` says that nothing
else can cause it. In `spaces` and `cli` the number of requests and of commands is bounded, and
the system rests when all have been answered: that none is left waiting is `EveryCallAnswered`
for `spaces`; a command of `cli` waits for nothing but its own next step.
In the other runs time can always pass, or a tick or a worker start.

### What the runs showed of the documents

- `InflightWithinLimit` fails (`concurrency_race`): the count and the claim of two calls of
  one agent interleave, so `max_concurrency` can be exceeded. `OvershootBounded` states how
  far: by the other calls served at the same time. The server's clients do send claims
  concurrently: `claimBatch` starts `--concurrency` of them at once.
- `OnChosenDay` fails (`wrong_weekday`): the weekday of a candidate day is tested at its noon in
  UTC, which is the next local day in zones 12 hours and more ahead. A
  schedule for Mondays at 09:00 in Auckland gets a slot on Sunday. `SlotsRight` shows
  that the slots of zones up to +11 are right.

### Known divergences and limits

Other places where code and documents differ, or where a property had to be stated with an
exception. The models have the behaviour of the code.

Tasks and worker:
- `requeue` clears `visible_after`, the only column the claim looks at, whatever
  `scheduled_for` says (`tasks.ts:266`; `db/schema.sql:142` calls such a task not claimable
  until then).
- `reassign` of a finished task gives it a target and leaves it finished
  (`tasks.ts:422`; `BUILD-CONTRACT.md:409-410`: ensure status PENDING).
- A `complete` answered 409 is followed by `complete(failure)`: the catch block knows only the
  heartbeat's flag (`worker.ts:90`; `packages/agent/ONBOARDING.md:152-155`). The server refuses
  it unless the same agent has claimed the task again; there is no lease token, and
  then it ends the new attempt. `AckedSuccessIsFinal` holds where nobody requeues.
- Two publishes with one key may race to the unique index; the loser is answered 409 and not
  the existing task (`BUILD-CONTRACT.md:78`).

Schedules:
- Around a change of daylight saving a slot may be off by the shift, in either direction, and one
  of a time that the clocks skip is at an instant that shows no such time
  (`SlotsOnTheClock` allows both, and `NothingAheadSkipped` is only stated for zones without).
- A schedule further behind than both bounded loops reach keeps a slot in the past and
  fires again at the next tick (`BacklogSkipped`).
- One schedule that throws rolls back the batch of all due ones, on every tick: `DueIsServed`
  holds as long as there is none. Its events have been emitted by then
  (`AnnouncedOrFailed`).

Spaces:
- `PATCH /api/spaces/:id` accepts any visibility (`BUILD-CONTRACT.md:434-450`: one public
  space, private ones only by registration). A second public space is stopped by the index and
  answered 500; when the only public space becomes a team space it keeps the slug, and the next boot
  fails. So it does when somebody's space has taken the slug by its name.
- The bearer cannot decide a join request: its id is no uuid (`DecideThrows`).
- An approval upserts the role, so it may lower the role of who has become a member meanwhile.
- A decision and a deletion of the space wait for each other; Postgres ends one.

Presence and rest:
- A heartbeat announces `agent.online` by the status it has read first. If the reaper marks the
  agent in between, or a query after the update fails, the transition is not announced
  (`BUILD-CONTRACT.md:64`; `AnnouncedUnlessRaced`).
- A window with an unknown time zone makes every claim of its agent fail, unless an
  earlier check already rests it.
- An overnight window tests each moment's own weekday, as `BUILD-CONTRACT.md:393-396` defines:
  one for Mondays is active on Monday before its end and after its start, not on Tuesday morning.
- A subscription may name a topic of any space; only registration checks it.

Command line:
- An installed poll runs in cron's directory (`$HOME`) or launchd's (`/`), and the configuration is
  in that of the `login` (`scheduleInstall.ts:5-9` and `BUILD-CONTRACT.md:144`): it
  calls the server as the agent of that directory, if there is one.
- Two commands on one configuration may undo each other or leave a file that does not
  parse; a killed one may leave an empty file. `ConfigAsAsked` says that nothing else loses a token.
- A `register` that is killed during its call leaves an agent that nobody has the token of.
- Intervals above 2719769 s (31 days and 11 hours) become a day step above 31, where
  `scheduleInstall.ts:218-221` says that no out-of-range `*/N` is ever emitted
  (`CronOutOfRange`). Steps such as `*/7` hours begin anew each day.

## 4. Fairness

- `TimeFairness`: the reaper's `setInterval` (`reaper.ts:137-148`) runs for the life
  of the server, and time passes. `Tick` is strongly fair because it is disabled
  while a transaction is open, and short transactions, however many, do not stop a clock.
- `CallFairness`: the database answers each statement, or the call is aborted.
- `AgentFairness` (only assumed by `EveryTaskSettles`): agents poll (`worker.ts:158-183`), a
  polling agent's claims are not always the ones that fail, and handlers that hold their
  lease report.
- `WorkerFairness`: `fetch` settles, handlers end, the server executes its claims
  to their end. Nothing is assumed of crashes, of which calls are lost, or that heartbeats
  are ever sent, so a worker may starve its own lease or renew it at every chance.
- `FairSpec` of `ConnectionPool`: pg-pool serves its queue when a connection is free,
  statements are answered, and a handler runs on when what it awaits is there.
- `FairSpec` of `Scheduler`: every server's timer comes round and its tick goes on from
  statement to statement; a PATCH ends. Nothing is assumed of edits, or that time passes.
- `FairSpec` of `Spaces`: of the requests begun, the server goes on with some. It need
  not be fair to each of them: there are finitely many, and none can go on for ever.
- `FairSpec` of `Presence`: the reaper's interval comes round and the clock goes on. No agent
  has to send heartbeats, and no request has to end.

## 5. Proofs

For every value of the constants that satisfies the assumptions of the modules
(finite sets of agents and calls, integers for the timeouts, NULL outside
of the sets it is added to, typed rows in what a history begins with):

- `TypeCorrect`, `ClaimsAreSound`, `Ownership`, `Routing`, `ResultsOnce`, `RetryBudget`:
  from the inductive invariant `IInv`. The properties are not inductive by themselves: routing
  at the commit needs that a locked row is unchanged (`ClaimsSound`), which needs that all
  others wait for its lock; a single success needs that a pending row has none, which
  needs that only in-flight rows complete. `RowOK` collects what is true
  of one row, so a handler is proved for one row and `OneRowStep` lifts it to the table; the
  reaper and the clock, which change many rows, are proved pointwise.
- `HandOver`: the action property, from `IInv` and one case per action.
- `Overshoot`: an agent is over its limit by less than the number of claim calls. That is not
  inductive: a claim that has counted is free to commit. `CountedOnce` adds the calls that have
  counted and not yet committed to the tasks in flight: a count below the limit leaves
  room for all the others, and a commit turns one of them into a task.
- `Implementation`: `TaskQueue` implements `TaskContract`. `OneRowImplements`
  turns a change of one row into a step of one abstract task; only the reaper's step is
  proved by itself, as `Charge` of the set of expired tasks.
- `AttemptsAccounted`, `LiveLeasesAreSafe`, `CheckpointsSurvive`: action properties that
  share one argument. `StepsClassified` shows that every step does one of seven things to
  each row: the row waits, is reopened, worked on, succeeds, fails, lapses (the
  reaper), or is withdrawn by an operator. Each property is then read off the seven classes.
- `PoolTypeCorrect`, `StallBound`: for any pool size and any number of handlers. The
  invariant says that a handler holds a connection exactly between its connect and its
  release, which makes a stall a statement about programs: who holds and waits stands
  at a query between the two, so its kind is one of the four.
- `WorkerTypeCorrect`, `WorkerImplements`, `LostRunsAreSilent`: the worker
  with its channel refines `TaskQueue`. Its type invariant is inductive together with `IInv`
  (the answer of a claim names a task because a locked call does). By
  `WorkerImplements` every theorem on `TaskQueue` holds of the composition.
- `AcksAreFinal`: what a run has been told is COMPLETED stays so, where no operator requeues
  (the hypothesis is about `OperatorCalls`; with a requeue the statement is false). The
  answers on their way are part of the invariant: an `ok` exists only for a task that is
  COMPLETED, however late it arrives, and no action but a requeue leaves that status.
- `SchedulerTypeCorrect`, `SpawnsAreDue`, `SchedulerIsConsistent`: for any servers, schedules and
  recurrences. The invariant is that one tick is under way at most, the one with the advisory
  lock, and that every row it has read or written is locked by it and unchanged since: so the
  batch commits what is still true. With `NextRunsLater` (whatever the zone, the
  next slot is strictly later) the slots of a schedule increase. That an event is without a
  task only after a failure follows a schedule that cannot be paid through the batch.
- `SlotsAreRight`, `NothingIsSkipped`: for any recurrences, zones, days and times, what
  `scheduling.ts` computes by walks and formatted dates is what the recurrence means. The lemmas
  on the calendar (weekdays a week apart, days in order, local parts of an instant) carry
  the candidate days from the local date on; `SlotsOK` carries the result through the steps of a
  tick. `NoonTellsTheDay` is the hypothesis: every zone of a weekly recurrence is from 12 hours
  behind UTC to less than 12 ahead, with its daylight saving. In the others the statement is false:
  that is the run `wrong_weekday`. Two statements were corrected by the attempt
  to prove them: a slot of a time that the clocks skip is not on the clock, and the
  walk over a backlog counts the instants of `Placed`. The instance now has such a slot.
- `SpacesTypeCorrect`, `SpacesAreConsistent`, `DecisionsAreFinal`, `AuthorityIsReal`: for
  any users, spaces and requests. The frame lemmas say which actions touch which table at all;
  each part of the invariant is then proved for those. That a decision is made once needs that
  a request in phase `deciding` is locked by its call, is of the call's space, and waits.
  For `AuthorityIsReal` the invariant `AuthOK` says what a call that has
  got as far as its write has learnt: since it arrived there was a moment at which its user
  was entitled, because `seen` was the space then and owners never change while it exists.
- `PresenceTypeCorrect`, `PresenceIsConsistent`: for any agents, topics and windows. The
  invariant adds what a request under way knows of its agent, and who will still
  announce an agent whose last event does not tell its status.
- `WindowMeaning`: the code's test of a window is the membership of the local time in
  `QuietTime`, for every window, zone and instant. `RestIsHonoured` rests on it:
  `HistoryOK` says, per query of a claim, what was awake at the moment of the query and was therefore
  awake at some moment, or was not and so not always.

- `CliTypeCorrect`, `FilesAreKept`, `WhatWasAskedIsKept`: for any processes, directories and polls. `Sound`
  says where in its command a process can be. `ConfigOK` says that in a directory that is
  not spoiled a copy that will be written is what the command makes of what has been asked so far,
  unless another process has truncated the file; so a writer that meets no other one writes what
  was asked. `CrontabOK` says the same of the lines that an install has read. `LaunchdOK`
  follows the installs of a label that may overlap: where launchd has another job than the one
  installed last, some install of the label is between its write and its load. Only the
  last theorem needs a bound on the intervals, `LongestInterval`, and `CronOutOfRange` shows that
  the bound is exact.

The assumption `JobAssumption` of `Cli` says that NULL, which stands for no job and for the label
of lines that are not the command's own, is none of the polls' labels and jobs.

Only model-checked: liveness (`EveryTaskSettles`, `AbandonedLeaseReclaimed`, `RestTakesEffect`,
`HeldTaskReleased`, `AnsweredUnlessStalled`, `DueIsServed`, `EveryCallAnswered`,
`SilentGoesOffline`), because fairness and ENABLED are beyond the prover. Every other property
that a passing run checks is proved.
## 6. Not modelled

- What handlers compute: that they end is `HandlerEnds`. Token counts and costs are data.
- Parsing of arguments, prompts, dry runs, listings: nothing outlives them.
- Read-only views; `updates.ts` and `taskTypes.ts` insert single rows that nothing else reads.
- The fan-out of events to SSE subscribers and the activity log: synchronous per subscriber, and
  display only. What `Scheduler` and `Presence` say of events is when they are emitted.
- `me.ts` (profile and password) and password hashing: one row that no other property is about.
- Seeds, migrations, server wiring. Of the boot, `ensurePublicSpace` is in `Spaces`.
- The web console: its calls are the operators' actions of the modules.
- Names, slugs, descriptions, tags and payloads, but for the keys that constraints are on.

## 7. What is left to do

1. The composition of `Scheduler` with `Publish` of `TaskQueue`, and of the rest checks of
   `Presence` with the claim of `TaskQueue`, as refinements.
2. The occurrences that the calendar projects (`routes/calendar.ts`) against the slots that the
   scheduler then takes. It iterates `nextRun`, so it would be for TLC: a proof needs induction.
