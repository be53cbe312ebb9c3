------------------------------ MODULE Scheduler ------------------------------
(***************************************************************************)
(* Recurring schedules: the ticker that every server runs                  *)
(* (server/src/scheduler.ts) against the endpoints that create, change and *)
(* delete schedules (server/src/routes/schedules.ts).                      *)
(*                                                                         *)
(* A tick is one process per server.  It takes the advisory lock, selects  *)
(* and locks the rows that are due, and for each of them computes the next *)
(* slot, inserts a task and updates the row, all in one transaction whose  *)
(* effects show when it commits.  A locked row is as the tick read it.     *)
(***************************************************************************)
EXTENDS Recurrence, Sequences

CONSTANTS
  Servers,             \* server processes over one database
  Schedules,           \* bound: schedules ever created
  Recurrences,         \* recurrences that schedules are created with
  Unpayable,           \* schedules whose shift_hours put shift_end past the last Date
  Instants,            \* instants the clock shows
  MaxCatchupAdvances,  \* MAX_CATCHUP_ADVANCES
  MaxEdits,            \* bound: creations, changes and deletions
  MaxFailures,         \* bound: transactions the database fails, and crashes
  NULL

ASSUME SchedulerAssumption ==
  /\ Recurrences \subseteq IntervalRecurrence \union WeeklyRecurrence
  /\ Unpayable \subseteq Schedules
  /\ Instants \subseteq Nat /\ 0 \in Instants
  /\ MaxCatchupAdvances \in Nat /\ MaxEdits \in Nat /\ MaxFailures \in Nat
  /\ NULL \notin Servers /\ NULL \notin Schedules /\ NULL \notin Int
  /\ NULL \notin Recurrences
  /\ "editor" \notin Servers \union {NULL}

VARIABLES
  clock,      \* now(), and Date.now() of every server
  row,        \* the table schedules
  spawned,    \* per schedule: the slots of its committed tasks, in order
  announced,  \* the events schedule.fired: [schedule, slot]
  tick,       \* per server: its call of tick()
  advisory,   \* holder of the advisory lock, or NULL
  lock,       \* per schedule: who holds its row lock, or NULL
  edits, failures

vars == <<clock, row, spawned, announced, tick, advisory, lock, edits, failures>>
dbVars == <<clock, row, spawned, edits>>

RowType == [exists : BOOLEAN, enabled : BOOLEAN, recurrence : Recurrences \union {NULL},
            next_run_at : Int, last_run_at : Int \union {NULL}, runs_count : Nat]

AbsentRow == [exists |-> FALSE, enabled |-> FALSE, recurrence |-> NULL,
              next_run_at |-> 0, last_run_at |-> NULL, runs_count |-> 0]

(* What the open transaction has inserted and updated, and when.           *)
Write == [schedule : Schedules, slot : Int, next : Int, at : Int]

TickType == [phase : {"idle", "locked", "batch", "walking", "committed"},
             due : SUBSET Schedules, current : Schedules \union {NULL},
             next : Int, advances : Nat, writes : SUBSET Write]

IdleTick == [phase |-> "idle", due |-> {}, current |-> NULL,
             next |-> 0, advances |-> 0, writes |-> {}]

Due(s) == row[s].exists /\ row[s].enabled /\ row[s].next_run_at <= clock

Init ==
  /\ clock = 0
  /\ row = [s \in Schedules |-> AbsentRow]
  /\ spawned = [s \in Schedules |-> <<>>]
  /\ announced = {}
  /\ tick = [i \in Servers |-> IdleTick]
  /\ advisory = NULL
  /\ lock = [s \in Schedules |-> NULL]
  /\ edits = 0 /\ failures = 0
-----------------------------------------------------------------------------
(* The ticker *)

(* pg_try_advisory_lock; a tick that does not get it returns.              *)
TakeAdvisory(i) ==
  /\ tick[i].phase = "idle"
  /\ advisory = NULL
  /\ advisory' = i
  /\ tick' = [tick EXCEPT ![i].phase = "locked"]
  /\ UNCHANGED <<dbVars, announced, lock, failures>>

(* Mutant: SELECT without FOR UPDATE. *)
FetchDueUnlocked(i) ==
  /\ tick[i].phase = "locked"
  /\ tick' = [tick EXCEPT ![i].phase = "batch", ![i].due = {s \in Schedules : Due(s)}]
  /\ UNCHANGED <<dbVars, announced, advisory, lock, failures>>

(* fetchDueSchedules: FOR UPDATE OF s SKIP LOCKED.                         *)
FetchDue(i) ==
  LET due == {s \in Schedules : Due(s) /\ lock[s] = NULL}
  IN  /\ tick[i].phase = "locked"
      /\ tick' = [tick EXCEPT ![i].phase = "batch", ![i].due = due]
      /\ lock' = [s \in Schedules |-> IF s \in due THEN i ELSE lock[s]]
      /\ UNCHANGED <<dbVars, announced, advisory, failures>>

(* advanceSchedule: the fired slot is the row's next_run_at.               *)
Advance(i) ==
  /\ tick[i].phase = "batch"
  /\ \E s \in tick[i].due :
       \E n \in NextRuns(row[s].recurrence, row[s].next_run_at, clock) :
         tick' = [tick EXCEPT ![i] = [@ EXCEPT !.phase = "walking", !.current = s,
                                               !.next = n, !.advances = 0]]
  /\ UNCHANGED <<dbVars, announced, advisory, lock, failures>>

Behind(i) == tick[i].next <= clock /\ tick[i].advances < MaxCatchupAdvances

(* One round of its catch-up loop. *)
Walk(i) ==
  /\ tick[i].phase = "walking"
  /\ Behind(i)
  /\ \E n \in NextRuns(row[tick[i].current].recurrence, tick[i].next, clock) :
       tick' = [tick EXCEPT ![i].next = n, ![i].advances = @ + 1]
  /\ UNCHANGED <<dbVars, announced, advisory, lock, failures>>

(* The rest of processDueSchedule: INSERT, UPDATE and the two events,      *)
(* which are emitted at once.  buildPayload throws for an unpayable one.   *)
Spawn(i) ==
  LET s == tick[i].current
      slot == row[s].next_run_at
  IN  /\ tick[i].phase = "walking" /\ ~Behind(i)
      /\ s \notin Unpayable
      /\ tick' = [tick EXCEPT
                    ![i].phase = "batch", ![i].current = NULL, ![i].due = @ \ {s},
                    ![i].writes = @ \union {[schedule |-> s, slot |-> slot,
                                            next |-> tick[i].next, at |-> clock]}]
      /\ announced' = announced \union {[schedule |-> s, slot |-> slot]}
      /\ UNCHANGED <<dbVars, advisory, lock, failures>>

HasWritten(i, s) == \E w \in tick[i].writes : w.schedule = s
Written(i, s) == CHOOSE w \in tick[i].writes : w.schedule = s
Fired(r, w) == [r EXCEPT !.last_run_at = w.slot, !.next_run_at = w.next,
                         !.runs_count = @ + 1]

(* Locks that process p gives back at the end of its transaction.          *)
Unlocked(p) == [s \in Schedules |-> IF lock[s] = p THEN NULL ELSE lock[s]]

Commit(i) ==
  /\ tick[i].phase = "batch" /\ tick[i].due = {}
  /\ row' = [s \in Schedules |-> IF HasWritten(i, s) THEN Fired(row[s], Written(i, s))
                                 ELSE row[s]]
  /\ spawned' = [s \in Schedules |-> IF HasWritten(i, s)
                                     THEN Append(spawned[s], Written(i, s).slot)
                                     ELSE spawned[s]]
  /\ tick' = [tick EXCEPT ![i] = [IdleTick EXCEPT !.phase = "committed"]]
  /\ lock' = Unlocked(i)
  /\ UNCHANGED <<clock, announced, advisory, edits, failures>>

InTransaction(i) == tick[i].phase \in {"locked", "batch", "walking"}
Throws(i) == /\ tick[i].phase = "walking" /\ ~Behind(i)
             /\ tick[i].current \in Unpayable

(* Mutant: the advisory lock is released after a commit only. *)
RollbackKeepsAdvisory(i) ==
  /\ InTransaction(i)
  /\ \/ Throws(i) /\ UNCHANGED failures
     \/ failures < MaxFailures /\ failures' = failures + 1
  /\ tick' = [tick EXCEPT ![i] = IdleTick]
  /\ lock' = Unlocked(i)
  /\ UNCHANGED <<dbVars, announced, advisory>>

(* A statement fails or a schedule throws: ROLLBACK for the whole batch.   *)
Rollback(i) ==
  /\ InTransaction(i)
  /\ \/ Throws(i) /\ UNCHANGED failures
     \/ failures < MaxFailures /\ failures' = failures + 1
  /\ tick' = [tick EXCEPT ![i] = [IdleTick EXCEPT !.phase = "committed"]]
  /\ lock' = Unlocked(i)
  /\ UNCHANGED <<dbVars, announced, advisory>>

(* pg_advisory_unlock, in the finally block. *)
ReleaseAdvisory(i) ==
  /\ tick[i].phase = "committed"
  /\ advisory' = NULL
  /\ tick' = [tick EXCEPT ![i] = IdleTick]
  /\ UNCHANGED <<dbVars, announced, lock, failures>>

(* The server dies: its session ends, and with it transaction and locks.   *)
Crash(i) ==
  /\ tick[i].phase # "idle"
  /\ failures < MaxFailures /\ failures' = failures + 1
  /\ tick' = [tick EXCEPT ![i] = IdleTick]
  /\ advisory' = NULL
  /\ lock' = Unlocked(i)
  /\ UNCHANGED <<dbVars, announced>>
-----------------------------------------------------------------------------
(* The endpoints *)

Editing == edits < MaxEdits /\ edits' = edits + 1

(* POST /api/schedules *)
Create(s, r) ==
  /\ Editing
  /\ row[s] = AbsentRow
  /\ \E n \in NextRuns(r, clock, clock), enabled \in BOOLEAN :
       row' = [row EXCEPT ![s] = [AbsentRow EXCEPT !.exists = TRUE, !.enabled = enabled,
                                    !.recurrence = r, !.next_run_at = n]]
  /\ UNCHANGED <<clock, spawned, announced, tick, advisory, lock, failures>>

(* PATCH /api/schedules/:id: SELECT ... FOR UPDATE, *)
PatchLock(s) ==
  /\ Editing
  /\ row[s].exists /\ lock[s] = NULL
  /\ lock' = [lock EXCEPT ![s] = "editor"]
  /\ UNCHANGED <<clock, row, spawned, announced, tick, advisory, failures>>

(* Mutant: the old next_run_at goes with the new recurrence. *)
PatchKeepsNext(s) ==
  /\ lock[s] = "editor"
  /\ \E e \in BOOLEAN, r \in Recurrences :
       row' = [row EXCEPT ![s] = [@ EXCEPT !.enabled = e, !.recurrence = r]]
  /\ lock' = [lock EXCEPT ![s] = NULL]
  /\ UNCHANGED <<clock, spawned, announced, tick, advisory, edits, failures>>

(* then UPDATE and COMMIT.  next_run_at is computed anew if a recurrence   *)
(* is given, and is kept otherwise, even if the schedule is enabled again. *)
PatchCommit(s) ==
  /\ lock[s] = "editor"
  /\ \/ \E e \in BOOLEAN : row' = [row EXCEPT ![s].enabled = e]
     \/ \E r \in Recurrences : \E n \in NextRuns(r, clock, clock), e \in BOOLEAN :
          row' = [row EXCEPT ![s] = [@ EXCEPT !.enabled = e, !.recurrence = r,
                                              !.next_run_at = n]]
  /\ lock' = [lock EXCEPT ![s] = NULL]
  /\ UNCHANGED <<clock, spawned, announced, tick, advisory, edits, failures>>

PatchAbort(s) ==
  /\ lock[s] = "editor"
  /\ failures < MaxFailures /\ failures' = failures + 1
  /\ lock' = [lock EXCEPT ![s] = NULL]
  /\ UNCHANGED <<dbVars, announced, tick, advisory>>

(* DELETE /api/schedules/:id waits for the row lock; the tasks stay, with  *)
(* schedule_id NULL.                                                       *)
Delete(s) ==
  /\ Editing
  /\ row[s].exists /\ lock[s] = NULL
  /\ row' = [row EXCEPT ![s].exists = FALSE]
  /\ UNCHANGED <<clock, spawned, announced, tick, advisory, lock, failures>>

(* Time passes, to the next instant or past several; advanceSchedule is    *)
(* too quick for that.                                                     *)
Pass ==
  /\ \A i \in Servers : tick[i].phase # "walking"
  /\ clock' \in {t \in Instants : t > clock}
  /\ UNCHANGED <<row, spawned, announced, tick, advisory, lock, edits, failures>>
-----------------------------------------------------------------------------
TickStep(i) ==
  \/ TakeAdvisory(i) \/ FetchDue(i) \/ Advance(i) \/ Walk(i) \/ Spawn(i)
  \/ Commit(i) \/ Rollback(i) \/ ReleaseAdvisory(i) \/ Crash(i)

EditStep(s) ==
  \/ \E r \in Recurrences : Create(s, r)
  \/ PatchLock(s) \/ PatchCommit(s) \/ PatchAbort(s) \/ Delete(s)

Next == \/ \E i \in Servers : TickStep(i)
        \/ \E s \in Schedules : EditStep(s)
        \/ Pass

Spec == Init /\ [][Next]_vars

(* Every server's interval timer fires, the database answers, and a PATCH  *)
(* does not keep its row for ever.  (A tick that starts takes the advisory *)
(* lock if nobody has it.)                                                 *)
Fairness ==
  /\ \A i \in Servers :
       /\ WF_vars(TakeAdvisory(i)) /\ WF_vars(FetchDue(i)) /\ WF_vars(Advance(i))
       /\ WF_vars(Walk(i)) /\ WF_vars(Spawn(i)) /\ WF_vars(Commit(i))
       /\ WF_vars(Rollback(i) /\ Throws(i)) /\ WF_vars(ReleaseAdvisory(i))
  /\ \A s \in Schedules : WF_vars(PatchCommit(s))

FairSpec == Spec /\ Fairness
-----------------------------------------------------------------------------
(* Properties *)

(* The tables keep their types; the advisory lock is with the one tick that *)
(* is under way, and a row it has read stays locked and due until it ends.  *)
SchedulerTypeOK ==
  /\ clock \in Nat
  /\ row \in [Schedules -> RowType]
  /\ spawned \in [Schedules -> Seq(Int)]
  /\ announced \subseteq [schedule : Schedules, slot : Int]
  /\ tick \in [Servers -> TickType]
  /\ lock \in [Schedules -> Servers \union {"editor", NULL}]
  /\ edits \in Nat /\ failures \in Nat
  /\ \A i \in Servers : tick[i].phase # "idle" <=> advisory = i
  /\ \A i \in Servers, s \in Schedules :
       s \in tick[i].due \/ HasWritten(i, s) => lock[s] = i /\ Due(s)

(* No slot of a schedule spawns two tasks, whatever ticks, restarts, late   *)
(* commits and changes of its recurrence come together: the slots of its    *)
(* tasks increase, none lies in the future, and the next is yet to come.    *)
OneTaskPerSlot ==
  \A s \in Schedules :
    LET n == Len(spawned[s])
    IN  /\ \A j \in 1 .. n : spawned[s][j] <= clock
        /\ \A j, k \in 1 .. n : j < k => spawned[s][j] < spawned[s][k]
        /\ row[s].exists => \A j \in 1 .. n : spawned[s][j] < row[s].next_run_at

(* runs_count and last_run_at tell the tasks there are: the row and its     *)
(* task are written together or not at all.                                 *)
RunsCountTasks ==
  \A s \in Schedules :
    LET n == Len(spawned[s])
    IN  /\ row[s].runs_count = n
        /\ row[s].last_run_at = IF n = 0 THEN NULL ELSE spawned[s][n]

(* schedule.fired is emitted before the commit, so it may tell of a task    *)
(* that never comes to be, but only where a batch has failed or an          *)
(* unpayable schedule makes every batch fail; and no task comes unannounced.*)
AnnouncedOrFailed ==
  LET tasks == UNION {{[schedule |-> s, slot |-> spawned[s][j]] : j \in DOMAIN spawned[s]}
                      : s \in Schedules}
      coming == UNION {{[schedule |-> w.schedule, slot |-> w.slot] : w \in tick[i].writes}
                       : i \in Servers}
  IN  /\ tasks \union coming \subseteq announced
      /\ announced # tasks \union coming =>
           failures > 0 \/ \E s \in Unpayable : row[s] # AbsentRow

(* Rows, tasks and events of every schedule fit together.                   *)
SchedulerConsistent == OneTaskPerSlot /\ RunsCountTasks /\ AnnouncedOrFailed

(* BUILD-CONTRACT: "never spawn more than one task per schedule per tick;   *)
(* if next_run is far behind, advance it to the next FUTURE occurrence".    *)
(* It is advanced past the present unless more occurrences have passed than *)
(* the two bounded loops walk over.                                         *)
WalkedOver(r, from, to) ==
  IF r.kind = "interval" THEN to - from >= r.interval * (MaxIntervalIters + 1)
                                                      * (MaxCatchupAdvances + 1)
  ELSE Cardinality({t \in from + 1 .. to : Placed(r, t)}) > MaxCatchupAdvances

BacklogSkipped ==
  \A i \in Servers : \A w \in tick[i].writes :
    w.next > w.at \/ WalkedOver(row[w.schedule].recurrence, w.slot, w.next)

(* A weekly schedule is due at a moment at which its zone's clocks show one *)
(* of its times on one of its days, give or take the shift of daylight      *)
(* saving: the correction of wallClockToUtc uses the offset of its guess,   *)
(* and a time that the clocks skip is shown at no moment at all.            *)
(* In zones 12 hours ahead and more it is not so: see OnChosenDay.          *)
OnTheClock(r, t) ==
  \E d \in {0, r.zone.shift, -r.zone.shift} : Shows(r, LocalTime(r.zone, t) + d)

SlotsOnTheClock ==
  \A s \in Schedules :
    row[s].exists /\ row[s].recurrence.kind = "weekly" =>
      OnTheClock(row[s].recurrence, row[s].next_run_at)

(* The next slot of a schedule: past the backlog, and at one of its times.  *)
SlotsRight == BacklogSkipped /\ SlotsOnTheClock

(* scheduling.ts of nextWeeklyRun: the earliest instant "that lands on one  *)
(* of `days_of_week` (0=Sun..6=Sat) at one of `times`".                     *)
OnChosenDay ==
  \A s \in Schedules :
    LET r == row[s].recurrence
    IN  row[s].exists /\ r.kind = "weekly" =>
          WeekdayOf(DayOf(LocalTime(r.zone, row[s].next_run_at))) \in r.days

(* A task is spawned only for a schedule that exists and is enabled when    *)
(* the batch commits, for the slot the row names: a PATCH or DELETE that    *)
(* has been answered is not overtaken by a tick that read the row before.   *)
SpawnsOnlyWhatIsDue ==
  [][\A s \in Schedules : spawned'[s] # spawned[s] =>
       Due(s) /\ spawned'[s] = Append(spawned[s], row[s].next_run_at)]_vars

(* Whenever next_run_at is computed, nothing is passed over that still lies *)
(* ahead: no occurrence between now and it, for a zone of constant offset,  *)
(* and never a whole interval.                                              *)
NothingBetween(r, now, next) ==
  /\ r.kind = "interval" => next <= now + r.interval
  /\ r.kind = "weekly" /\ r.zone.shift = 0 => \A t \in now + 1 .. next - 1 : ~Occurs(r, t)

NothingAheadSkipped ==
  [][\A s \in Schedules : row'[s].next_run_at # row[s].next_run_at =>
       NothingBetween(row'[s].recurrence, clock, row'[s].next_run_at)]_vars

(* A schedule that is due fires, is disabled or deleted, or gets another    *)
(* slot, as long as no schedule makes every batch fail; one that is behind  *)
(* catches up.                                                              *)
DueIsServed ==
  \A s \in Schedules : Due(s) ~> (~Due(s) \/ \E u \in Unpayable : Due(u))
=============================================================================
