--------------------------- MODULE SchedulerProofs ---------------------------
(***************************************************************************)
(* For any number of servers and schedules, any recurrences and any clock: *)
(* a slot spawns one task, counted in its row and announced, and only for  *)
(* a schedule that is due when the batch commits; and slots are right, in  *)
(* zones less than 12 hours ahead of UTC.                                  *)
(*                                                                         *)
(* The inductive invariant adds to SchedulerTypeOK what a tick knows of    *)
(* the rows it has locked (TickOK), and what locked rows are (RowOK); for  *)
(* the slots, how far the tick under way has walked (SlotsOK).             *)
(***************************************************************************)
EXTENDS Scheduler, FiniteSetTheorems, TLAPS

(* A tick has nothing outside its transaction; the slot it computes is     *)
(* later than the row's; what it has written is of rows it is through with.*)
TickOK(i) ==
  /\ tick[i].phase \in {"idle", "locked", "committed"} =>
       tick[i].due = {} /\ tick[i].writes = {}
  /\ tick[i].phase = "walking" =>
       tick[i].current \in tick[i].due /\ row[tick[i].current].next_run_at < tick[i].next
  /\ \A w \in tick[i].writes :
       /\ w.schedule \notin tick[i].due
       /\ w.slot = row[w.schedule].next_run_at /\ w.slot < w.next
  /\ \A v, w \in tick[i].writes : v.schedule = w.schedule => v = w

RowOK(s) ==
  /\ row[s] = AbsentRow \/ row[s].recurrence \in Recurrences
  /\ lock[s] # NULL => row[s].exists

ShapeOK ==
  /\ SchedulerTypeOK
  /\ advisory \in Servers \union {NULL}
  /\ \A i \in Servers : TickOK(i)
  /\ \A s \in Schedules : RowOK(s)
-----------------------------------------------------------------------------
(* The recurrences *)

LEMMA OffsetInt ==
  ASSUME NEW z \in Zone, NEW t \in Int
  PROVE  OffsetAt(z, t) \in Int /\ LocalTime(z, t) \in Int
BY DEF Zone, OffsetAt, LocalTime

LEMMA WallClockInt ==
  ASSUME NEW z \in Zone, NEW day \in Int, NEW time \in Int
  PROVE  WallClockToUtc(z, day, time) \in Int
<1> DEFINE guess == day * DayLength + time
<1>1. DayLength \in Int
  BY CalendarAssumption
<1>2. guess \in Int
  BY <1>1
<1>3. LocalTime(z, guess) \in Int
  BY <1>2, OffsetInt
<1> QED
  BY <1>2, <1>3 DEF WallClockToUtc

LEMMA IntervalRunsLater ==
  ASSUME NEW r \in IntervalRecurrence, NEW after \in Int, NEW now \in Int,
         NEW n \in IntervalRuns(r, after, now)
  PROVE  n \in Int /\ n > after
<1>1. PICK k \in 1 .. MaxIntervalIters + 1 : n = after + k * r.interval
  BY DEF IntervalRuns
<1>2. k \in Nat \ {0} /\ r.interval \in Nat \ {0}
  BY CalendarAssumption DEF IntervalRecurrence
<1>3. \A a, b \in Nat \ {0} : a * b \in Nat \ {0}
  OBVIOUS
<1>4. k * r.interval \in Nat \ {0}
  BY <1>2, <1>3
<1> QED
  BY <1>1, <1>4

LEMMA WeeklyRunsLater ==
  ASSUME NEW r \in WeeklyRecurrence, NEW after \in Int, NEW n \in WeeklyRuns(r, after)
  PROVE  n \in Int /\ n > after
<1>1. PICK c \in WeeklySlots(r, after) : n = WallClockToUtc(r.zone, c[1], c[2])
  BY DEF WeeklyRuns
<1>2. c \in WeeklyDays(r, after) \X r.times /\ WallClockToUtc(r.zone, c[1], c[2]) > after
  BY <1>1 DEF WeeklySlots
<1>3. r.zone \in Zone /\ r.times \subseteq Int
  BY CalendarAssumption DEF WeeklyRecurrence
<1>4. LocalTime(r.zone, after) \in Int
  BY <1>3, OffsetInt
<1>5. DayOf(LocalTime(r.zone, after)) \in Int
  BY <1>4, CalendarAssumption DEF DayOf
<1>6. WeeklyDays(r, after) \subseteq Int
  BY <1>5, CalendarAssumption DEF WeeklyDays
<1>7. c[1] \in Int /\ c[2] \in Int
  BY <1>2, <1>3, <1>6
<1> QED
  BY <1>1, <1>2, <1>3, <1>7, WallClockInt

(* Whatever recurrence a schedule has, the slot computed from one instant   *)
(* is a later one: a tick never finds the slot it fires again.              *)
LEMMA NextRunsLater ==
  ASSUME NEW r \in Recurrences, NEW after \in Int, NEW now \in Int,
         NEW n \in NextRuns(r, after, now)
  PROVE  n \in Int /\ n > after
<1>1. r \in IntervalRecurrence \/ r \in WeeklyRecurrence
  BY SchedulerAssumption
<1>2. CASE r \in IntervalRecurrence
  <2>1. n \in IntervalRuns(r, after, now)
    BY <1>2 DEF NextRuns, IntervalRecurrence
  <2> QED
    BY <1>2, <2>1, IntervalRunsLater
<1>3. CASE r \in WeeklyRecurrence
  <2>1. n \in WeeklyRuns(r, after)
    BY <1>3 DEF NextRuns, WeeklyRecurrence
  <2> QED
    BY <1>3, <2>1, WeeklyRunsLater
<1> QED
  BY <1>1, <1>2, <1>3
-----------------------------------------------------------------------------
(* Locks, rows and ticks *)

LEMMA InitShape == Init => ShapeOK
<1> SUFFICES ASSUME Init PROVE ShapeOK
  OBVIOUS
<1> USE DEF Init
<1>1. IdleTick \in TickType
  BY DEF IdleTick, TickType
<1>2. AbsentRow \in RowType
  BY DEF AbsentRow, RowType
<1>3. SchedulerTypeOK
  BY <1>1, <1>2, SchedulerAssumption DEF SchedulerTypeOK, IdleTick, HasWritten
<1>4. \A i \in Servers : TickOK(i)
  BY DEF TickOK, IdleTick
<1>5. \A s \in Schedules : RowOK(s)
  BY DEF RowOK
<1> QED
  BY <1>3, <1>4, <1>5 DEF ShapeOK

(* Only the tick that holds the advisory lock is under way, and every other *)
(* one has nothing.                                                         *)
LEMMA OneTick ==
  ASSUME ShapeOK, NEW i \in Servers, tick[i].phase # "idle", NEW j \in Servers \ {i}
  PROVE  tick[j].phase = "idle" /\ tick[j].due = {} /\ tick[j].writes = {}
BY DEF ShapeOK, SchedulerTypeOK, TickOK

LEMMA TakeAdvisoryShape ==
  ASSUME ShapeOK, NEW i \in Servers, TakeAdvisory(i)
  PROVE  ShapeOK'
<1> USE DEF TakeAdvisory, dbVars
<1>1. tick[i] \in TickType /\ tick' = [tick EXCEPT ![i].phase = "locked"]
  BY DEF ShapeOK, SchedulerTypeOK
<1>2. SchedulerTypeOK'
  <2>1. tick' \in [Servers -> TickType]
    <3>1. [tick[i] EXCEPT !.phase = "locked"] \in TickType
      BY <1>1 DEF TickType
    <3> QED
      BY <1>1, <3>1 DEF ShapeOK, SchedulerTypeOK
  <2>2. \A j \in Servers : tick'[j].phase # "idle" <=> advisory' = j
    BY <1>1, SchedulerAssumption DEF ShapeOK, SchedulerTypeOK, TickType
  <2>3. \A j \in Servers : tick'[j].due = tick[j].due /\ tick'[j].writes = tick[j].writes
    BY <1>1 DEF ShapeOK, SchedulerTypeOK, TickType
  <2> QED
    BY <2>1, <2>2, <2>3 DEF ShapeOK, SchedulerTypeOK, HasWritten, Due
<1>3. \A j \in Servers : TickOK(j)'
  BY <1>1 DEF ShapeOK, SchedulerTypeOK, TickType, TickOK
<1> QED
  BY <1>2, <1>3 DEF ShapeOK, RowOK

LEMMA FetchDueShape ==
  ASSUME ShapeOK, NEW i \in Servers, FetchDue(i)
  PROVE  ShapeOK'
<1> DEFINE due == {s \in Schedules : Due(s) /\ lock[s] = NULL}
<1> USE DEF FetchDue, dbVars
<1>1. /\ tick[i] \in TickType /\ tick[i].writes = {} /\ tick[i].phase = "locked"
      /\ tick' = [tick EXCEPT ![i].phase = "batch", ![i].due = due]
      /\ lock' = [s \in Schedules |-> IF s \in due THEN i ELSE lock[s]]
  BY DEF ShapeOK, SchedulerTypeOK, TickOK
<1>2. tick' \in [Servers -> TickType]
  <2>1. [tick[i] EXCEPT !.phase = "batch", !.due = due] \in TickType
    BY <1>1 DEF TickType
  <2>2. tick' = [tick EXCEPT ![i] = [tick[i] EXCEPT !.phase = "batch", !.due = due]]
    BY <1>1 DEF ShapeOK, SchedulerTypeOK
  <2> QED
    BY <2>1, <2>2 DEF ShapeOK, SchedulerTypeOK
<1>3. \A j \in Servers \ {i} : tick'[j] = tick[j]
  BY <1>1 DEF ShapeOK, SchedulerTypeOK
<1>4. tick'[i].phase = "batch" /\ tick'[i].due = due /\ tick'[i].writes = {}
  BY <1>1 DEF ShapeOK, SchedulerTypeOK, TickType
<1>5. SchedulerTypeOK'
  <2>1. lock' \in [Schedules -> Servers \union {"editor", NULL}]
    BY <1>1 DEF ShapeOK, SchedulerTypeOK
  <2>2. \A j \in Servers : tick'[j].phase # "idle" <=> advisory' = j
    BY <1>1, <1>3, <1>4 DEF ShapeOK, SchedulerTypeOK
  <2>3. ASSUME NEW j \in Servers, NEW s \in Schedules, s \in tick'[j].due \/ HasWritten(j, s)'
        PROVE  lock'[s] = j /\ Due(s)'
    <3>1. CASE j = i
      BY <1>1, <1>4, <2>3, <3>1 DEF HasWritten, Due
    <3>2. CASE j # i
      BY <1>1, <1>3, <2>3, <3>2, OneTick DEF HasWritten
    <3> QED
      BY <3>1, <3>2
  <2> QED
    BY <1>2, <2>1, <2>2, <2>3 DEF ShapeOK, SchedulerTypeOK
<1>6. \A j \in Servers : TickOK(j)'
  BY <1>3, <1>4 DEF ShapeOK, TickOK
<1>7. \A s \in Schedules : RowOK(s)'
  BY <1>1 DEF ShapeOK, SchedulerTypeOK, RowOK, Due
<1> QED
  BY <1>5, <1>6, <1>7 DEF ShapeOK

(* A step of a tick inside its batch that keeps due, writes and locks.      *)
LEMMA WalkingShape ==
  ASSUME ShapeOK, NEW i \in Servers, tick[i].phase \in {"batch", "walking"},
         NEW s \in tick[i].due, NEW n \in Int, NEW a \in Nat, row[s].next_run_at < n,
         tick' = [tick EXCEPT ![i] = [@ EXCEPT !.phase = "walking", !.current = s,
                                               !.next = n, !.advances = a]],
         UNCHANGED <<clock, row, spawned, edits, announced, advisory, lock, failures>>
  PROVE  ShapeOK'
<1>1. tick[i] \in TickType /\ s \in Schedules
  BY DEF ShapeOK, SchedulerTypeOK, TickType
<1>2. tick' \in [Servers -> TickType]
  BY <1>1 DEF ShapeOK, SchedulerTypeOK, TickType
<1>3. \A j \in Servers \ {i} : tick'[j] = tick[j]
  BY DEF ShapeOK, SchedulerTypeOK
<1>4. /\ tick'[i].phase = "walking" /\ tick'[i].due = tick[i].due /\ tick'[i].current = s
      /\ tick'[i].next = n /\ tick'[i].writes = tick[i].writes
  BY <1>1 DEF ShapeOK, SchedulerTypeOK, TickType
<1>5. SchedulerTypeOK'
  <2>1. \A j \in Servers : tick'[j].phase # "idle" <=> advisory' = j
    BY <1>3, <1>4 DEF ShapeOK, SchedulerTypeOK
  <2>2. \A j \in Servers : tick'[j].due = tick[j].due /\ tick'[j].writes = tick[j].writes
    BY <1>3, <1>4
  <2> QED
    BY <1>2, <2>1, <2>2 DEF ShapeOK, SchedulerTypeOK, HasWritten, Due
<1>6. \A j \in Servers : TickOK(j)'
  BY <1>3, <1>4 DEF ShapeOK, TickOK
<1> QED
  BY <1>5, <1>6 DEF ShapeOK, RowOK

LEMMA AdvanceShape ==
  ASSUME ShapeOK, NEW i \in Servers, Advance(i)
  PROVE  ShapeOK'
<1>1. PICK s \in tick[i].due : \E n \in NextRuns(row[s].recurrence, row[s].next_run_at, clock) :
        tick' = [tick EXCEPT ![i] = [@ EXCEPT !.phase = "walking", !.current = s,
                                              !.next = n, !.advances = 0]]
  BY DEF Advance
<1>2. PICK n \in NextRuns(row[s].recurrence, row[s].next_run_at, clock) :
        tick' = [tick EXCEPT ![i] = [@ EXCEPT !.phase = "walking", !.current = s,
                                              !.next = n, !.advances = 0]]
  BY <1>1
<1>3. s \in Schedules
  BY DEF ShapeOK, SchedulerTypeOK, TickType
<1>4. row[s].exists /\ row[s].recurrence \in Recurrences
  BY <1>3 DEF ShapeOK, SchedulerTypeOK, Due, RowOK, AbsentRow
<1>5. row[s].next_run_at \in Int /\ clock \in Int
  BY <1>3 DEF ShapeOK, SchedulerTypeOK, RowType
<1>6. n \in Int /\ n > row[s].next_run_at
  BY <1>4, <1>5, NextRunsLater
<1> QED
  BY <1>2, <1>5, <1>6, WalkingShape DEF Advance, dbVars

LEMMA WalkShape ==
  ASSUME ShapeOK, NEW i \in Servers, Walk(i)
  PROVE  ShapeOK'
<1> DEFINE s == tick[i].current
<1>1. PICK n \in NextRuns(row[s].recurrence, tick[i].next, clock) :
        tick' = [tick EXCEPT ![i] = [tick[i] EXCEPT !.next = n,
                                                    !.advances = tick[i].advances + 1]]
  BY DEF Walk
<1>2. /\ tick[i] \in TickType /\ tick[i].phase = "walking"
      /\ s \in tick[i].due /\ row[s].next_run_at < tick[i].next
  BY DEF ShapeOK, SchedulerTypeOK, TickOK, Walk
<1>3. s \in Schedules /\ tick[i].next \in Int /\ tick[i].advances + 1 \in Nat
  BY <1>2 DEF TickType
<1>4. row[s].recurrence \in Recurrences
  BY <1>2, <1>3 DEF ShapeOK, SchedulerTypeOK, Due, RowOK, AbsentRow
<1>5. row[s].next_run_at \in Int /\ clock \in Int
  BY <1>3 DEF ShapeOK, SchedulerTypeOK, RowType
<1>6. n \in Int /\ n > row[s].next_run_at
  BY <1>2, <1>3, <1>4, <1>5, NextRunsLater
<1>7. [tick[i] EXCEPT !.next = n, !.advances = tick[i].advances + 1] =
      [tick[i] EXCEPT !.phase = "walking", !.current = s, !.next = n,
                      !.advances = tick[i].advances + 1]
  BY <1>2 DEF TickType
<1>8. tick' = [tick EXCEPT ![i] = [@ EXCEPT !.phase = "walking", !.current = s,
                                           !.next = n, !.advances = tick[i].advances + 1]]
  BY <1>1, <1>7
<1>9. UNCHANGED <<clock, row, spawned, edits, announced, advisory, lock, failures>>
  BY DEF Walk, dbVars
<1> HIDE DEF s
<1> QED
  BY <1>2, <1>3, <1>6, <1>8, <1>9, WalkingShape

LEMMA SpawnShape ==
  ASSUME ShapeOK, NEW i \in Servers, Spawn(i)
  PROVE  ShapeOK'
<1> DEFINE s == tick[i].current
           w == [schedule |-> s, slot |-> row[s].next_run_at, next |-> tick[i].next, at |-> clock]
<1>1. /\ tick[i] \in TickType /\ tick[i].phase = "walking"
      /\ s \in tick[i].due /\ row[s].next_run_at < tick[i].next
  BY DEF ShapeOK, SchedulerTypeOK, TickOK, Spawn
<1>2. s \in Schedules /\ clock \in Int /\ row[s].next_run_at \in Int /\ tick[i].next \in Int
  BY <1>1 DEF ShapeOK, SchedulerTypeOK, TickType, RowType
<1>3. w \in Write /\ w.schedule = s /\ w.slot = row[s].next_run_at /\ w.slot < w.next
  BY <1>1, <1>2 DEF Write
<1>4. /\ \A j \in Servers \ {i} : tick'[j] = tick[j]
      /\ tick'[i].phase = "batch" /\ tick'[i].due = tick[i].due \ {s}
      /\ tick'[i].writes = tick[i].writes \union {w}
  BY <1>1 DEF ShapeOK, SchedulerTypeOK, TickType, Spawn
<1>5. tick' \in [Servers -> TickType]
  <2> DEFINE k == [tick[i] EXCEPT !.phase = "batch", !.current = NULL,
                                  !.due = tick[i].due \ {s},
                                  !.writes = tick[i].writes \union {w}]
  <2>1. k \in TickType
    BY <1>1, <1>3 DEF TickType
  <2>2. tick' = [tick EXCEPT ![i] = k]
    BY <1>1 DEF ShapeOK, SchedulerTypeOK, TickType, Spawn
  <2> QED
    BY <2>1, <2>2 DEF ShapeOK, SchedulerTypeOK
<1>6. UNCHANGED <<clock, row, spawned, edits, advisory, lock, failures>>
  BY DEF Spawn, dbVars
<1>7. announced' \subseteq [schedule : Schedules, slot : Int]
  BY <1>2 DEF ShapeOK, SchedulerTypeOK, Spawn
<1> HIDE DEF w, s
<1>8. \A t \in Schedules : HasWritten(i, t)' => t = s \/ HasWritten(i, t)
  BY <1>3, <1>4 DEF HasWritten
<1>9. SchedulerTypeOK'
  <2>1. \A j \in Servers : tick'[j].phase # "idle" <=> advisory' = j
    BY <1>1, <1>4, <1>6 DEF ShapeOK, SchedulerTypeOK
  <2>2. ASSUME NEW j \in Servers, NEW t \in Schedules, t \in tick'[j].due \/ HasWritten(j, t)'
        PROVE  lock'[t] = j /\ Due(t)'
    <3>1. t \in tick[j].due \/ HasWritten(j, t)
      BY <1>1, <1>4, <1>8, <2>2 DEF HasWritten
    <3> QED
      BY <1>6, <3>1 DEF ShapeOK, SchedulerTypeOK, Due
  <2> QED
    BY <1>5, <1>6, <1>7, <2>1, <2>2 DEF ShapeOK, SchedulerTypeOK
<1>10. TickOK(i)'
  BY <1>1, <1>3, <1>4, <1>6 DEF ShapeOK, TickOK
<1>11. \A j \in Servers \ {i} : TickOK(j)'
  BY <1>4, <1>6 DEF ShapeOK, TickOK
<1> QED
  BY <1>6, <1>9, <1>10, <1>11 DEF ShapeOK, RowOK

(* The end of a transaction, however it ends. *)
LEMMA EndShape ==
  ASSUME ShapeOK, NEW i \in Servers, tick[i].phase # "idle",
         NEW p \in {"idle", "committed"},
         tick' = [tick EXCEPT ![i] = [IdleTick EXCEPT !.phase = p]],
         advisory' = IF p = "idle" THEN NULL ELSE advisory,
         lock' = Unlocked(i) \/ (UNCHANGED lock /\ tick[i].phase = "committed"),
         clock' = clock, edits' \in Nat, failures' \in Nat,
         row' \in [Schedules -> RowType], spawned' \in [Schedules -> Seq(Int)],
         announced' = announced,
         \A s \in Schedules : row'[s] = row[s] \/ HasWritten(i, s),
         \A s \in Schedules : row'[s].recurrence = row[s].recurrence /\ row'[s].exists = row[s].exists
  PROVE  ShapeOK'
<1>1. [IdleTick EXCEPT !.phase = p] \in TickType
  BY DEF IdleTick, TickType
<1>2. tick' \in [Servers -> TickType]
  BY <1>1 DEF ShapeOK, SchedulerTypeOK
<1>3. \A j \in Servers \ {i} : tick'[j] = tick[j] /\ tick[j].due = {} /\ tick[j].writes = {}
  BY OneTick DEF ShapeOK, SchedulerTypeOK
<1>4. tick'[i].phase = p /\ tick'[i].due = {} /\ tick'[i].writes = {}
  BY DEF IdleTick, ShapeOK, SchedulerTypeOK
<1>5. \A j \in Servers : tick'[j].due = {} /\ tick'[j].writes = {}
  BY <1>3, <1>4
<1>6. \A j \in Servers : tick'[j].phase # "idle" <=> advisory' = j
  BY <1>3, <1>4, OneTick, SchedulerAssumption DEF ShapeOK, SchedulerTypeOK
<1>7. lock' \in [Schedules -> Servers \union {"editor", NULL}]
  BY DEF ShapeOK, SchedulerTypeOK, Unlocked
<1>8. SchedulerTypeOK'
  BY <1>2, <1>5, <1>6, <1>7 DEF ShapeOK, SchedulerTypeOK, HasWritten
<1>9. \A j \in Servers : TickOK(j)'
  <2>1. \A j \in Servers : tick'[j].phase # "walking"
    BY <1>3, <1>4, OneTick
  <2> QED
    BY <1>5, <2>1 DEF TickOK
<1>10. ASSUME NEW s \in Schedules PROVE RowOK(s)'
  <2>1. row'[s] = AbsentRow \/ row'[s].recurrence \in Recurrences
    BY DEF ShapeOK, SchedulerTypeOK, RowOK, Due, AbsentRow
  <2>2. lock'[s] # NULL => row'[s].exists
    BY DEF ShapeOK, RowOK, Unlocked
  <2> QED
    BY <2>1, <2>2 DEF RowOK
<1>11. advisory' \in Servers \union {NULL}
  BY DEF ShapeOK
<1> QED
  BY <1>8, <1>9, <1>10, <1>11 DEF ShapeOK

(* What a tick writes of a schedule is one slot, the one its row names.     *)
LEMMA WrittenFacts ==
  ASSUME ShapeOK, NEW i \in Servers, NEW s \in Schedules, HasWritten(i, s)
  PROVE  /\ Written(i, s) \in tick[i].writes /\ Written(i, s).schedule = s
         /\ Written(i, s).slot \in Int /\ Written(i, s).next \in Int
         /\ Written(i, s).slot = row[s].next_run_at
         /\ Written(i, s).slot < Written(i, s).next
         /\ Due(s) /\ lock[s] = i
<1>1. Written(i, s) \in tick[i].writes /\ Written(i, s).schedule = s
  BY DEF HasWritten, Written
<1>2. tick[i].writes \subseteq Write
  BY DEF ShapeOK, SchedulerTypeOK, TickType
<1>3. Written(i, s).slot \in Int /\ Written(i, s).next \in Int
  BY <1>1, <1>2 DEF Write
<1> QED
  BY <1>1, <1>3 DEF ShapeOK, SchedulerTypeOK, TickOK

LEMMA CommitShape ==
  ASSUME ShapeOK, NEW i \in Servers, Commit(i)
  PROVE  ShapeOK'
<1>1. ASSUME NEW s \in Schedules
      PROVE  /\ row'[s] \in RowType /\ spawned'[s] \in Seq(Int)
             /\ row'[s] = row[s] \/ HasWritten(i, s)
             /\ row'[s].recurrence = row[s].recurrence /\ row'[s].exists = row[s].exists
  <2>1. row[s] \in RowType /\ spawned[s] \in Seq(Int)
    BY DEF ShapeOK, SchedulerTypeOK
  <2>2. CASE HasWritten(i, s)
    <3>1. row'[s] = Fired(row[s], Written(i, s)) /\ spawned'[s] = Append(spawned[s], Written(i, s).slot)
      BY <2>2 DEF Commit
    <3>2. /\ Written(i, s).slot \in Int /\ Written(i, s).next \in Int
          /\ row[s].runs_count + 1 \in Nat
      BY <2>1, <2>2, WrittenFacts DEF RowType
    <3>3. Fired(row[s], Written(i, s)) \in RowType
      BY <2>1, <3>2 DEF Fired, RowType
    <3>4. Append(spawned[s], Written(i, s).slot) \in Seq(Int)
      BY <2>1, <3>2
    <3>5. /\ Fired(row[s], Written(i, s)).recurrence = row[s].recurrence
          /\ Fired(row[s], Written(i, s)).exists = row[s].exists
      BY <2>1 DEF Fired, RowType
    <3> QED
      BY <2>2, <3>1, <3>3, <3>4, <3>5
  <2>3. CASE ~HasWritten(i, s)
    BY <2>1, <2>3 DEF Commit
  <2> QED
    BY <2>2, <2>3
<1>2. row' \in [Schedules -> RowType] /\ spawned' \in [Schedules -> Seq(Int)]
  BY <1>1 DEF Commit
<1>3. /\ tick[i].phase # "idle" /\ "committed" \in {"idle", "committed"}
      /\ tick' = [tick EXCEPT ![i] = [IdleTick EXCEPT !.phase = "committed"]]
      /\ advisory' = IF "committed" = "idle" THEN NULL ELSE advisory
      /\ lock' = Unlocked(i) /\ clock' = clock /\ announced' = announced
      /\ edits' \in Nat /\ failures' \in Nat
  BY DEF Commit, ShapeOK, SchedulerTypeOK
<1> QED
  BY <1>1, <1>2, <1>3, EndShape

LEMMA RollbackShape ==
  ASSUME ShapeOK, NEW i \in Servers, Rollback(i)
  PROVE  ShapeOK'
<1>1. /\ tick[i].phase # "idle" /\ "committed" \in {"idle", "committed"}
      /\ tick' = [tick EXCEPT ![i] = [IdleTick EXCEPT !.phase = "committed"]]
      /\ advisory' = IF "committed" = "idle" THEN NULL ELSE advisory
      /\ lock' = Unlocked(i) /\ clock' = clock /\ announced' = announced
      /\ edits' \in Nat /\ failures' \in Nat
      /\ row' = row /\ row' \in [Schedules -> RowType]
      /\ spawned' \in [Schedules -> Seq(Int)]
  BY DEF Rollback, InTransaction, dbVars, ShapeOK, SchedulerTypeOK
<1> QED
  BY <1>1, EndShape

LEMMA ReleaseShape ==
  ASSUME ShapeOK, NEW i \in Servers, ReleaseAdvisory(i)
  PROVE  ShapeOK'
<1>1. IdleTick = [IdleTick EXCEPT !.phase = "idle"]
  BY DEF IdleTick
<1>2. /\ tick[i].phase # "idle" /\ "idle" \in {"idle", "committed"}
      /\ tick' = [tick EXCEPT ![i] = [IdleTick EXCEPT !.phase = "idle"]]
      /\ advisory' = IF "idle" = "idle" THEN NULL ELSE advisory
      /\ UNCHANGED lock /\ tick[i].phase = "committed"
      /\ clock' = clock /\ announced' = announced
      /\ edits' \in Nat /\ failures' \in Nat
      /\ row' = row /\ row' \in [Schedules -> RowType]
      /\ spawned' \in [Schedules -> Seq(Int)]
  BY <1>1 DEF ReleaseAdvisory, dbVars, ShapeOK, SchedulerTypeOK
<1> QED
  BY <1>2, EndShape

LEMMA CrashShape ==
  ASSUME ShapeOK, NEW i \in Servers, Crash(i)
  PROVE  ShapeOK'
<1>1. IdleTick = [IdleTick EXCEPT !.phase = "idle"]
  BY DEF IdleTick
<1>2. /\ edits \in Nat /\ failures \in Nat
      /\ row \in [Schedules -> RowType] /\ spawned \in [Schedules -> Seq(Int)]
  BY DEF ShapeOK, SchedulerTypeOK
<1>3. /\ tick[i].phase # "idle" /\ "idle" \in {"idle", "committed"}
      /\ tick' = [tick EXCEPT ![i] = [IdleTick EXCEPT !.phase = "idle"]]
  BY <1>1 DEF Crash
<1>4. /\ advisory' = IF "idle" = "idle" THEN NULL ELSE advisory
      /\ lock' = Unlocked(i) /\ clock' = clock /\ announced' = announced
  BY DEF Crash, dbVars
<1>5. /\ edits' \in Nat /\ failures' \in Nat
      /\ row' = row /\ row' \in [Schedules -> RowType]
      /\ spawned' \in [Schedules -> Seq(Int)]
  BY <1>2 DEF Crash, dbVars
<1> QED
  BY <1>3, <1>4, <1>5, EndShape

(* An endpoint's step on a row that no tick has locked. *)
LEMMA EditShape ==
  ASSUME ShapeOK, NEW s \in Schedules, lock[s] \in {"editor", NULL},
         NEW r \in RowType, row' = [row EXCEPT ![s] = r],
         NEW l \in {"editor", NULL}, lock' = [lock EXCEPT ![s] = l],
         r = AbsentRow \/ r.recurrence \in Recurrences,
         l # NULL => r.exists,
         UNCHANGED <<clock, spawned, announced, tick, advisory>>,
         edits' \in Nat, failures' \in Nat
  PROVE  ShapeOK'
<1>1. row' \in [Schedules -> RowType] /\ lock' \in [Schedules -> Servers \union {"editor", NULL}]
  BY DEF ShapeOK, SchedulerTypeOK
<1>2. ASSUME NEW i \in Servers
      PROVE  s \notin tick[i].due /\ ~HasWritten(i, s)
  BY SchedulerAssumption DEF ShapeOK, SchedulerTypeOK
<1>3. \A t \in Schedules \ {s} : row'[t] = row[t] /\ lock'[t] = lock[t]
  BY DEF ShapeOK, SchedulerTypeOK
<1>4. SchedulerTypeOK'
  <2>1. ASSUME NEW i \in Servers, NEW t \in Schedules, t \in tick'[i].due \/ HasWritten(i, t)'
        PROVE  lock'[t] = i /\ Due(t)'
    <3>1. t \in tick[i].due \/ HasWritten(i, t)
      BY <2>1 DEF HasWritten
    <3>2. t # s
      BY <1>2, <3>1
    <3> QED
      BY <1>3, <3>1, <3>2 DEF ShapeOK, SchedulerTypeOK, Due
  <2> QED
    BY <1>1, <2>1 DEF ShapeOK, SchedulerTypeOK
<1>5. ASSUME NEW i \in Servers PROVE TickOK(i)'
  <2>1. \A w \in tick[i].writes : w.schedule \in Schedules /\ w.schedule # s
    BY <1>2 DEF HasWritten, ShapeOK, SchedulerTypeOK, TickType, Write
  <2>2. tick[i].phase = "walking" => tick[i].current \in Schedules \ {s}
    BY <1>2 DEF ShapeOK, SchedulerTypeOK, TickType, TickOK
  <2> QED
    BY <1>3, <2>1, <2>2 DEF ShapeOK, TickOK
<1>6. ASSUME NEW t \in Schedules PROVE RowOK(t)'
  <2>1. CASE t = s
    BY <2>1 DEF RowOK, ShapeOK, SchedulerTypeOK
  <2>2. CASE t # s
    BY <1>3, <2>2 DEF RowOK, ShapeOK
  <2> QED
    BY <2>1, <2>2
<1> QED
  BY <1>4, <1>5, <1>6 DEF ShapeOK

LEMMA CreateShape ==
  ASSUME ShapeOK, NEW s \in Schedules, NEW r \in Recurrences, Create(s, r)
  PROVE  ShapeOK'
<1>1. PICK n \in NextRuns(r, clock, clock), e \in BOOLEAN :
        row' = [row EXCEPT ![s] = [AbsentRow EXCEPT !.exists = TRUE, !.enabled = e,
                                      !.recurrence = r, !.next_run_at = n]]
  BY DEF Create
<1>2. n \in Int
  BY NextRunsLater DEF ShapeOK, SchedulerTypeOK
<1> DEFINE new == [AbsentRow EXCEPT !.exists = TRUE, !.enabled = e,
                                    !.recurrence = r, !.next_run_at = n]
<1>3. new \in RowType /\ new.recurrence \in Recurrences
  BY <1>2 DEF AbsentRow, RowType
<1>4. lock[s] = NULL /\ lock' = [lock EXCEPT ![s] = NULL]
  BY DEF Create, ShapeOK, SchedulerTypeOK, RowOK, AbsentRow
<1>5. UNCHANGED <<clock, spawned, announced, tick, advisory>> /\ edits' \in Nat /\ failures' \in Nat
  BY DEF Create, Editing, ShapeOK, SchedulerTypeOK
<1> HIDE DEF new
<1> QED
  BY <1>1, <1>3, <1>4, <1>5, EditShape DEF new

LEMMA PatchShape ==
  ASSUME ShapeOK, NEW s \in Schedules, PatchLock(s) \/ PatchCommit(s) \/ PatchAbort(s)
  PROVE  ShapeOK'
<1>1. row[s] \in RowType /\ row = [row EXCEPT ![s] = row[s]]
  BY DEF ShapeOK, SchedulerTypeOK
<1>2. row[s].exists /\ row[s].recurrence \in Recurrences
  <2>1. row[s].exists
    BY SchedulerAssumption DEF PatchLock, PatchCommit, PatchAbort, ShapeOK, RowOK
  <2> QED
    BY <2>1 DEF ShapeOK, RowOK, AbsentRow
<1>3. UNCHANGED <<clock, spawned, announced, tick, advisory>> /\ edits' \in Nat /\ failures' \in Nat
  <2>1. edits \in Nat /\ failures \in Nat
    BY DEF ShapeOK, SchedulerTypeOK
  <2>2. CASE PatchLock(s)
    BY <2>1, <2>2 DEF PatchLock, Editing
  <2>3. CASE PatchCommit(s)
    BY <2>1, <2>3 DEF PatchCommit
  <2>4. CASE PatchAbort(s)
    BY <2>1, <2>4 DEF PatchAbort, dbVars
  <2> QED
    BY <2>2, <2>3, <2>4
<1>4. CASE PatchLock(s)
  BY <1>1, <1>2, <1>3, <1>4, EditShape DEF PatchLock
<1>5. CASE PatchAbort(s)
  BY <1>1, <1>2, <1>3, <1>5, EditShape DEF PatchAbort, dbVars
<1>6. CASE PatchCommit(s)
  <2>1. ASSUME NEW e \in BOOLEAN, row' = [row EXCEPT ![s].enabled = e]
        PROVE  ShapeOK'
    <3>1. [row[s] EXCEPT !.enabled = e] \in RowType
      BY <1>1 DEF RowType
    <3>2. [row[s] EXCEPT !.enabled = e].recurrence \in Recurrences
      BY <1>1, <1>2 DEF RowType
    <3> QED
      BY <1>3, <1>6, <2>1, <3>1, <3>2, EditShape DEF PatchCommit
  <2>2. ASSUME NEW r \in Recurrences, NEW n \in NextRuns(r, clock, clock), NEW e \in BOOLEAN,
               row' = [row EXCEPT ![s] = [@ EXCEPT !.enabled = e, !.recurrence = r,
                                                   !.next_run_at = n]]
        PROVE  ShapeOK'
    <3>1. n \in Int
      BY NextRunsLater DEF ShapeOK, SchedulerTypeOK
    <3> DEFINE new == [row[s] EXCEPT !.enabled = e, !.recurrence = r, !.next_run_at = n]
    <3>2. new \in RowType /\ new.recurrence \in Recurrences
      BY <1>1, <3>1 DEF RowType
    <3>3. row' = [row EXCEPT ![s] = new]
      BY <2>2
    <3> HIDE DEF new
    <3> QED
      BY <1>3, <1>6, <3>2, <3>3, EditShape DEF PatchCommit
  <2> QED
    BY <1>6, <2>1, <2>2 DEF PatchCommit
<1> QED
  BY <1>4, <1>5, <1>6

LEMMA DeleteShape ==
  ASSUME ShapeOK, NEW s \in Schedules, Delete(s)
  PROVE  ShapeOK'
<1>1. row[s] \in RowType /\ row[s].exists /\ row[s].recurrence \in Recurrences
  BY DEF Delete, ShapeOK, SchedulerTypeOK, RowOK, AbsentRow
<1> DEFINE new == [row[s] EXCEPT !.exists = FALSE]
<1>2. new \in RowType /\ new.recurrence \in Recurrences
  BY <1>1 DEF RowType
<1>3. /\ lock[s] = NULL /\ lock' = [lock EXCEPT ![s] = NULL]
      /\ row' = [row EXCEPT ![s] = new]
  BY DEF Delete, ShapeOK, SchedulerTypeOK
<1>4. UNCHANGED <<clock, spawned, announced, tick, advisory>> /\ edits' \in Nat /\ failures' \in Nat
  BY DEF Delete, Editing, ShapeOK, SchedulerTypeOK
<1> HIDE DEF new
<1> QED
  BY <1>2, <1>3, <1>4, EditShape

LEMMA PassShape ==
  ASSUME ShapeOK, Pass
  PROVE  ShapeOK'
<1>1. clock' \in Nat /\ clock' > clock
  BY SchedulerAssumption DEF Pass
<1>2. UNCHANGED <<row, spawned, announced, tick, advisory, lock, edits, failures>>
  BY DEF Pass
<1>3. \A s \in Schedules : Due(s) => Due(s)'
  BY <1>1, <1>2 DEF ShapeOK, SchedulerTypeOK, RowType, Due
<1> QED
  BY <1>1, <1>2, <1>3 DEF ShapeOK, SchedulerTypeOK, HasWritten, TickOK, RowOK

LEMMA StepShape == ShapeOK /\ [Next]_vars => ShapeOK'
<1> SUFFICES ASSUME ShapeOK, [Next]_vars PROVE ShapeOK'
  OBVIOUS
<1>1. ASSUME NEW i \in Servers, TickStep(i) PROVE ShapeOK'
  BY <1>1, TakeAdvisoryShape, FetchDueShape, AdvanceShape, WalkShape, SpawnShape,
     CommitShape, RollbackShape, ReleaseShape, CrashShape DEF TickStep
<1>2. ASSUME NEW s \in Schedules, EditStep(s) PROVE ShapeOK'
  BY <1>2, CreateShape, PatchShape, DeleteShape DEF EditStep
<1>3. CASE UNCHANGED vars
  BY <1>3 DEF vars, ShapeOK, SchedulerTypeOK, HasWritten, Due, TickOK, RowOK
<1> QED
  BY <1>1, <1>2, <1>3, PassShape DEF Next

LEMMA ShapeAlways == Spec => []ShapeOK
BY InitShape, StepShape, PTL DEF Spec

(* The tables keep their types, one tick at a time is under way, and a row  *)
(* it has read stays locked and due until its transaction ends.             *)
THEOREM SchedulerTypeCorrect == Spec => []SchedulerTypeOK
<1>1. ShapeOK => SchedulerTypeOK
  BY DEF ShapeOK
<1> QED
  BY <1>1, ShapeAlways, PTL
-----------------------------------------------------------------------------
(* Tasks come with a commit *)

LEMMA TasksCommitted ==
  ASSUME [Next]_vars, spawned' # spawned
  PROVE  \E i \in Servers : Commit(i)
<1>1. ASSUME NEW i \in Servers, TickStep(i) PROVE Commit(i)
  BY <1>1 DEF TickStep, TakeAdvisory, FetchDue, Advance, Walk, Spawn, Rollback,
              ReleaseAdvisory, Crash, dbVars
<1>2. ASSUME NEW s \in Schedules, EditStep(s) PROVE FALSE
  BY <1>2 DEF EditStep, Create, PatchLock, PatchCommit, PatchAbort, Delete, dbVars
<1> QED
  BY <1>1, <1>2 DEF Next, Pass, vars

(* A task is spawned only for a schedule that exists, is enabled and due    *)
(* when the batch commits, for the slot its row names: no PATCH or DELETE   *)
(* comes between the tick's read of a row and its commit.                   *)
THEOREM SpawnsAreDue == Spec => SpawnsOnlyWhatIsDue
<1>1. ASSUME ShapeOK, [Next]_vars, NEW s \in Schedules, spawned'[s] # spawned[s]
      PROVE  Due(s) /\ spawned'[s] = Append(spawned[s], row[s].next_run_at)
  <2>1. PICK i \in Servers : Commit(i)
    BY <1>1, TasksCommitted
  <2>2. HasWritten(i, s) /\ spawned'[s] = Append(spawned[s], Written(i, s).slot)
    BY <1>1, <2>1 DEF Commit
  <2> QED
    BY <1>1, <2>2, WrittenFacts
<1>2. ShapeOK /\ [Next]_vars =>
        [\A s \in Schedules : spawned'[s] # spawned[s] =>
           Due(s) /\ spawned'[s] = Append(spawned[s], row[s].next_run_at)]_vars
  BY <1>1
<1> QED
  BY <1>2, ShapeAlways, PTL DEF Spec, SpawnsOnlyWhatIsDue

TasksOK == OneTaskPerSlot /\ RunsCountTasks

(* A step that leaves the tasks alone may move next_run_at only ahead.      *)
LEMMA TasksKept ==
  ASSUME ShapeOK, ShapeOK', TasksOK, UNCHANGED spawned, clock <= clock',
         \A s \in Schedules :
           /\ row'[s].runs_count = row[s].runs_count
           /\ row'[s].last_run_at = row[s].last_run_at
           /\ row'[s].exists =>
                \/ row'[s].next_run_at > clock
                \/ row[s].exists /\ row'[s].next_run_at = row[s].next_run_at
  PROVE  TasksOK'
<1>1. RunsCountTasks'
  BY DEF TasksOK, RunsCountTasks
<1>2. OneTaskPerSlot'
  <2> SUFFICES ASSUME NEW s \in Schedules
               PROVE  /\ \A j \in 1 .. Len(spawned[s]) : spawned[s][j] <= clock'
                      /\ \A j, k \in 1 .. Len(spawned[s]) : j < k => spawned[s][j] < spawned[s][k]
                      /\ row'[s].exists =>
                           \A j \in 1 .. Len(spawned[s]) : spawned[s][j] < row'[s].next_run_at
    BY DEF OneTaskPerSlot
  <2>1. /\ \A j \in 1 .. Len(spawned[s]) : spawned[s][j] <= clock
        /\ \A j, k \in 1 .. Len(spawned[s]) : j < k => spawned[s][j] < spawned[s][k]
        /\ row[s].exists =>
             \A j \in 1 .. Len(spawned[s]) : spawned[s][j] < row[s].next_run_at
    BY DEF TasksOK, OneTaskPerSlot
  <2>2. /\ \A j \in 1 .. Len(spawned[s]) : spawned[s][j] \in Int
        /\ clock \in Int /\ clock' \in Int /\ row'[s].next_run_at \in Int
    BY DEF ShapeOK, SchedulerTypeOK, RowType
  <2> QED
    BY <2>1, <2>2
<1> QED
  BY <1>1, <1>2 DEF TasksOK

(* A commit appends the row's slot: it is past, and later than the slots    *)
(* before it; the row's new slot is later still.                            *)
LEMMA CommitTasks ==
  ASSUME ShapeOK, ShapeOK', TasksOK, NEW i \in Servers, Commit(i)
  PROVE  TasksOK'
<1> SUFFICES ASSUME NEW s \in Schedules
             PROVE  LET n == Len(spawned'[s])
                    IN  /\ \A j \in 1 .. n : spawned'[s][j] <= clock'
                        /\ \A j, k \in 1 .. n : j < k => spawned'[s][j] < spawned'[s][k]
                        /\ row'[s].exists => \A j \in 1 .. n : spawned'[s][j] < row'[s].next_run_at
                        /\ row'[s].runs_count = n
                        /\ row'[s].last_run_at = IF n = 0 THEN NULL ELSE spawned'[s][n]
  BY DEF TasksOK, OneTaskPerSlot, RunsCountTasks
<1>1. /\ \A j \in 1 .. Len(spawned[s]) : spawned[s][j] <= clock
      /\ \A j, k \in 1 .. Len(spawned[s]) : j < k => spawned[s][j] < spawned[s][k]
      /\ row[s].exists => \A j \in 1 .. Len(spawned[s]) : spawned[s][j] < row[s].next_run_at
      /\ row[s].runs_count = Len(spawned[s])
      /\ row[s].last_run_at = IF Len(spawned[s]) = 0 THEN NULL ELSE spawned[s][Len(spawned[s])]
  BY DEF TasksOK, OneTaskPerSlot, RunsCountTasks
<1>2. /\ row[s] \in RowType /\ spawned[s] \in Seq(Int) /\ clock' = clock /\ clock \in Int
      /\ \A j \in 1 .. Len(spawned[s]) : spawned[s][j] \in Int
  BY DEF ShapeOK, SchedulerTypeOK, Commit
<1>3. CASE ~HasWritten(i, s)
  <2>1. row'[s] = row[s] /\ spawned'[s] = spawned[s]
    BY <1>3 DEF Commit
  <2> QED
    BY <1>1, <1>2, <2>1
<1>4. CASE HasWritten(i, s)
  <2> DEFINE w == Written(i, s)
             m == Len(spawned[s])
  <2>1. /\ w.slot \in Int /\ w.next \in Int /\ w.slot = row[s].next_run_at
        /\ w.slot < w.next /\ row[s].exists /\ w.slot <= clock
    BY <1>4, WrittenFacts DEF Due
  <2>2. spawned'[s] = Append(spawned[s], w.slot)
    BY <1>4 DEF Commit
  <2>3. row'[s] = Fired(row[s], w)
    BY <1>4 DEF Commit
  <2>4. /\ row'[s].next_run_at = w.next /\ row'[s].last_run_at = w.slot
        /\ row'[s].runs_count = row[s].runs_count + 1
    BY <1>2, <2>3 DEF Fired, RowType
  <2> HIDE DEF w
  <2>5. /\ Len(spawned'[s]) = m + 1 /\ spawned'[s][m + 1] = w.slot /\ m \in Nat
        /\ \A j \in 1 .. m : spawned'[s][j] = spawned[s][j]
    BY <1>2, <2>1, <2>2
  <2> HIDE DEF m
  <2>6. \A j \in 1 .. m : spawned[s][j] <= clock /\ spawned[s][j] < w.slot /\ spawned[s][j] \in Int
    BY <1>1, <1>2, <2>1 DEF m
  <2>7. \A j, k \in 1 .. m : j < k => spawned[s][j] < spawned[s][k]
    BY <1>1 DEF m
  <2>8. \A j \in 1 .. m + 1 : j \in 1 .. m \/ j = m + 1
    BY <2>5
  <2>9. \A j \in 1 .. m + 1 : spawned'[s][j] <= clock' /\ spawned'[s][j] < row'[s].next_run_at
    BY <1>2, <2>1, <2>4, <2>5, <2>6, <2>8
  <2>10. \A j, k \in 1 .. m + 1 : j < k => spawned'[s][j] < spawned'[s][k]
    BY <2>5, <2>6, <2>7, <2>8
  <2>11. row'[s].runs_count = m + 1
    BY <1>1, <2>4 DEF m
  <2> QED
    BY <2>4, <2>5, <2>9, <2>10, <2>11
<1> QED
  BY <1>3, <1>4

LEMMA EditTasks ==
  ASSUME ShapeOK, ShapeOK', TasksOK, NEW s \in Schedules, EditStep(s)
  PROVE  TasksOK'
<1>1. row \in [Schedules -> RowType] /\ clock \in Int
  BY DEF ShapeOK, SchedulerTypeOK
<1>2. UNCHANGED spawned /\ clock' = clock
  BY DEF EditStep, Create, PatchLock, PatchCommit, PatchAbort, Delete, dbVars
<1>3. ASSUME NEW t \in Schedules
      PROVE  /\ row'[t].runs_count = row[t].runs_count
             /\ row'[t].last_run_at = row[t].last_run_at
             /\ row'[t].exists =>
                  \/ row'[t].next_run_at > clock
                  \/ row[t].exists /\ row'[t].next_run_at = row[t].next_run_at
  <2>1. CASE \E r \in Recurrences : Create(s, r)
    <3>1. PICK r \in Recurrences : Create(s, r)
      BY <2>1
    <3>2. PICK n \in NextRuns(r, clock, clock), e \in BOOLEAN :
            row' = [row EXCEPT ![s] = [AbsentRow EXCEPT !.exists = TRUE, !.enabled = e,
                                          !.recurrence = r, !.next_run_at = n]]
      BY <3>1 DEF Create
    <3>3. n > clock
      BY <1>1, NextRunsLater
    <3> QED
      BY <1>1, <3>1, <3>2, <3>3 DEF Create, AbsentRow
  <2>2. CASE PatchCommit(s)
    <3>1. ASSUME NEW e \in BOOLEAN, row' = [row EXCEPT ![s].enabled = e]
          PROVE  /\ row'[t].runs_count = row[t].runs_count
                 /\ row'[t].last_run_at = row[t].last_run_at
                 /\ row'[t].next_run_at = row[t].next_run_at
                 /\ row'[t].exists = row[t].exists
      BY <1>1, <3>1 DEF RowType
    <3>2. ASSUME NEW r \in Recurrences, NEW n \in NextRuns(r, clock, clock), NEW e \in BOOLEAN,
                 row' = [row EXCEPT ![s] = [@ EXCEPT !.enabled = e, !.recurrence = r,
                                                     !.next_run_at = n]]
          PROVE  /\ row'[t].runs_count = row[t].runs_count
                 /\ row'[t].last_run_at = row[t].last_run_at
                 /\ row'[t] = row[t] \/ row'[t].next_run_at > clock
      <4>1. n > clock
        BY <1>1, NextRunsLater
      <4> QED
        BY <1>1, <3>2, <4>1 DEF RowType
    <3> QED
      BY <2>2, <3>1, <3>2 DEF PatchCommit
  <2>3. CASE Delete(s)
    BY <1>1, <2>3 DEF Delete, RowType
  <2>4. CASE PatchLock(s) \/ PatchAbort(s)
    BY <2>4 DEF PatchLock, PatchAbort, dbVars
  <2> QED
    BY <2>1, <2>2, <2>3, <2>4 DEF EditStep
<1> QED
  BY <1>1, <1>2, <1>3, TasksKept

LEMMA StepTasks ==
  ASSUME ShapeOK, ShapeOK', TasksOK, [Next]_vars
  PROVE  TasksOK'
<1>1. ASSUME NEW i \in Servers, TickStep(i), ~Commit(i) PROVE TasksOK'
  <2>1. UNCHANGED <<spawned, clock, row>>
    BY <1>1 DEF TickStep, TakeAdvisory, FetchDue, Advance, Walk, Spawn, Rollback,
                ReleaseAdvisory, Crash, dbVars
  <2> QED
    BY <2>1 DEF TasksOK, OneTaskPerSlot, RunsCountTasks
<1>2. CASE Pass
  <2>1. clock' >= clock /\ UNCHANGED <<row, spawned>>
    BY <1>2, SchedulerAssumption DEF Pass, ShapeOK, SchedulerTypeOK
  <2> QED
    BY <2>1, TasksKept
<1>3. CASE UNCHANGED vars
  BY <1>3 DEF vars, TasksOK, OneTaskPerSlot, RunsCountTasks
<1> QED
  BY <1>1, <1>2, <1>3, CommitTasks, EditTasks DEF Next

LEMMA InitTasks == Init => TasksOK
BY DEF Init, TasksOK, OneTaskPerSlot, RunsCountTasks, AbsentRow
-----------------------------------------------------------------------------
(* Events *)

IsTask(s, x) == \E j \in DOMAIN spawned[s] : spawned[s][j] = x
IsComing(s, x) == \E i \in Servers : \E w \in tick[i].writes : w.schedule = s /\ w.slot = x
IsTold(s, x) == [schedule |-> s, slot |-> x] \in announced
Excused == failures > 0 \/ \E s \in Unpayable : row[s] # AbsentRow

(* AnnouncedOrFailed, for one schedule and slot at a time. *)
EventsOK ==
  \A s \in Schedules, x \in Int :
    /\ IsTask(s, x) \/ IsComing(s, x) => IsTold(s, x)
    /\ IsTold(s, x) => IsTask(s, x) \/ IsComing(s, x) \/ Excused

LEMMA EventsAnnounced ==
  ASSUME ShapeOK, EventsOK
  PROVE  AnnouncedOrFailed
<1> DEFINE tasks == UNION {{[schedule |-> s, slot |-> spawned[s][j]] : j \in DOMAIN spawned[s]}
                           : s \in Schedules}
           coming == UNION {{[schedule |-> w.schedule, slot |-> w.slot] : w \in tick[i].writes}
                            : i \in Servers}
<1>1. \A s \in Schedules : \A j \in DOMAIN spawned[s] : spawned[s][j] \in Int
  BY DEF ShapeOK, SchedulerTypeOK
<1>2. tasks \subseteq announced
  BY <1>1 DEF EventsOK, IsTask, IsTold
<1>3. \A i \in Servers : \A w \in tick[i].writes : w.schedule \in Schedules /\ w.slot \in Int
  BY DEF ShapeOK, SchedulerTypeOK, TickType, Write
<1>4. coming \subseteq announced
  BY <1>3 DEF EventsOK, IsComing, IsTold
<1>5. ASSUME ~Excused PROVE announced \subseteq tasks \union coming
  <2> SUFFICES ASSUME NEW e \in announced PROVE e \in tasks \union coming
    OBVIOUS
  <2>1. PICK s \in Schedules, x \in Int : e = [schedule |-> s, slot |-> x]
    BY DEF ShapeOK, SchedulerTypeOK
  <2>2. IsTask(s, x) \/ IsComing(s, x)
    BY <1>5, <2>1 DEF EventsOK, IsTold
  <2>3. CASE IsTask(s, x)
    BY <2>1, <2>3 DEF IsTask
  <2>4. CASE IsComing(s, x)
    BY <2>1, <2>4 DEF IsComing
  <2> QED
    BY <2>2, <2>3, <2>4
<1>6. ~Excused => announced = tasks \union coming
  BY <1>2, <1>4, <1>5
<1> QED
  BY <1>2, <1>4, <1>6 DEF AnnouncedOrFailed, Excused

LEMMA RowsStay ==
  ASSUME ShapeOK, ShapeOK', [Next]_vars, NEW s \in Schedules, row[s] # AbsentRow
  PROVE  row'[s] # AbsentRow
<1>1. row \in [Schedules -> RowType] /\ row[s].recurrence \in Recurrences
  BY DEF ShapeOK, SchedulerTypeOK, RowOK
<1>2. row'[s].recurrence \in Recurrences
  <2>1. ASSUME NEW i \in Servers, TickStep(i) PROVE row'[s].recurrence = row[s].recurrence
    <3>1. CASE Commit(i)
      BY <1>1, <3>1 DEF Commit, Fired, RowType
    <3>2. CASE ~Commit(i)
      BY <2>1, <3>2 DEF TickStep, TakeAdvisory, FetchDue, Advance, Walk, Spawn, Rollback,
                        ReleaseAdvisory, Crash, dbVars
    <3> QED
      BY <3>1, <3>2
  <2>2. ASSUME NEW t \in Schedules, EditStep(t) PROVE row'[s].recurrence \in Recurrences
    <3>1. ASSUME NEW r \in Recurrences, Create(t, r) PROVE row'[s].recurrence \in Recurrences
      <4>1. s # t
        BY <3>1 DEF Create
      <4>2. row'[s] = row[s]
        BY <1>1, <3>1, <4>1 DEF Create
      <4> QED
        BY <1>1, <4>2
    <3>2. CASE PatchCommit(t)
      <4>1. ASSUME NEW e \in BOOLEAN, row' = [row EXCEPT ![t].enabled = e]
            PROVE  row'[s].recurrence = row[s].recurrence
        BY <1>1, <4>1 DEF RowType
      <4>2. ASSUME NEW r \in Recurrences, NEW n \in NextRuns(r, clock, clock), NEW e \in BOOLEAN,
                   row' = [row EXCEPT ![t] = [@ EXCEPT !.enabled = e, !.recurrence = r,
                                                       !.next_run_at = n]]
            PROVE  row'[s].recurrence \in {r, row[s].recurrence}
        BY <1>1, <4>2 DEF RowType
      <4> QED
        BY <1>1, <3>2, <4>1, <4>2 DEF PatchCommit
    <3>3. CASE Delete(t)
      BY <1>1, <3>3 DEF Delete, RowType
    <3>4. CASE PatchLock(t) \/ PatchAbort(t)
      BY <1>1, <3>4 DEF PatchLock, PatchAbort, dbVars
    <3> QED
      BY <2>2, <3>1, <3>2, <3>3, <3>4 DEF EditStep
  <2> QED
    BY <1>1, <2>1, <2>2 DEF Next, Pass, vars
<1> QED
  BY <1>2, SchedulerAssumption DEF AbsentRow

LEMMA ExcusedStays ==
  ASSUME ShapeOK, ShapeOK', [Next]_vars, Excused
  PROVE  Excused'
<1>1. failures \in Nat
  BY DEF ShapeOK, SchedulerTypeOK
<1>2. failures' = failures \/ failures' = failures + 1
  BY DEF Next, TickStep, EditStep, TakeAdvisory, FetchDue, Advance, Walk, Spawn, Commit, Rollback,
         ReleaseAdvisory, Crash, Create, PatchLock, PatchCommit, PatchAbort, Delete, Pass, vars, dbVars
<1>3. \A s \in Unpayable : row[s] # AbsentRow => row'[s] # AbsentRow
  BY RowsStay, SchedulerAssumption
<1> QED
  BY <1>1, <1>2, <1>3 DEF Excused

(* A step with the same tasks, writes and events. *)
LEMMA EventsKept ==
  ASSUME EventsOK, ShapeOK, ShapeOK', [Next]_vars, UNCHANGED <<spawned, announced>>,
         \A i \in Servers : tick'[i].writes = tick[i].writes
  PROVE  EventsOK'
<1>1. \A s \in Schedules, x \in Int :
        /\ IsTask(s, x)' <=> IsTask(s, x)
        /\ IsComing(s, x)' <=> IsComing(s, x)
        /\ IsTold(s, x)' <=> IsTold(s, x)
  BY DEF IsTask, IsComing, IsTold
<1> QED
  BY <1>1, ExcusedStays DEF EventsOK

LEMMA SpawnEvents ==
  ASSUME EventsOK, ShapeOK, ShapeOK', NEW i \in Servers, Spawn(i)
  PROVE  EventsOK'
<1> DEFINE t == tick[i].current
           y == row[t].next_run_at
           w == [schedule |-> t, slot |-> y, next |-> tick[i].next, at |-> clock]
<1>1. tick \in [Servers -> TickType]
  BY DEF ShapeOK, SchedulerTypeOK
<1>2. /\ \A j \in Servers \ {i} : tick'[j] = tick[j]
      /\ tick'[i].writes = tick[i].writes \union {w}
  BY <1>1 DEF Spawn, TickType
<1>3. UNCHANGED <<spawned, row, failures>> /\ announced' = announced \union {[schedule |-> t, slot |-> y]}
  BY DEF Spawn, dbVars
<1>4. w.schedule = t /\ w.slot = y
  OBVIOUS
<1> HIDE DEF t, y, w
<1> SUFFICES ASSUME NEW s \in Schedules, NEW x \in Int
             PROVE  /\ IsTask(s, x)' \/ IsComing(s, x)' => IsTold(s, x)'
                    /\ IsTold(s, x)' => IsTask(s, x)' \/ IsComing(s, x)' \/ Excused'
  BY DEF EventsOK
<1>5. /\ IsTask(s, x)' <=> IsTask(s, x)
      /\ Excused' <=> Excused
  BY <1>3 DEF IsTask, Excused
<1>6. IsComing(s, x)' <=> IsComing(s, x) \/ (s = t /\ x = y)
  BY <1>2, <1>4 DEF IsComing
<1>7. IsTold(s, x)' <=> IsTold(s, x) \/ (s = t /\ x = y)
  <2>1. [schedule |-> s, slot |-> x] = [schedule |-> t, slot |-> y] <=> s = t /\ x = y
    OBVIOUS
  <2> QED
    BY <1>3, <2>1 DEF IsTold
<1> QED
  BY <1>5, <1>6, <1>7 DEF EventsOK

(* What was to come has come. *)
LEMMA CommitEvents ==
  ASSUME EventsOK, ShapeOK, ShapeOK', NEW i \in Servers, Commit(i)
  PROVE  EventsOK'
<1> SUFFICES ASSUME NEW s \in Schedules, NEW x \in Int
             PROVE  /\ IsTask(s, x)' \/ IsComing(s, x)' => IsTold(s, x)'
                    /\ IsTold(s, x)' => IsTask(s, x)' \/ IsComing(s, x)' \/ Excused'
  BY DEF EventsOK
<1>1. IsTold(s, x)' <=> IsTold(s, x)
  BY DEF IsTold, Commit
<1>2. ~IsComing(s, x)'
  <2>1. tick[i].phase # "idle"
    BY DEF Commit
  <2>2. tick' = [tick EXCEPT ![i] = [IdleTick EXCEPT !.phase = "committed"]]
    BY DEF Commit
  <2>3. \A j \in Servers : tick'[j].writes = {}
    BY <2>1, <2>2, OneTick DEF IdleTick, ShapeOK, SchedulerTypeOK
  <2> QED
    BY <2>3 DEF IsComing
<1>3. IsComing(s, x) <=> HasWritten(i, s) /\ Written(i, s).slot = x
  <2>1. IsComing(s, x) <=> \E w \in tick[i].writes : w.schedule = s /\ w.slot = x
    BY OneTick DEF IsComing, Commit
  <2>2. ASSUME NEW w \in tick[i].writes, w.schedule = s
        PROVE  HasWritten(i, s) /\ Written(i, s) = w
    <3>1. HasWritten(i, s)
      BY <2>2 DEF HasWritten
    <3>2. Written(i, s) \in tick[i].writes /\ Written(i, s).schedule = s
      BY <3>1, WrittenFacts
    <3> QED
      BY <2>2, <3>1, <3>2 DEF ShapeOK, TickOK
  <2>3. HasWritten(i, s) => Written(i, s) \in tick[i].writes /\ Written(i, s).schedule = s
    BY WrittenFacts
  <2> QED
    BY <2>1, <2>2, <2>3
<1>4. IsTask(s, x)' <=> IsTask(s, x) \/ (HasWritten(i, s) /\ Written(i, s).slot = x)
  <2>1. CASE HasWritten(i, s)
    <3>1. /\ spawned'[s] = Append(spawned[s], Written(i, s).slot)
          /\ Written(i, s).slot \in Int /\ spawned[s] \in Seq(Int)
      BY <2>1, WrittenFacts DEF Commit, ShapeOK, SchedulerTypeOK
    <3> DEFINE v == Written(i, s).slot
               q == spawned[s]
    <3>2. spawned'[s] = Append(q, v) /\ v \in Int /\ q \in Seq(Int)
      BY <3>1
    <3> HIDE DEF v, q
    <3>3. (\E j \in DOMAIN Append(q, v) : Append(q, v)[j] = x) <=> (\E j \in DOMAIN q : q[j] = x) \/ v = x
      <4>1. /\ DOMAIN Append(q, v) = 1 .. Len(q) + 1 /\ DOMAIN q = 1 .. Len(q)
            /\ Len(q) \in Nat /\ Append(q, v)[Len(q) + 1] = v
            /\ \A j \in 1 .. Len(q) : Append(q, v)[j] = q[j]
        BY <3>2
      <4>2. \A j \in 1 .. Len(q) + 1 : j \in 1 .. Len(q) \/ j = Len(q) + 1
        BY <4>1
      <4>3. Len(q) + 1 \in 1 .. Len(q) + 1 /\ 1 .. Len(q) \subseteq 1 .. Len(q) + 1
        BY <4>1
      <4> QED
        BY <4>1, <4>2, <4>3
    <3> QED
      BY <2>1, <3>2, <3>3 DEF IsTask, v, q
  <2>2. CASE ~HasWritten(i, s)
    BY <2>2 DEF IsTask, Commit
  <2> QED
    BY <2>1, <2>2
<1>5. Excused => Excused'
  BY ExcusedStays DEF Next, TickStep
<1> QED
  BY <1>1, <1>2, <1>3, <1>4, <1>5 DEF EventsOK

(* A rollback or a crash takes back what was announced, and is the excuse. *)
LEMMA LostEvents ==
  ASSUME EventsOK, ShapeOK, ShapeOK', NEW i \in Servers, Rollback(i) \/ Crash(i)
  PROVE  EventsOK'
<1>1. UNCHANGED <<spawned, announced, row>> /\ failures \in Nat /\ tick \in [Servers -> TickType]
  BY DEF Rollback, Crash, dbVars, ShapeOK, SchedulerTypeOK
<1>2. \A j \in Servers : tick'[j].writes \subseteq tick[j].writes
  BY <1>1 DEF Rollback, Crash, IdleTick
<1>3. Excused'
  <2>1. CASE failures' = failures + 1
    BY <1>1, <2>1 DEF Excused
  <2>2. CASE Throws(i)
    <3>1. tick[i].current \in tick[i].due \intersect Unpayable
      BY <2>2 DEF Throws, ShapeOK, TickOK
    <3>2. tick[i].current \in Schedules
      BY <1>1, <3>1, SchedulerAssumption
    <3>3. row[tick[i].current].exists
      BY <3>1, <3>2 DEF ShapeOK, SchedulerTypeOK, Due
    <3> QED
      BY <1>1, <3>1, <3>3 DEF Excused, AbsentRow
  <2> QED
    BY <2>1, <2>2 DEF Rollback, Crash
<1> QED
  BY <1>1, <1>2, <1>3 DEF EventsOK, IsTask, IsComing, IsTold

LEMMA StepEvents ==
  ASSUME EventsOK, ShapeOK, ShapeOK', [Next]_vars
  PROVE  EventsOK'
<1>1. tick \in [Servers -> TickType]
  BY DEF ShapeOK, SchedulerTypeOK
<1>2. ASSUME NEW i \in Servers, TickStep(i) PROVE EventsOK'
  <2>1. CASE TakeAdvisory(i) \/ FetchDue(i) \/ Advance(i) \/ Walk(i)
    <3>1. \A j \in Servers : tick'[j].writes = tick[j].writes
      <4>1. CASE TakeAdvisory(i)
        BY <1>1, <4>1 DEF TakeAdvisory, TickType
      <4>2. CASE FetchDue(i)
        BY <1>1, <4>2 DEF FetchDue, TickType
      <4>3. CASE Advance(i)
        BY <1>1, <4>3 DEF Advance, TickType
      <4>4. CASE Walk(i)
        BY <1>1, <4>4 DEF Walk, TickType
      <4> QED
        BY <2>1, <4>1, <4>2, <4>3, <4>4
    <3>2. UNCHANGED <<spawned, announced>>
      BY <2>1 DEF TakeAdvisory, FetchDue, Advance, Walk, dbVars
    <3> QED
      BY <3>1, <3>2, EventsKept
  <2>2. CASE ReleaseAdvisory(i)
    <3>1. \A j \in Servers : tick'[j].writes = tick[j].writes
      <4>1. tick' = [tick EXCEPT ![i] = IdleTick] /\ tick[i].writes = {}
        BY <2>2 DEF ReleaseAdvisory, ShapeOK, TickOK
      <4>2. \A j \in Servers \ {i} : tick'[j] = tick[j]
        BY <1>1, <4>1
      <4>3. tick'[i].writes = {}
        BY <1>1, <4>1 DEF IdleTick
      <4> QED
        BY <4>1, <4>2, <4>3
    <3> QED
      BY <2>2, <3>1, EventsKept DEF ReleaseAdvisory, dbVars
  <2> QED
    BY <1>2, <2>1, <2>2, SpawnEvents, CommitEvents, LostEvents DEF TickStep
<1>3. ASSUME NEW s \in Schedules, EditStep(s) PROVE EventsOK'
  BY <1>3, EventsKept DEF EditStep, Create, PatchLock, PatchCommit, PatchAbort, Delete, dbVars
<1>4. CASE Pass \/ UNCHANGED vars
  BY <1>4, EventsKept DEF Pass, vars
<1> QED
  BY <1>2, <1>3, <1>4 DEF Next

LEMMA InitEvents == Init => EventsOK
BY DEF Init, EventsOK, IsTask, IsComing, IsTold, IdleTick
-----------------------------------------------------------------------------
(* Rows, tasks and events of every schedule fit together: no slot spawns    *)
(* two tasks, runs_count and last_run_at tell the tasks there are, and an   *)
(* event without a task is told only where a batch has failed.              *)
THEOREM SchedulerIsConsistent == Spec => []SchedulerConsistent
<1> DEFINE All == ShapeOK /\ TasksOK /\ EventsOK
<1>1. Init => All
  BY InitShape, InitTasks, InitEvents
<1>2. All /\ [Next]_vars => All'
  BY StepShape, StepTasks, StepEvents
<1>3. All => SchedulerConsistent
  BY EventsAnnounced DEF TasksOK, SchedulerConsistent
<1> QED
  BY <1>1, <1>2, <1>3, PTL DEF Spec
-----------------------------------------------------------------------------
(* What the calendar computations give: arithmetic of days *)

LEMMA Multiples ==
  ASSUME NEW D \in Nat \ {0}, NEW q \in Nat \ {0}
  PROVE  q * D \in Nat /\ q * D >= D
OBVIOUS

LEMMA Division ==
  ASSUME NEW D \in Nat \ {0}, NEW x \in Int
  PROVE  /\ x \div D \in Int /\ x % D \in 0 .. D - 1
         /\ x = (x \div D) * D + (x % D)
OBVIOUS

LEMMA DaysInOrder ==
  ASSUME NEW D \in Nat \ {0}, NEW q1 \in Int, NEW r1 \in 0 .. D - 1,
         NEW q2 \in Int, NEW r2 \in 0 .. D - 1, q1 * D + r1 <= q2 * D + r2
  PROVE  q1 <= q2
<1> SUFFICES ASSUME q1 > q2 PROVE FALSE
  OBVIOUS
<1>1. (q1 - q2) * D >= D
  BY Multiples
<1>2. (q1 - q2) * D = q1 * D - q2 * D /\ q1 * D \in Int /\ q2 * D \in Int
  OBVIOUS
<1> QED
  BY <1>1, <1>2

(* A local time is its day and its time of day. *)
LEMMA DayAndTime ==
  ASSUME NEW day \in Int, NEW time \in 0 .. DayLength - 1
  PROVE  /\ day * DayLength + time \in Int
         /\ DayOf(day * DayLength + time) = day /\ TimeOf(day * DayLength + time) = time
<1> DEFINE x == day * DayLength + time
<1>1. DayLength \in Nat \ {0} /\ x \in Int
  BY CalendarAssumption
<1>2. x = (x \div DayLength) * DayLength + (x % DayLength)
      /\ x \div DayLength \in Int /\ x % DayLength \in 0 .. DayLength - 1
  BY <1>1, Division
<1>3. x \div DayLength <= day /\ day <= x \div DayLength
  BY <1>1, <1>2, DaysInOrder
<1>4. x \div DayLength = day
  BY <1>2, <1>3
<1>5. x % DayLength = time
  <2>1. day * DayLength \in Int
    BY <1>1
  <2> QED
    BY <1>2, <1>4, <2>1
<1> QED
  BY <1>1, <1>4, <1>5 DEF DayOf, TimeOf

LEMMA LocalParts ==
  ASSUME NEW local \in Int
  PROVE  /\ DayOf(local) \in Int /\ TimeOf(local) \in 0 .. DayLength - 1
         /\ local = DayOf(local) * DayLength + TimeOf(local)
BY CalendarAssumption, Division DEF DayOf, TimeOf

(* Later local times are not on earlier days. *)
LEMMA DaysPass ==
  ASSUME NEW a \in Int, NEW b \in Int, a <= b
  PROVE  DayOf(a) <= DayOf(b)
<1>1. /\ DayOf(a) \in Int /\ TimeOf(a) \in 0 .. DayLength - 1
      /\ DayOf(b) \in Int /\ TimeOf(b) \in 0 .. DayLength - 1
      /\ DayOf(a) * DayLength + TimeOf(a) <= DayOf(b) * DayLength + TimeOf(b)
  BY LocalParts
<1> QED
  BY <1>1, CalendarAssumption, DaysInOrder
-----------------------------------------------------------------------------
(* Noon in UTC is on the same date in the zone of every weekly recurrence:  *)
(* it is from 12 hours behind UTC to less than 12 ahead.  Elsewhere         *)
(* nextWeeklyRun takes one day's weekday for another's: see OnChosenDay.    *)
NoonTellsTheDay ==
  \A r \in Recurrences : r.kind = "weekly" =>
    \A o \in {r.zone.offset, r.zone.offset + r.zone.shift} :
      DayLength \div 2 + o \in 0 .. DayLength - 1

LEMMA ZoneFacts ==
  ASSUME NoonTellsTheDay, NEW r \in Recurrences, r.kind = "weekly", NEW t \in Int
  PROVE  /\ r \in WeeklyRecurrence /\ r.zone \in Zone /\ r.times \subseteq 0 .. DayLength - 1
         /\ OffsetAt(r.zone, t) \in Int
         /\ OffsetAt(r.zone, t) \in {r.zone.offset, r.zone.offset + r.zone.shift}
         /\ DayLength \div 2 + OffsetAt(r.zone, t) \in 0 .. DayLength - 1
<1>1. r \in WeeklyRecurrence
  BY SchedulerAssumption DEF IntervalRecurrence
<1>2. r.zone \in Zone /\ r.times \subseteq 0 .. DayLength - 1
  BY <1>1 DEF WeeklyRecurrence
<1>3. OffsetAt(r.zone, t) \in {r.zone.offset, r.zone.offset + r.zone.shift}
  BY DEF OffsetAt
<1>4. OffsetAt(r.zone, t) \in Int
  BY <1>2, OffsetInt
<1>5. DayLength \div 2 + OffsetAt(r.zone, t) \in 0 .. DayLength - 1
  BY <1>3 DEF NoonTellsTheDay
<1> QED
  BY <1>1, <1>2, <1>3, <1>4, <1>5

LEMMA HalfDay == DayLength \div 2 \in 0 .. DayLength /\ DayLength \in Nat \ {0}
BY CalendarAssumption

LEMMA NoonDay ==
  ASSUME NoonTellsTheDay, NEW r \in Recurrences, r.kind = "weekly", NEW day \in Int
  PROVE  WeekdayTested(r.zone, day) = WeekdayOf(day)
<1> DEFINE noon == day * DayLength + DayLength \div 2
           o == OffsetAt(r.zone, noon)
<1>1. noon \in Int
  BY HalfDay
<1>2. DayLength \div 2 + o \in 0 .. DayLength - 1 /\ o \in Int
  BY <1>1, ZoneFacts
<1>3. LocalTime(r.zone, noon) = day * DayLength + (DayLength \div 2 + o)
  <2>1. day * DayLength \in Int
    BY HalfDay
  <2> HIDE DEF o
  <2> QED
    BY <1>2, <2>1, HalfDay DEF LocalTime, o
<1>4. DayOf(LocalTime(r.zone, noon)) = day
  BY <1>2, <1>3, DayAndTime
<1> QED
  BY <1>4 DEF WeekdayTested

(* What wallClockToUtc makes of a day and a time: the zone's clocks show    *)
(* them, give or take the shift, and the day in UTC is at most one off.     *)
LEMMA WallClock ==
  ASSUME NoonTellsTheDay, NEW r \in Recurrences, r.kind = "weekly",
         NEW day \in Int, NEW time \in r.times,
         NEW t, t = WallClockToUtc(r.zone, day, time)
  PROVE  /\ t \in Int /\ day \in DayOf(t) - 1 .. DayOf(t) + 1
         /\ \E d \in {0, r.zone.shift, -r.zone.shift} :
              LocalTime(r.zone, t) + d = day * DayLength + time
<1> DEFINE guess == day * DayLength + time
           o == OffsetAt(r.zone, guess)
           p == OffsetAt(r.zone, t)
<1>1. time \in 0 .. DayLength - 1 /\ r.zone \in Zone
  BY ZoneFacts
<1>2. guess \in Int /\ day * DayLength \in Int
  BY <1>1, HalfDay
<1>3. o \in Int /\ o \in {r.zone.offset, r.zone.offset + r.zone.shift}
      /\ DayLength \div 2 + o \in 0 .. DayLength - 1
  BY <1>2, ZoneFacts
<1>4. t = guess - o
  <2> HIDE DEF guess, o
  <2> QED
    BY <1>2, <1>3 DEF WallClockToUtc, LocalTime, guess, o
<1>5. t \in Int
  BY <1>2, <1>3, <1>4
<1>6. p \in Int /\ p \in {r.zone.offset, r.zone.offset + r.zone.shift}
  BY <1>5, ZoneFacts
<1>7. r.zone.offset \in Int /\ r.zone.shift \in Int
  BY <1>1 DEF Zone
<1>8. o - p \in {0, r.zone.shift, -r.zone.shift} /\ LocalTime(r.zone, t) = t + p
  BY <1>3, <1>6, <1>7 DEF LocalTime
<1>9. LocalTime(r.zone, t) + (o - p) = guess
  <2> HIDE DEF guess, o, p
  <2> QED
    BY <1>2, <1>3, <1>4, <1>5, <1>6, <1>8
<1>10. day \in DayOf(t) - 1 .. DayOf(t) + 1
  <2> DEFINE x == time - o
  <2>1. x \in Int /\ -DayLength <= x /\ x < 2 * DayLength
    <3> HIDE DEF o
    <3> QED
      BY <1>1, <1>3, HalfDay
  <2> HIDE DEF o, guess
  <2>2. t = day * DayLength + x
    BY <1>1, <1>2, <1>3, <1>4, HalfDay DEF guess
  <2> HIDE DEF x
  <2>3. /\ t = (day - 1) * DayLength + (x + DayLength)
        /\ t = (day + 1) * DayLength + (x - DayLength)
    <3>1. (day - 1) * DayLength = day * DayLength - DayLength
      BY HalfDay
    <3>2. (day + 1) * DayLength = day * DayLength + DayLength
      BY HalfDay
    <3> QED
      BY <1>2, <2>1, <2>2, <3>1, <3>2, HalfDay
  <2>4. CASE x < 0
    <3>1. day - 1 \in Int /\ x + DayLength \in 0 .. DayLength - 1
      BY <2>1, <2>4, HalfDay
    <3>2. DayOf(t) = day - 1
      BY <2>3, <3>1, DayAndTime
    <3> QED
      BY <3>2
  <2>5. CASE x \in 0 .. DayLength - 1
    BY <2>2, <2>5, DayAndTime
  <2>6. CASE x >= DayLength
    <3>1. day + 1 \in Int /\ x - DayLength \in 0 .. DayLength - 1
      BY <2>1, <2>6, HalfDay
    <3>2. DayOf(t) = day + 1
      BY <2>3, <3>1, DayAndTime
    <3> QED
      BY <3>2
  <2> QED
    BY <2>1, <2>4, <2>5, <2>6, HalfDay
<1> QED
  BY <1>5, <1>8, <1>9, <1>10

(* The slot that nextWeeklyRun finds is the first candidate, on one of the  *)
(* days and at one of the times.                                            *)
LEMMA WeeklyRunFacts ==
  ASSUME NoonTellsTheDay, NEW r \in Recurrences, r.kind = "weekly",
         NEW after \in Int, NEW n \in WeeklyRuns(r, after)
  PROVE  /\ n > after /\ Placed(r, n) /\ OnTheClock(r, n)
         /\ \E c \in WeeklySlots(r, after) :
              /\ n = WallClockToUtc(r.zone, c[1], c[2])
              /\ \A d \in WeeklySlots(r, after) : Precedes(c, d)
<1>1. PICK c \in WeeklySlots(r, after) :
         n = WallClockToUtc(r.zone, c[1], c[2]) /\ \A d \in WeeklySlots(r, after) : Precedes(c, d)
  BY DEF WeeklyRuns
<1>2. /\ c[1] \in WeeklyDays(r, after) /\ c[2] \in r.times /\ n > after
  BY <1>1 DEF WeeklySlots
<1>3. c[1] \in Int /\ WeekdayTested(r.zone, c[1]) \in r.days
  <2>1. LocalTime(r.zone, after) \in Int
    BY ZoneFacts, OffsetInt
  <2>2. DayOf(LocalTime(r.zone, after)) \in Int
    BY <2>1, LocalParts
  <2> QED
    BY <1>2, <2>2, CalendarAssumption DEF WeeklyDays
<1>4. WeekdayOf(c[1]) \in r.days
  BY <1>3, NoonDay
<1>5. /\ n \in Int /\ c[1] \in DayOf(n) - 1 .. DayOf(n) + 1
      /\ \E d \in {0, r.zone.shift, -r.zone.shift} :
           LocalTime(r.zone, n) + d = c[1] * DayLength + c[2]
  <2> DEFINE day == c[1]
             time == c[2]
  <2>1. day \in Int /\ time \in r.times /\ n = WallClockToUtc(r.zone, day, time)
    BY <1>1, <1>2, <1>3
  <2> HIDE DEF day, time
  <2>2. /\ n \in Int /\ day \in DayOf(n) - 1 .. DayOf(n) + 1
        /\ \E d \in {0, r.zone.shift, -r.zone.shift} :
             LocalTime(r.zone, n) + d = day * DayLength + time
    BY <2>1, WallClock
  <2> QED
    BY <2>2 DEF day, time
<1>6. Placed(r, n)
  BY <1>1, <1>2, <1>4, <1>5 DEF Placed
<1>7. OnTheClock(r, n)
  <2>1. c[2] \in 0 .. DayLength - 1
    BY <1>2, ZoneFacts
  <2>2. Shows(r, c[1] * DayLength + c[2])
    BY <1>2, <1>3, <1>4, <2>1, DayAndTime DEF Shows
  <2> QED
    BY <1>5, <2>2 DEF OnTheClock
<1> QED
  BY <1>1, <1>2, <1>6, <1>7

(* In a zone of constant offset no occurrence comes before it.              *)
LEMMA FirstOccurrence ==
  ASSUME NoonTellsTheDay, NEW r \in Recurrences, r.kind = "weekly", r.zone.shift = 0,
         NEW after \in Int, NEW n \in WeeklyRuns(r, after),
         NEW t \in Int, after < t, t < n
  PROVE  ~Occurs(r, t)
<1> SUFFICES ASSUME Occurs(r, t) PROVE FALSE
  OBVIOUS
<1> DEFINE o == r.zone.offset
           day == DayOf(t + o)
           time == TimeOf(t + o)
<1>1. o \in Int /\ \A x \in Int : OffsetAt(r.zone, x) = o
  BY ZoneFacts DEF Zone, OffsetAt
<1>2. \A x \in Int : LocalTime(r.zone, x) = x + o
  BY <1>1 DEF LocalTime
<1>3. \A q, w \in Int : WallClockToUtc(r.zone, q, w) = (q * DayLength + w) - o
  <2> SUFFICES ASSUME NEW q \in Int, NEW w \in Int
               PROVE  WallClockToUtc(r.zone, q, w) = (q * DayLength + w) - o
    OBVIOUS
  <2>1. q * DayLength + w \in Int /\ q * DayLength \in Int
    BY HalfDay
  <2>2. LocalTime(r.zone, q * DayLength + w) = q * DayLength + w + o
    BY <1>2, <2>1
  <2> HIDE DEF o
  <2> QED
    BY <1>1, <2>1, <2>2 DEF WallClockToUtc
<1>4. PICK c \in WeeklySlots(r, after) :
         n = WallClockToUtc(r.zone, c[1], c[2]) /\ \A d \in WeeklySlots(r, after) : Precedes(c, d)
  BY WeeklyRunFacts
<1> DEFINE anchor == DayOf(after + o)
<1>5. /\ anchor \in Int /\ c[1] \in anchor .. anchor + MaxWeeklyDaysOut
      /\ c[2] \in r.times /\ c[2] \in 0 .. DayLength - 1
  <2>1. c \in WeeklyDays(r, after) \X r.times
    BY <1>4 DEF WeeklySlots
  <2>2. LocalTime(r.zone, after) = after + o /\ after + o \in Int
    BY <1>1, <1>2
  <2>3. anchor \in Int
    BY <2>2, LocalParts
  <2> QED
    BY <2>1, <2>2, <2>3, ZoneFacts DEF WeeklyDays
<1>6. /\ day \in Int /\ time \in 0 .. DayLength - 1 /\ t + o = day * DayLength + time
  BY <1>1, LocalParts
<1>7. time \in r.times /\ WeekdayOf(day) \in r.days
  BY <1>2 DEF Occurs, Shows
<1>8. c[1] \in Int /\ n + o = c[1] * DayLength + c[2] /\ n \in Int
  <2>1. c[1] \in Int
    BY <1>5, CalendarAssumption
  <2>2. ASSUME NEW x \in Int, n = x - o PROVE n + o = x /\ n \in Int
    <3> HIDE DEF o
    <3> QED
      BY <1>1, <2>2
  <2>3. c[1] * DayLength + c[2] \in Int
    BY <1>5, <2>1, HalfDay
  <2>4. n = (c[1] * DayLength + c[2]) - o
    <3>1. c[2] \in Int
      BY <1>5, HalfDay
    <3> QED
      BY <1>3, <1>4, <2>1, <3>1, Zenon
  <2> HIDE DEF o
  <2> QED
    BY <2>1, <2>2, <2>3, <2>4
<1>9. anchor <= day
  BY <1>1, DaysPass
<1>10. day <= c[1]
  <2> HIDE DEF o, day, time
  <2> QED
    BY <1>1, <1>5, <1>6, <1>8, HalfDay, DaysInOrder
<1>11. <<day, time>> \in WeeklySlots(r, after)
  <2> HIDE DEF anchor, day, time, o
  <2>1. LocalTime(r.zone, after) = after + o
    BY <1>2
  <2>2. day \in anchor .. anchor + MaxWeeklyDaysOut
    BY <1>5, <1>6, <1>8, <1>9, <1>10, CalendarAssumption
  <2>3. WeekdayTested(r.zone, day) \in r.days
    BY <1>6, <1>7, NoonDay
  <2>4. day \in WeeklyDays(r, after)
    BY <2>1, <2>2, <2>3 DEF WeeklyDays, anchor
  <2>5. WallClockToUtc(r.zone, day, time) > after
    <3>1. WallClockToUtc(r.zone, day, time) = (day * DayLength + time) - o
      BY <1>3, <1>6, HalfDay
    <3>2. (day * DayLength + time) - o = t
      BY <1>1, <1>6, HalfDay
    <3> QED
      BY <3>1, <3>2
  <2> QED
    BY <1>7, <2>4, <2>5 DEF WeeklySlots
<1>12. c[1] < day \/ (c[1] = day /\ c[2] <= time)
  BY <1>4, <1>11 DEF Precedes
<1>13. c[1] = day /\ c[2] <= time
  <2> HIDE DEF day, time
  <2> QED
    BY <1>6, <1>8, <1>10, <1>12
<1> QED
  <2>1. n + o <= t + o
    <3> HIDE DEF o, day, time
    <3>1. day * DayLength \in Int
      BY <1>6, HalfDay
    <3>2. n + o = day * DayLength + c[2]
      BY <1>8, <1>13
    <3> QED
      BY <1>5, <1>6, <1>13, <3>1, <3>2
  <2> HIDE DEF o
  <2> QED
    BY <1>1, <1>8, <2>1

(* Whole intervals, and one of them at least is ahead if the loop ends.     *)
LEMMA IntervalRunFacts ==
  ASSUME NEW r \in IntervalRecurrence, NEW after \in Int, NEW now \in Int, after <= now,
         NEW n \in IntervalRuns(r, after, now)
  PROVE  /\ n <= now + r.interval
         /\ n <= now => n = after + (MaxIntervalIters + 1) * r.interval
<1>1. PICK k \in 1 .. MaxIntervalIters + 1 :
        /\ n = after + k * r.interval
        /\ k <= MaxIntervalIters => after + k * r.interval > now
        /\ \A j \in 1 .. k - 1 : after + j * r.interval <= now
  BY DEF IntervalRuns
<1>2. k \in Nat \ {0} /\ r.interval \in Nat \ {0} /\ k * r.interval \in Int /\ MaxIntervalIters \in Nat
  BY CalendarAssumption DEF IntervalRecurrence
<1>3. n <= now + r.interval
  <2>1. CASE k = 1
    BY <1>1, <1>2, <2>1
  <2>2. CASE k > 1
    <3>1. k - 1 \in 1 .. k - 1
      BY <1>2, <2>2
    <3>2. after + (k - 1) * r.interval <= now
      BY <1>1, <3>1
    <3>3. (k - 1) * r.interval = k * r.interval - r.interval
      BY <1>2
    <3> QED
      BY <1>1, <1>2, <3>2, <3>3
  <2> QED
    BY <1>2, <2>1, <2>2
<1>4. ASSUME n <= now PROVE n = after + (MaxIntervalIters + 1) * r.interval
  <2>1. ~(k <= MaxIntervalIters)
    BY <1>1, <1>2, <1>4
  <2>2. k = MaxIntervalIters + 1
    BY <1>2, <2>1
  <2> QED
    BY <1>1, <2>2
<1> QED
  BY <1>3, <1>4
-----------------------------------------------------------------------------
(* The slots that ticks compute and rows hold *)

(* k slots lie behind, or the intervals of k loops that ran to their end.   *)
Walked(r, from, to, k) ==
  IF r.kind = "interval" THEN to - from >= (r.interval * (MaxIntervalIters + 1)) * k
  ELSE Cardinality({t \in from + 1 .. to : Placed(r, t)}) >= k

GoodSlot(r, now, n) == NothingBetween(r, now, n) /\ (r.kind = "weekly" => OnTheClock(r, n))

WalkOK(i) ==
  LET r == row[tick[i].current].recurrence
      from == row[tick[i].current].next_run_at
  IN  /\ GoodSlot(r, clock, tick[i].next)
      /\ tick[i].advances <= MaxCatchupAdvances
      /\ tick[i].next <= clock => Walked(r, from, tick[i].next, tick[i].advances + 1)

WriteOK(w) ==
  LET r == row[w.schedule].recurrence
  IN  GoodSlot(r, clock, w.next) /\ (w.next > w.at \/ WalkedOver(r, w.slot, w.next))

(* SlotsRight, and what leads to it: the tick's own slots and writes.       *)
SlotsOK ==
  /\ SlotsOnTheClock
  /\ \A i \in Servers :
       (tick[i].phase = "walking" => WalkOK(i)) /\ (\A w \in tick[i].writes : WriteOK(w))

LEMMA NextRunFacts ==
  ASSUME NoonTellsTheDay, NEW r \in Recurrences, NEW after \in Int, NEW now \in Int, after <= now,
         NEW n \in NextRuns(r, after, now)
  PROVE  GoodSlot(r, now, n)
<1>1. r \in IntervalRecurrence \/ r \in WeeklyRecurrence
  BY SchedulerAssumption
<1>2. CASE r \in IntervalRecurrence
  <2>1. r.kind = "interval"
    BY <1>2 DEF IntervalRecurrence
  <2>2. n \in IntervalRuns(r, after, now)
    BY <2>1 DEF NextRuns
  <2>3. n <= now + r.interval
    BY <1>2, <2>2, IntervalRunFacts
  <2> QED
    BY <2>1, <2>3 DEF GoodSlot, NothingBetween
<1>3. CASE r \in WeeklyRecurrence
  <2>1. r.kind = "weekly"
    BY <1>3 DEF WeeklyRecurrence
  <2>2. n \in WeeklyRuns(r, after) /\ n \in Int
    BY <2>1, NextRunsLater DEF NextRuns
  <2>3. OnTheClock(r, n)
    BY <2>1, <2>2, WeeklyRunFacts
  <2>4. ASSUME r.zone.shift = 0, NEW t \in now + 1 .. n - 1 PROVE ~Occurs(r, t)
    <3>1. t \in Int /\ after < t /\ t < n
      BY <2>2
    <3> QED
      BY <2>1, <2>2, <2>4, <3>1, FirstOccurrence
  <2> QED
    BY <2>1, <2>3, <2>4 DEF GoodSlot, NothingBetween
<1> QED
  BY <1>1, <1>2, <1>3

(* Every slot behind the present adds one to what is walked over.           *)
LEMMA WalkedFarther ==
  ASSUME NoonTellsTheDay, NEW r \in Recurrences, NEW after \in Int, NEW now \in Int, after <= now,
         NEW n \in NextRuns(r, after, now), n <= now,
         NEW from \in Int, from <= after, NEW k \in Nat, Walked(r, from, after, k)
  PROVE  Walked(r, from, n, k + 1)
<1>1. r \in IntervalRecurrence \/ r \in WeeklyRecurrence
  BY SchedulerAssumption
<1>2. CASE r \in IntervalRecurrence
  <2>1. r.kind = "interval" /\ r.interval \in Nat
    BY <1>2 DEF IntervalRecurrence
  <2>2. n \in IntervalRuns(r, after, now)
    BY <2>1 DEF NextRuns
  <2>3. n = after + (MaxIntervalIters + 1) * r.interval
    BY <1>2, <2>2, IntervalRunFacts
  <2> DEFINE p == r.interval * (MaxIntervalIters + 1)
  <2>4. p \in Int /\ n = after + p
    BY <2>1, <2>3, CalendarAssumption
  <2>5. after - from >= p * k
    BY <2>1 DEF Walked
  <2> HIDE DEF p
  <2>6. p * (k + 1) = p * k + p /\ p * k \in Int
    BY <2>4
  <2>7. n - from >= p * (k + 1)
    BY <2>4, <2>5, <2>6
  <2> QED
    BY <2>1, <2>7 DEF Walked, p
<1>3. CASE r \in WeeklyRecurrence
  <2>1. r.kind = "weekly"
    BY <1>3 DEF WeeklyRecurrence
  <2>2. n \in WeeklyRuns(r, after) /\ n \in Int /\ n > after
    BY <2>1, NextRunsLater DEF NextRuns
  <2>3. Placed(r, n)
    BY <2>1, <2>2, WeeklyRunFacts
  <2> DEFINE S == {t \in from + 1 .. after : Placed(r, t)}
             T == {t \in from + 1 .. n : Placed(r, t)}
  <2>4. n \in from + 1 .. n /\ from + 1 .. after \subseteq from + 1 .. n /\ n \notin from + 1 .. after
    BY <2>2
  <2>5. n \notin S /\ S \union {n} \subseteq T /\ S \subseteq from + 1 .. after /\ T \subseteq from + 1 .. n
    BY <2>3, <2>4
  <2>6. IsFiniteSet(from + 1 .. after) /\ IsFiniteSet(from + 1 .. n)
    <3>1. from + 1 \in Int
      OBVIOUS
    <3> QED
      BY <2>2, <3>1, FS_Interval
  <2>7. Cardinality(S) >= k
    BY <2>1 DEF Walked
  <2> HIDE DEF S, T
  <2>8. IsFiniteSet(S) /\ IsFiniteSet(T)
    BY <2>5, <2>6, FS_Subset
  <2>9. Cardinality(S) \in Nat /\ Cardinality(T) \in Nat /\ Cardinality(S \union {n}) \in Nat
    BY <2>8, FS_AddElement, FS_CardinalityType
  <2>10. Cardinality(S \union {n}) = Cardinality(S) + 1
    BY <2>5, <2>8, FS_AddElement
  <2>11. Cardinality(S \union {n}) <= Cardinality(T)
    BY <2>5, <2>8, FS_Subset
  <2>12. Cardinality(T) >= k + 1
    BY <2>7, <2>9, <2>10, <2>11
  <2> QED
    BY <2>1, <2>12 DEF Walked, T
<1> QED
  BY <1>1, <1>2, <1>3

LEMMA WalkedNowhere ==
  ASSUME NEW r \in Recurrences, NEW from \in Int
  PROVE  Walked(r, from, from, 0)
<1>1. ASSUME r.kind = "interval" PROVE Walked(r, from, from, 0)
  <2>1. r.interval \in Nat
    BY <1>1, SchedulerAssumption DEF IntervalRecurrence, WeeklyRecurrence
  <2>2. \A p \in Int : p * 0 = 0
    OBVIOUS
  <2>3. r.interval * (MaxIntervalIters + 1) \in Int
    BY <2>1, CalendarAssumption
  <2>4. from - from = 0
    OBVIOUS
  <2> QED
    BY <1>1, <2>2, <2>3, <2>4 DEF Walked
<1>2. ASSUME r.kind # "interval" PROVE Walked(r, from, from, 0)
  <2>1. {t \in from + 1 .. from : Placed(r, t)} = {}
    OBVIOUS
  <2> QED
    BY <1>2, <2>1, FS_EmptySet DEF Walked
<1> QED
  BY <1>1, <1>2

LEMMA WalkedAll ==
  ASSUME NEW r \in Recurrences, NEW from \in Int, NEW to \in Int,
         Walked(r, from, to, MaxCatchupAdvances + 1)
  PROVE  WalkedOver(r, from, to)
<1>1. CASE r.kind = "interval"
  BY <1>1 DEF Walked, WalkedOver
<1>2. CASE r.kind # "interval"
  <2> DEFINE S == {t \in from + 1 .. to : Placed(r, t)}
  <2>1. IsFiniteSet(S)
    BY FS_Interval, FS_Subset
  <2> HIDE DEF S
  <2>2. Cardinality(S) \in Nat
    BY <2>1, FS_CardinalityType
  <2>3. Cardinality(S) >= MaxCatchupAdvances + 1
    BY <1>2 DEF Walked, S
  <2>4. Cardinality(S) > MaxCatchupAdvances
    BY <2>2, <2>3, SchedulerAssumption
  <2> QED
    BY <1>2, <2>4 DEF WalkedOver, S
<1> QED
  BY <1>1, <1>2

(* Time takes nothing from a slot. *)
LEMMA SlotKept ==
  ASSUME NEW r \in Recurrences, NEW now \in Int, NEW later \in Int, now <= later,
         NEW n \in Int, GoodSlot(r, now, n)
  PROVE  GoodSlot(r, later, n)
<1>1. r.kind = "interval" => n <= later + r.interval
  <2>1. r.kind = "interval" => r.interval \in Int
    BY SchedulerAssumption DEF IntervalRecurrence, WeeklyRecurrence
  <2> QED
    BY <2>1 DEF GoodSlot, NothingBetween
<1>2. \A t \in later + 1 .. n - 1 : t \in now + 1 .. n - 1
  OBVIOUS
<1> QED
  BY <1>1, <1>2 DEF GoodSlot, NothingBetween

(* The rows that a tick works on. *)
LEMMA TickRows ==
  ASSUME ShapeOK, NEW i \in Servers
  PROVE  /\ tick[i].phase = "walking" =>
              LET s == tick[i].current
              IN  /\ s \in tick[i].due /\ s \in Schedules /\ row[s].recurrence \in Recurrences
                  /\ row[s].next_run_at \in Int /\ tick[i].next \in Int /\ row[s].next_run_at < tick[i].next
         /\ \A w \in tick[i].writes :
              /\ w.schedule \in Schedules /\ HasWritten(i, w.schedule)
              /\ row[w.schedule].recurrence \in Recurrences
              /\ w.slot \in Int /\ w.next \in Int /\ w.at \in Int
<1>1. tick[i] \in TickType /\ row \in [Schedules -> RowType]
  BY DEF ShapeOK, SchedulerTypeOK
<1>2. \A s \in Schedules : row[s].exists => row[s].recurrence \in Recurrences
  BY DEF ShapeOK, RowOK, AbsentRow
<1>3. \A s \in Schedules : s \in tick[i].due \/ HasWritten(i, s) => row[s].exists
  BY DEF ShapeOK, SchedulerTypeOK, Due
<1>4. ASSUME tick[i].phase = "walking"
      PROVE  LET s == tick[i].current
             IN  /\ s \in tick[i].due /\ s \in Schedules /\ row[s].recurrence \in Recurrences
                 /\ row[s].next_run_at \in Int /\ tick[i].next \in Int /\ row[s].next_run_at < tick[i].next
  <2>1. tick[i].current \in tick[i].due /\ row[tick[i].current].next_run_at < tick[i].next
    BY <1>4 DEF ShapeOK, TickOK
  <2>2. tick[i].current \in Schedules /\ tick[i].next \in Int
    BY <1>1, <2>1 DEF TickType
  <2> QED
    BY <1>1, <1>2, <1>3, <2>1, <2>2 DEF RowType
<1>5. ASSUME NEW w \in tick[i].writes
      PROVE  /\ w.schedule \in Schedules /\ HasWritten(i, w.schedule)
             /\ row[w.schedule].recurrence \in Recurrences
             /\ w.slot \in Int /\ w.next \in Int /\ w.at \in Int
  <2>1. w \in Write
    BY <1>1 DEF TickType
  <2>2. HasWritten(i, w.schedule)
    BY DEF HasWritten
  <2> QED
    BY <1>2, <1>3, <2>1, <2>2 DEF Write
<1> QED
  BY <1>4, <1>5

(* A step that computes no slot and moves neither rows nor time.            *)
LEMMA QuietSlots ==
  ASSUME SlotsOK, UNCHANGED <<row, clock>>,
         \A j \in Servers :
           /\ \/ tick'[j].phase # "walking"
              \/ /\ tick[j].phase = "walking" /\ tick'[j].current = tick[j].current
                 /\ tick'[j].next = tick[j].next /\ tick'[j].advances = tick[j].advances
           /\ tick'[j].writes \subseteq tick[j].writes
  PROVE  SlotsOK'
<1>1. SlotsOnTheClock'
  BY DEF SlotsOK, SlotsOnTheClock
<1>2. ASSUME NEW j \in Servers, tick'[j].phase = "walking" PROVE WalkOK(j)'
  BY <1>2 DEF SlotsOK, WalkOK
<1>3. ASSUME NEW j \in Servers, NEW w \in tick'[j].writes PROVE WriteOK(w)'
  BY <1>3 DEF SlotsOK, WriteOK
<1> QED
  BY <1>1, <1>2, <1>3 DEF SlotsOK

(* The slot that a tick finds from one that is not ahead of the present.    *)
LEMMA FoundSlot ==
  ASSUME NoonTellsTheDay, ShapeOK, SlotsOK, NEW i \in Servers, tick[i].phase \in {"batch", "walking"},
         NEW s \in tick[i].due, NEW from \in Int, from <= clock,
         NEW n \in NextRuns(row[s].recurrence, from, clock),
         NEW k \in Nat, k <= MaxCatchupAdvances,
         row[s].next_run_at <= from, Walked(row[s].recurrence, row[s].next_run_at, from, k),
         tick' = [tick EXCEPT ![i] = [@ EXCEPT !.phase = "walking", !.current = s,
                                               !.next = n, !.advances = k]],
         UNCHANGED <<row, clock>>
  PROVE  SlotsOK'
<1>1. tick \in [Servers -> TickType] /\ tick[i] \in TickType /\ s \in Schedules /\ clock \in Int
  BY DEF ShapeOK, SchedulerTypeOK, TickType
<1>2. row[s].recurrence \in Recurrences /\ row[s].next_run_at \in Int
  BY <1>1 DEF ShapeOK, SchedulerTypeOK, Due, RowOK, AbsentRow, RowType
<1>3. GoodSlot(row[s].recurrence, clock, n)
  BY <1>1, <1>2, NextRunFacts
<1>4. n <= clock => Walked(row[s].recurrence, row[s].next_run_at, n, k + 1)
  BY <1>1, <1>2, WalkedFarther
<1>5. /\ tick'[i].phase = "walking" /\ tick'[i].current = s /\ tick'[i].next = n
      /\ tick'[i].advances = k /\ tick'[i].writes = tick[i].writes
      /\ \A j \in Servers \ {i} : tick'[j] = tick[j]
  BY <1>1 DEF TickType
<1>6. WalkOK(i)'
  BY <1>3, <1>4, <1>5 DEF WalkOK
<1>7. SlotsOnTheClock'
  BY DEF SlotsOK, SlotsOnTheClock
<1>8. ASSUME NEW j \in Servers, tick'[j].phase = "walking" PROVE WalkOK(j)'
  <2>1. CASE j = i
    BY <1>6, <2>1
  <2>2. CASE j # i
    BY <1>5, <1>8, <2>2 DEF SlotsOK, WalkOK
  <2> QED
    BY <2>1, <2>2
<1>9. ASSUME NEW j \in Servers, NEW w \in tick'[j].writes PROVE WriteOK(w)'
  <2>1. w \in tick[j].writes
    BY <1>5, <1>9
  <2> QED
    BY <2>1 DEF SlotsOK, WriteOK
<1> QED
  BY <1>7, <1>8, <1>9 DEF SlotsOK

LEMMA AdvanceSlots ==
  ASSUME NoonTellsTheDay, ShapeOK, SlotsOK, NEW i \in Servers, Advance(i)
  PROVE  SlotsOK'
<1>1. PICK s \in tick[i].due : \E n \in NextRuns(row[s].recurrence, row[s].next_run_at, clock) :
        tick' = [tick EXCEPT ![i] = [@ EXCEPT !.phase = "walking", !.current = s,
                                              !.next = n, !.advances = 0]]
  BY DEF Advance
<1>2. PICK n \in NextRuns(row[s].recurrence, row[s].next_run_at, clock) :
        tick' = [tick EXCEPT ![i] = [@ EXCEPT !.phase = "walking", !.current = s,
                                              !.next = n, !.advances = 0]]
  BY <1>1
<1>3. s \in Schedules
  BY DEF ShapeOK, SchedulerTypeOK, TickType
<1>4. /\ row[s].recurrence \in Recurrences /\ row[s].next_run_at \in Int
      /\ row[s].next_run_at <= clock
  BY <1>3 DEF ShapeOK, SchedulerTypeOK, Due, RowOK, AbsentRow, RowType
<1>5. Walked(row[s].recurrence, row[s].next_run_at, row[s].next_run_at, 0)
  BY <1>4, WalkedNowhere
<1>6. tick[i].phase = "batch" /\ UNCHANGED <<row, clock>> /\ 0 \in Nat /\ 0 <= MaxCatchupAdvances
  BY SchedulerAssumption DEF Advance, dbVars
<1>7. row[s].next_run_at <= row[s].next_run_at
  BY <1>4
<1> QED
  BY <1>2, <1>4, <1>5, <1>6, <1>7, FoundSlot

LEMMA WalkSlots ==
  ASSUME NoonTellsTheDay, ShapeOK, SlotsOK, NEW i \in Servers, Walk(i)
  PROVE  SlotsOK'
<1> DEFINE s == tick[i].current
           from == tick[i].next
           k == tick[i].advances + 1
<1>1. PICK n \in NextRuns(row[s].recurrence, from, clock) :
        tick' = [tick EXCEPT ![i] = [tick[i] EXCEPT !.next = n, !.advances = k]]
  BY DEF Walk
<1>2. /\ tick[i].phase = "walking" /\ from <= clock /\ tick[i].advances < MaxCatchupAdvances
      /\ UNCHANGED <<row, clock>> /\ tick[i] \in TickType
  BY DEF Walk, Behind, dbVars, ShapeOK, SchedulerTypeOK
<1>3. s \in tick[i].due /\ from \in Int /\ row[s].next_run_at < from /\ row[s].next_run_at \in Int
  BY <1>2, TickRows
<1>4. k \in Nat /\ k <= MaxCatchupAdvances
  BY <1>2, SchedulerAssumption DEF TickType
<1>5. Walked(row[s].recurrence, row[s].next_run_at, from, k)
  BY <1>2 DEF SlotsOK, WalkOK
<1>6. [tick[i] EXCEPT !.next = n, !.advances = k] =
      [tick[i] EXCEPT !.phase = "walking", !.current = s, !.next = n, !.advances = k]
  BY <1>2 DEF TickType
<1>7. tick' = [tick EXCEPT ![i] = [@ EXCEPT !.phase = "walking", !.current = s,
                                           !.next = n, !.advances = k]]
  BY <1>1, <1>6
<1> HIDE DEF s, from, k
<1>8. row[s].next_run_at <= from
  BY <1>3
<1> QED
  BY <1>2, <1>3, <1>4, <1>5, <1>7, <1>8, FoundSlot

LEMMA SpawnSlots ==
  ASSUME NoonTellsTheDay, ShapeOK, SlotsOK, NEW i \in Servers, Spawn(i)
  PROVE  SlotsOK'
<1> DEFINE s == tick[i].current
           w == [schedule |-> s, slot |-> row[s].next_run_at, next |-> tick[i].next, at |-> clock]
<1>1. tick \in [Servers -> TickType] /\ tick[i] \in TickType /\ tick[i].phase = "walking" /\ clock \in Int
  BY DEF ShapeOK, SchedulerTypeOK, Spawn
<1>2. /\ row[s].recurrence \in Recurrences /\ row[s].next_run_at \in Int /\ tick[i].next \in Int
  BY <1>1, TickRows
<1>3. /\ tick'[i].phase = "batch" /\ tick'[i].writes = tick[i].writes \union {w}
      /\ \A j \in Servers \ {i} : tick'[j] = tick[j]
  BY <1>1 DEF Spawn, TickType
<1>4. UNCHANGED <<row, clock>>
  BY DEF Spawn, dbVars
<1>5. GoodSlot(row[s].recurrence, clock, tick[i].next)
  BY <1>1 DEF SlotsOK, WalkOK
<1>6. tick[i].next > clock \/ WalkedOver(row[s].recurrence, row[s].next_run_at, tick[i].next)
  <2> SUFFICES ASSUME tick[i].next <= clock
               PROVE  WalkedOver(row[s].recurrence, row[s].next_run_at, tick[i].next)
    BY <1>1, <1>2
  <2>1. tick[i].advances >= MaxCatchupAdvances /\ tick[i].advances <= MaxCatchupAdvances
    BY <1>1, SchedulerAssumption DEF Spawn, Behind, SlotsOK, WalkOK, TickType
  <2>2. tick[i].advances = MaxCatchupAdvances
    BY <1>1, <2>1, SchedulerAssumption DEF TickType
  <2>3. Walked(row[s].recurrence, row[s].next_run_at, tick[i].next, MaxCatchupAdvances + 1)
    BY <1>1, <2>2 DEF SlotsOK, WalkOK
  <2> QED
    BY <1>2, <2>3, WalkedAll
<1>7. \A v : v = w => WriteOK(v)'
  <2> SUFFICES ASSUME NEW v, v = w PROVE WriteOK(v)'
    OBVIOUS
  <2>1. v.schedule = s /\ v.slot = row[s].next_run_at /\ v.next = tick[i].next /\ v.at = clock
    OBVIOUS
  <2> QED
    BY <1>4, <1>5, <1>6, <2>1 DEF WriteOK
<1> HIDE DEF w, s
<1>8. SlotsOnTheClock'
  BY <1>4 DEF SlotsOK, SlotsOnTheClock
<1>9. ASSUME NEW j \in Servers, tick'[j].phase = "walking" PROVE WalkOK(j)'
  BY <1>3, <1>4, <1>9 DEF SlotsOK, WalkOK
<1>10. ASSUME NEW j \in Servers, NEW v \in tick'[j].writes PROVE WriteOK(v)'
  <2>1. CASE v = w
    BY <1>7, <2>1
  <2>2. CASE v # w
    <3>1. v \in tick[j].writes
      BY <1>3, <1>10, <2>2
    <3> QED
      BY <1>4, <3>1 DEF SlotsOK, WriteOK
  <2> QED
    BY <2>1, <2>2
<1> QED
  BY <1>8, <1>9, <1>10 DEF SlotsOK

(* What a commit writes into rows is what the tick has found.               *)
LEMMA CommitSlots ==
  ASSUME ShapeOK, SlotsOK, NEW i \in Servers, Commit(i)
  PROVE  /\ SlotsOK'
         /\ \A s \in Schedules : row'[s].next_run_at # row[s].next_run_at =>
              NothingBetween(row'[s].recurrence, clock, row'[s].next_run_at)
<1>1. /\ row \in [Schedules -> RowType] /\ tick \in [Servers -> TickType]
      /\ tick' = [tick EXCEPT ![i] = [IdleTick EXCEPT !.phase = "committed"]]
      /\ tick[i].phase # "idle"
  BY DEF ShapeOK, SchedulerTypeOK, Commit
<1>2. \A j \in Servers : tick'[j].phase # "walking" /\ tick'[j].writes = {}
  <2>1. tick'[i].phase = "committed" /\ tick'[i].writes = {}
    BY <1>1 DEF IdleTick
  <2>2. \A j \in Servers \ {i} : tick'[j].phase = "idle" /\ tick'[j].writes = {}
    BY <1>1, OneTick
  <2> QED
    BY <2>1, <2>2
<1>3. ASSUME NEW s \in Schedules
      PROVE  \/ row'[s] = row[s]
             \/ GoodSlot(row'[s].recurrence, clock, row'[s].next_run_at)
  <2>1. CASE ~HasWritten(i, s)
    BY <2>1 DEF Commit
  <2>2. CASE HasWritten(i, s)
    <3> DEFINE w == Written(i, s)
    <3>1. w \in tick[i].writes /\ w.schedule = s
      BY <2>2, WrittenFacts
    <3>2. WriteOK(w)
      BY <3>1 DEF SlotsOK
    <3>3. row'[s] = Fired(row[s], w)
      BY <2>2 DEF Commit
    <3> HIDE DEF w
    <3>4. row'[s].recurrence = row[s].recurrence /\ row'[s].next_run_at = w.next
      BY <1>1, <3>3 DEF Fired, RowType
    <3> QED
      BY <3>1, <3>2, <3>4 DEF WriteOK
  <2> QED
    BY <2>1, <2>2
<1>4. SlotsOnTheClock'
  BY <1>3 DEF SlotsOK, SlotsOnTheClock, GoodSlot
<1> QED
  BY <1>2, <1>3, <1>4 DEF SlotsOK, GoodSlot

(* What an endpoint leaves of a row: its slot, or one that is right.        *)
LEMMA EditedRow ==
  ASSUME NoonTellsTheDay, ShapeOK, NEW s \in Schedules, EditStep(s)
  PROVE  /\ lock[s] \in {"editor", NULL} /\ UNCHANGED <<clock, tick>>
         /\ \A t \in Schedules \ {s} : row'[t] = row[t]
         /\ \/ /\ row'[s].next_run_at = row[s].next_run_at
               /\ row'[s].recurrence = row[s].recurrence
               /\ row'[s].exists => row[s].exists
            \/ GoodSlot(row'[s].recurrence, clock, row'[s].next_run_at)
<1>1. row \in [Schedules -> RowType] /\ clock \in Int /\ lock \in [Schedules -> Servers \union {"editor", NULL}]
  BY DEF ShapeOK, SchedulerTypeOK
<1>2. ASSUME NEW r \in Recurrences, NEW n \in NextRuns(r, clock, clock) PROVE GoodSlot(r, clock, n)
  BY <1>1, NextRunFacts
<1>3. ASSUME NEW r \in Recurrences, Create(s, r)
      PROVE  /\ lock[s] = NULL /\ UNCHANGED <<clock, tick>>
             /\ \A t \in Schedules \ {s} : row'[t] = row[t]
             /\ GoodSlot(row'[s].recurrence, clock, row'[s].next_run_at)
  <2>1. PICK n \in NextRuns(r, clock, clock), e \in BOOLEAN :
          row' = [row EXCEPT ![s] = [AbsentRow EXCEPT !.exists = TRUE, !.enabled = e,
                                        !.recurrence = r, !.next_run_at = n]]
    BY <1>3 DEF Create
  <2>2. row'[s].recurrence = r /\ row'[s].next_run_at = n /\ \A t \in Schedules \ {s} : row'[t] = row[t]
    BY <1>1, <2>1 DEF AbsentRow
  <2>3. lock[s] = NULL /\ UNCHANGED <<clock, tick>>
    BY <1>3 DEF Create, ShapeOK, RowOK, AbsentRow
  <2> QED
    BY <1>2, <2>2, <2>3
<1>4. CASE PatchCommit(s)
  <2>1. ASSUME NEW e \in BOOLEAN, row' = [row EXCEPT ![s].enabled = e]
        PROVE  /\ \A t \in Schedules \ {s} : row'[t] = row[t]
               /\ row'[s].next_run_at = row[s].next_run_at
               /\ row'[s].recurrence = row[s].recurrence
               /\ row'[s].exists = row[s].exists
    BY <1>1, <2>1 DEF RowType
  <2>2. ASSUME NEW r \in Recurrences, NEW n \in NextRuns(r, clock, clock), NEW e \in BOOLEAN,
               row' = [row EXCEPT ![s] = [@ EXCEPT !.enabled = e, !.recurrence = r,
                                                   !.next_run_at = n]]
        PROVE  /\ \A t \in Schedules \ {s} : row'[t] = row[t]
               /\ GoodSlot(row'[s].recurrence, clock, row'[s].next_run_at)
    <3>1. row'[s].recurrence = r /\ row'[s].next_run_at = n /\ \A t \in Schedules \ {s} : row'[t] = row[t]
      BY <1>1, <2>2 DEF RowType
    <3> QED
      BY <1>2, <3>1
  <2> QED
    BY <1>4, <2>1, <2>2 DEF PatchCommit
<1>5. CASE Delete(s)
  BY <1>1, <1>5 DEF Delete, RowType
<1>6. CASE PatchLock(s) \/ PatchAbort(s)
  BY <1>1, <1>6 DEF PatchLock, PatchAbort, dbVars
<1> QED
  BY <1>3, <1>4, <1>5, <1>6 DEF EditStep

LEMMA EditSlots ==
  ASSUME NoonTellsTheDay, ShapeOK, SlotsOK, NEW s \in Schedules, EditStep(s)
  PROVE  SlotsOK'
<1>1. /\ lock[s] \in {"editor", NULL} /\ clock' = clock /\ tick' = tick
      /\ \A t \in Schedules \ {s} : row'[t] = row[t]
      /\ \/ /\ row'[s].next_run_at = row[s].next_run_at
            /\ row'[s].recurrence = row[s].recurrence
            /\ row'[s].exists => row[s].exists
         \/ GoodSlot(row'[s].recurrence, clock, row'[s].next_run_at)
  BY EditedRow
<1>2. SlotsOnTheClock'
  <2> SUFFICES ASSUME NEW t \in Schedules, row'[t].exists, row'[t].recurrence.kind = "weekly"
               PROVE  OnTheClock(row'[t].recurrence, row'[t].next_run_at)
    BY DEF SlotsOnTheClock
  <2>1. row[t].exists /\ row[t].recurrence.kind = "weekly" =>
          OnTheClock(row[t].recurrence, row[t].next_run_at)
    BY DEF SlotsOK, SlotsOnTheClock
  <2> QED
    BY <1>1, <2>1 DEF GoodSlot
<1>3. \A i \in Servers : s \notin tick[i].due /\ ~HasWritten(i, s)
  BY <1>1, SchedulerAssumption DEF ShapeOK, SchedulerTypeOK
<1>4. ASSUME NEW i \in Servers, tick'[i].phase = "walking" PROVE WalkOK(i)'
  <2>1. row'[tick[i].current] = row[tick[i].current]
    BY <1>1, <1>3, <1>4, TickRows
  <2> QED
    BY <1>1, <1>4, <2>1 DEF SlotsOK, WalkOK
<1>5. ASSUME NEW i \in Servers, NEW w \in tick'[i].writes PROVE WriteOK(w)'
  <2>1. row'[w.schedule] = row[w.schedule] /\ w \in tick[i].writes
    BY <1>1, <1>3, <1>5, TickRows
  <2> QED
    BY <1>1, <2>1 DEF SlotsOK, WriteOK
<1> QED
  BY <1>2, <1>4, <1>5 DEF SlotsOK

LEMMA PassSlots ==
  ASSUME ShapeOK, SlotsOK, Pass
  PROVE  SlotsOK'
<1>1. UNCHANGED <<row, tick>> /\ clock \in Int /\ clock' \in Int /\ clock <= clock'
  BY SchedulerAssumption DEF Pass, ShapeOK, SchedulerTypeOK
<1>2. SlotsOnTheClock'
  BY <1>1 DEF SlotsOK, SlotsOnTheClock
<1>3. ASSUME NEW i \in Servers, NEW w \in tick'[i].writes PROVE WriteOK(w)'
  <2>1. WriteOK(w) /\ row[w.schedule].recurrence \in Recurrences /\ w.next \in Int
    BY <1>1, <1>3, TickRows DEF SlotsOK
  <2>2. GoodSlot(row[w.schedule].recurrence, clock', w.next)
    BY <1>1, <2>1, SlotKept DEF WriteOK
  <2> QED
    BY <1>1, <2>1, <2>2 DEF WriteOK
<1>4. \A i \in Servers : tick'[i].phase # "walking"
  BY <1>1 DEF Pass
<1> QED
  BY <1>2, <1>3, <1>4 DEF SlotsOK

LEMMA StepSlots ==
  ASSUME NoonTellsTheDay, ShapeOK, SlotsOK, [Next]_vars
  PROVE  SlotsOK'
<1>1. tick \in [Servers -> TickType]
  BY DEF ShapeOK, SchedulerTypeOK
<1>2. ASSUME NEW i \in Servers, TickStep(i) PROVE SlotsOK'
  <2>1. CASE TakeAdvisory(i) \/ FetchDue(i)
    <3>1. /\ tick'[i].phase # "walking" /\ tick'[i].writes = tick[i].writes
          /\ \A j \in Servers \ {i} : tick'[j] = tick[j]
      BY <1>1, <2>1 DEF TakeAdvisory, FetchDue, TickType
    <3>2. UNCHANGED <<row, clock>>
      BY <2>1 DEF TakeAdvisory, FetchDue, dbVars
    <3> QED
      BY <3>1, <3>2, QuietSlots
  <2>2. CASE Rollback(i) \/ ReleaseAdvisory(i) \/ Crash(i)
    <3>1. /\ tick'[i].phase # "walking" /\ tick'[i].writes = {}
          /\ \A j \in Servers \ {i} : tick'[j] = tick[j]
      BY <1>1, <2>2 DEF Rollback, ReleaseAdvisory, Crash, IdleTick
    <3>2. UNCHANGED <<row, clock>>
      BY <2>2 DEF Rollback, ReleaseAdvisory, Crash, dbVars
    <3> QED
      BY <3>1, <3>2, QuietSlots
  <2> QED
    BY <1>2, <2>1, <2>2, AdvanceSlots, WalkSlots, SpawnSlots, CommitSlots DEF TickStep
<1>3. CASE UNCHANGED vars
  BY <1>3, QuietSlots DEF vars
<1> QED
  BY <1>2, <1>3, EditSlots, PassSlots DEF Next

LEMMA InitSlots == Init => SlotsOK
BY DEF Init, SlotsOK, SlotsOnTheClock, AbsentRow, IdleTick

(* A step that moves next_run_at takes a slot that was computed so that     *)
(* nothing ahead is passed over.                                            *)
LEMMA StepAhead ==
  ASSUME NoonTellsTheDay, ShapeOK, SlotsOK, [Next]_vars,
         NEW s \in Schedules, row'[s].next_run_at # row[s].next_run_at
  PROVE  NothingBetween(row'[s].recurrence, clock, row'[s].next_run_at)
<1>1. ASSUME NEW i \in Servers, TickStep(i), ~Commit(i) PROVE row' = row
  BY <1>1 DEF TickStep, TakeAdvisory, FetchDue, Advance, Walk, Spawn, Rollback,
              ReleaseAdvisory, Crash, dbVars
<1>2. ASSUME NEW t \in Schedules, EditStep(t)
      PROVE  NothingBetween(row'[s].recurrence, clock, row'[s].next_run_at)
  BY <1>2, EditedRow DEF GoodSlot
<1>3. Pass \/ UNCHANGED vars => row' = row
  BY DEF Pass, vars
<1> QED
  BY <1>1, <1>2, <1>3, CommitSlots DEF Next

(* The slots of a tick and of every row are right: a backlog is skipped     *)
(* unless it is longer than the loops, and a weekly schedule is due when    *)
(* the clocks of its zone, less than 12 hours ahead of UTC, show its time.  *)
THEOREM SlotsAreRight ==
  ASSUME NoonTellsTheDay
  PROVE  Spec => []SlotsRight
<1>1. Init => ShapeOK /\ SlotsOK
  BY InitShape, InitSlots
<1>2. ShapeOK /\ SlotsOK /\ [Next]_vars => (ShapeOK /\ SlotsOK)'
  BY StepShape, StepSlots
<1>3. ShapeOK /\ SlotsOK => SlotsRight
  BY DEF SlotsOK, SlotsRight, BacklogSkipped, WriteOK
<1> QED
  BY <1>1, <1>2, <1>3, PTL DEF Spec

(* Whenever next_run_at is computed, by a tick or an endpoint, no whole     *)
(* interval and no occurrence of a zone of constant offset that lies ahead  *)
(* is passed over.                                                          *)
THEOREM NothingIsSkipped ==
  ASSUME NoonTellsTheDay
  PROVE  Spec => NothingAheadSkipped
<1>1. Init => ShapeOK /\ SlotsOK
  BY InitShape, InitSlots
<1>2. ShapeOK /\ SlotsOK /\ [Next]_vars => (ShapeOK /\ SlotsOK)'
  BY StepShape, StepSlots
<1>3. ShapeOK /\ SlotsOK /\ [Next]_vars =>
        [\A s \in Schedules : row'[s].next_run_at # row[s].next_run_at =>
           NothingBetween(row'[s].recurrence, clock, row'[s].next_run_at)]_vars
  BY StepAhead
<1> QED
  BY <1>1, <1>2, <1>3, PTL DEF Spec, NothingAheadSkipped
=============================================================================
