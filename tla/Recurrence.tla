----------------------------- MODULE Recurrence ------------------------------
(***************************************************************************)
(* When a recurring schedule runs next (server/src/scheduling.ts), and the *)
(* wall clocks of time zones it is computed with.                          *)
(*                                                                         *)
(* Instants are integers, counted in units of the UTC clock from the       *)
(* midnight that begins a Sunday; a calendar date is the number of its     *)
(* day.  What Intl.DateTimeFormat renders of an instant is its local time, *)
(* the instant plus the zone's offset at that instant.                     *)
(***************************************************************************)
EXTENDS Integers, FiniteSets

CONSTANTS
  DayLength,          \* units of a day: 1440 minutes in the code
  WeekLength,         \* days of a week
  MaxIntervalIters,   \* MAX_INTERVAL_ITERS
  MaxWeeklyDaysOut    \* MAX_WEEKLY_DAYS_OUT

ASSUME CalendarAssumption ==
  /\ DayLength \in Nat \ {0} /\ WeekLength \in Nat \ {0}
  /\ MaxIntervalIters \in Nat /\ MaxWeeklyDaysOut \in Nat

(* A zone that is `shift` ahead of its standard offset from `begins` until *)
(* `ends`; shift = 0 for a zone without daylight saving.                   *)
Zone == [offset : Int, shift : Int, begins : Int, ends : Int]

OffsetAt(z, t) == IF z.begins <= t /\ t < z.ends THEN z.offset + z.shift ELSE z.offset

LocalTime(z, t) == t + OffsetAt(z, t)
DayOf(local)    == local \div DayLength
TimeOf(local)   == local % DayLength
WeekdayOf(day)  == day % WeekLength

(* wallClockToUtc corrects a guess by the offset in force at the guess.    *)
WallClockToUtc(z, day, time) ==
  LET guess == day * DayLength + time
  IN  guess + (guess - LocalTime(z, guess))

(* A recurrence that passes isValidRecurrence and has a time that parses.  *)
IntervalRecurrence == [kind : {"interval"}, interval : Nat \ {0}]
WeeklyRecurrence   == [kind : {"weekly"}, days : SUBSET (0 .. WeekLength - 1),
                       times : SUBSET (0 .. DayLength - 1), zone : Zone]

(* nextIntervalRun: whole intervals after `after`, as many as it takes to  *)
(* pass `now`, or as many as the loop goes.                                *)
IntervalRuns(r, after, now) ==
  {after + k * r.interval : k \in
    {k \in 1 .. MaxIntervalIters + 1 :
       /\ k <= MaxIntervalIters => after + k * r.interval > now
       /\ \A j \in 1 .. k - 1 : after + j * r.interval <= now}}

(* The weekday of a candidate day, read off its noon in UTC.               *)
WeekdayTested(z, day) ==
  WeekdayOf(DayOf(LocalTime(z, day * DayLength + DayLength \div 2)))

(* Mutant: the walk begins on the day after. *)
WeeklyDaysFromTomorrow(r, after) ==
  LET anchor == DayOf(LocalTime(r.zone, after)) + 1
  IN  {d \in anchor .. anchor + MaxWeeklyDaysOut : WeekdayTested(r.zone, d) \in r.days}

(* The candidate days: from the local date of `after` on, on the weekdays.  *)
WeeklyDays(r, after) ==
  LET anchor == DayOf(LocalTime(r.zone, after))
  IN  {d \in anchor .. anchor + MaxWeeklyDaysOut : WeekdayTested(r.zone, d) \in r.days}

(* Mutant: the slot just fired is found again. *)
SlotsNotBefore(r, after) ==
  {c \in WeeklyDays(r, after) \X r.times : WallClockToUtc(r.zone, c[1], c[2]) >= after}

(* The day and time pairs that nextWeeklyRun may return: strictly later.   *)
WeeklySlots(r, after) ==
  {c \in WeeklyDays(r, after) \X r.times : WallClockToUtc(r.zone, c[1], c[2]) > after}

Precedes(c, d) == c[1] < d[1] \/ (c[1] = d[1] /\ c[2] <= d[2])

(* The first of them by date and time; the code throws if there is none.   *)
WeeklyRuns(r, after) ==
  LET slots == WeeklySlots(r, after)
  IN  {WallClockToUtc(r.zone, c[1], c[2]) : c \in
        {c \in slots : \A d \in slots : Precedes(c, d)}}

(* The value of nextRun, as a set of one element; empty where it throws.   *)
NextRuns(r, after, now) ==
  IF r.kind = "interval" THEN IntervalRuns(r, after, now) ELSE WeeklyRuns(r, after)
-----------------------------------------------------------------------------
(* What a weekly recurrence means: clocks that show one of its times on    *)
(* one of its days, and the instants at which those of its zone do.        *)
Shows(r, local) == TimeOf(local) \in r.times /\ WeekdayOf(DayOf(local)) \in r.days
Occurs(r, t) == Shows(r, LocalTime(r.zone, t))

(* The instants it comes to, a day of its days and a time at a time; those  *)
(* of times that a zone skips or repeats are where wallClockToUtc puts them.*)
Placed(r, t) ==
  \E day \in DayOf(t) - 1 .. DayOf(t) + 1, time \in r.times :
    WeekdayOf(day) \in r.days /\ t = WallClockToUtc(r.zone, day, time)
=============================================================================
