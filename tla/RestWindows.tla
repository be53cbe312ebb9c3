---------------------------- MODULE RestWindows ----------------------------
(***************************************************************************)
(* The quiet hours of a consumer (server/src/rest.ts) as functions of the  *)
(* window and the time.  Time is counted in units of which a day has       *)
(* DayLength, from a Sunday 00:00 UTC; a time zone is its offset, and NULL *)
(* a name that Intl.DateTimeFormat does not know.                          *)
(***************************************************************************)
EXTENDS Integers

CONSTANTS DayLength, WeekLength, NULL

ASSUME RestWindowsAssumption ==
  /\ DayLength \in Nat \ {0} /\ WeekLength \in Nat \ {0}
  /\ NULL \notin Int

(* The pattern allows 24:00 and 7:60, which are no times of a day.         *)
ParseHhMmToMinutes(time) == IF time \in 0 .. DayLength - 1 THEN time ELSE NULL

LocalTime(now, zone) == (now + zone) % (WeekLength * DayLength)

LocalWeekdayAndMinute(now, zone) ==
  [weekday |-> LocalTime(now, zone) \div DayLength,
   minuteOfDay |-> LocalTime(now, zone) % DayLength]

(* Intl throws a RangeError, whatever the days of the window.              *)
Throws(w) == w.timezone = NULL

(* An overnight window is active after its start or before its end, on     *)
(* each of its days.                                                       *)
IsWindowActiveNow(w, now) ==
  LET local == LocalWeekdayAndMinute(now, w.timezone)
      m == local.minuteOfDay
      start == ParseHhMmToMinutes(w.start_time)
      end == ParseHhMmToMinutes(w.end_time)
  IN  /\ local.weekday \in w.days_of_week
      /\ start # NULL /\ end # NULL /\ start # end
      /\ IF start < end THEN start <= m /\ m < end ELSE start <= m \/ m < end

(* The moments of a local week that a window keeps quiet: from its start,  *)
(* round the clock, up to its end.  A time that is none keeps nothing so.  *)
QuietTime(w) ==
  IF w.start_time < DayLength /\ w.end_time < DayLength
  THEN {d * DayLength + ((w.start_time + i) % DayLength) :
          d \in w.days_of_week, i \in 0 .. ((w.end_time - w.start_time) % DayLength) - 1}
  ELSE {}
=============================================================================
