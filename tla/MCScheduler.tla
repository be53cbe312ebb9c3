----------------------------- MODULE MCScheduler -----------------------------
(* Instances of Scheduler for TLC, in hours of real days and weeks.         *)
EXTENDS Scheduler, TLC

CONSTANTS s1, s2

Daily == [kind |-> "interval", interval |-> 24]
Weekly(days, times, zone) ==
  [kind |-> "weekly", days |-> days, times |-> times, zone |-> zone]
Steady(offset) == [offset |-> offset, shift |-> 0, begins |-> 0, ends |-> 0]

(* A zone east of Greenwich whose clocks go forward on Monday, over one of  *)
(* the schedule's times, and back on Friday, one at the end of the range    *)
(* that is right, and one just past it.                                     *)
East == [offset |-> 1, shift |-> 1, begins |-> 25, ends |-> 121]
MondayThursday == Weekly({1, 4}, {2, 9}, East)
FarEast == Weekly({1}, {9, 22}, Steady(11))
Auckland == Weekly({1}, {9}, Steady(12))

MixedRecurrences == {Daily, MondayThursday, FarEast}
AheadRecurrences == {Auckland}
Hours == {0, 34, 47, 200}
=============================================================================
