----------------------------- MODULE MCPresence -----------------------------
(* Instances of Presence for TLC: hours of a week of seven days.            *)
EXTENDS Presence, TLC

CONSTANTS a1, p1, p2

W(p, days, start, end, zone) ==
  [project_id |-> p, days_of_week |-> days, start_time |-> start, end_time |-> end,
   timezone |-> zone]

(* Nights on Mondays, all of it in UTC and for one topic in a zone 8 hours *)
(* ahead; an end at 24:00, which is no time; and a zone that is none.      *)
Nights == W(NULL, {1}, 22, 6, 0)
Days == W(p1, {1, 2}, 6, 14, 8)
NoTime == W(p2, {1}, 20, 24, 0)
NoZone(p) == W(p, {3}, 8, 9, NULL)
AllQuietHours == {Nights, Days, NoTime, NoZone(p1)}

(* Monday 05:00, 06:00 and 22:00, UTC.                                      *)
Hours == {29, 30, 46}

Online == [NoAgent EXCEPT !.status = "online"]
Offline == [status |-> "offline", paused |-> FALSE, age |-> StaleAfter + 1]
Crew(row, topics, ws) ==
  [agent |-> [a \in Agents |-> row],
   subscription |-> {Subscribes(a, p, "default") : a \in Agents, p \in topics},
   window |-> {[agent |-> a, window |-> w] : a \in Agents, w \in ws}]

(* Online, in both topics and with quiet hours; silent and in no topic;    *)
(* and yet to register.                                                    *)
Crews == {Crew(Online, {p1, p2}, {Nights, Days}), Crew(Offline, {}, {}), Crew(NoAgent, {}, {})}
=============================================================================
