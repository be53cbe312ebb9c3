-------------------------------- MODULE MCCli --------------------------------
(* Instances of Cli for TLC: the polls of the lifecycle, an hour and a day, *)
(* and the intervals at which the rounding of the expressions turns.        *)
EXTENDS Cli, TLC

Poll(project, space, label, interval) ==
  [project |-> project, space |-> space, label |-> label, interval |-> interval]
LifecyclePolls == {Poll(NULL, NULL, NULL, 86400), Poll("topic", NULL, NULL, 3600),
                   Poll("topic", NULL, NULL, 5400)}

Around(s) == s - 90 .. s + 90
TurningPoints ==
  1 .. 7300
    \union UNION {Around(3600 * h) \union Around(3600 * h + 1800) : h \in 1 .. 72}
    \union UNION {Around(86400 * d) \union Around(86400 * d + 43200) : d \in 1 .. 30}
    \union Around(86400 * 31) \union 2719000 .. 2719769
=============================================================================
