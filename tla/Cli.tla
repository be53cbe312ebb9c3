--------------------------------- MODULE Cli ---------------------------------
(***************************************************************************)
(* The agent-mq command line (agent/src/cli.ts) as processes that share a  *)
(* directory's .agent-mq/config.json (config.ts, session.ts) and a user's  *)
(* recurring jobs (scheduleInstall.ts): lines of the crontab on Linux,     *)
(* property lists loaded by launchd on macOS.                              *)
(*                                                                         *)
(* No file is locked.  A command reads the configuration, may call    *)
(* the server, and writes a whole file back: writeFile first truncates it, *)
(* and loadConfig takes a file that is missing or does not parse for an    *)
(* empty one.  The server URL of the configuration is left out.            *)
(***************************************************************************)
EXTENDS Integers

CONSTANTS
  Dirs, Users, Agents,
  Home, Root,     \* the directories that cron and launchd start their jobs in
  Polls,          \* what schedule install is asked for
  Intervals,      \* seconds over which the cron expressions are surveyed
  Procs,          \* bound: processes at one time
  MaxCommands,    \* bound: commands that are ever started
  MaxFailures,    \* bound: commands killed, and calls that fail
  NULL

ASSUME CliAssumption ==
  /\ Home \in Dirs /\ Root \in Dirs
  /\ NULL \notin Users \union Agents \union Procs
  /\ MaxCommands \in Nat /\ MaxFailures \in Nat
  /\ Intervals \subseteq Nat \ {0}
  /\ \A q \in Polls : q.interval \in Nat \ {0} /\ {"project", "space", "label"} \subseteq DOMAIN q

VARIABLES
  platform,     \* of the machine
  file,         \* per directory: the configuration that loadConfig reads
  crontab,      \* the user's crontab, a set of lines
  plist,        \* per label: its property list file, NULL if it is none
  loaded,       \* per label: the job that launchd has loaded
  registered,   \* agents that the server has registered
  heard,        \* agents that commands have called the server as
  proc,         \* the processes
  asked,        \* history: what the commands so far ask the configuration to be
  spoiled,      \* history: directories where two commands met, or one was killed writing
  installed,    \* history: per label, the job that was installed last
  torn,         \* history: two changes of the crontab met, or an install failed
  commands, failures

jobs == <<crontab, plist, loaded>>
files == <<platform, file, jobs>>
history == <<asked, spoiled, installed, torn>>
vars == <<files, registered, heard, proc, history, commands, failures>>

Config == [agent : Agents \union {NULL}, session : Users \union {NULL}]
Shell == [agent |-> NULL, session |-> NULL]
-----------------------------------------------------------------------------
(* The cron expression of an interval *)

Seconds == [minute |-> 60, hour |-> 3600, day |-> 86400]
Every(unit, step) == [unit |-> unit, step |-> step]
AtLeastOne(n) == IF n < 1 THEN 1 ELSE n
Rounded(n, d) == AtLeastOne((2 * n + d) \div (2 * d))

(* Whole numbers of hours and of days come out of the rounding unchanged.  *)
IntervalToCronSchedule(sec) ==
  LET minutes == Rounded(sec, 60)
      hours == Rounded(minutes, 60)
  IN  CASE minutes < 60 -> Every("minute", minutes)
        [] minutes >= 60 /\ hours < 24 -> Every("hour", hours)
        [] OTHER -> Every("day", Rounded(hours, 24))

(* The steps that cron takes, and a pace that is the interval's by about   *)
(* a third at most: the rounding of minutes, then of hours, then of days.  *)
InRange(e) == e.step \in CASE e.unit = "minute" -> 1 .. 59
                           [] e.unit = "hour" -> 1 .. 23
                           [] e.unit = "day" -> 1 .. 31
CronHonest ==
  \A sec \in Intervals :
    LET e == IntervalToCronSchedule(sec)
        pace == e.step * Seconds[e.unit]
    IN  InRange(e) /\ (sec >= 60 => 3 * pace >= 2 * sec /\ 5 * pace <= 7 * sec)

DeriveLabel(q) ==
  IF q.label # NULL THEN q.label
  ELSE IF q.project # NULL THEN <<"project", q.project>>
  ELSE IF q.space # NULL THEN <<"space", q.space>>
  ELSE <<"site", "update">>

(* A job runs the command, from wherever it was installed; launchd takes   *)
(* the interval as it is.                                                  *)
Job(q, every) ==
  [label |-> DeriveLabel(q), every |-> every,
   runs |-> IF q.project = NULL /\ q.space = NULL THEN "updates" ELSE "run"]
Line(q) == Job(q, IntervalToCronSchedule(q.interval))
BuildPlist(q) == Job(q, Every("second", q.interval))
OtherLine == [label |-> NULL, every |-> Every("day", 1), runs |-> "other"]
Labels == {DeriveLabel(q) : q \in Polls}
Lines == {Line(q) : q \in Polls}
Plists == {BuildPlist(q) : q \in Polls}

(* A poll has a label, and NULL stands for no job at all.                  *)
ASSUME JobAssumption ==
  \A q \in Polls : NULL \notin {DeriveLabel(q), Line(q), BuildPlist(q)}
-----------------------------------------------------------------------------
(* Processes *)

Writers == {"login", "logout", "register"}
Proc == [cmd : Writers \union {"work", "subscribe", "install", NULL},
         dir : Dirs \union {NULL},
         phase : {"exited", "begun", "calling", "loading", "loaded", "truncated",
                  "again", "reading", "read", "writing", "emptied", "filled", "unloaded"},
         copy : Config, user : Users \union {NULL},
         poll : Polls \union {NULL}, lines : SUBSET (Lines \union {OtherLine})]
Exited == [cmd |-> NULL, dir |-> NULL, phase |-> "exited", copy |-> Shell, user |-> NULL,
           poll |-> NULL, lines |-> {}]

Init ==
  /\ platform \in {"linux", "darwin"}
  /\ plist = [l \in Labels |-> NULL] /\ loaded = plist
  /\ file = [d \in Dirs |-> Shell]
  /\ crontab = {OtherLine}
  /\ registered = {} /\ heard = {}
  /\ proc = [x \in Procs |-> Exited]
  /\ asked = file /\ spoiled = {}
  /\ installed = [l \in Labels |-> NULL] /\ torn = FALSE
  /\ commands = 0 /\ failures = 0

At(x, phase) == proc[x].phase = phase
Becomes(x, k) == proc' = [proc EXCEPT ![x] = k]
Proceeds(x, phase) == Becomes(x, [proc[x] EXCEPT !.phase = phase])
Exits(x) == Becomes(x, Exited)

(* A process that will write what it has read before.                      *)
HasCopy(x) == proc[x].cmd \in Writers /\ proc[x].phase \in {"calling", "loaded", "truncated"}
              /\ (At(x, "calling") => proc[x].cmd = "register")
Meets(x) == \E y \in Procs \ {x} : HasCopy(y) /\ proc[y].dir = proc[x].dir

Begin(x, cmd, d) ==
  /\ At(x, "exited") /\ commands < MaxCommands /\ commands' = commands + 1
  /\ Becomes(x, [Exited EXCEPT !.cmd = cmd, !.dir = d, !.phase = "begun"])
  /\ UNCHANGED <<files, registered, heard, history, failures>>

(* login: the configuration is read again once the server has answered.    *)
Login(x, u) ==
  /\ At(x, "begun") /\ proc[x].cmd = "login"
  /\ Becomes(x, [proc[x] EXCEPT !.user = u, !.phase = "loading"])
  /\ UNCHANGED <<files, registered, heard, history, commands, failures>>

(* logout: without a session there is nothing to do; the server's answer   *)
(* does not matter.                                                        *)
Logout(x) ==
  /\ At(x, "begun") /\ proc[x].cmd = "logout"
  /\ IF file[proc[x].dir].session = NULL THEN Exits(x) ELSE Proceeds(x, "loading")
  /\ UNCHANGED <<files, registered, heard, history, commands, failures>>

(* Mutant: the session is set in an empty configuration. *)
UpdateFromNothing(x) ==
  LET k == proc[x]
  IN  /\ At(x, "loading") \/ At(x, "again")
      /\ Becomes(x, [k EXCEPT !.copy = [Shell EXCEPT !.session = k.user], !.phase = "loaded"])
      /\ UNCHANGED <<files, registered, heard, history, commands, failures>>

(* updateConfig: of the session, and after a login once more of the server.*)
UpdateConfig(x) ==
  LET k == proc[x]
      current == file[k.dir]
  IN  /\ At(x, "loading") \/ At(x, "again")
      /\ Becomes(x, [k EXCEPT !.copy = IF At(x, "loading") THEN [current EXCEPT !.session = k.user]
                                      ELSE current,
                             !.user = IF At(x, "again") THEN NULL ELSE @,
                             !.phase = "loaded"])
      /\ UNCHANGED <<files, registered, heard, history, commands, failures>>

(* register: the configuration is read before the server is called.        *)
RegisterLoad(x) ==
  LET current == file[proc[x].dir]
  IN  /\ At(x, "begun") /\ proc[x].cmd = "register"
      /\ IF current.session = NULL THEN Exits(x)
         ELSE Becomes(x, [proc[x] EXCEPT !.copy = current, !.phase = "calling"])
      /\ UNCHANGED <<files, registered, heard, history, commands, failures>>

(* Mutant: an answer without an agent is taken for one. *)
RegisterUnchecked(x, a) ==
  /\ At(x, "calling") /\ a \notin registered
  /\ Becomes(x, [proc[x] EXCEPT !.copy.agent = a, !.phase = "loaded"])
  /\ UNCHANGED <<files, registered, heard, history, commands, failures>>

(* The server's new agent, and the copy of the configuration with it.      *)
RegisterCall(x, a) ==
  /\ At(x, "calling") /\ a \notin registered
  /\ registered' = registered \union {a}
  /\ Becomes(x, [proc[x] EXCEPT !.copy.agent = a, !.phase = "loaded"])
  /\ UNCHANGED <<files, heard, history, commands, failures>>

Spoils(x) == spoiled' = IF Meets(x) THEN spoiled \union {proc[x].dir} ELSE spoiled

(* saveConfig: writeFile truncates the file and then writes it.            *)
Truncate(x) ==
  /\ At(x, "loaded")
  /\ file' = [file EXCEPT ![proc[x].dir] = Shell]
  /\ Spoils(x)
  /\ Proceeds(x, "truncated")
  /\ UNCHANGED <<platform, jobs, registered, heard, asked, installed, torn, commands, failures>>

Ask(x) ==
  LET k == proc[x]
  IN  CASE k.cmd = "register" -> [asked[k.dir] EXCEPT !.agent = k.copy.agent]
        [] k.cmd = "login" /\ k.user # NULL -> [asked[k.dir] EXCEPT !.session = k.user]
        [] k.cmd = "logout" -> [asked[k.dir] EXCEPT !.session = NULL]
        [] OTHER -> asked[k.dir]

(* The bytes of two writers may mix to what does not parse.                *)
Write(x) ==
  LET k == proc[x]
  IN  /\ At(x, "truncated")
      /\ \E content \in {k.copy} \union IF Meets(x) THEN {Shell} ELSE {} :
           file' = [file EXCEPT ![k.dir] = content]
      /\ asked' = [asked EXCEPT ![k.dir] = Ask(x)]
      /\ Spoils(x)
      /\ IF k.cmd = "login" /\ k.user # NULL THEN Proceeds(x, "again") ELSE Exits(x)
      /\ UNCHANGED <<platform, jobs, registered, heard, installed, torn, commands, failures>>

(* heartbeat, claim, complete and run read the agent's token; subscribe    *)
(* wants a session too; updates takes what there is.                       *)
Work(x) ==
  LET current == file[proc[x].dir]
  IN  /\ At(x, "begun") /\ proc[x].cmd \in {"work", "subscribe"}
      /\ heard' = IF current.agent = NULL \/ (proc[x].cmd = "subscribe" /\ current.session = NULL)
                  THEN heard ELSE heard \union {current.agent}
      /\ Exits(x)
      /\ UNCHANGED <<files, registered, history, commands, failures>>
-----------------------------------------------------------------------------
(* schedule install, cron and launchd *)

BeginInstall(x, d, q) ==
  /\ At(x, "exited") /\ commands < MaxCommands /\ commands' = commands + 1
  /\ Becomes(x, [Exited EXCEPT !.cmd = "install", !.dir = d, !.poll = q,
                              !.phase = IF platform = "linux" THEN "reading" ELSE "writing"])
  /\ UNCHANGED <<files, registered, heard, history, failures>>

(* crontab -l.                                                             *)
ReadCurrentCrontab(x) ==
  /\ At(x, "reading")
  /\ Becomes(x, [proc[x] EXCEPT !.lines = crontab, !.phase = "read"])
  /\ UNCHANGED <<files, registered, heard, history, commands, failures>>

Failing == failures < MaxFailures /\ failures' = failures + 1

(* Any failure of it is taken for a user without a crontab.                *)
ReadNothing(x) ==
  /\ At(x, "reading")
  /\ Failing /\ torn' = TRUE
  /\ Proceeds(x, "read")
  /\ UNCHANGED <<files, registered, heard, asked, spoiled, installed, commands>>

(* crontab -: all lines but those of the label, and the new one.           *)
InstallLine(x) ==
  LET line == Line(proc[x].poll)
  IN  /\ At(x, "read")
      /\ crontab' = {l \in proc[x].lines : l.label # line.label} \union {line}
      /\ installed' = [installed EXCEPT ![line.label] = line]
      /\ torn' = (torn \/ \E y \in Procs \ {x} : At(y, "read"))
      /\ Exits(x)
      /\ UNCHANGED <<platform, file, plist, loaded, registered, heard, asked, spoiled,
                     commands, failures>>

LabelOf(x) == DeriveLabel(proc[x].poll)

(* writeFile of the property list, again in two steps.                     *)
TruncatePlist(x) ==
  /\ At(x, "writing")
  /\ plist' = [plist EXCEPT ![LabelOf(x)] = NULL]
  /\ Proceeds(x, "emptied")
  /\ UNCHANGED <<platform, file, crontab, loaded, registered, heard, history, commands, failures>>

WritePlist(x) ==
  /\ At(x, "emptied")
  /\ plist' = [plist EXCEPT ![LabelOf(x)] = BuildPlist(proc[x].poll)]
  /\ installed' = [installed EXCEPT ![LabelOf(x)] = BuildPlist(proc[x].poll)]
  /\ Proceeds(x, "filled")
  /\ UNCHANGED <<platform, file, crontab, loaded, registered, heard, asked, spoiled, torn,
                 commands, failures>>

(* launchctl unload, which reads the file for what to unload; whether it   *)
(* fails does not matter to the command.                                   *)
Unload(x) ==
  /\ At(x, "filled")
  /\ \/ Failing /\ torn' = TRUE /\ UNCHANGED loaded
     \/ /\ loaded' = IF plist[LabelOf(x)] = NULL THEN loaded
                     ELSE [loaded EXCEPT ![LabelOf(x)] = NULL]
        /\ UNCHANGED <<torn, failures>>
  /\ Proceeds(x, "unloaded")
  /\ UNCHANGED <<platform, file, crontab, plist, registered, heard, asked, spoiled, installed,
                 commands>>

(* launchctl load: a label that is loaded stays as it is.                  *)
Load(x) ==
  /\ At(x, "unloaded")
  /\ loaded' = IF loaded[LabelOf(x)] = NULL
               THEN [loaded EXCEPT ![LabelOf(x)] = plist[LabelOf(x)]] ELSE loaded
  /\ Exits(x)
  /\ UNCHANGED <<platform, file, crontab, plist, registered, heard, history, commands, failures>>

(* cron starts the command of a line in the user's home, launchd that of a *)
(* job in the root directory.                                              *)
Fire(x, job) ==
  /\ At(x, "exited") /\ job.runs \in {"run", "updates"}
  /\ Becomes(x, [Exited EXCEPT !.cmd = "work", !.phase = "begun",
                              !.dir = IF platform = "linux" THEN Home ELSE Root])
  /\ UNCHANGED <<files, registered, heard, history, commands, failures>>

(* The process is interrupted, or its call fails; of a registration the    *)
(* server may have made the agent that nobody will know.                   *)
Stop(x) ==
  /\ ~At(x, "exited")
  /\ Failing
  /\ \/ UNCHANGED registered
     \/ At(x, "calling") /\ \E a \in Agents \ registered : registered' = registered \union {a}
  /\ spoiled' = IF At(x, "truncated") THEN spoiled \union {proc[x].dir} ELSE spoiled
  /\ torn' = (torn \/ proc[x].phase \in {"emptied", "filled", "unloaded"})
  /\ Exits(x)
  /\ UNCHANGED <<files, heard, asked, installed, commands>>

Commands == {"login", "logout", "register", "work", "subscribe"}
Runs(x) ==
  \/ \E u \in Users : Login(x, u)
  \/ Logout(x) \/ UpdateConfig(x)
  \/ RegisterLoad(x) \/ \E a \in Agents : RegisterCall(x, a)
  \/ Truncate(x) \/ Write(x) \/ Work(x)
  \/ ReadCurrentCrontab(x) \/ ReadNothing(x) \/ InstallLine(x)
  \/ TruncatePlist(x) \/ WritePlist(x) \/ Unload(x) \/ Load(x)

(* What is installed on the machine: nobody works in the root directory.   *)
Jobs == crontab \union {loaded[l] : l \in {m \in Labels : loaded[m] # NULL}}

Next ==
  \E x \in Procs :
    \/ \E cmd \in Commands, d \in Dirs \ {Root} : Begin(x, cmd, d)
    \/ \E d \in Dirs \ {Root}, q \in Polls : BeginInstall(x, d, q)
    \/ \E job \in Jobs : Fire(x, job)
    \/ Runs(x) \/ Stop(x)

Spec == Init /\ [][Next]_vars
-----------------------------------------------------------------------------
(* Properties *)

(* Values stay in their types, and every token that is kept or used is one *)
(* that the server gave out.                                               *)
CliTypeOK ==
  /\ file \in [Dirs -> Config] /\ asked \in [Dirs -> Config]
  /\ platform \in {"linux", "darwin"}
  /\ crontab \subseteq Lines \union {OtherLine}
  /\ plist \in [Labels -> Plists \union {NULL}] /\ loaded \in [Labels -> Plists \union {NULL}]
  /\ proc \in [Procs -> Proc]
  /\ spoiled \subseteq Dirs /\ torn \in BOOLEAN
  /\ installed \in [Labels -> Lines \union Plists \union {NULL}]
  /\ commands \in Nat /\ failures \in Nat
  /\ registered \subseteq Agents /\ heard \subseteq registered
  /\ \A d \in Dirs : file[d].agent \in registered \union {NULL}
  /\ \A x \in Procs : proc[x].copy.agent \in registered \union {NULL}

(* What the commands of a directory have saved and nobody has taken back   *)
(* is there: the agent through logins and logouts, the session through     *)
(* registrations.  It is lost only where two of them write over one        *)
(* another, or one is killed in the middle of writing.                     *)
ConfigAsAsked ==
  \A d \in Dirs :
    d \in spoiled \/ (\E x \in Procs : proc[x].dir = d /\ At(x, "truncated")) \/ file[d] = asked[d]

(* However often and at the same time polls are installed, a label has one *)
(* line; and unless two installs meet or crontab -l fails, every poll has  *)
(* its last line and the user's own lines are kept.                        *)
CrontabAsInstalled ==
  platform = "linux" =>
  /\ \A l1, l2 \in crontab : l1.label = l2.label => l1 = l2
  /\ torn \/ crontab = {OtherLine} \union {installed[l] : l \in {m \in Labels : installed[m] # NULL}}

(* scheduleInstall.ts: "Unload any previous instance of this label first so *)
(* re-installing is idempotent": when no install of a label is under way,  *)
(* launchd runs the job installed last, unless an install failed half way. *)
LaunchdAsInstalled ==
  platform = "darwin" => \A l \in Labels :
    torn \/ (\E x \in Procs : proc[x].cmd = "install" /\ LabelOf(x) = l) \/ loaded[l] = installed[l]

CommandsKept == ConfigAsAsked /\ CrontabAsInstalled /\ LaunchdAsInstalled /\ CronHonest
=============================================================================
