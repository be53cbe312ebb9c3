------------------------------ MODULE CliProofs -------------------------------
(***************************************************************************)
(* For any number of processes, directories, users, agents and polls: what *)
(* the commands have saved and installed is kept, up to the meetings and   *)
(* failures that spoil it, and cron expressions keep the pace of every     *)
(* interval that cron has a step for.                                      *)
(*                                                                         *)
(* The inductive invariants say where in its command a process is          *)
(* (Sound), what a copy of the configuration is worth (ConfigOK), and how  *)
(* far the installs of a label are (CrontabOK, LaunchdOK).                 *)
(***************************************************************************)
EXTENDS Cli, TLAPS

(* CliTypeOK without the processes. *)
TablesOK ==
  /\ file \in [Dirs -> Config] /\ asked \in [Dirs -> Config]
  /\ platform \in {"linux", "darwin"}
  /\ crontab \subseteq Lines \union {OtherLine}
  /\ plist \in [Labels -> Plists \union {NULL}] /\ loaded \in [Labels -> Plists \union {NULL}]
  /\ spoiled \subseteq Dirs /\ torn \in BOOLEAN
  /\ installed \in [Labels -> Lines \union Plists \union {NULL}]
  /\ commands \in Nat /\ failures \in Nat
  /\ registered \subseteq Agents /\ heard \subseteq registered
  /\ \A d \in Dirs : file[d].agent \in registered \union {NULL}

(* A process is where its command has a place for it. *)
Sound(k) ==
  /\ k.phase # "exited" => k.dir \in Dirs
  /\ k.phase = "begun" => k.user = NULL
  /\ k.phase = "calling" => k.cmd = "register"
  /\ k.phase = "loading" => \/ k.cmd = "login" /\ k.user \in Users
                            \/ k.cmd = "logout" /\ k.user = NULL
  /\ k.phase = "again" => k.cmd = "login"
  /\ k.phase \in {"loaded", "truncated"} => k.cmd \in Writers
  /\ k.phase \in {"reading", "read"} =>
       k.cmd = "install" /\ k.poll \in Polls /\ platform = "linux"
  /\ k.phase \in {"writing", "emptied", "filled", "unloaded"} =>
       k.cmd = "install" /\ k.poll \in Polls /\ platform = "darwin"

CliShape == CliTypeOK /\ \A x \in Procs : Sound(proc[x])

LEMMA ShapeParts ==
  CliShape <=> /\ TablesOK /\ proc \in [Procs -> Proc]
               /\ \A x \in Procs : Sound(proc[x]) /\ proc[x].copy.agent \in registered \union {NULL}
BY DEF CliShape, CliTypeOK, TablesOK

(* A step of one process, with tables that keep their types. *)
LEMMA ShapeKept ==
  ASSUME CliShape, NEW x \in Procs, NEW k \in Proc, Becomes(x, k),
         Sound(k), k.copy.agent \in registered' \union {NULL},
         TablesOK', platform' = platform, registered \subseteq registered'
  PROVE  CliShape'
<1>1. proc' \in [Procs -> Proc] /\ proc'[x] = k /\ \A y \in Procs \ {x} : proc'[y] = proc[y]
  BY ShapeParts DEF Becomes
<1>2. ASSUME NEW y \in Procs
      PROVE  Sound(proc[y])' /\ proc'[y].copy.agent \in registered' \union {NULL}
  <2>1. CASE y = x
    BY <1>1, <2>1 DEF Sound
  <2>2. CASE y # x
    <3>1. Sound(proc[y]) /\ proc[y].copy.agent \in registered \union {NULL} /\ proc'[y] = proc[y]
      BY <1>1, <2>2, ShapeParts
    <3> QED
      BY <3>1 DEF Sound
  <2> QED
    BY <2>1, <2>2
<1> QED
  BY <1>1, <1>2 DEF CliShape, CliTypeOK, TablesOK

LEMMA InitShape == Init => CliShape
<1> SUFFICES ASSUME Init PROVE CliShape
  OBVIOUS
<1> USE DEF Init
<1>1. Shell \in Config /\ Shell.agent = NULL
  BY DEF Shell, Config
<1>2. Exited \in Proc /\ Exited.phase = "exited" /\ Exited.copy = Shell
  BY <1>1 DEF Exited, Proc
<1>3. TablesOK
  BY <1>1 DEF TablesOK
<1>4. \A x \in Procs : Sound(proc[x])
  BY <1>2 DEF Sound
<1> QED
  BY <1>1, <1>2, <1>3, <1>4, ShapeParts

(* A new process begins in a directory, and one that exits is nothing.      *)
LEMMA ExitedFacts ==
  /\ Exited \in Proc /\ Sound(Exited) /\ Exited.copy.agent = NULL /\ Exited.phase = "exited"
  /\ Exited.user = NULL /\ Exited.poll = NULL /\ Exited.lines = {} /\ Exited.copy \in Config
BY DEF Exited, Proc, Sound, Shell, Config

LEMMA BeginShape ==
  ASSUME CliShape, NEW x \in Procs, NEW cmd \in Commands, NEW d \in Dirs, Begin(x, cmd, d)
  PROVE  CliShape'
<1> DEFINE k == [Exited EXCEPT !.cmd = cmd, !.dir = d, !.phase = "begun"]
<1>1. k \in Proc
  BY ExitedFacts DEF Exited, Proc, Commands, Writers
<1>2. Sound(k) /\ k.copy.agent = NULL
  BY ExitedFacts DEF Exited, Sound
<1>3. Becomes(x, k)
  BY DEF Begin
<1>4. TablesOK' /\ platform' = platform /\ registered' = registered
  BY ShapeParts DEF Begin, files, jobs, history, TablesOK
<1> HIDE DEF k
<1> QED
  BY <1>1, <1>2, <1>3, <1>4, ShapeKept

LEMMA BeginInstallShape ==
  ASSUME CliShape, NEW x \in Procs, NEW d \in Dirs, NEW q \in Polls, BeginInstall(x, d, q)
  PROVE  CliShape'
<1> DEFINE k == [Exited EXCEPT !.cmd = "install", !.dir = d, !.poll = q,
                              !.phase = IF platform = "linux" THEN "reading" ELSE "writing"]
<1>1. k \in Proc
  BY ExitedFacts DEF Exited, Proc
<1>2. platform \in {"linux", "darwin"}
  BY ShapeParts DEF TablesOK
<1>3. Sound(k) /\ k.copy.agent = NULL
  BY <1>2, ExitedFacts DEF Exited, Sound
<1>4. Becomes(x, k)
  BY DEF BeginInstall
<1>5. TablesOK' /\ platform' = platform /\ registered' = registered
  BY ShapeParts DEF BeginInstall, files, jobs, history, TablesOK
<1> HIDE DEF k
<1> QED
  BY <1>1, <1>3, <1>4, <1>5, ShapeKept

LEMMA FireShape ==
  ASSUME CliShape, NEW x \in Procs, NEW job, Fire(x, job)
  PROVE  CliShape'
<1> DEFINE k == [Exited EXCEPT !.cmd = "work", !.phase = "begun",
                              !.dir = IF platform = "linux" THEN Home ELSE Root]
<1>1. k \in Proc
  BY ExitedFacts, CliAssumption DEF Exited, Proc
<1>2. Sound(k) /\ k.copy.agent = NULL
  BY ExitedFacts, CliAssumption DEF Exited, Sound
<1>3. Becomes(x, k)
  BY DEF Fire
<1>4. TablesOK' /\ platform' = platform /\ registered' = registered
  BY ShapeParts DEF Fire, files, jobs, history, TablesOK
<1> HIDE DEF k
<1> QED
  BY <1>1, <1>2, <1>3, <1>4, ShapeKept

LEMMA TablesSame ==
  ASSUME CliShape, UNCHANGED <<files, registered, heard, history, commands, failures>>
  PROVE  TablesOK' /\ platform' = platform /\ registered \subseteq registered'
BY ShapeParts DEF files, jobs, history, TablesOK

LEMMA ProcFacts ==
  ASSUME CliShape, NEW x \in Procs
  PROVE  /\ proc[x] \in Proc /\ Sound(proc[x]) /\ proc[x].copy \in Config
         /\ proc[x].copy.agent \in registered \union {NULL}
         /\ proc[x].dir \in Dirs => /\ file[proc[x].dir] \in Config
                                   /\ file[proc[x].dir].agent \in registered \union {NULL}
BY ShapeParts DEF Proc, TablesOK

LEMMA ExitShape ==
  ASSUME CliShape, NEW x \in Procs, Exits(x), TablesOK', platform' = platform, registered \subseteq registered'
  PROVE  CliShape'
BY ExitedFacts, ShapeKept DEF Exits

LEMMA ConfigShape ==
  ASSUME CliShape, NEW x \in Procs,
         \/ \E u \in Users : Login(x, u)
         \/ Logout(x) \/ UpdateConfig(x) \/ RegisterLoad(x)
  PROVE  CliShape'
<1>1. /\ proc[x] \in Proc /\ Sound(proc[x]) /\ proc[x].copy \in Config
      /\ proc[x].copy.agent \in registered \union {NULL}
  BY ProcFacts
<1>2. TablesOK' /\ platform' = platform /\ registered \subseteq registered' /\ registered' = registered
  BY TablesSame DEF Login, Logout, UpdateConfig, RegisterLoad
<1>3. ~At(x, "exited")
  BY DEF Login, Logout, UpdateConfig, RegisterLoad, At
<1>4. /\ proc[x].dir \in Dirs /\ file[proc[x].dir] \in Config
      /\ file[proc[x].dir].agent \in registered \union {NULL}
  BY <1>1, <1>3, ProcFacts DEF Sound, At
<1>5. ASSUME NEW u \in Users, Login(x, u) PROVE CliShape'
  <2> DEFINE k == [proc[x] EXCEPT !.user = u, !.phase = "loading"]
  <2>1. k \in Proc /\ k.copy = proc[x].copy
    BY <1>1 DEF Proc
  <2>2. Sound(k)
    BY <1>1, <1>4, <1>5 DEF Proc, Sound, Login
  <2>3. Becomes(x, k)
    BY <1>5 DEF Login
  <2> HIDE DEF k
  <2> QED
    BY <1>1, <1>2, <2>1, <2>2, <2>3, ShapeKept
<1>6. CASE Logout(x)
  <2> DEFINE k == [proc[x] EXCEPT !.phase = "loading"]
  <2>1. k \in Proc /\ k.copy = proc[x].copy
    BY <1>1 DEF Proc
  <2>2. Sound(k)
    BY <1>1, <1>4, <1>6 DEF Proc, Sound, Logout, At
  <2>3. Becomes(x, k) \/ Exits(x)
    BY <1>6 DEF Logout, Proceeds
  <2> HIDE DEF k
  <2> QED
    BY <1>1, <1>2, <2>1, <2>2, <2>3, ShapeKept, ExitShape
<1>7. CASE UpdateConfig(x)
  <2> DEFINE current == file[proc[x].dir]
             c == IF At(x, "loading") THEN [current EXCEPT !.session = proc[x].user] ELSE current
             k == [proc[x] EXCEPT !.copy = c,
                                  !.user = IF At(x, "again") THEN NULL ELSE proc[x].user,
                                  !.phase = "loaded"]
  <2>1. proc[x].user \in Users \union {NULL}
    BY <1>1 DEF Proc
  <2>2. c \in Config /\ c.agent \in registered \union {NULL}
    BY <1>4, <2>1 DEF Config
  <2>3. k \in Proc /\ k.copy = c /\ k.phase = "loaded" /\ k.cmd = proc[x].cmd /\ k.dir = proc[x].dir
    <3> HIDE DEF c
    <3> QED
      BY <1>1, <2>1, <2>2 DEF Proc
  <2>4. proc[x].cmd \in Writers
    BY <1>1, <1>7 DEF UpdateConfig, At, Sound, Writers
  <2>5. Becomes(x, k)
    BY <1>7 DEF UpdateConfig
  <2> HIDE DEF k, c
  <2>6. Sound(k)
    BY <1>4, <2>3, <2>4 DEF Sound
  <2> QED
    BY <1>2, <2>2, <2>3, <2>5, <2>6, ShapeKept
<1>8. CASE RegisterLoad(x)
  <2> DEFINE k == [proc[x] EXCEPT !.copy = file[proc[x].dir], !.phase = "calling"]
  <2>1. k \in Proc /\ k.copy = file[proc[x].dir]
    BY <1>1, <1>4 DEF Proc
  <2>2. Sound(k)
    BY <1>1, <1>4, <1>8 DEF Proc, Sound, RegisterLoad
  <2>3. Becomes(x, k) \/ Exits(x)
    BY <1>8 DEF RegisterLoad
  <2> HIDE DEF k
  <2> QED
    BY <1>2, <1>4, <2>1, <2>2, <2>3, ShapeKept, ExitShape
<1> QED
  BY <1>5, <1>6, <1>7, <1>8

LEMMA RegisterCallShape ==
  ASSUME CliShape, NEW x \in Procs, NEW a \in Agents, RegisterCall(x, a)
  PROVE  CliShape'
<1> DEFINE k == [proc[x] EXCEPT !.copy.agent = a, !.phase = "loaded"]
<1>1. proc[x] \in Proc /\ Sound(proc[x]) /\ proc[x].copy \in Config
  BY ProcFacts
<1>2. [proc[x].copy EXCEPT !.agent = a] \in Config /\ [proc[x].copy EXCEPT !.agent = a].agent = a
  BY <1>1 DEF Config
<1>3. k = [proc[x] EXCEPT !.copy = [proc[x].copy EXCEPT !.agent = a], !.phase = "loaded"]
  BY <1>1 DEF Proc
<1>4. k \in Proc /\ k.copy.agent = a
  BY <1>1, <1>2, <1>3 DEF Proc
<1>5. Sound(k)
  BY <1>1 DEF RegisterCall, At, Proc, Sound, Writers
<1>6. Becomes(x, k) /\ registered' = registered \union {a} /\ platform' = platform
  BY DEF RegisterCall, files
<1>7. TablesOK'
  BY ShapeParts DEF RegisterCall, files, jobs, history, TablesOK
<1> HIDE DEF k
<1> QED
  BY <1>4, <1>5, <1>6, <1>7, ShapeKept

LEMMA SaveShape ==
  ASSUME CliShape, NEW x \in Procs, Truncate(x) \/ Write(x)
  PROVE  CliShape'
<1>1. /\ proc[x] \in Proc /\ Sound(proc[x]) /\ proc[x].copy \in Config
      /\ proc[x].copy.agent \in registered \union {NULL} /\ proc[x].dir \in Dirs
  BY ProcFacts DEF Truncate, Write, At, Sound
<1>2. Shell \in Config /\ Shell.agent = NULL
  BY DEF Shell, Config
<1>3. /\ file \in [Dirs -> Config] /\ asked \in [Dirs -> Config] /\ spoiled \subseteq Dirs
      /\ \A d \in Dirs : file[d].agent \in registered \union {NULL}
  BY ShapeParts DEF TablesOK
<1>4. UNCHANGED <<platform, jobs, registered, heard, installed, torn, commands, failures>>
  BY DEF Truncate, Write
<1>5. spoiled' \subseteq Dirs
  BY <1>1, <1>3 DEF Truncate, Write, Spoils
<1>6. PICK content \in Config : /\ content.agent \in registered \union {NULL}
                               /\ file' = [file EXCEPT ![proc[x].dir] = content]
  BY <1>1, <1>2 DEF Truncate, Write
<1>7. file' \in [Dirs -> Config] /\ \A d \in Dirs : file'[d].agent \in registered \union {NULL}
  BY <1>1, <1>3, <1>6
<1>8. asked' \in [Dirs -> Config]
  <2>1. asked[proc[x].dir] \in Config /\ proc[x].user \in Users \union {NULL}
    BY <1>1, <1>3 DEF Proc
  <2>2. Ask(x) \in Config
    BY <1>1, <2>1 DEF Ask, Config
  <2> QED
    BY <1>3, <2>2 DEF Truncate, Write
<1>9. TablesOK'
  BY <1>4, <1>5, <1>7, <1>8, ShapeParts DEF TablesOK, jobs
<1>10. ASSUME NEW p \in {"truncated", "again"}, Proceeds(x, p),
              p = "truncated" => proc[x].cmd \in Writers, p = "again" => proc[x].cmd = "login"
       PROVE  CliShape'
  <2> DEFINE k == [proc[x] EXCEPT !.phase = p]
  <2>1. k \in Proc /\ k.copy = proc[x].copy
    BY <1>1 DEF Proc
  <2>2. Sound(k)
    BY <1>1, <1>10 DEF Proc, Sound
  <2>3. Becomes(x, k)
    BY <1>10 DEF Proceeds
  <2> HIDE DEF k
  <2> QED
    BY <1>1, <1>4, <1>9, <2>1, <2>2, <2>3, ShapeKept
<1>11. CASE Truncate(x)
  BY <1>1, <1>10, <1>11 DEF Truncate, At, Sound
<1>12. CASE Write(x)
  BY <1>4, <1>9, <1>10, <1>12, ExitShape DEF Write
<1> QED
  BY <1>11, <1>12

LEMMA WorkShape ==
  ASSUME CliShape, NEW x \in Procs, Work(x)
  PROVE  CliShape'
<1>1. proc[x].dir \in Dirs /\ file[proc[x].dir].agent \in registered \union {NULL}
  BY ProcFacts DEF Work, At, Sound
<1>2. heard' \subseteq registered
  BY <1>1, ShapeParts DEF Work, TablesOK
<1>3. TablesOK' /\ platform' = platform /\ registered' = registered
  BY <1>2, ShapeParts DEF Work, files, jobs, history, TablesOK
<1> QED
  BY <1>3, ExitShape DEF Work

LEMMA CrontabShape ==
  ASSUME CliShape, NEW x \in Procs, ReadCurrentCrontab(x) \/ ReadNothing(x) \/ InstallLine(x)
  PROVE  CliShape'
<1>1. /\ proc[x] \in Proc /\ Sound(proc[x]) /\ proc[x].copy.agent \in registered \union {NULL}
      /\ proc[x].lines \subseteq Lines \union {OtherLine}
  BY ProcFacts DEF Proc
<1>2. crontab \subseteq Lines \union {OtherLine} /\ failures \in Nat
  BY ShapeParts DEF TablesOK
<1>3. ASSUME NEW lines \in SUBSET (Lines \union {OtherLine}), At(x, "reading"),
             Becomes(x, [proc[x] EXCEPT !.lines = lines, !.phase = "read"]),
             TablesOK', platform' = platform, registered' = registered
      PROVE  CliShape'
  <2> DEFINE k == [proc[x] EXCEPT !.lines = lines, !.phase = "read"]
  <2>1. k \in Proc /\ k.copy = proc[x].copy
    BY <1>1, <1>3 DEF Proc
  <2>2. Sound(k)
    BY <1>1, <1>3 DEF Proc, Sound, At
  <2>3. Becomes(x, k)
    BY <1>3
  <2> HIDE DEF k
  <2> QED
    BY <1>1, <1>3, <2>1, <2>2, <2>3, ShapeKept
<1>4. CASE ReadCurrentCrontab(x)
  <2>1. TablesOK' /\ platform' = platform /\ registered' = registered
    BY <1>4, TablesSame DEF ReadCurrentCrontab
  <2> QED
    BY <1>2, <1>3, <1>4, <2>1 DEF ReadCurrentCrontab
<1>5. CASE ReadNothing(x)
  <2>1. TablesOK' /\ platform' = platform /\ registered' = registered
    BY <1>5, ShapeParts DEF ReadNothing, Failing, TablesOK, files, jobs
  <2>2. [proc[x] EXCEPT !.phase = "read"] = [proc[x] EXCEPT !.lines = proc[x].lines, !.phase = "read"]
    BY <1>1 DEF Proc
  <2> QED
    BY <1>1, <1>3, <1>5, <2>1, <2>2 DEF ReadNothing, Proceeds
<1>6. CASE InstallLine(x)
  <2> DEFINE line == Line(proc[x].poll)
  <2>1. proc[x].poll \in Polls
    BY <1>1, <1>6 DEF InstallLine, At, Sound
  <2>2. line \in Lines /\ line.label \in Labels
    BY <2>1 DEF Line, Lines, Job, Labels
  <2>3. crontab' = {l \in proc[x].lines : l.label # line.label} \union {line}
        /\ installed' = [installed EXCEPT ![line.label] = line] /\ torn' \in BOOLEAN
    BY <1>6 DEF InstallLine
  <2> HIDE DEF line
  <2>4. crontab' \subseteq Lines \union {OtherLine} /\ installed' \in [Labels -> Lines \union Plists \union {NULL}]
    BY <1>1, <2>2, <2>3, ShapeParts DEF TablesOK
  <2>5. UNCHANGED <<platform, file, plist, loaded, registered, heard, asked, spoiled, commands, failures>>
    BY <1>6 DEF InstallLine
  <2>6. TablesOK'
    BY <2>3, <2>4, <2>5, ShapeParts DEF TablesOK
  <2> QED
    BY <1>6, <2>5, <2>6, ExitShape DEF InstallLine
<1> QED
  BY <1>4, <1>5, <1>6

LEMMA LaunchdShape ==
  ASSUME CliShape, NEW x \in Procs,
         TruncatePlist(x) \/ WritePlist(x) \/ Unload(x) \/ Load(x)
  PROVE  CliShape'
<1> DEFINE l == LabelOf(x)
           b == BuildPlist(proc[x].poll)
<1>1. /\ proc[x] \in Proc /\ Sound(proc[x]) /\ proc[x].copy.agent \in registered \union {NULL}
      /\ proc[x].poll \in Polls /\ proc[x].cmd = "install" /\ platform = "darwin" /\ proc[x].dir \in Dirs
  BY ProcFacts DEF TruncatePlist, WritePlist, Unload, Load, At, Sound
<1>2. l \in Labels /\ b \in Plists
  BY <1>1 DEF LabelOf, Labels, Plists
<1>3. /\ plist \in [Labels -> Plists \union {NULL}] /\ loaded \in [Labels -> Plists \union {NULL}]
      /\ installed \in [Labels -> Lines \union Plists \union {NULL}] /\ torn \in BOOLEAN /\ failures \in Nat
  BY ShapeParts DEF TablesOK
<1>4. UNCHANGED <<platform, file, crontab, registered, heard, asked, spoiled, commands>>
  BY DEF TruncatePlist, WritePlist, Unload, Load, history
<1>5. plist' \in [Labels -> Plists \union {NULL}]
  BY <1>2, <1>3 DEF TruncatePlist, WritePlist, Unload, Load
<1>6. installed' \in [Labels -> Lines \union Plists \union {NULL}]
  BY <1>2, <1>3 DEF TruncatePlist, WritePlist, Unload, Load, history
<1>7. loaded' \in [Labels -> Plists \union {NULL}]
  <2>1. CASE TruncatePlist(x) \/ WritePlist(x)
    BY <1>3, <2>1 DEF TruncatePlist, WritePlist
  <2>2. CASE Unload(x)
    BY <1>2, <1>3, <2>2 DEF Unload
  <2>3. CASE Load(x)
    BY <1>2, <1>3, <2>3 DEF Load
  <2> QED
    BY <2>1, <2>2, <2>3
<1>8. torn' \in BOOLEAN /\ failures' \in Nat
  <2>1. UNCHANGED <<torn, failures>> \/ (torn' = TRUE /\ failures' = failures + 1)
    BY DEF TruncatePlist, WritePlist, Unload, Load, Failing, history
  <2>2. torn' \in BOOLEAN
    BY <1>3, <2>1, Zenon
  <2>3. failures' \in Nat
    BY <1>3, <2>1
  <2> QED
    BY <2>2, <2>3
<1>9. TablesOK'
  BY <1>4, <1>5, <1>6, <1>7, <1>8, ShapeParts DEF TablesOK
<1> HIDE DEF l, b
<1>10. ASSUME NEW p \in {"emptied", "filled", "unloaded"}, Proceeds(x, p) PROVE CliShape'
  <2> DEFINE k == [proc[x] EXCEPT !.phase = p]
  <2>1. k \in Proc /\ k.copy = proc[x].copy
    BY <1>1 DEF Proc
  <2>2. Sound(k)
    BY <1>1, <1>10 DEF Proc, Sound
  <2>3. Becomes(x, k)
    BY <1>10 DEF Proceeds
  <2> HIDE DEF k
  <2> QED
    BY <1>1, <1>4, <1>9, <2>1, <2>2, <2>3, ShapeKept
<1> QED
  BY <1>4, <1>9, <1>10, ExitShape DEF TruncatePlist, WritePlist, Unload, Load

LEMMA StopShape ==
  ASSUME CliShape, NEW x \in Procs, Stop(x)
  PROVE  CliShape'
<1>1. registered \subseteq registered' /\ registered' \subseteq Agents
  BY ShapeParts DEF Stop, TablesOK
<1>2. spoiled' \subseteq Dirs
  BY ProcFacts, ShapeParts DEF Stop, At, Sound, TablesOK
<1>3. torn' \in BOOLEAN /\ failures' \in Nat
  BY ShapeParts DEF Stop, Failing, TablesOK
<1>4. UNCHANGED <<platform, file, crontab, plist, loaded, heard, asked, installed, commands>> /\ Exits(x)
  BY DEF Stop, files, jobs
<1>5. TablesOK'
  BY <1>1, <1>2, <1>3, <1>4, ShapeParts DEF TablesOK
<1> QED
  BY <1>1, <1>4, <1>5, ExitShape

LEMMA StepShape == CliShape /\ [Next]_vars => CliShape'
<1> SUFFICES ASSUME CliShape, [Next]_vars PROVE CliShape'
  OBVIOUS
<1>1. CASE UNCHANGED vars
  <2>1. UNCHANGED <<files, registered, heard, history, commands, failures>> /\ proc' = proc
    BY <1>1 DEF vars
  <2>2. TablesOK' /\ platform' = platform /\ registered' = registered
    BY <2>1, TablesSame
  <2> QED
    BY <2>1, <2>2, ShapeParts DEF CliShape, CliTypeOK, TablesOK, Sound
<1>2. ASSUME NEW x \in Procs, Runs(x) PROVE CliShape'
  BY <1>2, ConfigShape, RegisterCallShape, SaveShape, WorkShape, CrontabShape, LaunchdShape DEF Runs
<1>3. ASSUME NEW x \in Procs, NEW job, Fire(x, job) PROVE CliShape'
  BY <1>3, FireShape
<1>4. ASSUME NEW x \in Procs, Stop(x) PROVE CliShape'
  BY <1>4, StopShape
<1> QED
  BY <1>1, <1>2, <1>3, <1>4, BeginShape, BeginInstallShape DEF Next

LEMMA ShapeAlways == Spec => []CliShape
BY InitShape, StepShape, PTL DEF Spec

(* Configurations, jobs and processes keep their types, and every token     *)
(* that a file keeps or a command uses is one that the server gave out.     *)
THEOREM CliTypeCorrect == Spec => []CliTypeOK
<1>1. CliShape => CliTypeOK
  BY DEF CliShape
<1> QED
  BY <1>1, ShapeAlways, PTL
-----------------------------------------------------------------------------
(* Configurations *)

Truncated(d) == \E y \in Procs : At(y, "truncated") /\ proc[y].dir = d
OtherTruncated(x) == \E y \in Procs \ {x} : At(y, "truncated") /\ proc[y].dir = proc[x].dir

(* What the file would hold if the command of x wrote its copy now.         *)
Intended(x) == IF At(x, "calling") THEN asked[proc[x].dir] ELSE Ask(x)

(* Where nothing is spoiled the file holds what was asked for, unless it is *)
(* being written, and a copy is what was asked for with the command's own   *)
(* change, unless it was read from a file that is being written.            *)
ConfigOK ==
  \A d \in Dirs : d \notin spoiled =>
    /\ Truncated(d) \/ file[d] = asked[d]
    /\ \A x \in Procs : HasCopy(x) /\ proc[x].dir = d =>
         OtherTruncated(x) \/ proc[x].copy = Intended(x)

LEMMA InitConfig == Init => ConfigOK
<1> SUFFICES ASSUME Init PROVE ConfigOK
  OBVIOUS
<1>1. \A x \in Procs : ~HasCopy(x)
  BY ExitedFacts DEF Init, HasCopy
<1> QED
  BY <1>1 DEF Init, ConfigOK

(* A step of one process that leaves the files alone: what it was writing   *)
(* is spoiled, and what it copies is the file.                              *)
LEMMA ConfigKept ==
  ASSUME CliShape, ConfigOK, NEW x \in Procs, UNCHANGED <<file, asked>>,
         \A y \in Procs \ {x} : proc'[y] = proc[y],
         spoiled \subseteq spoiled',
         At(x, "truncated") => proc[x].dir \in spoiled',
         HasCopy(x)' => \/ proc'[x].dir \in spoiled' \/ OtherTruncated(x)'
                       \/ proc'[x].copy = Intended(x)'
  PROVE  ConfigOK'
<1> SUFFICES ASSUME NEW d \in Dirs, d \notin spoiled'
             PROVE  /\ Truncated(d)' \/ file'[d] = asked'[d]
                    /\ \A y \in Procs : HasCopy(y)' /\ proc'[y].dir = d =>
                         OtherTruncated(y)' \/ proc'[y].copy = Intended(y)'
  BY DEF ConfigOK
<1>1. /\ Truncated(d) \/ file[d] = asked[d]
      /\ \A y \in Procs : HasCopy(y) /\ proc[y].dir = d =>
           OtherTruncated(y) \/ proc[y].copy = Intended(y)
  BY DEF ConfigOK
<1>2. \A y \in Procs : At(y, "truncated") /\ proc[y].dir = d => y # x /\ proc'[y] = proc[y]
  OBVIOUS
<1>3. Truncated(d)' \/ file'[d] = asked'[d]
  <2>1. CASE Truncated(d)
    BY <1>2, <2>1 DEF Truncated, At
  <2>2. CASE file[d] = asked[d]
    BY <2>2
  <2> QED
    BY <1>1, <2>1, <2>2
<1>4. ASSUME NEW y \in Procs, HasCopy(y)', proc'[y].dir = d
      PROVE  OtherTruncated(y)' \/ proc'[y].copy = Intended(y)'
  <2>1. CASE y = x
    BY <1>4, <2>1
  <2>2. CASE y # x
    <3>1. proc'[y] = proc[y] /\ HasCopy(y) /\ proc[y].dir = d
      BY <1>4, <2>2 DEF HasCopy, At
    <3>2. CASE OtherTruncated(y)
      BY <1>2, <3>1, <3>2 DEF OtherTruncated, At
    <3>3. CASE proc[y].copy = Intended(y)
      <4>1. Intended(y)' = Intended(y)
        BY <3>1 DEF Intended, Ask, At
      <4> QED
        BY <3>1, <3>3, <4>1
    <3> QED
      BY <1>1, <3>1, <3>2, <3>3
  <2> QED
    BY <2>1, <2>2
<1> QED
  BY <1>3, <1>4

(* A step without files and without a copy at its end. *)
LEMMA ConfigUntouched ==
  ASSUME CliShape, ConfigOK, NEW x \in Procs, UNCHANGED <<file, asked, spoiled>>,
         NEW k, Becomes(x, k), ~At(x, "truncated"),
         k.phase \notin {"calling", "loaded", "truncated"}
  PROVE  ConfigOK'
<1>1. proc'[x] = k /\ \A y \in Procs \ {x} : proc'[y] = proc[y]
  BY ShapeParts DEF Becomes
<1>2. ~HasCopy(x)'
  BY <1>1 DEF HasCopy
<1> QED
  BY <1>1, <1>2, ConfigKept

(* A step that ends with a copy, which is right if the file is.             *)
LEMMA CopyKept ==
  ASSUME CliShape, ConfigOK, NEW x \in Procs, UNCHANGED <<file, asked, spoiled>>,
         NEW k, Becomes(x, k), ~At(x, "truncated"), k.dir = proc[x].dir,
         Truncated(proc[x].dir) \/ proc[x].dir \in spoiled \/ k.copy = Intended(x)'
  PROVE  ConfigOK'
<1>1. proc'[x] = k /\ \A y \in Procs \ {x} : proc'[y] = proc[y]
  BY ShapeParts DEF Becomes
<1>2. Truncated(proc[x].dir) => OtherTruncated(x)'
  <2> SUFFICES ASSUME Truncated(proc[x].dir) PROVE OtherTruncated(x)'
    OBVIOUS
  <2>1. PICK y \in Procs : At(y, "truncated") /\ proc[y].dir = proc[x].dir
    BY DEF Truncated
  <2>2. y # x /\ proc'[y] = proc[y]
    BY <1>1, <2>1
  <2> QED
    BY <1>1, <2>1, <2>2 DEF OtherTruncated, At
<1>3. \/ proc'[x].dir \in spoiled' \/ OtherTruncated(x)'
      \/ proc'[x].copy = Intended(x)'
  BY <1>1, <1>2
<1> QED
  BY <1>1, <1>3, ConfigKept

LEMMA UpdateConfigOK ==
  ASSUME CliShape, ConfigOK, NEW x \in Procs, UpdateConfig(x)
  PROVE  ConfigOK'
<1> DEFINE d == proc[x].dir
           current == file[d]
           c == IF At(x, "loading") THEN [current EXCEPT !.session = proc[x].user] ELSE current
           k == [proc[x] EXCEPT !.copy = c,
                                !.user = IF At(x, "again") THEN NULL ELSE proc[x].user,
                                !.phase = "loaded"]
<1>1. /\ proc[x] \in Proc /\ Sound(proc[x]) /\ d \in Dirs /\ current \in Config
      /\ At(x, "loading") \/ At(x, "again")
  BY ProcFacts DEF UpdateConfig, At, Sound
<1>2. Becomes(x, k) /\ UNCHANGED <<file, asked, spoiled>>
  BY DEF UpdateConfig, files, history
<1>3. /\ k.dir = d /\ k.copy = c /\ k.phase = "loaded" /\ k.cmd = proc[x].cmd
      /\ k.user = IF At(x, "again") THEN NULL ELSE proc[x].user
  <2> HIDE DEF c, d
  <2> QED
    BY <1>1 DEF Proc, d
<1>4. proc'[x] = k
  BY <1>2, ShapeParts DEF Becomes
<1> HIDE DEF k
<1>5. ASSUME file[d] = asked[d] PROVE k.copy = Intended(x)'
  <2>1. Intended(x)' = CASE k.cmd = "register" -> [asked[d] EXCEPT !.agent = k.copy.agent]
                         [] k.cmd = "login" /\ k.user # NULL -> [asked[d] EXCEPT !.session = k.user]
                         [] k.cmd = "logout" -> [asked[d] EXCEPT !.session = NULL]
                         [] OTHER -> asked[d]
    BY <1>2, <1>3, <1>4 DEF Intended, Ask, At
  <2>2. CASE At(x, "loading") /\ proc[x].cmd = "login"
    <3>1. k.user \in Users /\ k.user # NULL /\ k.cmd = "login"
      BY <1>1, <1>3, <2>2, CliAssumption DEF At, Sound
    <3>2. k.copy = [asked[d] EXCEPT !.session = k.user]
      BY <1>3, <1>5, <2>2 DEF At
    <3> QED
      BY <2>1, <3>1, <3>2
  <2>3. CASE At(x, "loading") /\ proc[x].cmd = "logout"
    <3>1. k.user = NULL /\ k.cmd = "logout"
      BY <1>1, <1>3, <2>3 DEF At, Sound
    <3>2. k.copy = [asked[d] EXCEPT !.session = NULL]
      BY <1>3, <1>5, <2>3, <3>1 DEF At
    <3> QED
      BY <2>1, <3>1, <3>2
  <2>4. CASE At(x, "again")
    <3>1. k.user = NULL /\ k.cmd = "login"
      BY <1>1, <1>3, <2>4 DEF At, Sound
    <3>2. k.copy = asked[d]
      BY <1>3, <1>5, <2>4 DEF At
    <3> QED
      BY <2>1, <3>1, <3>2
  <2>5. At(x, "loading") => proc[x].cmd \in {"login", "logout"}
    BY <1>1 DEF At, Sound
  <2> QED
    BY <1>1, <2>2, <2>3, <2>4, <2>5
<1>6. Truncated(d) \/ d \in spoiled \/ file[d] = asked[d]
  BY <1>1 DEF ConfigOK
<1>7. ~At(x, "truncated")
  BY <1>1 DEF At
<1> QED
  BY <1>2, <1>3, <1>5, <1>6, <1>7, CopyKept

LEMMA RegisterLoadOK ==
  ASSUME CliShape, ConfigOK, NEW x \in Procs, RegisterLoad(x)
  PROVE  ConfigOK'
<1> DEFINE d == proc[x].dir
           k == [proc[x] EXCEPT !.copy = file[d], !.phase = "calling"]
<1>1. /\ proc[x] \in Proc /\ Sound(proc[x]) /\ d \in Dirs /\ At(x, "begun") /\ ~At(x, "truncated")
  BY ProcFacts DEF RegisterLoad, At, Sound
<1>2. UNCHANGED <<file, asked, spoiled>> /\ (Becomes(x, k) \/ Exits(x))
  BY DEF RegisterLoad, files, history
<1>3. CASE Exits(x)
  BY <1>1, <1>2, <1>3, ExitedFacts, ConfigUntouched DEF Exits
<1>4. CASE Becomes(x, k)
  <2>1. k.dir = d /\ k.copy = file[d] /\ k.phase = "calling"
    BY <1>1 DEF Proc
  <2>2. proc'[x] = k
    BY <1>4, ShapeParts DEF Becomes
  <2> HIDE DEF k
  <2>3. Intended(x)' = asked[d]
    BY <1>2, <2>1, <2>2 DEF Intended, At
  <2>4. Truncated(d) \/ d \in spoiled \/ file[d] = asked[d]
    BY <1>1 DEF ConfigOK
  <2> QED
    BY <1>1, <1>2, <1>4, <2>1, <2>3, <2>4, CopyKept
<1> QED
  BY <1>2, <1>3, <1>4

LEMMA RegisterCallOK ==
  ASSUME CliShape, ConfigOK, NEW x \in Procs, NEW a \in Agents, RegisterCall(x, a)
  PROVE  ConfigOK'
<1> DEFINE d == proc[x].dir
           k == [proc[x] EXCEPT !.copy.agent = a, !.phase = "loaded"]
<1>1. /\ proc[x] \in Proc /\ proc[x].copy \in Config /\ d \in Dirs /\ At(x, "calling")
      /\ proc[x].cmd = "register" /\ ~At(x, "truncated")
  BY ProcFacts DEF RegisterCall, At, Sound
<1>2. UNCHANGED <<file, asked, spoiled>> /\ Becomes(x, k)
  BY DEF RegisterCall, files, history
<1>3. k.dir = d /\ k.copy = [proc[x].copy EXCEPT !.agent = a] /\ k.copy.agent = a
      /\ k.phase = "loaded" /\ k.cmd = "register"
  BY <1>1 DEF Proc, Config
<1>4. proc'[x] = k
  BY <1>2, ShapeParts DEF Becomes
<1> HIDE DEF k
<1>5. ASSUME proc[x].copy = asked[d] PROVE k.copy = Intended(x)'
  <2>1. Intended(x)' = [asked[d] EXCEPT !.agent = k.copy.agent]
    BY <1>2, <1>3, <1>4 DEF Intended, Ask, At
  <2> QED
    BY <1>3, <1>5, <2>1
<1>6. d \in spoiled \/ OtherTruncated(x) \/ proc[x].copy = asked[d]
  <2>1. HasCopy(x)
    BY <1>1 DEF HasCopy, At, Writers
  <2>2. Intended(x) = asked[d]
    BY <1>1 DEF Intended
  <2> QED
    BY <1>1, <2>1, <2>2 DEF ConfigOK
<1>7. OtherTruncated(x) => Truncated(d)
  BY DEF OtherTruncated, Truncated
<1> QED
  BY <1>1, <1>2, <1>3, <1>5, <1>6, <1>7, CopyKept

(* A writer that meets another one's copy spoils the directory; where it    *)
(* meets none its copy is what was asked for.                               *)
LEMMA TruncateOK ==
  ASSUME CliShape, ConfigOK, NEW x \in Procs, Truncate(x)
  PROVE  ConfigOK'
<1> DEFINE e == proc[x].dir
           k == [proc[x] EXCEPT !.phase = "truncated"]
<1>1. /\ proc[x] \in Proc /\ Sound(proc[x]) /\ e \in Dirs /\ At(x, "loaded") /\ proc[x].cmd \in Writers
  BY ProcFacts DEF Truncate, At, Sound
<1>2. proc'[x] = k /\ asked' = asked /\ \A y \in Procs \ {x} : proc'[y] = proc[y]
  BY ShapeParts DEF Truncate, Proceeds, Becomes
<1>3. k.dir = e /\ k.phase = "truncated" /\ k.copy = proc[x].copy /\ k.cmd = proc[x].cmd /\ k.user = proc[x].user
  BY <1>1 DEF Proc
<1>4. spoiled \subseteq spoiled' /\ (Meets(x) => e \in spoiled')
  BY DEF Truncate, Spoils
<1>5. \A d \in Dirs : d # e => file'[d] = file[d]
  BY ShapeParts DEF Truncate, TablesOK
<1> HIDE DEF k
<1> SUFFICES ASSUME NEW d \in Dirs, d \notin spoiled'
             PROVE  /\ Truncated(d)' \/ file'[d] = asked'[d]
                    /\ \A y \in Procs : HasCopy(y)' /\ proc'[y].dir = d =>
                         OtherTruncated(y)' \/ proc'[y].copy = Intended(y)'
  BY DEF ConfigOK
<1>6. d \notin spoiled
  BY <1>4
<1>7. Truncated(d)' \/ file'[d] = asked'[d]
  <2>1. CASE d = e
    BY <1>2, <1>3, <2>1 DEF Truncated, At
  <2>2. CASE d # e
    <3>1. CASE Truncated(d)
      <4>1. PICK y \in Procs : At(y, "truncated") /\ proc[y].dir = d
        BY <3>1 DEF Truncated
      <4>2. proc'[y] = proc[y]
        BY <1>2, <2>2, <4>1
      <4> QED
        BY <4>1, <4>2 DEF Truncated, At
    <3>2. CASE file[d] = asked[d]
      BY <1>2, <1>5, <2>2, <3>2
    <3> QED
      BY <1>6, <3>1, <3>2 DEF ConfigOK
  <2> QED
    BY <2>1, <2>2
<1>8. ASSUME NEW y \in Procs, HasCopy(y)', proc'[y].dir = d
      PROVE  OtherTruncated(y)' \/ proc'[y].copy = Intended(y)'
  <2>1. CASE y = x
    <3>1. HasCopy(x) /\ e = d
      BY <1>1, <1>2, <1>3, <1>8, <2>1 DEF HasCopy, At
    <3>2. OtherTruncated(x) \/ proc[x].copy = Intended(x)
      BY <1>6, <3>1 DEF ConfigOK
    <3>3. OtherTruncated(x) => OtherTruncated(x)'
      BY <1>2, <1>3 DEF OtherTruncated, At
    <3>4. Intended(x)' = Intended(x)
      BY <1>1, <1>2, <1>3 DEF Intended, Ask, At
    <3> QED
      BY <1>2, <1>3, <2>1, <3>2, <3>3, <3>4
  <2>2. CASE y # x
    <3>1. proc'[y] = proc[y] /\ HasCopy(y)
      BY <1>2, <1>8, <2>2 DEF HasCopy, At
    <3>2. d # e
      BY <1>4, <1>8, <2>2, <3>1 DEF Meets
    <3>3. OtherTruncated(y) \/ proc[y].copy = Intended(y)
      BY <1>6, <1>8, <3>1 DEF ConfigOK
    <3>4. OtherTruncated(y) => OtherTruncated(y)'
      BY <1>2, <1>8, <3>1, <3>2 DEF OtherTruncated, At
    <3>5. Intended(y)' = Intended(y)
      BY <1>2, <3>1 DEF Intended, Ask, At
    <3> QED
      BY <3>1, <3>3, <3>4, <3>5
  <2> QED
    BY <2>1, <2>2
<1> QED
  BY <1>7, <1>8

LEMMA WriteOK ==
  ASSUME CliShape, ConfigOK, NEW x \in Procs, Write(x)
  PROVE  ConfigOK'
<1> DEFINE e == proc[x].dir
<1>1. /\ proc[x] \in Proc /\ Sound(proc[x]) /\ e \in Dirs /\ At(x, "truncated") /\ proc[x].cmd \in Writers
  BY ProcFacts DEF Write, At, Sound
<1>2. /\ \A y \in Procs \ {x} : proc'[y] = proc[y]
      /\ proc'[x].phase \in {"again", "exited"}
  BY <1>1, ExitedFacts, ShapeParts DEF Write, Proceeds, Exits, Becomes, Proc
<1>3. spoiled \subseteq spoiled' /\ (Meets(x) => e \in spoiled')
  BY DEF Write, Spoils
<1>4. /\ \A d \in Dirs : d # e => file'[d] = file[d] /\ asked'[d] = asked[d]
      /\ asked'[e] = Ask(x) /\ (~Meets(x) => file'[e] = proc[x].copy)
  BY <1>1, ShapeParts DEF Write, TablesOK
<1> SUFFICES ASSUME NEW d \in Dirs, d \notin spoiled'
             PROVE  /\ Truncated(d)' \/ file'[d] = asked'[d]
                    /\ \A y \in Procs : HasCopy(y)' /\ proc'[y].dir = d =>
                         OtherTruncated(y)' \/ proc'[y].copy = Intended(y)'
  BY DEF ConfigOK
<1>5. d \notin spoiled
  BY <1>3
<1>6. Truncated(d)' \/ file'[d] = asked'[d]
  <2>1. CASE d = e
    <3>1. HasCopy(x) /\ Intended(x) = Ask(x) /\ ~Meets(x)
      BY <1>1, <1>3, <2>1 DEF HasCopy, Intended, At
    <3>2. ~OtherTruncated(x)
      <4> SUFFICES ASSUME NEW y \in Procs \ {x}, At(y, "truncated"), proc[y].dir = e PROVE FALSE
        BY DEF OtherTruncated
      <4>1. HasCopy(y)
        BY ProcFacts DEF HasCopy, At, Sound
      <4> QED
        BY <3>1, <4>1 DEF Meets
    <3>3. proc[x].copy = Ask(x)
      BY <1>5, <2>1, <3>1, <3>2 DEF ConfigOK
    <3> QED
      BY <1>4, <2>1, <3>1, <3>3
  <2>2. CASE d # e
    <3>1. CASE Truncated(d)
      <4>1. PICK y \in Procs : At(y, "truncated") /\ proc[y].dir = d
        BY <3>1 DEF Truncated
      <4>2. proc'[y] = proc[y]
        BY <1>2, <2>2, <4>1
      <4> QED
        BY <4>1, <4>2 DEF Truncated, At
    <3>2. CASE file[d] = asked[d]
      BY <1>4, <2>2, <3>2
    <3> QED
      BY <1>5, <3>1, <3>2 DEF ConfigOK
  <2> QED
    BY <2>1, <2>2
<1>7. ASSUME NEW y \in Procs, HasCopy(y)', proc'[y].dir = d
      PROVE  OtherTruncated(y)' \/ proc'[y].copy = Intended(y)'
  <2>1. y # x
    BY <1>2, <1>7 DEF HasCopy, At
  <2>2. proc'[y] = proc[y] /\ HasCopy(y)
    BY <1>2, <1>7, <2>1 DEF HasCopy, At
  <2>3. d # e
    BY <1>3, <1>7, <2>1, <2>2 DEF Meets
  <2>4. OtherTruncated(y) \/ proc[y].copy = Intended(y)
    BY <1>5, <1>7, <2>2 DEF ConfigOK
  <2>5. OtherTruncated(y) => OtherTruncated(y)'
    BY <1>2, <1>7, <2>2, <2>3 DEF OtherTruncated, At
  <2>6. Intended(y)' = Intended(y)
    BY <1>4, <1>7, <2>2, <2>3 DEF Intended, Ask, At
  <2> QED
    BY <2>2, <2>4, <2>5, <2>6
<1> QED
  BY <1>6, <1>7

LEMMA StopOK ==
  ASSUME CliShape, ConfigOK, NEW x \in Procs, Stop(x)
  PROVE  ConfigOK'
<1>1. /\ UNCHANGED <<file, asked>> /\ spoiled \subseteq spoiled'
      /\ At(x, "truncated") => proc[x].dir \in spoiled'
  BY DEF Stop, files
<1>2. proc'[x] = Exited /\ \A y \in Procs \ {x} : proc'[y] = proc[y]
  BY ShapeParts DEF Stop, Exits, Becomes
<1>3. ~HasCopy(x)'
  BY <1>2, ExitedFacts DEF HasCopy
<1> QED
  BY <1>1, <1>2, <1>3, ConfigKept

LEMMA ProceedsFacts ==
  ASSUME CliShape, NEW x \in Procs, NEW p, Proceeds(x, p)
  PROVE  /\ proc'[x].phase = p /\ proc'[x].lines = proc[x].lines /\ proc'[x].poll = proc[x].poll
         /\ \A y \in Procs \ {x} : proc'[y] = proc[y]
BY ShapeParts DEF Proceeds, Becomes, Proc

LEMMA ExitsFacts ==
  ASSUME CliShape, NEW x \in Procs, Exits(x)
  PROVE  /\ proc'[x].phase = "exited" /\ proc'[x].lines = {}
         /\ \A y \in Procs \ {x} : proc'[y] = proc[y]
BY ShapeParts, ExitedFacts DEF Exits, Becomes

(* What the other steps of the commands make of their process.              *)
LEMMA LoginEffect ==
  ASSUME CliShape, NEW x \in Procs, NEW u \in Users, Login(x, u)
  PROVE  /\ proc'[x].phase = "loading" /\ proc'[x].lines = proc[x].lines
         /\ \A y \in Procs \ {x} : proc'[y] = proc[y]
BY ShapeParts DEF Login, Becomes, Proc

LEMMA ReadEffect ==
  ASSUME CliShape, NEW x \in Procs, ReadCurrentCrontab(x)
  PROVE  /\ proc'[x].phase = "read" /\ proc'[x].lines = crontab
         /\ \A y \in Procs \ {x} : proc'[y] = proc[y]
BY ShapeParts DEF ReadCurrentCrontab, Becomes, Proc

LEMMA StartEffect ==
  ASSUME CliShape, NEW x \in Procs,
         \/ \E cmd \in Commands, d \in Dirs : Begin(x, cmd, d)
         \/ \E d \in Dirs, q \in Polls : BeginInstall(x, d, q)
         \/ \E job \in Jobs : Fire(x, job)
  PROVE  /\ proc'[x].phase \in {"begun", "reading", "writing"} /\ proc'[x].lines = {}
         /\ \A y \in Procs \ {x} : proc'[y] = proc[y]
<1>1. proc \in [Procs -> Proc]
  BY ShapeParts
<1>2. ASSUME NEW k, Becomes(x, k), k.phase \in {"begun", "reading", "writing"}, k.lines = {}
      PROVE  /\ proc'[x].phase \in {"begun", "reading", "writing"} /\ proc'[x].lines = {}
             /\ \A y \in Procs \ {x} : proc'[y] = proc[y]
  BY <1>1, <1>2 DEF Becomes
<1>3. ASSUME NEW cmd \in Commands, NEW d \in Dirs, Begin(x, cmd, d)
      PROVE  \E k : Becomes(x, k) /\ k.phase \in {"begun", "reading", "writing"} /\ k.lines = {}
  <2> DEFINE k == [Exited EXCEPT !.cmd = cmd, !.dir = d, !.phase = "begun"]
  <2>1. Becomes(x, k) /\ k.phase = "begun" /\ k.lines = {}
    BY <1>3 DEF Begin, Exited
  <2> QED
    BY <2>1
<1>4. ASSUME NEW d \in Dirs, NEW q \in Polls, BeginInstall(x, d, q)
      PROVE  \E k : Becomes(x, k) /\ k.phase \in {"begun", "reading", "writing"} /\ k.lines = {}
  <2> DEFINE k == [Exited EXCEPT !.cmd = "install", !.dir = d, !.poll = q,
                                !.phase = IF platform = "linux" THEN "reading" ELSE "writing"]
  <2>1. Becomes(x, k) /\ k.phase \in {"reading", "writing"} /\ k.lines = {}
    BY <1>4 DEF BeginInstall, Exited
  <2> QED
    BY <2>1
<1>5. ASSUME NEW job \in Jobs, Fire(x, job)
      PROVE  \E k : Becomes(x, k) /\ k.phase \in {"begun", "reading", "writing"} /\ k.lines = {}
  <2> DEFINE k == [Exited EXCEPT !.cmd = "work", !.phase = "begun",
                                !.dir = IF platform = "linux" THEN Home ELSE Root]
  <2>1. Becomes(x, k) /\ k.phase = "begun" /\ k.lines = {}
    BY <1>5 DEF Fire, Exited
  <2> QED
    BY <2>1
<1> QED
  BY <1>2, <1>3, <1>4, <1>5

(* The other steps of a process: its phase says that it holds no copy.      *)
LEMMA OtherStepsConfig ==
  ASSUME CliShape, ConfigOK, NEW x \in Procs,
         \/ \E cmd \in Commands, d \in Dirs : Begin(x, cmd, d)
         \/ \E d \in Dirs, q \in Polls : BeginInstall(x, d, q)
         \/ \E job \in Jobs : Fire(x, job)
         \/ \E u \in Users : Login(x, u)
         \/ Logout(x) \/ Work(x)
         \/ ReadCurrentCrontab(x) \/ ReadNothing(x) \/ InstallLine(x)
         \/ TruncatePlist(x) \/ WritePlist(x) \/ Unload(x) \/ Load(x)
  PROVE  ConfigOK'
<1>1. UNCHANGED <<file, asked, spoiled>> /\ ~At(x, "truncated")
  BY DEF Begin, BeginInstall, Fire, Login, Logout, Work, ReadCurrentCrontab, ReadNothing, InstallLine,
         TruncatePlist, WritePlist, Unload, Load, files, history, At
<1>3. /\ \A y \in Procs \ {x} : proc'[y] = proc[y]
      /\ proc'[x].phase \notin {"calling", "loaded", "truncated"}
  <2>1. CASE \/ \E cmd \in Commands, d \in Dirs : Begin(x, cmd, d)
             \/ \E d \in Dirs, q \in Polls : BeginInstall(x, d, q)
             \/ \E job \in Jobs : Fire(x, job)
    BY <2>1, StartEffect
  <2>2. CASE (\E u \in Users : Login(x, u)) \/ Logout(x) \/ Work(x)
    BY <2>2, LoginEffect, ProceedsFacts, ExitsFacts DEF Logout, Work
  <2>3. CASE ReadCurrentCrontab(x) \/ ReadNothing(x) \/ InstallLine(x)
    BY <2>3, ReadEffect, ProceedsFacts, ExitsFacts DEF ReadNothing, InstallLine
  <2>4. CASE TruncatePlist(x) \/ WritePlist(x) \/ Unload(x) \/ Load(x)
    BY <2>4, ProceedsFacts, ExitsFacts DEF TruncatePlist, WritePlist, Unload, Load
  <2> QED
    BY <2>1, <2>2, <2>3, <2>4
<1>4. ~HasCopy(x)'
  BY <1>3 DEF HasCopy
<1> QED
  BY <1>1, <1>3, <1>4, ConfigKept

LEMMA StepConfig == CliShape /\ ConfigOK /\ [Next]_vars => ConfigOK'
<1> SUFFICES ASSUME CliShape, ConfigOK, [Next]_vars PROVE ConfigOK'
  OBVIOUS
<1>1. CASE UNCHANGED vars
  BY <1>1 DEF vars, files, history, ConfigOK, Truncated, OtherTruncated, Intended, Ask, HasCopy, At
<1> QED
  BY <1>1, UpdateConfigOK, RegisterLoadOK, RegisterCallOK, TruncateOK, WriteOK, StopOK,
     OtherStepsConfig DEF Next, Runs

LEMMA ConfigHolds == ConfigOK => ConfigAsAsked
BY DEF ConfigOK, ConfigAsAsked, Truncated

-----------------------------------------------------------------------------
(* Jobs *)

InstallPhases == {"read", "emptied", "filled", "unloaded"}

(* The steps of the commands that install nothing, and the first ones of an *)
(* install.                                                                 *)
LEMMA PlainSteps ==
  ASSUME CliShape, NEW x \in Procs,
         \/ \E cmd \in Commands, d \in Dirs : Begin(x, cmd, d)
         \/ \E d \in Dirs, q \in Polls : BeginInstall(x, d, q)
         \/ \E job \in Jobs : Fire(x, job)
         \/ \E u \in Users : Login(x, u)
         \/ Logout(x) \/ UpdateConfig(x)
         \/ RegisterLoad(x) \/ \E a \in Agents : RegisterCall(x, a)
         \/ Truncate(x) \/ Write(x) \/ Work(x)
  PROVE  /\ UNCHANGED <<platform, jobs, installed, torn>>
         /\ \A y \in Procs \ {x} : proc'[y] = proc[y]
         /\ proc[x].phase \notin InstallPhases /\ proc'[x].phase \notin InstallPhases
         /\ proc'[x].lines = proc[x].lines \/ proc'[x].lines = {}
<1>1. proc \in [Procs -> Proc] /\ proc[x] \in Proc
  BY ShapeParts
<1>2. UNCHANGED <<platform, jobs, installed, torn>>
  BY DEF Begin, BeginInstall, Fire, Login, Logout, UpdateConfig, RegisterLoad, RegisterCall,
         Truncate, Write, Work, files, history
<1>3. CASE \/ \E cmd \in Commands, d \in Dirs : Begin(x, cmd, d)
           \/ \E d \in Dirs, q \in Polls : BeginInstall(x, d, q)
           \/ \E job \in Jobs : Fire(x, job)
  <2>1. proc[x].phase = "exited"
    BY <1>3 DEF Begin, BeginInstall, Fire, At
  <2> QED
    BY <1>2, <1>3, <2>1, StartEffect DEF InstallPhases
<1>4. CASE (\E u \in Users : Login(x, u)) \/ Logout(x) \/ Work(x)
  <2>1. proc[x].phase = "begun"
    BY <1>4 DEF Login, Logout, Work, At
  <2> QED
    BY <1>2, <1>4, <2>1, LoginEffect, ProceedsFacts, ExitsFacts DEF Logout, Work, InstallPhases
<1>5. CASE UpdateConfig(x)
  BY <1>1, <1>2, <1>5 DEF UpdateConfig, At, Becomes, Proc, InstallPhases
<1>6. CASE RegisterLoad(x)
  <2>1. proc[x].phase = "begun"
    BY <1>6 DEF RegisterLoad, At
  <2>2. CASE Exits(x)
    BY <1>2, <2>1, <2>2, ExitsFacts DEF InstallPhases
  <2>3. CASE Becomes(x, [proc[x] EXCEPT !.copy = file[proc[x].dir], !.phase = "calling"])
    BY <1>1, <1>2, <2>1, <2>3 DEF Becomes, Proc, InstallPhases
  <2> QED
    BY <1>6, <2>2, <2>3 DEF RegisterLoad
<1>7. CASE \E a \in Agents : RegisterCall(x, a)
  <2>1. PICK a \in Agents : RegisterCall(x, a)
    BY <1>7
  <2> DEFINE k == [proc[x] EXCEPT !.copy.agent = a, !.phase = "loaded"]
  <2>2. k.phase = "loaded" /\ k.lines = proc[x].lines
    BY <1>1 DEF Proc
  <2>3. At(x, "calling") /\ Becomes(x, k)
    BY <2>1 DEF RegisterCall
  <2> HIDE DEF k
  <2>4. proc'[x] = k /\ \A y \in Procs \ {x} : proc'[y] = proc[y]
    BY <1>1, <2>3 DEF Becomes
  <2> QED
    BY <1>2, <2>2, <2>3, <2>4 DEF At, InstallPhases
<1>8. CASE Truncate(x) \/ Write(x)
  <2>1. proc[x].phase \in {"loaded", "truncated"}
    BY <1>8 DEF Truncate, Write, At
  <2> QED
    BY <1>2, <1>8, <2>1, ProceedsFacts, ExitsFacts DEF Truncate, Write, InstallPhases
<1> QED
  BY <1>3, <1>4, <1>5, <1>6, <1>7, <1>8

(* The tools of one platform are not used on the other. *)
LEMMA PlatformSteps ==
  ASSUME CliShape, NEW x \in Procs
  PROVE  /\ ReadCurrentCrontab(x) \/ ReadNothing(x) \/ InstallLine(x) =>
              platform = "linux" /\ platform' = "linux" /\ proc[x].poll \in Polls
         /\ TruncatePlist(x) \/ WritePlist(x) \/ Unload(x) \/ Load(x) =>
              platform = "darwin" /\ platform' = "darwin" /\ proc[x].poll \in Polls
BY ProcFacts DEF ReadCurrentCrontab, ReadNothing, InstallLine, TruncatePlist, WritePlist, Unload, Load,
                 files, At, Sound
-----------------------------------------------------------------------------
(* The crontab *)

OneLinePerLabel(lines) == \A l1, l2 \in lines : l1.label = l2.label => l1 = l2

(* Every line is its label's, in the crontab and in what installs have read *)
(* of it; where nothing is torn these are the user's line and those         *)
(* installed.                                                               *)
CrontabOK ==
  platform = "linux" =>
    /\ OneLinePerLabel(crontab)
    /\ \A x \in Procs : OneLinePerLabel(proc[x].lines)
    /\ \A l \in Labels : installed[l] # NULL => installed[l].label = l
    /\ ~torn => /\ crontab = {OtherLine} \union {installed[l] : l \in {m \in Labels : installed[m] # NULL}}
                /\ \A x \in Procs : At(x, "read") => proc[x].lines = crontab

PlainStep(x) ==
  \/ \E cmd \in Commands, d \in Dirs : Begin(x, cmd, d)
  \/ \E d \in Dirs, q \in Polls : BeginInstall(x, d, q)
  \/ \E job \in Jobs : Fire(x, job)
  \/ \E u \in Users : Login(x, u)
  \/ Logout(x) \/ UpdateConfig(x)
  \/ RegisterLoad(x) \/ \E a \in Agents : RegisterCall(x, a)
  \/ Truncate(x) \/ Write(x) \/ Work(x)

LEMMA NextSteps ==
  Next => \E x \in Procs :
            \/ PlainStep(x)
            \/ ReadCurrentCrontab(x) \/ ReadNothing(x) \/ InstallLine(x)
            \/ TruncatePlist(x) \/ WritePlist(x) \/ Unload(x) \/ Load(x)
            \/ Stop(x)
BY DEF Next, Runs, PlainStep

LEMMA InitCrontab == Init => CrontabOK
<1> SUFFICES ASSUME Init PROVE CrontabOK
  OBVIOUS
<1>1. crontab = {OtherLine} /\ \A l \in Labels : installed[l] = NULL
  BY DEF Init
<1>2. \A x \in Procs : proc[x].lines = {} /\ ~At(x, "read")
  BY DEF Init, At, Exited
<1>3. {installed[l] : l \in {m \in Labels : installed[m] # NULL}} = {}
  BY <1>1
<1> QED
  BY <1>1, <1>2, <1>3 DEF CrontabOK, OneLinePerLabel

(* A step that leaves the crontab as it is, of a process that has not read  *)
(* it, or has just read it.                                                 *)
LEMMA CrontabKept ==
  ASSUME CliShape, CrontabOK, NEW x \in Procs, platform' = platform,
         UNCHANGED <<crontab, installed>>, torn' = FALSE => torn = FALSE,
         \A y \in Procs \ {x} : proc'[y] = proc[y],
         proc'[x].lines \in {{}, proc[x].lines, crontab},
         At(x, "read")' => torn' \/ proc'[x].lines = crontab
  PROVE  CrontabOK'
<1> SUFFICES ASSUME platform = "linux" PROVE CrontabOK'
  BY DEF CrontabOK
<1>1. torn \in BOOLEAN /\ (~torn' => ~torn)
  <2>1. torn \in BOOLEAN
    BY ShapeParts DEF TablesOK
  <2> QED
    BY <2>1
<1>2. ASSUME NEW y \in Procs PROVE OneLinePerLabel(proc'[y].lines)
  BY DEF CrontabOK, OneLinePerLabel
<1>3. ASSUME NEW y \in Procs, ~torn', At(y, "read")' PROVE proc'[y].lines = crontab
  BY <1>1, <1>3 DEF CrontabOK, At
<1>4. OneLinePerLabel(crontab') /\ \A l \in Labels : installed'[l] # NULL => installed'[l].label = l
  BY DEF CrontabOK
<1>5. ~torn' => crontab' = {OtherLine} \union {installed'[l] : l \in {m \in Labels : installed'[m] # NULL}}
  BY <1>1 DEF CrontabOK
<1>6. \A y \in Procs : OneLinePerLabel(proc[y].lines)'
  BY <1>2 DEF OneLinePerLabel
<1>7. OneLinePerLabel(crontab)'
  BY <1>4 DEF OneLinePerLabel
<1> QED
  BY <1>3, <1>4, <1>5, <1>6, <1>7 DEF CrontabOK

(* A poll's line has the poll's label, which the user's own line has not.   *)
LEMMA LineFacts ==
  ASSUME NEW q \in Polls
  PROVE  /\ Line(q).label = DeriveLabel(q) /\ DeriveLabel(q) \in Labels
         /\ Line(q) # NULL /\ BuildPlist(q) # NULL
         /\ Line(q).label # OtherLine.label
<1>1. Line(q).label = DeriveLabel(q) /\ OtherLine.label = NULL
  BY DEF Line, Job, OtherLine
<1>2. NULL \notin {DeriveLabel(q), Line(q), BuildPlist(q)} /\ DeriveLabel(q) \in Labels
  BY JobAssumption DEF Labels
<1> QED
  BY <1>1, <1>2

LEMMA InstallLineOK ==
  ASSUME CliShape, CrontabOK, NEW x \in Procs, InstallLine(x)
  PROVE  CrontabOK'
<1> DEFINE q == proc[x].poll
           line == Line(q)
           others(lines) == {l \in lines : l.label # line.label}
<1>1. q \in Polls /\ platform = "linux" /\ platform' = "linux"
  BY PlatformSteps
<1>2. line.label \in Labels /\ line # NULL /\ line.label # OtherLine.label
  BY <1>1, LineFacts
<1>3. /\ At(x, "read") /\ crontab' = others(proc[x].lines) \union {line}
      /\ installed' = [installed EXCEPT ![line.label] = line]
      /\ torn' = (torn \/ \E y \in Procs \ {x} : At(y, "read"))
  BY DEF InstallLine
<1>4. /\ proc'[x].phase = "exited" /\ proc'[x].lines = {}
      /\ \A y \in Procs \ {x} : proc'[y] = proc[y]
  BY ExitsFacts DEF InstallLine
<1>5. /\ installed'[line.label] = line
      /\ \A l \in Labels : l # line.label => installed'[l] = installed[l]
  BY <1>2, <1>3, ShapeParts DEF TablesOK
<1> HIDE DEF line
<1>6. OneLinePerLabel(crontab')
  BY <1>1, <1>3 DEF CrontabOK, OneLinePerLabel
<1>7. ASSUME NEW y \in Procs PROVE OneLinePerLabel(proc'[y].lines)
  BY <1>1, <1>4 DEF CrontabOK, OneLinePerLabel
<1>8. \A l \in Labels : installed'[l] # NULL => installed'[l].label = l
  BY <1>1, <1>5 DEF CrontabOK
<1>9. ASSUME ~torn'
      PROVE  /\ crontab' = {OtherLine} \union {installed'[l] : l \in {m \in Labels : installed'[m] # NULL}}
             /\ \A y \in Procs : ~At(y, "read")'
  <2>1. ~torn /\ \A y \in Procs \ {x} : ~At(y, "read")
    BY <1>3, <1>9
  <2>2. \A y \in Procs : ~At(y, "read")'
    BY <1>4, <2>1 DEF At
  <2> DEFINE now == {installed[l] : l \in {m \in Labels : installed[m] # NULL}}
             next == {installed'[l] : l \in {m \in Labels : installed'[m] # NULL}}
  <2>3. proc[x].lines = {OtherLine} \union now
    BY <1>1, <1>3, <2>1 DEF CrontabOK
  <2>4. \A l \in Labels : installed[l] # NULL => installed[l].label = l
    BY <1>1 DEF CrontabOK
  <2>5. others(now) \subseteq next
    <3> SUFFICES ASSUME NEW l \in Labels, installed[l] # NULL, installed[l].label # line.label
                 PROVE  installed[l] \in next
      OBVIOUS
    <3>1. l # line.label
      BY <2>4
    <3>2. installed'[l] = installed[l]
      BY <1>5, <3>1
    <3> QED
      BY <3>2
  <2>6. line \in next
    BY <1>2, <1>5
  <2>7. next \subseteq others(now) \union {line}
    <3> SUFFICES ASSUME NEW l \in Labels, installed'[l] # NULL, l # line.label
                 PROVE  installed'[l] \in others(now)
      BY <1>5
    <3>1. installed'[l] = installed[l] /\ installed[l].label = l
      BY <1>5, <2>4
    <3> QED
      BY <3>1
  <2>8. others(proc[x].lines) = {OtherLine} \union others(now)
    <3> HIDE DEF now
    <3> QED
      BY <1>2, <2>3
  <2> HIDE DEF now, next, others
  <2>9. crontab' = {OtherLine} \union next
    BY <1>3, <2>5, <2>6, <2>7, <2>8
  <2> QED
    BY <2>2, <2>9 DEF next
<1>10. \A y \in Procs : OneLinePerLabel(proc[y].lines)'
  BY <1>7 DEF OneLinePerLabel
<1>11. OneLinePerLabel(crontab)'
  BY <1>6 DEF OneLinePerLabel
<1> QED
  BY <1>8, <1>9, <1>10, <1>11 DEF CrontabOK

LEMMA StepCrontab == CliShape /\ CrontabOK /\ [Next]_vars => CrontabOK'
<1> SUFFICES ASSUME CliShape, CrontabOK, [Next]_vars PROVE CrontabOK'
  OBVIOUS
<1>1. CASE UNCHANGED vars
  BY <1>1 DEF vars, files, jobs, history, CrontabOK, OneLinePerLabel, At
<1>2. CASE Next
  <2>1. PICK x \in Procs :
            \/ PlainStep(x)
            \/ ReadCurrentCrontab(x) \/ ReadNothing(x) \/ InstallLine(x)
            \/ TruncatePlist(x) \/ WritePlist(x) \/ Unload(x) \/ Load(x)
            \/ Stop(x)
    BY <1>2, NextSteps
  <2>2. CASE PlainStep(x)
    <3>1. /\ UNCHANGED <<platform, jobs, installed, torn>>
          /\ \A y \in Procs \ {x} : proc'[y] = proc[y]
          /\ proc'[x].phase \notin InstallPhases
          /\ proc'[x].lines = proc[x].lines \/ proc'[x].lines = {}
      BY <2>2, PlainSteps DEF PlainStep
    <3>2. ~At(x, "read")'
      BY <3>1 DEF At, InstallPhases
    <3> QED
      BY <3>1, <3>2, CrontabKept DEF jobs
  <2>3. CASE ReadCurrentCrontab(x)
    <3>1. UNCHANGED <<platform, crontab, installed, torn>>
      BY <2>3 DEF ReadCurrentCrontab, files, jobs, history
    <3> QED
      BY <2>3, <3>1, ReadEffect, CrontabKept
  <2>4. CASE ReadNothing(x)
    <3>1. UNCHANGED <<platform, crontab, installed>> /\ torn' = TRUE /\ Proceeds(x, "read")
      BY <2>4 DEF ReadNothing, files, jobs
    <3>2. proc'[x].lines = proc[x].lines /\ \A y \in Procs \ {x} : proc'[y] = proc[y]
      BY <3>1, ProceedsFacts
    <3> QED
      BY <3>1, <3>2, CrontabKept
  <2>5. CASE InstallLine(x)
    BY <2>5, InstallLineOK
  <2>6. CASE TruncatePlist(x) \/ WritePlist(x) \/ Unload(x) \/ Load(x)
    <3>1. platform' = "darwin"
      BY <2>6, PlatformSteps
    <3> QED
      BY <3>1 DEF CrontabOK
  <2>7. CASE Stop(x)
    <3>1. UNCHANGED <<platform, crontab, installed>> /\ Exits(x) /\ (torn => torn')
      BY <2>7 DEF Stop, files, jobs
    <3>2. proc'[x].phase = "exited" /\ proc'[x].lines = {} /\ \A y \in Procs \ {x} : proc'[y] = proc[y]
      BY <3>1, ExitsFacts
    <3>3. torn \in BOOLEAN
      BY ShapeParts DEF TablesOK
    <3>4. torn' = FALSE => torn = FALSE
      BY <3>1, <3>3
    <3> QED
      BY <3>1, <3>2, <3>4, CrontabKept DEF At
  <2> QED
    BY <2>1, <2>2, <2>3, <2>4, <2>5, <2>6, <2>7
<1> QED
  BY <1>1, <1>2

LEMMA CrontabHolds == CrontabOK => CrontabAsInstalled
BY DEF CrontabOK, CrontabAsInstalled, OneLinePerLabel
-----------------------------------------------------------------------------
(* launchd *)

Installing(l, phases) == \E x \in Procs : proc[x].phase \in phases /\ LabelOf(x) = l

(* Where nothing is torn: a property list is the one installed last or is   *)
(* being written, and where launchd has another job an install is under way *)
(* that unloads it, or has unloaded it and loads the new one.               *)
LaunchdOK ==
  platform = "darwin" /\ ~torn => \A l \in Labels :
    /\ plist[l] = installed[l] \/ (plist[l] = NULL /\ Installing(l, {"emptied"}))
    /\ Installing(l, {"filled", "unloaded"}) => installed[l] # NULL
    /\ \/ loaded[l] = installed[l]
       \/ Installing(l, {"emptied", "filled"})
       \/ loaded[l] = NULL /\ Installing(l, {"unloaded"})

OthersInstalling(x, l, phases) ==
  \E y \in Procs \ {x} : proc[y].phase \in phases /\ LabelOf(y) = l

LEMMA InitLaunchd == Init => LaunchdOK
BY DEF Init, LaunchdOK, Installing, Exited

(* Who installs a label: the others, who do not move, and the process that  *)
(* does.                                                                    *)
LEMMA InstallersNow ==
  ASSUME NEW x \in Procs, NEW l, NEW phases
  PROVE  Installing(l, phases) <=> \/ OthersInstalling(x, l, phases)
                                   \/ proc[x].phase \in phases /\ LabelOf(x) = l
BY DEF Installing, OthersInstalling

LEMMA InstallersNext ==
  ASSUME NEW x \in Procs, NEW l, NEW phases, \A y \in Procs \ {x} : proc'[y] = proc[y]
  PROVE  Installing(l, phases)' <=> \/ OthersInstalling(x, l, phases)
                                    \/ proc'[x].phase \in phases /\ LabelOf(x)' = l
BY DEF Installing, OthersInstalling, LabelOf

(* Such a step leaves launchd's tables alone and is of a process that is    *)
(* not at an install.                                                       *)
LEMMA LaunchdKept ==
  ASSUME LaunchdOK, NEW x \in Procs, UNCHANGED <<platform, plist, loaded, installed>>,
         ~torn' => ~torn, \A y \in Procs \ {x} : proc'[y] = proc[y],
         platform = "darwin" /\ ~torn' => proc[x].phase \notin InstallPhases,
         proc'[x].phase \notin InstallPhases
  PROVE  LaunchdOK'
<1> SUFFICES ASSUME platform = "darwin", ~torn', NEW l \in Labels
             PROVE  /\ plist'[l] = installed'[l] \/ (plist'[l] = NULL /\ Installing(l, {"emptied"})')
                    /\ Installing(l, {"filled", "unloaded"})' => installed'[l] # NULL
                    /\ \/ loaded'[l] = installed'[l]
                       \/ Installing(l, {"emptied", "filled"})'
                       \/ loaded'[l] = NULL /\ Installing(l, {"unloaded"})'
  BY DEF LaunchdOK
<1>1. \A phases \in SUBSET {"emptied", "filled", "unloaded"} :
        Installing(l, phases)' <=> Installing(l, phases)
  <2> TAKE phases \in SUBSET {"emptied", "filled", "unloaded"}
  <2>1. proc[x].phase \notin phases /\ proc'[x].phase \notin phases
    BY DEF InstallPhases
  <2> QED
    BY <2>1, InstallersNow, InstallersNext
<1>2. /\ Installing(l, {"emptied"})' <=> Installing(l, {"emptied"})
      /\ Installing(l, {"filled", "unloaded"})' <=> Installing(l, {"filled", "unloaded"})
      /\ Installing(l, {"emptied", "filled"})' <=> Installing(l, {"emptied", "filled"})
      /\ Installing(l, {"unloaded"})' <=> Installing(l, {"unloaded"})
  BY <1>1
<1> QED
  BY <1>2 DEF LaunchdOK

(* The steps of an install, for its own label m and for the others.         *)
LEMMA LaunchdStep ==
  ASSUME CliShape, LaunchdOK, NEW x \in Procs, NEW m \in Labels, m = LabelOf(x),
         TruncatePlist(x) \/ WritePlist(x) \/ Unload(x) \/ Load(x)
  PROVE  LaunchdOK'
<1>1. /\ platform = "darwin" /\ platform' = "darwin" /\ proc[x].poll \in Polls
  BY PlatformSteps
<1> SUFFICES ASSUME ~torn', NEW l \in Labels
             PROVE  /\ plist'[l] = installed'[l] \/ (plist'[l] = NULL /\ Installing(l, {"emptied"})')
                    /\ Installing(l, {"filled", "unloaded"})' => installed'[l] # NULL
                    /\ \/ loaded'[l] = installed'[l]
                       \/ Installing(l, {"emptied", "filled"})'
                       \/ loaded'[l] = NULL /\ Installing(l, {"unloaded"})'
  BY DEF LaunchdOK
<1> DEFINE Others(phases) == OthersInstalling(x, l, phases)
           P == BuildPlist(proc[x].poll)
<1>2. P # NULL
  BY <1>1, LineFacts
<1>3. /\ plist \in [Labels -> Plists \union {NULL}] /\ loaded \in [Labels -> Plists \union {NULL}]
      /\ installed \in [Labels -> Lines \union Plists \union {NULL}]
  BY ShapeParts DEF TablesOK
<1>4. ~torn
  BY DEF TruncatePlist, WritePlist, Unload, Load, history
<1>5. /\ plist[l] = installed[l] \/ (plist[l] = NULL /\ Installing(l, {"emptied"}))
      /\ Installing(l, {"filled", "unloaded"}) => installed[l] # NULL
      /\ \/ loaded[l] = installed[l]
         \/ Installing(l, {"emptied", "filled"})
         \/ loaded[l] = NULL /\ Installing(l, {"unloaded"})
  BY <1>1, <1>4 DEF LaunchdOK
<1>6. \A phases : Installing(l, phases) <=> Others(phases) \/ (proc[x].phase \in phases /\ m = l)
  BY InstallersNow
<1>7. ASSUME \A y \in Procs \ {x} : proc'[y] = proc[y], proc'[x].poll = proc[x].poll
      PROVE  \A phases : Installing(l, phases)' <=> Others(phases) \/ (proc'[x].phase \in phases /\ m = l)
  <2>1. LabelOf(x)' = m
    BY <1>7 DEF LabelOf
  <2> QED
    BY <1>7, <2>1, InstallersNext
<1>8. ASSUME \A y \in Procs \ {x} : proc'[y] = proc[y], proc'[x].phase = "exited",
             NEW phases \in SUBSET {"emptied", "filled", "unloaded"}
      PROVE  Installing(l, phases)' <=> Others(phases)
  BY <1>8, InstallersNext
<1> HIDE DEF Others, P
<1>9. CASE TruncatePlist(x)
  <2>1. /\ proc[x].phase = "writing" /\ proc'[x].phase = "emptied" /\ proc'[x].poll = proc[x].poll
        /\ \A y \in Procs \ {x} : proc'[y] = proc[y]
    BY <1>9, ProceedsFacts DEF TruncatePlist, At
  <2>2. plist' = [plist EXCEPT ![m] = NULL] /\ UNCHANGED <<loaded, installed>>
    BY <1>9 DEF TruncatePlist, history
  <2>3. \A phases : Installing(l, phases)' <=> Others(phases) \/ ("emptied" \in phases /\ m = l)
    BY <1>7, <2>1
  <2>4. \A phases : Installing(l, phases) <=> Others(phases) \/ ("writing" \in phases /\ m = l)
    BY <1>6, <2>1
  <2>5. CASE l = m
    <3>1. /\ Installing(l, {"emptied"})' /\ Installing(l, {"emptied", "filled"})'
          /\ Installing(l, {"filled", "unloaded"})' => Installing(l, {"filled", "unloaded"})
      BY <2>3, <2>4, <2>5
    <3> QED
      BY <1>3, <1>5, <2>2, <2>5, <3>1
  <2>6. CASE l # m
    <3>1. \A phases : Installing(l, phases)' <=> Installing(l, phases)
      BY <2>3, <2>4, <2>6
    <3> QED
      BY <1>3, <1>5, <2>2, <2>6, <3>1
  <2> QED
    BY <2>5, <2>6
<1>10. CASE WritePlist(x)
  <2>1. /\ proc[x].phase = "emptied" /\ proc'[x].phase = "filled" /\ proc'[x].poll = proc[x].poll
        /\ \A y \in Procs \ {x} : proc'[y] = proc[y]
    BY <1>10, ProceedsFacts DEF WritePlist, At
  <2>2. /\ plist' = [plist EXCEPT ![m] = P] /\ installed' = [installed EXCEPT ![m] = P]
        /\ loaded' = loaded
    BY <1>10 DEF WritePlist, P
  <2>3. \A phases : Installing(l, phases)' <=> Others(phases) \/ ("filled" \in phases /\ m = l)
    BY <1>7, <2>1
  <2>4. \A phases : Installing(l, phases) <=> Others(phases) \/ ("emptied" \in phases /\ m = l)
    BY <1>6, <2>1
  <2>5. CASE l = m
    <3>1. Installing(l, {"emptied", "filled"})'
      BY <2>3, <2>5
    <3> QED
      BY <1>2, <1>3, <2>2, <2>5, <3>1
  <2>6. CASE l # m
    <3>1. \A phases : Installing(l, phases)' <=> Installing(l, phases)
      BY <2>3, <2>4, <2>6
    <3> QED
      BY <1>3, <1>5, <2>2, <2>6, <3>1
  <2> QED
    BY <2>5, <2>6
<1>11. CASE Unload(x)
  <2>1. /\ proc[x].phase = "filled" /\ proc'[x].phase = "unloaded" /\ proc'[x].poll = proc[x].poll
        /\ \A y \in Procs \ {x} : proc'[y] = proc[y]
    BY <1>11, ProceedsFacts DEF Unload, At
  <2>2. /\ UNCHANGED <<plist, installed>>
        /\ loaded' = IF plist[m] = NULL THEN loaded ELSE [loaded EXCEPT ![m] = NULL]
    BY <1>11 DEF Unload
  <2>3. \A phases : Installing(l, phases)' <=> Others(phases) \/ ("unloaded" \in phases /\ m = l)
    BY <1>7, <2>1
  <2>4. \A phases : Installing(l, phases) <=> Others(phases) \/ ("filled" \in phases /\ m = l)
    BY <1>6, <2>1
  <2>5. CASE l = m
    <3>1. Installing(l, {"filled", "unloaded"}) /\ Installing(l, {"unloaded"})'
      BY <2>3, <2>4, <2>5
    <3>2. installed[l] # NULL
      BY <1>5, <3>1
    <3>3. Installing(l, {"emptied"}) => Installing(l, {"emptied"})' /\ Installing(l, {"emptied", "filled"})'
      <4> SUFFICES ASSUME Installing(l, {"emptied"})
                   PROVE  Installing(l, {"emptied"})' /\ Installing(l, {"emptied", "filled"})'
        OBVIOUS
      <4>1. Others({"emptied"})
        BY <2>4
      <4>2. Others({"emptied", "filled"})
        BY <4>1 DEF Others, OthersInstalling
      <4> QED
        BY <2>3, <4>1, <4>2
    <3>4. CASE plist[l] = NULL
      <4>1. Installing(l, {"emptied"})
        BY <1>5, <3>2, <3>4
      <4> QED
        BY <2>2, <3>2, <3>3, <3>4, <4>1
    <3>5. CASE plist[l] # NULL
      <4>1. loaded'[l] = NULL /\ plist'[l] = installed'[l]
        BY <1>3, <1>5, <2>2, <2>5, <3>5
      <4> QED
        BY <2>2, <3>1, <3>2, <4>1
    <3> QED
      BY <3>4, <3>5
  <2>6. CASE l # m
    <3>1. \A phases : Installing(l, phases)' <=> Installing(l, phases)
      BY <2>3, <2>4, <2>6
    <3>2. loaded'[l] = loaded[l]
      BY <1>3, <2>2, <2>6
    <3> QED
      BY <1>5, <2>2, <3>1, <3>2
  <2> QED
    BY <2>5, <2>6
<1>12. CASE Load(x)
  <2>1. /\ proc[x].phase = "unloaded" /\ proc'[x].phase = "exited"
        /\ \A y \in Procs \ {x} : proc'[y] = proc[y]
    BY <1>12, ExitsFacts DEF Load, At
  <2>2. /\ UNCHANGED <<plist, installed>>
        /\ loaded' = IF loaded[m] = NULL THEN [loaded EXCEPT ![m] = plist[m]] ELSE loaded
    BY <1>12 DEF Load, history
  <2>3. \A phases \in SUBSET {"emptied", "filled", "unloaded"} : Installing(l, phases)' <=> Others(phases)
    BY <1>8, <2>1
  <2>4. \A phases : Installing(l, phases) <=> Others(phases) \/ ("unloaded" \in phases /\ m = l)
    BY <1>6, <2>1
  <2>5. /\ Installing(l, {"emptied"})' <=> Installing(l, {"emptied"})
        /\ Installing(l, {"emptied", "filled"})' <=> Installing(l, {"emptied", "filled"})
        /\ Installing(l, {"filled", "unloaded"})' => Installing(l, {"filled", "unloaded"})
    BY <2>3, <2>4
  <2>6. CASE l = m
    <3>1. Installing(l, {"emptied"}) => Installing(l, {"emptied", "filled"})
      BY DEF Installing
    <3>2. CASE loaded[l] = NULL
      <4>1. loaded'[l] = plist[l]
        BY <1>3, <2>2, <2>6, <3>2
      <4> QED
        BY <1>5, <2>2, <2>5, <3>1, <4>1
    <3>3. CASE loaded[l] # NULL
      BY <1>5, <2>2, <2>5, <2>6, <3>3
    <3> QED
      BY <3>2, <3>3
  <2>7. CASE l # m
    <3>1. loaded'[l] = loaded[l] /\ (Installing(l, {"unloaded"})' <=> Installing(l, {"unloaded"}))
      BY <1>3, <2>2, <2>3, <2>4, <2>7
    <3> QED
      BY <1>5, <2>2, <2>5, <3>1
  <2> QED
    BY <2>6, <2>7
<1> QED
  BY <1>9, <1>10, <1>11, <1>12

LEMMA StepLaunchd == CliShape /\ LaunchdOK /\ [Next]_vars => LaunchdOK'
<1> SUFFICES ASSUME CliShape, LaunchdOK, [Next]_vars PROVE LaunchdOK'
  OBVIOUS
<1>1. CASE UNCHANGED vars
  BY <1>1 DEF vars, files, jobs, history, LaunchdOK, Installing, LabelOf
<1>2. CASE Next
  <2>1. PICK x \in Procs :
            \/ PlainStep(x)
            \/ ReadCurrentCrontab(x) \/ ReadNothing(x) \/ InstallLine(x)
            \/ TruncatePlist(x) \/ WritePlist(x) \/ Unload(x) \/ Load(x)
            \/ Stop(x)
    BY <1>2, NextSteps
  <2>2. CASE PlainStep(x)
    <3>1. /\ UNCHANGED <<platform, jobs, installed, torn>>
          /\ \A y \in Procs \ {x} : proc'[y] = proc[y]
          /\ proc[x].phase \notin InstallPhases /\ proc'[x].phase \notin InstallPhases
      BY <2>2, PlainSteps DEF PlainStep
    <3> QED
      BY <3>1, LaunchdKept DEF jobs
  <2>3. CASE ReadCurrentCrontab(x) \/ ReadNothing(x) \/ InstallLine(x)
    <3>1. platform' = "linux"
      BY <2>3, PlatformSteps
    <3> QED
      BY <3>1 DEF LaunchdOK
  <2>4. CASE TruncatePlist(x) \/ WritePlist(x) \/ Unload(x) \/ Load(x)
    <3>1. LabelOf(x) \in Labels
      BY <2>4, PlatformSteps, LineFacts DEF LabelOf
    <3> QED
      BY <2>4, <3>1, LaunchdStep
  <2>5. CASE Stop(x)
    <3>1. /\ UNCHANGED <<platform, jobs, installed>> /\ Exits(x)
          /\ torn' = (torn \/ proc[x].phase \in {"emptied", "filled", "unloaded"})
      BY <2>5 DEF Stop, files
    <3>2. proc'[x].phase = "exited" /\ \A y \in Procs \ {x} : proc'[y] = proc[y]
      BY <3>1, ExitsFacts
    <3>3. platform = "darwin" => proc[x].phase # "read"
      BY ProcFacts DEF Sound
    <3> QED
      BY <3>1, <3>2, <3>3, LaunchdKept DEF jobs, InstallPhases
  <2> QED
    BY <2>1, <2>2, <2>3, <2>4, <2>5
<1> QED
  BY <1>1, <1>2

LEMMA LaunchdHolds == CliShape /\ LaunchdOK => LaunchdAsInstalled
<1> SUFFICES ASSUME CliShape, LaunchdOK, platform = "darwin", NEW l \in Labels, ~torn, loaded[l] # installed[l]
             PROVE  \E x \in Procs : proc[x].cmd = "install" /\ LabelOf(x) = l
  BY DEF LaunchdAsInstalled
<1>1. PICK x \in Procs : proc[x].phase \in {"emptied", "filled", "unloaded"} /\ LabelOf(x) = l
  BY DEF LaunchdOK, Installing
<1>2. proc[x].cmd = "install"
  BY <1>1, ProcFacts DEF Sound
<1> QED
  BY <1>1, <1>2
-----------------------------------------------------------------------------
(* Cron expressions *)

(* Seconds, a bit more than 31 days: the longest interval whose expression  *)
(* has a step that cron takes.  The command takes any positive one.         *)
LongestInterval == 2719769

LEMMA RoundedToSixty ==
  ASSUME NEW n \in Nat \ {0}
  PROVE  /\ Rounded(n, 60) \in Nat \ {0} /\ n < 60 * Rounded(n, 60) + 30
         /\ 60 * Rounded(n, 60) <= n + 30 \/ Rounded(n, 60) = 1
<1> DEFINE i == (2 * n + 60) \div 120
<1>1. i \in Nat /\ 120 * i <= 2 * n + 60 /\ 2 * n + 60 < 120 * i + 120
  OBVIOUS
<1>2. Rounded(n, 60) = IF i < 1 THEN 1 ELSE i
  BY DEF Rounded, AtLeastOne
<1> HIDE DEF i
<1> QED
  BY <1>1, <1>2

LEMMA RoundedToDays ==
  ASSUME NEW n \in Nat \ {0}
  PROVE  /\ Rounded(n, 24) \in Nat \ {0} /\ n < 24 * Rounded(n, 24) + 12
         /\ 24 * Rounded(n, 24) <= n + 12 \/ Rounded(n, 24) = 1
<1> DEFINE i == (2 * n + 24) \div 48
<1>1. i \in Nat /\ 48 * i <= 2 * n + 24 /\ 2 * n + 24 < 48 * i + 48
  OBVIOUS
<1>2. Rounded(n, 24) = IF i < 1 THEN 1 ELSE i
  BY DEF Rounded, AtLeastOne
<1> HIDE DEF i
<1> QED
  BY <1>1, <1>2

LEMMA LongestIsANumber == LongestInterval \in Nat
BY SMT DEF LongestInterval

LEMMA DaysOfTheLongest ==
  ASSUME NEW sec \in Nat, NEW m \in Nat, NEW h \in Nat, NEW d \in Nat, sec <= LongestInterval,
         60 * m <= sec + 30 \/ m = 1, 60 * h <= m + 30 \/ h = 1, 24 * d <= h + 12 \/ d = 1
  PROVE  d <= 31
<1>1. m <= 45329
  BY SMT DEF LongestInterval
<1>2. h <= 755
  BY <1>1, SMT
<1> QED
  BY <1>2, SMT

LEMMA CronIsHonest == ASSUME Intervals \subseteq 1 .. LongestInterval PROVE CronHonest
<1> DEFINE Honest(sec, e) ==
             InRange(e) /\ (sec >= 60 => 3 * (e.step * Seconds[e.unit]) >= 2 * sec
                                        /\ 5 * (e.step * Seconds[e.unit]) <= 7 * sec)
<1> SUFFICES ASSUME NEW sec \in Intervals PROVE Honest(sec, IntervalToCronSchedule(sec))
  BY DEF CronHonest
<1>1. sec \in Nat \ {0} /\ sec <= LongestInterval
  <2>1. sec \in 1 .. LongestInterval
    OBVIOUS
  <2> QED
    BY <2>1, LongestIsANumber
<1> DEFINE m == Rounded(sec, 60)
           h == Rounded(m, 60)
           d == Rounded(h, 24)
<1>2. m \in Nat \ {0} /\ sec < 60 * m + 30 /\ (60 * m <= sec + 30 \/ m = 1)
  BY <1>1, RoundedToSixty
<1> HIDE DEF m
<1>3. h \in Nat \ {0} /\ m < 60 * h + 30 /\ (60 * h <= m + 30 \/ h = 1)
  BY <1>2, RoundedToSixty
<1> HIDE DEF h
<1>4. d \in Nat \ {0} /\ h < 24 * d + 12 /\ (24 * d <= h + 12 \/ d = 1)
  BY <1>3, RoundedToDays
<1> HIDE DEF d
<1>5. IntervalToCronSchedule(sec) =
        CASE m < 60 -> Every("minute", m)
          [] m >= 60 /\ h < 24 -> Every("hour", h)
          [] OTHER -> Every("day", d)
  BY DEF IntervalToCronSchedule, m, h, d
<1>6. CASE m < 60
  <2>1. IntervalToCronSchedule(sec) = Every("minute", m)
    BY <1>2, <1>5, <1>6
  <2>2. m \in 1 .. 59 /\ (sec >= 60 => 3 * (m * 60) >= 2 * sec /\ 5 * (m * 60) <= 7 * sec)
    BY <1>1, <1>2, <1>6, SMT
  <2>3. Honest(sec, Every("minute", m))
    BY <2>2, SMT DEF Every, Seconds, InRange
  <2> QED
    BY <2>1, <2>3
<1>7. CASE m >= 60 /\ h < 24
  <2>1. IntervalToCronSchedule(sec) = Every("hour", h)
    BY <1>2, <1>5, <1>7
  <2>2. h \in 1 .. 23 /\ 3 * (h * 3600) >= 2 * sec /\ 5 * (h * 3600) <= 7 * sec
    BY <1>1, <1>2, <1>3, <1>7, SMT
  <2>3. Honest(sec, Every("hour", h))
    BY <2>2, SMT DEF Every, Seconds, InRange
  <2> QED
    BY <2>1, <2>3
<1>8. CASE m >= 60 /\ h >= 24
  <2>1. IntervalToCronSchedule(sec) = Every("day", d)
    BY <1>2, <1>3, <1>5, <1>8
  <2>2. d <= 31
    BY <1>1, <1>2, <1>3, <1>4, <1>8, DaysOfTheLongest
  <2>3. 3 * (d * 86400) >= 2 * sec
    BY <1>1, <1>2, <1>3, <1>4, <1>8, SMT
  <2>4. 5 * (d * 86400) <= 7 * sec
    BY <1>1, <1>2, <1>3, <1>4, <1>8, SMT
  <2>5. d \in 1 .. 31
    BY <1>4, <2>2
  <2>6. Honest(sec, Every("day", d))
    BY <2>3, <2>4, <2>5, SMT DEF Every, Seconds, InRange
  <2> QED
    BY <2>1, <2>6
<1> QED
  BY <1>2, <1>3, <1>6, <1>7, <1>8
(* The next interval is rounded to 32 days: the comment of                  *)
(* intervalToCronSchedule, "never emitting an out-of-range */N that cron    *)
(* would reject or misinterpret", holds up to LongestInterval and no        *)
(* further.                                                                 *)
THEOREM CronOutOfRange ==
  /\ IntervalToCronSchedule(LongestInterval + 1) = Every("day", 32)
  /\ LongestInterval + 1 \in Intervals => ~CronHonest
<1>1. (2 * (LongestInterval + 1) + 60) \div 120 = 45330
  BY SMT DEF LongestInterval
<1>2. Rounded(LongestInterval + 1, 60) = 45330
  BY <1>1, SMT DEF Rounded, AtLeastOne
<1>3. Rounded(45330, 60) = 756
  BY SMT DEF Rounded, AtLeastOne
<1>4. Rounded(756, 24) = 32
  BY SMT DEF Rounded, AtLeastOne
<1>5. IntervalToCronSchedule(LongestInterval + 1) = Every("day", 32)
  BY <1>2, <1>3, <1>4 DEF IntervalToCronSchedule
<1>6. ~InRange(Every("day", 32))
  BY DEF InRange, Every
<1> QED
  BY <1>5, <1>6 DEF CronHonest
-----------------------------------------------------------------------------
(* The result *)

IInv == CliShape /\ ConfigOK /\ CrontabOK /\ LaunchdOK

LEMMA CliInduction == Spec => []IInv
<1>1. Init => IInv
  BY InitShape, InitConfig, InitCrontab, InitLaunchd DEF IInv
<1>2. IInv /\ [Next]_vars => IInv'
  BY StepShape, StepConfig, StepCrontab, StepLaunchd DEF IInv
<1> QED
  BY <1>1, <1>2, PTL DEF Spec

(* What the commands have saved is in the configuration and what they have  *)
(* installed is in the crontab or loaded by launchd, wherever no two of     *)
(* them met and none was killed or failed half way (config.ts, session.ts,  *)
(* scheduleInstall.ts).                                                     *)
THEOREM FilesAreKept == Spec => [](ConfigAsAsked /\ CrontabAsInstalled /\ LaunchdAsInstalled)
<1>1. IInv => ConfigAsAsked /\ CrontabAsInstalled /\ LaunchdAsInstalled
  BY ConfigHolds, CrontabHolds, LaunchdHolds DEF IInv
<1> QED
  BY <1>1, CliInduction, PTL

(* And the expressions that cron runs the commands by are in its ranges and *)
(* keep the pace of the intervals, for intervals up to LongestInterval.     *)
THEOREM WhatWasAskedIsKept ==
  ASSUME Intervals \subseteq 1 .. LongestInterval
  PROVE  Spec => []CommandsKept
<1>1. ConfigAsAsked /\ CrontabAsInstalled /\ LaunchdAsInstalled => CommandsKept
  BY CronIsHonest DEF CommandsKept
<1> QED
  BY <1>1, FilesAreKept, PTL
=============================================================================
