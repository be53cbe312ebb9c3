---------------------------- MODULE WorkerProofs -----------------------------
(***************************************************************************)
(* Proofs about Worker, for any number of runs, calls and requests.        *)
(***************************************************************************)
EXTENDS Worker, TaskQueueProofs

-----------------------------------------------------------------------------
(* The parts of a worker step *)

LEMMA UnheardRequests ==
  ASSUME WorkerTypeOK, NEW S, NEW kinds
  PROVE  /\ Unheard(S, kinds) \subseteq Request
         /\ \A q \in Unheard(S, kinds) :
              q.run = NULL \/ (q \in requests /\ ~(q.run \in S /\ q.kind \in kinds))
  <1>. DEFINE left == {q \in requests : q.run \in S /\ q.kind \in kinds}
  <1>1. \A q \in left : /\ [q EXCEPT !.run = NULL] \in Request
                        /\ [q EXCEPT !.run = NULL].run = NULL
    BY DEF WorkerTypeOK, Request
  <1>2. requests \subseteq Request
    BY DEF WorkerTypeOK
  <1>. QED
    BY <1>1, <1>2 DEF Unheard

(* A run that ends leaves nothing behind that waits for it. *)
LEMMA EndKeepsTypes ==
  ASSUME WorkerTypeOK, NEW i \in Runs, End(i), batch' \subseteq batch \ {i}
  PROVE  WorkerTypeOK'
  <1>1. /\ Unheard({i}, Kinds) \subseteq Request
        /\ \A q \in Unheard({i}, Kinds) : q.run = NULL \/ (q \in requests /\ q.run # i)
    BY UnheardRequests DEF WorkerTypeOK, Request, Kinds, Reports
  <1>2. run' \in [Runs -> RunType]
    BY DEF End, WorkerTypeOK, OffRun, RunType
  <1>3. \A j \in Runs \ {i} : run'[j] = run[j]
    BY DEF End, WorkerTypeOK
  <1>4. run'[i].phase = "off" /\ run'[i].task = NULL
    BY DEF End, WorkerTypeOK, OffRun
  <1>5. \A x \in answers' : x \in answers /\ x.run # i
    BY DEF End, AnswersTo, WorkerTypeOK, Answer
  <1>6. asker' \in [Calls -> Runs \union {NULL}]
        /\ \A c \in Calls : asker'[c] # NULL => asker'[c] = asker[c] /\ asker[c] # i
    BY DEF End, WorkerTypeOK
  <1>7. \A j \in Runs : HasTimer(j)' <=> run'[j].task # NULL
    BY <1>3, <1>4 DEF HasTimer, WorkerTypeOK
  <1>8. \A x \in answers : x.run \in Runs
    BY DEF WorkerTypeOK, Answer
  <1>9. \A q \in requests : q.run \in Runs \union {NULL}
    BY DEF WorkerTypeOK, Request
  <1>10. batch' \subseteq {j \in Runs : run'[j].phase # "off"}
    BY <1>3 DEF WorkerTypeOK, Alive
  <1>11. requests' \subseteq Request /\ \A q \in requests' : q.run # NULL => run'[q.run].phase # "off"
    BY <1>1, <1>3, <1>9 DEF End, WorkerTypeOK, Alive
  <1>12. answers' \subseteq Answer /\ \A x \in answers' : run'[x.run].phase # "off"
    BY <1>3, <1>5, <1>8 DEF WorkerTypeOK, Alive
  <1>13. \A c \in Calls : asker'[c] # NULL => run'[asker'[c]].phase # "off"
    BY <1>3, <1>6 DEF WorkerTypeOK, Alive
  <1>. QED
    BY <1>2, <1>6, <1>7, <1>10, <1>11, <1>12, <1>13 DEF WorkerTypeOK, Alive

(* A run that goes on, with at most new requests of its own. *)
LEMMA LiveKeepsTypes ==
  ASSUME WorkerTypeOK, NEW i \in Runs, NEW r \in RunType,
         run' = [run EXCEPT ![i] = r],
         r.phase # "off", r.phase # "claiming" <=> r.task # NULL,
         requests' \subseteq Request,
         \A q \in requests' : q.run # NULL => q.run = i \/ q \in requests,
         answers' \subseteq answers,
         UNCHANGED <<batch, asker>>
  PROVE  WorkerTypeOK'
  <1>1. run' \in [Runs -> RunType] /\ \A j \in Runs \ {i} : run'[j] = run[j]
    BY DEF WorkerTypeOK
  <1>2. run'[i] = r
    BY DEF WorkerTypeOK
  <1>3. \A j \in Runs : run[j].phase # "off" => run'[j].phase # "off"
    BY <1>1, <1>2
  <1>4. r.phase \in {"working", "reporting", "failing"} <=> r.task # NULL
    BY DEF RunType
  <1>5. \A j \in Runs : HasTimer(j)' <=> run'[j].task # NULL
    BY <1>1, <1>2, <1>4 DEF HasTimer, WorkerTypeOK
  <1>6. \A x \in answers : x.run \in Runs
    BY DEF WorkerTypeOK, Answer
  <1>7. \A q \in requests : q.run \in Runs \union {NULL}
    BY DEF WorkerTypeOK, Request
  <1>8. \A q \in requests' : q.run # NULL => run'[q.run].phase # "off"
    BY <1>2, <1>3, <1>7 DEF WorkerTypeOK, Alive
  <1>9. \A x \in answers' : run'[x.run].phase # "off"
    BY <1>3, <1>6 DEF WorkerTypeOK, Alive
  <1>. QED
    BY <1>1, <1>3, <1>5, <1>8, <1>9 DEF WorkerTypeOK, Alive

(* A run that reports: it has a task, for which it asks. *)
LEMMA ReportKeepsTypes ==
  ASSUME WorkerTypeOK, NEW i \in Runs, HasTimer(i),
         NEW k \in Reports, NEW phase \in {"reporting", "failing"}, Report(i, k, phase)
  PROVE  WorkerTypeOK'
  <1>. DEFINE r == [run[i] EXCEPT !.phase = phase]
  <1>1. r \in RunType /\ r.phase = phase /\ r.task = run[i].task /\ run[i].task \in Tasks
    BY DEF WorkerTypeOK, RunType
  <1>2. run' = [run EXCEPT ![i] = r]
    BY DEF Report
  <1>3. Ask(i, k, run[i].task) \in Request /\ Ask(i, k, run[i].task).run = i
    BY <1>1 DEF Ask, Request, Kinds, Reports
  <1>4. /\ Unheard({i}, Reports) \subseteq Request
        /\ \A q \in Unheard({i}, Reports) : q.run = NULL \/ q \in requests
    BY UnheardRequests
  <1>5. r.task # NULL
    BY <1>1 DEF WorkerTypeOK
  <1>. HIDE DEF r
  <1>6. requests' \subseteq Request /\ \A q \in requests' : q.run # NULL => q.run = i \/ q \in requests
    BY <1>3, <1>4 DEF Report
  <1>. QED
    BY <1>1, <1>2, <1>5, <1>6, LiveKeepsTypes DEF Report

(* What the server does to the worker's calls. *)
LEMMA ServerKeepsTypes ==
  ASSUME WorkerTypeOK, UNCHANGED <<run, batch>>,
         requests' \subseteq requests, answers' \subseteq Answer,
         \A x \in answers' : x \in answers \/ Alive(x.run),
         asker' \in [Calls -> Runs \union {NULL}],
         \A c \in Calls : asker'[c] # NULL => Alive(asker'[c])
  PROVE  WorkerTypeOK'
  BY DEF WorkerTypeOK, Alive, HasTimer

LEMMA RepliesTyped ==
  ASSUME WorkerTypeOK, NEW q, q.run # NULL => q.run \in Runs /\ Alive(q.run),
         q.kind \in Kinds, NEW status \in {"ok", "409"}, NEW t \in Tasks \union {NULL}
  PROVE  /\ Reply(q, status, t) \subseteq Answer
         /\ \A x \in Reply(q, status, t) : Alive(x.run)
  BY DEF Reply, Answer

LEMMA RequestFacts ==
  ASSUME WorkerTypeOK, NEW q \in requests
  PROVE  /\ q.run # NULL => q.run \in Runs /\ Alive(q.run)
         /\ q.kind \in Kinds
         /\ q.kind # "claim" => q.task \in Tasks
         /\ q.task \in Tasks \union {NULL}
  BY DEF WorkerTypeOK, Request, Kinds
-----------------------------------------------------------------------------
(* Every step keeps the worker's types *)

LEMMA RunTypes ==
  ASSUME WorkerTypeOK, NEW i \in Runs, RunStep(i)
  PROVE  WorkerTypeOK'
  <1>1. ASSUME Return(i) PROVE WorkerTypeOK'
    BY <1>1, EndKeepsTypes DEF Return
  <1>2. CASE ClaimAnswered(i)
    <2>1. PICK x \in AnswersTo(i, {"claim"}) :
             \/ x.task = NULL /\ Return(i)
             \/ /\ x.task # NULL
                /\ run' = [run EXCEPT ![i].phase = "working", ![i].task = x.task]
                /\ answers' = answers \ {x}
                /\ UNCHANGED <<vars, batch, requests, asker>>
      BY <1>2 DEF ClaimAnswered
    <2>2. CASE Return(i)
      BY <1>1, <2>2
    <2>3. CASE ~Return(i)
      <3>. DEFINE r == [run[i] EXCEPT !.phase = "working", !.task = x.task]
      <3>1. x.task \in Tasks /\ x.task # NULL
        BY <2>1, <2>3 DEF AnswersTo, WorkerTypeOK, Answer
      <3>2. r \in RunType /\ r.phase = "working" /\ r.task = x.task
        BY <3>1 DEF WorkerTypeOK, RunType
      <3>3. run' = [run EXCEPT ![i] = r]
        BY <2>1, <2>3 DEF WorkerTypeOK
      <3>. HIDE DEF r
      <3>. QED
        BY <2>1, <2>3, <3>1, <3>2, <3>3, LiveKeepsTypes DEF WorkerTypeOK
    <2>. QED
      BY <2>2, <2>3
  <1>3. CASE ClaimFails(i)
    BY <1>3, EndKeepsTypes DEF ClaimFails
  <1>4. CASE HandlerEnds(i)
    <2>1. HasTimer(i)
      BY <1>4 DEF HandlerEnds, HasTimer
    <2>. QED
      BY <1>1, <1>4, <2>1, ReportKeepsTypes DEF HandlerEnds, Reports
  <1>5. CASE ReportAnswered(i)
    BY <1>1, <1>5 DEF ReportAnswered
  <1>6. CASE SuccessFails(i)
    <2>1. HasTimer(i)
      BY <1>6 DEF SuccessFails, HasTimer
    <2>. QED
      BY <1>1, <1>6, <2>1, ReportKeepsTypes DEF SuccessFails, Reports
  <1>7. CASE FailureFails(i)
    BY <1>1, <1>7 DEF FailureFails
  <1>8. CASE SendBeat(i)
    <2>1. run[i] \in RunType /\ run[i].task \in Tasks /\ run[i].task # NULL
      BY <1>8 DEF SendBeat, WorkerTypeOK, RunType
    <2>2. Ask(i, "beat", run[i].task) \in Request /\ Ask(i, "beat", run[i].task).run = i
      BY <2>1 DEF Ask, Request, Kinds
    <2>3. run' = [run EXCEPT ![i] = run[i]]
      BY <1>8 DEF SendBeat, WorkerTypeOK
    <2>4. requests' \subseteq Request
          /\ \A q \in requests' : q.run # NULL => q.run = i \/ q \in requests
      BY <1>8, <2>2 DEF SendBeat, WorkerTypeOK
    <2>5. run[i].phase \notin {"off", "claiming"}
      BY <1>8 DEF SendBeat, HasTimer
    <2>. QED
      BY <1>8, <2>1, <2>3, <2>4, <2>5, LiveKeepsTypes DEF SendBeat
  <1>9. CASE BeatEnds(i)
    <2>1. PICK l \in BOOLEAN : run' = [run EXCEPT ![i].lost = l]
      <3>1. CASE run' = run
        BY <3>1 DEF WorkerTypeOK, RunType
      <3>2. CASE \E x \in AnswersTo(i, {"beat"}) :
                   run' = [run EXCEPT ![i].lost = @ \/ x.status = "409"]
        BY <3>2
      <3>. QED
        BY <1>9, <3>1, <3>2 DEF BeatEnds
    <2>. DEFINE r == [run[i] EXCEPT !.lost = l]
    <2>2. r \in RunType /\ r.phase = run[i].phase /\ r.task = run[i].task
      BY DEF WorkerTypeOK, RunType
    <2>3. run' = [run EXCEPT ![i] = r]
      BY <2>1
    <2>4. r.phase \notin {"off", "claiming"} /\ r.task # NULL
      BY <1>9, <2>2 DEF BeatEnds, HasTimer, WorkerTypeOK
    <2>5. requests' \subseteq Request /\ \A q \in requests' : q.run # NULL => q \in requests
      BY <1>9, UnheardRequests DEF BeatEnds
    <2>. HIDE DEF r
    <2>. QED
      BY <1>9, <2>2, <2>3, <2>4, <2>5, LiveKeepsTypes DEF BeatEnds
  <1>. QED
    BY <1>2, <1>3, <1>4, <1>5, <1>6, <1>7, <1>8, <1>9 DEF RunStep

LEMMA StartTypes ==
  ASSUME WorkerTypeOK, StartBatch
  PROVE  WorkerTypeOK'
  <1>1. PICK S \in SUBSET {i \in Runs : run[i].phase = "off"} :
          /\ batch' = S
          /\ run' = [i \in Runs |-> IF i \in S THEN [OffRun EXCEPT !.phase = "claiming"]
                                    ELSE run[i]]
          /\ requests' = requests \union {Ask(i, "claim", NULL) : i \in S}
    BY DEF StartBatch
  <1>2. run' \in [Runs -> RunType]
    BY <1>1 DEF WorkerTypeOK, OffRun, RunType
  <1>3. \A i \in S : run'[i].phase = "claiming" /\ run'[i].task = NULL
    BY <1>1 DEF OffRun
  <1>4. \A i \in Runs \ S : run'[i] = run[i]
    BY <1>1
  <1>5. \A i \in Runs : run[i].phase # "off" => run'[i].phase # "off"
    BY <1>3, <1>4
  <1>6. \A i \in S : Ask(i, "claim", NULL) \in Request /\ Ask(i, "claim", NULL).run = i
    BY DEF Ask, Request
  <1>7. \A i \in Runs : HasTimer(i)' <=> run'[i].task # NULL
    BY <1>3, <1>4 DEF HasTimer, WorkerTypeOK
  <1>8. /\ requests' \subseteq Request
        /\ \A q \in requests' : q \in requests \/ q.run \in S
    BY <1>1, <1>6 DEF WorkerTypeOK
  <1>9. /\ \A q \in requests : q.run \in Runs \union {NULL}
        /\ \A x \in answers : x.run \in Runs
    BY DEF WorkerTypeOK, Request, Answer
  <1>10. \A q \in requests' : q.run # NULL => run'[q.run].phase # "off"
    BY <1>3, <1>5, <1>8, <1>9 DEF WorkerTypeOK, Alive
  <1>11. \A x \in answers : run'[x.run].phase # "off"
    BY <1>5, <1>9 DEF WorkerTypeOK, Alive
  <1>12. batch' \subseteq {i \in Runs : run'[i].phase # "off"}
    BY <1>1, <1>3
  <1>13. UNCHANGED <<answers, asker>>
    BY DEF StartBatch
  <1>14. \A c \in Calls : asker[c] # NULL => run'[asker[c]].phase # "off"
    BY <1>5 DEF WorkerTypeOK, Alive
  <1>. QED
    BY <1>2, <1>7, <1>8, <1>10, <1>11, <1>12, <1>13, <1>14 DEF WorkerTypeOK, Alive

(* A new process starts with nothing the old one left. *)
LEMMA CrashTypes ==
  ASSUME WorkerTypeOK, Crash
  PROVE  WorkerTypeOK'
  <1>1. \A q \in Unheard(Runs, Kinds) : q.run = NULL
    <2>1. \A q \in requests : q.run \in Runs \union {NULL} /\ q.kind \in Kinds
      BY DEF WorkerTypeOK, Request, Kinds
    <2>. QED
      BY <2>1, UnheardRequests
  <1>2. requests' \subseteq Request /\ \A q \in requests' : q.run = NULL
    BY <1>1, UnheardRequests DEF Crash
  <1>3. run' \in [Runs -> RunType] /\ \A i \in Runs : run'[i] = OffRun
    BY DEF Crash, OffRun, RunType
  <1>4. \A i \in Runs : HasTimer(i)' <=> run'[i].task # NULL
    BY <1>3 DEF HasTimer, OffRun
  <1>. QED
    BY <1>2, <1>3, <1>4 DEF Crash, WorkerTypeOK

LEMMA ServedTypes ==
  ASSUME WorkerTypeOK, NEW q \in requests,
         NEW status \in {"ok", "409"}, NEW t \in Tasks \union {NULL},
         \/ Served(q, Reply(q, status, t))
         \/ Served(q, {})
  PROVE  WorkerTypeOK'
  <1>1. /\ Reply(q, status, t) \subseteq Answer
        /\ \A x \in Reply(q, status, t) : Alive(x.run)
    BY RequestFacts, RepliesTyped
  <1>2. /\ answers' \subseteq Answer
        /\ \A x \in answers' : x \in answers \/ Alive(x.run)
    BY <1>1 DEF Served, WorkerTypeOK
  <1>. QED
    BY <1>2, ServerKeepsTypes DEF Served, WorkerTypeOK

LEMMA ServeTypes ==
  ASSUME WorkerTypeOK, NEW q \in requests,
         ServeBeat(q) \/ ServeReport(q) \/ RefuseClaim(q) \/ DropRequest(q)
  PROVE  WorkerTypeOK'
  <1>1. q.task \in Tasks \union {NULL}
    BY RequestFacts
  <1>2. \/ \E status \in {"ok", "409"} :
             Served(q, Reply(q, status, q.task)) \/ Served(q, Reply(q, status, NULL))
        \/ Served(q, {})
    BY DEF ServeBeat, ServeReport, RefuseClaim, DropRequest
  <1>. QED
    BY <1>1, <1>2, ServedTypes

LEMMA ClaimTypes ==
  ASSUME WorkerTypeOK, ClaimsSound, NEW c \in Calls,
         \/ ServeClaim(c) \/ AbortClaim(c) \/ OtherClaim(c)
         \/ \E q \in requests : BeginClaim(q, c)
  PROVE  WorkerTypeOK'
  <1>1. CASE ServeClaim(c)
    <2>. DEFINE t == IF claim[c].phase = "locked" THEN claim[c].task ELSE NULL
                q == Ask(asker[c], "claim", NULL)
    <2>1. t \in Tasks \union {NULL}
      BY DEF ClaimsSound
    <2>2. q.kind \in Kinds /\ (q.run # NULL => q.run \in Runs /\ Alive(q.run))
      BY DEF Ask, Kinds, WorkerTypeOK
    <2>3. /\ Reply(q, "ok", t) \subseteq Answer
          /\ \A x \in Reply(q, "ok", t) : Alive(x.run)
      BY <2>1, <2>2, RepliesTyped
    <2>4. \/ answers' = answers \union Reply(q, "ok", t) /\ asker' = [asker EXCEPT ![c] = NULL]
          \/ answers' = answers /\ asker' = asker
      BY <1>1 DEF ServeClaim
    <2>5. UNCHANGED <<run, batch, requests>>
      BY <1>1 DEF ServeClaim
    <2>. HIDE DEF t, q
    <2>6. answers' \subseteq Answer /\ \A x \in answers' : x \in answers \/ Alive(x.run)
      BY <2>3, <2>4 DEF WorkerTypeOK
    <2>7. /\ asker' \in [Calls -> Runs \union {NULL}]
          /\ \A d \in Calls : asker'[d] # NULL => Alive(asker'[d])
      BY <2>4 DEF WorkerTypeOK
    <2>. QED
      BY <2>5, <2>6, <2>7, ServerKeepsTypes
  <1>2. CASE AbortClaim(c)
    <2>1. /\ asker' \in [Calls -> Runs \union {NULL}]
          /\ \A d \in Calls : asker'[d] # NULL => Alive(asker'[d])
      BY <1>2 DEF AbortClaim, WorkerTypeOK
    <2>. QED
      BY <1>2, <2>1, ServerKeepsTypes DEF AbortClaim, WorkerTypeOK
  <1>3. CASE OtherClaim(c)
    BY <1>3, ServerKeepsTypes DEF OtherClaim, workerVars, WorkerTypeOK
  <1>4. CASE \E q \in requests : BeginClaim(q, c)
    <2>1. PICK q \in requests : BeginClaim(q, c)
      BY <1>4
    <2>2. /\ asker' \in [Calls -> Runs \union {NULL}]
          /\ \A d \in Calls : asker'[d] # NULL => Alive(asker'[d])
      BY <2>1, RequestFacts DEF BeginClaim, WorkerTypeOK
    <2>. QED
      BY <2>1, <2>2, ServerKeepsTypes DEF BeginClaim, WorkerTypeOK
  <1>. QED
    BY <1>1, <1>2, <1>3, <1>4

LEMMA WorkerTypesStep ==
  ASSUME WorkerTypeOK, ClaimsSound, [WorkerNext]_allVars
  PROVE  WorkerTypeOK'
  <1>1. CASE StartBatch \/ Crash
    BY <1>1, StartTypes, CrashTypes
  <1>2. CASE \E i \in Runs : RunStep(i)
    BY <1>2, RunTypes
  <1>3. CASE ServerStep
    BY <1>3, ServeTypes, ClaimTypes DEF ServerStep
  <1>4. CASE QueueStep
    BY <1>4, ServerKeepsTypes DEF QueueStep, workerVars, WorkerTypeOK
  <1>5. CASE UNCHANGED allVars
    BY <1>5, ServerKeepsTypes DEF allVars, WorkerTypeOK
  <1>. QED
    BY <1>1, <1>2, <1>3, <1>4, <1>5 DEF WorkerNext
-----------------------------------------------------------------------------
(* Every step is a step of TaskQueue, or changes nothing there *)

LEMMA ServingImplements ==
  ASSUME WorkerTypeOK, NEW q \in requests,
         ServeBeat(q) \/ ServeReport(q) \/ RefuseClaim(q) \/ DropRequest(q)
  PROVE  [Next]_vars
  <1>1. q.kind \in Reports \union {"beat"} => q.task \in Tasks
    BY RequestFacts DEF Reports
  <1>2. CASE ServeBeat(q)
    BY <1>1, <1>2, WorkerAssumption DEF ServeBeat, Next, AgentStep
  <1>3. CASE ServeReport(q)
    BY <1>1, <1>3, WorkerAssumption DEF ServeReport, Reports, Next, AgentStep
  <1>4. CASE RefuseClaim(q) \/ DropRequest(q)
    BY <1>4 DEF RefuseClaim, DropRequest
  <1>. QED
    BY <1>2, <1>3, <1>4

LEMMA ClaimingImplements ==
  ASSUME NEW c \in Calls,
         \/ ServeClaim(c) \/ AbortClaim(c) \/ OtherClaim(c)
         \/ \E q \in requests : BeginClaim(q, c)
  PROVE  Next
  BY WorkerAssumption
     DEF ServeClaim, AbortClaim, OtherClaim, BeginClaim, Next, ClaimStep

LEMMA WorkerStepImplements ==
  ASSUME WorkerTypeOK, [WorkerNext]_allVars
  PROVE  [Next]_vars
  <1>1. CASE StartBatch \/ Crash
    BY <1>1 DEF StartBatch, Crash
  <1>2. CASE \E i \in Runs : RunStep(i)
    BY <1>2 DEF RunStep, ClaimAnswered, ClaimFails, HandlerEnds, ReportAnswered,
                SuccessFails, FailureFails, SendBeat, BeatEnds, Return, End, Report
  <1>3. CASE ServerStep
    BY <1>3, ServingImplements, ClaimingImplements DEF ServerStep
  <1>4. CASE QueueStep
    BY <1>4 DEF QueueStep, Next, ClaimStep
  <1>5. CASE UNCHANGED allVars
    BY <1>5 DEF allVars, vars
  <1>. QED
    BY <1>1, <1>2, <1>3, <1>4, <1>5 DEF WorkerNext

LEMMA WorkerInvariance == WorkerSpec => [](IInv /\ WorkerTypeOK)
  <1>1. WorkerInit => IInv /\ WorkerTypeOK
    <2>1. ASSUME WorkerInit PROVE WorkerTypeOK
      BY <2>1, WorkerAssumption DEF WorkerInit, WorkerTypeOK, OffRun, RunType, Alive, HasTimer
    <2>. QED
      BY <2>1, InitIInv DEF WorkerInit
  <1>2. IInv /\ WorkerTypeOK /\ [WorkerNext]_allVars => (IInv /\ WorkerTypeOK)'
    <2>1. IInv => ClaimsSound
      BY DEF IInv
    <2>. QED
      BY <2>1, NextIInv, WorkerTypesStep, WorkerStepImplements
  <1>. QED
    BY <1>1, <1>2, PTL DEF WorkerSpec
-----------------------------------------------------------------------------
(* Theorems *)

(* No answer of the server is taken for another run's, and a run heartbeats*)
(* and reports only a task that a claim gave it, however many runs of      *)
(* rejected batches are still alive.                                       *)
THEOREM WorkerTypeCorrect == WorkerSpec => []WorkerTypeOK
  BY WorkerInvariance, PTL

(* The worker, its crashes and its lost and late HTTP calls add nothing to *)
(* what the server's handlers do to the task table.                        *)
THEOREM WorkerImplements == WorkerSpec => ImplementsTaskQueue
  <1>1. WorkerInit => Init
    BY DEF WorkerInit
  <1>2. WorkerTypeOK /\ [WorkerNext]_allVars => [Next]_vars
    BY WorkerStepImplements
  <1>. QED
    BY <1>1, <1>2, WorkerTypeCorrect, PTL DEF WorkerSpec, ImplementsTaskQueue, Spec

(* A run that has found its lease lost never reports: only the run itself  *)
(* makes its requests, and it reads its flag before each report.           *)
THEOREM LostRunsAreSilent == WorkerSpec => LostRunIsSilent
  <1>. DEFINE Silent == \A i \in Runs : \A q \in requests' \ requests :
                          run[i].lost => ~(q.run = i /\ q.kind \in Reports)
  <1>1. ASSUME WorkerTypeOK, WorkerNext, NEW i \in Runs, NEW q \in requests' \ requests,
               run[i].lost, q.run = i, q.kind \in Reports
        PROVE  FALSE
    <2>1. i # NULL
      BY WorkerAssumption
    <2>2. \A S, kinds : q \notin Unheard(S, kinds)
      BY <1>1, <2>1, UnheardRequests
    <2>3. CASE StartBatch
      BY <1>1, <2>3 DEF StartBatch, Ask, Reports
    <2>4. CASE Crash
      BY <1>1, <2>2, <2>4 DEF Crash
    <2>5. ASSUME NEW j \in Runs, RunStep(j) PROVE FALSE
      <3>1. ASSUME NEW k, NEW phase, Report(j, k, phase) PROVE j = i
        BY <1>1, <2>2, <3>1 DEF Report, Ask
      <3>2. ~Return(j) /\ ~ClaimFails(j) /\ ~BeatEnds(j)
        BY <1>1, <2>2 DEF Return, ClaimFails, End, BeatEnds
      <3>3. ~SendBeat(j)
        BY <1>1 DEF SendBeat, Ask, Reports
      <3>4. ~ClaimAnswered(j) /\ ~ReportAnswered(j) /\ ~FailureFails(j)
        BY <1>1, <3>2 DEF ClaimAnswered, ReportAnswered, FailureFails
      <3>5. ~HandlerEnds(j) /\ ~SuccessFails(j)
        BY <1>1, <3>1, <3>2 DEF HandlerEnds, SuccessFails
      <3>. QED
        BY <2>5, <3>2, <3>3, <3>4, <3>5 DEF RunStep
    <2>6. CASE ServerStep
      BY <1>1, <2>6 DEF ServerStep, ServeBeat, ServeReport, RefuseClaim, DropRequest, Served,
                        BeginClaim, ServeClaim, AbortClaim, OtherClaim, workerVars
    <2>7. CASE QueueStep
      BY <1>1, <2>7 DEF QueueStep, workerVars
    <2>. QED
      BY <1>1, <2>3, <2>4, <2>5, <2>6, <2>7 DEF WorkerNext
  <1>2. WorkerTypeOK /\ [WorkerNext]_allVars => [Silent]_allVars
    BY <1>1
  <1>. QED
    BY <1>2, WorkerTypeCorrect, PTL DEF WorkerSpec, LostRunIsSilent
-----------------------------------------------------------------------------
(* What an acknowledged success is worth *)

(* Only requeue takes a COMPLETED task back: no claim selects it, no call   *)
(* of an agent finds a valid lease on it although it keeps one, and cancel, *)
(* stop and the reaper look at its status.                                  *)
LEMMA CompletedStays ==
  ASSUME IInv, [Next]_vars, NEW t \in Tasks, task[t].status = "COMPLETED",
         "requeue" \notin OperatorCalls
  PROVE  task'[t].status = "COMPLETED"
  <1>0. task \in [Tasks -> Row] /\ task[t] \in Row /\ ~InFlight(t) /\ Published(t) /\ Terminal(t)
    BY DEF IInv, TypeOK, InFlight, INFLIGHT_STATUSES, Published, Terminal
  <1>1. ASSUME NEW r \in Requests, Publish(r) PROVE task'[t] = task[t]
    <2>1. PICK u \in Tasks :
            /\ ~Published(u)
            /\ task' = [task EXCEPT ![u] =
                          [AbsentRow EXCEPT !.req = r, !.status = "PENDING",
                                            !.visible_after = r.delay,
                                            !.scheduled_for = r.delay]]
      BY <1>1 DEF Publish
    <2>. QED
      BY <1>0, <2>1
  <1>2. ASSUME NEW c \in Calls, ClaimStep(c) \/ ClaimAbort(c) PROVE task'[t] = task[t]
    <2>1. CASE ClaimCommit(c)
      BY <1>0, <2>1 DEF ClaimCommit, IInv, ClaimsSound
    <2>2. CASE ~ClaimCommit(c)
      BY <1>2, <2>2 DEF ClaimStep, ClaimAbort, ClaimAuth, ClaimCount, ClaimTopics, ClaimLock
    <2>. QED
      BY <2>1, <2>2
  <1>3. ASSUME NEW a \in Agents, NEW u \in Tasks, AgentStep(a, u) PROVE task'[t] = task[t]
    <2>1. LeaseIsValid(task[u], a) /\ \E row : SetTask(u, row)
      BY <1>3 DEF AgentStep, Heartbeat, Checkpoint, CompleteSuccess, CompleteFailure
    <2>2. u # t
      BY <1>0, <2>1 DEF LeaseIsValid, InFlight
    <2>. QED
      BY <1>0, <2>1, <2>2 DEF SetTask
  <1>4. CASE ReclaimExpiredLeases
    BY <1>0, <1>4 DEF ReclaimExpiredLeases, Expired
  <1>5. CASE OperatorStep
    <2>1. CASE task' = task
      BY <2>1
    <2>2. ASSUME NEW u \in Tasks, Cancel(u) \/ \E x \in Agents \union {NULL} : Stop(u, x)
          PROVE  task'[t] = task[t]
      <3>1. u # t /\ \E row : SetTask(u, row)
        BY <1>0, <2>2 DEF Cancel, Stop
      <3>. QED
        BY <1>0, <3>1 DEF SetTask
    <2>3. ASSUME NEW u \in Tasks, NEW a \in Agents, Reassign(u, a)
          PROVE  task'[t].status = task[t].status
      <3>1. CASE u = t
        BY <1>0, <2>3, <3>1 DEF Reassign, SetTask, Row
      <3>2. CASE u # t
        BY <1>0, <2>3, <3>2 DEF Reassign, SetTask
      <3>. QED
        BY <3>1, <3>2
    <2>. QED
      BY <1>5, <2>1, <2>2, <2>3 DEF OperatorStep, SetResting, SetTopicRest
  <1>6. CASE Tick
    BY <1>0, <1>6 DEF Tick, Older, Row
  <1>7. CASE UNCHANGED vars
    BY <1>7 DEF vars
  <1>. QED
    BY <1>1, <1>2, <1>3, <1>4, <1>5, <1>6, <1>7 DEF Next

(* "ok" is the answer to a success that was recorded, and to no other.      *)
LEMMA AcksAreServed ==
  ASSUME IInv, WorkerTypeOK, [WorkerNext]_allVars,
         NEW x \in answers', x \notin answers, x.kind = "success", x.status = "ok"
  PROVE  x.task \in Tasks /\ task'[x.task].status = "COMPLETED"
  <1>1. CASE answers' \subseteq answers
    BY <1>1
  <1>2. ASSUME NEW q \in requests,
               ServeBeat(q) \/ ServeReport(q) \/ RefuseClaim(q) \/ DropRequest(q)
        PROVE  x.task \in Tasks /\ task'[x.task].status = "COMPLETED"
    <2>1. \A status, t : x \in Reply(q, status, t) =>
             x.kind = q.kind /\ x.status = status /\ x.task = t
      BY DEF Reply
    <2>2. q.kind = "success" /\ CompleteSuccess(Me, q.task) /\ x.task = q.task
      BY <1>2, <2>1 DEF ServeBeat, ServeReport, RefuseClaim, DropRequest, Served, Reports
    <2>3. q.task \in Tasks
      BY <2>2, RequestFacts
    <2>4. task \in [Tasks -> Row] /\ task[q.task] \in Row
      BY <2>3 DEF IInv, TypeOK
    <2>. QED
      BY <2>2, <2>3, <2>4 DEF CompleteSuccess, SetTask, Row
  <1>3. ASSUME NEW c \in Calls, ServeClaim(c)
        PROVE  FALSE
    BY <1>3 DEF ServeClaim, Reply, Ask
  <1>4. StartBatch \/ Crash \/ (\E i \in Runs : RunStep(i)) \/ QueueStep \/ UNCHANGED allVars
          => answers' \subseteq answers
    <2>1. ASSUME NEW i \in Runs, RunStep(i) PROVE answers' \subseteq answers
      BY <2>1 DEF RunStep, ClaimAnswered, ClaimFails, HandlerEnds, ReportAnswered, SuccessFails,
                  FailureFails, SendBeat, BeatEnds, Return, End, Report
    <2>. QED
      BY <2>1 DEF StartBatch, Crash, QueueStep, workerVars, allVars
  <1>5. ASSUME NEW c \in Calls,
               AbortClaim(c) \/ OtherClaim(c) \/ \E q \in requests : BeginClaim(q, c)
        PROVE  answers' \subseteq answers
    BY <1>5 DEF AbortClaim, OtherClaim, BeginClaim, workerVars
  <1>. QED
    BY <1>1, <1>2, <1>3, <1>4, <1>5 DEF WorkerNext, ServerStep

(* The answer that a success counted is true when it arrives, however late, *)
(* as long as operators do not requeue finished tasks.                      *)
THEOREM AcksAreFinal ==
  ASSUME "requeue" \notin OperatorCalls
  PROVE  WorkerSpec => []AckedSuccessIsFinal
  <1>. DEFINE Kept == \A x \in answers : x.kind = "success" /\ x.status = "ok" =>
                        x.task \in Tasks /\ task[x.task].status = "COMPLETED"
  <1>1. WorkerInit => Kept
    BY DEF WorkerInit
  <1>2. ASSUME IInv, WorkerTypeOK, Kept, [WorkerNext]_allVars PROVE Kept'
    <2>1. [Next]_vars
      BY <1>2, WorkerStepImplements
    <2>. SUFFICES ASSUME NEW x \in answers', x.kind = "success", x.status = "ok"
                  PROVE  x.task \in Tasks /\ task'[x.task].status = "COMPLETED"
      OBVIOUS
    <2>2. CASE x \in answers
      BY <1>2, <2>1, <2>2, CompletedStays
    <2>3. CASE x \notin answers
      BY <1>2, <2>3, AcksAreServed
    <2>. QED
      BY <2>2, <2>3
  <1>3. Kept => AckedSuccessIsFinal
    BY DEF AckedSuccessIsFinal
  <1>. HIDE DEF Kept
  <1>. QED
    BY <1>1, <1>2, <1>3, WorkerInvariance, PTL DEF WorkerSpec
=============================================================================
