------------------------------- MODULE Worker --------------------------------
(***************************************************************************)
(* The agent-mq worker process (agent-mq run) against the server's task    *)
(* table: batches of concurrent runs, each of which claims a task, works   *)
(* on it under a heartbeat timer and reports its outcome, over HTTP calls  *)
(* whose requests may be slow and whose answers may be lost.               *)
(*                                                                         *)
(* The server's side of every call is an action of TaskQueue.  A call that *)
(* fails for the client (a network error, a 500) may have been served, may *)
(* still be served later (the server does not stop a handler when its      *)
(* client goes away), or may never be: its request is left unheard.        *)
(***************************************************************************)
EXTENDS TaskQueue

CONSTANTS
  Me,           \* the agent whose token the worker uses
  Runs,         \* bound: claim+run cycles alive at the same time
  Concurrency,  \* --concurrency
  MaxUnheard    \* bound: requests still to be served that nobody waits for

ASSUME WorkerAssumption ==
  Me \in Agents /\ NULL \notin Runs /\ Concurrency \in Nat \ {0} /\ MaxUnheard \in Nat

VARIABLES
  run,      \* the worker's calls of claimAndRunOne
  batch,    \* the runs that claimBatch is waiting for
  requests, \* HTTP requests the server has not served yet
  answers,  \* HTTP answers the worker has not received yet
  asker     \* per claim call of the server: the run that waits for it

workerVars == <<run, batch, requests, answers, asker>>
allVars == <<task, results, resting, topicRest, claim,
             run, batch, requests, answers, asker>>

Reports == {"success", "failure"}
Kinds == {"claim", "beat"} \union Reports

RunType == [phase : {"off", "claiming", "working", "reporting", "failing"},
            task  : Tasks \union {NULL},
            lost  : BOOLEAN]

OffRun == [phase |-> "off", task |-> NULL, lost |-> FALSE]

Request == [run : Runs \union {NULL}, kind : {"claim"}, task : {NULL}]
           \union [run : Runs \union {NULL}, kind : Kinds \ {"claim"}, task : Tasks]
Answer  == [run : Runs, kind : Kinds, status : {"ok", "409"},
            task : Tasks \union {NULL}]

Ask(i, k, t) == [run |-> i, kind |-> k, task |-> t]
Reply(q, status, t) ==
  IF q.run = NULL THEN {}
  ELSE {[run |-> q.run, kind |-> q.kind, status |-> status, task |-> t]}

AnswersTo(i, kinds) == {x \in answers : x.run = i /\ x.kind \in kinds}

(* The requests once the runs S do not wait for those of the given kinds.  *)
(* Beyond the bound MaxUnheard they are taken to be lost.                  *)
Unheard(S, kinds) ==
  LET left == {q \in requests : q.run \in S /\ q.kind \in kinds}
      unheard == {q \in requests : q.run = NULL} \union {[q EXCEPT !.run = NULL] : q \in left}
  IN  IF Cardinality(unheard) <= MaxUnheard
      THEN (requests \ left) \union unheard
      ELSE requests \ left

(* From its claim to its finally block a run has a heartbeat timer.        *)
HasTimer(i) == run[i].phase \in {"working", "reporting", "failing"}

WorkerInit ==
  /\ Init
  /\ run = [i \in Runs |-> OffRun]
  /\ batch = {}
  /\ requests = {} /\ answers = {}
  /\ asker = [c \in Calls |-> NULL]
-----------------------------------------------------------------------------
(* The worker's side *)

(* Mutant: an answer may be taken by a later run. *)
EndKeepsAnswers(i) ==
  /\ run' = [run EXCEPT ![i] = OffRun]
  /\ requests' = Unheard({i}, Kinds)
  /\ asker' = [c \in Calls |-> IF asker[c] = i THEN NULL ELSE asker[c]]
  /\ UNCHANGED <<vars, answers>>

(* Run i returns: its timer is cleared and nothing waits for its calls.    *)
End(i) ==
  /\ run' = [run EXCEPT ![i] = OffRun]
  /\ requests' = Unheard({i}, Kinds)
  /\ answers' = answers \ AnswersTo(i, Kinds)
  /\ asker' = [c \in Calls |-> IF asker[c] = i THEN NULL ELSE asker[c]]
  /\ UNCHANGED vars

Return(i) == End(i) /\ batch' = batch \ {i}

(* Run i calls api.complete with outcome k; whatever complete it was       *)
(* waiting for before has thrown.                                          *)
Report(i, k, phase) ==
  /\ run' = [run EXCEPT ![i].phase = phase]
  /\ requests' = Unheard({i}, Reports) \union {Ask(i, k, run[i].task)}
  /\ answers' = answers \ AnswersTo(i, Reports)
  /\ UNCHANGED <<vars, batch, asker>>

(* claimBatch, when the batch before has ended or was given up.  Claims    *)
(* whose answer is going to be null need not be started.                   *)
StartBatch ==
  /\ batch = {}
  /\ \E S \in SUBSET {i \in Runs : run[i].phase = "off"} :
       /\ S # {} /\ Cardinality(S) <= Concurrency
       /\ batch' = S
       /\ run' = [i \in Runs |-> IF i \in S THEN [OffRun EXCEPT !.phase = "claiming"]
                                 ELSE run[i]]
       /\ requests' = requests \union {Ask(i, "claim", NULL) : i \in S}
  /\ UNCHANGED <<vars, answers, asker>>

(* { task: null } ends the run; a task starts its handler and its timer.   *)
ClaimAnswered(i) ==
  \E x \in AnswersTo(i, {"claim"}) :
    \/ x.task = NULL /\ Return(i)
    \/ /\ x.task # NULL
       /\ run' = [run EXCEPT ![i].phase = "working", ![i].task = x.task]
       /\ answers' = answers \ {x}
       /\ UNCHANGED <<vars, batch, requests, asker>>

(* A claim that throws rejects the Promise.all of claimBatch: the loop     *)
(* goes on to its next batch while the other runs of this one go on too.   *)
ClaimFails(i) ==
  /\ run[i].phase = "claiming"
  /\ End(i) /\ batch' = {}

(* The handler returns or throws.  Nothing is reported on a lost lease.    *)
HandlerEnds(i) ==
  /\ run[i].phase = "working"
  /\ \/ run[i].lost /\ Return(i)
     \/ ~run[i].lost /\ Report(i, "success", "reporting")
     \/ ~run[i].lost /\ Report(i, "failure", "failing")

ReportAnswered(i) ==
  \E x \in AnswersTo(i, Reports) : x.status = "ok" /\ Return(i)

(* Mutant: the catch block does not look at leaseLost.                     *)
SuccessFailsBlindly(i) ==
  /\ run[i].phase = "reporting"
  /\ Report(i, "failure", "failing")

(* complete(success) throws, because of a 409 or of an error that says     *)
(* nothing about the server: the catch block reports a failure unless a    *)
(* heartbeat has found the lease lost.                                     *)
SuccessFails(i) ==
  /\ run[i].phase = "reporting"
  /\ \/ run[i].lost /\ Return(i)
     \/ ~run[i].lost /\ Report(i, "failure", "failing")

(* Mutant: the report is repeated until it is acknowledged.                *)
FailureRetries(i) ==
  /\ run[i].phase = "failing"
  /\ Report(i, "failure", "failing")

(* complete(failure) throws: it is logged and the run returns.             *)
FailureFails(i) ==
  /\ run[i].phase = "failing"
  /\ Return(i)

(* The timer fires.  At most one heartbeat of a run is followed at a time. *)
SendBeat(i) ==
  /\ HasTimer(i)
  /\ \A q \in requests : ~(q.run = i /\ q.kind = "beat")
  /\ AnswersTo(i, {"beat"}) = {}
  /\ requests' = requests \union {Ask(i, "beat", run[i].task)}
  /\ UNCHANGED <<vars, run, batch, answers, asker>>

(* Only a 409 is remembered; any other failure of a heartbeat is ignored.  *)
BeatEnds(i) ==
  /\ HasTimer(i)
  /\ \/ \E x \in AnswersTo(i, {"beat"}) :
          run' = [run EXCEPT ![i].lost = @ \/ x.status = "409"]
     \/ UNCHANGED run
  /\ requests' = Unheard({i}, {"beat"})
  /\ answers' = answers \ AnswersTo(i, {"beat"})
  /\ UNCHANGED <<vars, batch, asker>>

(* The process is killed (or --once exits on a rejected batch) and the     *)
(* scheduler entry that runs it starts it again.                           *)
Crash ==
  /\ \E i \in Runs : run[i].phase # "off"
  /\ run' = [i \in Runs |-> OffRun]
  /\ batch' = {}
  /\ requests' = Unheard(Runs, Kinds)
  /\ answers' = {}
  /\ asker' = [c \in Calls |-> NULL]
  /\ UNCHANGED vars
-----------------------------------------------------------------------------
(* The server's side *)

(* A request is served at most once.                                       *)
Served(q, reply) ==
  /\ requests' = requests \ {q}
  /\ answers' = answers \union reply
  /\ UNCHANGED <<run, batch, asker>>

(* Mutant: an expired or reassigned lease is renewed. *)
ServeBeatUnchecked(q) ==
  /\ q.kind = "beat"
  /\ ~Locked(q.task) /\ InFlight(q.task)
  /\ SetTask(q.task, [task[q.task] EXCEPT !.lease_expires_at = VisibilityTimeout])
  /\ UNCHANGED <<results, resting, topicRest, claim>>
  /\ Served(q, Reply(q, "ok", q.task))

ServeBeat(q) ==
  /\ q.kind = "beat"
  /\ \/ Heartbeat(Me, q.task) /\ Served(q, Reply(q, "ok", q.task))
     \/ /\ ~Locked(q.task) /\ ~LeaseIsValid(task[q.task], Me)
        /\ UNCHANGED vars /\ Served(q, Reply(q, "409", q.task))

(* Mutant: a report that comes too late is acknowledged all the same. *)
ServeReportPolitely(q) ==
  \/ q.kind = "success" /\ CompleteSuccess(Me, q.task) /\ Served(q, Reply(q, "ok", q.task))
  \/ q.kind = "failure" /\ CompleteFailure(Me, q.task) /\ Served(q, Reply(q, "ok", q.task))
  \/ /\ q.kind \in Reports /\ ~Locked(q.task) /\ ~LeaseIsValid(task[q.task], Me)
     /\ UNCHANGED vars /\ Served(q, Reply(q, "ok", q.task))

ServeReport(q) ==
  \/ q.kind = "success" /\ CompleteSuccess(Me, q.task) /\ Served(q, Reply(q, "ok", q.task))
  \/ q.kind = "failure" /\ CompleteFailure(Me, q.task) /\ Served(q, Reply(q, "ok", q.task))
  \/ /\ q.kind \in Reports /\ ~Locked(q.task) /\ ~LeaseIsValid(task[q.task], Me)
     /\ UNCHANGED vars /\ Served(q, Reply(q, "409", q.task))

(* A request that never reaches a handler, or whose handler fails.         *)
DropRequest(q) == UNCHANGED vars /\ Served(q, {})

(* A paused or resting agent is answered null at once. *)
RefuseClaim(q) ==
  /\ q.kind = "claim" /\ resting[Me]
  /\ UNCHANGED vars /\ Served(q, Reply(q, "ok", NULL))

BeginClaim(q, c) ==
  /\ q.kind = "claim"
  /\ ClaimAuth(c, Me)
  /\ requests' = requests \ {q}
  /\ asker' = [asker EXCEPT ![c] = q.run]
  /\ UNCHANGED <<run, batch, answers>>

(* The answer leaves when the call is over: after the COMMIT, or before    *)
(* with nothing claimed.                                                   *)
ServeClaim(c) ==
  LET t == IF claim[c].phase = "locked" THEN claim[c].task ELSE NULL
      q == Ask(asker[c], "claim", NULL)
  IN  /\ claim[c].agent = Me
      /\ ClaimCount(c) \/ ClaimTopics(c) \/ ClaimLock(c) \/ ClaimCommit(c)
      /\ IF claim'[c].phase = "idle"
         THEN /\ answers' = answers \union Reply(q, "ok", t)
              /\ asker' = [asker EXCEPT ![c] = NULL]
         ELSE UNCHANGED <<answers, asker>>
      /\ UNCHANGED <<run, batch, requests>>

(* 500: for the worker no different from an answer that is lost.           *)
AbortClaim(c) ==
  /\ ClaimAbort(c)
  /\ asker' = [asker EXCEPT ![c] = NULL]
  /\ UNCHANGED <<run, batch, requests, answers>>

(* A claim call of another agent. *)
OtherClaim(c) ==
  /\ claim[c].agent \in Agents \ {Me}
  /\ ClaimCount(c) \/ ClaimTopics(c) \/ ClaimLock(c) \/ ClaimCommit(c)
  /\ UNCHANGED workerVars

(* Everything else that happens to the task table. *)
QueueStep ==
  /\ \/ \E r \in Requests : Publish(r)
     \/ \E a \in Agents \ {Me} : \/ \E c \in Calls : ClaimAuth(c, a)
                                 \/ \E t \in Tasks : AgentStep(a, t)
     \/ ReclaimExpiredLeases
     \/ OperatorStep
     \/ Tick
  /\ UNCHANGED workerVars
-----------------------------------------------------------------------------
RunStep(i) ==
  \/ ClaimAnswered(i) \/ ClaimFails(i) \/ HandlerEnds(i)
  \/ ReportAnswered(i) \/ SuccessFails(i) \/ FailureFails(i)
  \/ SendBeat(i) \/ BeatEnds(i)

ServerStep ==
  \/ \E q \in requests : \/ ServeBeat(q) \/ ServeReport(q)
                         \/ RefuseClaim(q) \/ DropRequest(q)
                         \/ \E c \in Calls : BeginClaim(q, c)
  \/ \E c \in Calls : ServeClaim(c) \/ AbortClaim(c) \/ OtherClaim(c)

WorkerNext ==
  \/ StartBatch \/ Crash
  \/ \E i \in Runs : RunStep(i)
  \/ ServerStep
  \/ QueueStep

WorkerSpec == WorkerInit /\ [][WorkerNext]_allVars

(* fetch ends, with an answer or an error; handlers end; the server's      *)
(* clock and reaper run and its database answers.                          *)
WorkerFairness ==
  /\ \A i \in Runs : /\ WF_allVars(ClaimAnswered(i) \/ ClaimFails(i))
                     /\ WF_allVars(HandlerEnds(i))
                     /\ WF_allVars(ReportAnswered(i) \/ SuccessFails(i) \/ FailureFails(i))
  /\ SF_allVars(Tick /\ UNCHANGED workerVars)
  /\ WF_allVars(ReclaimExpiredLeases /\ UNCHANGED workerVars)
  /\ \A c \in Calls : WF_allVars(ServeClaim(c)) /\ WF_allVars(OtherClaim(c))

FairWorkerSpec == WorkerSpec /\ WorkerFairness
-----------------------------------------------------------------------------
(* Properties *)

(* The worker's own types, and what ties its parts together: a run that    *)
(* has a timer has a task, and only runs that have not returned are waited *)
(* for or answered, so no answer is ever taken for another run's.          *)
Alive(i) == run[i].phase # "off"

WorkerTypeOK ==
  /\ run \in [Runs -> RunType]
  /\ batch \subseteq {i \in Runs : Alive(i)}
  /\ requests \subseteq Request /\ answers \subseteq Answer
  /\ asker \in [Calls -> Runs \union {NULL}]
  /\ \A i \in Runs : HasTimer(i) <=> run[i].task # NULL
  /\ \A x \in answers : Alive(x.run)
  /\ \A q \in requests : q.run # NULL => Alive(q.run)
  /\ \A c \in Calls : asker[c] # NULL => Alive(asker[c])

(* A worker that is told its success counted is told the truth: the task   *)
(* is COMPLETED when the answer arrives, however long it took and whatever *)
(* the reaper and the other runs did meanwhile (unless it was requeued).   *)
AckedSuccessIsFinal ==
  \A x \in answers :
    x.kind = "success" /\ x.status = "ok" => task[x.task].status = "COMPLETED"

(* worker.ts of LeaseLostError: "the caller must not complete()".  A run   *)
(* whose heartbeat found the lease lost starts no report any more.         *)
LostRunIsSilent ==
  [][\A i \in Runs : \A q \in requests' \ requests :
       run[i].lost => ~(q.run = i /\ q.kind \in Reports)]_allVars

(* Whatever is lost, late or killed, every change of the task table is one *)
(* the server's handlers can make: what is true of TaskQueue holds here.   *)
ImplementsTaskQueue == Spec

(* A task this worker's agent was given does not stay with it: its run     *)
(* reports, or its lease is no longer renewed and the reaper takes it.  A  *)
(* crash, a lost claim answer, or a run that still heartbeats a task it    *)
(* has lost cannot keep it for ever.                                       *)
HeldByMe(t) == InFlight(t) /\ task[t].assigned_agent_id = Me
HeldTaskReleased == \A t \in Tasks : HeldByMe(t) ~> ~HeldByMe(t)
=============================================================================
