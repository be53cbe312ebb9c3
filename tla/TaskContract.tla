----------------------------- MODULE TaskContract ----------------------------
(***************************************************************************)
(* What the queue promises, without leases, timers, routing or claim       *)
(* transactions: a task is open, or held by exactly one agent, or settled. *)
(* It changes hands only by becoming open again, a success is final, and   *)
(* every other end of an attempt either costs one of its retries or is an  *)
(* operator's decision.                                                    *)
(***************************************************************************)
EXTENDS Integers

CONSTANTS Agents, Tasks, Nobody,
          Budgets   \* the numbers of retries a publisher may allow

VARIABLES
  stage,   \* absent, open, held, done or dead
  holder,  \* the agent that holds a task
  budget,  \* retries the publisher allows
  spent    \* attempts charged since the task was opened afresh

vars == <<stage, holder, budget, spent>>

Init ==
  /\ stage = [t \in Tasks |-> "absent"]
  /\ holder = [t \in Tasks |-> Nobody]
  /\ budget = [t \in Tasks |-> 0]
  /\ spent = [t \in Tasks |-> 0]

Publish(t, b) ==
  /\ stage[t] = "absent"
  /\ stage' = [stage EXCEPT ![t] = "open"]
  /\ budget' = [budget EXCEPT ![t] = b]
  /\ UNCHANGED <<holder, spent>>

Grant(t, a) ==
  /\ stage[t] = "open"
  /\ stage' = [stage EXCEPT ![t] = "held"]
  /\ holder' = [holder EXCEPT ![t] = a]
  /\ UNCHANGED <<budget, spent>>

(* The holder succeeds. *)
Succeed(t) ==
  /\ stage[t] = "held"
  /\ stage' = [stage EXCEPT ![t] = "done"]
  /\ holder' = [holder EXCEPT ![t] = Nobody]
  /\ UNCHANGED <<budget, spent>>

(* The attempts of the tasks S have failed or lapsed, all at once. *)
Charge(S) ==
  /\ \A t \in S : stage[t] = "held"
  /\ stage' = [t \in Tasks |-> IF t \notin S THEN stage[t]
                               ELSE IF spent[t] < budget[t] THEN "open" ELSE "dead"]
  /\ holder' = [t \in Tasks |-> IF t \in S THEN Nobody ELSE holder[t]]
  /\ spent' = [t \in Tasks |-> IF t \in S THEN spent[t] + 1 ELSE spent[t]]
  /\ UNCHANGED budget

(* An operator takes the task back, or off, or opens it afresh. *)
Recall(t) ==
  /\ stage[t] = "held"
  /\ stage' = [stage EXCEPT ![t] = "open"]
  /\ holder' = [holder EXCEPT ![t] = Nobody]
  /\ UNCHANGED <<budget, spent>>

Withdraw(t) ==
  /\ stage[t] \in {"open", "held"}
  /\ stage' = [stage EXCEPT ![t] = "dead"]
  /\ holder' = [holder EXCEPT ![t] = Nobody]
  /\ UNCHANGED <<budget, spent>>

Reopen(t) ==
  /\ stage[t] \in {"done", "dead"}
  /\ stage' = [stage EXCEPT ![t] = "open"]
  /\ spent' = [spent EXCEPT ![t] = 0]
  /\ UNCHANGED <<holder, budget>>

Next ==
  \/ \E t \in Tasks : \/ \E b \in Budgets : Publish(t, b)
                      \/ \E a \in Agents : Grant(t, a)
                      \/ Succeed(t)
                      \/ Recall(t) \/ Withdraw(t) \/ Reopen(t)
  \/ \E S \in SUBSET Tasks : Charge(S)

Spec == Init /\ [][Next]_vars
=============================================================================
