------------------------------ MODULE Presence ------------------------------
(***************************************************************************)
(* Consumers as the server sees them: registration, heartbeats and the     *)
(* reaper that marks the silent offline (routes/agents.ts, reaper.ts), the *)
(* rows that mirror their polls (agentSchedules.ts), groups and            *)
(* subscriptions, and pauses and quiet hours as a claim reads them         *)
(* (rest.ts, claim.ts).                                                    *)
(*                                                                         *)
(* A request is a call in progress; each of its queries is a step, and so  *)
(* is the transaction of a registration or a subscription, which no other  *)
(* step can see half done.  Registration's authorisation is in Spaces, the *)
(* tasks that a claim selects from in TaskQueue.                           *)
(***************************************************************************)
EXTENDS RestWindows, FiniteSets

CONSTANTS
  Agents, Topics, Groups,
  Homes,          \* the topics of the space the agents are registered in
  Windows,        \* the windows an operator may add: project_id NULL is global
  Beginnings,     \* agents, subscriptions and windows that the model begins with
  Moments,        \* the times between which the clock of the model goes round
  StaleAfter,     \* AGENT_STALE_MS, in ticks
  Calls,          \* bound: requests in progress at one time
  MaxArrivals,    \* bound: requests that ever arrive
  MaxEdits,       \* bound: pauses and changes of windows
  MaxFailures     \* bound: queries that fail

ASSUME PresenceAssumption ==
  /\ Homes \subseteq Topics /\ "default" \in Groups
  /\ NULL \notin Agents \union Topics \union Groups \union Calls
  /\ StaleAfter \in Nat /\ Moments \subseteq Nat /\ Moments # {}
  /\ MaxArrivals \in Nat /\ MaxEdits \in Nat /\ MaxFailures \in Nat
  /\ \A w \in Windows :
       /\ w.project_id \in Topics \union {NULL}
       /\ w.days_of_week \subseteq 0 .. 6 /\ w.days_of_week # {}
       /\ w.start_time \in Nat /\ w.end_time \in Nat
       /\ w.timezone \in Int \union {NULL}

VARIABLES
  now,          \* the wall clock, one of Moments
  agent,        \* the table agents: status, paused, and the age of last_heartbeat_at
  group,        \* the table groups
  subscription, \* the table subscriptions
  poll, polled, \* the table agent_schedules, and its rows with a last_polled_at
  window,       \* the table agent_rest_windows
  call,         \* the requests in progress
  marked,       \* agents marked offline that the reaper has not announced yet
  announced,    \* what the last event told of an agent
  raced,        \* history: agents of which the events may be in the wrong order
  ever, always, \* history: what was awake at some moment, at every moment of a call
  arrivals, edits, failures

tables == <<agent, group, subscription, poll, polled, window>>
bounds == <<arrivals, edits, failures>>
vars == <<now, tables, call, marked, announced, raced, ever, always, bounds>>

NoAgent == [status |-> "none", paused |-> FALSE, age |-> 0]
AgentRow == [status : {"none", "online", "offline"}, paused : BOOLEAN, age : 0 .. StaleAfter + 1]
SubscriptionRow == [agent : Agents, project : Topics, group : Groups, paused : BOOLEAN]
Kinds == {"site_update", "space_poll", "project_poll"}
PollRow == [agent : Agents, kind : Kinds, project : Topics \union {NULL}]
WindowRow == [agent : Agents, window : Windows]

(* What a history may begin with has the types and keys of the schema.     *)
ASSUME BeginningsAssumption ==
  \A b \in Beginnings :
    /\ b.agent \in [Agents -> AgentRow]
    /\ \A a \in Agents : b.agent[a].status = "offline" => b.agent[a].age > StaleAfter
    /\ b.subscription \subseteq SubscriptionRow /\ b.window \subseteq WindowRow
    /\ \A r \in b.subscription \union b.window : b.agent[r.agent].status # "none"

Call == [op : {"register", "subscribe", "heartbeat", "claim", NULL},
         agent : Agents \union {NULL},
         phase : {"idle", "commit", "announce", "subscribing", "update", "touch", "answer",
                  "resting", "topics", "pauses", "windows", "polling"},
         status : {"none", "online", "offline"}, paused : BOOLEAN,
         topics : SUBSET Topics, resting : SUBSET Topics]
Idle == [op |-> NULL, agent |-> NULL, phase |-> "idle", status |-> "none",
         paused |-> FALSE, topics |-> {}, resting |-> {}]

Registered(a) == agent[a].status # "none"
Calling(a) == \E c \in Calls : call[c].op \in {"heartbeat", "register"} /\ call[c].agent = a

Row(a, kind, p) == [agent |-> a, kind |-> kind, project |-> p]
Subscribes(a, p, g) == [agent |-> a, project |-> p, group |-> g, paused |-> FALSE]
SubscribedTo(a) == {s.project : s \in {r \in subscription : r.agent = a}}
GlobalWindows(a) == {r.window : r \in {v \in window : v.agent = a /\ v.window.project_id = NULL}}
TopicWindows(a, topics) ==
  {r.window : r \in {v \in window : v.agent = a /\ v.window.project_id \in topics}}

Init ==
  /\ now \in Moments
  /\ \E b \in Beginnings :
       agent = b.agent /\ subscription = b.subscription /\ window = b.window
  /\ group = {[project |-> s.project, name |-> s.group] : s \in subscription}
  /\ poll = {Row(a, kind, NULL) : a \in {x \in Agents : Registered(x)},
                                 kind \in {"site_update", "space_poll"}}
            \union {Row(s.agent, "project_poll", s.project) : s \in subscription}
  /\ polled = {}
  /\ call = [c \in Calls |-> Idle]
  /\ marked = {} /\ raced = {}
  /\ announced = [a \in Agents |-> agent[a].status]
  /\ ever = [c \in Calls |-> {}] /\ always = [c \in Calls |-> {}]
  /\ arrivals = 0 /\ edits = 0 /\ failures = 0
-----------------------------------------------------------------------------
(* Requests *)

Becomes(c, k) == call' = [call EXCEPT ![c] = k]
Proceeds(c, phase) == Becomes(c, [call[c] EXCEPT !.phase = phase])
Answered(c) == Becomes(c, Idle)
At(c, phase) == call[c].phase = phase

Comes(c) == At(c, "idle") /\ arrivals < MaxArrivals /\ arrivals' = arrivals + 1

(* requireAgent: a copy of the row that the handler goes on with.          *)
RequireAgent(c, a, op, phase) ==
  /\ Comes(c)
  /\ Registered(a)
  /\ Becomes(c, [Idle EXCEPT !.op = op, !.agent = a, !.phase = phase,
                            !.status = IF op = "heartbeat" THEN agent[a].status ELSE @,
                            !.paused = op = "claim" /\ agent[a].paused])
  /\ raced' = IF op = "heartbeat" /\ a \in marked THEN raced \union {a} ELSE raced
  /\ UNCHANGED <<now, tables, marked, announced, edits, failures>>

Arrive(c, a) ==
  \/ RequireAgent(c, a, "heartbeat", "update")
  \/ RequireAgent(c, a, "claim", "resting")
  \/ RequireAgent(c, a, "subscribe", "subscribing")

(* POST /api/agents/register, past its authorisation.                      *)
ArriveRegister(c, a) ==
  /\ Comes(c)
  /\ ~Registered(a) /\ \A d \in Calls : call[d].agent # a
  /\ Becomes(c, [Idle EXCEPT !.op = "register", !.agent = a, !.phase = "commit"])
  /\ UNCHANGED <<now, tables, marked, announced, raced, edits, failures>>

(* Mutant: a group is taken to be there. *)
TakeGroup(p, g) == UNCHANGED group

(* Rows that ON CONFLICT leaves as they are when they are there.           *)
EnsureGroup(p, g) == group' = group \union {[project |-> p, name |-> g]}
SiteAndSpace(a) == {Row(a, "site_update", NULL), Row(a, "space_poll", NULL)}
Insert(a, p, g) ==
  IF \E s \in subscription : s.agent = a /\ s.project = p /\ s.group = g
  THEN UNCHANGED subscription
  ELSE subscription' = subscription \union {Subscribes(a, p, g)}

(* The transaction of a registration, without and with a project_id.       *)
RegisterOnly(c) ==
  LET a == call[c].agent
  IN  /\ poll' = poll \union SiteAndSpace(a)
      /\ Proceeds(c, "announce")
      /\ UNCHANGED <<group, subscription>>

RegisterInProject(c, p, g) ==
  LET a == call[c].agent
  IN  IF p \in Homes
      THEN /\ EnsureGroup(p, g)
           /\ Insert(a, p, g)
           /\ poll' = poll \union SiteAndSpace(a) \union {Row(a, "project_poll", p)}
           /\ Proceeds(c, "announce")
      ELSE Answered(c) /\ UNCHANGED <<group, subscription, poll>>

RegisterCommit(c) ==
  LET a == call[c].agent
  IN  /\ At(c, "commit")
      /\ RegisterOnly(c) \/ \E p \in Topics, g \in Groups : RegisterInProject(c, p, g)
      /\ agent' = IF call'[c].phase = "announce"
                  THEN [agent EXCEPT ![a] = [NoAgent EXCEPT !.status = "online"]] ELSE agent
      /\ UNCHANGED <<now, polled, window, marked, announced, raced, bounds>>

RegisterAnnounce(c) ==
  /\ At(c, "announce")
  /\ announced' = [announced EXCEPT ![call[c].agent] = "online"]
  /\ Answered(c)
  /\ UNCHANGED <<now, tables, marked, raced, bounds>>

(* Mutant: the poll is left out when the agent has a row of the topic. *)
SubscribeWithoutPoll(c, p, g) ==
  LET a == call[c].agent
  IN  /\ At(c, "subscribing")
      /\ EnsureGroup(p, g)
      /\ Insert(a, p, g)
      /\ Answered(c)
      /\ UNCHANGED <<now, agent, poll, polled, window, marked, announced, raced, bounds>>

(* POST /api/subscriptions: to a topic of any space.                       *)
Subscribe(c, p, g) ==
  LET a == call[c].agent
  IN  /\ At(c, "subscribing")
      /\ EnsureGroup(p, g)
      /\ Insert(a, p, g)
      /\ poll' = poll \union {Row(a, "project_poll", p)}
      /\ Answered(c)
      /\ UNCHANGED <<now, agent, polled, window, marked, announced, raced, bounds>>
-----------------------------------------------------------------------------
(* Heartbeats and the reaper *)

HeartbeatUpdate(c) ==
  LET a == call[c].agent
  IN  /\ At(c, "update")
      /\ agent' = [agent EXCEPT ![a].status = "online", ![a].age = 0]
      /\ Proceeds(c, "touch")
      /\ UNCHANGED <<now, group, subscription, poll, polled, window, marked, announced,
                     raced, bounds>>

Touch(a, kinds) == polled' = polled \union {r \in poll : r.agent = a /\ r.kind \in kinds}

TouchSiteUpdateSchedule(c) ==
  /\ At(c, "touch")
  /\ Touch(call[c].agent, {"site_update", "space_poll"})
  /\ Proceeds(c, "answer")
  /\ UNCHANGED <<now, agent, group, subscription, poll, window, marked, announced, raced, bounds>>

(* agent.online, if the row was offline when the request came.             *)
HeartbeatAnswer(c) ==
  LET k == call[c]
  IN  /\ At(c, "answer")
      /\ announced' = IF k.status = "offline"
                      THEN [announced EXCEPT ![k.agent] = "online"] ELSE announced
      /\ Answered(c)
      /\ UNCHANGED <<now, tables, marked, raced, bounds>>

(* Mutant: a paused agent is not expected to be heard. *)
StaleUnlessPaused(a) ==
  agent[a].status = "online" /\ ~agent[a].paused /\ agent[a].age > StaleAfter
Stale(a) == agent[a].status = "online" /\ agent[a].age > StaleAfter

(* markStaleAgentsOffline: one UPDATE ... RETURNING, then the events.      *)
MarkStaleAgentsOffline ==
  LET stale == {a \in Agents : Stale(a)}
  IN  /\ stale # {}
      /\ agent' = [a \in Agents |-> IF a \in stale THEN [agent[a] EXCEPT !.status = "offline"]
                                    ELSE agent[a]]
      /\ marked' = marked \union stale
      /\ raced' = raced \union {a \in stale : Calling(a)}
      /\ UNCHANGED <<now, group, subscription, poll, polled, window, call, announced, bounds>>

AnnounceOffline ==
  /\ marked # {}
  /\ announced' = [a \in Agents |-> IF a \in marked THEN "offline" ELSE announced[a]]
  /\ marked' = {}
  /\ UNCHANGED <<now, tables, call, raced, bounds>>
-----------------------------------------------------------------------------
(* The rests and pauses that a claim heeds *)

ActiveNow(ws) == \E w \in ws : ~Throws(w) /\ IsWindowActiveNow(w, now)

(* computeAgentResting: the pause as requireAgent saw it, then the windows *)
(* in any order up to the first that is active or throws.                  *)
ComputeAgentResting(c) ==
  LET k == call[c]
      ws == GlobalWindows(k.agent)
  IN  /\ At(c, "resting")
      /\ \/ (k.paused \/ ActiveNow(ws)) /\ Proceeds(c, "polling")
         \/ ~k.paused /\ (\E w \in ws : Throws(w)) /\ Answered(c)
         \/ /\ ~k.paused /\ ~ActiveNow(ws) /\ \A w \in ws : ~Throws(w)
            /\ Proceeds(c, "topics")
      /\ UNCHANGED <<now, tables, marked, announced, raced, bounds>>

FetchSubscribed(c) ==
  LET k == call[c]
  IN  /\ At(c, "topics")
      /\ Becomes(c, [k EXCEPT !.topics = SubscribedTo(k.agent),
                            !.phase = IF SubscribedTo(k.agent) = {} THEN "polling" ELSE "pauses"])
      /\ UNCHANGED <<now, tables, marked, announced, raced, bounds>>

(* A topic rests when any of the agent's subscriptions to it is paused.    *)
PausedTopics(a) == {s.project : s \in {r \in subscription : r.agent = a /\ r.paused}}

ExcludePaused(c) ==
  LET k == call[c]
  IN  /\ At(c, "pauses")
      /\ Becomes(c, [k EXCEPT !.resting = k.topics \intersect PausedTopics(k.agent),
                            !.phase = "windows"])
      /\ UNCHANGED <<now, tables, marked, announced, raced, bounds>>

(* Mutant: an active window of one topic rests them all. *)
ExcludeAllResting(c) ==
  LET k == call[c]
      ws == TopicWindows(k.agent, k.topics)
  IN  /\ At(c, "windows")
      /\ Becomes(c, [k EXCEPT !.resting = IF ActiveNow(ws) THEN k.topics ELSE @,
                            !.phase = "polling"])
      /\ UNCHANGED <<now, tables, marked, announced, raced, bounds>>

(* The windows of every candidate are looked at, also of a paused one.     *)
ExcludeResting(c) ==
  LET k == call[c]
      ws == TopicWindows(k.agent, k.topics)
      windowed == {p \in k.topics : ActiveNow(TopicWindows(k.agent, {p}))}
  IN  /\ At(c, "windows")
      /\ IF \E w \in ws : Throws(w) THEN Answered(c)
         ELSE Becomes(c, [k EXCEPT !.resting = @ \union windowed, !.phase = "polling"])
      /\ UNCHANGED <<now, tables, marked, announced, raced, bounds>>

(* The topics the claim may take a task from.                              *)
Allowed(c) == call[c].topics \ call[c].resting

(* A claim polls all topics of the agent, also when it finds no task.      *)
TouchProjectPollSchedules(c) ==
  /\ At(c, "polling")
  /\ Touch(call[c].agent, {"project_poll"})
  /\ Answered(c)
  /\ UNCHANGED <<now, agent, group, subscription, poll, window, marked, announced, raced, bounds>>
-----------------------------------------------------------------------------
(* The operator, time, failures and the whole *)

Edits == edits < MaxEdits /\ edits' = edits + 1

SetPause(a) ==
  /\ Edits /\ Registered(a)
  /\ agent' = [agent EXCEPT ![a].paused = ~@]
  /\ UNCHANGED <<now, group, subscription, poll, polled, window, call, marked, announced,
                 raced, arrivals, failures>>

SetSubscriptionPause(a, p, paused) ==
  /\ Edits
  /\ p \in SubscribedTo(a)
  /\ subscription' = {IF s.agent = a /\ s.project = p THEN [s EXCEPT !.paused = paused] ELSE s :
                        s \in subscription}
  /\ UNCHANGED <<now, agent, group, poll, polled, window, call, marked, announced,
                 raced, arrivals, failures>>

AddRestWindow(a, w) ==
  /\ Edits /\ Registered(a)
  /\ window' = window \union {[agent |-> a, window |-> w]}
  /\ UNCHANGED <<now, agent, group, subscription, poll, polled, call, marked, announced,
                 raced, arrivals, failures>>

RemoveRestWindow(r) ==
  /\ Edits /\ r \in window
  /\ window' = window \ {r}
  /\ UNCHANGED <<now, agent, group, subscription, poll, polled, call, marked, announced,
                 raced, arrivals, failures>>

CreateGroup(p, g) ==
  /\ Edits
  /\ EnsureGroup(p, g)
  /\ UNCHANGED <<now, agent, subscription, poll, polled, window, call, marked, announced,
                 raced, arrivals, failures>>

Aged(a, age) == [agent[a] EXCEPT !.age = IF Registered(a) THEN age ELSE 0]

(* A tick of seconds, and hours that bring another time of the week.       *)
Tick ==
  /\ agent' = [a \in Agents |-> Aged(a, IF agent[a].age > StaleAfter THEN StaleAfter + 1
                                        ELSE agent[a].age + 1)]
  /\ UNCHANGED <<now, group, subscription, poll, polled, window, call, marked, announced,
                 raced, bounds>>

HoursPass ==
  /\ now' \in Moments \ {now}
  /\ agent' = [a \in Agents |-> Aged(a, StaleAfter + 1)]
  /\ UNCHANGED <<group, subscription, poll, polled, window, call, marked, announced,
                 raced, bounds>>

(* A query fails and the request is answered 500.  A heartbeat that has    *)
(* brought the agent back then tells nobody.                               *)
Fail(c) ==
  LET k == call[c]
  IN  /\ ~At(c, "idle") /\ ~At(c, "announce") /\ ~At(c, "answer")
      /\ failures < MaxFailures /\ failures' = failures + 1
      /\ raced' = IF k.phase = "touch" THEN raced \union {k.agent} ELSE raced
      /\ Answered(c)
      /\ UNCHANGED <<now, tables, marked, announced, arrivals, edits>>

ServeStep(c) ==
  \/ RegisterCommit(c) \/ RegisterAnnounce(c)
  \/ \E p \in Topics, g \in Groups : Subscribe(c, p, g)
  \/ HeartbeatUpdate(c) \/ TouchSiteUpdateSchedule(c) \/ HeartbeatAnswer(c)
  \/ ComputeAgentResting(c) \/ FetchSubscribed(c) \/ ExcludePaused(c) \/ ExcludeResting(c)
  \/ TouchProjectPollSchedules(c)

ReaperStep == MarkStaleAgentsOffline \/ AnnounceOffline

OperatorStep ==
  \/ \E a \in Agents : SetPause(a)
  \/ \E a \in Agents, p \in Topics, paused \in BOOLEAN : SetSubscriptionPause(a, p, paused)
  \/ \E a \in Agents, w \in Windows : AddRestWindow(a, w)
  \/ \E r \in window : RemoveRestWindow(r)
  \/ \E p \in Topics, g \in Groups : CreateGroup(p, g)

TimeStep == Tick \/ HoursPass

Step ==
  \/ \E c \in Calls : ServeStep(c) \/ Fail(c)
  \/ \E c \in Calls, a \in Agents : Arrive(c, a) \/ ArriveRegister(c, a)
  \/ ReaperStep \/ OperatorStep \/ TimeStep

(* What does not rest of agent a: as a whole and per topic, by pause and   *)
(* by windows, as the contract defines them.                               *)
Part(what, p) == [what |-> what, topic |-> p]
Quiet(ws) == \E w \in ws : w.timezone # NULL /\ LocalTime(now, w.timezone) \in QuietTime(w)
Awake(a) ==
  {Part("agent", NULL) : x \in IF agent[a].paused THEN {} ELSE {1}}
  \union {Part("windows", NULL) : x \in IF Quiet(GlobalWindows(a)) THEN {} ELSE {1}}
  \union {Part("subscribed", p) : p \in SubscribedTo(a)}
  \union {Part("subscription", p) : p \in Topics \ PausedTopics(a)}
  \union {Part("windows", p) : p \in {q \in Topics : ~Quiet(TopicWindows(a, {q}))}}

AwakeFor(c) == IF call[c].op = "claim" THEN Awake(call[c].agent) ELSE {}
Goes(c) == call[c].op = "claim" /\ call'[c].op = "claim"

Remember ==
  /\ ever' = [c \in Calls |-> AwakeFor(c)' \union IF Goes(c) THEN ever[c] ELSE {}]
  /\ always' = [c \in Calls |-> IF Goes(c) THEN AwakeFor(c)' \intersect always[c] ELSE AwakeFor(c)']

Next == Step /\ Remember
Spec == Init /\ [][Next]_vars

(* The reaper's interval comes round and the clock goes on.                *)
FairSpec == Spec /\ WF_vars(ReaperStep /\ Remember) /\ WF_vars(Tick /\ Remember)
-----------------------------------------------------------------------------
(* Properties *)

(* Values stay in their types, and the foreign keys hold.                  *)
PresenceTypeOK ==
  /\ now \in Moments
  /\ agent \in [Agents -> AgentRow]
  /\ group \subseteq [project : Topics, name : Groups]
  /\ subscription \subseteq SubscriptionRow
  /\ poll \subseteq PollRow /\ polled \subseteq poll
  /\ window \subseteq WindowRow
  /\ call \in [Calls -> Call]
  /\ marked \subseteq Agents /\ raced \subseteq Agents
  /\ announced \in [Agents -> {"none", "online", "offline"}]
  /\ arrivals \in Nat /\ edits \in Nat /\ failures \in Nat
  /\ \A s \in subscription : Registered(s.agent) /\ [project |-> s.project, name |-> s.group] \in group
  /\ \A r \in poll \union window : Registered(r.agent)

(* The mirror shows every poll a consumer has to make, and no other: the   *)
(* site's, its space's, and one for each topic it is subscribed to.        *)
PollsMirrorSubscriptions ==
  \A a \in Agents :
    {r \in poll : r.agent = a} =
      IF Registered(a) THEN SiteAndSpace(a) \union {Row(a, "project_poll", p) : p \in SubscribedTo(a)}
      ELSE {}

(* An agent is offline only when it was not heard for StaleAfter.          *)
OfflineWasSilent == \A a \in Agents : agent[a].status = "offline" => agent[a].age > StaleAfter

(* When nothing is on its way, the last event of an agent tells its status *)
(* - but for a heartbeat that the reaper came between, or that failed.     *)
AnnouncedUnlessRaced ==
  \A a \in Agents :
    a \in marked \union raced \/ (\E c \in Calls : call[c].agent = a) \/ announced[a] = agent[a].status

PresenceConsistent == PollsMirrorSubscriptions /\ OfflineWasSilent /\ AnnouncedUnlessRaced

(* A claim takes from the topics that its agent works on: none for which   *)
(* some rest or pause held all along, and every one that was awake as long *)
(* as the claim lasted.  The checks are queries at different moments.      *)
Needs(p) == {Part("agent", NULL), Part("windows", NULL), Part("subscribed", p),
             Part("subscription", p), Part("windows", p)}
RestHonoured ==
  \A c \in Calls : At(c, "polling") =>
    \A p \in Topics :
      /\ p \in Allowed(c) => Needs(p) \subseteq ever[c]
      /\ Needs(p) \subseteq always[c] => p \in Allowed(c)

(* A consumer that falls silent is shown offline in the end.               *)
SilentGoesOffline ==
  \A a \in Agents : agent[a].status = "online" ~> (agent[a].status = "offline" \/ Calling(a))
=============================================================================
