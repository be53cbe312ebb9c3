---------------------------- MODULE PresenceProofs ----------------------------
(***************************************************************************)
(* For any agents, topics, windows and requests in progress: the rows keep *)
(* their types and keys, the mirror of polls is exact, and the events tell *)
(* the status of an agent but for the races that the model names.          *)
(*                                                                         *)
(* The inductive invariant says of a request what it knows of its agent    *)
(* (CallOK), and of an agent that was not raced which request is still to  *)
(* announce it (EventOK).                                                  *)
(***************************************************************************)
EXTENDS Presence, TLAPS

CallOK(c) ==
  LET k == call[c]
  IN  /\ k.phase = "idle" => k = Idle
      /\ k.phase # "idle" => k.agent \in Agents
      /\ k.phase \in {"commit", "announce"} => k.op = "register"
      /\ k.phase \in {"update", "touch", "answer"} =>
           k.op = "heartbeat" /\ k.status \in {"online", "offline"}
      /\ k.phase = "commit" =>
           ~Registered(k.agent) /\ \A d \in Calls \ {c} : call[d].agent # k.agent
      /\ k.phase \notin {"idle", "commit"} => Registered(k.agent)

WillAnnounce(c, a) ==
  /\ call[c].agent = a
  /\ \/ call[c].phase = "announce"
     \/ call[c].phase \in {"touch", "answer"} /\ call[c].status = "offline"

EventOK(a) ==
  /\ ~Registered(a) => announced[a] = "none" /\ a \notin marked
  /\ a \in raced
     \/ /\ agent[a].status = "offline" /\ a \notin marked => announced[a] = "offline"
        /\ agent[a].status = "online" =>
             announced[a] = "online" \/ \E c \in Calls : WillAnnounce(c, a)
        /\ a \in marked => agent[a].status = "offline" /\ ~Calling(a)
        /\ \A c \in Calls : call[c].agent = a =>
             /\ call[c].phase \in {"announce", "touch", "answer"} => agent[a].status = "online"
             /\ call[c].phase = "update" /\ call[c].status = "online" =>
                  agent[a].status = "online"

PresenceInv ==
  /\ PresenceTypeOK /\ PollsMirrorSubscriptions /\ OfflineWasSilent
  /\ \A c \in Calls : CallOK(c)
  /\ \A a \in Agents : EventOK(a)
-----------------------------------------------------------------------------
(* The event invariant is what the property needs.                          *)
LEMMA InvAnnounces == PresenceInv => PresenceConsistent
<1> SUFFICES ASSUME PresenceInv PROVE AnnouncedUnlessRaced
  BY DEF PresenceInv, PresenceConsistent
<1> SUFFICES ASSUME NEW a \in Agents, a \notin marked \union raced,
                    \A c \in Calls : call[c].agent # a
             PROVE  announced[a] = agent[a].status
  BY DEF AnnouncedUnlessRaced
<1>1. EventOK(a) /\ agent[a].status \in {"none", "online", "offline"}
  BY DEF PresenceInv, PresenceTypeOK, AgentRow
<1>2. \A c \in Calls : ~WillAnnounce(c, a)
  BY DEF WillAnnounce
<1> QED
  BY <1>1, <1>2 DEF EventOK, Registered

LEMMA InitInv == Init => PresenceInv
<1> SUFFICES ASSUME Init PROVE PresenceInv
  OBVIOUS
<1> PICK b \in Beginnings : agent = b.agent /\ subscription = b.subscription /\ window = b.window
  BY DEF Init
<1>1. /\ agent \in [Agents -> AgentRow] /\ subscription \subseteq SubscriptionRow
      /\ window \subseteq WindowRow /\ OfflineWasSilent
      /\ \A r \in subscription \union window : Registered(r.agent)
  BY BeginningsAssumption DEF Registered, OfflineWasSilent
<1>2. /\ call \in [Calls -> Call] /\ \A c \in Calls : call[c] = Idle
  BY DEF Init, Call, Idle
<1>3. /\ group \subseteq [project : Topics, name : Groups]
      /\ \A s \in subscription : [project |-> s.project, name |-> s.group] \in group
  BY <1>1 DEF Init, SubscriptionRow
<1>4. poll \subseteq PollRow /\ polled \subseteq poll /\ \A r \in poll : Registered(r.agent)
  BY <1>1 DEF Init, SubscriptionRow, PollRow, Row, Kinds, Registered
<1>5. announced \in [Agents -> {"none", "online", "offline"}]
  BY <1>1 DEF Init, AgentRow
<1>6. PresenceTypeOK
  BY <1>1, <1>2, <1>3, <1>4, <1>5 DEF Init, PresenceTypeOK
<1>7. PollsMirrorSubscriptions
  BY <1>1 DEF Init, PollsMirrorSubscriptions, SiteAndSpace, Row, SubscribedTo, SubscriptionRow,
              Registered
<1>8. ASSUME NEW c \in Calls PROVE CallOK(c)
  BY <1>2 DEF CallOK, Idle
<1>9. ASSUME NEW a \in Agents PROVE EventOK(a)
  BY <1>1, <1>2, PresenceAssumption DEF Init, EventOK, Idle, Registered, Calling
<1> QED
  BY <1>1, <1>6, <1>7, <1>8, <1>9 DEF PresenceInv
-----------------------------------------------------------------------------
(* Steps of claims and of requests that end without a word                  *)

Wordless == {"resting", "topics", "pauses", "windows", "polling", "subscribing"}

(* A step of a request that tells nobody and leaves the agent as it is.     *)
Quietly(c) ==
  /\ call[c].phase \in Wordless
  /\ \E k \in Call :
       /\ k = Idle \/ (k.phase \in Wordless /\ k.agent = call[c].agent /\ k.op = call[c].op)
       /\ call' = [call EXCEPT ![c] = k]
  /\ UNCHANGED <<agent, marked, announced, raced>>

LEMMA QuietSteps ==
  ASSUME PresenceInv, NEW c \in Calls,
         \/ ComputeAgentResting(c) \/ FetchSubscribed(c) \/ ExcludePaused(c)
         \/ ExcludeResting(c) \/ TouchProjectPollSchedules(c)
  PROVE  /\ Quietly(c)
         /\ UNCHANGED <<now, group, subscription, poll, window, bounds>>
         /\ polled \subseteq polled' /\ polled' \subseteq poll
<1> DEFINE k == call[c]
<1>1. k \in Call /\ Idle \in Call /\ polled \subseteq poll
  BY DEF PresenceInv, PresenceTypeOK, Call, Idle
<1>2. SubscribedTo(k.agent) \subseteq Topics
  BY DEF PresenceInv, PresenceTypeOK, SubscribedTo, SubscriptionRow
<1>3. CASE ComputeAgentResting(c)
  BY <1>1, <1>3 DEF ComputeAgentResting, Quietly, At, Proceeds, Becomes, Answered, Call, Wordless,
                    tables, bounds
<1>4. CASE FetchSubscribed(c)
  BY <1>1, <1>2, <1>4 DEF FetchSubscribed, Quietly, At, Becomes, Call, Wordless, tables, bounds
<1>5. CASE ExcludePaused(c)
  BY <1>1, <1>5 DEF ExcludePaused, Quietly, At, Becomes, Call, Wordless, tables, bounds
<1>6. CASE ExcludeResting(c)
  BY <1>1, <1>6 DEF ExcludeResting, Quietly, At, Becomes, Answered, Call, Wordless, tables, bounds
<1>7. CASE TouchProjectPollSchedules(c)
  BY <1>1, <1>7 DEF TouchProjectPollSchedules, Touch, Quietly, At, Becomes, Answered, Wordless,
                    bounds
<1> QED
  BY <1>3, <1>4, <1>5, <1>6, <1>7

LEMMA QuietCalls ==
  ASSUME PresenceInv, NEW c \in Calls, Quietly(c)
  PROVE  /\ call' \in [Calls -> Call]
         /\ \A d \in Calls : CallOK(d)'
         /\ \A a \in Agents : EventOK(a)'
<1> PICK k \in Call :
       /\ k = Idle \/ (k.phase \in Wordless /\ k.agent = call[c].agent /\ k.op = call[c].op)
       /\ call' = [call EXCEPT ![c] = k]
  BY DEF Quietly
<1>1. call \in [Calls -> Call] /\ \A d \in Calls : CallOK(d)
  BY DEF PresenceInv, PresenceTypeOK
<1>2. call[c].phase \in Wordless /\ UNCHANGED <<agent, marked, announced, raced>>
  BY DEF Quietly
<1>3. call' \in [Calls -> Call]
  BY <1>1
<1>4. ASSUME NEW d \in Calls PROVE CallOK(d)'
  <2>1. CallOK(c) /\ CallOK(d)
    BY <1>1
  <2>2. Idle.agent = NULL /\ Idle.phase = "idle"
    BY DEF Idle
  <2> QED
    BY <1>1, <1>2, <2>1, <2>2, PresenceAssumption DEF CallOK, Wordless, Registered
<1>5. ASSUME NEW a \in Agents PROVE EventOK(a)'
  <2>1. EventOK(a) /\ CallOK(c)
    BY DEF PresenceInv
  <2>2. \A d \in Calls : WillAnnounce(d, a) => WillAnnounce(d, a)'
    BY <1>1, <1>2 DEF WillAnnounce, Wordless
  <2>3. Idle.agent = NULL /\ Idle.phase = "idle"
    BY DEF Idle
  <2>4. \A d \in Calls : call'[d].agent = a =>
          \/ d # c /\ call'[d] = call[d]
          \/ /\ d = c /\ call[c].agent = a
             /\ call'[c].phase \in Wordless /\ call'[c].op = call[c].op
    <3>1. \A d \in Calls : call'[d] = IF d = c THEN k ELSE call[d]
      BY <1>1
    <3>2. k = Idle => k.agent # a
      BY <2>3, PresenceAssumption
    <3> QED
      BY <3>1, <3>2
  <2>5. Calling(a)' => Calling(a)
    BY <2>4 DEF Calling
  <2> QED
    BY <1>2, <2>1, <2>2, <2>4, <2>5 DEF EventOK, Registered, Wordless
<1> QED
  BY <1>3, <1>4, <1>5

LEMMA QuietKeeps ==
  ASSUME PresenceInv, NEW c \in Calls,
         \/ ComputeAgentResting(c) \/ FetchSubscribed(c) \/ ExcludePaused(c)
         \/ ExcludeResting(c) \/ TouchProjectPollSchedules(c)
  PROVE  PresenceInv'
<1>1. /\ Quietly(c) /\ UNCHANGED <<now, group, subscription, poll, window, bounds>>
      /\ polled \subseteq polled' /\ polled' \subseteq poll
  BY QuietSteps
<1>2. UNCHANGED <<agent, marked, announced, raced>>
  BY <1>1 DEF Quietly
<1>3. call' \in [Calls -> Call]
  BY <1>1, QuietCalls
<1>4. PresenceTypeOK' /\ PollsMirrorSubscriptions' /\ OfflineWasSilent'
  BY <1>1, <1>2, <1>3 DEF PresenceInv, PresenceTypeOK, PollsMirrorSubscriptions, OfflineWasSilent,
                          Registered, SubscribedTo, bounds
<1> QED
  BY <1>1, <1>4, QuietCalls DEF PresenceInv
-----------------------------------------------------------------------------
(* Requests that arrive or fail, and events *)

LEMMA ArrivalKeeps ==
  ASSUME PresenceInv, NEW c \in Calls, NEW a \in Agents, Arrive(c, a) \/ ArriveRegister(c, a)
  PROVE  PresenceInv'
<1>1. call \in [Calls -> Call] /\ (\A d \in Calls : CallOK(d)) /\ raced \subseteq Agents
  BY DEF PresenceInv, PresenceTypeOK
<1>2. /\ call[c].phase = "idle" /\ call[c] = Idle
      /\ UNCHANGED <<now, tables, marked, announced, edits, failures>>
      /\ arrivals' = arrivals + 1
      /\ raced' \in {raced, raced \union {a}}
  BY <1>1 DEF Arrive, ArriveRegister, RequireAgent, Comes, At, CallOK, tables
<1>3. PICK k \in Call :
        /\ call' = [call EXCEPT ![c] = k] /\ k.agent = a
        /\ \/ /\ k.op = "register" /\ k.phase = "commit" /\ ~Registered(a)
              /\ \A d \in Calls : call[d].agent # a
           \/ /\ k.op = "heartbeat" /\ k.phase = "update" /\ Registered(a)
              /\ k.status = agent[a].status /\ (a \in marked => a \in raced')
           \/ /\ k.op \notin {"heartbeat", "register"} /\ k.phase \in Wordless /\ Registered(a)
  <2>1. agent[a] \in AgentRow
    BY DEF PresenceInv, PresenceTypeOK
  <2>2. CASE ArriveRegister(c, a)
    <3>1. [Idle EXCEPT !.op = "register", !.agent = a, !.phase = "commit"] \in Call
      BY DEF Idle, Call
    <3> QED
      BY <2>2, <3>1 DEF ArriveRegister, Becomes, Idle
  <2>3. ASSUME NEW op \in {"heartbeat", "claim", "subscribe"}, 
               NEW phase \in {"update", "resting", "subscribing"},
               RequireAgent(c, a, op, phase), op = "heartbeat" <=> phase = "update"
        PROVE  \E k \in Call :
                 /\ call' = [call EXCEPT ![c] = k] /\ k.agent = a
                 /\ \/ /\ k.op = "heartbeat" /\ k.phase = "update" /\ Registered(a)
                       /\ k.status = agent[a].status /\ (a \in marked => a \in raced')
                    \/ /\ k.op \notin {"heartbeat", "register"} /\ k.phase \in Wordless
                       /\ Registered(a)
    <3> DEFINE k == [Idle EXCEPT !.op = op, !.agent = a, !.phase = phase,
                            !.status = IF op = "heartbeat" THEN agent[a].status ELSE @,
                            !.paused = op = "claim" /\ agent[a].paused]
    <3>1. k \in Call /\ k.agent = a /\ k.op = op /\ k.phase = phase
          /\ (op = "heartbeat" => k.status = agent[a].status)
      BY <2>1 DEF Call, AgentRow, Idle
    <3>2. call' = [call EXCEPT ![c] = k]
      BY <2>3 DEF RequireAgent, Becomes
    <3> HIDE DEF k
    <3>3. Registered(a) /\ (op = "heartbeat" /\ a \in marked => a \in raced')
      BY <2>3 DEF RequireAgent
    <3> QED
      BY <2>3, <3>1, <3>2, <3>3 DEF Wordless
  <2> QED
    BY <2>2, <2>3 DEF Arrive
<1>4. call' \in [Calls -> Call] /\ call'[c] = k /\ \A d \in Calls \ {c} : call'[d] = call[d]
  BY <1>1, <1>3
<1>5. PresenceTypeOK' /\ PollsMirrorSubscriptions' /\ OfflineWasSilent'
  BY <1>1, <1>2, <1>4 DEF PresenceInv, PresenceTypeOK, PollsMirrorSubscriptions, OfflineWasSilent,
                          Registered, SubscribedTo, tables
<1>6. ASSUME NEW d \in Calls PROVE CallOK(d)'
  <2>1. CallOK(d) /\ agent[a].status \in {"none", "online", "offline"}
    BY DEF PresenceInv, PresenceTypeOK, AgentRow
  <2>2. CASE d = c
    BY <1>1, <1>2, <1>3, <1>4, <2>1, <2>2 DEF CallOK, Registered, Wordless, tables
  <2>3. CASE d # c
    BY <1>1, <1>2, <1>3, <1>4, <2>1, <2>3 DEF CallOK, Registered, Wordless, tables
  <2> QED
    BY <2>2, <2>3
<1>7. ASSUME NEW b \in Agents PROVE EventOK(b)'
  <2>1. EventOK(b)
    BY DEF PresenceInv
  <2>2. \A d \in Calls : WillAnnounce(d, b) => WillAnnounce(d, b)'
    BY <1>2, <1>4 DEF WillAnnounce
  <2>3. UNCHANGED <<agent, marked, announced>> /\ raced \subseteq raced'
    BY <1>2 DEF tables
  <2>4. b \in marked /\ b \notin raced' => ~Calling(b)'
    <3> SUFFICES ASSUME b \in marked, b \notin raced', NEW d \in Calls,
                        call'[d].op \in {"heartbeat", "register"}, call'[d].agent = b
                 PROVE  FALSE
      BY DEF Calling
    <3>1. ~Calling(b)
      BY <2>1, <2>3 DEF EventOK
    <3>2. d = c
      BY <1>4, <3>1 DEF Calling
    <3> QED
      BY <1>3, <1>4, <2>1, <2>3, <3>2 DEF EventOK, Registered, Wordless
  <2>5. ASSUME NEW d \in Calls, call'[d].agent = b, b \notin raced'
        PROVE  /\ call'[d].phase \in {"announce", "touch", "answer"} => agent[b].status = "online"
               /\ call'[d].phase = "update" /\ call'[d].status = "online" =>
                    agent[b].status = "online"
    BY <1>3, <1>4, <2>1, <2>3, <2>5 DEF EventOK, Wordless
  <2> QED
    BY <2>1, <2>2, <2>3, <2>4, <2>5 DEF EventOK, Registered
<1> QED
  BY <1>5, <1>6, <1>7 DEF PresenceInv

(* What holds of the rows while only calls and events change.               *)
LEMMA RowsKept ==
  ASSUME PresenceInv, UNCHANGED <<now, tables>>, call' \in [Calls -> Call],
         marked' \subseteq Agents, raced' \subseteq Agents,
         announced' \in [Agents -> {"none", "online", "offline"}],
         arrivals' \in Nat, edits' \in Nat, failures' \in Nat
  PROVE  PresenceTypeOK' /\ PollsMirrorSubscriptions' /\ OfflineWasSilent'
BY DEF PresenceInv, PresenceTypeOK, PollsMirrorSubscriptions, OfflineWasSilent, Registered,
       SubscribedTo, tables

LEMMA CallEnds ==
  ASSUME PresenceInv, NEW c \in Calls, Answered(c), UNCHANGED agent
  PROVE  /\ call' \in [Calls -> Call]
         /\ \A d \in Calls : CallOK(d)'
         /\ \A d \in Calls : call'[d] = IF d = c THEN Idle ELSE call[d]
         /\ \A a \in Agents : (Calling(a)' => Calling(a)) /\ call'[c].agent # a
<1>1. /\ call \in [Calls -> Call] /\ Idle \in Call /\ Idle.agent = NULL /\ Idle.phase = "idle"
      /\ \A d \in Calls : CallOK(d)
  BY DEF PresenceInv, PresenceTypeOK, Call, Idle
<1>2. call' \in [Calls -> Call] /\ \A d \in Calls : call'[d] = IF d = c THEN Idle ELSE call[d]
  BY <1>1 DEF Answered, Becomes
<1>3. ASSUME NEW d \in Calls PROVE CallOK(d)'
  BY <1>1, <1>2, PresenceAssumption DEF CallOK, Registered
<1>4. ASSUME NEW a \in Agents PROVE (Calling(a)' => Calling(a)) /\ call'[c].agent # a
  BY <1>1, <1>2, PresenceAssumption DEF Calling
<1> QED
  BY <1>2, <1>3, <1>4

LEMMA FailKeeps ==
  ASSUME PresenceInv, NEW c \in Calls, Fail(c)
  PROVE  PresenceInv'
<1>1. /\ Answered(c) /\ UNCHANGED <<now, tables, agent, marked, announced, arrivals, edits>>
      /\ call[c].phase \notin {"idle", "announce", "answer"}
      /\ failures' = failures + 1
      /\ raced' = IF call[c].phase = "touch" THEN raced \union {call[c].agent} ELSE raced
  BY DEF Fail, At, tables
<1>2. CallOK(c) /\ call[c].agent \in Agents
  BY <1>1 DEF PresenceInv, CallOK
<1>3. /\ raced' \subseteq Agents /\ marked' \subseteq Agents
      /\ announced' \in [Agents -> {"none", "online", "offline"}]
      /\ arrivals' \in Nat /\ edits' \in Nat /\ failures' \in Nat
  BY <1>1, <1>2 DEF PresenceInv, PresenceTypeOK
<1>4. ASSUME NEW a \in Agents PROVE EventOK(a)'
  <2>1. EventOK(a)
    BY DEF PresenceInv
  <2>2. \A d \in Calls : WillAnnounce(d, a) /\ a \notin raced' => WillAnnounce(d, a)'
    BY <1>1, <1>2, CallEnds DEF WillAnnounce
  <2> QED
    BY <1>1, <2>1, <2>2, CallEnds DEF EventOK, Registered
<1> QED
  BY <1>1, <1>3, <1>4, RowsKept, CallEnds DEF PresenceInv

LEMMA AnnounceKeeps ==
  ASSUME PresenceInv, NEW c \in Calls, RegisterAnnounce(c) \/ HeartbeatAnswer(c)
  PROVE  PresenceInv'
<1> DEFINE k == call[c]
<1>1. /\ Answered(c) /\ UNCHANGED <<now, tables, agent, marked, raced, bounds>>
      /\ k.phase \in {"announce", "answer"}
      /\ announced' = IF WillAnnounce(c, k.agent)
                      THEN [announced EXCEPT ![k.agent] = "online"] ELSE announced
  BY DEF RegisterAnnounce, HeartbeatAnswer, At, tables, WillAnnounce, PresenceInv, CallOK
<1>2. CallOK(c) /\ k.agent \in Agents
  BY <1>1 DEF PresenceInv, CallOK
<1>3. /\ raced' \subseteq Agents /\ marked' \subseteq Agents
      /\ announced \in [Agents -> {"none", "online", "offline"}]
      /\ announced' \in [Agents -> {"none", "online", "offline"}]
      /\ arrivals' \in Nat /\ edits' \in Nat /\ failures' \in Nat
  BY <1>1, <1>2 DEF PresenceInv, PresenceTypeOK, bounds
<1>4. ASSUME NEW a \in Agents PROVE EventOK(a)'
  <2>1. EventOK(a)
    BY DEF PresenceInv
  <2>2. CASE a # k.agent
    <3>1. announced'[a] = announced[a]
      BY <1>1, <1>3, <2>2
    <3>2. \A d \in Calls : WillAnnounce(d, a) => WillAnnounce(d, a)'
      BY <1>1, <2>2, CallEnds DEF WillAnnounce
    <3> QED
      BY <1>1, <2>1, <3>1, <3>2, CallEnds DEF EventOK, Registered
  <2>3. CASE a = k.agent /\ WillAnnounce(c, a)
    <3>1. announced'[a] = "online" /\ (a \in raced \/ agent[a].status = "online")
      BY <1>1, <1>3, <2>1, <2>3 DEF EventOK
    <3>2. Registered(a)
      BY <1>1, <1>2, <2>3 DEF CallOK
    <3> QED
      BY <1>1, <2>1, <3>1, <3>2, CallEnds DEF EventOK, Registered
  <2>4. CASE a = k.agent /\ ~WillAnnounce(c, a)
    <3>1. announced'[a] = announced[a]
      BY <1>1, <2>4
    <3>2. \A d \in Calls : WillAnnounce(d, a) => WillAnnounce(d, a)'
      BY <1>1, <2>4, CallEnds DEF WillAnnounce
    <3> QED
      BY <1>1, <2>1, <3>1, <3>2, CallEnds DEF EventOK, Registered
  <2> QED
    BY <2>2, <2>3, <2>4
<1> QED
  BY <1>1, <1>3, <1>4, RowsKept, CallEnds DEF PresenceInv

LEMMA AnnounceOfflineKeeps ==
  ASSUME PresenceInv, AnnounceOffline
  PROVE  PresenceInv'
<1>1. /\ UNCHANGED <<now, tables, agent, call, raced, bounds>> /\ marked' = {}
      /\ announced' = [a \in Agents |-> IF a \in marked THEN "offline" ELSE announced[a]]
  BY DEF AnnounceOffline, tables
<1>2. /\ raced' \subseteq Agents /\ marked' \subseteq Agents /\ call' \in [Calls -> Call]
      /\ announced' \in [Agents -> {"none", "online", "offline"}]
      /\ arrivals' \in Nat /\ edits' \in Nat /\ failures' \in Nat
  BY <1>1 DEF PresenceInv, PresenceTypeOK, bounds
<1>3. ASSUME NEW d \in Calls PROVE CallOK(d)'
  BY <1>1 DEF PresenceInv, CallOK, Registered
<1>4. ASSUME NEW a \in Agents PROVE EventOK(a)'
  <2>1. EventOK(a) /\ announced'[a] = IF a \in marked THEN "offline" ELSE announced[a]
    BY <1>1 DEF PresenceInv
  <2>2. \A d \in Calls : WillAnnounce(d, a) <=> WillAnnounce(d, a)'
    BY <1>1 DEF WillAnnounce
  <2> QED
    BY <1>1, <2>1, <2>2 DEF EventOK, Registered
<1> QED
  BY <1>1, <1>2, <1>3, <1>4, RowsKept DEF PresenceInv
-----------------------------------------------------------------------------
(* The operator and time *)

LEMMA StatusKept ==
  ASSUME PresenceInv, UNCHANGED <<call, marked, announced, raced>>,
         \A a \in Agents : agent'[a].status = agent[a].status
  PROVE  (\A c \in Calls : CallOK(c)') /\ (\A a \in Agents : EventOK(a)')
<1>1. ASSUME NEW c \in Calls PROVE CallOK(c)'
  BY DEF PresenceInv, CallOK, Registered
<1>2. ASSUME NEW a \in Agents PROVE EventOK(a)'
  <2>1. \A c \in Calls : WillAnnounce(c, a) <=> WillAnnounce(c, a)'
    BY DEF WillAnnounce
  <2> QED
    BY <2>1 DEF PresenceInv, EventOK, Registered, Calling
<1> QED
  BY <1>1, <1>2

LEMMA OperatorKeeps == ASSUME PresenceInv, OperatorStep PROVE PresenceInv'
<1>1. ASSUME NEW a \in Agents, SetPause(a) PROVE PresenceInv'
  <2>1. /\ agent' = [agent EXCEPT ![a].paused = ~@] /\ edits' = edits + 1
        /\ UNCHANGED <<now, group, subscription, poll, polled, window, call, marked, announced,
                       raced, arrivals, failures>>
    BY <1>1 DEF SetPause, Edits
  <2>2. /\ agent' \in [Agents -> AgentRow]
        /\ \A b \in Agents : agent'[b].status = agent[b].status /\ agent'[b].age = agent[b].age
    BY <2>1 DEF PresenceInv, PresenceTypeOK, AgentRow
  <2>3. PresenceTypeOK' /\ PollsMirrorSubscriptions' /\ OfflineWasSilent'
    BY <2>1, <2>2 DEF PresenceInv, PresenceTypeOK, PollsMirrorSubscriptions, OfflineWasSilent,
                      Registered, SubscribedTo, SubscriptionRow, PollRow, WindowRow
  <2> QED
    BY <2>1, <2>2, <2>3, StatusKept DEF PresenceInv
<1>2. ASSUME NEW a \in Agents, NEW p \in Topics, NEW paused \in BOOLEAN,
             SetSubscriptionPause(a, p, paused)
      PROVE  PresenceInv'
  <2>1. /\ subscription' = {IF s.agent = a /\ s.project = p THEN [s EXCEPT !.paused = paused] ELSE s :
                              s \in subscription}
        /\ edits' = edits + 1
        /\ UNCHANGED <<now, agent, group, poll, polled, window, call, marked, announced,
                       raced, arrivals, failures>>
    BY <1>2 DEF SetSubscriptionPause, Edits
  <2>2. subscription \subseteq SubscriptionRow
    BY DEF PresenceInv, PresenceTypeOK
  <2>3. \A s \in subscription : \E r \in subscription' :
          r.agent = s.agent /\ r.project = s.project /\ r.group = s.group
    <3> SUFFICES ASSUME NEW s \in subscription
                 PROVE  \E r \in subscription' :
                          r.agent = s.agent /\ r.project = s.project /\ r.group = s.group
      OBVIOUS
    <3> DEFINE r == IF s.agent = a /\ s.project = p THEN [s EXCEPT !.paused = paused] ELSE s
    <3>1. r \in subscription'
      BY <2>1
    <3>2. r.agent = s.agent /\ r.project = s.project /\ r.group = s.group
      BY <2>2 DEF SubscriptionRow
    <3> HIDE DEF r
    <3> QED
      BY <3>1, <3>2
  <2>4. subscription' \subseteq SubscriptionRow
        /\ \A r \in subscription' : \E s \in subscription :
             r.agent = s.agent /\ r.project = s.project /\ r.group = s.group
    BY <2>1, <2>2 DEF SubscriptionRow
  <2>5. \A b \in Agents : SubscribedTo(b)' = SubscribedTo(b)
    BY <2>3, <2>4 DEF SubscribedTo
  <2>6. PresenceTypeOK'
    BY <2>1, <2>4 DEF PresenceInv, PresenceTypeOK, Registered
  <2>7. PollsMirrorSubscriptions' /\ OfflineWasSilent'
    BY <2>1, <2>5 DEF PresenceInv, PollsMirrorSubscriptions, OfflineWasSilent, Registered
  <2> QED
    BY <2>1, <2>6, <2>7, StatusKept DEF PresenceInv
<1>3. ASSUME NEW a \in Agents, NEW w \in Windows, AddRestWindow(a, w) PROVE PresenceInv'
  <2>1. /\ Registered(a) /\ window' = window \union {[agent |-> a, window |-> w]}
        /\ edits' = edits + 1
        /\ UNCHANGED <<now, agent, group, subscription, poll, polled, call, marked, announced,
                       raced, arrivals, failures>>
    BY <1>3 DEF AddRestWindow, Edits
  <2>2. PresenceTypeOK' /\ PollsMirrorSubscriptions' /\ OfflineWasSilent'
    BY <2>1 DEF PresenceInv, PresenceTypeOK, PollsMirrorSubscriptions, OfflineWasSilent,
                Registered, SubscribedTo, WindowRow
  <2> QED
    BY <2>1, <2>2, StatusKept DEF PresenceInv
<1>4. ASSUME NEW r \in window, RemoveRestWindow(r) PROVE PresenceInv'
  <2>1. /\ window' = window \ {r} /\ edits' = edits + 1
        /\ UNCHANGED <<now, agent, group, subscription, poll, polled, call, marked, announced,
                       raced, arrivals, failures>>
    BY <1>4 DEF RemoveRestWindow, Edits
  <2>2. PresenceTypeOK' /\ PollsMirrorSubscriptions' /\ OfflineWasSilent'
    BY <2>1 DEF PresenceInv, PresenceTypeOK, PollsMirrorSubscriptions, OfflineWasSilent,
                Registered, SubscribedTo
  <2> QED
    BY <2>1, <2>2, StatusKept DEF PresenceInv
<1>5. ASSUME NEW p \in Topics, NEW g \in Groups, CreateGroup(p, g) PROVE PresenceInv'
  <2>1. /\ group' = group \union {[project |-> p, name |-> g]} /\ edits' = edits + 1
        /\ UNCHANGED <<now, agent, subscription, poll, polled, window, call, marked, announced,
                       raced, arrivals, failures>>
    BY <1>5 DEF CreateGroup, EnsureGroup, Edits
  <2>2. PresenceTypeOK' /\ PollsMirrorSubscriptions' /\ OfflineWasSilent'
    BY <2>1 DEF PresenceInv, PresenceTypeOK, PollsMirrorSubscriptions, OfflineWasSilent,
                Registered, SubscribedTo
  <2> QED
    BY <2>1, <2>2, StatusKept DEF PresenceInv
<1> QED
  BY <1>1, <1>2, <1>3, <1>4, <1>5 DEF OperatorStep

LEMMA TimeKeeps == ASSUME PresenceInv, TimeStep PROVE PresenceInv'
<1>1. /\ UNCHANGED <<group, subscription, poll, polled, window, call, marked, announced,
                     raced, bounds>>
      /\ now' \in Moments
      /\ \/ agent' = [a \in Agents |-> Aged(a, IF agent[a].age > StaleAfter THEN StaleAfter + 1
                                              ELSE agent[a].age + 1)]
         \/ agent' = [a \in Agents |-> Aged(a, StaleAfter + 1)]
  BY DEF TimeStep, Tick, HoursPass, PresenceInv, PresenceTypeOK
<1>2. ASSUME NEW a \in Agents
      PROVE  /\ agent'[a] \in AgentRow /\ agent'[a].status = agent[a].status
             /\ agent[a].status = "offline" => agent'[a].age > StaleAfter
  <2>1. agent[a] \in AgentRow /\ (agent[a].status = "offline" => agent[a].age > StaleAfter)
    BY DEF PresenceInv, PresenceTypeOK, OfflineWasSilent
  <2>2. PICK age \in 0 .. StaleAfter + 1 :
          /\ agent'[a] = [agent[a] EXCEPT !.age = age]
          /\ agent[a].status = "offline" => age > StaleAfter
    <3> DEFINE next == IF agent[a].age > StaleAfter THEN StaleAfter + 1 ELSE agent[a].age + 1
    <3>1. /\ StaleAfter + 1 \in 0 .. StaleAfter + 1 /\ next \in 0 .. StaleAfter + 1
          /\ 0 \in 0 .. StaleAfter + 1
          /\ StaleAfter + 1 > StaleAfter /\ (agent[a].status = "offline" => next > StaleAfter)
      BY <2>1, PresenceAssumption DEF AgentRow
    <3>2. agent'[a] = Aged(a, next) \/ agent'[a] = Aged(a, StaleAfter + 1)
      BY <1>1
    <3> HIDE DEF next
    <3>3. agent[a].status = "offline" => Registered(a)
      BY DEF Registered
    <3> QED
      BY <3>1, <3>2, <3>3 DEF Aged
  <2> QED
    BY <2>1, <2>2 DEF AgentRow
<1>3. agent' \in [Agents -> AgentRow]
  BY <1>1, <1>2
<1>4. PresenceTypeOK'
  BY <1>1, <1>2, <1>3 DEF PresenceInv, PresenceTypeOK, Registered, bounds, SubscriptionRow, PollRow,
                          WindowRow
<1>5. PollsMirrorSubscriptions' /\ OfflineWasSilent'
  BY <1>1, <1>2 DEF PresenceInv, PollsMirrorSubscriptions, OfflineWasSilent, Registered,
                    SubscribedTo
<1> QED
  BY <1>1, <1>2, <1>4, <1>5, StatusKept DEF PresenceInv
-----------------------------------------------------------------------------
(* Registrations and subscriptions *)

LEMMA NoAge == 0 \in 0 .. StaleAfter + 1
BY PresenceAssumption

LEMMA InsertAdds ==
  ASSUME PresenceInv, NEW a \in Agents, NEW p \in Topics, NEW g \in Groups, Insert(a, p, g)
  PROVE  /\ subscription \subseteq subscription' /\ subscription' \subseteq SubscriptionRow
         /\ \A s \in subscription' : s \in subscription \/ s = Subscribes(a, p, g)
         /\ SubscribedTo(a)' = SubscribedTo(a) \union {p}
         /\ \A b \in Agents \ {a} : SubscribedTo(b)' = SubscribedTo(b)
<1> DEFINE new == Subscribes(a, p, g)
<1>1. /\ subscription \subseteq SubscriptionRow /\ new \in SubscriptionRow
      /\ new.agent = a /\ new.project = p
  BY DEF PresenceInv, PresenceTypeOK, Subscribes, SubscriptionRow
<1>2. \/ subscription' = subscription /\ \E s \in subscription : s.agent = a /\ s.project = p
      \/ subscription' = subscription \union {new}
  BY DEF Insert
<1> HIDE DEF new
<1>3. SubscribedTo(a)' = SubscribedTo(a) \union {p}
  BY <1>1, <1>2 DEF SubscribedTo
<1>4. ASSUME NEW b \in Agents \ {a} PROVE SubscribedTo(b)' = SubscribedTo(b)
  BY <1>1, <1>2 DEF SubscribedTo
<1> QED
  BY <1>1, <1>2, <1>3, <1>4 DEF new

LEMMA SubscribeKeeps ==
  ASSUME PresenceInv, NEW c \in Calls, NEW p \in Topics, NEW g \in Groups, Subscribe(c, p, g)
  PROVE  PresenceInv'
<1>0. call[c].agent \in Agents /\ Registered(call[c].agent)
  BY DEF Subscribe, At, PresenceInv, CallOK
<1> PICK a \in Agents : a = call[c].agent
  BY <1>0
<1>1. /\ call[c].phase = "subscribing" /\ Answered(c)
      /\ group' = group \union {[project |-> p, name |-> g]} /\ Insert(a, p, g)
      /\ poll' = poll \union {Row(a, "project_poll", p)}
      /\ UNCHANGED <<now, agent, polled, window, marked, announced, raced, bounds>>
  BY DEF Subscribe, At, EnsureGroup
<1>2. a \in Agents /\ Registered(a)
  BY <1>0
<1>3. Row(a, "project_poll", p) \in PollRow
  BY <1>2 DEF Row, PollRow, Kinds
<1>4. Quietly(c)
  <2>1. Idle \in Call
    BY DEF Idle, Call
  <2> QED
    BY <1>1, <2>1 DEF Quietly, Answered, Becomes, Wordless
<1>5. PresenceTypeOK'
  <2>1. /\ Subscribes(a, p, g).agent = a /\ Subscribes(a, p, g).project = p
        /\ Subscribes(a, p, g).group = g /\ Row(a, "project_poll", p).agent = a
    BY DEF Subscribes, Row
  <2> QED
    BY <1>1, <1>2, <1>3, <1>4, <2>1, InsertAdds, QuietCalls
    DEF PresenceInv, PresenceTypeOK, Registered, bounds
<1>6. PollsMirrorSubscriptions'
  <2> SUFFICES ASSUME NEW b \in Agents
               PROVE  {r \in poll' : r.agent = b} =
                        IF Registered(b)
                        THEN SiteAndSpace(b) \union {Row(b, "project_poll", q) : q \in SubscribedTo(b)'}
                        ELSE {}
    BY <1>1 DEF PollsMirrorSubscriptions, SiteAndSpace, Row, Registered
  <2>1. {r \in poll : r.agent = b} =
          IF Registered(b)
          THEN SiteAndSpace(b) \union {Row(b, "project_poll", q) : q \in SubscribedTo(b)} ELSE {}
    BY DEF PresenceInv, PollsMirrorSubscriptions
  <2>2. Row(a, "project_poll", p).agent = a
    BY DEF Row
  <2>3. CASE b = a
    <3>1. {r \in poll' : r.agent = a} = {r \in poll : r.agent = a} \union {Row(a, "project_poll", p)}
      BY <1>1, <2>2
    <3>2. SubscribedTo(a)' = SubscribedTo(a) \union {p}
      BY <1>1, <1>2, InsertAdds
    <3> QED
      BY <1>2, <2>1, <2>3, <3>1, <3>2
  <2>4. CASE b # a
    <3>1. {r \in poll' : r.agent = b} = {r \in poll : r.agent = b}
      BY <1>1, <2>2, <2>4
    <3>2. SubscribedTo(b)' = SubscribedTo(b)
      BY <1>1, <1>2, <2>4, InsertAdds
    <3> QED
      BY <2>1, <3>1, <3>2
  <2> QED
    BY <2>3, <2>4
<1>7. OfflineWasSilent'
  BY <1>1 DEF PresenceInv, OfflineWasSilent
<1> QED
  BY <1>4, <1>5, <1>6, <1>7, QuietCalls DEF PresenceInv

LEMMA RegisterKeeps ==
  ASSUME PresenceInv, NEW c \in Calls, RegisterCommit(c)
  PROVE  PresenceInv'
<1>0. call[c].agent \in Agents
  BY DEF RegisterCommit, At, PresenceInv, CallOK
<1> PICK a \in Agents : a = call[c].agent
  BY <1>0
<1> DEFINE online == [NoAgent EXCEPT !.status = "online"]
<1>1. /\ call[c].phase = "commit" /\ a \in Agents /\ call[c].op = "register"
      /\ ~Registered(a) /\ \A d \in Calls \ {c} : call[d].agent # a
      /\ UNCHANGED <<now, polled, window, marked, announced, raced, bounds>>
  BY DEF RegisterCommit, At, PresenceInv, CallOK
<1>2. /\ call \in [Calls -> Call] /\ agent \in [Agents -> AgentRow]
      /\ marked \subseteq Agents /\ raced \subseteq Agents
      /\ announced \in [Agents -> {"none", "online", "offline"}]
      /\ arrivals \in Nat /\ edits \in Nat /\ failures \in Nat
      /\ subscription \subseteq SubscriptionRow /\ poll \subseteq PollRow
      /\ \A r \in subscription \union poll : r.agent # a
  BY <1>1 DEF PresenceInv, PresenceTypeOK
<1>3. CASE /\ Answered(c) /\ UNCHANGED <<group, subscription, poll, agent>>
  <2>1. PresenceTypeOK' /\ PollsMirrorSubscriptions' /\ OfflineWasSilent'
    BY <1>1, <1>2, <1>3, CallEnds, RowsKept DEF tables, bounds
  <2>2. ASSUME NEW b \in Agents PROVE EventOK(b)'
    <3>1. EventOK(b)
      BY DEF PresenceInv
    <3>2. \A d \in Calls : WillAnnounce(d, b) => WillAnnounce(d, b)'
      BY <1>1, <1>3, CallEnds DEF WillAnnounce
    <3> QED
      BY <1>1, <1>3, <3>1, <3>2, CallEnds DEF EventOK, Registered
  <2> QED
    BY <1>3, <2>1, <2>2, CallEnds DEF PresenceInv
<1>4. ASSUME Proceeds(c, "announce"), agent' = [agent EXCEPT ![a] = online],
             NEW topics \in SUBSET Topics, SubscribedTo(a)' = topics,
             subscription' \subseteq SubscriptionRow,
             group' \subseteq [project : Topics, name : Groups], group \subseteq group',
             \A s \in subscription' : s \in subscription
               \/ (s.agent = a /\ [project |-> s.project, name |-> s.group] \in group'),
             \A b \in Agents \ {a} : SubscribedTo(b)' = SubscribedTo(b),
             poll' = poll \union SiteAndSpace(a) \union {Row(a, "project_poll", q) : q \in topics}
      PROVE  PresenceInv'
  <2> DEFINE k == [call[c] EXCEPT !.phase = "announce"]
  <2>1. /\ k \in Call /\ k.agent = a /\ k.op = "register" /\ k.phase = "announce"
        /\ call' = [call EXCEPT ![c] = k]
    BY <1>1, <1>2, <1>4 DEF Call, Proceeds, Becomes
  <2> HIDE DEF k
  <2>2. /\ call' \in [Calls -> Call]
        /\ \A d \in Calls : call'[d] = IF d = c THEN k ELSE call[d]
    BY <1>2, <2>1
  <2>3. online \in AgentRow /\ online.status = "online"
    BY NoAge DEF AgentRow, NoAgent
  <2> HIDE DEF online
  <2>4. /\ agent' \in [Agents -> AgentRow]
        /\ \A b \in Agents : agent'[b] = IF b = a THEN online ELSE agent[b]
    BY <1>1, <1>2, <1>4, <2>3
  <2>5. \A b \in Agents : (Registered(b) => Registered(b)') /\ Registered(a)'
                         /\ (b # a /\ Registered(b)' => Registered(b))
    BY <1>1, <2>3, <2>4 DEF Registered
  <2>6. /\ \A kind \in Kinds, q \in Topics \union {NULL} :
             Row(a, kind, q) \in PollRow /\ Row(a, kind, q).agent = a
        /\ SiteAndSpace(a) \subseteq PollRow /\ \A r \in SiteAndSpace(a) : r.agent = a
    BY <1>1 DEF Row, PollRow, SiteAndSpace, Kinds
  <2>7. poll' \subseteq PollRow /\ poll \subseteq poll'
        /\ \A r \in poll' : r \in poll \/ r.agent = a
    BY <1>2, <1>4, <2>6 DEF Kinds
  <2>8. PresenceTypeOK'
    <3>1. \A s \in subscription' : Registered(s.agent)'
                                /\ [project |-> s.project, name |-> s.group] \in group'
      BY <1>4, <2>5 DEF PresenceInv, PresenceTypeOK, SubscriptionRow
    <3>2. \A r \in poll' \union window' : Registered(r.agent)'
      BY <1>1, <2>5, <2>7 DEF PresenceInv, PresenceTypeOK, PollRow, WindowRow
    <3> QED
      BY <1>1, <1>2, <1>4, <2>2, <2>4, <2>7, <3>1, <3>2
      DEF PresenceInv, PresenceTypeOK, bounds
  <2>9. PollsMirrorSubscriptions'
    <3> SUFFICES ASSUME NEW b \in Agents
                 PROVE  {r \in poll' : r.agent = b} =
                          IF Registered(b)'
                          THEN SiteAndSpace(b) \union
                                 {Row(b, "project_poll", q) : q \in SubscribedTo(b)'}
                          ELSE {}
      BY DEF PollsMirrorSubscriptions, SiteAndSpace, Row, Registered
    <3>1. {r \in poll : r.agent = b} =
            IF Registered(b)
            THEN SiteAndSpace(b) \union {Row(b, "project_poll", q) : q \in SubscribedTo(b)} ELSE {}
      BY DEF PresenceInv, PollsMirrorSubscriptions
    <3>2. CASE b = a
      <4>1. \A r \in SiteAndSpace(a) \union {Row(a, "project_poll", q) : q \in topics} : r.agent = a
        BY <2>6 DEF Row
      <4>2. {r \in poll' : r.agent = a} =
              SiteAndSpace(a) \union {Row(a, "project_poll", q) : q \in topics}
        BY <1>2, <1>4, <4>1
      <4> QED
        BY <1>4, <2>5, <3>2, <4>2
    <3>3. CASE b # a
      <4>1. {r \in poll' : r.agent = b} = {r \in poll : r.agent = b}
        BY <2>7, <3>3
      <4>2. SubscribedTo(b)' = SubscribedTo(b) /\ (Registered(b)' <=> Registered(b))
        BY <1>4, <2>5, <3>3
      <4> QED
        BY <3>1, <4>1, <4>2
    <3> QED
      BY <3>2, <3>3
  <2>10. OfflineWasSilent'
    BY <2>3, <2>4 DEF PresenceInv, OfflineWasSilent
  <2>11. ASSUME NEW d \in Calls PROVE CallOK(d)'
    <3>1. CallOK(d)
      BY DEF PresenceInv
    <3>2. CASE d = c
      BY <1>1, <2>1, <2>2, <2>5, <3>2 DEF CallOK
    <3>3. CASE d # c
      <4>1. call'[d] = call[d] /\ call[d].agent # a
        BY <1>1, <2>2, <3>3
      <4>2. call[d].phase = "commit" =>
              ~Registered(call[d].agent)' /\ \A e \in Calls \ {d} : call'[e].agent # call[d].agent
        BY <2>1, <2>2, <2>5, <3>1, <4>1 DEF CallOK
      <4> QED
        BY <2>5, <3>1, <4>1, <4>2 DEF CallOK
    <3> QED
      BY <3>2, <3>3
  <2>12. ASSUME NEW b \in Agents PROVE EventOK(b)'
    <3>1. EventOK(b)
      BY DEF PresenceInv
    <3>2. CASE b = a
      <4>1. WillAnnounce(c, a)' /\ agent'[a].status = "online" /\ Registered(a)' /\ a \notin marked'
        BY <1>1, <2>1, <2>2, <2>3, <2>4, <2>5, <3>1, <3>2 DEF WillAnnounce, EventOK
      <4> QED
        BY <3>2, <4>1 DEF EventOK
    <3>3. CASE b # a
      <4>1. \A d \in Calls : (call'[d].agent = b <=> call[d].agent = b)
                            /\ (call[d].agent = b => call'[d] = call[d])
        BY <2>1, <2>2, <3>3
      <4>2. /\ \A d \in Calls : WillAnnounce(d, b)' <=> WillAnnounce(d, b)
            /\ Calling(b)' <=> Calling(b)
        BY <4>1 DEF WillAnnounce, Calling
      <4> QED
        BY <1>1, <2>4, <3>1, <3>3, <4>1, <4>2 DEF EventOK, Registered
    <3> QED
      BY <3>2, <3>3
  <2> QED
    BY <2>8, <2>9, <2>10, <2>11, <2>12 DEF PresenceInv
<1>5. agent' = IF call'[c].phase = "announce" THEN [agent EXCEPT ![a] = online] ELSE agent
  BY DEF RegisterCommit
<1>6. Proceeds(c, "announce") => call'[c].phase = "announce"
  <2>1. [call[c] EXCEPT !.phase = "announce"].phase = "announce"
    BY <1>2 DEF Call
  <2> QED
    BY <1>2, <2>1 DEF Proceeds, Becomes
<1>7. Answered(c) => call'[c].phase # "announce"
  BY <1>2 DEF Answered, Becomes, Idle
<1>8. SubscribedTo(a) = {}
  BY <1>2 DEF SubscribedTo
<1> HIDE DEF online
<1>9. CASE RegisterOnly(c)
  <2>1. /\ poll' = poll \union SiteAndSpace(a) \union {Row(a, "project_poll", q) : q \in {}}
        /\ Proceeds(c, "announce") /\ UNCHANGED <<group, subscription>>
    BY <1>9 DEF RegisterOnly
  <2>2. /\ SubscribedTo(a)' = {} /\ \A b \in Agents : SubscribedTo(b)' = SubscribedTo(b)
        /\ group \subseteq [project : Topics, name : Groups]
    BY <1>8, <2>1 DEF SubscribedTo, PresenceInv, PresenceTypeOK
  <2> QED
    BY <1>2, <1>4, <1>5, <1>6, <2>1, <2>2
<1>10. ASSUME NEW p \in Topics, NEW g \in Groups, RegisterInProject(c, p, g) PROVE PresenceInv'
  <2>1. CASE p \in Homes
    <3>1. /\ poll' = poll \union SiteAndSpace(a) \union {Row(a, "project_poll", p)}
          /\ Proceeds(c, "announce") /\ Insert(a, p, g)
          /\ group' = group \union {[project |-> p, name |-> g]}
      BY <1>10, <2>1 DEF RegisterInProject, EnsureGroup
    <3>2. {Row(a, "project_poll", p)} = {Row(a, "project_poll", q) : q \in {p}}
      OBVIOUS
    <3>3. /\ SubscribedTo(a)' = {p} /\ subscription' \subseteq SubscriptionRow
          /\ \A s \in subscription' : s \in subscription \/ s = Subscribes(a, p, g)
          /\ \A b \in Agents \ {a} : SubscribedTo(b)' = SubscribedTo(b)
      BY <1>1, <1>8, <3>1, InsertAdds
    <3>4. /\ Subscribes(a, p, g).agent = a /\ Subscribes(a, p, g).project = p
          /\ Subscribes(a, p, g).group = g
      BY DEF Subscribes
    <3>5. group' \subseteq [project : Topics, name : Groups] /\ group \subseteq group'
      BY <3>1 DEF PresenceInv, PresenceTypeOK
    <3>6. \A s \in subscription' : s \in subscription
            \/ (s.agent = a /\ [project |-> s.project, name |-> s.group] \in group')
      BY <3>1, <3>3, <3>4
    <3> QED
      BY <1>4, <1>5, <1>6, <3>1, <3>2, <3>3, <3>5, <3>6
  <2>2. CASE p \notin Homes
    BY <1>3, <1>5, <1>7, <1>10, <2>2 DEF RegisterInProject
  <2> QED
    BY <2>1, <2>2
<1> QED
  BY <1>9, <1>10 DEF RegisterCommit
-----------------------------------------------------------------------------
(* Heartbeats and the reaper *)

LEMMA HeartbeatKeeps ==
  ASSUME PresenceInv, NEW c \in Calls, HeartbeatUpdate(c)
  PROVE  PresenceInv'
<1>0. call[c].agent \in Agents
  BY DEF HeartbeatUpdate, At, PresenceInv, CallOK
<1> PICK a \in Agents : a = call[c].agent
  BY <1>0
<1> DEFINE k == [call[c] EXCEPT !.phase = "touch"]
           row == [agent[a] EXCEPT !.status = "online", !.age = 0]
<1>1. /\ call[c].phase = "update" /\ a \in Agents /\ call[c].op = "heartbeat" /\ Registered(a)
      /\ call[c].status \in {"online", "offline"}
      /\ agent' = [agent EXCEPT ![a] = row]
      /\ call' = [call EXCEPT ![c] = k]
      /\ UNCHANGED <<now, group, subscription, poll, polled, window, marked, announced, raced,
                     bounds>>
  BY DEF HeartbeatUpdate, At, PresenceInv, CallOK, Proceeds, Becomes
<1>2. call \in [Calls -> Call] /\ agent \in [Agents -> AgentRow]
  BY DEF PresenceInv, PresenceTypeOK
<1>3. /\ k \in Call /\ k.agent = a /\ k.op = "heartbeat" /\ k.phase = "touch"
      /\ k.status = call[c].status
  BY <1>1, <1>2 DEF Call
<1>4. row \in AgentRow /\ row.status = "online"
  BY <1>1, <1>2, NoAge DEF AgentRow
<1> HIDE DEF k, row
<1>5. /\ call' \in [Calls -> Call] /\ \A d \in Calls : call'[d] = IF d = c THEN k ELSE call[d]
      /\ agent' \in [Agents -> AgentRow]
      /\ \A b \in Agents : agent'[b] = IF b = a THEN row ELSE agent[b]
  BY <1>1, <1>2, <1>3, <1>4
<1>6. \A b \in Agents : Registered(b)' <=> Registered(b)
  BY <1>1, <1>4, <1>5 DEF Registered
<1>7. PresenceTypeOK'
  BY <1>1, <1>5, <1>6 DEF PresenceInv, PresenceTypeOK, bounds, SubscriptionRow, PollRow, WindowRow
<1>8. PollsMirrorSubscriptions' /\ OfflineWasSilent'
  BY <1>1, <1>4, <1>5, <1>6 DEF PresenceInv, PollsMirrorSubscriptions, OfflineWasSilent, SubscribedTo
<1>9. ASSUME NEW d \in Calls PROVE CallOK(d)'
  <2>1. CallOK(d)
    BY DEF PresenceInv
  <2>2. \A e \in Calls : call'[e].agent = call[e].agent
    BY <1>3, <1>5
  <2>3. (call'[d] = k /\ d = c) \/ call'[d] = call[d]
    BY <1>5
  <2> QED
    BY <1>1, <1>3, <1>6, <2>1, <2>2, <2>3 DEF CallOK
<1>10. ASSUME NEW b \in Agents PROVE EventOK(b)'
  <2>1. EventOK(b)
    BY DEF PresenceInv
  <2>2. Calling(b)' <=> Calling(b)
    BY <1>1, <1>3, <1>5 DEF Calling
  <2>3. \A d \in Calls : WillAnnounce(d, b) => WillAnnounce(d, b)'
    BY <1>1, <1>3, <1>5 DEF WillAnnounce
  <2>4. CASE b # a
    BY <1>1, <1>3, <1>5, <1>6, <2>1, <2>2, <2>3, <2>4 DEF EventOK
  <2>5. CASE b = a
    <3>1. Calling(a)
      BY <1>1 DEF Calling
    <3>2. agent'[a].status = "online"
      BY <1>1, <1>4, <1>5
    <3>3. call[c].status = "offline" => WillAnnounce(c, a)'
      BY <1>3, <1>5 DEF WillAnnounce
    <3> QED
      BY <1>1, <1>6, <2>1, <2>3, <2>5, <3>1, <3>2, <3>3 DEF EventOK
  <2> QED
    BY <2>4, <2>5
<1> QED
  BY <1>7, <1>8, <1>9, <1>10 DEF PresenceInv

LEMMA TouchKeeps ==
  ASSUME PresenceInv, NEW c \in Calls, TouchSiteUpdateSchedule(c)
  PROVE  PresenceInv'
<1> DEFINE a == call[c].agent
           k == [call[c] EXCEPT !.phase = "answer"]
<1>1. /\ call[c].phase = "touch" /\ a \in Agents /\ call[c].op = "heartbeat"
      /\ polled \subseteq polled' /\ polled' \subseteq poll
      /\ call' = [call EXCEPT ![c] = k]
      /\ UNCHANGED <<now, agent, group, subscription, poll, window, marked, announced, raced, bounds>>
  BY DEF TouchSiteUpdateSchedule, Touch, At, PresenceInv, PresenceTypeOK, CallOK, Proceeds, Becomes
<1>2. call \in [Calls -> Call]
  BY DEF PresenceInv, PresenceTypeOK
<1>3. /\ k \in Call /\ k.agent = a /\ k.op = "heartbeat" /\ k.phase = "answer"
      /\ k.status = call[c].status
  BY <1>1, <1>2 DEF Call
<1> HIDE DEF k
<1>4. call' \in [Calls -> Call] /\ \A d \in Calls : call'[d] = IF d = c THEN k ELSE call[d]
  BY <1>1, <1>2, <1>3
<1>5. PresenceTypeOK' /\ PollsMirrorSubscriptions' /\ OfflineWasSilent'
  BY <1>1, <1>4 DEF PresenceInv, PresenceTypeOK, PollsMirrorSubscriptions, OfflineWasSilent,
                    Registered, SubscribedTo, bounds
<1>6. ASSUME NEW d \in Calls PROVE CallOK(d)'
  <2>1. CallOK(d) /\ CallOK(c)
    BY DEF PresenceInv
  <2>2. \A e \in Calls : call'[e].agent = call[e].agent
    BY <1>3, <1>4
  <2>3. (call'[d] = k /\ d = c) \/ call'[d] = call[d]
    BY <1>4
  <2> QED
    BY <1>1, <1>3, <2>1, <2>2, <2>3 DEF CallOK, Registered
<1>7. ASSUME NEW b \in Agents PROVE EventOK(b)'
  <2>1. EventOK(b)
    BY DEF PresenceInv
  <2>2. Calling(b)' <=> Calling(b)
    BY <1>1, <1>3, <1>4 DEF Calling
  <2>3. \A d \in Calls : WillAnnounce(d, b) => WillAnnounce(d, b)'
    BY <1>1, <1>3, <1>4 DEF WillAnnounce
  <2> QED
    BY <1>1, <1>3, <1>4, <2>1, <2>2, <2>3 DEF EventOK, Registered
<1> QED
  BY <1>5, <1>6, <1>7 DEF PresenceInv

LEMMA MarkKeeps ==
  ASSUME PresenceInv, MarkStaleAgentsOffline
  PROVE  PresenceInv'
<1> DEFINE stale == {a \in Agents : Stale(a)}
<1>1. /\ agent' = [a \in Agents |-> IF a \in stale THEN [agent[a] EXCEPT !.status = "offline"]
                                   ELSE agent[a]]
      /\ marked' = marked \union stale
      /\ raced' = raced \union {a \in stale : Calling(a)}
      /\ UNCHANGED <<now, group, subscription, poll, polled, window, call, announced, bounds>>
  BY DEF MarkStaleAgentsOffline
<1>2. agent \in [Agents -> AgentRow]
  BY DEF PresenceInv, PresenceTypeOK
<1>3. ASSUME NEW a \in Agents
      PROVE  /\ agent'[a] \in AgentRow /\ (Registered(a)' <=> Registered(a))
             /\ IF a \in stale
                THEN /\ agent[a].status = "online" /\ agent'[a].status = "offline"
                     /\ agent'[a].age > StaleAfter
                ELSE agent'[a] = agent[a]
  <2>1. CASE a \in stale
    <3>1. agent[a] \in AgentRow /\ agent[a].status = "online" /\ agent[a].age > StaleAfter
      BY <1>2, <2>1 DEF Stale
    <3>2. agent'[a] = [agent[a] EXCEPT !.status = "offline"]
      BY <1>1, <2>1
    <3> QED
      BY <2>1, <3>1, <3>2 DEF AgentRow, Registered
  <2>2. CASE a \notin stale
    BY <1>1, <1>2, <2>2 DEF Registered
  <2> QED
    BY <2>1, <2>2
<1>4. agent' \in [Agents -> AgentRow] /\ marked' \subseteq Agents /\ raced' \subseteq Agents
  BY <1>1, <1>3 DEF PresenceInv, PresenceTypeOK
<1> HIDE DEF stale
<1>5. PresenceTypeOK'
  BY <1>1, <1>3, <1>4 DEF PresenceInv, PresenceTypeOK, bounds, SubscriptionRow, PollRow, WindowRow
<1>6. PollsMirrorSubscriptions' /\ OfflineWasSilent'
  BY <1>1, <1>3 DEF PresenceInv, PollsMirrorSubscriptions, OfflineWasSilent, SubscribedTo
<1>7. ASSUME NEW d \in Calls PROVE CallOK(d)'
  BY <1>1, <1>3 DEF PresenceInv, CallOK
<1>8. ASSUME NEW a \in Agents PROVE EventOK(a)'
  <2>1. EventOK(a) /\ (Calling(a)' <=> Calling(a))
    BY <1>1 DEF PresenceInv, Calling
  <2>2. \A d \in Calls : WillAnnounce(d, a) <=> WillAnnounce(d, a)'
    BY <1>1 DEF WillAnnounce
  <2>3. CASE a \in stale
    <3>1. agent'[a].status = "offline" /\ a \in marked' /\ (Calling(a) => a \in raced')
      BY <1>1, <1>3, <2>3
    <3>2. Registered(a)'
      BY <3>1 DEF Registered
    <3>3. ASSUME NEW d \in Calls, call[d].agent = a,
                 call[d].phase \in {"announce", "update", "touch", "answer"}
          PROVE  Calling(a)
      BY <3>3 DEF PresenceInv, CallOK, Calling
    <3> QED
      BY <1>1, <2>1, <3>1, <3>2, <3>3 DEF EventOK
  <2>4. CASE a \notin stale
    BY <1>1, <1>3, <2>1, <2>2, <2>4 DEF EventOK
  <2> QED
    BY <2>3, <2>4
<1> QED
  BY <1>5, <1>6, <1>7, <1>8 DEF PresenceInv
-----------------------------------------------------------------------------
(* The theorems *)

LEMMA NextInv == PresenceInv /\ [Next]_vars => PresenceInv'
<1> SUFFICES ASSUME PresenceInv, [Next]_vars PROVE PresenceInv'
  OBVIOUS
<1>1. CASE UNCHANGED vars
  <2>1. UNCHANGED <<now, tables, agent, group, subscription, poll, polled, window, call, marked,
                    announced, raced, arrivals, edits, failures>>
    BY <1>1 DEF vars, tables, bounds
  <2>2. PresenceTypeOK' /\ PollsMirrorSubscriptions' /\ OfflineWasSilent'
    BY <2>1, RowsKept DEF PresenceInv, PresenceTypeOK
  <2> QED
    BY <2>1, <2>2, StatusKept DEF PresenceInv
<1>2. ASSUME NEW c \in Calls, ServeStep(c) PROVE PresenceInv'
  BY <1>2, RegisterKeeps, AnnounceKeeps, SubscribeKeeps, HeartbeatKeeps, TouchKeeps, QuietKeeps
  DEF ServeStep
<1>3. ASSUME NEW c \in Calls, Fail(c) PROVE PresenceInv'
  BY <1>3, FailKeeps
<1>4. ASSUME NEW c \in Calls, NEW a \in Agents, Arrive(c, a) \/ ArriveRegister(c, a)
      PROVE  PresenceInv'
  BY <1>4, ArrivalKeeps
<1>5. CASE ReaperStep
  BY <1>5, MarkKeeps, AnnounceOfflineKeeps DEF ReaperStep
<1>6. CASE OperatorStep
  BY <1>6, OperatorKeeps
<1>7. CASE TimeStep
  BY <1>7, TimeKeeps
<1> QED
  BY <1>1, <1>2, <1>3, <1>4, <1>5, <1>6, <1>7 DEF Next, Step

LEMMA InvHolds == Spec => []PresenceInv
<1>1. Init => PresenceInv
  BY InitInv
<1>2. PresenceInv /\ [Next]_vars => PresenceInv'
  BY NextInv
<1> QED
  BY <1>1, <1>2, PTL DEF Spec

(* Rows keep their types and foreign keys, and a row is polled only by the  *)
(* registered agent that it mirrors, whatever requests run together.        *)
THEOREM PresenceTypeCorrect == Spec => []PresenceTypeOK
<1>1. PresenceInv => PresenceTypeOK
  BY DEF PresenceInv
<1> QED
  BY <1>1, InvHolds, PTL

(* The mirror names every poll and no other, an agent is marked offline     *)
(* only after its silence, and where the reaper did not come between a      *)
(* heartbeat and its event the events tell the status.                      *)
THEOREM PresenceIsConsistent == Spec => []PresenceConsistent
<1>1. PresenceInv => PresenceConsistent
  BY InvAnnounces
<1> QED
  BY <1>1, InvHolds, PTL
-----------------------------------------------------------------------------
(* What a window means: arithmetic of days and weeks *)

LEMMA Multiples ==
  ASSUME NEW D \in Nat \ {0}, NEW q \in Nat \ {0}
  PROVE  q * D \in Nat /\ q * D >= D
OBVIOUS

LEMMA Division ==
  ASSUME NEW D \in Nat \ {0}, NEW x \in Int
  PROVE  /\ x \div D \in Int /\ x % D \in 0 .. D - 1
         /\ x = (x \div D) * D + (x % D)
OBVIOUS

LEMMA DivisionUnique ==
  ASSUME NEW D \in Nat \ {0}, NEW q1 \in Int, NEW r1 \in 0 .. D - 1,
         NEW q2 \in Int, NEW r2 \in 0 .. D - 1, q1 * D + r1 = q2 * D + r2
  PROVE  q1 = q2 /\ r1 = r2
<1>1. ASSUME NEW a \in Int, NEW b \in Int, NEW r \in 0 .. D - 1, NEW s \in 0 .. D - 1,
             a * D + r = b * D + s, a > b
      PROVE  FALSE
  <2>1. (a - b) * D >= D
    BY <1>1, Multiples
  <2>2. (a - b) * D = a * D - b * D
    BY <1>1
  <2>3. a * D \in Int /\ b * D \in Int
    OBVIOUS
  <2> QED
    BY <1>1, <2>1, <2>2, <2>3
<1> QED
  BY <1>1

LEMMA Wrapped ==
  ASSUME NEW D \in Nat \ {0}, NEW q \in Int, NEW r \in 0 .. D - 1
  PROVE  (q * D + r) % D = r /\ (q * D + r) \div D = q
<1> DEFINE x == q * D + r
<1>1. x \in Int
  OBVIOUS
<1>2. x = (x \div D) * D + (x % D) /\ x \div D \in Int /\ x % D \in 0 .. D - 1
  BY <1>1, Division
<1> QED
  BY <1>2, DivisionUnique

LEMMA AroundTheClock ==
  ASSUME NEW D \in Nat \ {0}, NEW x \in (-D) .. 2 * D - 1
  PROVE  x % D = IF x < 0 THEN x + D ELSE IF x < D THEN x ELSE x - D
<1>1. CASE x < 0
  <2>1. x + D \in 0 .. D - 1 /\ x = (-1) * D + (x + D)
    BY <1>1
  <2> QED
    BY <1>1, <2>1, Wrapped
<1>2. CASE 0 <= x /\ x < D
  <2>1. x \in 0 .. D - 1 /\ x = 0 * D + x
    BY <1>2
  <2> QED
    BY <1>2, <2>1, Wrapped
<1>3. CASE x >= D
  <2>1. x - D \in 0 .. D - 1 /\ x = 1 * D + (x - D)
    BY <1>3
  <2> QED
    BY <1>3, <2>1, Wrapped
<1> QED
  BY <1>1, <1>2, <1>3

(* The moments of days of length D that lie from s round the clock up to e. *)
QuietMoments(D, s, e, days) ==
  {d * D + ((s + i) % D) : d \in days, i \in 0 .. ((e - s) % D) - 1}

LEMMA WindowArithmetic ==
  ASSUME NEW D \in Nat \ {0}, NEW s \in 0 .. D - 1, NEW e \in 0 .. D - 1,
         NEW days \in SUBSET Nat, NEW day \in Int, NEW m \in 0 .. D - 1
  PROVE  day * D + m \in QuietMoments(D, s, e, days)
         <=> /\ day \in days /\ s # e
             /\ IF s < e THEN s <= m /\ m < e ELSE s <= m \/ m < e
<1>1. PICK length : length = (e - s) % D
  OBVIOUS
<1>2. PICK x \in (-D) .. 2 * D - 1 : x = e - s
  OBVIOUS
<1>3. length = IF e < s THEN e - s + D ELSE e - s
  <2>1. length = IF x < 0 THEN x + D ELSE IF x < D THEN x ELSE x - D
    BY <1>1, <1>2, AroundTheClock
  <2> QED
    BY <1>2, <2>1
<1>4. ASSUME NEW i \in 0 .. length - 1
      PROVE  /\ (s + i) % D = IF s + i < D THEN s + i ELSE s + i - D
             /\ (s + i) % D \in 0 .. D - 1
  <2>1. PICK y \in (-D) .. 2 * D - 1 : y = s + i /\ y >= 0
    BY <1>3
  <2>2. y % D = IF y < 0 THEN y + D ELSE IF y < D THEN y ELSE y - D
    BY AroundTheClock
  <2> QED
    BY <2>1, <2>2
<1>5. ASSUME NEW d \in days, NEW i \in 0 .. length - 1, day * D + m = d * D + ((s + i) % D)
      PROVE  d = day /\ m = (s + i) % D
  <2>1. PICK r \in 0 .. D - 1 : r = (s + i) % D
    BY <1>4
  <2>2. d \in Int
    OBVIOUS
  <2>3. day * D + m = d * D + r
    BY <1>5, <2>1
  <2>4. day = d /\ m = r
    BY <2>2, <2>3, DivisionUnique
  <2> QED
    BY <2>1, <2>4
<1>6. ASSUME NEW i \in 0 .. length - 1, m = (s + i) % D
      PROVE  s # e /\ IF s < e THEN s <= m /\ m < e ELSE s <= m \/ m < e
  <2>1. m = IF s + i < D THEN s + i ELSE s + i - D
    BY <1>4, <1>6
  <2> QED
    BY <1>3, <2>1
<1>7. ASSUME s # e, IF s < e THEN s <= m /\ m < e ELSE s <= m \/ m < e
      PROVE  \E i \in 0 .. length - 1 : m = (s + i) % D
  <2>1. CASE s <= m
    <3>1. m - s \in 0 .. length - 1 /\ s + (m - s) = m /\ m < D
      BY <1>3, <1>7, <2>1
    <3> QED
      BY <1>4, <3>1
  <2>2. CASE m < s
    <3>1. m + D - s \in 0 .. length - 1 /\ s + (m + D - s) = m + D /\ m >= 0
      BY <1>3, <1>7, <2>2
    <3>2. s + (m + D - s) - D = m /\ ~(s + (m + D - s) < D)
      BY <3>1
    <3> QED
      BY <1>4, <3>1, <3>2
  <2> QED
    BY <2>1, <2>2
<1>8. day * D + m \in QuietMoments(D, s, e, days) <=>
        \E d \in days, i \in 0 .. length - 1 : day * D + m = d * D + ((s + i) % D)
  BY <1>1 DEF QuietMoments
<1>9. CASE day * D + m \in QuietMoments(D, s, e, days)
  <2>1. PICK d \in days, i \in 0 .. length - 1 : day * D + m = d * D + ((s + i) % D)
    BY <1>8, <1>9
  <2>2. d = day /\ m = (s + i) % D
    BY <1>5, <2>1
  <2>3. s # e /\ IF s < e THEN s <= m /\ m < e ELSE s <= m \/ m < e
    BY <1>6, <2>2
  <2> QED
    BY <1>9, <2>2, <2>3
<1>10. ASSUME day \in days, s # e, IF s < e THEN s <= m /\ m < e ELSE s <= m \/ m < e
       PROVE  day * D + m \in QuietMoments(D, s, e, days)
  <2>1. PICK i \in 0 .. length - 1 : m = (s + i) % D
    BY <1>7, <1>10
  <2> QED
    BY <1>8, <1>10, <2>1
<1> QED
  BY <1>9, <1>10

(* A window that is one is active at the moments of its quiet time.         *)
THEOREM WindowMeaning ==
  ASSUME NEW w, w.days_of_week \subseteq Nat, w.start_time \in Nat, w.end_time \in Nat,
         w.timezone \in Int, NEW t \in Int
  PROVE  IsWindowActiveNow(w, t) <=> LocalTime(t, w.timezone) \in QuietTime(w)
<1> DEFINE s == w.start_time
           e == w.end_time
<1>1. PICK M \in Nat \ {0} : M = WeekLength * DayLength
  BY RestWindowsAssumption, Multiples
<1>2. PICK L \in Int : L = LocalTime(t, w.timezone)
  <2>1. (t + w.timezone) % M \in 0 .. M - 1
    BY Division, t + w.timezone \in Int
  <2> QED
    BY <1>1, <2>1 DEF LocalTime
<1>3. PICK day \in Int, m \in 0 .. DayLength - 1 :
        day = L \div DayLength /\ m = L % DayLength /\ L = day * DayLength + m
  BY RestWindowsAssumption, Division
<1>4. CASE ~(s < DayLength /\ e < DayLength)
  <2>1. ~IsWindowActiveNow(w, t)
    BY <1>4, RestWindowsAssumption DEF IsWindowActiveNow, ParseHhMmToMinutes
  <2>2. QuietTime(w) = {}
    BY <1>4 DEF QuietTime
  <2> QED
    BY <2>1, <2>2
<1>5. CASE s < DayLength /\ e < DayLength
  <2>1. s \in 0 .. DayLength - 1 /\ e \in 0 .. DayLength - 1
    BY <1>5, RestWindowsAssumption
  <2>2. LocalWeekdayAndMinute(t, w.timezone) = [weekday |-> day, minuteOfDay |-> m]
    BY <1>2, <1>3 DEF LocalWeekdayAndMinute
  <2>3. /\ ParseHhMmToMinutes(s) = s /\ ParseHhMmToMinutes(e) = e /\ s # NULL /\ e # NULL
    BY <2>1, RestWindowsAssumption DEF ParseHhMmToMinutes
  <2>4. IsWindowActiveNow(w, t) <=>
          /\ day \in w.days_of_week /\ s # e
          /\ IF s < e THEN s <= m /\ m < e ELSE s <= m \/ m < e
    BY <2>2, <2>3 DEF IsWindowActiveNow
  <2>5. QuietTime(w) = QuietMoments(DayLength, s, e, w.days_of_week)
    BY <1>5 DEF QuietTime, QuietMoments
  <2>6. day * DayLength + m \in QuietTime(w) <=>
          /\ day \in w.days_of_week /\ s # e
          /\ IF s < e THEN s <= m /\ m < e ELSE s <= m \/ m < e
    <3>1. w.days_of_week \in SUBSET Nat /\ DayLength \in Nat \ {0}
      BY RestWindowsAssumption
    <3> HIDE DEF s, e
    <3>2. day * DayLength + m \in QuietMoments(DayLength, s, e, w.days_of_week) <=>
            /\ day \in w.days_of_week /\ s # e
            /\ IF s < e THEN s <= m /\ m < e ELSE s <= m \/ m < e
      BY <2>1, <3>1, WindowArithmetic
    <3> QED
      BY <2>5, <3>2
  <2> QED
    BY <1>2, <1>3, <2>4, <2>6
<1> QED
  BY <1>4, <1>5
-----------------------------------------------------------------------------
(* What a claim has learnt, in the order of its queries *)

ClaimPhases == {"resting", "topics", "pauses", "windows", "polling"}

HistoryOK(c) ==
  LET k == call[c]
  IN  k.phase \in ClaimPhases =>
        /\ k.op = "claim"
        /\ k.phase = "resting" =>
             k.topics = {} /\ IF k.paused THEN Part("agent", NULL) \notin always[c]
                             ELSE Part("agent", NULL) \in ever[c]
        /\ k.phase \in {"topics", "pauses", "windows"} =>
             {Part("agent", NULL), Part("windows", NULL)} \subseteq ever[c]
        /\ k.phase \in {"pauses", "windows"} =>
             \A p \in Topics : IF p \in k.topics THEN Part("subscribed", p) \in ever[c]
                              ELSE Part("subscribed", p) \notin always[c]
        /\ k.phase = "windows" =>
             \A p \in k.topics : IF p \in k.resting THEN Part("subscription", p) \notin always[c]
                                ELSE Part("subscription", p) \in ever[c]
        /\ k.phase = "polling" =>
             \A p \in Topics :
               /\ p \in Allowed(c) => Needs(p) \subseteq ever[c]
               /\ Needs(p) \subseteq always[c] => p \in Allowed(c)

LEMMA ActiveIsQuiet ==
  ASSUME PresenceInv, NEW ws \in SUBSET Windows
  PROVE  ActiveNow(ws) <=> Quiet(ws)
<1>1. now \in Int
  BY PresenceAssumption DEF PresenceInv, PresenceTypeOK
<1>2. ASSUME NEW w \in ws
      PROVE  ~Throws(w) /\ IsWindowActiveNow(w, now) <=>
             w.timezone # NULL /\ LocalTime(now, w.timezone) \in QuietTime(w)
  <2>1. /\ w.days_of_week \subseteq Nat /\ w.start_time \in Nat /\ w.end_time \in Nat
        /\ w.timezone \in Int \union {NULL}
    BY PresenceAssumption
  <2>2. CASE w.timezone = NULL
    BY <2>2 DEF Throws
  <2>3. CASE w.timezone \in Int
    BY <1>1, <2>1, <2>3, WindowMeaning, RestWindowsAssumption DEF Throws
  <2> QED
    BY <2>1, <2>2, <2>3
<1> QED
  BY <1>2 DEF ActiveNow, Quiet

LEMMA WindowsOfAgent ==
  ASSUME PresenceInv, NEW a, NEW topics
  PROVE  GlobalWindows(a) \subseteq Windows /\ TopicWindows(a, topics) \subseteq Windows
BY DEF PresenceInv, PresenceTypeOK, GlobalWindows, TopicWindows, WindowRow

LEMMA PartsDiffer ==
  /\ \A p, q : /\ Part("agent", p) # Part("windows", q)
               /\ Part("agent", p) # Part("subscribed", q)
               /\ Part("agent", p) # Part("subscription", q)
  /\ \A p, q : /\ Part("windows", p) # Part("subscribed", q)
               /\ Part("windows", p) # Part("subscription", q)
               /\ Part("subscribed", p) # Part("subscription", q)
  /\ \A p, q : /\ Part("windows", p) = Part("windows", q) => p = q
               /\ Part("subscribed", p) = Part("subscribed", q) => p = q
               /\ Part("subscription", p) = Part("subscription", q) => p = q
<1>1. \A p, q : /\ Part("agent", p) # Part("windows", q)
                /\ Part("agent", p) # Part("subscribed", q)
                /\ Part("agent", p) # Part("subscription", q)
  BY DEF Part
<1>2. \A p, q : /\ Part("windows", p) # Part("subscribed", q)
                /\ Part("windows", p) # Part("subscription", q)
                /\ Part("subscribed", p) # Part("subscription", q)
  BY DEF Part
<1>3. \A p, q : /\ Part("windows", p) = Part("windows", q) => p = q
                /\ Part("subscribed", p) = Part("subscribed", q) => p = q
                /\ Part("subscription", p) = Part("subscription", q) => p = q
  BY DEF Part
<1> QED
  BY <1>1, <1>2, <1>3

LEMMA AwakeParts ==
  ASSUME PresenceInv, NEW a \in Agents
  PROVE  /\ Part("agent", NULL) \in Awake(a) <=> ~agent[a].paused
         /\ Part("windows", NULL) \in Awake(a) <=> ~ActiveNow(GlobalWindows(a))
         /\ \A p \in Topics :
              /\ Part("subscribed", p) \in Awake(a) <=> p \in SubscribedTo(a)
              /\ Part("subscription", p) \in Awake(a) <=> p \notin PausedTopics(a)
              /\ Part("windows", p) \in Awake(a) <=> ~ActiveNow(TopicWindows(a, {p}))
<1>1. /\ ActiveNow(GlobalWindows(a)) <=> Quiet(GlobalWindows(a))
      /\ \A p \in Topics : ActiveNow(TopicWindows(a, {p})) <=> Quiet(TopicWindows(a, {p}))
  BY WindowsOfAgent, ActiveIsQuiet
<1>2. /\ SubscribedTo(a) \subseteq Topics
      /\ NULL \notin Topics
  BY PresenceAssumption DEF PresenceInv, PresenceTypeOK, SubscribedTo, SubscriptionRow
<1> DEFINE noisy == {q \in Topics : ~Quiet(TopicWindows(a, {q}))}
           whole == {Part("agent", NULL) : y \in IF agent[a].paused THEN {} ELSE {1}}
           global == {Part("windows", NULL) : y \in IF Quiet(GlobalWindows(a)) THEN {} ELSE {1}}
           subscribed == {Part("subscribed", p) : p \in SubscribedTo(a)}
           unpaused == {Part("subscription", p) : p \in Topics \ PausedTopics(a)}
           local == {Part("windows", p) : p \in noisy}
<1>3. ASSUME NEW x
      PROVE  x \in Awake(a) <=>
             \/ ~agent[a].paused /\ x = Part("agent", NULL)
             \/ ~Quiet(GlobalWindows(a)) /\ x = Part("windows", NULL)
             \/ \E p \in SubscribedTo(a) : x = Part("subscribed", p)
             \/ \E p \in Topics \ PausedTopics(a) : x = Part("subscription", p)
             \/ \E p \in noisy : x = Part("windows", p)
  <2>1. Awake(a) = whole \union global \union subscribed \union unpaused \union local
    BY DEF Awake
  <2>2. x \in whole <=> ~agent[a].paused /\ x = Part("agent", NULL)
    OBVIOUS
  <2>3. x \in global <=> ~Quiet(GlobalWindows(a)) /\ x = Part("windows", NULL)
    OBVIOUS
  <2>4. x \in subscribed <=> \E p \in SubscribedTo(a) : x = Part("subscribed", p)
    OBVIOUS
  <2>5. x \in unpaused <=> \E p \in Topics \ PausedTopics(a) : x = Part("subscription", p)
    OBVIOUS
  <2>6. x \in local <=> \E p \in noisy : x = Part("windows", p)
    OBVIOUS
  <2> HIDE DEF whole, global, subscribed, unpaused, local, noisy
  <2> QED
    BY <2>1, <2>2, <2>3, <2>4, <2>5, <2>6
<1>4. NULL \notin noisy
  BY <1>2
<1>5. /\ Part("agent", NULL) \in Awake(a) <=> ~agent[a].paused
      /\ Part("windows", NULL) \in Awake(a) <=> ~Quiet(GlobalWindows(a))
      /\ \A p : Part("subscribed", p) \in Awake(a) <=> p \in SubscribedTo(a)
      /\ \A p : Part("subscription", p) \in Awake(a) <=> p \in Topics \ PausedTopics(a)
      /\ \A p : p # NULL => (Part("windows", p) \in Awake(a) <=> p \in noisy)
  <2> DEFINE S == Awake(a)
             P == ~agent[a].paused
             Q == ~Quiet(GlobalWindows(a))
             T == SubscribedTo(a)
             U == Topics \ PausedTopics(a)
  <2>1. \A x : x \in S <=>
          \/ P /\ x = Part("agent", NULL)
          \/ Q /\ x = Part("windows", NULL)
          \/ \E p \in T : x = Part("subscribed", p)
          \/ \E p \in U : x = Part("subscription", p)
          \/ \E p \in noisy : x = Part("windows", p)
    BY <1>3
  <2> HIDE DEF S, P, Q, T, U, noisy
  <2>2. Part("agent", NULL) \in S <=> P
    BY <2>1, PartsDiffer
  <2>3. Part("windows", NULL) \in S <=> Q
    BY <1>4, <2>1, PartsDiffer
  <2>4. ASSUME NEW p PROVE Part("subscribed", p) \in S <=> p \in T
    BY <2>1, PartsDiffer
  <2>5. ASSUME NEW p PROVE Part("subscription", p) \in S <=> p \in U
    BY <2>1, PartsDiffer
  <2>6. ASSUME NEW p, p # NULL PROVE Part("windows", p) \in S <=> p \in noisy
    <3>1. Part("windows", p) # Part("windows", NULL)
      BY <2>6, PartsDiffer
    <3>2. Part("windows", p) \in S <=> \E q \in noisy : Part("windows", p) = Part("windows", q)
      BY <2>1, <3>1, PartsDiffer
    <3> QED
      BY <3>2, PartsDiffer
  <2>7. \A p : Part("subscribed", p) \in S <=> p \in T
    BY <2>4
  <2>8. \A p : Part("subscription", p) \in S <=> p \in U
    BY <2>5
  <2>9. \A p : p # NULL => (Part("windows", p) \in S <=> p \in noisy)
    BY <2>6
  <2> QED
    BY <2>2, <2>3, <2>7, <2>8, <2>9 DEF S, P, Q, T, U
<1>6. ASSUME NEW p \in Topics
      PROVE  /\ Part("subscribed", p) \in Awake(a) <=> p \in SubscribedTo(a)
             /\ Part("subscription", p) \in Awake(a) <=> p \notin PausedTopics(a)
             /\ Part("windows", p) \in Awake(a) <=> ~Quiet(TopicWindows(a, {p}))
  <2>1. Part("subscribed", p) \in Awake(a) <=> p \in SubscribedTo(a)
    BY <1>5
  <2>2. Part("subscription", p) \in Awake(a) <=> p \notin PausedTopics(a)
    BY <1>5
  <2>3. Part("windows", p) \in Awake(a) <=> ~Quiet(TopicWindows(a, {p}))
    BY <1>2, <1>5
  <2> QED
    BY <2>1, <2>2, <2>3
<1> QED
  BY <1>1, <1>5, <1>6

(* A step leaves a claim where it is, ends it, or is one of its own.        *)
LEMMA ClaimStep ==
  ASSUME PresenceInv, Step, NEW c \in Calls
  PROVE  \/ call'[c] = call[c] \/ call'[c].phase \notin ClaimPhases
         \/ \E a \in Agents : RequireAgent(c, a, "claim", "resting")
         \/ ComputeAgentResting(c) \/ FetchSubscribed(c) \/ ExcludePaused(c) \/ ExcludeResting(c)
<1>1. call \in [Calls -> Call] /\ Idle.phase = "idle"
  BY DEF PresenceInv, PresenceTypeOK, Idle
<1>2. ASSUME NEW d \in Calls, NEW k, Becomes(d, k)
      PROVE  call'[c] = IF d = c THEN k ELSE call[c]
  BY <1>1, <1>2 DEF Becomes
<1>3. ASSUME NEW d \in Calls, Answered(d)
      PROVE  call'[c] = call[c] \/ call'[c].phase \notin ClaimPhases
  BY <1>1, <1>2, <1>3 DEF Answered, ClaimPhases
<1>4. ASSUME NEW d \in Calls, NEW phase \in {"announce", "touch", "answer"}, Proceeds(d, phase)
      PROVE  call'[c] = call[c] \/ call'[c].phase \notin ClaimPhases
  <2>1. [call[d] EXCEPT !.phase = phase].phase = phase
    BY <1>1 DEF Call
  <2> QED
    BY <1>2, <1>4, <2>1 DEF Proceeds, ClaimPhases
<1>5. ASSUME NEW d \in Calls, ServeStep(d)
      PROVE  \/ call'[c] = call[c] \/ call'[c].phase \notin ClaimPhases
             \/ ComputeAgentResting(c) \/ FetchSubscribed(c) \/ ExcludePaused(c)
             \/ ExcludeResting(c)
  <2>1. CASE RegisterCommit(d)
    BY <1>3, <1>4, <2>1 DEF RegisterCommit, RegisterOnly, RegisterInProject
  <2>2. CASE \/ RegisterAnnounce(d) \/ HeartbeatAnswer(d) \/ TouchProjectPollSchedules(d)
             \/ \E p \in Topics, g \in Groups : Subscribe(d, p, g)
    BY <1>3, <2>2 DEF RegisterAnnounce, HeartbeatAnswer, TouchProjectPollSchedules, Subscribe
  <2>3. CASE HeartbeatUpdate(d) \/ TouchSiteUpdateSchedule(d)
    BY <1>4, <2>3 DEF HeartbeatUpdate, TouchSiteUpdateSchedule
  <2>4. CASE \/ ComputeAgentResting(d) \/ FetchSubscribed(d) \/ ExcludePaused(d)
             \/ ExcludeResting(d)
    <3>1. CASE d = c
      BY <2>4, <3>1
    <3>2. CASE d # c
      BY <1>2, <2>4, <3>2
      DEF ComputeAgentResting, FetchSubscribed, ExcludePaused, ExcludeResting, Proceeds, Answered
    <3> QED
      BY <3>1, <3>2
  <2> QED
    BY <1>5, <2>1, <2>2, <2>3, <2>4 DEF ServeStep
<1>6. ASSUME NEW d \in Calls, Fail(d)
      PROVE  call'[c] = call[c] \/ call'[c].phase \notin ClaimPhases
  BY <1>3, <1>6 DEF Fail
<1>7. ASSUME NEW d \in Calls, NEW a \in Agents, Arrive(d, a) \/ ArriveRegister(d, a)
      PROVE  \/ call'[c] = call[c] \/ call'[c].phase \notin ClaimPhases
             \/ RequireAgent(c, a, "claim", "resting")
  <2>1. CASE d # c
    BY <1>2, <1>7, <2>1 DEF Arrive, ArriveRegister, RequireAgent
  <2>2. CASE d = c
    <3>1. ASSUME NEW op, NEW phase \in {"update", "subscribing"}, RequireAgent(c, a, op, phase)
          PROVE  call'[c].phase = phase
      BY <1>1, <3>1 DEF RequireAgent, Becomes, Idle
    <3>2. ASSUME ArriveRegister(c, a)
          PROVE  call'[c].phase = "commit"
      BY <1>1, <3>2 DEF ArriveRegister, Becomes, Idle
    <3> QED
      BY <1>7, <2>2, <3>1, <3>2 DEF Arrive, ClaimPhases
  <2> QED
    BY <2>1, <2>2
<1>8. CASE ReaperStep \/ OperatorStep \/ TimeStep
  BY <1>8 DEF ReaperStep, OperatorStep, TimeStep, MarkStaleAgentsOffline, AnnounceOffline, SetPause,
              SetSubscriptionPause, AddRestWindow, RemoveRestWindow, CreateGroup, Tick, HoursPass
<1> QED
  BY <1>5, <1>6, <1>7, <1>8 DEF Step

LEMMA MemoryGrows ==
  ASSUME NEW c \in Calls, Remember
  PROVE  /\ AwakeFor(c)' \subseteq ever'[c] /\ always'[c] \subseteq AwakeFor(c)'
         /\ Goes(c) => ever[c] \subseteq ever'[c] /\ always'[c] \subseteq always[c]
BY DEF Remember

LEMMA HistoryKept ==
  ASSUME PresenceInv, [Next]_vars, NEW c \in Calls, HistoryOK(c)
  PROVE  HistoryOK(c)'
<1> DEFINE k == call[c]
<1>1. ASSUME k.phase \in ClaimPhases, call'[c] = k,
             ever[c] \subseteq ever'[c], always'[c] \subseteq always[c]
      PROVE  HistoryOK(c)'
  <2>1. Allowed(c)' = Allowed(c)
    BY <1>1 DEF Allowed
  <2> QED
    BY <1>1, <2>1 DEF HistoryOK, Needs
<1>2. ASSUME call'[c].phase \notin ClaimPhases
      PROVE  HistoryOK(c)'
  BY <1>2 DEF HistoryOK
<1>3. CASE UNCHANGED vars
  BY <1>1, <1>2, <1>3 DEF vars, tables, bounds
<1> SUFFICES ASSUME Step, Remember PROVE HistoryOK(c)'
  BY <1>3 DEF Next
<1>4. /\ call \in [Calls -> Call]
      /\ call[c].phase \in ClaimPhases => call[c].agent \in Agents
  BY DEF PresenceInv, PresenceTypeOK, CallOK, ClaimPhases
<1>5. CASE call'[c] = k
  <2>1. k.phase \in ClaimPhases => Goes(c)
    BY <1>5 DEF HistoryOK, Goes
  <2> QED
    BY <1>1, <1>2, <1>5, <2>1, MemoryGrows
<1>6. ASSUME NEW a \in Agents, RequireAgent(c, a, "claim", "resting") PROVE HistoryOK(c)'
  <2>1. /\ call'[c].op = "claim" /\ call'[c].phase = "resting" /\ call'[c].agent = a
        /\ call'[c].paused = agent[a].paused /\ call'[c].topics = {}
        /\ UNCHANGED <<now, tables>>
    BY <1>4, <1>6, PresenceInv DEF RequireAgent, Becomes, Idle, tables, PresenceInv, PresenceTypeOK, AgentRow
  <2>2. AwakeFor(c)' = Awake(a)
    BY <2>1 DEF AwakeFor, Awake, tables, SubscribedTo, PausedTopics, GlobalWindows, TopicWindows, Quiet
  <2>3. Part("agent", NULL) \in Awake(a) <=> ~agent[a].paused
    BY AwakeParts
  <2> QED
    BY <2>1, <2>2, <2>3, MemoryGrows DEF HistoryOK
<1>7. ASSUME k.phase \in ClaimPhases, UNCHANGED <<now, tables>>,
             call'[c].op = "claim", call'[c].agent = k.agent
      PROVE  /\ Awake(k.agent) \subseteq ever'[c] /\ always'[c] \subseteq Awake(k.agent)
             /\ ever[c] \subseteq ever'[c] /\ always'[c] \subseteq always[c]
  <2>1. AwakeFor(c)' = Awake(k.agent)
    BY <1>7 DEF AwakeFor, Awake, tables, SubscribedTo, PausedTopics, GlobalWindows, TopicWindows, Quiet
  <2>2. Goes(c)
    BY <1>7 DEF HistoryOK, Goes
  <2> QED
    BY <2>1, <2>2, MemoryGrows
<1>8. CASE ComputeAgentResting(c)
  <2>1. k.phase = "resting" /\ UNCHANGED <<now, tables>>
    BY <1>8 DEF ComputeAgentResting, At
  <2>2. CASE Proceeds(c, "polling") /\ (k.paused \/ ActiveNow(GlobalWindows(k.agent)))
    <3>1. call'[c] = [k EXCEPT !.phase = "polling"]
      BY <1>4, <2>2 DEF Proceeds, Becomes
    <3>2. /\ call'[c].op = "claim" /\ call'[c].phase = "polling" /\ call'[c].topics = {}
          /\ call'[c].agent = k.agent
      BY <1>4, <2>1, <3>1 DEF Call, HistoryOK, ClaimPhases
    <3>3. Part("agent", NULL) \notin always'[c] \/ Part("windows", NULL) \notin always'[c]
      BY <1>4, <1>7, <2>1, <2>2, <3>2, AwakeParts DEF HistoryOK, ClaimPhases
    <3>4. Allowed(c)' = {}
      BY <3>2 DEF Allowed
    <3> QED
      BY <3>2, <3>3, <3>4 DEF HistoryOK, Needs
  <2>3. CASE Proceeds(c, "topics") /\ ~k.paused /\ ~ActiveNow(GlobalWindows(k.agent))
    <3>1. call'[c] = [k EXCEPT !.phase = "topics"]
      BY <1>4, <2>3 DEF Proceeds, Becomes
    <3>2. call'[c].op = "claim" /\ call'[c].phase = "topics" /\ call'[c].agent = k.agent
      BY <1>4, <2>1, <3>1 DEF Call, HistoryOK, ClaimPhases
    <3>3. Part("agent", NULL) \in ever'[c] /\ Part("windows", NULL) \in ever'[c]
      BY <1>4, <1>7, <2>1, <2>3, <3>2, AwakeParts DEF HistoryOK, ClaimPhases
    <3> QED
      BY <3>2, <3>3 DEF HistoryOK
  <2>4. CASE Answered(c)
    BY <1>2, <1>4, <2>4 DEF Answered, Becomes, Idle, ClaimPhases
  <2> QED
    BY <1>8, <2>2, <2>3, <2>4 DEF ComputeAgentResting
<1>9. CASE FetchSubscribed(c)
  <2> DEFINE a == k.agent
             phase == IF SubscribedTo(a) = {} THEN "polling" ELSE "pauses"
  <2>1. k.phase = "topics" /\ UNCHANGED <<now, tables>>
        /\ call'[c] = [k EXCEPT !.topics = SubscribedTo(a), !.phase = phase]
    BY <1>4, <1>9 DEF FetchSubscribed, At, Becomes
  <2>2. /\ call'[c].op = "claim" /\ call'[c].phase = phase /\ call'[c].topics = SubscribedTo(a)
        /\ call'[c].agent = a
    BY <1>4, <2>1 DEF Call, HistoryOK, ClaimPhases
  <2>3. /\ {Part("agent", NULL), Part("windows", NULL)} \subseteq ever'[c]
        /\ \A p \in Topics : IF p \in SubscribedTo(a) THEN Part("subscribed", p) \in ever'[c]
                             ELSE Part("subscribed", p) \notin always'[c]
    BY <1>4, <1>7, <2>1, <2>2, AwakeParts DEF HistoryOK, ClaimPhases
  <2>4. Allowed(c)' \subseteq SubscribedTo(a)
    BY <2>2 DEF Allowed
  <2>5. CASE SubscribedTo(a) = {}
    BY <2>2, <2>3, <2>4, <2>5 DEF HistoryOK, Needs
  <2>6. CASE SubscribedTo(a) # {}
    BY <2>2, <2>3, <2>6 DEF HistoryOK
  <2> QED
    BY <2>5, <2>6
<1>10. CASE ExcludePaused(c)
  <2> DEFINE a == k.agent
             paused == k.topics \intersect PausedTopics(a)
  <2>1. k.phase = "pauses" /\ UNCHANGED <<now, tables>>
        /\ call'[c] = [k EXCEPT !.resting = paused, !.phase = "windows"]
    BY <1>4, <1>10 DEF ExcludePaused, At, Becomes
  <2>2. /\ call'[c].op = "claim" /\ call'[c].phase = "windows" /\ call'[c].topics = k.topics
        /\ call'[c].agent = a /\ call'[c].resting = paused /\ k.topics \subseteq Topics
    BY <1>4, <2>1 DEF Call, HistoryOK, ClaimPhases
  <2>3. /\ {Part("agent", NULL), Part("windows", NULL)} \subseteq ever'[c]
        /\ \A p \in Topics : IF p \in k.topics THEN Part("subscribed", p) \in ever'[c]
                             ELSE Part("subscribed", p) \notin always'[c]
        /\ \A p \in k.topics : IF p \in paused THEN Part("subscription", p) \notin always'[c]
                               ELSE Part("subscription", p) \in ever'[c]
    BY <1>4, <1>7, <2>1, <2>2, AwakeParts DEF HistoryOK, ClaimPhases
  <2> QED
    BY <2>2, <2>3 DEF HistoryOK
<1>11. CASE ExcludeResting(c)
  <2> DEFINE a == k.agent
             windowed == {p \in k.topics : ActiveNow(TopicWindows(a, {p}))}
  <2>1. k.phase = "windows" /\ UNCHANGED <<now, tables>>
        /\ \/ call'[c] = Idle
           \/ call'[c] = [k EXCEPT !.resting = @ \union windowed, !.phase = "polling"]
    BY <1>4, <1>11 DEF ExcludeResting, At, Becomes, Answered
  <2>2. CASE call'[c] = Idle
    BY <1>2, <2>2 DEF Idle, ClaimPhases
  <2>3. CASE call'[c] = [k EXCEPT !.resting = @ \union windowed, !.phase = "polling"]
    <3>1. /\ call'[c].op = "claim" /\ call'[c].phase = "polling" /\ call'[c].topics = k.topics
          /\ call'[c].agent = a /\ call'[c].resting = k.resting \union windowed
          /\ k.topics \subseteq Topics
      BY <1>4, <2>1, <2>3 DEF Call, HistoryOK, ClaimPhases
    <3>2. Allowed(c)' = (k.topics \ k.resting) \ windowed
      BY <3>1 DEF Allowed
    <3>3. /\ {Part("agent", NULL), Part("windows", NULL)} \subseteq ever'[c]
          /\ \A p \in Topics : IF p \in k.topics THEN Part("subscribed", p) \in ever'[c]
                               ELSE Part("subscribed", p) \notin always'[c]
          /\ \A p \in k.topics : IF p \in k.resting THEN Part("subscription", p) \notin always'[c]
                                 ELSE Part("subscription", p) \in ever'[c]
          /\ \A p \in k.topics : IF p \in windowed THEN Part("windows", p) \notin always'[c]
                                 ELSE Part("windows", p) \in ever'[c]
      BY <1>4, <1>7, <2>1, <3>1, AwakeParts DEF HistoryOK, ClaimPhases
    <3> HIDE DEF windowed
    <3> QED
      BY <3>1, <3>2, <3>3 DEF HistoryOK, Needs
  <2> QED
    BY <2>1, <2>2, <2>3
<1> QED
  BY <1>2, <1>5, <1>6, <1>8, <1>9, <1>10, <1>11, ClaimStep

(* A claim takes from no topic for which a rest or pause held all along,    *)
(* and from every topic that was awake throughout: for any windows, time    *)
(* zones and moments, and whatever is paused or changed during the claim.   *)
THEOREM RestIsHonoured == Spec => []RestHonoured
<1> DEFINE Inv == PresenceInv /\ \A c \in Calls : HistoryOK(c)
<1>1. Init => Inv
  <2> SUFFICES ASSUME Init PROVE \A c \in Calls : HistoryOK(c)
    BY InitInv
  <2> QED
    BY DEF Init, HistoryOK, Idle, ClaimPhases
<1>2. Inv /\ [Next]_vars => Inv'
  <2> SUFFICES ASSUME Inv, [Next]_vars PROVE Inv'
    OBVIOUS
  <2>1. PresenceInv'
    BY NextInv
  <2>2. ASSUME NEW c \in Calls PROVE HistoryOK(c)'
    BY HistoryKept
  <2> QED
    BY <2>1, <2>2
<1>3. Inv => RestHonoured
  <2> SUFFICES ASSUME Inv, NEW c \in Calls, call[c].phase = "polling", NEW p \in Topics
               PROVE  /\ p \in Allowed(c) => Needs(p) \subseteq ever[c]
                      /\ Needs(p) \subseteq always[c] => p \in Allowed(c)
    BY DEF RestHonoured, At
  <2>1. HistoryOK(c)
    OBVIOUS
  <2>2. call[c].phase \in ClaimPhases
    BY DEF ClaimPhases
  <2> QED
    BY <2>1, <2>2 DEF HistoryOK
<1> QED
  BY <1>1, <1>2, <1>3, PTL DEF Spec
=============================================================================
