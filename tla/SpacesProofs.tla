----------------------------- MODULE SpacesProofs ------------------------------
(***************************************************************************)
(* For any users, spaces and requests in progress: the tables stay         *)
(* consistent, a join request is decided once, and every change in a space *)
(* is made for a user who was entitled to it while the request was under   *)
(* way.                                                                    *)
(*                                                                         *)
(* The inductive invariant says of a request in progress what it has       *)
(* checked and still holds (CallOK), and that its user was entitled to     *)
(* what has been checked (AuthOK).                                         *)
(***************************************************************************)
EXTENDS Spaces, TLAPS

RequestOK(r) ==
  \/ request[r] = NoRequest
  \/ /\ request[r].space \in Spaces /\ request[r].user \in Users
     /\ request[r].status \in {"pending", "approved", "denied"}

ValueOK(k) ==
  /\ k.phase \notin {"idle", "inserting", "rechecking"} =>
       /\ k.op \in Operations \ {"boot"}
       /\ k.by \in Users \union {Admin} /\ k.space \in Spaces
       /\ k.op = "publish" => k.topic \in Topics
  /\ k.phase = "authorising" => k.seen \in SpaceRow
  /\ k.phase = "cleared" /\ k.op = "apply" => k.by \in Users
  /\ k.phase \in {"missed", "conflict"} => k.op = "publish" /\ k.key \in Keys
  /\ k.phase = "deciding" =>
       /\ k.op = "decide" /\ k.request \in Requests
       /\ request[k.request].status = "pending" /\ request[k.request].space = k.space
  /\ k.phase = "deleting" => k.op = "delete" /\ Exists(k.space)
  /\ k.phase \in {"inserting", "rechecking"} => k.op = "boot"
  /\ k.topic \in Topics => home[k.topic] \in {k.space, NULL}

CallOK(c) == ValueOK(call[c])

Authorised == Managing \union Producing \union {"delete"}

AuthOK(c) ==
  LET k == call[c]
  IN  /\ k.phase # "idle" /\ k.op \in Authorised
      /\ k.phase # "authorising" \/ k.by = Admin \/ k.by = k.seen.owner
      => could[c]

SpacesInv ==
  /\ SpacesTypeOK /\ SpacesConsistent
  /\ \A r \in Requests : RequestOK(r)
  /\ \A c \in Calls : CallOK(c)
-----------------------------------------------------------------------------
(* Which steps change which table *)

LEMMA IdleCall == Idle \in Call
BY DEF Idle, Call

LEMMA SpaceFrame ==
  ASSUME Step, space' # space
  PROVE  \/ \E u \in Users, s \in Spaces, v \in {"private", "team"} : Founds(s, v, u)
         \/ \E c \in Calls : Patch(c) \/ Cascade(c) \/ \E s \in Spaces : BootInsert(c, s)
<1>1. CASE AccountStep
  BY <1>1 DEF AccountStep, Login, Logout, Register, CreateSpace, data
<1>2. CASE ArrivalStep
  BY <1>2 DEF ArrivalStep, Boot, Arrive, data
<1>3. ASSUME NEW c \in Calls, Fail(c) PROVE FALSE
  BY <1>3 DEF Fail, Abort, data
<1>4. ASSUME NEW c \in Calls, ServeStep(c)
      PROVE  Patch(c) \/ Cascade(c) \/ \E s \in Spaces : BootInsert(c, s)
  BY <1>4 DEF ServeStep, Authorise, AddMember, ChangeMember, RemoveMember, Delete, CreateTopic,
              RegisterConsumer, Insert, Apply, Approve, Deny, Decides, DecideLock, Lookup,
              Publish, AnswerConflict, BootRecheck, Throw, Victim, NoIdLeft, Abort, data
<1> QED
  BY <1>1, <1>2, <1>3, <1>4 DEF Step

LEMMA RoleFrame ==
  ASSUME Step, role' # role
  PROVE  \/ \E u \in Users, s \in Spaces, v \in {"private", "team"} : Founds(s, v, u)
         \/ \E c \in Calls : \/ AddMember(c) \/ ChangeMember(c) \/ RemoveMember(c)
                             \/ Cascade(c) \/ Approve(c)
<1>1. CASE AccountStep
  BY <1>1 DEF AccountStep, Login, Logout, Register, CreateSpace, data
<1>2. CASE ArrivalStep
  BY <1>2 DEF ArrivalStep, Boot, Arrive, data
<1>3. ASSUME NEW c \in Calls, Fail(c) PROVE FALSE
  BY <1>3 DEF Fail, Abort, data
<1>4. ASSUME NEW c \in Calls, ServeStep(c)
      PROVE  \/ AddMember(c) \/ ChangeMember(c) \/ RemoveMember(c) \/ Cascade(c) \/ Approve(c)
  BY <1>4 DEF ServeStep, Authorise, Patch, Delete, CreateTopic,
              RegisterConsumer, Insert, Apply, Deny, Decides, DecideLock, Lookup,
              Publish, AnswerConflict, BootRecheck, BootInsert, Throw, Victim, NoIdLeft, Abort, data
<1> QED
  BY <1>1, <1>2, <1>3, <1>4 DEF Step

LEMMA RequestFrame ==
  ASSUME Step, request' # request
  PROVE  \E c \in Calls : Cascade(c) \/ Apply(c) \/ Approve(c) \/ Deny(c)
<1>1. CASE AccountStep
  BY <1>1 DEF AccountStep, Login, Logout, Register, CreateSpace, data
<1>2. CASE ArrivalStep
  BY <1>2 DEF ArrivalStep, Boot, Arrive, data
<1>3. ASSUME NEW c \in Calls, Fail(c) PROVE FALSE
  BY <1>3 DEF Fail, Abort, data
<1>4. ASSUME NEW c \in Calls, ServeStep(c)
      PROVE  Cascade(c) \/ Apply(c) \/ Approve(c) \/ Deny(c)
  BY <1>4 DEF ServeStep, Authorise, Patch, AddMember, ChangeMember, RemoveMember, Delete,
              CreateTopic, RegisterConsumer, Insert, DecideLock, Lookup,
              Publish, AnswerConflict, BootRecheck, BootInsert, Throw, Victim, NoIdLeft, Abort, data
<1> QED
  BY <1>1, <1>2, <1>3, <1>4 DEF Step

LEMMA HomeFrame ==
  ASSUME Step, home' # home
  PROVE  \E c \in Calls : \/ Cascade(c)
                          \/ \E t \in Topics : CreateTopic(c, t)
                          \/ \E a \in Consumers : RegisterConsumer(c, a)
<1>1. CASE AccountStep
  BY <1>1 DEF AccountStep, Login, Logout, Register, CreateSpace, data
<1>2. CASE ArrivalStep
  BY <1>2 DEF ArrivalStep, Boot, Arrive, data
<1>3. ASSUME NEW c \in Calls, Fail(c) PROVE FALSE
  BY <1>3 DEF Fail, Abort, data
<1>4. ASSUME NEW c \in Calls, ServeStep(c)
      PROVE  \/ Cascade(c)
             \/ \E t \in Topics : CreateTopic(c, t)
             \/ \E a \in Consumers : RegisterConsumer(c, a)
  BY <1>4 DEF ServeStep, Authorise, Patch, AddMember, ChangeMember, RemoveMember, Delete,
              Apply, Approve, Deny, Decides, DecideLock, Lookup,
              Publish, AnswerConflict, BootRecheck, BootInsert, Throw, Victim, NoIdLeft, Abort, data
<1> QED
  BY <1>1, <1>2, <1>3, <1>4 DEF Step

LEMMA TasksFrame ==
  ASSUME Step, tasks' # tasks
  PROVE  \E c \in Calls : Cascade(c) \/ Publish(c)
<1>1. CASE AccountStep
  BY <1>1 DEF AccountStep, Login, Logout, Register, CreateSpace, data
<1>2. CASE ArrivalStep
  BY <1>2 DEF ArrivalStep, Boot, Arrive, data
<1>3. ASSUME NEW c \in Calls, Fail(c) PROVE FALSE
  BY <1>3 DEF Fail, Abort, data
<1>4. ASSUME NEW c \in Calls, ServeStep(c)
      PROVE  Cascade(c) \/ Publish(c)
  BY <1>4 DEF ServeStep, Authorise, Patch, AddMember, ChangeMember, RemoveMember, Delete,
              CreateTopic, RegisterConsumer, Insert, Apply, Approve, Deny, Decides, DecideLock,
              Lookup, AnswerConflict, BootRecheck, BootInsert, Throw, Victim, NoIdLeft, Abort, data
<1> QED
  BY <1>1, <1>2, <1>3, <1>4 DEF Step

(* The steps after which a call may still be in progress. *)
Moves(c) ==
  \/ Boot(c)
  \/ \E by \in Users \union {Admin}, op \in Operations \ {"boot"}, s \in Spaces,
       t \in Topics \union {NULL} : Arrive(c, by, op, s, t)
  \/ Authorise(c) \/ Delete(c) \/ Publish(c)
  \/ \E r \in Requests : DecideLock(c, r)
  \/ \E key \in Keys : Lookup(c, key)
  \/ \E s \in Spaces : BootInsert(c, s)

LEMMA CallFrame ==
  ASSUME Step, call' # call
  PROVE  \E c \in Calls : Answered(c) \/ Moves(c)
<1>1. CASE AccountStep
  BY <1>1 DEF AccountStep, Login, Logout, Register, CreateSpace
<1>2. CASE ArrivalStep
  BY <1>2 DEF ArrivalStep, Moves
<1>3. ASSUME NEW c \in Calls, Fail(c) PROVE Answered(c)
  BY <1>3 DEF Fail, Abort
<1>4. ASSUME NEW c \in Calls, ServeStep(c)
      PROVE  Answered(c) \/ Moves(c)
  BY <1>4 DEF ServeStep, Moves, Patch, AddMember, ChangeMember, RemoveMember, Cascade,
              CreateTopic, RegisterConsumer, Insert, Apply, Approve, Deny, Decides,
              AnswerConflict, BootRecheck, Throw, Victim, NoIdLeft, Abort
<1> QED
  BY <1>1, <1>2, <1>3, <1>4 DEF Step

(* The step after which a call is still in progress changes no table, and   *)
(* what the call has checked holds.                                         *)
LEMMA MovesOK ==
  ASSUME SpacesInv, NEW c \in Calls, Moves(c)
  PROVE  \/ Answered(c)
         \/ /\ UNCHANGED data
            /\ \E k \in Call : call' = [call EXCEPT ![c] = k] /\ ValueOK(k)
<1> USE DEF Becomes, Proceeds
<1>1. call \in [Calls -> Call] /\ ValueOK(call[c])
  BY DEF SpacesInv, SpacesTypeOK, CallOK
<1>2. CASE Boot(c)
  <2> DEFINE k == [Idle EXCEPT !.op = "boot", !.phase = "inserting"]
  <2>1. k \in Call /\ ValueOK(k)
    BY SpacesAssumption DEF Idle, Call, ValueOK, Operations
  <2> QED
    BY <1>2, <2>1 DEF Boot, data
<1>3. ASSUME NEW by \in Users \union {Admin}, NEW op \in Operations \ {"boot"}, NEW s \in Spaces,
             NEW t \in Topics \union {NULL}, Arrive(c, by, op, s, t)
      PROVE  UNCHANGED data /\ \E k \in Call : call' = [call EXCEPT ![c] = k] /\ ValueOK(k)
  <2> DEFINE k == [Idle EXCEPT !.op = op, !.by = by, !.phase = "authorising",
                               !.space = s, !.seen = space[s], !.topic = t]
  <2>1. space[s] \in SpaceRow
    BY DEF SpacesInv, SpacesTypeOK
  <2>2. op = "publish" => t \in Topics /\ home[t] = s
    BY <1>3 DEF Arrive
  <2>3. t \in Topics => home[t] \in {s, NULL}
    BY <1>3, SpacesAssumption DEF Arrive
  <2>4. k \in Call
    BY <2>1 DEF Idle, Call
  <2>5. ValueOK(k)
    BY <2>1, <2>2, <2>3 DEF Idle, ValueOK
  <2> QED
    BY <1>3, <2>4, <2>5 DEF Arrive
<1>4. ASSUME NEW p \in {"cleared", "deleting", "conflict", "rechecking"},
             Proceeds(c, p), UNCHANGED data,
             p = "cleared" => call[c].phase = "authorising" /\ (call[c].op = "apply" => call[c].by \in Users),
             p = "deleting" => Writing(c, "delete") /\ Exists(call[c].space),
             p = "conflict" => call[c].phase = "missed",
             p = "rechecking" => call[c].phase = "inserting"
      PROVE  UNCHANGED data /\ \E k \in Call : call' = [call EXCEPT ![c] = k] /\ ValueOK(k)
  <2> DEFINE k == [call[c] EXCEPT !.phase = p, !.seen = NULL]
  <2>1. k \in Call
    BY <1>1 DEF Call
  <2>2. /\ k.phase = p /\ k.op = call[c].op /\ k.by = call[c].by /\ k.space = call[c].space
        /\ k.topic = call[c].topic /\ k.key = call[c].key /\ k.request = call[c].request
    BY <1>1 DEF Call
  <2> HIDE DEF k
  <2>3. ValueOK(k)
    BY <1>1, <1>4, <2>2 DEF ValueOK, Writing
  <2> QED
    BY <1>4, <2>1, <2>3 DEF k
<1>5. CASE Authorise(c) /\ ~Answered(c)
  <2>1. /\ call[c].phase = "authorising" /\ Proceeds(c, "cleared") /\ UNCHANGED data
        /\ Entitled(call[c], RoleOf(call[c].space, call[c].by))
    BY <1>5 DEF Authorise
  <2>2. call[c].op = "apply" => call[c].by # Admin
    BY <2>1 DEF Entitled, Managing, Producing
  <2>3. call[c].op = "apply" => call[c].by \in Users
    BY <1>1, <2>1, <2>2 DEF ValueOK
  <2> QED
    BY <1>4, <2>1, <2>3
<1>6. CASE Delete(c) /\ ~Answered(c)
  BY <1>4, <1>6 DEF Delete
<1>7. CASE Publish(c) /\ ~Answered(c)
  BY <1>4, <1>7 DEF Publish, data
<1>8. ASSUME NEW s \in Spaces, BootInsert(c, s), ~Answered(c)
      PROVE  UNCHANGED data /\ \E k \in Call : call' = [call EXCEPT ![c] = k] /\ ValueOK(k)
  BY <1>4, <1>8 DEF BootInsert, data
<1>9. ASSUME NEW r \in Requests, DecideLock(c, r), ~Answered(c)
      PROVE  UNCHANGED data /\ \E k \in Call : call' = [call EXCEPT ![c] = k] /\ ValueOK(k)
  <2> DEFINE k == [call[c] EXCEPT !.phase = "deciding", !.request = r]
  <2>1. k \in Call
    BY <1>1 DEF Call
  <2>2. /\ k.phase = "deciding" /\ k.op = call[c].op /\ k.by = call[c].by /\ k.space = call[c].space
        /\ k.topic = call[c].topic /\ k.request = r
    BY <1>1 DEF Call
  <2>3. /\ call' = [call EXCEPT ![c] = k] /\ UNCHANGED data /\ Writing(c, "decide")
        /\ request[r].space = call[c].space /\ request[r].status = "pending"
    BY <1>9 DEF DecideLock
  <2> HIDE DEF k
  <2>4. ValueOK(k)
    BY <1>1, <2>2, <2>3 DEF ValueOK, Writing
  <2> QED
    BY <2>1, <2>3, <2>4
<1>10. ASSUME NEW key \in Keys, Lookup(c, key), ~Answered(c)
       PROVE  UNCHANGED data /\ \E k \in Call : call' = [call EXCEPT ![c] = k] /\ ValueOK(k)
  <2> DEFINE k == [call[c] EXCEPT !.phase = "missed", !.key = key]
  <2>1. k \in Call
    BY <1>1 DEF Call
  <2>2. /\ k.phase = "missed" /\ k.op = call[c].op /\ k.by = call[c].by /\ k.space = call[c].space
        /\ k.topic = call[c].topic /\ k.key = key
    BY <1>1 DEF Call
  <2>3. call' = [call EXCEPT ![c] = k] /\ UNCHANGED data /\ Writing(c, "publish")
    BY <1>10 DEF Lookup
  <2> HIDE DEF k
  <2>4. ValueOK(k)
    BY <1>1, <2>2, <2>3 DEF ValueOK, Writing
  <2> QED
    BY <2>1, <2>3, <2>4
<1> QED
  BY <1>2, <1>3, <1>5, <1>6, <1>7, <1>8, <1>9, <1>10 DEF Moves
-----------------------------------------------------------------------------
(* Types *)

LEMMA CallTyped ==
  ASSUME SpacesInv, Step
  PROVE  call' \in [Calls -> Call]
<1>1. call \in [Calls -> Call]
  BY DEF SpacesInv, SpacesTypeOK
<1>2. ASSUME NEW c \in Calls, Answered(c) PROVE call' \in [Calls -> Call]
  BY <1>1, <1>2, IdleCall DEF Answered, Becomes
<1>3. ASSUME NEW c \in Calls, Moves(c) PROVE call' \in [Calls -> Call]
  BY <1>1, <1>2, <1>3, MovesOK
<1> QED
  BY <1>1, <1>2, <1>3, CallFrame

LEMMA SpaceTyped ==
  ASSUME SpacesInv, Step
  PROVE  space' \in [Spaces -> SpaceRow]
<1>1. space \in [Spaces -> SpaceRow]
  BY DEF SpacesInv, SpacesTypeOK
<1>2. ASSUME NEW u \in Users, NEW s \in Spaces, NEW v \in {"private", "team"}, Founds(s, v, u)
      PROVE  space' \in [Spaces -> SpaceRow]
  BY <1>1, <1>2, SpacesAssumption DEF Founds, SpaceRow
<1>3. ASSUME NEW c \in Calls, Patch(c) PROVE space' \in [Spaces -> SpaceRow]
  <2>1. ASSUME NEW v \in Visibilities, space' = [space EXCEPT ![call[c].space].visibility = v]
        PROVE  space' \in [Spaces -> SpaceRow]
    BY <1>1, <2>1 DEF SpaceRow
  <2> QED
    BY <1>1, <1>3, <2>1 DEF Patch
<1>4. ASSUME NEW c \in Calls, Cascade(c) PROVE space' \in [Spaces -> SpaceRow]
  BY <1>1, <1>4 DEF Cascade, SpaceRow
<1>5. ASSUME NEW c \in Calls, NEW s \in Spaces, BootInsert(c, s)
      PROVE  space' \in [Spaces -> SpaceRow]
  BY <1>1, <1>5, SpacesAssumption DEF BootInsert, SpaceRow
<1> QED
  BY <1>1, <1>2, <1>3, <1>4, <1>5, SpaceFrame

LEMMA RoleTyped ==
  ASSUME SpacesInv, Step
  PROVE  role' \in [Spaces -> [Users -> Roles \union {NULL}]]
<1>1. role \in [Spaces -> [Users -> Roles \union {NULL}]] /\ account \subseteq Users
  BY DEF SpacesInv, SpacesTypeOK
<1>2. ASSUME NEW u \in Users, NEW s \in Spaces, NEW v \in {"private", "team"}, Founds(s, v, u)
      PROVE  role' \in [Spaces -> [Users -> Roles \union {NULL}]]
  BY <1>1, <1>2, SpacesAssumption DEF Founds, Nobody
<1>3. ASSUME NEW s, NEW u, NEW r \in Roles \union {NULL},
             SetRole(s, u, r) \/ role' = [role EXCEPT ![s][u] = r]
      PROVE  role' \in [Spaces -> [Users -> Roles \union {NULL}]]
  BY <1>1, <1>3 DEF SetRole
<1>4. ASSUME NEW c \in Calls, AddMember(c) \/ ChangeMember(c) \/ RemoveMember(c)
      PROVE  role' \in [Spaces -> [Users -> Roles \union {NULL}]]
  BY <1>1, <1>3, <1>4 DEF AddMember, ChangeMember, RemoveMember
<1>5. ASSUME NEW c \in Calls, Cascade(c)
      PROVE  role' \in [Spaces -> [Users -> Roles \union {NULL}]]
  BY <1>1, <1>5 DEF Cascade, Nobody
<1>6. ASSUME NEW c \in Calls, Approve(c)
      PROVE  role' \in [Spaces -> [Users -> Roles \union {NULL}]]
  <2> DEFINE q == request[call[c].request]
  <2>1. PICK r \in Roles : role' = [role EXCEPT ![q.space][q.user] = r]
    BY <1>6 DEF Approve
  <2> QED
    BY <1>3, <2>1
<1> QED
  BY <1>1, <1>2, <1>4, <1>5, <1>6, RoleFrame

(* A decision is of a request that is pending in the decider's space. *)
LEMMA DecisionFacts ==
  ASSUME SpacesInv, NEW c \in Calls, call[c].phase = "deciding"
  PROVE  /\ call[c].op = "decide" /\ call[c].request \in Requests
         /\ request[call[c].request].status = "pending"
         /\ request[call[c].request].space = call[c].space
         /\ call[c].space \in Spaces /\ Exists(call[c].space)
         /\ request[call[c].request].user \in Users
         /\ requestLock[call[c].request] = c
<1>1. /\ call[c].op = "decide" /\ call[c].request \in Requests
      /\ request[call[c].request].status = "pending"
      /\ request[call[c].request].space = call[c].space
  BY DEF SpacesInv, CallOK, ValueOK
<1>2. request[call[c].request] # NoRequest
  BY <1>1 DEF NoRequest
<1>3. requestLock[call[c].request] = c
  BY DEF SpacesInv, SpacesConsistent, LocksAreHeld
<1> QED
  BY <1>1, <1>2, <1>3 DEF SpacesInv, RequestOK, SpacesConsistent, NothingOutlivesItsSpace

LEMMA RequestTyped ==
  ASSUME SpacesInv, Step
  PROVE  request' \in [Requests -> RequestRow] /\ \A r \in Requests : RequestOK(r)'
<1>1. request \in [Requests -> RequestRow] /\ \A r \in Requests : RequestOK(r)
  BY DEF SpacesInv, SpacesTypeOK
<1>2. ASSUME NEW c \in Calls, Cascade(c)
      PROVE  request' \in [Requests -> RequestRow] /\ \A r \in Requests : RequestOK(r)'
  BY <1>1, <1>2 DEF Cascade, RequestRow, NoRequest, RequestOK
<1>3. ASSUME NEW c \in Calls, Apply(c)
      PROVE  request' \in [Requests -> RequestRow] /\ \A r \in Requests : RequestOK(r)'
  <2>1. call[c].space \in Spaces /\ call[c].by \in Users
    BY <1>3 DEF Apply, Writing, SpacesInv, CallOK, ValueOK
  <2>2. CASE UNCHANGED request
    BY <1>1, <2>2 DEF RequestOK
  <2>3. CASE request' # request
    <3>1. PICK r \in Requests : request' = [request EXCEPT ![r] = [space |-> call[c].space,
                                              user |-> call[c].by, status |-> "pending"]]
      BY <1>3, <2>3 DEF Apply
    <3> QED
      BY <1>1, <2>1, <3>1 DEF RequestRow, RequestOK
  <2> QED
    BY <2>2, <2>3
<1>4. ASSUME NEW c \in Calls, NEW d \in {"approved", "denied"}, Decides(c, d)
      PROVE  request' \in [Requests -> RequestRow] /\ \A r \in Requests : RequestOK(r)'
  <2> DEFINE q == call[c].request
  <2>1. /\ q \in Requests /\ request[q] # NoRequest
        /\ request' = [request EXCEPT ![q].status = d]
    BY <1>4, DecisionFacts DEF Decides, NoRequest
  <2>2. [request[q] EXCEPT !.status = d] \in RequestRow
    BY <1>1, <2>1 DEF RequestRow
  <2>3. request' \in [Requests -> RequestRow]
    BY <1>1, <2>1, <2>2
  <2>4. ASSUME NEW r \in Requests PROVE RequestOK(r)'
    BY <1>1, <2>1 DEF RequestOK, RequestRow
  <2> QED
    BY <2>3, <2>4
<1> QED
  <2>1. CASE UNCHANGED request
    BY <1>1, <2>1 DEF RequestOK
  <2>2. \A c \in Calls : /\ Approve(c) => Decides(c, "approved")
                         /\ Deny(c) => Decides(c, "denied")
    BY DEF Approve, Deny
  <2> QED
    BY <1>2, <1>3, <1>4, <2>1, <2>2, RequestFrame

LEMMA HomeTyped ==
  ASSUME SpacesInv, Step
  PROVE  home' \in [Items -> Spaces \union {NULL}]
<1>1. home \in [Items -> Spaces \union {NULL}]
  BY DEF SpacesInv, SpacesTypeOK
<1>2. ASSUME NEW c \in Calls, Cascade(c) PROVE home' \in [Items -> Spaces \union {NULL}]
  BY <1>1, <1>2 DEF Cascade
<1>3. ASSUME NEW c \in Calls, NEW i \in Items, Insert(c, i), call[c].phase = "cleared"
      PROVE  home' \in [Items -> Spaces \union {NULL}]
  <2>1. call[c].space \in Spaces
    BY <1>3 DEF SpacesInv, CallOK, ValueOK
  <2> QED
    BY <1>1, <1>3, <2>1 DEF Insert
<1> QED
  BY <1>1, <1>2, <1>3, HomeFrame DEF CreateTopic, RegisterConsumer, Writing, Items

LEMMA TasksTyped ==
  ASSUME SpacesInv, Step
  PROVE  tasks' \in [Keys \X Topics -> Nat]
<1>1. tasks \in [Keys \X Topics -> Nat]
  BY DEF SpacesInv, SpacesTypeOK
<1>2. ASSUME NEW c \in Calls, Cascade(c) PROVE tasks' \in [Keys \X Topics -> Nat]
  BY <1>1, <1>2 DEF Cascade
<1>3. ASSUME NEW c \in Calls, Publish(c) PROVE tasks' \in [Keys \X Topics -> Nat]
  BY <1>1, <1>3 DEF Publish
<1> QED
  BY <1>1, <1>2, <1>3, TasksFrame
-----------------------------------------------------------------------------
(* Row locks *)

FreesSpaces(c) == spaceLock' = [s \in Spaces |-> IF spaceLock[s] = c THEN NULL ELSE spaceLock[s]]

LEMMA RequestLockFrame ==
  ASSUME Step, requestLock' # requestLock
  PROVE  \E c \in Calls : \/ \E r \in Requests : DecideLock(c, r)
                          \/ Releases(c) /\ Answered(c)
<1>1. CASE AccountStep
  BY <1>1 DEF AccountStep, Login, Logout, Register, CreateSpace, locks
<1>2. CASE ArrivalStep
  BY <1>2 DEF ArrivalStep, Boot, Arrive, locks
<1>3. ASSUME NEW c \in Calls, Fail(c) PROVE Releases(c) /\ Answered(c)
  BY <1>3 DEF Fail, Abort
<1>4. ASSUME NEW c \in Calls, ServeStep(c)
      PROVE  (\E r \in Requests : DecideLock(c, r)) \/ (Releases(c) /\ Answered(c))
  BY <1>4 DEF ServeStep, Authorise, Patch, AddMember, ChangeMember, RemoveMember, Delete, Cascade,
              CreateTopic, RegisterConsumer, Insert, Apply, Approve, Deny, Decides, Lookup,
              Publish, AnswerConflict, BootRecheck, BootInsert, Throw, Victim, NoIdLeft, Abort, locks
<1> QED
  BY <1>1, <1>2, <1>3, <1>4 DEF Step

LEMMA SpaceLockFrame ==
  ASSUME Step, spaceLock' # spaceLock
  PROVE  \E c \in Calls : Delete(c) \/ Cascade(c) \/ (FreesSpaces(c) /\ Answered(c))
<1>1. CASE AccountStep
  BY <1>1 DEF AccountStep, Login, Logout, Register, CreateSpace, locks
<1>2. CASE ArrivalStep
  BY <1>2 DEF ArrivalStep, Boot, Arrive, locks
<1>3. ASSUME NEW c \in Calls, Fail(c) PROVE FreesSpaces(c) /\ Answered(c)
  BY <1>3 DEF Fail, Abort, FreesSpaces
<1>4. ASSUME NEW c \in Calls, ServeStep(c)
      PROVE  Delete(c) \/ Cascade(c) \/ (FreesSpaces(c) /\ Answered(c))
  BY <1>4 DEF ServeStep, Authorise, Patch, AddMember, ChangeMember, RemoveMember,
              CreateTopic, RegisterConsumer, Insert, Apply, Approve, Deny, Decides, DecideLock,
              Lookup, Publish, AnswerConflict, BootRecheck, BootInsert, Throw, Victim, NoIdLeft,
              Abort, FreesSpaces, locks
<1> QED
  BY <1>1, <1>2, <1>3, <1>4 DEF Step

LEMMA LocksTyped ==
  ASSUME SpacesInv, Step
  PROVE  /\ spaceLock' \in [Spaces -> Calls \union {NULL}]
         /\ requestLock' \in [Requests -> Calls \union {NULL}]
<1>1. /\ spaceLock \in [Spaces -> Calls \union {NULL}]
      /\ requestLock \in [Requests -> Calls \union {NULL}]
  BY DEF SpacesInv, SpacesTypeOK
<1>2. spaceLock' \in [Spaces -> Calls \union {NULL}]
  <2>1. ASSUME NEW c \in Calls, Delete(c) \/ Cascade(c) \/ FreesSpaces(c)
        PROVE  spaceLock' \in [Spaces -> Calls \union {NULL}]
    BY <1>1, <2>1 DEF Delete, Cascade, FreesSpaces
  <2> QED
    BY <1>1, <2>1, SpaceLockFrame
<1>3. requestLock' \in [Requests -> Calls \union {NULL}]
  <2>1. ASSUME NEW c \in Calls, Releases(c) \/ \E r \in Requests : DecideLock(c, r)
        PROVE  requestLock' \in [Requests -> Calls \union {NULL}]
    BY <1>1, <2>1 DEF Releases, DecideLock
  <2> QED
    BY <1>1, <2>1, RequestLockFrame
<1> QED
  BY <1>2, <1>3

(* A step of one call leaves the others as they are. *)
LEMMA OneCall ==
  ASSUME SpacesInv, NEW c \in Calls, Answered(c) \/ Moves(c), NEW d \in Calls
  PROVE  d # c => call'[d] = call[d]
<1>1. call \in [Calls -> Call]
  BY DEF SpacesInv, SpacesTypeOK
<1>2. Answered(c) => call' = [call EXCEPT ![c] = Idle]
  BY DEF Answered, Becomes
<1>3. Moves(c) => \E k : call' = [call EXCEPT ![c] = k]
  BY <1>2, MovesOK
<1> QED
  BY <1>1, <1>2, <1>3

LEMMA TakesLock ==
  ASSUME SpacesInv, Step, NEW c \in Calls, call'[c] # call[c],
         call'[c].phase \in {"deciding", "deleting"}
  PROVE  \/ Delete(c) /\ Proceeds(c, "deleting")
         \/ \E r \in Requests : /\ DecideLock(c, r)
                                /\ Becomes(c, [call[c] EXCEPT !.phase = "deciding", !.request = r])
<1>1. call \in [Calls -> Call]
  BY DEF SpacesInv, SpacesTypeOK
<1>2. PICK d \in Calls : Answered(d) \/ Moves(d)
  BY CallFrame
<1>3. d = c
  BY <1>2, OneCall
<1>4. ~Answered(c)
  BY <1>1 DEF Answered, Becomes, Idle
<1>5. ~Boot(c)
  BY <1>1 DEF Boot, Becomes, Idle
<1>6. ASSUME NEW by, NEW op, NEW s, NEW t, Arrive(c, by, op, s, t) PROVE FALSE
  BY <1>1, <1>6 DEF Arrive, Becomes, Idle
<1>7. ASSUME NEW p \in {"cleared", "conflict", "rechecking"}, Proceeds(c, p) PROVE FALSE
  BY <1>1, <1>7 DEF Proceeds, Becomes, Call
<1>8. ~Authorise(c) /\ ~Publish(c) /\ \A s \in Spaces : ~BootInsert(c, s)
  BY <1>4, <1>7 DEF Authorise, Publish, BootInsert
<1>9. ASSUME NEW key \in Keys, Lookup(c, key) PROVE FALSE
  BY <1>1, <1>4, <1>9 DEF Lookup, Becomes, Call
<1>10. Moves(c)
  BY <1>2, <1>3, <1>4
<1>11. Delete(c) \/ \E r \in Requests : DecideLock(c, r)
  BY <1>5, <1>6, <1>8, <1>9, <1>10 DEF Moves
<1> QED
  BY <1>4, <1>11 DEF Delete, DecideLock

(* Whoever decides a request or deletes a space holds its row. *)
LEMMA LocksStay ==
  ASSUME SpacesInv, Step
  PROVE  LocksAreHeld'
<1>1. /\ call \in [Calls -> Call] /\ LocksAreHeld
      /\ spaceLock \in [Spaces -> Calls \union {NULL}]
      /\ requestLock \in [Requests -> Calls \union {NULL}]
  BY DEF SpacesInv, SpacesTypeOK, SpacesConsistent
<1>2. ASSUME NEW c \in Calls, call'[c] = call[c], call[c].phase = "deciding"
      PROVE  requestLock'[call[c].request] = c
  <2>1. requestLock[call[c].request] = c /\ call[c].request \in Requests
    BY <1>2, DecisionFacts
  <2>2. ASSUME NEW d \in Calls, NEW r \in Requests, DecideLock(d, r)
        PROVE  requestLock'[call[c].request] = c
    BY <1>1, <2>1, <2>2, SpacesAssumption DEF DecideLock
  <2>3. ASSUME NEW d \in Calls, Releases(d), Answered(d)
        PROVE  requestLock'[call[c].request] = c
    <3>1. d # c
      BY <1>1, <1>2, <2>3 DEF Answered, Becomes, Idle
    <3> QED
      BY <1>1, <2>1, <2>3, <3>1 DEF Releases
  <2> QED
    BY <2>1, <2>2, <2>3, RequestLockFrame
<1>3. ASSUME NEW c \in Calls, call'[c] = call[c], call[c].phase = "deleting"
      PROVE  spaceLock'[call[c].space] = c
  <2>1. spaceLock[call[c].space] = c /\ call[c].space \in Spaces
    BY <1>1, <1>3 DEF LocksAreHeld, SpacesInv, CallOK, ValueOK
  <2>2. ASSUME NEW d \in Calls, Delete(d)
        PROVE  spaceLock'[call[c].space] = c
    BY <1>1, <2>1, <2>2, SpacesAssumption DEF Delete, Unlocked
  <2>3. ASSUME NEW d \in Calls, Cascade(d)
        PROVE  spaceLock'[call[c].space] = c
    <3>1. d # c
      BY <1>1, <1>3, <2>3 DEF Cascade, Answered, Becomes, Idle
    <3>2. spaceLock[call[d].space] = d
      BY <1>1, <2>3 DEF Cascade, LocksAreHeld
    <3> QED
      BY <1>1, <2>1, <2>3, <3>1, <3>2 DEF Cascade
  <2>4. ASSUME NEW d \in Calls, FreesSpaces(d), Answered(d)
        PROVE  spaceLock'[call[c].space] = c
    <3>1. d # c
      BY <1>1, <1>3, <2>4 DEF Answered, Becomes, Idle
    <3> QED
      BY <1>1, <2>1, <2>4, <3>1 DEF FreesSpaces
  <2> QED
    BY <2>1, <2>2, <2>3, <2>4, SpaceLockFrame
<1>4. ASSUME NEW c \in Calls, call'[c] # call[c], call'[c].phase \in {"deciding", "deleting"}
      PROVE  /\ call'[c].phase = "deciding" => requestLock'[call'[c].request] = c
             /\ call'[c].phase = "deleting" => spaceLock'[call'[c].space] = c
  <2>1. CASE Delete(c) /\ Proceeds(c, "deleting")
    <3>1. /\ call'[c].phase = "deleting" /\ call'[c].space = call[c].space
      BY <1>1, <2>1 DEF Proceeds, Becomes, Call
    <3>2. call[c].space \in Spaces /\ call[c].phase = "cleared"
      BY <2>1 DEF Delete, Writing, SpacesInv, CallOK, ValueOK
    <3>3. spaceLock' = [spaceLock EXCEPT ![call[c].space] = c]
      BY <1>1, <2>1, <3>1, <3>2 DEF Delete, Answered, Becomes, Idle
    <3> QED
      BY <1>1, <3>1, <3>2, <3>3
  <2>2. ASSUME NEW r \in Requests, DecideLock(c, r),
               Becomes(c, [call[c] EXCEPT !.phase = "deciding", !.request = r])
        PROVE  call'[c].phase = "deciding" /\ requestLock'[call'[c].request] = c
    <3>1. call'[c].phase = "deciding" /\ call'[c].request = r
      BY <1>1, <2>2 DEF Becomes, Call
    <3>2. ~Answered(c)
      BY <1>1, <3>1 DEF Answered, Becomes, Idle
    <3>3. requestLock' = [requestLock EXCEPT ![r] = c]
      BY <2>2, <3>2 DEF DecideLock
    <3> QED
      BY <1>1, <3>1, <3>3
  <2> QED
    BY <1>4, <2>1, <2>2, TakesLock
<1> QED
  BY <1>2, <1>3, <1>4 DEF LocksAreHeld
-----------------------------------------------------------------------------
(* The tables agree *)

LEMMA PublicStays ==
  ASSUME SpacesInv, Step
  PROVE  OnePublicSpace'
<1>1. space \in [Spaces -> SpaceRow] /\ OnePublicSpace
  BY DEF SpacesInv, SpacesTypeOK, SpacesConsistent
<1>2. ASSUME NEW u \in Users, NEW s \in Spaces, NEW v \in {"private", "team"}, Founds(s, v, u)
      PROVE  Public' \subseteq Public
  BY <1>1, <1>2 DEF Founds, Public
<1>3. ASSUME NEW c \in Calls, Patch(c)
      PROVE  OnePublicSpace'
  <2> DEFINE s == call[c].space
  <2>1. s \in Spaces
    BY <1>3 DEF Patch, Writing, SpacesInv, CallOK, ValueOK
  <2>2. ASSUME NEW v \in Visibilities, space' = [space EXCEPT ![s].visibility = v],
               v = "public" => Public \subseteq {s}
        PROVE  OnePublicSpace'
    <3>1. \A t \in Spaces : space'[t].visibility = IF t = s THEN v ELSE space[t].visibility
      BY <1>1, <2>1, <2>2 DEF SpaceRow
    <3> QED
      BY <1>1, <2>2, <3>1 DEF OnePublicSpace, Public
  <2>3. CASE UNCHANGED space
    BY <1>1, <2>3 DEF OnePublicSpace, Public
  <2> QED
    BY <1>3, <2>2, <2>3 DEF Patch
<1>4. ASSUME NEW c \in Calls, Cascade(c)
      PROVE  Public' \subseteq Public
  BY <1>1, <1>4 DEF Cascade, Public
<1>5. ASSUME NEW c \in Calls, NEW s \in Spaces, BootInsert(c, s)
      PROVE  Public' \subseteq Public \/ Public' \subseteq {s}
  BY <1>1, <1>5 DEF BootInsert, Public
<1> QED
  BY <1>1, <1>2, <1>3, <1>4, <1>5, SpaceFrame DEF OnePublicSpace, Public

LEMMA PendingStays ==
  ASSUME SpacesInv, Step
  PROVE  OnePendingRequest'
<1>1. request \in [Requests -> RequestRow] /\ OnePendingRequest
  BY DEF SpacesInv, SpacesTypeOK, SpacesConsistent
<1>2. ASSUME \A r \in Requests : request'[r].status = "pending" => request'[r] = request[r]
      PROVE  OnePendingRequest'
  BY <1>1, <1>2 DEF OnePendingRequest
<1>3. ASSUME NEW c \in Calls, Cascade(c) PROVE OnePendingRequest'
  BY <1>2, <1>3 DEF Cascade, NoRequest
<1>4. ASSUME NEW c \in Calls, NEW d \in {"approved", "denied"}, Decides(c, d)
      PROVE  OnePendingRequest'
  <2>1. \A r \in Requests : request'[r].status = "pending" => request'[r] = request[r]
    BY <1>1, <1>4 DEF Decides, RequestRow
  <2> QED
    BY <1>2, <2>1
<1>5. ASSUME NEW c \in Calls, Apply(c), request' # request PROVE OnePendingRequest'
  <2> DEFINE q == [space |-> call[c].space, user |-> call[c].by, status |-> "pending"]
  <2>1. PICK r \in Requests : request' = [request EXCEPT ![r] = q]
    BY <1>5 DEF Apply
  <2>2. \A p \in Requests : request[p] # q
    BY <1>5 DEF Apply, Pending
  <2> HIDE DEF q
  <2>3. \A p \in Requests : request'[p] = IF p = r THEN q ELSE request[p]
    BY <1>1, <2>1
  <2> QED
    BY <1>1, <2>2, <2>3 DEF OnePendingRequest
<1> QED
  BY <1>2, <1>3, <1>4, <1>5, RequestFrame DEF Approve, Deny

LEMMA KeysStay ==
  ASSUME SpacesInv, Step
  PROVE  OneTaskPerKey'
<1>1. tasks \in [Keys \X Topics -> Nat] /\ OneTaskPerKey
  BY DEF SpacesInv, SpacesTypeOK, SpacesConsistent
<1>2. ASSUME NEW c \in Calls, Cascade(c) PROVE OneTaskPerKey'
  <2>1. \A kt \in Keys \X Topics : tasks'[kt] = tasks[kt] \/ tasks'[kt] = 0
    BY <1>2 DEF Cascade
  <2> QED
    BY <1>1, <2>1 DEF OneTaskPerKey
<1>3. ASSUME NEW c \in Calls, Publish(c), tasks' # tasks PROVE OneTaskPerKey'
  <2> DEFINE key == call[c].key
             t == call[c].topic
  <2>1. call[c].phase = "missed" /\ Keyed(key) = {} /\ tasks' = [tasks EXCEPT ![<<key, t>>] = @ + 1]
    BY <1>3 DEF Publish
  <2>2. key \in Keys /\ t \in Topics
    BY <2>1 DEF SpacesInv, CallOK, ValueOK
  <2>3. \A p \in Topics : tasks[<<key, p>>] = 0
    BY <1>1, <2>1, <2>2 DEF Keyed
  <2>4. \A kt \in Keys \X Topics : tasks'[kt] = IF kt = <<key, t>> THEN 1 ELSE tasks[kt]
    BY <1>1, <2>1, <2>2, <2>3
  <2>5. \A kt \in Keys \X Topics : kt[1] = key => kt = <<key, kt[2]>> /\ kt[2] \in Topics
    OBVIOUS
  <2>6. \A kt \in Keys \X Topics : kt[1] = key /\ tasks'[kt] > 0 => kt = <<key, t>>
    BY <2>3, <2>4, <2>5
  <2>7. \A kt \in Keys \X Topics : kt[1] # key => tasks'[kt] = tasks[kt]
    BY <2>4
  <2>8. \A kt \in Keys \X Topics : tasks'[kt] \in {0, 1}
    BY <1>1, <2>4 DEF OneTaskPerKey
  <2> QED
    BY <1>1, <2>6, <2>7, <2>8 DEF OneTaskPerKey
<1> QED
  BY <1>1, <1>2, <1>3, TasksFrame DEF OneTaskPerKey

(* A space in which something is being deleted or decided is still there.  *)
LEMMA ExistsFrame ==
  ASSUME SpacesInv, Step, NEW s \in Spaces, Exists(s)
  PROVE  Exists(s)' \/ \E c \in Calls : Cascade(c) /\ call[c].space = s
<1>1. space \in [Spaces -> SpaceRow]
  BY DEF SpacesInv, SpacesTypeOK
<1>2. ASSUME NEW u \in Users, NEW t \in Spaces, NEW v \in {"private", "team"}, Founds(t, v, u)
      PROVE  Exists(s)'
  BY <1>1, <1>2, SpacesAssumption DEF Founds, Exists
<1>3. ASSUME NEW c \in Calls, Patch(c)
      PROVE  Exists(s)'
  <2>1. ASSUME NEW v \in Visibilities, space' = [space EXCEPT ![call[c].space].visibility = v]
        PROVE  Exists(s)'
    BY <1>1, <2>1 DEF Exists, SpaceRow
  <2> QED
    BY <1>3, <2>1 DEF Patch, Exists
<1>4. ASSUME NEW c \in Calls, Cascade(c), call[c].space # s
      PROVE  Exists(s)'
  BY <1>1, <1>4 DEF Cascade, Exists
<1>5. ASSUME NEW c \in Calls, NEW t \in Spaces, BootInsert(c, t)
      PROVE  Exists(s)'
  BY <1>1, <1>5, SpacesAssumption DEF BootInsert, Exists
<1> QED
  BY <1>2, <1>3, <1>4, <1>5, SpaceFrame DEF Exists

LEMMA RolesInSpaces ==
  ASSUME SpacesInv, Step, NEW s \in Spaces, role'[s] # Nobody
  PROVE  Exists(s)'
<1>1. /\ role \in [Spaces -> [Users -> Roles \union {NULL}]] /\ space \in [Spaces -> SpaceRow]
      /\ role[s] # Nobody => Exists(s)
  BY DEF SpacesInv, SpacesTypeOK, SpacesConsistent, NothingOutlivesItsSpace
<1>2. Exists(s) \/ Exists(s)'
  <2>1. ASSUME NEW u \in Users, NEW t \in Spaces, NEW v \in {"private", "team"}, Founds(t, v, u)
        PROVE  Exists(s) \/ Exists(s)'
    BY <1>1, <2>1, SpacesAssumption DEF Founds, Exists
  <2>2. ASSUME NEW t, NEW u, NEW r, SetRole(t, u, r) PROVE Exists(s)
    BY <1>1, <2>2 DEF SetRole
  <2>3. ASSUME NEW c \in Calls, AddMember(c) \/ ChangeMember(c) \/ RemoveMember(c)
        PROVE  Exists(s)
    BY <1>1, <2>2, <2>3 DEF AddMember, ChangeMember, RemoveMember
  <2>4. ASSUME NEW c \in Calls, Cascade(c) PROVE Exists(s)
    BY <1>1, <2>4 DEF Cascade
  <2>5. ASSUME NEW c \in Calls, Approve(c) PROVE Exists(s)
    <3> DEFINE q == request[call[c].request]
    <3>1. PICK r \in Roles : role' = [role EXCEPT ![q.space][q.user] = r]
      BY <2>5 DEF Approve
    <3>2. q.space = call[c].space /\ Exists(call[c].space)
      BY <2>5, DecisionFacts DEF Approve, Decides
    <3> QED
      BY <1>1, <3>1, <3>2
  <2> QED
    BY <1>1, <2>1, <2>3, <2>4, <2>5, RoleFrame
<1>3. ASSUME NEW c \in Calls, Cascade(c), call[c].space = s PROVE FALSE
  BY <1>1, <1>3 DEF Cascade
<1> QED
  BY <1>2, <1>3, ExistsFrame

LEMMA RequestsInSpaces ==
  ASSUME SpacesInv, Step, NEW r \in Requests, request'[r] # NoRequest
  PROVE  request'[r].space \in Spaces /\ Exists(request[r].space)'
<1>1. /\ request \in [Requests -> RequestRow]
      /\ request[r] # NoRequest => request[r].space \in Spaces /\ Exists(request[r].space)
  BY DEF SpacesInv, SpacesTypeOK, SpacesConsistent, NothingOutlivesItsSpace
<1>2. request'[r].space \in Spaces /\ Exists(request'[r].space)
  <2>1. ASSUME NEW c \in Calls, Cascade(c)
        PROVE  request'[r].space \in Spaces /\ Exists(request'[r].space)
    BY <1>1, <2>1 DEF Cascade
  <2>2. ASSUME NEW c \in Calls, Apply(c)
        PROVE  request'[r].space \in Spaces /\ Exists(request'[r].space)
    <3>1. call[c].space \in Spaces
      BY <2>2 DEF Apply, Writing, SpacesInv, CallOK, ValueOK
    <3>2. CASE UNCHANGED request
      BY <1>1, <3>2
    <3>3. CASE request' # request
      <4>1. Exists(call[c].space) /\ \E p \in Requests :
              request' = [request EXCEPT ![p] = [space |-> call[c].space, user |-> call[c].by,
                                                 status |-> "pending"]]
        BY <2>2, <3>3 DEF Apply
      <4> QED
        BY <1>1, <3>1, <4>1
    <3> QED
      BY <3>2, <3>3
  <2>3. ASSUME NEW c \in Calls, NEW d \in {"approved", "denied"}, Decides(c, d)
        PROVE  request'[r].space \in Spaces /\ Exists(request'[r].space)
    <3>1. /\ request' = [request EXCEPT ![call[c].request].status = d]
          /\ request[call[c].request].space = call[c].space
          /\ call[c].space \in Spaces /\ Exists(call[c].space)
      BY <2>3, DecisionFacts DEF Decides
    <3>2. request'[r].space = request[r].space
      BY <1>1, <3>1 DEF RequestRow
    <3>3. r # call[c].request => request'[r] = request[r]
      BY <1>1, <3>1
    <3> QED
      BY <1>1, <3>1, <3>2, <3>3
  <2> QED
    BY <1>1, <2>1, <2>2, <2>3, RequestFrame DEF Approve, Deny
<1>3. ASSUME NEW c \in Calls, Cascade(c), call[c].space = request'[r].space PROVE FALSE
  BY <1>1, <1>3 DEF Cascade, RequestsOf
<1>4. ASSUME NEW t, t = request'[r].space PROVE Exists(t)'
  BY <1>2, <1>3, <1>4, ExistsFrame
<1> QED
  BY <1>2, <1>4 DEF Exists

LEMMA ItemsInSpaces ==
  ASSUME SpacesInv, Step, NEW i \in Items, home'[i] # NULL
  PROVE  Exists(home[i])'
<1>1. home \in [Items -> Spaces \union {NULL}] /\ (home[i] # NULL => Exists(home[i]))
  BY DEF SpacesInv, SpacesTypeOK, SpacesConsistent, NothingOutlivesItsSpace
<1>2. home'[i] \in Spaces
  BY HomeTyped
<1>3. Exists(home'[i])
  <2>1. ASSUME NEW c \in Calls, Cascade(c) PROVE Exists(home'[i])
    BY <1>1, <2>1 DEF Cascade
  <2>2. ASSUME NEW c \in Calls, NEW j \in Items, Insert(c, j) PROVE Exists(home'[i])
    BY <1>1, <2>2 DEF Insert
  <2> QED
    BY <1>1, <2>1, <2>2, HomeFrame DEF CreateTopic, RegisterConsumer, Items
<1>4. ASSUME NEW c \in Calls, Cascade(c), call[c].space = home'[i] PROVE FALSE
  BY <1>1, <1>2, <1>4 DEF Cascade
<1>5. ASSUME NEW t \in Spaces, t = home'[i] PROVE Exists(t)'
  BY <1>3, <1>4, <1>5, ExistsFrame
<1> QED
  BY <1>2, <1>5 DEF Exists

LEMMA TasksInTopics ==
  ASSUME SpacesInv, Step, NEW kt \in Keys \X Topics, tasks'[kt] > 0
  PROVE  home'[kt[2]] # NULL
<1>1. /\ tasks \in [Keys \X Topics -> Nat] /\ home \in [Items -> Spaces \union {NULL}]
      /\ tasks[kt] > 0 => home[kt[2]] # NULL
      /\ kt[2] \in Items
  BY DEF SpacesInv, SpacesTypeOK, SpacesConsistent, NothingOutlivesItsSpace, Items
<1>2. CASE UNCHANGED <<home, tasks>>
  BY <1>1, <1>2
<1>3. ASSUME NEW c \in Calls, Cascade(c) PROVE home'[kt[2]] # NULL
  <2>1. tasks'[kt] = IF home[kt[2]] = call[c].space THEN 0 ELSE tasks[kt]
    BY <1>1, <1>3 DEF Cascade
  <2>2. home'[kt[2]] = IF home[kt[2]] = call[c].space THEN NULL ELSE home[kt[2]]
    BY <1>1, <1>3 DEF Cascade
  <2> QED
    BY <1>1, <2>1, <2>2
<1>4. ASSUME NEW c \in Calls, Publish(c) PROVE home'[kt[2]] # NULL
  <2>1. home' = home
    BY <1>4 DEF Publish
  <2>2. CASE UNCHANGED tasks
    BY <1>1, <2>1, <2>2
  <2>3. CASE tasks' # tasks
    <3>1. home[call[c].topic] # NULL /\ tasks' = [tasks EXCEPT ![<<call[c].key, call[c].topic>>] = @ + 1]
      BY <1>4, <2>3 DEF Publish
    <3>2. kt = <<call[c].key, call[c].topic>> \/ tasks'[kt] = tasks[kt]
      BY <1>1, <3>1
    <3>3. kt = <<call[c].key, call[c].topic>> => kt[2] = call[c].topic
      OBVIOUS
    <3> QED
      BY <1>1, <2>1, <3>1, <3>2, <3>3
  <2> QED
    BY <2>2, <2>3
<1>5. ASSUME NEW c \in Calls, NEW i \in Items, Insert(c, i), call[c].phase = "cleared"
      PROVE  home'[kt[2]] # NULL
  <2>1. tasks' = tasks /\ call[c].space \in Spaces
    BY <1>5 DEF Insert, SpacesInv, CallOK, ValueOK
  <2>2. home' = home \/ home' = [home EXCEPT ![i] = call[c].space]
    BY <1>5 DEF Insert
  <2> QED
    BY <1>1, <2>1, <2>2, SpacesAssumption
<1> QED
  BY <1>2, <1>3, <1>4, <1>5, HomeFrame, TasksFrame
     DEF CreateTopic, RegisterConsumer, Writing, Items

LEMMA ConsistencyStays ==
  ASSUME SpacesInv, Step
  PROVE  SpacesConsistent'
<1>1. NothingOutlivesItsSpace'
  <2>1. \A s \in Spaces : role'[s] # Nobody => Exists(s)'
    BY RolesInSpaces
  <2>2. \A r \in Requests : request'[r] # NoRequest =>
          request'[r].space \in Spaces /\ Exists(request[r].space)'
    BY RequestsInSpaces
  <2>3. \A i \in Items : home'[i] # NULL => Exists(home[i])'
    BY ItemsInSpaces
  <2>4. \A kt \in Keys \X Topics : tasks'[kt] > 0 => home'[kt[2]] # NULL
    BY TasksInTopics
  <2> QED
    BY <2>1, <2>2, <2>3, <2>4 DEF NothingOutlivesItsSpace, Nobody
<1> QED
  BY <1>1, PublicStays, PendingStays, KeysStay, LocksStay DEF SpacesConsistent
-----------------------------------------------------------------------------
(* What calls have checked *)

(* What a waiting call has checked is not undone by the step of another.   *)
LEMMA WaitingOK ==
  ASSUME SpacesInv, Step, NEW c \in Calls, call'[c] = call[c]
  PROVE  CallOK(c)'
<1> DEFINE k == call[c]
<1>1. /\ ValueOK(k) /\ k \in Call
      /\ call \in [Calls -> Call] /\ request \in [Requests -> RequestRow]
      /\ home \in [Items -> Spaces \union {NULL}]
  BY DEF SpacesInv, SpacesTypeOK, CallOK
<1>2. ASSUME k.phase = "deciding"
      PROVE  request'[k.request] = request[k.request]
  <2>1. /\ k.request \in Requests /\ request[k.request].status = "pending"
        /\ request[k.request].space = k.space /\ requestLock[k.request] = c
    BY <1>2, DecisionFacts
  <2>2. ASSUME NEW d \in Calls, Cascade(d) PROVE request'[k.request] = request[k.request]
    BY <1>1, <2>1, <2>2, SpacesAssumption DEF Cascade, RequestsOf
  <2>3. ASSUME NEW d \in Calls, Apply(d) PROVE request'[k.request] = request[k.request]
    BY <1>1, <2>1, <2>3 DEF Apply, NoRequest
  <2>4. ASSUME NEW d \in Calls, NEW e \in {"approved", "denied"}, Decides(d, e)
        PROVE  request'[k.request] = request[k.request]
    <3>1. d # c
      BY <1>1, <1>2, <2>4 DEF Decides, Answered, Becomes, Idle
    <3>2. requestLock[call[d].request] = d
      BY <2>4, DecisionFacts DEF Decides
    <3>3. call[d].request # k.request
      BY <2>1, <3>1, <3>2
    <3> QED
      BY <1>1, <2>1, <2>4, <3>3 DEF Decides
  <2> QED
    BY <2>2, <2>3, <2>4, RequestFrame DEF Approve, Deny
<1>3. ASSUME k.phase = "deleting"
      PROVE  Exists(k.space)'
  <2>1. k.space \in Spaces /\ Exists(k.space) /\ spaceLock[k.space] = c
    BY <1>1, <1>3 DEF ValueOK, SpacesInv, SpacesConsistent, LocksAreHeld
  <2>2. ASSUME NEW d \in Calls, Cascade(d), call[d].space = k.space PROVE FALSE
    <3>1. d # c
      BY <1>1, <1>3, <2>2 DEF Cascade, Answered, Becomes, Idle
    <3>2. spaceLock[call[d].space] = d
      BY <2>2 DEF Cascade, SpacesInv, SpacesConsistent, LocksAreHeld
    <3> QED
      BY <2>1, <2>2, <3>1, <3>2
  <2>3. ASSUME NEW t \in Spaces, t = k.space PROVE Exists(t)'
    BY <2>1, <2>2, <2>3, ExistsFrame
  <2> QED
    BY <2>1, <2>3 DEF Exists
<1>4. ASSUME k.topic \in Topics
      PROVE  home'[k.topic] \in {k.space, NULL}
  <2>1. home[k.topic] \in {k.space, NULL} /\ k.topic \in Items
    BY <1>1, <1>4 DEF ValueOK, Items
  <2>2. ASSUME NEW d \in Calls, Cascade(d) PROVE home'[k.topic] \in {k.space, NULL}
    BY <1>1, <2>1, <2>2 DEF Cascade
  <2>3. ASSUME NEW d \in Calls, NEW i \in Items, Insert(d, i)
        PROVE  home'[k.topic] \in {k.space, NULL}
    BY <1>1, <2>1, <2>3 DEF Insert, NewId
  <2> QED
    BY <2>1, <2>2, <2>3, HomeFrame DEF CreateTopic, RegisterConsumer, Items
<1>5. k' = k
  OBVIOUS
<1> HIDE DEF k
<1>6. ValueOK(k)'
  BY <1>1, <1>2, <1>3, <1>4, <1>5 DEF ValueOK
<1> QED
  BY <1>6 DEF CallOK, k

LEMMA CallsStay ==
  ASSUME SpacesInv, Step, NEW c \in Calls
  PROVE  CallOK(c)'
<1>1. call \in [Calls -> Call]
  BY DEF SpacesInv, SpacesTypeOK
<1>2. CASE call'[c] = call[c]
  BY <1>2, WaitingOK
<1>3. CASE call'[c] # call[c]
  <2>1. PICK d \in Calls : Answered(d) \/ Moves(d)
    BY <1>3, CallFrame
  <2>2. d = c
    BY <1>3, <2>1, OneCall
  <2>3. CASE Answered(c)
    <3>1. call'[c] = Idle
      BY <1>1, <2>3 DEF Answered, Becomes
    <3> QED
      BY <3>1, SpacesAssumption DEF CallOK, ValueOK, Idle
  <2>4. CASE ~Answered(c)
    <3>1. UNCHANGED data /\ \E k \in Call : call' = [call EXCEPT ![c] = k] /\ ValueOK(k)
      BY <2>1, <2>2, <2>4, MovesOK
    <3>2. ValueOK(call'[c]) /\ UNCHANGED <<space, request, home>>
      BY <1>1, <3>1 DEF data
    <3> QED
      BY <3>2 DEF CallOK, ValueOK, Exists
  <2> QED
    BY <2>3, <2>4
<1> QED
  BY <1>2, <1>3
-----------------------------------------------------------------------------
(* The inductive invariant *)

LEMMA InitInv == Init => SpacesInv
<1> SUFFICES ASSUME Init PROVE SpacesInv
  OBVIOUS
<1> USE DEF Init
<1>1. PICK b \in Beginnings : account = b.account /\ space = b.space /\ role = b.role
  OBVIOUS
<1>2. /\ account \subseteq Users
      /\ space \in [Spaces -> [visibility : Visibilities \union {"unborn"}, owner : Users \union {NULL}]]
      /\ role \in [Spaces -> [Users -> Roles \union {NULL}]]
      /\ \A s1, s2 \in Spaces :
           space[s1].visibility = "public" /\ space[s2].visibility = "public" => s1 = s2
      /\ \A s \in Spaces : space[s].visibility = "unborn" => role[s] = [u \in Users |-> NULL]
  BY <1>1, SpacesAssumption
<1>3. space \in [Spaces -> SpaceRow]
  BY <1>2 DEF SpaceRow
<1>4. NoRequest \in RequestRow
  BY DEF NoRequest, RequestRow
<1>5. SpacesTypeOK
  BY <1>2, <1>3, <1>4, IdleCall DEF SpacesTypeOK
<1>6. OnePublicSpace
  BY <1>2 DEF OnePublicSpace, Public
<1>7. OnePendingRequest /\ OneTaskPerKey
  BY DEF OnePendingRequest, OneTaskPerKey, NoRequest
<1>8. LocksAreHeld
  BY DEF LocksAreHeld, Idle
<1>9. NothingOutlivesItsSpace
  <2>1. \A s \in Spaces : role[s] # Nobody => Exists(s)
    BY <1>2, <1>3 DEF Nobody, Exists, SpaceRow
  <2> QED
    BY <2>1 DEF NothingOutlivesItsSpace
<1>10. \A r \in Requests : RequestOK(r)
  BY DEF RequestOK
<1>11. \A c \in Calls : CallOK(c)
  BY SpacesAssumption DEF CallOK, ValueOK, Idle
<1> QED
  BY <1>5, <1>6, <1>7, <1>8, <1>9, <1>10, <1>11 DEF SpacesInv, SpacesConsistent

LEMMA AccountTyped ==
  ASSUME SpacesInv, Step
  PROVE  account' \subseteq Users /\ session' \subseteq account' /\ arrivals' \in Nat /\ failures' \in Nat
<1>1. account \subseteq Users /\ session \subseteq account /\ arrivals \in Nat /\ failures \in Nat
  BY DEF SpacesInv, SpacesTypeOK
<1>2. CASE AccountStep
  <2>1. ASSUME NEW u \in Users, NEW s \in Spaces,
               Login(u) \/ Logout(u) \/ Register(u, s) \/ CreateSpace(u, s)
        PROVE  /\ account' \in {account, account \union {u}}
               /\ session' \subseteq session \union (account \intersect {u})
               /\ arrivals' = arrivals + 1 /\ failures' = failures
    BY <2>1 DEF Login, Logout, Register, CreateSpace, Comes
  <2>2. ASSUME NEW u \in Users, Login(u) \/ Logout(u)
        PROVE  /\ account' = account
               /\ session' \subseteq session \union (account \intersect {u})
               /\ arrivals' = arrivals + 1 /\ failures' = failures
    BY <2>2 DEF Login, Logout, Comes
  <2> QED
    BY <1>1, <1>2, <2>1, <2>2 DEF AccountStep
<1>3. CASE ArrivalStep
  <2>1. UNCHANGED <<account, session, failures>> /\ arrivals' = arrivals + 1
    BY <1>3 DEF ArrivalStep, Boot, Arrive, Comes
  <2> QED
    BY <1>1, <2>1
<1>4. ASSUME NEW c \in Calls, Fail(c)
      PROVE  UNCHANGED <<account, session, arrivals>> /\ failures' = failures + 1
  BY <1>4 DEF Fail, Abort
<1>5. ASSUME NEW c \in Calls, ServeStep(c)
      PROVE  UNCHANGED <<account, session, arrivals, failures>>
  BY <1>5 DEF ServeStep, Authorise, Patch, AddMember, ChangeMember, RemoveMember, Delete, Cascade,
              CreateTopic, RegisterConsumer, Insert, Apply, Approve, Deny, Decides, DecideLock,
              Lookup, Publish, AnswerConflict, BootRecheck, BootInsert, Throw, Victim, NoIdLeft, Abort
<1> QED
  BY <1>1, <1>2, <1>3, <1>4, <1>5 DEF Step

LEMMA StepInv == SpacesInv /\ [Next]_vars => SpacesInv'
<1> SUFFICES ASSUME SpacesInv, [Next]_vars PROVE SpacesInv'
  OBVIOUS
<1>1. CASE Next
  <2>1. Step /\ could' \in [Calls -> BOOLEAN]
    <3>1. Step /\ Remember /\ could \in [Calls -> BOOLEAN]
      BY <1>1 DEF Next, SpacesInv, SpacesTypeOK
    <3>2. \A c \in Calls : (EntitledNow(c)' \/ (could[c] /\ call'[c].phase # "idle")) \in BOOLEAN
      BY <3>1
    <3> QED
      BY <3>1, <3>2 DEF Remember
  <2>2. SpacesTypeOK'
    BY <2>1, AccountTyped, CallTyped, SpaceTyped, RoleTyped, RequestTyped, HomeTyped, TasksTyped,
       LocksTyped DEF SpacesTypeOK
  <2> QED
    BY <2>1, <2>2, ConsistencyStays, RequestTyped, CallsStay DEF SpacesInv
<1>2. CASE UNCHANGED vars
  <2>1. UNCHANGED <<account, session, space, role, request, home, tasks, call, spaceLock,
                    requestLock, could, arrivals, failures>>
    BY <1>2 DEF vars, data, locks
  <2>2. SpacesTypeOK'
    BY <2>1 DEF SpacesInv, SpacesTypeOK
  <2>3. SpacesConsistent'
    BY <2>1 DEF SpacesInv, SpacesConsistent, OnePublicSpace, OnePendingRequest, OneTaskPerKey,
                NothingOutlivesItsSpace, LocksAreHeld, Public, Exists
  <2>4. (\A r \in Requests : RequestOK(r)') /\ \A c \in Calls : CallOK(c)'
    BY <2>1 DEF SpacesInv, RequestOK, CallOK, ValueOK, Exists
  <2> QED
    BY <2>2, <2>3, <2>4 DEF SpacesInv
<1> QED
  BY <1>1, <1>2

LEMMA InvAlways == Spec => []SpacesInv
BY InitInv, StepInv, PTL DEF Spec

(* Every table keeps its type: sessions are of registered users and roles   *)
(* are those the schema allows.                                             *)
THEOREM SpacesTypeCorrect == Spec => []SpacesTypeOK
<1>1. SpacesInv => SpacesTypeOK
  BY DEF SpacesInv
<1> QED
  BY <1>1, InvAlways, PTL

(* However requests, boots and deletions interleave, there is one public    *)
(* space at most, one pending request of a user to a space and one task of  *)
(* a dedup_key, nothing is left of a space that is gone, and whoever        *)
(* decides a request or deletes a space holds its row.                      *)
THEOREM SpacesAreConsistent == Spec => []SpacesConsistent
<1>1. SpacesInv => SpacesConsistent
  BY DEF SpacesInv
<1> QED
  BY <1>1, InvAlways, PTL

(* A join request is decided once, and an approval makes the applicant a    *)
(* member in the same step.                                                 *)
THEOREM DecisionsAreFinal == Spec => DecidedOnce
<1> DEFINE A == \A r \in Requests :
       /\ request[r].status \in {"approved", "denied"} => request'[r] \in {request[r], NoRequest}
       /\ request[r].status # "approved" /\ request'[r].status = "approved" =>
            /\ request[r].status = "pending"
            /\ role'[request[r].space][request[r].user] # NULL
<1>1. ASSUME SpacesInv, Step, NEW r \in Requests
      PROVE  /\ request[r].status \in {"approved", "denied"} => request'[r] \in {request[r], NoRequest}
             /\ request[r].status # "approved" /\ request'[r].status = "approved" =>
                  /\ request[r].status = "pending"
                  /\ role'[request[r].space][request[r].user] # NULL
  <2>1. request \in [Requests -> RequestRow] /\ role \in [Spaces -> [Users -> Roles \union {NULL}]]
    BY <1>1 DEF SpacesInv, SpacesTypeOK
  <2>2. CASE request'[r] = request[r]
    BY <2>2
  <2>3. ASSUME NEW c \in Calls, Cascade(c), request'[r] # request[r]
        PROVE  request'[r] = NoRequest
    BY <2>1, <2>3 DEF Cascade
  <2>4. ASSUME NEW c \in Calls, Apply(c), request'[r] # request[r]
        PROVE  request[r].status = "none" /\ request'[r].status = "pending"
    BY <2>1, <2>4 DEF Apply, NoRequest
  <2>5. ASSUME NEW c \in Calls, NEW d \in {"approved", "denied"}, Decides(c, d),
               request'[r] # request[r]
        PROVE  r = call[c].request /\ request[r].status = "pending" /\ request'[r].status = d
               /\ request[r].space \in Spaces /\ request[r].user \in Users
    <3>1. r = call[c].request
      BY <2>1, <2>5 DEF Decides
    <3>2. request'[r].status = d
      BY <2>1, <2>5, <3>1 DEF Decides, RequestRow
    <3> QED
      BY <1>1, <2>5, <3>1, <3>2, DecisionFacts DEF Decides
  <2>6. ASSUME NEW c \in Calls, Approve(c), r = call[c].request,
               request[r].space \in Spaces, request[r].user \in Users
        PROVE  role'[request[r].space][request[r].user] # NULL
    <3>1. PICK p \in Roles : role' = [role EXCEPT ![request[r].space][request[r].user] = p]
      BY <2>6 DEF Approve
    <3>2. role'[request[r].space][request[r].user] = p
      BY <2>1, <2>6, <3>1
    <3> QED
      BY <3>2, SpacesAssumption
  <2>7. ASSUME NEW c \in Calls, Approve(c), request'[r] # request[r]
        PROVE  request[r].status = "pending" /\ role'[request[r].space][request[r].user] # NULL
    BY <2>5, <2>6, <2>7 DEF Approve
  <2>8. ASSUME NEW c \in Calls, Deny(c), request'[r] # request[r]
        PROVE  request[r].status = "pending" /\ request'[r].status = "denied"
    BY <2>5, <2>8 DEF Deny
  <2>9. NoRequest.status = "none"
    BY DEF NoRequest
  <2> QED
    BY <1>1, <2>2, <2>3, <2>4, <2>7, <2>8, <2>9, RequestFrame
<1>2. ASSUME SpacesInv, UNCHANGED vars PROVE A
  BY <1>2 DEF vars, data
<1>3. SpacesInv /\ [Next]_vars => [A]_vars
  BY <1>1, <1>2 DEF Next
<1> QED
  BY <1>3, InvAlways, PTL DEF Spec, DecidedOnce
-----------------------------------------------------------------------------
(* Authority *)

(* Somebody with a role that entitles to an operation belongs to a space   *)
(* that exists.                                                            *)
LEMMA RolesExist ==
  ASSUME SpacesInv, NEW s \in Spaces, NEW by \in Users \union {Admin},
         RoleOf(s, by) \in {"admin", "member"}
  PROVE  Exists(s)
<1>1. \A u \in Users : Nobody[u] = NULL
  BY DEF Nobody
<1>2. by \in Users
  BY SpacesAssumption DEF RoleOf
<1>3. role[s][by] # NULL
  BY <1>2, SpacesAssumption DEF RoleOf
<1> QED
  BY <1>1, <1>2, <1>3 DEF SpacesInv, SpacesConsistent, NothingOutlivesItsSpace

LEMMA OpsApart == Authorised \intersect {"apply", "boot"} = {} /\ Authorised \subseteq Operations
BY DEF Authorised, Managing, Producing, Operations

(* A call that passes was entitled when it arrived, or is now. *)
LEMMA AuthoriseOK ==
  ASSUME SpacesInv, NEW c \in Calls, AuthOK(c), Authorise(c), ~Answered(c), Remember,
         call[c].op \in Authorised
  PROVE  could'[c]
<1> DEFINE k == call[c]
<1>1. /\ k \in Call /\ call \in [Calls -> Call] /\ k.phase = "authorising"
      /\ k.by \in Users \union {Admin} /\ k.space \in Spaces
      /\ call' = [call EXCEPT ![c] = [k EXCEPT !.phase = "cleared", !.seen = NULL]]
      /\ UNCHANGED <<space, role>> /\ Entitled(k, RoleOf(k.space, k.by))
  BY DEF Authorise, Proceeds, Becomes, SpacesInv, SpacesTypeOK, CallOK, ValueOK, data
<1>2. /\ call'[c].phase = "cleared" /\ call'[c].op = k.op /\ call'[c].by = k.by
      /\ call'[c].space = k.space
  BY <1>1 DEF Call
<1>3. could'[c] = (EntitledNow(c)' \/ (could[c] /\ call'[c].phase # "idle"))
  BY DEF Remember
<1>4. CASE k.by = Admin \/ k.by = k.seen.owner
  BY <1>1, <1>2, <1>3, <1>4 DEF AuthOK
<1>5. CASE ~(k.by = Admin \/ k.by = k.seen.owner)
  <2> DEFINE r == RoleOf(k.space, k.by)
  <2>1. k.op # "delete"
    BY <1>1, <1>5 DEF Entitled, Managing, Producing
  <2>2. CASE k.op \in Managing
    <3>1. r = "admin"
      BY <1>1, <1>5, <2>2 DEF Entitled, Manages, Managing, Producing
    <3>2. Exists(k.space)
      BY <1>1, <3>1, RolesExist
    <3>3. RoleOf(k.space, k.by)' = r /\ Exists(k.space)'
      BY <1>1, <3>2 DEF RoleOf, Exists
    <3>4. EntitledNow(c)'
      BY <1>2, <2>2, <3>1, <3>3 DEF EntitledNow, Manages, Managing, RoleOf, Exists
    <3> QED
      BY <1>3, <3>4
  <2>3. CASE k.op \in Producing
    <3>1. r \in {"admin", "member"}
      BY <1>1, <1>5, <2>3 DEF Entitled, Produces, Producing, Managing
    <3>2. Exists(k.space)
      BY <1>1, <3>1, RolesExist
    <3>3. RoleOf(k.space, k.by)' = r /\ Exists(k.space)'
      BY <1>1, <3>2 DEF RoleOf, Exists
    <3>4. EntitledNow(c)'
      BY <1>2, <2>3, <3>1, <3>3 DEF EntitledNow, Produces, Producing, RoleOf, Exists
    <3> QED
      BY <1>3, <3>4
  <2> QED
    BY <2>1, <2>2, <2>3 DEF Authorised
<1> QED
  BY <1>4, <1>5

LEMMA ArriveOK ==
  ASSUME SpacesInv, NEW c \in Calls, NEW by \in Users \union {Admin},
         NEW op \in Operations \ {"boot"}, NEW s \in Spaces, NEW t \in Topics \union {NULL},
         Arrive(c, by, op, s, t), Remember
  PROVE  AuthOK(c)'
<1>1. call \in [Calls -> Call] /\ Exists(s) /\ UNCHANGED <<space, role>>
  BY DEF SpacesInv, SpacesTypeOK, Arrive, data
<1>2. /\ call'[c].phase = "authorising" /\ call'[c].op = op /\ call'[c].by = by
      /\ call'[c].space = s /\ call'[c].seen = space[s]
  BY <1>1 DEF Arrive, Becomes, Idle
<1>3. SUFFICES ASSUME op \in Authorised, by = Admin \/ by = space[s].owner
               PROVE  could'[c]
  BY <1>2 DEF AuthOK
<1>4. EntitledNow(c)'
  BY <1>1, <1>2, <1>3, OpsApart
     DEF EntitledNow, Authorised, Managing, Producing, Manages, Produces, RoleOf, Exists
<1> QED
  BY <1>4 DEF Remember

LEMMA AuthStays ==
  ASSUME SpacesInv, Step, Remember, NEW c \in Calls, AuthOK(c)
  PROVE  AuthOK(c)'
<1>1. call \in [Calls -> Call]
  BY DEF SpacesInv, SpacesTypeOK
<1>2. could'[c] = (EntitledNow(c)' \/ (could[c] /\ call'[c].phase # "idle"))
  BY DEF Remember
<1>3. CASE call'[c] = call[c]
  BY <1>2, <1>3 DEF AuthOK
<1>4. CASE call'[c] # call[c]
  <2>1. PICK d \in Calls : Answered(d) \/ Moves(d)
    BY <1>4, CallFrame
  <2>2. d = c
    BY <1>4, <2>1, OneCall
  <2>3. CASE Answered(c)
    BY <1>1, <2>3 DEF Answered, Becomes, Idle, AuthOK
  <2>4. CASE ~Answered(c)
    <3>1. CASE Boot(c)
      BY <1>1, <3>1, OpsApart DEF Boot, Becomes, Idle, AuthOK
    <3>2. CASE Authorise(c)
      <4>1. call'[c].op = call[c].op /\ call[c].phase = "authorising"
        BY <1>1, <2>4, <3>2 DEF Authorise, Proceeds, Becomes, Call
      <4> QED
        BY <2>4, <3>2, <4>1, AuthoriseOK DEF AuthOK
    <3>3. CASE \E s \in Spaces : BootInsert(c, s)
      <4>1. call'[c].op = call[c].op /\ call[c].phase = "inserting"
        BY <1>1, <2>4, <3>3 DEF BootInsert, Proceeds, Becomes, Call
      <4>2. call[c].op = "boot"
        BY <4>1 DEF SpacesInv, CallOK, ValueOK
      <4> QED
        BY <4>1, <4>2, OpsApart DEF AuthOK
    <3>4. CASE \/ Delete(c) \/ Publish(c) \/ \E r \in Requests : DecideLock(c, r)
               \/ \E key \in Keys : Lookup(c, key)
      <4>1. CASE Delete(c)
        BY <1>1, <1>2, <2>4, <4>1 DEF Delete, Proceeds, Becomes, Writing, Call, AuthOK
      <4>2. CASE Publish(c)
        BY <1>1, <1>2, <2>4, <4>2 DEF Publish, Proceeds, Becomes, Call, AuthOK
      <4>3. ASSUME NEW r \in Requests, DecideLock(c, r) PROVE AuthOK(c)'
        <5>1. call' = [call EXCEPT ![c] = [call[c] EXCEPT !.phase = "deciding", !.request = r]]
              /\ call[c].phase = "cleared"
          BY <2>4, <4>3 DEF DecideLock, Becomes, Writing
        <5>2. call'[c].phase = "deciding" /\ call'[c].op = call[c].op
          BY <1>1, <5>1 DEF Call
        <5> QED
          BY <1>2, <5>1, <5>2 DEF AuthOK
      <4>4. ASSUME NEW key \in Keys, Lookup(c, key) PROVE AuthOK(c)'
        BY <1>1, <1>2, <2>4, <4>4 DEF Lookup, Becomes, Writing, Call, AuthOK
      <4> QED
        BY <3>4, <4>1, <4>2, <4>3, <4>4
    <3> QED
      BY <2>1, <2>2, <2>4, <3>1, <3>2, <3>3, <3>4, ArriveOK DEF Moves
  <2> QED
    BY <2>3, <2>4
<1> QED
  BY <1>3, <1>4

LEMMA AuthAlways == Spec => [](SpacesInv /\ \A c \in Calls : AuthOK(c))
<1> DEFINE AllAuth == \A c \in Calls : AuthOK(c)
<1>1. Init => AllAuth
  BY DEF Init, AuthOK, Idle
<1>2. SpacesInv /\ AllAuth /\ [Next]_vars => AllAuth'
  <2>1. ASSUME SpacesInv, AllAuth, Next PROVE AllAuth'
    BY <2>1, AuthStays DEF Next
  <2>2. ASSUME AllAuth, UNCHANGED vars PROVE AllAuth'
    BY <2>2 DEF vars, AuthOK
  <2> QED
    BY <2>1, <2>2
<1> QED
  BY <1>1, <1>2, InvAlways, PTL DEF Spec

(* Each change in a space is made by a call to it whose user was entitled.  *)
LEMMA ChangesAreAuthorised ==
  ASSUME SpacesInv, \A c \in Calls : AuthOK(c), Step,
         NEW s \in Spaces, Exists(s), ChangedWithin(s)
  PROVE  \E c \in Calls : call[c].space = s /\ call'[c] # call[c] /\ could[c]
<1> DEFINE Authentic(c) == call[c].space = s /\ call'[c] # call[c] /\ could[c]
<1>1. /\ call \in [Calls -> Call] /\ space \in [Spaces -> SpaceRow]
      /\ role \in [Spaces -> [Users -> Roles \union {NULL}]] /\ request \in [Requests -> RequestRow]
      /\ home \in [Items -> Spaces \union {NULL}] /\ tasks \in [Keys \X Topics -> Nat]
  BY DEF SpacesInv, SpacesTypeOK
<1>2. ASSUME NEW c \in Calls, Answered(c), call[c].phase \in {"cleared", "missed", "deciding", "deleting"},
             call[c].op \in Authorised
      PROVE  call'[c] # call[c] /\ could[c]
  <2>1. call'[c].phase = "idle"
    BY <1>1, <1>2 DEF Answered, Becomes, Idle
  <2> QED
    BY <1>2, <2>1 DEF AuthOK
<1>3. ASSUME NEW c \in Calls, Writing(c, "patch") \/ Writing(c, "add") \/ Writing(c, "change")
               \/ Writing(c, "remove") \/ Writing(c, "topic") \/ Writing(c, "consumer"),
             Answered(c)
      PROVE  call'[c] # call[c] /\ could[c]
  BY <1>2, <1>3 DEF Writing, Authorised, Managing, Producing
<1>4. ASSUME NEW c \in Calls, Cascade(c) PROVE Authentic(c)
  <2>1. call[c].phase = "deleting" /\ call[c].op = "delete"
    BY <1>4 DEF Cascade, SpacesInv, CallOK, ValueOK
  <2>2. call'[c] # call[c] /\ could[c]
    BY <1>2, <1>4, <2>1 DEF Cascade, Authorised
  <2>3. ASSUME call[c].space # s PROVE ~ChangedWithin(s)
    <3>1. space'[s] = space[s] /\ role'[s] = role[s]
      BY <1>1, <1>4, <2>3 DEF Cascade
    <3>2. \A r \in Requests : request[r].space = s => request'[r] = request[r]
      BY <1>1, <1>4, <2>3 DEF Cascade, RequestsOf
    <3>3. \A i \in Items : s \in {home[i], home'[i]} => home'[i] = home[i]
      BY <1>1, <1>4, <2>3, SpacesAssumption DEF Cascade
    <3>4. \A kt \in Keys \X Topics : home[kt[2]] = s => tasks'[kt] = tasks[kt]
      BY <1>1, <1>4, <2>3 DEF Cascade
    <3> QED
      BY <3>1, <3>2, <3>3, <3>4 DEF ChangedWithin
  <2> QED
    BY <2>2, <2>3
<1>5. ASSUME space'[s] # space[s] PROVE \E c \in Calls : Authentic(c)
  <2>1. ASSUME NEW u \in Users, NEW t \in Spaces, NEW v \in {"private", "team"}, Founds(t, v, u)
        PROVE  FALSE
    BY <1>1, <1>5, <2>1, SpacesAssumption DEF Founds, Exists
  <2>2. ASSUME NEW c \in Calls, NEW t \in Spaces, BootInsert(c, t) PROVE FALSE
    BY <1>1, <1>5, <2>2, SpacesAssumption DEF BootInsert, Exists
  <2>3. ASSUME NEW c \in Calls, Patch(c) PROVE Authentic(c)
    <3>1. call[c].space = s
      BY <1>1, <1>5, <2>3 DEF Patch
    <3> QED
      BY <1>3, <2>3, <3>1 DEF Patch
  <2> QED
    BY <1>4, <1>5, <2>1, <2>2, <2>3, SpaceFrame
<1>6. ASSUME role'[s] # role[s] PROVE \E c \in Calls : Authentic(c)
  <2>1. ASSUME NEW u \in Users, NEW t \in Spaces, NEW v \in {"private", "team"}, Founds(t, v, u)
        PROVE  FALSE
    BY <1>1, <1>6, <2>1, SpacesAssumption DEF Founds, Exists
  <2>2. ASSUME NEW t, NEW u, NEW r, SetRole(t, u, r) PROVE t = s
    BY <1>1, <1>6, <2>2 DEF SetRole
  <2>3. ASSUME NEW c \in Calls, AddMember(c) \/ ChangeMember(c) \/ RemoveMember(c)
        PROVE  Authentic(c)
    <3>1. call[c].space = s
      BY <1>6, <2>2, <2>3 DEF AddMember, ChangeMember, RemoveMember
    <3> QED
      BY <1>3, <2>3, <3>1 DEF AddMember, ChangeMember, RemoveMember
  <2>4. ASSUME NEW c \in Calls, Approve(c) PROVE Authentic(c)
    <3> DEFINE q == request[call[c].request]
    <3>1. PICK r \in Roles : role' = [role EXCEPT ![q.space][q.user] = r]
      BY <2>4 DEF Approve
    <3>2. q.space = call[c].space /\ call[c].op = "decide" /\ call[c].phase = "deciding" /\ Answered(c)
      BY <2>4, DecisionFacts DEF Approve, Decides
    <3>3. call[c].space = s
      BY <1>1, <1>6, <3>1, <3>2
    <3> QED
      BY <1>2, <3>2, <3>3 DEF Authorised, Managing
  <2> QED
    BY <1>4, <1>6, <2>1, <2>3, <2>4, RoleFrame
<1>7. ASSUME NEW r \in Requests, request[r].space = s, request'[r] # request[r]
      PROVE  \E c \in Calls : Authentic(c)
  <2>1. ASSUME NEW c \in Calls, Apply(c) PROVE FALSE
    BY <1>1, <1>7, <2>1, SpacesAssumption DEF Apply, NoRequest
  <2>2. ASSUME NEW c \in Calls, NEW d \in {"approved", "denied"}, Decides(c, d) PROVE Authentic(c)
    <3>1. r = call[c].request
      BY <1>1, <1>7, <2>2 DEF Decides
    <3>2. request[r].space = call[c].space /\ call[c].op = "decide" /\ call[c].phase = "deciding" /\ Answered(c)
      BY <2>2, <3>1, DecisionFacts DEF Decides
    <3> QED
      BY <1>2, <1>7, <3>2 DEF Authorised, Managing
  <2> QED
    BY <1>4, <1>7, <2>1, <2>2, RequestFrame DEF Approve, Deny
<1>8. ASSUME NEW i \in Items, s \in {home[i], home'[i]}, home'[i] # home[i]
      PROVE  \E c \in Calls : Authentic(c)
  <2>1. ASSUME NEW c \in Calls, NEW j \in Items, Insert(c, j),
               Writing(c, "topic") \/ Writing(c, "consumer")
        PROVE  Authentic(c)
    <3>1. i = j /\ home[j] = NULL /\ home'[i] = call[c].space
      BY <1>1, <1>8, <2>1 DEF Insert, NewId
    <3>2. call[c].space = s
      BY <1>8, <3>1, SpacesAssumption
    <3> QED
      BY <1>3, <2>1, <3>2 DEF Insert
  <2> QED
    BY <1>4, <1>8, <2>1, HomeFrame DEF CreateTopic, RegisterConsumer, Items
<1>9. ASSUME NEW kt \in Keys \X Topics, home[kt[2]] = s, tasks'[kt] # tasks[kt]
      PROVE  \E c \in Calls : Authentic(c)
  <2>1. ASSUME NEW c \in Calls, Publish(c) PROVE Authentic(c)
    <3>1. /\ call[c].phase = "missed" /\ Answered(c)
          /\ tasks' = [tasks EXCEPT ![<<call[c].key, call[c].topic>>] = @ + 1]
      BY <1>9, <2>1 DEF Publish
    <3>2. kt = <<call[c].key, call[c].topic>>
      BY <1>1, <1>9, <3>1
    <3>3. kt[2] = call[c].topic
      BY <3>2
    <3>4. call[c].op = "publish" /\ call[c].topic \in Topics /\ home[call[c].topic] \in {call[c].space, NULL}
      BY <3>1 DEF SpacesInv, CallOK, ValueOK
    <3>5. call[c].space = s
      BY <1>9, <3>3, <3>4, SpacesAssumption
    <3> QED
      BY <1>2, <3>1, <3>4, <3>5 DEF Authorised, Producing
  <2> QED
    BY <1>4, <1>9, <2>1, TasksFrame
<1> QED
  BY <1>5, <1>6, <1>7, <1>8, <1>9 DEF ChangedWithin

(* What is in a space changes only by a request to this space, of a user    *)
(* who was entitled to that request at some moment since it arrived.        *)
THEOREM AuthorityIsReal == Spec => ActsWithAuthority
<1> DEFINE A == \A s \in Spaces : Exists(s) /\ ChangedWithin(s) =>
                  \E c \in Calls : call[c].space = s /\ call'[c] # call[c] /\ could[c]
           AllAuth == \A c \in Calls : AuthOK(c)
<1>1. ASSUME SpacesInv, AllAuth, [Next]_vars PROVE [A]_vars
  BY <1>1, ChangesAreAuthorised DEF Next
<1>2. SpacesInv /\ AllAuth /\ [Next]_vars => [A]_vars
  BY <1>1
<1> QED
  BY <1>2, AuthAlways, PTL DEF Spec, ActsWithAuthority
=============================================================================
