-------------------------------- MODULE Spaces --------------------------------
(***************************************************************************)
(* Spaces, their members and join requests, and what is created inside     *)
(* them (server/src/spaces.ts and the routes auth, spaces, joinRequests,   *)
(* projects, agents and tasks).                                            *)
(*                                                                         *)
(* A request is a call in progress: it reads the space, then the caller's  *)
(* role, each with a query of its own, and then writes with a third.  Any  *)
(* other call may run in between.  What a call was asked to write is       *)
(* chosen where the code first uses it.  A new row has an id that no row    *)
(* and no call refers to.                                                  *)
(***************************************************************************)
EXTENDS Integers

CONSTANTS
  Users, Spaces, Requests, Topics, Consumers, Keys,
  Calls,          \* bound: requests in progress at one time
  Admin,          \* the ADMIN_TOKEN bearer, whose id is no user's
  Beginnings,     \* registered users, spaces and members that the model begins with
  Visibilities, Roles,
  MaxArrivals,    \* bound: requests that ever arrive
  MaxFailures,    \* bound: statements the database fails
  NULL

ASSUME SpacesAssumption ==
  /\ Visibilities = {"private", "team", "public"}
  /\ "admin" \in Roles /\ Roles \subseteq {"admin", "member", "viewer"}
  /\ NULL \notin {"admin", "member", "viewer"}
  /\ MaxArrivals \in Nat /\ MaxFailures \in Nat
  /\ Topics \intersect Consumers = {}
  /\ Admin \notin Users /\ NULL \notin Users \union {Admin}
  /\ NULL \notin Spaces \union Requests \union Topics \union Consumers
  /\ NULL \notin Keys \union Calls \union Roles \union Visibilities
  /\ \A b \in Beginnings :
       /\ b.account \subseteq Users
       /\ b.space \in [Spaces -> [visibility : Visibilities \union {"unborn"},
                                owner : Users \union {NULL}]]
       /\ b.role \in [Spaces -> [Users -> Roles \union {NULL}]]
       /\ \A s1, s2 \in Spaces :
            b.space[s1].visibility = "public" /\ b.space[s2].visibility = "public" => s1 = s2
       /\ \A s \in Spaces : b.space[s].visibility = "unborn" =>
            b.role[s] = [u \in Users |-> NULL]

VARIABLES
  account,      \* users that have registered
  session,      \* users with a live session
  space,        \* the table spaces
  role,         \* the table space_members: role[s][u], or NULL
  request,      \* the table space_join_requests
  home,         \* per topic and consumer: its space, or NULL when there is no row
  tasks,        \* tasks with a dedup_key: how many per key and topic
  call,         \* the requests in progress
  spaceLock, requestLock,   \* the call that holds the row, or NULL
  could,        \* history: the call's user has been entitled to it since it arrived
  arrivals, failures

data == <<space, role, request, home, tasks>>
locks == <<spaceLock, requestLock>>
vars == <<account, session, data, call, locks, could, arrivals, failures>>

Items == Topics \union Consumers
Managing == {"patch", "add", "change", "remove", "decide"}
Producing == {"topic", "consumer", "publish"}
Operations == Managing \union Producing \union {"delete", "apply", "boot"}

SpaceRow == [visibility : Visibilities \union {"unborn", "deleted"}, owner : Users \union {NULL}]
RequestRow == [space : Spaces \union {NULL}, user : Users \union {NULL},
               status : {"none", "pending", "approved", "denied"}]
NoRequest == [space |-> NULL, user |-> NULL, status |-> "none"]

Call == [op : Operations \union {NULL}, by : Users \union {Admin, NULL},
         phase : {"idle", "authorising", "cleared", "missed", "conflict",
                  "deciding", "deleting", "inserting", "rechecking"},
         space : Spaces \union {NULL},
         seen : SpaceRow \union {NULL},
         topic : Topics \union {NULL},
         key : Keys \union {NULL},
         request : Requests \union {NULL}]
Idle == [op |-> NULL, by |-> NULL, phase |-> "idle", space |-> NULL, seen |-> NULL,
         topic |-> NULL, key |-> NULL, request |-> NULL]

Exists(s) == space[s].visibility \in Visibilities
Nobody == [u \in Users |-> NULL]
Public == {s \in Spaces : space[s].visibility = "public"}
Unlocked(s) == spaceLock[s] = NULL

(* canManage and canProduce, of a space row and the caller's member role.  *)
Manages(owner, r, u) == u = Admin \/ owner = u \/ r = "admin"
Produces(owner, r, u) == u = Admin \/ owner = u \/ r \in {"admin", "member"}
RoleOf(s, u) == IF u \in Users THEN role[s][u] ELSE NULL

Init ==
  /\ \E b \in Beginnings : account = b.account /\ space = b.space /\ role = b.role
  /\ session = account
  /\ request = [r \in Requests |-> NoRequest]
  /\ home = [i \in Items |-> NULL]
  /\ tasks = [kt \in Keys \X Topics |-> 0]
  /\ call = [c \in Calls |-> Idle]
  /\ spaceLock = [s \in Spaces |-> NULL] /\ requestLock = [r \in Requests |-> NULL]
  /\ could = [c \in Calls |-> FALSE]
  /\ arrivals = 0 /\ failures = 0
-----------------------------------------------------------------------------
(* Accounts and sessions; a new space is its creator's, who is an admin.   *)

Comes == arrivals < MaxArrivals /\ arrivals' = arrivals + 1

Founds(s, visibility, u) ==
  /\ space[s].visibility = "unborn"
  /\ space' = [space EXCEPT ![s] = [visibility |-> visibility, owner |-> u]]
  /\ role' = [role EXCEPT ![s] = [Nobody EXCEPT ![u] = "admin"]]

Register(u, s) ==
  /\ Comes
  /\ u \notin account
  /\ account' = account \union {u}
  /\ Founds(s, "private", u)
  /\ UNCHANGED <<session, request, home, tasks, call, locks, failures>>

(* Mutant: the user is not looked up. *)
LoginUnknown(u) ==
  /\ Comes
  /\ u \notin session
  /\ session' = session \union {u}
  /\ UNCHANGED <<account, data, call, locks, failures>>

(* createSession, of a login or at the end of a registration.              *)
Login(u) ==
  /\ Comes
  /\ u \in account \ session
  /\ session' = session \union {u}
  /\ UNCHANGED <<account, data, call, locks, failures>>

(* A logout, or the row is past expires_at.                                *)
Logout(u) ==
  /\ Comes
  /\ u \in session
  /\ session' = session \ {u}
  /\ UNCHANGED <<account, data, call, locks, failures>>

(* POST /api/spaces creates team spaces, for users and not for the bearer. *)
CreateSpace(u, s) ==
  /\ Comes
  /\ u \in session
  /\ Founds(s, "team", u)
  /\ UNCHANGED <<account, session, request, home, tasks, call, locks, failures>>
-----------------------------------------------------------------------------
(* Every other request: arrive, authorise, write *)

Becomes(c, k) == call' = [call EXCEPT ![c] = k]
Proceeds(c, phase) == Becomes(c, [call[c] EXCEPT !.phase = phase, !.seen = NULL])
Answered(c) == Becomes(c, Idle)

(* getUser and fetchSpace; a publish finds the space by its topic.         *)
Arrive(c, by, op, s, t) ==
  /\ call[c].phase = "idle" /\ Comes
  /\ by \in session \union {Admin}
  /\ Exists(s)
  /\ IF op = "publish" THEN t \in Topics /\ home[t] = s ELSE t = NULL
  /\ Becomes(c, [Idle EXCEPT !.op = op, !.by = by, !.phase = "authorising",
                            !.space = s, !.seen = space[s], !.topic = t])
  /\ UNCHANGED <<account, session, data, locks, failures>>

(* fetchMemberRole has to be asked, except for the bearer and the owner.   *)
Entitled(k, r) ==
  CASE k.op \in Managing -> Manages(k.seen.owner, r, k.by)
    [] k.op \in Producing -> Produces(k.seen.owner, r, k.by)
    [] k.op = "delete" -> k.by = Admin \/ k.by = k.seen.owner
    [] k.op = "apply" -> k.by # Admin /\ k.seen.visibility = "public"
                         /\ k.seen.owner # k.by /\ r = NULL
    [] OTHER -> FALSE

Authorise(c) ==
  LET k == call[c]
  IN  /\ k.phase = "authorising"
      /\ IF Entitled(k, RoleOf(k.space, k.by)) THEN Proceeds(c, "cleared") ELSE Answered(c)
      /\ UNCHANGED <<account, session, data, locks, arrivals, failures>>

Writing(c, op) == call[c].phase = "cleared" /\ call[c].op = op

(* A statement on a space that is being deleted waits for the deletion, as *)
(* one does that would make a second public space.                         *)
Patch(c) ==
  LET s == call[c].space
  IN  /\ Writing(c, "patch") /\ Unlocked(s)
      /\ IF Exists(s)
         THEN \E v \in Visibilities :
                IF v = "public" /\ ~(Public \subseteq {s})
                THEN (\A p \in Public : Unlocked(p)) /\ UNCHANGED space
                ELSE space' = [space EXCEPT ![s].visibility = v]
         ELSE UNCHANGED space
      /\ Answered(c)
      /\ UNCHANGED <<account, session, role, request, home, tasks, locks, arrivals, failures>>

(* Members: an upsert, an update of a row that is there, and a deletion.   *)
SetRole(s, u, r) ==
  IF Exists(s) THEN role' = [role EXCEPT ![s][u] = r] ELSE UNCHANGED role

AddMember(c) ==
  LET s == call[c].space
  IN  /\ Writing(c, "add") /\ Unlocked(s)
      /\ \E u \in account, r \in Roles : SetRole(s, u, r)
      /\ Answered(c)
      /\ UNCHANGED <<account, session, space, request, home, tasks, locks, arrivals, failures>>

ChangeMember(c) ==
  LET s == call[c].space
  IN  /\ Writing(c, "change") /\ Unlocked(s)
      /\ \E u \in Users, r \in Roles :
           IF role[s][u] # NULL THEN SetRole(s, u, r) ELSE UNCHANGED role
      /\ Answered(c)
      /\ UNCHANGED <<account, session, space, request, home, tasks, locks, arrivals, failures>>

RemoveMember(c) ==
  LET s == call[c].space
  IN  /\ Writing(c, "remove") /\ Unlocked(s)
      /\ \E u \in Users : SetRole(s, u, NULL)
      /\ Answered(c)
      /\ UNCHANGED <<account, session, space, request, home, tasks, locks, arrivals, failures>>

(* DELETE takes the space's row, then the rows that cascade.               *)
Delete(c) ==
  LET s == call[c].space
  IN  /\ Writing(c, "delete") /\ Unlocked(s)
      /\ IF Exists(s)
         THEN Proceeds(c, "deleting") /\ spaceLock' = [spaceLock EXCEPT ![s] = c]
         ELSE Answered(c) /\ UNCHANGED spaceLock
      /\ UNCHANGED <<account, session, data, requestLock, arrivals, failures>>

RequestsOf(s) == {r \in Requests : request[r].space = s}

Cascade(c) ==
  LET s == call[c].space
      within == {i \in Items : home[i] = s}
  IN  /\ call[c].phase = "deleting"
      /\ \A r \in RequestsOf(s) : requestLock[r] = NULL
      /\ space' = [space EXCEPT ![s] = [visibility |-> "deleted", owner |-> NULL]]
      /\ role' = [role EXCEPT ![s] = Nobody]
      /\ request' = [r \in Requests |-> IF r \in RequestsOf(s) THEN NoRequest ELSE request[r]]
      /\ home' = [i \in Items |-> IF i \in within THEN NULL ELSE home[i]]
      /\ tasks' = [kt \in Keys \X Topics |-> IF kt[2] \in within THEN 0 ELSE tasks[kt]]
      /\ spaceLock' = [spaceLock EXCEPT ![s] = NULL]
      /\ Answered(c)
      /\ UNCHANGED <<account, session, requestLock, arrivals, failures>>

NewId(i) == home[i] = NULL /\ \A d \in Calls : call[d].topic # i

(* A row with a new id and a foreign key to the space.                     *)
Insert(c, i) ==
  LET s == call[c].space
  IN  /\ NewId(i) /\ Unlocked(s)
      /\ IF Exists(s) THEN home' = [home EXCEPT ![i] = s] ELSE UNCHANGED home
      /\ Answered(c)
      /\ UNCHANGED <<account, session, space, role, request, tasks, locks, arrivals, failures>>

CreateTopic(c, t) == Writing(c, "topic") /\ Insert(c, t)
RegisterConsumer(c, a) == Writing(c, "consumer") /\ Insert(c, a)
-----------------------------------------------------------------------------
(* Join requests *)

Pending(s, u) == {r \in Requests : request[r] = [space |-> s, user |-> u, status |-> "pending"]}

(* Mutant: a second row instead of the one that is pending. *)
ApplyAgain(c) ==
  LET k == call[c]
  IN  /\ Writing(c, "apply") /\ Unlocked(k.space)
      /\ IF Exists(k.space)
         THEN \E r \in Requests :
                /\ request[r] = NoRequest
                /\ request' = [request EXCEPT ![r] = [space |-> k.space, user |-> k.by,
                                                     status |-> "pending"]]
         ELSE UNCHANGED request
      /\ Answered(c)
      /\ UNCHANGED <<account, session, space, role, home, tasks, locks, arrivals, failures>>

(* ON CONFLICT with the pending one, only its message is updated.          *)
Apply(c) ==
  LET k == call[c]
  IN  /\ Writing(c, "apply") /\ Unlocked(k.space)
      /\ \A r \in Pending(k.space, k.by) : requestLock[r] = NULL
      /\ IF Exists(k.space) /\ Pending(k.space, k.by) = {}
         THEN \E r \in Requests :
                /\ request[r] = NoRequest
                /\ request' = [request EXCEPT ![r] = [space |-> k.space, user |-> k.by,
                                                     status |-> "pending"]]
         ELSE UNCHANGED request
      /\ Answered(c)
      /\ UNCHANGED <<account, session, space, role, home, tasks, locks, arrivals, failures>>

(* Mutants: without AND space_id = $2, and without FOR UPDATE. *)
DecideLockAnySpace(c, r) ==
  /\ Writing(c, "decide")
  /\ requestLock[r] = NULL
  /\ IF request[r].status = "pending"
     THEN /\ Becomes(c, [call[c] EXCEPT !.phase = "deciding", !.request = r])
          /\ requestLock' = [requestLock EXCEPT ![r] = c]
     ELSE Answered(c) /\ UNCHANGED requestLock
  /\ UNCHANGED <<account, session, data, spaceLock, arrivals, failures>>
DecideUnlocked(c, r) ==
  /\ Writing(c, "decide")
  /\ requestLock[r] = NULL
  /\ IF request[r].space = call[c].space /\ request[r].status = "pending"
     THEN Becomes(c, [call[c] EXCEPT !.phase = "deciding", !.request = r])
     ELSE Answered(c)
  /\ UNCHANGED <<account, session, data, locks, arrivals, failures>>

(* SELECT ... FOR UPDATE, and a rollback unless the request is pending.    *)
DecideLock(c, r) ==
  /\ Writing(c, "decide")
  /\ requestLock[r] = NULL
  /\ IF request[r].space = call[c].space /\ request[r].status = "pending"
     THEN /\ Becomes(c, [call[c] EXCEPT !.phase = "deciding", !.request = r])
          /\ requestLock' = [requestLock EXCEPT ![r] = c]
     ELSE Answered(c) /\ UNCHANGED requestLock
  /\ UNCHANGED <<account, session, data, spaceLock, arrivals, failures>>

Releases(c) ==
  requestLock' = [r \in Requests |-> IF requestLock[r] = c THEN NULL ELSE requestLock[r]]

Decides(c, decision) ==
  /\ call[c].phase = "deciding" /\ call[c].by # Admin
  /\ request' = [request EXCEPT ![call[c].request].status = decision]
  /\ Releases(c) /\ Answered(c)
  /\ UNCHANGED <<account, session, space, home, tasks, spaceLock, arrivals, failures>>

(* UPDATE, the member when it is approved, COMMIT.                         *)
Approve(c) ==
  LET q == request[call[c].request]
  IN  /\ Decides(c, "approved") /\ Unlocked(q.space)
      /\ \E r \in Roles : role' = [role EXCEPT ![q.space][q.user] = r]

Deny(c) == Decides(c, "denied") /\ UNCHANGED role

(* decided_by is a uuid, which the bearer's id is not.                     *)
DecideThrows(c) == call[c].phase = "deciding" /\ call[c].by = Admin
-----------------------------------------------------------------------------
(* Publishing with a dedup_key *)

(* The lookup among all tasks, of whatever topic.                          *)
Keyed(key) == {t \in Topics : tasks[<<key, t>>] > 0}

Lookup(c, key) ==
  /\ Writing(c, "publish")
  /\ IF Keyed(key) # {} THEN Answered(c)
     ELSE Becomes(c, [call[c] EXCEPT !.phase = "missed", !.key = key])
  /\ UNCHANGED <<account, session, data, locks, arrivals, failures>>

(* INSERT: the unique key, then the foreign key to the topic.              *)
Publish(c) ==
  LET k == call[c]
  IN  /\ k.phase = "missed" /\ Unlocked(k.space)
      /\ \A t \in Keyed(k.key) : Unlocked(home[t])
      /\ IF Keyed(k.key) # {} THEN Proceeds(c, "conflict") /\ UNCHANGED tasks
         ELSE IF home[k.topic] # NULL
         THEN Answered(c) /\ tasks' = [tasks EXCEPT ![<<k.key, k.topic>>] = @ + 1]
         ELSE Answered(c) /\ UNCHANGED tasks
      /\ UNCHANGED <<account, session, space, role, request, home, locks, arrivals, failures>>

(* ROLLBACK and 409.                                                       *)
AnswerConflict(c) ==
  /\ call[c].phase = "conflict"
  /\ Answered(c)
  /\ UNCHANGED <<account, session, data, locks, arrivals, failures>>
-----------------------------------------------------------------------------
(* ensurePublicSpace, when a server boots *)

Boot(c) ==
  /\ call[c].phase = "idle" /\ Comes
  /\ Public = {}
  /\ Becomes(c, [Idle EXCEPT !.op = "boot", !.phase = "inserting"])
  /\ UNCHANGED <<account, session, data, locks, failures>>

(* Visibility and slug are unique, and any space may have taken the slug:  *)
(* by its name, or as the public one that a PATCH has made another.        *)
BootInsert(c, s) ==
  /\ call[c].phase = "inserting"
  /\ \A p \in Public : Unlocked(p)
  /\ \/ /\ Public = {} /\ space[s].visibility = "unborn"
        /\ space' = [space EXCEPT ![s] = [visibility |-> "public", owner |-> NULL]]
        /\ Answered(c)
     \/ /\ \E p \in Spaces : Exists(p) /\ Unlocked(p)
        /\ Proceeds(c, "rechecking") /\ UNCHANGED space
  /\ UNCHANGED <<account, session, role, request, home, tasks, locks, arrivals, failures>>

(* The recheck finds a public space, or the boot fails.                    *)
BootRecheck(c) ==
  /\ call[c].phase = "rechecking"
  /\ Answered(c)
  /\ UNCHANGED <<account, session, data, locks, arrivals, failures>>
-----------------------------------------------------------------------------
(* Failures and the whole *)

(* Mutant: the rollback is missing and the connection goes back with its   *)
(* transaction open.                                                       *)
AbortKeepsLocks(c) ==
  /\ Answered(c)
  /\ UNCHANGED <<account, session, data, locks, arrivals>>

(* The request is answered 500 and its transaction rolled back.            *)
Abort(c) ==
  /\ spaceLock' = [s \in Spaces |-> IF spaceLock[s] = c THEN NULL ELSE spaceLock[s]]
  /\ Releases(c)
  /\ Answered(c)
  /\ UNCHANGED <<account, session, data, arrivals>>

(* A deletion and a decision that wait for each other: Postgres ends one.  *)
WaitsFor(c, d) ==
  \/ /\ call[c].phase = "deciding" /\ spaceLock[call[c].space] = d
  \/ /\ call[c].phase = "deleting"
     /\ \E r \in RequestsOf(call[c].space) : requestLock[r] = d

(* Bound: the model has no id left for the row.                            *)
NoIdLeft(c) ==
  /\ \/ Writing(c, "topic") /\ \A i \in Topics : ~NewId(i)
     \/ Writing(c, "consumer") /\ \A i \in Consumers : ~NewId(i)
     \/ Writing(c, "apply") /\ \A r \in Requests : request[r] # NoRequest
     \/ /\ call[c].phase = "inserting" /\ Public = {}
        /\ \A s \in Spaces : space[s].visibility # "unborn"
  /\ Abort(c) /\ UNCHANGED failures

Throw(c) == DecideThrows(c) /\ Abort(c) /\ UNCHANGED failures
Victim(c) ==
  /\ \E d \in Calls : WaitsFor(c, d) /\ WaitsFor(d, c)
  /\ Abort(c) /\ UNCHANGED failures
Fail(c) ==
  /\ call[c].phase # "idle" /\ failures < MaxFailures
  /\ failures' = failures + 1
  /\ Abort(c)

ServeStep(c) ==
  \/ Authorise(c)
  \/ Patch(c) \/ AddMember(c) \/ ChangeMember(c) \/ RemoveMember(c)
  \/ Delete(c) \/ Cascade(c)
  \/ \E t \in Topics : CreateTopic(c, t)
  \/ \E a \in Consumers : RegisterConsumer(c, a)
  \/ Apply(c) \/ Approve(c) \/ Deny(c)
  \/ \E r \in Requests : DecideLock(c, r)
  \/ \E key \in Keys : Lookup(c, key)
  \/ Publish(c) \/ AnswerConflict(c)
  \/ BootRecheck(c) \/ \E s \in Spaces : BootInsert(c, s)
  \/ Throw(c) \/ Victim(c) \/ NoIdLeft(c)

AccountStep ==
  \E u \in Users :
    \/ Login(u) \/ Logout(u)
    \/ \E s \in Spaces : Register(u, s) \/ CreateSpace(u, s)

ArrivalStep ==
  \E c \in Calls :
    \/ Boot(c)
    \/ \E by \in Users \union {Admin}, op \in Operations \ {"boot"}, s \in Spaces,
         t \in Topics \union {NULL} : Arrive(c, by, op, s, t)

Step == AccountStep \/ ArrivalStep \/ \E c \in Calls : ServeStep(c) \/ Fail(c)

(* Whether the user of call c is entitled to it, at this very moment.      *)
EntitledNow(c) ==
  LET k == call[c]
      s == k.space
  IN  /\ k.phase # "idle" /\ k.op # "boot" /\ Exists(s)
      /\ \/ k.op \in Managing /\ Manages(space[s].owner, RoleOf(s, k.by), k.by)
         \/ k.op \in Producing /\ Produces(space[s].owner, RoleOf(s, k.by), k.by)
         \/ k.op = "delete" /\ (k.by = Admin \/ k.by = space[s].owner)

Remember == could' = [c \in Calls |-> EntitledNow(c)' \/ (could[c] /\ call'[c].phase # "idle")]

Next == Step /\ Remember
Spec == Init /\ [][Next]_vars

(* A server goes on with the requests it has begun.                        *)
FairSpec == Spec /\ WF_vars((\E c \in Calls : ServeStep(c)) /\ Remember)
-----------------------------------------------------------------------------
(* Properties *)

(* Values stay in their types: among them, sessions are of registered      *)
(* users, and roles are those of the schema's check.                       *)
SpacesTypeOK ==
  /\ account \subseteq Users /\ session \subseteq account
  /\ space \in [Spaces -> SpaceRow]
  /\ role \in [Spaces -> [Users -> Roles \union {NULL}]]
  /\ request \in [Requests -> RequestRow]
  /\ home \in [Items -> Spaces \union {NULL}]
  /\ tasks \in [Keys \X Topics -> Nat]
  /\ call \in [Calls -> Call]
  /\ spaceLock \in [Spaces -> Calls \union {NULL}]
  /\ requestLock \in [Requests -> Calls \union {NULL}]
  /\ could \in [Calls -> BOOLEAN]
  /\ arrivals \in Nat /\ failures \in Nat

OnePublicSpace == \A s1, s2 \in Public : s1 = s2

OnePendingRequest ==
  \A r1, r2 \in Requests :
    request[r1].status = "pending" /\ request[r1] = request[r2] => r1 = r2

OneTaskPerKey ==
  \A kt1, kt2 \in Keys \X Topics :
    /\ tasks[kt1] \in {0, 1}
    /\ kt1[1] = kt2[1] /\ tasks[kt1] > 0 /\ tasks[kt2] > 0 => kt1 = kt2

LocksAreHeld ==
  \A c \in Calls :
    /\ call[c].phase = "deciding" => requestLock[call[c].request] = c
    /\ call[c].phase = "deleting" => spaceLock[call[c].space] = c

NothingOutlivesItsSpace ==
  /\ \A s \in Spaces : role[s] # Nobody => Exists(s)
  /\ \A r \in Requests : request[r] # NoRequest => request[r].space \in Spaces /\ Exists(request[r].space)
  /\ \A i \in Items : home[i] # NULL => Exists(home[i])
  /\ \A kt \in Keys \X Topics : tasks[kt] > 0 => home[kt[2]] # NULL

(* However requests, boots and deletions interleave, there is at most one  *)
(* public space, one pending request of a user to a space and one task of  *)
(* a dedup_key, nothing is left of a space that is gone, and whoever       *)
(* decides a request or deletes a space holds its row.                     *)
SpacesConsistent ==
  /\ OnePublicSpace /\ OnePendingRequest /\ OneTaskPerKey
  /\ NothingOutlivesItsSpace /\ LocksAreHeld

ChangedWithin(s) ==
  \/ space'[s] # space[s] \/ role'[s] # role[s]
  \/ \E r \in Requests : request[r].space = s /\ request'[r] # request[r]
  \/ \E i \in Items : s \in {home[i], home'[i]} /\ home'[i] # home[i]
  \/ \E kt \in Keys \X Topics : home[kt[2]] = s /\ tasks'[kt] # tasks[kt]

(* What is in a space changes only by a request to this space, of a user   *)
(* who was entitled to that request at some moment since it arrived: the   *)
(* separate reads of canManage and canProduce never add up to a permission *)
(* that the user had at no time.                                           *)
ActsWithAuthority ==
  [][\A s \in Spaces : Exists(s) /\ ChangedWithin(s) =>
       \E c \in Calls : call[c].space = s /\ call'[c] # call[c] /\ could[c]]_vars

(* A join request is decided once, by whichever of two managers comes      *)
(* first, and an approval makes the applicant a member in the same step.   *)
DecidedOnce ==
  [][\A r \in Requests :
       /\ request[r].status \in {"approved", "denied"} => request'[r] \in {request[r], NoRequest}
       /\ request[r].status # "approved" /\ request'[r].status = "approved" =>
            /\ request[r].status = "pending"
            /\ role'[request[r].space][request[r].user] # NULL]_vars

(* Every request is answered: whatever fails, and when a decision and a    *)
(* deletion wait for each other, no row stays locked.                      *)
EveryCallAnswered == \A c \in Calls : []<>(call[c].phase = "idle")
=============================================================================
