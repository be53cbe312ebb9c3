--------------------------- MODULE ConnectionPool ----------------------------
(***************************************************************************)
(* The server's pool of database connections and the requests and jobs     *)
(* that use it.  A handler either runs one statement on a connection of    *)
(* the pool (query, pool.query), or takes a connection for a transaction   *)
(* and gives it back in a finally block.  Some do the first within the     *)
(* second.  The pool has no timeout: who waits, waits until it is served.  *)
(***************************************************************************)
EXTENDS Integers, Sequences, FiniteSets

CONSTANTS
  Handlers,  \* bound: requests and jobs under way at the same time
  PoolSize,  \* the max of pg.Pool, 10 unless the connection string says otherwise
  NULL

(* What handlers serve.  The other endpoints have the shape of a lifecycle *)
(* call or of a lookup, with more or fewer queries in a place.             *)
Kinds ==
  {"claim", "publish", "createSpace", "register", "lifecycle", "job", "lookup"}

(* The programs: what each asks of the pool, in order.  Statements on the  *)
(* connection a handler holds ask nothing.                                 *)

(* Authenticate, read the rest windows, then the transaction, which reads  *)
(* the paused topics and the windows again through the pool, then touch    *)
(* the poll schedules.                                                     *)
ClaimProgram == <<"query", "query", "connect", "query", "query", "release", "query">>

(* The topic's space and the user's role in it are read through the pool.  *)
PublishProgram == <<"query", "connect", "query", "query", "release">>

(* One query of uniqueSlug; another slug tried is another one like it.     *)
CreateSpaceProgram == <<"query", "connect", "query", "release">>

(* The session is created after the commit, before the connection returns. *)
RegisterProgram == <<"connect", "query", "release">>

(* Mutant: the lease row is read through the pool. *)
LifecycleProgramOutside == <<"query", "connect", "query", "release">>

LifecycleProgram == <<"query", "connect", "release">>
JobProgram == <<"connect", "release">>
LookupProgram == <<"query">>

Programs ==
  [claim |-> ClaimProgram, publish |-> PublishProgram,
   createSpace |-> CreateSpaceProgram, register |-> RegisterProgram,
   lifecycle |-> LifecycleProgram, job |-> JobProgram, lookup |-> LookupProgram]

(* The kinds that query the pool between their connect and their release.  *)
NestedKinds == {"claim", "publish", "createSpace", "register"}

ASSUME PoolAssumption ==
  /\ PoolSize \in Nat \ {0} /\ IsFiniteSet(Handlers)
  /\ NULL \notin Kinds

VARIABLES
  kind,     \* what each handler serves, NULL when it serves nothing
  pos,      \* its next operation on the pool
  held,     \* handlers that have a connection for a transaction
  using,    \* handlers whose single statement is running
  waiting   \* pg-pool's pending queue

vars == <<kind, pos, held, using, waiting>>

Queued == {waiting[n] : n \in 1..Len(waiting)}

Serving(h) == kind[h] # NULL
Ended(h) == pos[h] > Len(Programs[kind[h]])
Op(h) == IF ~Serving(h) \/ Ended(h) THEN "none" ELSE Programs[kind[h]][pos[h]]

(* A handler that is neither in the pool's queue nor awaiting a statement. *)
Ready(h) == Serving(h) /\ h \notin using /\ h \notin Queued

Free == PoolSize - Cardinality(held) - Cardinality(using)

Init ==
  /\ kind = [h \in Handlers |-> NULL]
  /\ pos = [h \in Handlers |-> 1]
  /\ held = {} /\ using = {}
  /\ waiting = <<>>
-----------------------------------------------------------------------------
Begin(h, k) ==
  /\ ~Serving(h)
  /\ kind' = [kind EXCEPT ![h] = k]
  /\ UNCHANGED <<pos, held, using, waiting>>

(* The answer is sent, or the job waits for its next interval.             *)
Finish(h) ==
  /\ Ready(h) /\ Ended(h)
  /\ kind' = [kind EXCEPT ![h] = NULL]
  /\ pos' = [pos EXCEPT ![h] = 1]
  /\ UNCHANGED <<held, using, waiting>>

Ask(h) ==
  /\ Ready(h) /\ Op(h) \in {"query", "connect"}
  /\ waiting' = Append(waiting, h)
  /\ UNCHANGED <<kind, pos, held, using>>

(* Mutant: a connection more than there are. *)
GrantOneMore ==
  /\ waiting # <<>> /\ Free >= 0
  /\ LET h == Head(waiting)
     IN  IF Op(h) = "connect"
         THEN /\ held' = held \union {h} /\ pos' = [pos EXCEPT ![h] = @ + 1]
              /\ UNCHANGED using
         ELSE using' = using \union {h} /\ UNCHANGED <<held, pos>>
  /\ waiting' = Tail(waiting)
  /\ UNCHANGED kind

(* First come, first served. *)
Grant ==
  /\ waiting # <<>> /\ Free > 0
  /\ LET h == Head(waiting)
     IN  IF Op(h) = "connect"
         THEN /\ held' = held \union {h} /\ pos' = [pos EXCEPT ![h] = @ + 1]
              /\ UNCHANGED using
         ELSE using' = using \union {h} /\ UNCHANGED <<held, pos>>
  /\ waiting' = Tail(waiting)
  /\ UNCHANGED kind

(* The statement is answered; its connection returns to the pool.          *)
Answered(h) ==
  /\ h \in using
  /\ using' = using \ {h}
  /\ pos' = [pos EXCEPT ![h] = @ + 1]
  /\ UNCHANGED <<kind, held, waiting>>

Release(h) ==
  /\ Ready(h) /\ Op(h) = "release"
  /\ held' = held \ {h}
  /\ pos' = [pos EXCEPT ![h] = @ + 1]
  /\ UNCHANGED <<kind, using, waiting>>

(* Mutant: an early return of a transaction forgets the connection. *)
LeaveHolding(h) ==
  /\ Ready(h) /\ ~Ended(h)
  /\ pos' = [pos EXCEPT ![h] = Len(Programs[kind[h]]) + 1]
  /\ UNCHANGED <<kind, held, using, waiting>>

(* An early return or an error: operations are left out, but for the       *)
(* release of a connection that is held, which the finally block does.     *)
Leave(h) ==
  /\ Ready(h) /\ ~Ended(h)
  /\ LET program == Programs[kind[h]]
     IN  \E q \in pos[h] + 1 .. Len(program) + 1 :
           LET skipped == {program[n] : n \in pos[h] .. q - 1}
           IN  /\ "release" \in skipped => "connect" \in skipped
               /\ "connect" \in skipped => "release" \in skipped
               /\ pos' = [pos EXCEPT ![h] = q]
  /\ UNCHANGED <<kind, held, using, waiting>>
-----------------------------------------------------------------------------
HandlerStep(h) == Ask(h) \/ Release(h) \/ Leave(h) \/ Finish(h)

Next ==
  \/ \E h \in Handlers : \/ \E k \in Kinds : Begin(h, k)
                         \/ HandlerStep(h) \/ Answered(h)
  \/ Grant

Spec == Init /\ [][Next]_vars

(* Handlers run on, statements are answered, the pool serves its queue.    *)
FairSpec ==
  /\ Spec /\ WF_vars(Grant)
  /\ \A h \in Handlers : WF_vars(HandlerStep(h)) /\ WF_vars(Answered(h))
-----------------------------------------------------------------------------
(* Properties *)

(* The types, and that the pool never lends more than it has, that each    *)
(* handler is in one place only and that a connection is held by nobody    *)
(* who has finished.                                                       *)
PoolTypeOK ==
  /\ kind \in [Handlers -> Kinds \union {NULL}]
  /\ pos \in [Handlers -> Nat \ {0}]
  /\ held \subseteq {h \in Handlers : Serving(h) /\ ~Ended(h)}
  /\ using \subseteq Handlers /\ waiting \in Seq(Handlers)
  /\ Free >= 0
  /\ \A h \in using : Op(h) = "query" /\ h \notin Queued
  /\ \A m, n \in 1..Len(waiting) : waiting[m] = waiting[n] => m = n

(* Every connection is held by a transaction that waits for another one:   *)
(* nothing moves any more.                                                 *)
Stalled == Cardinality(held) = PoolSize /\ held \subseteq Queued

Nested == {h \in Handlers : kind[h] \in NestedKinds}

(* The server cannot stall while fewer claims, publishes, new spaces and   *)
(* registrations than connections are under way: nothing else waits while  *)
(* it holds one.                                                           *)
StallNeedsNesting == Stalled => Cardinality(Nested) >= PoolSize

(* Unless it stalls, every request is answered, however full the pool is.  *)
AnsweredUnlessStalled ==
  \A h \in Handlers : Serving(h) ~> (~Serving(h) \/ Stalled)
=============================================================================
