------------------------ MODULE ConnectionPoolProofs -------------------------
(***************************************************************************)
(* For any number of handlers and any size of the pool: connections are    *)
(* neither lost nor lent twice, and the pool stalls only when as many      *)
(* nested handlers are under way as it has connections.                    *)
(***************************************************************************)
EXTENDS ConnectionPool, FiniteSetTheorems, TLAPS

(* Where the program of a kind connects and releases; 0 for never.         *)
ConnectAt == [claim |-> 3, publish |-> 2, createSpace |-> 2, register |-> 1,
              lifecycle |-> 2, job |-> 1, lookup |-> 0]
ReleaseAt == [claim |-> 6, publish |-> 5, createSpace |-> 4, register |-> 3,
              lifecycle |-> 3, job |-> 2, lookup |-> 0]

Inside(k, p) == ConnectAt[k] < p /\ p <= ReleaseAt[k]

(* Where one handler is: it holds a connection exactly between its connect *)
(* and its release, it waits only where it asks for one, and not while its *)
(* statement runs.                                                         *)
HandlerOK(h) ==
  /\ kind[h] \in Kinds \union {NULL} /\ pos[h] \in Nat \ {0}
  /\ ~Serving(h) => pos[h] = 1
  /\ h \in held <=> Serving(h) /\ Inside(kind[h], pos[h])
  /\ h \in using => Op(h) = "query" /\ h \notin Queued
  /\ h \in Queued => Op(h) \in {"query", "connect"}

QueueOK ==
  /\ waiting \in Seq(Handlers)
  /\ \A m, n \in 1..Len(waiting) : waiting[m] = waiting[n] => m = n

(* The functions and sets, and what they hold together. *)
ShapeOK ==
  /\ kind = [h \in Handlers |-> kind[h]] /\ pos = [h \in Handlers |-> pos[h]]
  /\ held \subseteq Handlers /\ using \subseteq Handlers
  /\ Free >= 0

PoolInv == ShapeOK /\ QueueOK /\ \A h \in Handlers : HandlerOK(h)
-----------------------------------------------------------------------------
(* Facts about the programs *)

LEMMA ProgramShape ==
  ASSUME NEW k \in Kinds
  PROVE  /\ Programs[k] \in Seq({"query", "connect", "release"})
         /\ Len(Programs[k]) \in Nat /\ ReleaseAt[k] <= Len(Programs[k])
         /\ ConnectAt[k] \in Nat /\ ReleaseAt[k] \in Nat
         /\ ConnectAt[k] <= ReleaseAt[k]
         /\ \A n \in 1..Len(Programs[k]) :
              /\ Programs[k][n] = "connect" <=> n = ConnectAt[k]
              /\ Programs[k][n] = "release" <=> n = ReleaseAt[k]
         /\ ConnectAt[k] # 0 \/ ReleaseAt[k] = 0
         /\ ConnectAt[k] = ReleaseAt[k] => ReleaseAt[k] = 0
         /\ k \notin NestedKinds => ReleaseAt[k] <= ConnectAt[k] + 1
<1>1. CASE k = "claim"
  BY <1>1 DEF Programs, ClaimProgram, ConnectAt, ReleaseAt, NestedKinds
<1>2. CASE k = "publish"
  BY <1>2 DEF Programs, PublishProgram, ConnectAt, ReleaseAt, NestedKinds
<1>3. CASE k = "createSpace"
  BY <1>3 DEF Programs, CreateSpaceProgram, ConnectAt, ReleaseAt, NestedKinds
<1>4. CASE k = "register"
  BY <1>4 DEF Programs, RegisterProgram, ConnectAt, ReleaseAt, NestedKinds
<1>5. CASE k = "lifecycle"
  BY <1>5 DEF Programs, LifecycleProgram, ConnectAt, ReleaseAt, NestedKinds
<1>6. CASE k = "job"
  BY <1>6 DEF Programs, JobProgram, ConnectAt, ReleaseAt, NestedKinds
<1>7. CASE k = "lookup"
  BY <1>7 DEF Programs, LookupProgram, ConnectAt, ReleaseAt, NestedKinds
<1> QED  BY <1>1, <1>2, <1>3, <1>4, <1>5, <1>6, <1>7 DEF Kinds

LEMMA OperationFacts ==
  ASSUME NEW h \in Handlers, HandlerOK(h), Op(h) # "none"
  PROVE  /\ kind[h] \in Kinds /\ Serving(h) /\ pos[h] \in 1..Len(Programs[kind[h]])
         /\ Op(h) \in {"query", "connect", "release"}
         /\ Op(h) = "connect" <=> pos[h] = ConnectAt[kind[h]]
         /\ Op(h) = "release" <=> pos[h] = ReleaseAt[kind[h]]
<1>1. kind[h] \in Kinds /\ Serving(h) /\ ~Ended(h) /\ pos[h] \in Nat \ {0}
  BY DEF Op, HandlerOK, Serving
<1>2. pos[h] \in 1..Len(Programs[kind[h]]) /\ Op(h) = Programs[kind[h]][pos[h]]
  BY <1>1, ProgramShape DEF Ended, Op
<1>3. Programs[kind[h]][pos[h]] \in {"query", "connect", "release"}
  BY <1>1, <1>2, ProgramShape
<1> QED  BY <1>1, <1>2, <1>3, ProgramShape

(* Passing an operation changes whether a connection is held only if it is *)
(* the connect or the release.                                             *)
LEMMA InsideMoves ==
  ASSUME NEW k \in Kinds, NEW p \in 1..Len(Programs[k])
  PROVE  /\ p = ConnectAt[k] => ~Inside(k, p) /\ Inside(k, p + 1)
         /\ p = ReleaseAt[k] => Inside(k, p) /\ ~Inside(k, p + 1)
         /\ p # ConnectAt[k] /\ p # ReleaseAt[k] => (Inside(k, p + 1) <=> Inside(k, p))
  BY ProgramShape DEF Inside

(* What an early return leaves out does not change it either. *)
LEMMA InsideSkips ==
  ASSUME NEW k \in Kinds, NEW p \in Nat \ {0}, p <= Len(Programs[k]),
         NEW q \in p + 1 .. Len(Programs[k]) + 1,
         ConnectAt[k] \in p .. q - 1 <=> ReleaseAt[k] \in p .. q - 1
  PROVE  Inside(k, q) <=> Inside(k, p)
  BY ProgramShape DEF Inside

(* The pool's arithmetic is about finite sets. *)
LEMMA FiniteHolders ==
  ASSUME ShapeOK
  PROVE  /\ IsFiniteSet(held) /\ IsFiniteSet(using)
         /\ Cardinality(held) \in Nat /\ Cardinality(using) \in Nat
<1>1. held \subseteq Handlers /\ using \subseteq Handlers
  BY DEF ShapeOK
<1> QED  BY <1>1, PoolAssumption, FS_Subset, FS_CardinalityType
-----------------------------------------------------------------------------
(* The invariant *)

LEMMA InitPool == Init => PoolInv
<1> SUFFICES ASSUME Init PROVE PoolInv
  OBVIOUS
<1>1. Cardinality({}) = 0
  BY FS_EmptySet
<1>2. ShapeOK /\ QueueOK
  BY <1>1, PoolAssumption DEF Init, ShapeOK, QueueOK, Free
<1>3. ASSUME NEW h \in Handlers PROVE HandlerOK(h)
  BY DEF Init, HandlerOK, Serving, Queued
<1> QED  BY <1>2, <1>3 DEF PoolInv

(* A step of one handler leaves the others as they are. *)
LEMMA OthersUntouched ==
  ASSUME NEW g \in Handlers, HandlerOK(g),
         kind'[g] = kind[g], pos'[g] = pos[g],
         g \in held' <=> g \in held, g \in using' <=> g \in using,
         g \in Queued' <=> g \in Queued
  PROVE  HandlerOK(g)'
  BY DEF HandlerOK, Op, Serving, Ended

(* What a handler that is about to run next is not. *)
LEMMA IdleFacts ==
  ASSUME NEW h \in Handlers, HandlerOK(h), ~Serving(h)
  PROVE  h \notin held /\ h \notin using /\ h \notin Queued
  BY DEF HandlerOK, Op

LEMMA BeginKeeps ==
  ASSUME PoolInv, NEW h \in Handlers, NEW k \in Kinds, Begin(h, k)
  PROVE  PoolInv'
<1>1. ShapeOK' /\ QueueOK'
  BY DEF Begin, PoolInv, ShapeOK, QueueOK, Free
<1>2. HandlerOK(h)'
  <2>1. h \notin held /\ h \notin using /\ h \notin Queued /\ pos[h] = 1
    BY IdleFacts DEF Begin, PoolInv, HandlerOK
  <2>2. kind'[h] = k /\ pos'[h] = 1 /\ ~Inside(k, 1)
    BY <2>1, ProgramShape DEF Begin, PoolInv, ShapeOK, Inside
  <2> QED  BY <2>1, <2>2, PoolAssumption DEF HandlerOK, Begin, Serving, Queued
<1>3. ASSUME NEW g \in Handlers, g # h PROVE HandlerOK(g)'
  <2> kind'[g] = kind[g]
    BY <1>3 DEF Begin, PoolInv, ShapeOK
  <2> QED  BY OthersUntouched DEF Begin, PoolInv, Queued
<1> QED  BY <1>1, <1>2, <1>3 DEF PoolInv

LEMMA FinishKeeps ==
  ASSUME PoolInv, NEW h \in Handlers, Finish(h)
  PROVE  PoolInv'
<1>1. ShapeOK' /\ QueueOK'
  BY DEF Finish, PoolInv, ShapeOK, QueueOK, Free
<1>2. HandlerOK(h)'
  <2>1. h \notin held /\ h \notin using /\ h \notin Queued
    <3> HandlerOK(h) /\ kind[h] \in Kinds
      BY DEF Finish, Ready, Serving, PoolInv, HandlerOK
    <3> QED  BY ProgramShape DEF Finish, Ready, Ended, HandlerOK, Inside
  <2>2. kind'[h] = NULL /\ pos'[h] = 1
    BY DEF Finish, PoolInv, ShapeOK
  <2> QED  BY <2>1, <2>2 DEF HandlerOK, Finish, Serving, Queued
<1>3. ASSUME NEW g \in Handlers, g # h PROVE HandlerOK(g)'
  <2> kind'[g] = kind[g] /\ pos'[g] = pos[g]
    BY <1>3 DEF Finish, PoolInv, ShapeOK
  <2> QED  BY OthersUntouched DEF Finish, PoolInv, Queued
<1> QED  BY <1>1, <1>2, <1>3 DEF PoolInv

LEMMA AskKeeps ==
  ASSUME PoolInv, NEW h \in Handlers, Ask(h)
  PROVE  PoolInv'
<1>1. ShapeOK'
  BY DEF Ask, PoolInv, ShapeOK, Free
<1>2. /\ waiting \in Seq(Handlers) /\ waiting' \in Seq(Handlers)
      /\ Len(waiting') = Len(waiting) + 1 /\ waiting'[Len(waiting')] = h
      /\ \A n \in 1..Len(waiting) : waiting'[n] = waiting[n] /\ waiting[n] # h
  BY DEF Ask, Ready, PoolInv, QueueOK, Queued
<1>3. QueueOK'
  BY <1>2 DEF PoolInv, QueueOK
<1>4. Queued' = Queued \union {h}
  BY <1>2 DEF Queued
<1>5. HandlerOK(h)'
  BY <1>4 DEF Ask, Ready, PoolInv, HandlerOK, Op, Serving, Ended
<1>6. ASSUME NEW g \in Handlers, g # h PROVE HandlerOK(g)'
  BY <1>4, <1>6, OthersUntouched DEF Ask, PoolInv
<1> QED  BY <1>1, <1>3, <1>5, <1>6 DEF PoolInv

LEMMA ReleaseKeeps ==
  ASSUME PoolInv, NEW h \in Handlers, Release(h)
  PROVE  PoolInv'
<1>1. /\ kind[h] \in Kinds /\ pos[h] \in 1..Len(Programs[kind[h]])
      /\ pos[h] = ReleaseAt[kind[h]] /\ HandlerOK(h)
  BY OperationFacts DEF Release, PoolInv
<1>2. pos'[h] = pos[h] + 1 /\ pos'[h] \in Nat \ {0}
  BY <1>1 DEF Release, PoolInv, ShapeOK, HandlerOK
<1>3. ShapeOK' /\ QueueOK'
  <2>1. h \in held /\ IsFiniteSet(held)
    BY <1>1, InsideMoves, FiniteHolders DEF HandlerOK, PoolInv, Release, Ready
  <2>2. Cardinality(held') = Cardinality(held) - 1
    BY <2>1, FS_RemoveElement DEF Release
  <2>3. Free' = Free + 1 /\ Free \in Int
    BY <2>2, FiniteHolders, PoolAssumption DEF Release, PoolInv, Free
  <2>4. Free' >= 0
    BY <2>3 DEF PoolInv, ShapeOK
  <2>5. held' \subseteq Handlers
    BY DEF Release, PoolInv, ShapeOK
  <2> QED  BY <2>4, <2>5 DEF Release, PoolInv, ShapeOK, QueueOK
<1>4. HandlerOK(h)'
  <2>1. ~Inside(kind[h], pos[h] + 1)
    BY <1>1, InsideMoves
  <2> QED  BY <1>1, <1>2, <2>1 DEF Release, Ready, HandlerOK, Serving, Queued
<1>5. ASSUME NEW g \in Handlers, g # h PROVE HandlerOK(g)'
  <2> pos'[g] = pos[g]
    BY <1>5 DEF Release, PoolInv, ShapeOK
  <2> QED  BY <1>5, OthersUntouched DEF Release, PoolInv, Queued
<1> QED  BY <1>3, <1>4, <1>5 DEF PoolInv

LEMMA AnsweredKeeps ==
  ASSUME PoolInv, NEW h \in Handlers, Answered(h)
  PROVE  PoolInv'
<1>1. HandlerOK(h) /\ Op(h) = "query" /\ h \notin Queued
  BY DEF Answered, PoolInv, HandlerOK
<1>2. /\ kind[h] \in Kinds /\ pos[h] \in 1..Len(Programs[kind[h]]) /\ Serving(h)
      /\ pos[h] # ConnectAt[kind[h]] /\ pos[h] # ReleaseAt[kind[h]]
  BY <1>1, OperationFacts
<1>3. pos'[h] = pos[h] + 1 /\ pos'[h] \in Nat \ {0}
  BY <1>1 DEF Answered, PoolInv, ShapeOK, HandlerOK
<1>4. ShapeOK' /\ QueueOK'
  <2>1. Cardinality(using') = Cardinality(using) - 1
    BY FiniteHolders, FS_RemoveElement DEF Answered, PoolInv
  <2>2. Free' = Free + 1 /\ Free \in Int
    BY <2>1, FiniteHolders, PoolAssumption DEF Answered, PoolInv, Free
  <2> QED  BY <2>2 DEF Answered, PoolInv, ShapeOK, QueueOK
<1>5. HandlerOK(h)'
  <2>1. Inside(kind[h], pos[h] + 1) <=> Inside(kind[h], pos[h])
    BY <1>2, InsideMoves
  <2> QED  BY <1>1, <1>2, <1>3, <2>1 DEF Answered, HandlerOK, Serving, Queued
<1>6. ASSUME NEW g \in Handlers, g # h PROVE HandlerOK(g)'
  <2> pos'[g] = pos[g]
    BY <1>6 DEF Answered, PoolInv, ShapeOK
  <2> QED  BY <1>6, OthersUntouched DEF Answered, PoolInv, Queued
<1> QED  BY <1>4, <1>5, <1>6 DEF PoolInv

LEMMA LeaveKeeps ==
  ASSUME PoolInv, NEW h \in Handlers, Leave(h)
  PROVE  PoolInv'
<1>1. ShapeOK' /\ QueueOK'
  BY DEF Leave, PoolInv, ShapeOK, QueueOK, Free
<1>2. /\ HandlerOK(h) /\ kind[h] \in Kinds /\ Serving(h)
      /\ pos[h] \in Nat \ {0} /\ Len(Programs[kind[h]]) \in Nat
      /\ pos[h] <= Len(Programs[kind[h]])
  BY ProgramShape DEF Leave, Ready, Ended, Serving, PoolInv, HandlerOK
<1> DEFINE program == Programs[kind[h]]
           skipped(q) == {program[n] : n \in pos[h] .. q - 1}
<1>3. PICK q \in pos[h] + 1 .. Len(program) + 1 :
        /\ "release" \in skipped(q) => "connect" \in skipped(q)
        /\ "connect" \in skipped(q) => "release" \in skipped(q)
        /\ pos' = [pos EXCEPT ![h] = q]
  BY DEF Leave
<1>4. Inside(kind[h], q) <=> Inside(kind[h], pos[h])
  <2>1. \A n \in pos[h] .. q - 1 : n \in 1..Len(program)
    BY <1>2
  <2>2. "connect" \in skipped(q) <=> ConnectAt[kind[h]] \in pos[h] .. q - 1
    <3>1. \A n \in pos[h] .. q - 1 : program[n] = "connect" <=> n = ConnectAt[kind[h]]
      BY <1>2, <2>1, ProgramShape
    <3> QED  BY <3>1
  <2>3. "release" \in skipped(q) <=> ReleaseAt[kind[h]] \in pos[h] .. q - 1
    <3>1. \A n \in pos[h] .. q - 1 : program[n] = "release" <=> n = ReleaseAt[kind[h]]
      BY <1>2, <2>1, ProgramShape
    <3> QED  BY <3>1
  <2> QED  BY <1>2, <1>3, <2>2, <2>3, InsideSkips
<1>5. pos'[h] = q /\ q \in Nat \ {0}
  BY <1>2, <1>3 DEF PoolInv, ShapeOK
<1>6. HandlerOK(h)'
  BY <1>2, <1>4, <1>5 DEF Leave, Ready, HandlerOK, Serving, Queued
<1>7. ASSUME NEW g \in Handlers, g # h PROVE HandlerOK(g)'
  <2> pos'[g] = pos[g]
    BY <1>3, <1>7 DEF PoolInv, ShapeOK
  <2> QED  BY <1>7, OthersUntouched DEF Leave, PoolInv, Queued
<1> QED  BY <1>1, <1>6, <1>7 DEF PoolInv

LEMMA GrantKeeps ==
  ASSUME PoolInv, Grant
  PROVE  PoolInv'
<1>0. PICK h \in Handlers : h = Head(waiting)
  BY DEF Grant, PoolInv, QueueOK
<1>1. /\ waiting \in Seq(Handlers) /\ waiting # <<>> /\ h = Head(waiting)
      /\ waiting' \in Seq(Handlers) /\ h = waiting[1] /\ 1 \in 1..Len(waiting)
      /\ Len(waiting') = Len(waiting) - 1 /\ Len(waiting) \in Nat
      /\ \A n \in 1..Len(waiting') : waiting'[n] = waiting[n + 1]
  BY <1>0 DEF Grant, PoolInv, QueueOK
<1>2. QueueOK'
  BY <1>1 DEF PoolInv, QueueOK
<1>3. Queued' = Queued \ {h}
  <2>1. \A n \in 1..Len(waiting) : n # 1 => waiting[n] # h
    BY <1>1 DEF PoolInv, QueueOK
  <2>2. \A n \in 1..Len(waiting) : n # 1 =>
          n - 1 \in 1..Len(waiting') /\ waiting'[n - 1] = waiting[n]
    BY <1>1
  <2>3. \A n \in 1..Len(waiting') : n + 1 \in 1..Len(waiting) /\ n + 1 # 1
    BY <1>1
  <2>4. Queued' \subseteq Queued \ {h}
    BY <1>1, <2>1, <2>3 DEF Queued
  <2>5. Queued \ {h} \subseteq Queued'
    BY <1>1, <2>2 DEF Queued
  <2> QED  BY <2>4, <2>5
<1>4. HandlerOK(h) /\ Op(h) \in {"query", "connect"} /\ h \notin using
  BY <1>1 DEF PoolInv, HandlerOK, Queued
<1>5. /\ kind[h] \in Kinds /\ pos[h] \in 1..Len(Programs[kind[h]]) /\ Serving(h)
      /\ Op(h) = "connect" <=> pos[h] = ConnectAt[kind[h]]
  BY <1>1, <1>4, OperationFacts
<1>6. CASE Op(h) = "connect"
  <2>1. held' = held \union {h} /\ pos' = [pos EXCEPT ![h] = @ + 1]
        /\ using' = using /\ kind' = kind
    BY <1>1, <1>6 DEF Grant
  <2>2. ~Inside(kind[h], pos[h]) /\ Inside(kind[h], pos[h] + 1)
    BY <1>5, <1>6, InsideMoves
  <2>3. h \notin held
    BY <1>4, <2>2 DEF HandlerOK
  <2>4. ShapeOK'
    <3>1. Cardinality(held') = Cardinality(held) + 1
      BY <2>1, <2>3, FiniteHolders, FS_AddElement DEF PoolInv
    <3> QED  BY <1>1, <2>1, <3>1, FiniteHolders, PoolAssumption
             DEF Grant, PoolInv, ShapeOK, Free
  <2>5. pos'[h] = pos[h] + 1 /\ pos'[h] \in Nat \ {0}
    BY <1>1, <1>4, <2>1 DEF PoolInv, ShapeOK, HandlerOK
  <2>6. HandlerOK(h)'
    BY <1>3, <1>4, <1>5, <2>1, <2>2, <2>5 DEF HandlerOK, Serving
  <2>7. ASSUME NEW g \in Handlers, g # h PROVE HandlerOK(g)'
    <3> pos'[g] = pos[g]
      BY <2>1, <2>7 DEF PoolInv, ShapeOK
    <3> QED  BY <1>3, <2>1, <2>7, OthersUntouched DEF PoolInv
  <2> QED  BY <1>2, <2>4, <2>6, <2>7 DEF PoolInv
<1>7. CASE Op(h) = "query"
  <2>1. using' = using \union {h} /\ held' = held /\ pos' = pos /\ kind' = kind
    BY <1>1, <1>7 DEF Grant
  <2>2. ShapeOK'
    <3>1. Cardinality(using') = Cardinality(using) + 1
      BY <1>4, <2>1, FiniteHolders, FS_AddElement DEF PoolInv
    <3> QED  BY <1>1, <2>1, <3>1, FiniteHolders, PoolAssumption
             DEF Grant, PoolInv, ShapeOK, Free
  <2>3. HandlerOK(h)'
    BY <1>3, <1>4, <1>7, <2>1 DEF HandlerOK, Serving, Op, Ended
  <2>4. ASSUME NEW g \in Handlers, g # h PROVE HandlerOK(g)'
    BY <1>3, <2>1, <2>4, OthersUntouched DEF PoolInv
  <2> QED  BY <1>2, <2>2, <2>3, <2>4 DEF PoolInv
<1> QED  BY <1>4, <1>6, <1>7

LEMMA NextPool == PoolInv /\ [Next]_vars => PoolInv'
<1> SUFFICES ASSUME PoolInv, [Next]_vars PROVE PoolInv'
  OBVIOUS
<1>1. ASSUME NEW h \in Handlers, NEW k \in Kinds, Begin(h, k) PROVE PoolInv'
  BY <1>1, BeginKeeps
<1>2. ASSUME NEW h \in Handlers, HandlerStep(h) PROVE PoolInv'
  BY <1>2, AskKeeps, ReleaseKeeps, LeaveKeeps, FinishKeeps DEF HandlerStep
<1>3. ASSUME NEW h \in Handlers, Answered(h) PROVE PoolInv'
  BY <1>3, AnsweredKeeps
<1>4. CASE Grant
  BY <1>4, GrantKeeps
<1>5. CASE UNCHANGED vars
  BY <1>5 DEF vars, PoolInv, ShapeOK, QueueOK, HandlerOK, Free, Op, Serving,
              Ended, Queued
<1> QED  BY <1>1, <1>2, <1>3, <1>4, <1>5 DEF Next

LEMMA PoolInvHolds == Spec => []PoolInv
  BY InitPool, NextPool, PTL DEF Spec
-----------------------------------------------------------------------------
(* The theorems *)

(* The pool's bookkeeping holds however many handlers run: no connection   *)
(* is lent twice, lost, or kept by who has finished.                       *)
THEOREM PoolTypeCorrect == Spec => []PoolTypeOK
<1>1. PoolInv => PoolTypeOK
  <2> SUFFICES ASSUME PoolInv PROVE PoolTypeOK
    OBVIOUS
  <2>1. /\ kind \in [Handlers -> Kinds \union {NULL}]
        /\ pos \in [Handlers -> Nat \ {0}]
    BY DEF PoolInv, ShapeOK, HandlerOK
  <2>2. ASSUME NEW h \in held PROVE h \in Handlers /\ Serving(h) /\ ~Ended(h)
    <3>1. h \in Handlers /\ HandlerOK(h)
      BY <2>2 DEF PoolInv, ShapeOK
    <3>2. Serving(h) /\ Inside(kind[h], pos[h]) /\ kind[h] \in Kinds
      BY <2>2, <3>1 DEF HandlerOK, Serving
    <3> QED  BY <3>1, <3>2, ProgramShape DEF Inside, Ended, HandlerOK
  <2>3. \A h \in using : Op(h) = "query" /\ h \notin Queued
    BY DEF PoolInv, ShapeOK, HandlerOK
  <2> QED  BY <2>1, <2>2, <2>3 DEF PoolTypeOK, PoolInv, ShapeOK, QueueOK
<1> QED  BY <1>1, PoolInvHolds, PTL

(* For every size of the pool, it stalls only when at least as many        *)
(* handlers that query the pool inside a transaction are under way as it   *)
(* has connections: bounding those handlers below the pool's size is       *)
(* enough to rule the stall out.                                           *)
THEOREM StallBound == Spec => []StallNeedsNesting
<1>1. PoolInv => StallNeedsNesting
  <2> SUFFICES ASSUME PoolInv, Stalled PROVE Cardinality(Nested) >= PoolSize
    BY DEF StallNeedsNesting
  <2>1. ASSUME NEW h \in held PROVE h \in Nested
    <3>1. h \in Handlers /\ HandlerOK(h) /\ h \in Queued
      BY <2>1 DEF PoolInv, ShapeOK, Stalled
    <3>2. /\ Op(h) \in {"query", "connect"} /\ Serving(h)
          /\ Inside(kind[h], pos[h])
      BY <2>1, <3>1 DEF HandlerOK
    <3>3. kind[h] \in Kinds /\ pos[h] # ReleaseAt[kind[h]]
      BY <3>1, <3>2, OperationFacts
    <3>4. kind[h] \in NestedKinds
      BY <3>1, <3>2, <3>3, ProgramShape DEF Inside, HandlerOK
    <3> QED  BY <3>1, <3>4 DEF Nested
  <2>2. IsFiniteSet(Nested) /\ Nested \subseteq Handlers
    BY PoolAssumption, FS_Subset DEF Nested
  <2>3. Cardinality(held) <= Cardinality(Nested)
    BY <2>1, <2>2, FS_Subset
  <2> QED  BY <2>2, <2>3, PoolAssumption, FS_CardinalityType DEF Stalled
<1> QED  BY <1>1, PoolInvHolds, PTL
=============================================================================
