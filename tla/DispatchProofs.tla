--------------------------- MODULE DispatchProofs ---------------------------
(***************************************************************************)
(* Proofs about Dispatch for any callers, teams, answers and pool sizes.   *)
(*                                                                         *)
(* What the theorems say of one step was settled by earlier steps of       *)
(* several threads, and IInv is what must be remembered in between: which  *)
(* futures are still queued and for whom, which pool a run holds and how   *)
(* it came to be another than the one in force, which futures a run has    *)
(* been told of.                                                           *)
(***************************************************************************)
EXTENDS Dispatch, FiniteSetTheorems, TLAPS

\* A pool has workers enough for what it runs, and the least it may have.
PoolSound ==
  /\ pool.gen > 0 => pool.size >= MinPoolWorkers
  /\ IsFiniteSet(pool.busy)
  /\ Cardinality(pool.busy) <= pool.size

\* Runs yet to come have no futures.
FutureRunsNew ==
  \A t \in Tasks : t[2] > run[t[1]].n => future[t] = "new"

\* What is queued is queued in the pool in force for a run that is under way
\* and has not given up on it.
QueuedHeld ==
  \A t \in Tasks :
    future[t] = "queued" =>
      /\ Awaited(t)
      /\ run[t[1]].gen = pool.gen
      /\ run[t[1]].at = "collect" => t[3] \in run[t[1]].left

\* A future that is finished and still held has its result.
ResultsKept ==
  \A t \in Tasks :
    Awaited(t) /\ future[t] = "finished" => result[t] # None

\* A run that no longer holds the pool in force was displaced by a larger team.
Displaced(c) ==
  \E d \in Callers : Size(d) > Max2(Size(c), MinPoolWorkers)

RunSound(c) ==
  Open(c) =>
    /\ run[c].n \in 1..MaxRuns[c]
    /\ run[c].cycle \in Ids /\ run[c].snapshot \in Snapshots \ Stale
    /\ Size(c) > 0
    /\ run[c].gen \in 1..pool.gen
    /\ run[c].gen = pool.gen => Size(c) <= pool.size
    /\ run[c].gen # pool.gen => Displaced(c)
    /\ run[c].at = "submit" => run[c].next <= Size(c)
    /\ run[c].at # "collect" => run[c].done = {}
    /\ run[c].left \subseteq Members(c)
    /\ run[c].done \subseteq Members(c)
    /\ \A i \in run[c].done : future[Task(c, i)] = "finished"

IInv ==
  /\ TypeOK
  /\ PoolSound
  /\ FutureRunsNew
  /\ QueuedHeld
  /\ ResultsKept
  /\ \A c \in Callers : RunSound(c)
  /\ EveryoneAccountedFor

-----------------------------------------------------------------------------
(* Tasks, sizes, rows                                                      *)

LEMMA TaskShape ==
  \A t \in Tasks :
    /\ t[1] \in Callers /\ t[2] \in 1..MaxRuns[t[1]] /\ t[3] \in Members(t[1])
    /\ t = <<t[1], t[2], t[3]>>
    /\ t[2] \in Nat
<1>1. \A c \in Callers : MaxRuns[c] \in Nat
  BY DispatchConstants
<1> QED
  BY <1>1 DEF Tasks

LEMMA TaskIn ==
  ASSUME NEW c \in Callers, NEW n \in 1..MaxRuns[c], NEW i \in Members(c)
  PROVE  <<c, n, i>> \in Tasks
BY DEF Tasks

LEMMA SizeNat ==
  ASSUME NEW c \in Callers
  PROVE  /\ Size(c) \in Nat
         /\ Team[c] # <<>> => Size(c) > 0
         /\ Team[c] = <<>> => Members(c) = {}
<1>1. Team[c] \in Seq(STRING)
  BY DispatchConstants
<1>2. Size(c) \in Nat /\ (Team[c] # <<>> => Size(c) > 0)
  BY <1>1 DEF Size
<1>3. Team[c] = <<>> => Size(c) = 0
  BY DEF Size
<1> QED
  BY <1>2, <1>3 DEF Members

LEMMA LargerOf ==
  ASSUME NEW x \in Nat, NEW y \in Nat
  PROVE  Max2(x, y) \in Nat /\ Max2(x, y) >= x /\ Max2(x, y) >= y
BY DEF Max2

\* What would be proposed, and what that takes.
LEMMA ProposalMeans ==
  ASSUME NEW rows
  PROVE  /\ Proposal(rows) \in Instruments \cup {None}
         /\ Proposal(rows) # None =>
              /\ \A i \in DOMAIN rows : rows[i].status # "ERROR"
              /\ Voiced(rows) = {Proposal(rows)}
<1>1. CASE /\ \A i \in DOMAIN rows : rows[i].status # "ERROR"
           /\ \E x \in Instruments : Voiced(rows) = {x}
  <2>1. PICK x \in Instruments : Voiced(rows) = {x}
    BY <1>1
  <2>2. Proposal(rows) = CHOOSE y \in Instruments : Voiced(rows) = {y}
    BY <1>1 DEF Proposal
  <2>3. Proposal(rows) \in Instruments /\ Voiced(rows) = {Proposal(rows)}
    BY <2>1, <2>2
  <2> QED
    BY <1>1, <2>3
<1>2. CASE ~ (/\ \A i \in DOMAIN rows : rows[i].status # "ERROR"
              /\ \E x \in Instruments : Voiced(rows) = {x})
  <2>1. Proposal(rows) = None
    BY <1>2 DEF Proposal
  <2> QED
    BY <2>1
<1> QED
  BY <1>1, <1>2

\* A package appended to a sound store.
LEMMA Appended ==
  ASSUME TypeOK, EveryoneAccountedFor, NEW c \in Callers,
         NEW k \in Ids, NEW s \in Snapshots, NEW rows,
         rows \in [Members(c) -> RowType] \cup [{} -> RowType],
         s \notin Stale => DOMAIN rows = Members(c),
         Save(c, Package(k, s, rows))
  PROVE  /\ DOMAIN store' = Callers
         /\ \A x \in Callers : store'[x] \in Seq(PackageType(x))
         /\ EveryoneAccountedFor'
         /\ store'[c][Len(store'[c])] = Package(k, s, rows)
         /\ \A x \in Callers : x # c => store'[x] = store[x]
<1> DEFINE p == Package(k, s, rows)
<1>1. /\ DOMAIN store = Callers
      /\ \A x \in Callers : store[x] \in Seq(PackageType(x))
  BY DEF TypeOK
<1>2. /\ DOMAIN store' = Callers
      /\ store'[c] = Append(store[c], p)
      /\ \A x \in Callers : x # c => store'[x] = store[x]
  BY <1>1 DEF Save
<1>3. p \in PackageType(c)
  BY ProposalMeans DEF Package, PackageType
<1>4. p.snapshot = s /\ p.rows = rows /\ p.proposal = Proposal(rows)
  BY DEF Package
<1>5. p.snapshot \notin Stale =>
        /\ DOMAIN p.rows = Members(c)
        /\ \A i \in Members(c) : p.rows[i].status = "ERROR" => p.proposal = None
  BY <1>4, ProposalMeans
<1> HIDE DEF p
<1>6. /\ store'[c] \in Seq(PackageType(c))
      /\ Len(store'[c]) = Len(store[c]) + 1
      /\ store'[c][Len(store'[c])] = p
      /\ \A j \in DOMAIN store'[c] :
           store'[c][j] = p \/ (j \in DOMAIN store[c] /\ store'[c][j] = store[c][j])
  BY <1>1, <1>2, <1>3
<1>7. EveryoneAccountedFor'
  <2> SUFFICES ASSUME NEW x \in Callers, NEW j \in DOMAIN store'[x],
                      store'[x][j].snapshot \notin Stale
               PROVE  /\ DOMAIN store'[x][j].rows = Members(x)
                      /\ \A i \in Members(x) :
                           store'[x][j].rows[i].status = "ERROR" =>
                             store'[x][j].proposal = None
    BY DEF EveryoneAccountedFor
  <2>1. CASE x = c /\ store'[x][j] = p
    BY <1>5, <2>1
  <2>2. CASE j \in DOMAIN store[x] /\ store'[x][j] = store[x][j]
    BY <2>2 DEF EveryoneAccountedFor
  <2> QED
    BY <1>2, <1>6, <2>1, <2>2
<1> QED
  BY <1>1, <1>2, <1>6, <1>7 DEF p

-----------------------------------------------------------------------------
(* The pool and its workers                                                *)

PoolType == [gen : Nat, size : Nat, queue : Seq(Tasks), busy : SUBSET Tasks]

\* _shared_pool, for a team of c: the same pool or a larger one.
LEMMA SharedPoolStep ==
  ASSUME TypeOK, PoolSound, NEW c \in Callers, SharedPool(Size(c))
  PROVE  /\ pool' \in PoolType /\ PoolSound'
         /\ pool'.gen > 0 /\ Size(c) <= pool'.size
         /\ \/ UNCHANGED <<pool, future>> /\ pool.gen > 0
            \/ /\ pool'.gen = pool.gen + 1
               /\ pool.gen > 0 => Max2(Size(c), MinPoolWorkers) > pool.size
               /\ future' = Cancelled(Queued)
<1> DEFINE size == Max2(Size(c), MinPoolWorkers)
<1>1. /\ Size(c) \in Nat /\ MinPoolWorkers \in Nat /\ pool \in PoolType
      /\ size \in Nat /\ size >= Size(c) /\ size >= MinPoolWorkers
  BY SizeNat, LargerOf, DispatchConstants DEF TypeOK, PoolType
<1>2. pool.gen \in Nat /\ pool.size \in Nat
  BY <1>1 DEF PoolType
<1>3. CASE pool.gen = 0 \/ pool.size < size
  <2>1. pool' = Pool(pool.gen + 1, size) /\ future' = Cancelled(Queued)
    BY <1>3 DEF SharedPool
  <2> HIDE DEF size
  <2>2. /\ pool'.gen = pool.gen + 1 /\ pool'.size = size
        /\ pool'.queue = <<>> /\ pool'.busy = {} /\ pool' \in PoolType
    BY <1>1, <1>2, <2>1 DEF Pool, PoolType
  <2>3. IsFiniteSet({}) /\ Cardinality({}) = 0
    BY FS_EmptySet
  <2>4. PoolSound'
    BY <1>1, <2>2, <2>3 DEF PoolSound
  <2>5. pool.gen > 0 => size > pool.size
    BY <1>1, <1>2, <1>3
  <2> QED
    BY <1>1, <1>2, <2>1, <2>2, <2>4, <2>5 DEF size
<1>4. CASE ~ (pool.gen = 0 \/ pool.size < size)
  <2>1. UNCHANGED <<pool, future>>
    BY <1>4 DEF SharedPool
  <2>2. pool.gen > 0 /\ Size(c) <= pool.size
    BY <1>1, <1>2, <1>4
  <2> QED
    BY <1>1, <2>1, <2>2 DEF PoolSound
<1> QED
  BY <1>3, <1>4

\* A worker starts a task or drops a cancelled one.
LEMMA StartNextStep ==
  ASSUME IInv, StartNext
  PROVE  IInv'
<1> DEFINE t == Head(pool.queue)
           goes == future[t] = "queued"
<1>1. /\ TypeOK /\ PoolSound /\ FutureRunsNew /\ QueuedHeld /\ ResultsKept
      /\ \A c \in Callers : RunSound(c)
      /\ EveryoneAccountedFor
  BY DEF IInv
<1>2. /\ pool.queue # <<>> /\ Cardinality(pool.busy) < pool.size
      /\ pool' = [pool EXCEPT !.queue = Tail(@), !.busy = IF goes THEN @ \cup {t} ELSE @]
      /\ future' = [future EXCEPT ![t] = IF goes THEN "running" ELSE @]
      /\ UNCHANGED <<result, run, store>>
  BY DEF StartNext
<1>3. pool \in PoolType /\ t \in Tasks /\ Tail(pool.queue) \in Seq(Tasks)
  BY <1>1, <1>2 DEF TypeOK, PoolType
<1>4. /\ pool'.gen = pool.gen /\ pool'.size = pool.size
      /\ pool'.busy = IF goes THEN pool.busy \cup {t} ELSE pool.busy
      /\ pool' \in PoolType
  BY <1>2, <1>3 DEF PoolType
<1>5. /\ future' \in [Tasks -> {"new", "queued", "running", "finished", "cancelled"}]
      /\ \A x \in Tasks : x # t => future'[x] = future[x]
      /\ goes => future'[t] = "running"
      /\ ~ goes => future'[t] = future[t]
  BY <1>1, <1>2, <1>3 DEF TypeOK
<1> HIDE DEF t, goes
<1>6. PoolSound'
  <2>1. pool.size \in Nat
    BY <1>3 DEF PoolType
  <2>2. /\ IsFiniteSet(pool.busy \cup {t})
        /\ Cardinality(pool.busy \cup {t}) <= Cardinality(pool.busy) + 1
        /\ Cardinality(pool.busy) \in Nat
    <3>1. IsFiniteSet(pool.busy)
      BY <1>1 DEF PoolSound
    <3>2. /\ IsFiniteSet(pool.busy \cup {t})
          /\ Cardinality(pool.busy \cup {t}) =
               IF t \in pool.busy THEN Cardinality(pool.busy)
                                  ELSE Cardinality(pool.busy) + 1
      BY <3>1, FS_AddElement
    <3>3. Cardinality(pool.busy) \in Nat
      BY <3>1, FS_CardinalityType
    <3> QED
      BY <3>2, <3>3
  <2>3. Cardinality(pool.busy \cup {t}) \in Nat
    BY <2>2, FS_CardinalityType
  <2>4. Cardinality(pool.busy \cup {t}) <= pool.size
    BY <1>2, <2>1, <2>2, <2>3
  <2> QED
    BY <1>1, <1>4, <2>2, <2>4 DEF PoolSound
<1>7. TypeOK'
  BY <1>1, <1>2, <1>4, <1>5 DEF TypeOK, PoolType
<1>8. FutureRunsNew'
  BY <1>1, <1>2, <1>5 DEF FutureRunsNew, goes
<1>9. QueuedHeld'
  BY <1>1, <1>2, <1>4, <1>5 DEF QueuedHeld, Awaited, Open
<1>10. ResultsKept'
  BY <1>1, <1>2, <1>5 DEF ResultsKept, Awaited, Open
<1>11. ASSUME NEW c \in Callers
       PROVE  RunSound(c)'
  <2>1. \A x \in Tasks : future[x] = "finished" => future'[x] = "finished"
    BY <1>5 DEF goes
  <2>2. RunSound(c)
    BY <1>1
  <2>3. Open(c) => \A i \in run[c].done : Task(c, i) \in Tasks
    BY <2>2, TaskIn DEF RunSound, Task
  <2> QED
    BY <1>2, <1>4, <2>1, <2>2, <2>3
    DEF RunSound, Open, Displaced, Task, Size, Members
<1>12. EveryoneAccountedFor'
  BY <1>1, <1>2 DEF EveryoneAccountedFor
<1> QED
  BY <1>6, <1>7, <1>8, <1>9, <1>10, <1>11, <1>12 DEF IInv

\* A worker is done.
LEMMA FinishStep ==
  ASSUME IInv, NEW t \in Tasks, NEW v \in Answers \cup {Raised}, Finish(t, v)
  PROVE  IInv'
<1>1. /\ TypeOK /\ PoolSound /\ FutureRunsNew /\ QueuedHeld /\ ResultsKept
      /\ \A c \in Callers : RunSound(c)
      /\ EveryoneAccountedFor
  BY DEF IInv
<1>2. /\ future[t] = "running"
      /\ future' = [future EXCEPT ![t] = "finished"]
      /\ result' = [result EXCEPT ![t] = IF Awaited(t) THEN v ELSE None]
      /\ pool' = [pool EXCEPT !.busy = @ \ {t}]
      /\ UNCHANGED <<run, store>>
  BY DEF Finish
<1>3. /\ pool \in PoolType /\ pool' \in PoolType
      /\ pool'.gen = pool.gen /\ pool'.size = pool.size
      /\ pool'.busy = pool.busy \ {t}
  BY <1>1, <1>2 DEF TypeOK, PoolType
<1>4. /\ future' \in [Tasks -> {"new", "queued", "running", "finished", "cancelled"}]
      /\ \A x \in Tasks : x # t => future'[x] = future[x]
      /\ future'[t] = "finished"
      /\ result' \in [Tasks -> Answers \cup {Raised, None}]
      /\ \A x \in Tasks : x # t => result'[x] = result[x]
      /\ Awaited(t) => result'[t] = v
  BY <1>1, <1>2 DEF TypeOK
<1>5. v # None
  BY DispatchConstants
<1>6. PoolSound'
  <2>1. IsFiniteSet(pool.busy)
    BY <1>1 DEF PoolSound
  <2>2. IsFiniteSet(pool.busy \ {t}) /\ Cardinality(pool.busy \ {t}) <= Cardinality(pool.busy)
    BY <2>1, FS_Subset
  <2>3. Cardinality(pool.busy \ {t}) \in Nat /\ Cardinality(pool.busy) \in Nat
    BY <2>1, <2>2, FS_CardinalityType
  <2>4. pool.size \in Nat /\ Cardinality(pool.busy) <= pool.size
    BY <1>1, <1>3 DEF PoolType, PoolSound
  <2>5. Cardinality(pool.busy \ {t}) <= pool.size
    BY <2>2, <2>3, <2>4
  <2> QED
    BY <1>1, <1>3, <2>2, <2>5 DEF PoolSound
<1>7. TypeOK'
  BY <1>1, <1>2, <1>3, <1>4 DEF TypeOK, PoolType
<1>8. FutureRunsNew'
  BY <1>1, <1>2, <1>4 DEF FutureRunsNew
<1>9. QueuedHeld'
  BY <1>1, <1>2, <1>3, <1>4 DEF QueuedHeld, Awaited, Open
<1>10. ResultsKept'
  BY <1>1, <1>2, <1>4, <1>5 DEF ResultsKept, Awaited, Open
<1>11. ASSUME NEW c \in Callers
       PROVE  RunSound(c)'
  <2>1. RunSound(c)
    BY <1>1
  <2>2. \A x \in Tasks : future[x] = "finished" => future'[x] = "finished"
    BY <1>4
  <2>3. Open(c) => \A i \in run[c].done : Task(c, i) \in Tasks
    BY <2>1, TaskIn DEF RunSound, Task
  <2> QED
    BY <1>2, <1>3, <2>1, <2>2, <2>3
    DEF RunSound, Open, Displaced, Task, Size, Members
<1>12. EveryoneAccountedFor'
  BY <1>1, <1>2 DEF EveryoneAccountedFor
<1> QED
  BY <1>6, <1>7, <1>8, <1>9, <1>10, <1>11, <1>12 DEF IInv

-----------------------------------------------------------------------------
(* The callers                                                             *)

\* Nothing is queued for a caller that is idle.
LEMMA IdleHasNoneQueued ==
  ASSUME QueuedHeld, NEW c \in Callers, ~ Open(c)
  PROVE  \A t \in Tasks : t[1] = c => future[t] # "queued"
BY DEF QueuedHeld, Awaited

LEMMA NoDispatchStep ==
  ASSUME IInv, NEW c \in Callers, NEW k \in Ids, NEW s \in Snapshots,
         NoDispatch(c, k, s)
  PROVE  IInv'
<1>1. /\ TypeOK /\ PoolSound /\ FutureRunsNew /\ QueuedHeld /\ ResultsKept
      /\ \A x \in Callers : RunSound(x)
      /\ EveryoneAccountedFor
  BY DEF IInv
<1>2. /\ ~ Open(c)
      /\ s \in Stale \/ Team[c] = <<>>
      /\ Save(c, Package(k, s, <<>>))
      /\ run' = [run EXCEPT ![c].n = @ + 1]
      /\ UNCHANGED <<pool, future, result>>
  BY DEF NoDispatch, Begin
<1>3. /\ run \in [Callers -> RunType] /\ run' \in [Callers -> RunType]
      /\ \A x \in Callers : x # c => run'[x] = run[x]
      /\ run'[c].at = "idle" /\ run'[c].n = run[c].n + 1
      /\ run'[c].next = run[c].next /\ run[c].n \in Nat
  <2>1. run \in [Callers -> RunType] /\ run[c] \in RunType
    BY <1>1 DEF TypeOK
  <2>2. run[c].at = "idle" /\ run[c].n \in Nat
    BY <1>2, <2>1 DEF RunType, Open
  <2>3. run' = [run EXCEPT ![c] = [run[c] EXCEPT !.n = run[c].n + 1]]
    BY <1>2
  <2>4. /\ [run[c] EXCEPT !.n = run[c].n + 1] \in RunType
        /\ [run[c] EXCEPT !.n = run[c].n + 1].at = run[c].at
        /\ [run[c] EXCEPT !.n = run[c].n + 1].n = run[c].n + 1
        /\ [run[c] EXCEPT !.n = run[c].n + 1].next = run[c].next
    BY <2>1, <2>2 DEF RunType
  <2> QED
    BY <2>1, <2>2, <2>3, <2>4
<1>4. /\ <<>> \in [{} -> RowType]
      /\ s \notin Stale => DOMAIN <<>> = Members(c)
  BY <1>2, SizeNat
<1>5. /\ DOMAIN store' = Callers
      /\ \A x \in Callers : store'[x] \in Seq(PackageType(x))
      /\ EveryoneAccountedFor'
  BY <1>1, <1>2, <1>4, Appended
<1>6. TypeOK'
  BY <1>1, <1>2, <1>3, <1>5 DEF TypeOK
<1>7. PoolSound'
  BY <1>1, <1>2 DEF PoolSound
<1>8. FutureRunsNew'
  <2>1. \A t \in Tasks : run'[t[1]].n >= run[t[1]].n
                        /\ run'[t[1]].n \in Nat /\ run[t[1]].n \in Nat
                        /\ t[2] \in Nat
    <3> SUFFICES ASSUME NEW t \in Tasks
                 PROVE  /\ run'[t[1]].n >= run[t[1]].n
                        /\ run'[t[1]].n \in Nat /\ run[t[1]].n \in Nat
                        /\ t[2] \in Nat
      OBVIOUS
    <3>1. t[1] \in Callers /\ t[2] \in Nat
      BY TaskShape
    <3>2. run[t[1]] \in RunType
      BY <1>3, <3>1
    <3>3. run[t[1]].n \in Nat
      BY <3>2 DEF RunType
    <3> QED
      BY <1>3, <3>1, <3>3
  <2>2. \A t \in Tasks : t[2] > run'[t[1]].n => t[2] > run[t[1]].n
    BY <2>1
  <2> QED
    BY <1>1, <1>2, <2>2 DEF FutureRunsNew
<1>9. QueuedHeld'
  BY <1>1, <1>2, <1>3, IdleHasNoneQueued, TaskShape DEF QueuedHeld, Awaited, Open
<1>10. ResultsKept'
  BY <1>1, <1>2, <1>3, TaskShape DEF ResultsKept, Awaited, Open
<1>11. ASSUME NEW x \in Callers
       PROVE  RunSound(x)'
  <2>1. CASE x = c
    BY <1>3, <2>1 DEF RunSound, Open
  <2>2. CASE x # c
    <3>1. RunSound(x) /\ run'[x] = run[x]
      BY <1>1, <1>3, <2>2
    <3> QED
      BY <1>2, <3>1 DEF RunSound, Open, Displaced, Task, Size, Members
  <2> QED
    BY <2>1, <2>2
<1> QED
  BY <1>5, <1>6, <1>7, <1>8, <1>9, <1>10, <1>11 DEF IInv

LEMMA StartDispatchStep ==
  ASSUME IInv, NEW c \in Callers, NEW k \in Ids, NEW s \in Snapshots,
         StartDispatch(c, k, s)
  PROVE  IInv'
<1> DEFINE r == At("submit", run[c].n + 1, k, s, pool'.gen)
<1>1. /\ TypeOK /\ PoolSound /\ FutureRunsNew /\ QueuedHeld /\ ResultsKept
      /\ \A x \in Callers : RunSound(x)
      /\ EveryoneAccountedFor
  BY DEF IInv
<1>2. /\ ~ Open(c) /\ run[c].n < MaxRuns[c]
      /\ s \notin Stale /\ Team[c] # <<>>
      /\ SharedPool(Size(c))
      /\ run' = [run EXCEPT ![c] = r]
      /\ UNCHANGED <<result, store>>
  BY DEF StartDispatch, Begin
<1>3. /\ pool' \in PoolType /\ PoolSound'
      /\ pool'.gen > 0 /\ Size(c) <= pool'.size
      /\ \/ UNCHANGED <<pool, future>> /\ pool.gen > 0
         \/ /\ pool'.gen = pool.gen + 1
            /\ pool.gen > 0 => Max2(Size(c), MinPoolWorkers) > pool.size
            /\ future' = Cancelled(Queued)
  BY <1>1, <1>2, SharedPoolStep
<1>4. /\ run \in [Callers -> RunType] /\ run[c] \in RunType
      /\ run[c].n \in Nat /\ pool'.gen \in Nat /\ pool.gen \in Nat
      /\ MaxRuns[c] \in Nat /\ Size(c) \in Nat /\ Size(c) > 0
  BY <1>1, <1>2, <1>3, SizeNat, DispatchConstants DEF TypeOK, RunType, PoolType
<1>5. /\ r \in RunType /\ r.at = "submit" /\ r.n = run[c].n + 1
      /\ r.cycle = k /\ r.snapshot = s /\ r.gen = pool'.gen
      /\ r.next = 1 /\ r.done = {} /\ r.left = {}
  <2>1. run[c].n + 1 \in Nat
    BY <1>4
  <2> QED
    BY <1>4, <2>1 DEF At, RunType
<1> HIDE DEF r
<1>6. /\ run' \in [Callers -> RunType] /\ run'[c] = r
      /\ \A x \in Callers : x # c => run'[x] = run[x]
  BY <1>2, <1>4, <1>5
<1>7. /\ future' \in [Tasks -> {"new", "queued", "running", "finished", "cancelled"}]
      /\ \A t \in Tasks :
           /\ future'[t] = "queued" => future[t] = "queued" /\ UNCHANGED <<pool, future>>
           /\ future'[t] = "finished" <=> future[t] = "finished"
           /\ future[t] = "new" => future'[t] = "new"
  BY <1>1, <1>3 DEF TypeOK, Cancelled, Queued
<1>8. TypeOK'
  BY <1>1, <1>2, <1>3, <1>4, <1>5, <1>6, <1>7 DEF TypeOK, PoolType
<1>9. FutureRunsNew'
  <2> SUFFICES ASSUME NEW t \in Tasks, t[2] > run'[t[1]].n
               PROVE  future'[t] = "new"
    BY DEF FutureRunsNew
  <2>1. t[1] \in Callers /\ t[2] \in Nat
    BY TaskShape
  <2>2. t[2] > run[t[1]].n
    BY <1>4, <1>5, <1>6, <2>1
  <2> QED
    BY <1>1, <1>7, <2>2 DEF FutureRunsNew
<1>10. QueuedHeld'
  <2> SUFFICES ASSUME NEW t \in Tasks, future'[t] = "queued"
               PROVE  /\ Awaited(t)'
                      /\ run'[t[1]].gen = pool'.gen
                      /\ run'[t[1]].at = "collect" => t[3] \in run'[t[1]].left
    BY DEF QueuedHeld
  <2>1. future[t] = "queued" /\ UNCHANGED pool
    BY <1>7
  <2>2. t[1] \in Callers /\ t[1] # c
    BY <1>1, <1>2, <2>1, TaskShape, IdleHasNoneQueued
  <2> QED
    BY <1>1, <1>6, <2>1, <2>2 DEF QueuedHeld, Awaited, Open
<1>11. ResultsKept'
  <2> SUFFICES ASSUME NEW t \in Tasks, Awaited(t)', future'[t] = "finished"
               PROVE  result'[t] # None
    BY DEF ResultsKept
  <2>1. t[1] \in Callers /\ t[2] \in Nat /\ future[t] = "finished"
    BY <1>7, TaskShape
  <2>2. CASE t[1] = c
    <3>1. t[2] = run[c].n + 1
      BY <1>5, <1>6, <2>2 DEF Awaited
    <3>2. future[t] = "new"
      BY <1>1, <1>4, <2>1, <2>2, <3>1 DEF FutureRunsNew
    <3> QED
      BY <2>1, <3>2
  <2>3. CASE t[1] # c
    BY <1>1, <1>2, <1>6, <2>1, <2>3 DEF ResultsKept, Awaited, Open
  <2> QED
    BY <2>2, <2>3
<1>12. ASSUME NEW x \in Callers
       PROVE  RunSound(x)'
  <2>1. CASE x = c
    <3>1. run[c].n + 1 \in 1..MaxRuns[c] /\ pool'.gen \in 1..pool'.gen
      BY <1>2, <1>3, <1>4
    <3>2. 1 <= Size(c)
      BY <1>4
    <3> QED
      BY <1>2, <1>3, <1>4, <1>5, <1>6, <2>1, <3>1, <3>2 DEF RunSound
  <2>2. CASE x # c
    <3> SUFFICES ASSUME Open(x)'
                 PROVE  RunSound(x)'
      BY DEF RunSound
    <3>1. Open(x) /\ RunSound(x) /\ run'[x] = run[x]
      BY <1>1, <1>6, <2>2 DEF Open
    <3>2. \A i \in run[x].done : Task(x, i) \in Tasks /\ future'[Task(x, i)] = "finished"
      BY <1>7, <3>1, TaskIn DEF RunSound, Task
    <3>3. CASE UNCHANGED pool
      BY <3>1, <3>2, <3>3 DEF RunSound, Open, Displaced, Task, Size, Members
    <3>4. CASE /\ pool'.gen = pool.gen + 1
               /\ pool.gen > 0 => Max2(Size(c), MinPoolWorkers) > pool.size
      <4>1. run[x].gen \in 1..pool.gen
        BY <3>1 DEF RunSound
      <4>2. pool.gen > 0 /\ run[x].gen \in 1..pool'.gen /\ run[x].gen # pool'.gen
        BY <1>4, <3>4, <4>1
      <4>3. Displaced(x)
        <5>1. CASE run[x].gen # pool.gen
          BY <3>1, <5>1 DEF RunSound
        <5>2. CASE run[x].gen = pool.gen
          <6>1. /\ Size(x) \in Nat /\ MinPoolWorkers \in Nat /\ pool.size \in Nat
            BY <1>1, SizeNat, DispatchConstants DEF TypeOK
          <6>2. Size(x) <= pool.size /\ MinPoolWorkers <= pool.size
            BY <1>1, <3>1, <4>2, <5>2, <6>1 DEF RunSound, PoolSound
          <6>3. Max2(Size(c), MinPoolWorkers) > pool.size
            BY <3>4, <4>2
          <6>4. Max2(Size(c), MinPoolWorkers) = Size(c)
            BY <1>4, <6>1, <6>2, <6>3 DEF Max2
          <6>5. Size(c) > Max2(Size(x), MinPoolWorkers)
            BY <1>4, <6>1, <6>2, <6>3, <6>4 DEF Max2
          <6> QED
            BY <6>5 DEF Displaced
        <5> QED
          BY <5>1, <5>2
      <4> QED
        BY <3>1, <3>2, <4>2, <4>3 DEF RunSound, Open, Displaced, Task, Size, Members
    <3> QED
      BY <1>3, <3>3, <3>4
  <2> QED
    BY <2>1, <2>2
<1>13. EveryoneAccountedFor'
  BY <1>1, <1>2 DEF EveryoneAccountedFor
<1> QED
  BY <1>3, <1>8, <1>9, <1>10, <1>11, <1>12, <1>13 DEF IInv

LEMMA SubmitStep ==
  ASSUME IInv, NEW c \in Callers, Submit(c)
  PROVE  IInv'
<1> DEFINE t == Task(c, run[c].next)
           r == [run[c] EXCEPT !.next = @ + 1,
                               !.at = IF run[c].next = Size(c) THEN "wait" ELSE @]
<1>1. /\ TypeOK /\ PoolSound /\ FutureRunsNew /\ QueuedHeld /\ ResultsKept
      /\ \A x \in Callers : RunSound(x)
      /\ EveryoneAccountedFor
  BY DEF IInv
<1>2. /\ run[c].at = "submit" /\ run[c].gen = pool.gen
      /\ pool' = [pool EXCEPT !.queue = Append(@, t)]
      /\ future' = [future EXCEPT ![t] = "queued"]
      /\ run' = [run EXCEPT ![c] = r]
      /\ UNCHANGED <<result, store>>
  BY DEF Submit
<1>3. /\ Open(c) /\ RunSound(c) /\ run[c].next \in 1..(Size(c) + 1)
      /\ run[c] \in RunType /\ run \in [Callers -> RunType]
      /\ pool \in PoolType /\ Size(c) \in Nat
  BY <1>1, <1>2, SizeNat DEF Open, TypeOK, PoolType
<1>4. /\ run[c].n \in 1..MaxRuns[c] /\ run[c].next \in Members(c)
      /\ run[c].next \in Nat /\ run[c].done = {}
  BY <1>2, <1>3 DEF RunSound, Members
<1>5. t \in Tasks /\ t[1] = c /\ t[2] = run[c].n
  BY <1>4, TaskIn DEF Task
<1>6. /\ r \in RunType
      /\ r.next = run[c].next + 1
      /\ r.at = IF run[c].next = Size(c) THEN "wait" ELSE "submit"
      /\ r.n = run[c].n /\ r.cycle = run[c].cycle /\ r.snapshot = run[c].snapshot
      /\ r.gen = run[c].gen /\ r.done = run[c].done /\ r.left = run[c].left
  <2> DEFINE r1 == [run[c] EXCEPT !.next = run[c].next + 1]
             at == IF run[c].next = Size(c) THEN "wait" ELSE "submit"
  <2>1. /\ r1 \in RunType /\ r1.next = run[c].next + 1 /\ r1.at = "submit"
        /\ r1.n = run[c].n /\ r1.cycle = run[c].cycle /\ r1.snapshot = run[c].snapshot
        /\ r1.gen = run[c].gen /\ r1.done = run[c].done /\ r1.left = run[c].left
    <3> HIDE DEF t, r
    <3>1. run[c].next + 1 \in Nat /\ run[c] \in RunType
      BY <1>3, <1>4
    <3> QED
      BY <1>2, <3>1 DEF RunType
  <2>2. r = [r1 EXCEPT !.at = at]
    BY <1>2
  <2>3. at \in {"submit", "wait"}
    OBVIOUS
  <2> HIDE DEF r1, r, at
  <2>4. /\ r \in RunType /\ r.next = r1.next /\ r.at = at
        /\ r.n = r1.n /\ r.cycle = r1.cycle /\ r.snapshot = r1.snapshot
        /\ r.gen = r1.gen /\ r.done = r1.done /\ r.left = r1.left
    BY <2>1, <2>2, <2>3 DEF RunType
  <2> QED
    BY <2>1, <2>4 DEF at
<1>7. /\ pool' \in PoolType /\ pool'.gen = pool.gen /\ pool'.size = pool.size
      /\ pool'.busy = pool.busy
  <2> HIDE DEF t
  <2>1. Append(pool.queue, t) \in Seq(Tasks)
    BY <1>3, <1>5 DEF PoolType
  <2> QED
    BY <1>2, <1>3, <2>1 DEF PoolType
<1> HIDE DEF t, r
<1>8. /\ run' \in [Callers -> RunType] /\ run'[c] = r
      /\ \A x \in Callers : x # c => run'[x] = run[x]
      /\ future' \in [Tasks -> {"new", "queued", "running", "finished", "cancelled"}]
      /\ future'[t] = "queued" /\ \A x \in Tasks : x # t => future'[x] = future[x]
  BY <1>1, <1>2, <1>3, <1>5, <1>6 DEF TypeOK
<1>9. TypeOK'
  <2>1. run'[c].next \in 1..(Size(c) + 1)
    BY <1>3, <1>4, <1>6, <1>8 DEF Members
  <2> QED
    BY <1>1, <1>2, <1>7, <1>8, <2>1 DEF TypeOK, PoolType
<1>10. PoolSound'
  BY <1>1, <1>7 DEF PoolSound
<1>11. \A x \in Callers : run'[x].n = run[x].n /\ run'[x].gen = run[x].gen
                         /\ (Open(x)' <=> Open(x))
  BY <1>3, <1>6, <1>8 DEF Open
<1>12. FutureRunsNew'
  <2> SUFFICES ASSUME NEW x \in Tasks, x[2] > run'[x[1]].n
               PROVE  future'[x] = "new"
    BY DEF FutureRunsNew
  <2>1. x[1] \in Callers /\ x[2] > run[x[1]].n
    BY <1>11, TaskShape
  <2>2. x # t
    BY <1>3, <1>5, <2>1 DEF RunType
  <2> QED
    BY <1>1, <1>8, <2>1, <2>2 DEF FutureRunsNew
<1>13. QueuedHeld'
  <2> SUFFICES ASSUME NEW x \in Tasks, future'[x] = "queued"
               PROVE  /\ Awaited(x)'
                      /\ run'[x[1]].gen = pool'.gen
                      /\ run'[x[1]].at = "collect" => x[3] \in run'[x[1]].left
    BY DEF QueuedHeld
  <2>1. CASE x = t
    BY <1>2, <1>3, <1>5, <1>6, <1>7, <1>8, <1>11, <2>1 DEF Awaited
  <2>2. CASE x # t
    <3>1. x[1] \in Callers /\ future[x] = "queued"
      BY <1>8, <2>2, TaskShape
    <3>2. /\ Awaited(x) /\ run[x[1]].gen = pool.gen
          /\ run[x[1]].at = "collect" => x[3] \in run[x[1]].left
      BY <1>1, <3>1 DEF QueuedHeld
    <3>3. run'[x[1]].at = "collect" => run'[x[1]] = run[x[1]]
      BY <1>6, <1>8, <3>1
    <3> QED
      BY <1>7, <1>11, <3>1, <3>2, <3>3 DEF Awaited
  <2> QED
    BY <2>1, <2>2
<1>14. ResultsKept'
  BY <1>1, <1>2, <1>8, <1>11, TaskShape DEF ResultsKept, Awaited
<1>15. ASSUME NEW x \in Callers
       PROVE  RunSound(x)'
  <2>1. CASE x = c
    <3>1. r.at = "submit" => r.next <= Size(c)
      BY <1>3, <1>4, <1>6 DEF Members
    <3> QED
      BY <1>3, <1>4, <1>6, <1>7, <1>8, <2>1, <3>1
      DEF RunSound, Displaced, Size, Members
  <2>2. CASE x # c
    <3> SUFFICES ASSUME Open(x)'
                 PROVE  RunSound(x)'
      BY DEF RunSound
    <3>1. Open(x) /\ RunSound(x) /\ run'[x] = run[x]
      BY <1>1, <1>8, <1>11, <2>2
    <3>2. \A i \in run[x].done : Task(x, i) \in Tasks /\ Task(x, i) # t
      BY <1>5, <2>2, <3>1, TaskIn DEF RunSound, Task
    <3> QED
      BY <1>7, <1>8, <3>1, <3>2 DEF RunSound, Open, Displaced, Task, Size, Members
  <2> QED
    BY <2>1, <2>2
<1>16. EveryoneAccountedFor'
  BY <1>1, <1>2 DEF EveryoneAccountedFor
<1> QED
  BY <1>9, <1>10, <1>12, <1>13, <1>14, <1>15, <1>16 DEF IInv

\* A run ends with nothing queued for it.
LEMMA RunCloses ==
  ASSUME IInv, NEW c \in Callers, Open(c),
         run' = [run EXCEPT ![c] = Idle(@.n)], Drop(c), UNCHANGED <<pool, future>>,
         \A t \in Tasks : t[1] = c => future[t] # "queued"
  PROVE  /\ run' \in [Callers -> RunType]
         /\ \A x \in Callers : run'[x].next \in 1..(Size(x) + 1)
         /\ result' \in [Tasks -> Answers \cup {Raised, None}]
         /\ PoolSound' /\ FutureRunsNew' /\ QueuedHeld' /\ ResultsKept'
         /\ \A x \in Callers : RunSound(x)'
<1>1. /\ TypeOK /\ PoolSound /\ FutureRunsNew /\ QueuedHeld /\ ResultsKept
      /\ \A x \in Callers : RunSound(x)
  BY DEF IInv
<1>2. /\ run \in [Callers -> RunType] /\ run[c] \in RunType /\ run[c].n \in Nat
      /\ Size(c) \in Nat
      /\ \A x \in Callers : run[x].next \in 1..(Size(x) + 1)
  BY <1>1, SizeNat DEF TypeOK, RunType
<1>3. /\ Idle(run[c].n) \in RunType /\ Idle(run[c].n).at = "idle"
      /\ Idle(run[c].n).n = run[c].n /\ Idle(run[c].n).next = 1
  BY <1>2 DEF Idle, At, RunType
<1>4. /\ run' \in [Callers -> RunType] /\ run'[c] = Idle(run[c].n)
      /\ \A x \in Callers : x # c => run'[x] = run[x]
  BY <1>2, <1>3
<1>5. /\ result' \in [Tasks -> Answers \cup {Raised, None}]
      /\ \A t \in Tasks : t[1] # c => result'[t] = result[t]
  BY <1>1 DEF TypeOK, Drop
<1>6. ~ Open(c)' /\ \A x \in Callers : run'[x].n = run[x].n
  BY <1>3, <1>4 DEF Open
<1>7. \A x \in Callers : run'[x].next \in 1..(Size(x) + 1)
  BY <1>2, <1>3, <1>4
<1>8. FutureRunsNew'
  BY <1>1, <1>6, TaskShape DEF FutureRunsNew
<1>9. QueuedHeld'
  BY <1>1, <1>4, TaskShape DEF QueuedHeld, Awaited, Open
<1>10. ResultsKept'
  BY <1>1, <1>4, <1>5, <1>6, TaskShape DEF ResultsKept, Awaited, Open
<1>11. ASSUME NEW x \in Callers
       PROVE  RunSound(x)'
  <2>1. CASE x = c
    BY <1>6, <2>1 DEF RunSound
  <2>2. CASE x # c
    <3>1. RunSound(x) /\ run'[x] = run[x]
      BY <1>1, <1>4, <2>2
    <3> QED
      BY <3>1 DEF RunSound, Open, Displaced, Task, Size, Members
  <2> QED
    BY <2>1, <2>2
<1> QED
  BY <1>1, <1>4, <1>5, <1>7, <1>8, <1>9, <1>10, <1>11 DEF PoolSound

LEMMA SubmitRaisesStep ==
  ASSUME IInv, NEW c \in Callers, SubmitRaises(c)
  PROVE  IInv'
<1>1. /\ TypeOK /\ QueuedHeld /\ EveryoneAccountedFor
  BY DEF IInv
<1>2. /\ run[c].at = "submit" /\ run[c].gen # pool.gen
      /\ run' = [run EXCEPT ![c] = Idle(@.n)] /\ Drop(c)
      /\ UNCHANGED <<pool, future, store>>
  BY DEF SubmitRaises
<1>3. Open(c) /\ \A t \in Tasks : t[1] = c => future[t] # "queued"
  BY <1>1, <1>2 DEF QueuedHeld, Open
<1> QED
  BY <1>1, <1>2, <1>3, RunCloses DEF IInv, TypeOK, EveryoneAccountedFor

\* What is reported of a specialist is a row.
LEMMA RowsTyped ==
  ASSUME IInv, NEW c \in Callers, Open(c)
  PROVE  Rows(c) \in [Members(c) -> RowType]
<1>1. TypeOK /\ ResultsKept /\ RunSound(c)
  BY DEF IInv
<1> SUFFICES ASSUME NEW i \in Members(c)
             PROVE  RowOf(c, i) \in RowType
  BY DEF Rows
<1>2. Rejected \in RowType /\ Unavailable \in RowType
  BY DEF Rejected, Unavailable, Row, RowType, Statuses
<1>3. CASE i \notin run[c].done \/ result[Task(c, i)] = Raised
  BY <1>2, <1>3 DEF RowOf
<1>4. CASE i \in run[c].done /\ result[Task(c, i)] # Raised
  <2>1. /\ Task(c, i) \in Tasks /\ future[Task(c, i)] = "finished"
    BY <1>1, <1>4, TaskIn DEF RunSound, Task
  <2>2. Awaited(Task(c, i))
    BY DEF Awaited, Task
  <2>3. result[Task(c, i)] \in Answers
    BY <1>1, <1>4, <2>1, <2>2 DEF TypeOK, ResultsKept
  <2>4. result[Task(c, i)] \in AnswerType
    BY <2>3, DispatchConstants
  <2>5. Row(result[Task(c, i)].status, result[Task(c, i)].instrument) \in RowType
    BY <2>4 DEF AnswerType, Row, RowType, Statuses
  <2> QED
    BY <1>2, <1>4, <2>5 DEF RowOf, Judged
<1> QED
  BY <1>3, <1>4

LEMMA ReportStep ==
  ASSUME IInv, NEW c \in Callers, Report(c)
  PROVE  /\ IInv'
         /\ store'[c][Len(store'[c])] =
              Package(run[c].cycle, run[c].snapshot, Rows(c))
         /\ \A x \in Callers : x # c => store'[x] = store[x]
<1>1. /\ TypeOK /\ QueuedHeld /\ EveryoneAccountedFor /\ RunSound(c)
  BY DEF IInv
<1>2. /\ run[c].at = "collect" /\ run[c].left = {}
      /\ Save(c, Package(run[c].cycle, run[c].snapshot, Rows(c)))
      /\ run' = [run EXCEPT ![c] = Idle(@.n)] /\ Drop(c)
      /\ UNCHANGED <<pool, future>>
  BY DEF Report
<1>3. Open(c) /\ \A t \in Tasks : t[1] = c => future[t] # "queued"
  BY <1>1, <1>2 DEF QueuedHeld, Open
<1>4. run[c].cycle \in Ids /\ run[c].snapshot \in Snapshots
  BY <1>1, <1>3 DEF RunSound
<1>5. Rows(c) \in [Members(c) -> RowType] /\ DOMAIN Rows(c) = Members(c)
  BY <1>3, RowsTyped DEF Rows
<1>6. /\ DOMAIN store' = Callers
      /\ \A x \in Callers : store'[x] \in Seq(PackageType(x))
      /\ EveryoneAccountedFor'
      /\ store'[c][Len(store'[c])] =
           Package(run[c].cycle, run[c].snapshot, Rows(c))
      /\ \A x \in Callers : x # c => store'[x] = store[x]
  BY <1>1, <1>2, <1>4, <1>5, Appended
<1>7. /\ run' \in [Callers -> RunType]
      /\ \A x \in Callers : run'[x].next \in 1..(Size(x) + 1)
      /\ result' \in [Tasks -> Answers \cup {Raised, None}]
      /\ PoolSound' /\ FutureRunsNew' /\ QueuedHeld' /\ ResultsKept'
      /\ \A x \in Callers : RunSound(x)'
  BY <1>2, <1>3, RunCloses
<1>8. TypeOK'
  BY <1>1, <1>2, <1>6, <1>7 DEF TypeOK
<1> QED
  BY <1>6, <1>7, <1>8 DEF IInv

\* wait returns.
LEMMA WaitOverStep ==
  ASSUME IInv, NEW c \in Callers, run[c].at = "wait", WaitOver(c)
  PROVE  IInv'
<1> DEFINE r1 == [run[c] EXCEPT !.at = "collect"]
           r2 == [r1 EXCEPT !.done = Finished(c)]
           r == [r2 EXCEPT !.left = Members(c) \ Finished(c)]
<1>1. /\ TypeOK /\ PoolSound /\ FutureRunsNew /\ QueuedHeld /\ ResultsKept
      /\ \A x \in Callers : RunSound(x)
      /\ EveryoneAccountedFor
  BY DEF IInv
<1>2. /\ run' = [run EXCEPT ![c] = r]
      /\ UNCHANGED <<pool, future, result, store>>
  BY DEF WaitOver
<1>3. /\ run \in [Callers -> RunType] /\ run[c] \in RunType
      /\ Open(c) /\ RunSound(c) /\ Size(c) \in Nat
      /\ run[c].next \in 1..(Size(c) + 1)
  BY <1>1, SizeNat DEF TypeOK, Open
<1>4. /\ Finished(c) \subseteq Members(c) /\ Members(c) \in SUBSET Nat
      /\ \A i \in Finished(c) : future[Task(c, i)] = "finished"
  BY <1>3 DEF Finished, Members
<1>5. /\ r \in RunType /\ r.at = "collect"
      /\ r.done = Finished(c) /\ r.left = Members(c) \ Finished(c)
      /\ r.n = run[c].n /\ r.cycle = run[c].cycle /\ r.snapshot = run[c].snapshot
      /\ r.gen = run[c].gen /\ r.next = run[c].next
  <2>1. r1 \in RunType /\ r1.at = "collect"
    BY <1>3 DEF RunType
  <2> QED
    BY <1>3, <1>4, <2>1 DEF RunType
<1> HIDE DEF r, r1, r2
<1>6. /\ run' \in [Callers -> RunType] /\ run'[c] = r
      /\ \A x \in Callers : x # c => run'[x] = run[x]
  BY <1>2, <1>3, <1>5
<1>7. \A x \in Callers : run'[x].n = run[x].n /\ run'[x].gen = run[x].gen
                        /\ (Open(x)' <=> Open(x))
  BY <1>3, <1>5, <1>6 DEF Open
<1>8. TypeOK'
  BY <1>1, <1>2, <1>3, <1>5, <1>6 DEF TypeOK
<1>9. FutureRunsNew'
  BY <1>1, <1>2, <1>7, TaskShape DEF FutureRunsNew
<1>10. QueuedHeld'
  <2> SUFFICES ASSUME NEW t \in Tasks, future[t] = "queued"
               PROVE  /\ Awaited(t)'
                      /\ run'[t[1]].gen = pool.gen
                      /\ run'[t[1]].at = "collect" => t[3] \in run'[t[1]].left
    BY <1>2 DEF QueuedHeld
  <2>1. /\ t[1] \in Callers /\ t[3] \in Members(t[1]) /\ t = <<t[1], t[2], t[3]>>
        /\ Awaited(t) /\ run[t[1]].gen = pool.gen
        /\ run[t[1]].at = "collect" => t[3] \in run[t[1]].left
    BY <1>1, TaskShape DEF QueuedHeld
  <2>2. CASE t[1] = c
    <3>1. t = Task(c, t[3])
      BY <2>1, <2>2 DEF Awaited, Task
    <3>2. t[3] \in r.left
      BY <1>5, <2>1, <2>2, <3>1 DEF Finished
    <3> QED
      BY <1>6, <1>7, <2>1, <2>2, <3>2 DEF Awaited
  <2>3. CASE t[1] # c
    BY <1>6, <1>7, <2>1, <2>3 DEF Awaited
  <2> QED
    BY <2>2, <2>3
<1>11. ResultsKept'
  BY <1>1, <1>2, <1>7, TaskShape DEF ResultsKept, Awaited
<1>12. ASSUME NEW x \in Callers
       PROVE  RunSound(x)'
  <2>1. CASE x = c
    BY <1>2, <1>3, <1>4, <1>5, <1>6, <2>1
    DEF RunSound, Displaced, Task, Size, Members
  <2>2. CASE x # c
    <3>1. RunSound(x) /\ run'[x] = run[x]
      BY <1>1, <1>6, <2>2
    <3> QED
      BY <1>2, <3>1 DEF RunSound, Open, Displaced, Task, Size, Members
  <2> QED
    BY <2>1, <2>2
<1> QED
  BY <1>1, <1>2, <1>8, <1>9, <1>10, <1>11, <1>12
  DEF IInv, PoolSound, EveryoneAccountedFor

\* A pending future is cancelled, if it can be.
LEMMA GiveUpStep ==
  ASSUME IInv, NEW c \in Callers, NEW i \in run[c].left, GiveUp(c, i)
  PROVE  IInv'
<1> DEFINE t == Task(c, i)
           r == [run[c] EXCEPT !.left = @ \ {i}]
<1>1. /\ TypeOK /\ PoolSound /\ FutureRunsNew /\ QueuedHeld /\ ResultsKept
      /\ \A x \in Callers : RunSound(x)
      /\ EveryoneAccountedFor
  BY DEF IInv
<1>2. /\ run[c].at = "collect"
      /\ run' = [run EXCEPT ![c] = r]
      /\ future' = [future EXCEPT ![t] = IF @ = "queued" THEN "cancelled" ELSE @]
      /\ UNCHANGED <<pool, result, store>>
  BY DEF GiveUp
<1>3. /\ run \in [Callers -> RunType] /\ run[c] \in RunType
      /\ Open(c) /\ RunSound(c)
      /\ run[c].next \in 1..(Size(c) + 1)
  BY <1>1, <1>2 DEF TypeOK, Open
<1>4. t \in Tasks /\ t[1] = c /\ t[2] = run[c].n /\ t[3] = i
  BY <1>3, TaskIn DEF RunSound, Task
<1>5. /\ r \in RunType /\ r.at = "collect"
      /\ r.done = run[c].done /\ r.left = run[c].left \ {i}
      /\ r.n = run[c].n /\ r.cycle = run[c].cycle /\ r.snapshot = run[c].snapshot
      /\ r.gen = run[c].gen /\ r.next = run[c].next
  BY <1>2, <1>3 DEF RunType
<1> HIDE DEF r
<1>6. /\ run' \in [Callers -> RunType] /\ run'[c] = r
      /\ \A x \in Callers : x # c => run'[x] = run[x]
  BY <1>2, <1>3, <1>5
<1>7. \A x \in Callers : run'[x].n = run[x].n /\ run'[x].gen = run[x].gen
                        /\ (Open(x)' <=> Open(x))
  BY <1>3, <1>5, <1>6 DEF Open
<1> HIDE DEF t
<1>8. /\ future' \in [Tasks -> {"new", "queued", "running", "finished", "cancelled"}]
      /\ future'[t] = IF future[t] = "queued" THEN "cancelled" ELSE future[t]
      /\ \A x \in Tasks : x # t => future'[x] = future[x]
  BY <1>1, <1>2, <1>4 DEF TypeOK
<1>9. \A x \in Tasks :
        /\ future'[x] = "queued" => future[x] = "queued" /\ x # t
        /\ future'[x] = "finished" <=> future[x] = "finished"
        /\ future[x] = "new" => future'[x] = "new"
  BY <1>8
<1>10. TypeOK'
  BY <1>1, <1>2, <1>3, <1>5, <1>6, <1>8 DEF TypeOK
<1>11. FutureRunsNew'
  BY <1>1, <1>7, <1>9, TaskShape DEF FutureRunsNew
<1>12. QueuedHeld'
  <2> SUFFICES ASSUME NEW x \in Tasks, future'[x] = "queued"
               PROVE  /\ Awaited(x)'
                      /\ run'[x[1]].gen = pool.gen
                      /\ run'[x[1]].at = "collect" => x[3] \in run'[x[1]].left
    BY <1>2 DEF QueuedHeld
  <2>1. /\ x[1] \in Callers /\ x = <<x[1], x[2], x[3]>> /\ x # t
        /\ Awaited(x) /\ run[x[1]].gen = pool.gen
        /\ run[x[1]].at = "collect" => x[3] \in run[x[1]].left
    BY <1>1, <1>9, TaskShape DEF QueuedHeld
  <2>2. CASE x[1] = c
    <3>1. x[3] # i
      BY <2>1, <2>2 DEF Awaited, Task, t
    <3>2. x[3] \in r.left
      BY <1>2, <1>5, <2>1, <2>2, <3>1
    <3> QED
      BY <1>6, <1>7, <2>1, <2>2, <3>2 DEF Awaited
  <2>3. CASE x[1] # c
    BY <1>6, <1>7, <2>1, <2>3 DEF Awaited
  <2> QED
    BY <2>2, <2>3
<1>13. ResultsKept'
  BY <1>1, <1>2, <1>7, <1>9, TaskShape DEF ResultsKept, Awaited
<1>14. ASSUME NEW x \in Callers
       PROVE  RunSound(x)'
  <2> SUFFICES ASSUME Open(x)'
               PROVE  RunSound(x)'
    BY DEF RunSound
  <2>1. Open(x) /\ RunSound(x)
    BY <1>1, <1>7
  <2>2. \A j \in run[x].done : Task(x, j) \in Tasks /\ future'[Task(x, j)] = "finished"
    BY <1>9, <2>1, TaskIn DEF RunSound, Task
  <2>3. CASE x = c
    BY <1>2, <1>5, <1>6, <2>1, <2>2, <2>3
    DEF RunSound, Displaced, Task, Size, Members
  <2>4. CASE x # c
    BY <1>2, <1>6, <2>1, <2>2, <2>4
    DEF RunSound, Open, Displaced, Task, Size, Members
  <2> QED
    BY <2>3, <2>4
<1> QED
  BY <1>1, <1>2, <1>10, <1>11, <1>12, <1>13, <1>14
  DEF IInv, PoolSound, EveryoneAccountedFor

-----------------------------------------------------------------------------
LEMMA InitInv ==
  Init => IInv
<1> SUFFICES ASSUME Init
             PROVE  IInv
  OBVIOUS
<1>1. /\ pool.gen = 0 /\ pool.size = 0 /\ pool.busy = {} /\ pool.queue = <<>>
      /\ pool \in PoolType
  BY DEF Init, Pool, PoolType
<1>2. \A c \in Callers : run[c] = Idle(0)
  BY DEF Init
<1>3. /\ Idle(0) \in RunType /\ Idle(0).at = "idle" /\ Idle(0).next = 1
  BY DEF Idle, At, RunType
<1>4. run \in [Callers -> RunType] /\ \A c \in Callers : ~ Open(c)
  BY <1>2, <1>3 DEF Init, Open
<1>5. /\ future = [t \in Tasks |-> "new"] /\ result = [t \in Tasks |-> None]
      /\ store = [c \in Callers |-> <<>>]
  BY DEF Init
<1>6. \A c \in Callers : run[c].next \in 1..(Size(c) + 1)
  BY <1>2, <1>3, SizeNat
<1>7. TypeOK
  BY <1>1, <1>4, <1>5, <1>6 DEF TypeOK, PoolType
<1>8. PoolSound
  BY <1>1, FS_EmptySet DEF PoolSound
<1>9. FutureRunsNew /\ QueuedHeld /\ ResultsKept
  BY <1>5 DEF FutureRunsNew, QueuedHeld, ResultsKept
<1>10. \A c \in Callers : RunSound(c)
  BY <1>4 DEF RunSound
<1>11. EveryoneAccountedFor
  BY <1>5 DEF EveryoneAccountedFor
<1> QED
  BY <1>7, <1>8, <1>9, <1>10, <1>11 DEF IInv

LEMMA AnalyseStep ==
  ASSUME IInv, NEW c \in Callers, NEW k \in Ids, NEW s \in Snapshots,
         Analyse(c, k, s)
  PROVE  IInv'
BY NoDispatchStep, StartDispatchStep DEF Analyse

LEMMA ReplayStep ==
  ASSUME IInv, NEW c \in Callers, NEW k \in CycleIds, Replay(c, k)
  PROVE  \E s \in Snapshots : Analyse(c, ReplayId(k), s)
<1>1. PICK j \in DOMAIN store[c] : Analyse(c, ReplayId(k), store[c][j].snapshot)
  BY DEF Replay
<1>2. store[c][j] \in PackageType(c)
  BY <1>1 DEF IInv, TypeOK
<1>3. store[c][j].snapshot \in Snapshots
  BY <1>2 DEF PackageType
<1> QED
  BY <1>1, <1>3

LEMMA ProceedStep ==
  ASSUME IInv, NEW c \in Callers, Proceed(c)
  PROVE  IInv'
<1>1. CASE Submit(c)
  BY <1>1, SubmitStep
<1>2. CASE SubmitRaises(c)
  BY <1>2, SubmitRaisesStep
<1>3. CASE AllAnswered(c) \/ TimedOut(c)
  BY <1>3, WaitOverStep DEF AllAnswered, TimedOut
<1>4. CASE \E i \in run[c].left : GiveUp(c, i)
  BY <1>4, GiveUpStep
<1>5. CASE Report(c)
  BY <1>5, ReportStep
<1> QED
  BY <1>1, <1>2, <1>3, <1>4, <1>5 DEF Proceed

LEMMA NextInv ==
  IInv /\ [Next]_vars => IInv'
<1> SUFFICES ASSUME IInv, [Next]_vars
             PROVE  IInv'
  OBVIOUS
<1>1. \A k \in CycleIds : k \in Ids /\ ReplayId(k) \in Ids
  BY DEF Ids
<1>2. ASSUME NEW c \in Callers, NEW k \in CycleIds, NEW s \in Snapshots,
             Analyse(c, k, s)
      PROVE  IInv'
  BY <1>1, <1>2, AnalyseStep
<1>3. ASSUME NEW c \in Callers, NEW k \in CycleIds, Replay(c, k)
      PROVE  IInv'
  BY <1>1, <1>3, ReplayStep, AnalyseStep
<1>4. ASSUME NEW c \in Callers, Proceed(c)
      PROVE  IInv'
  BY <1>4, ProceedStep
<1>5. ASSUME NEW t \in Tasks, NEW v \in Answers \cup {Raised}, Finish(t, v)
      PROVE  IInv'
  BY <1>5, FinishStep
<1>6. CASE UNCHANGED vars
  <2>1. UNCHANGED <<pool, future, result, run, store>>
    BY <1>6 DEF vars
  <2>2. TypeOK' /\ PoolSound' /\ EveryoneAccountedFor'
    BY <2>1 DEF IInv, TypeOK, PoolSound, EveryoneAccountedFor
  <2>3. FutureRunsNew' /\ QueuedHeld' /\ ResultsKept'
    BY <2>1 DEF IInv, FutureRunsNew, QueuedHeld, ResultsKept, Awaited, Open
  <2>4. \A c \in Callers : RunSound(c)'
    BY <2>1 DEF IInv, RunSound, Open, Displaced, Task, Size, Members
  <2> QED
    BY <2>2, <2>3, <2>4 DEF IInv
<1> QED
  BY <1>2, <1>3, <1>4, <1>5, <1>6, StartNextStep DEF Next

\* IInv holds in every reachable state, for any callers and teams.
THEOREM Invariance == Spec => []IInv
<1> QED
  BY InitInv, NextInv, PTL DEF Spec

\* Pool, futures, runs and packages are always well formed.
THEOREM TypeCorrect == Spec => []TypeOK
<1>1. IInv => TypeOK
  BY DEF IInv
<1> QED
  BY <1>1, Invariance, PTL

\* Every specialist of a dispatched cycle has its row, and a failed one a veto.
THEOREM AllAccountedFor == Spec => []EveryoneAccountedFor
<1>1. IInv => EveryoneAccountedFor
  BY DEF IInv
<1> QED
  BY <1>1, Invariance, PTL

\* A pool has workers for every team that holds it and never runs more.
THEOREM PoolFits == Spec => []PoolFitsTeam
<1>1. IInv => PoolFitsTeam
  BY DEF IInv, PoolSound, RunSound, PoolFitsTeam
<1> QED
  BY <1>1, Invariance, PTL

\* A cycle is only lost to a caller with a larger team.
THEOREM LostToLargerOnly == Spec => DisturbedByLarger
<1> DEFINE Step == \A c \in Callers :
                     run[c].at = "submit" /\ run'[c].at = "idle" =>
                       \E d \in Callers : Size(d) > Max2(Size(c), MinPoolWorkers)
<1>1. IInv /\ [Next]_vars => [Step]_vars
  <2> SUFFICES ASSUME IInv, Next, NEW c \in Callers,
                      run[c].at = "submit", run'[c].at = "idle"
               PROVE  \E d \in Callers : Size(d) > Max2(Size(c), MinPoolWorkers)
    OBVIOUS
  <2>1. /\ run \in [Callers -> RunType] /\ RunSound(c) /\ Open(c)
    BY DEF IInv, TypeOK, Open
  <2>2. \/ \E d \in Callers : Proceed(d)
        \/ \E d \in Callers, k \in Ids, s \in Snapshots : Analyse(d, k, s)
    <3>1. run' # run
      OBVIOUS
    <3>2. ~ StartNext /\ \A t \in Tasks, v \in Answers \cup {Raised} : ~ Finish(t, v)
      BY <3>1 DEF StartNext, Finish
    <3>3. ASSUME NEW d \in Callers, NEW k \in CycleIds, Replay(d, k)
          PROVE  \E s \in Snapshots : Analyse(d, ReplayId(k), s)
      BY <3>3, ReplayStep
    <3> QED
      BY <3>2, <3>3 DEF Next, Ids
  <2>3. ASSUME NEW d \in Callers, NEW k \in Ids, NEW s \in Snapshots, Analyse(d, k, s)
        PROVE  FALSE
    <3>1. ~ Open(d) /\ \A x \in Callers : x # d => run'[x] = run[x]
      BY <2>1, <2>3 DEF Analyse, NoDispatch, StartDispatch, Begin
    <3> QED
      BY <2>1, <3>1
  <2>4. ASSUME NEW d \in Callers, Proceed(d)
        PROVE  run[c].gen # pool.gen
    <3>1. \A x \in Callers : x # d => run'[x] = run[x]
      BY <2>1, <2>4
      DEF Proceed, Submit, SubmitRaises, AllAnswered, TimedOut, WaitOver, GiveUp, Report
    <3>2. d = c
      BY <3>1
    <3>3. CASE SubmitRaises(c)
      BY <3>3 DEF SubmitRaises
    <3>4. CASE Submit(c)
      BY <2>1, <3>4 DEF Submit, RunType
    <3>5. CASE ~ SubmitRaises(c) /\ ~ Submit(c)
      BY <2>4, <3>2, <3>5 DEF Proceed, AllAnswered, TimedOut, GiveUp, Report
    <3> QED
      BY <3>3, <3>4, <3>5
  <2>5. Displaced(c)
    BY <2>1, <2>2, <2>3, <2>4 DEF RunSound
  <2> QED
    BY <2>5 DEF Displaced
<1>2. Spec => [][Step]_vars
  BY <1>1, Invariance, PTL DEF Spec
<1> QED
  BY <1>2 DEF DisturbedByLarger

\* No specialist starts for a cycle that is over.
THEOREM NoneStartsLate == Spec => NoLateStart
<1> DEFINE Step == \A t \in Tasks :
                     future[t] = "queued" /\ future'[t] = "running" => Awaited(t)
<1>1. IInv => [Step]_vars
  BY DEF IInv, QueuedHeld
<1>2. Spec => [][Step]_vars
  BY <1>1, Invariance, PTL DEF Spec
<1> QED
  BY <1>2 DEF NoLateStart

\* Nothing is proposed unless every specialist answered in time, and only what
\* was said of the snapshot of the package.
THEOREM ProposalsEarned == Spec => ProposalsAreUnanimous
<1> DEFINE Earned(c) ==
             LET p == store'[c][Len(store'[c])]
                 answer(i) == result[Task(c, i)]
             IN p.proposal # None =>
                  /\ \A i \in Members(c) : i \in run[c].done /\ answer(i) # Raised
                  /\ Voiced(p.rows) = {p.proposal}
                  /\ \E i \in Members(c) :
                       /\ answer(i).instrument = p.proposal
                       /\ answer(i).of = p.snapshot
           Step == \A c \in Callers : store'[c] # store[c] => Earned(c)
<1>1. ASSUME IInv, NEW c \in Callers, Report(c)
      PROVE  Step
  <2> DEFINE rows == Rows(c)
             p == Package(run[c].cycle, run[c].snapshot, rows)
  <2>1. /\ store'[c][Len(store'[c])] = p
        /\ \A x \in Callers : x # c => store'[x] = store[x]
    BY <1>1, ReportStep
  <2>2. p.rows = rows /\ p.proposal = Proposal(rows) /\ p.snapshot = run[c].snapshot
    BY DEF Package
  <2>3. /\ DOMAIN rows = Members(c)
        /\ \A i \in Members(c) : rows[i] = RowOf(c, i)
    BY DEF Rows
  <2> HIDE DEF rows, p
  <2>4. ASSUME Proposal(rows) # None
        PROVE  /\ \A i \in Members(c) : i \in run[c].done /\ result[Task(c, i)] # Raised
               /\ Voiced(rows) = {Proposal(rows)}
               /\ \E i \in Members(c) :
                    /\ result[Task(c, i)].instrument = Proposal(rows)
                    /\ result[Task(c, i)].of = run[c].snapshot
    <3>1. /\ \A i \in Members(c) : rows[i].status # "ERROR"
          /\ Voiced(rows) = {Proposal(rows)}
      BY <2>3, <2>4, ProposalMeans
    <3>2. Unavailable.status = "ERROR" /\ Rejected.status = "REJECTED"
      BY DEF Unavailable, Rejected, Row
    <3>3. \A i \in Members(c) : i \in run[c].done /\ result[Task(c, i)] # Raised
      BY <2>3, <3>1, <3>2 DEF RowOf
    <3>4. PICK i \in Members(c) : rows[i].status = "PASS"
                               /\ rows[i].instrument = Proposal(rows)
      BY <2>3, <3>1 DEF Voiced
    <3>5. rows[i] = Judged(result[Task(c, i)], run[c].snapshot, run[c].cycle)
      BY <2>3, <3>3 DEF RowOf
    <3>6. /\ Valid(result[Task(c, i)], run[c].snapshot, run[c].cycle)
          /\ rows[i].instrument = result[Task(c, i)].instrument
      BY <3>2, <3>4, <3>5 DEF Judged, Row
    <3>7. result[Task(c, i)].of = run[c].snapshot
      BY <3>6 DEF Valid
    <3> QED
      BY <3>1, <3>3, <3>4, <3>6, <3>7
  <2>5. Earned(c)
    BY <2>1, <2>2, <2>4
  <2> QED
    BY <2>1, <2>5
<1>2. ASSUME IInv, NEW c \in Callers, NEW k \in Ids, NEW s \in Snapshots,
             NoDispatch(c, k, s)
      PROVE  Step
  <2>1. /\ store'[c][Len(store'[c])] = Package(k, s, <<>>)
        /\ \A x \in Callers : x # c => store'[x] = store[x]
    <3>1. TypeOK /\ EveryoneAccountedFor
      BY <1>2 DEF IInv
    <3>2. s \in Stale \/ Team[c] = <<>>
      BY <1>2 DEF NoDispatch
    <3>3. <<>> \in [{} -> RowType] /\ (s \notin Stale => DOMAIN <<>> = Members(c))
      BY <3>2, SizeNat
    <3>4. Save(c, Package(k, s, <<>>))
      BY <1>2 DEF NoDispatch
    <3> QED
      BY <3>1, <3>3, <3>4, Appended
  <2>2. Voiced(<<>>) = {}
    BY DEF Voiced
  <2>3. Proposal(<<>>) = None
    BY <2>2, ProposalMeans
  <2>4. Package(k, s, <<>>).proposal = None
    BY <2>3 DEF Package
  <2> QED
    BY <2>1, <2>4
<1>3. IInv /\ [Next]_vars => [Step]_vars
  <2> SUFFICES ASSUME IInv, Next, store' # store
               PROVE  Step
    BY DEF TypeOK
  <2>1. \/ \E c \in Callers : Report(c)
        \/ \E c \in Callers, k \in Ids, s \in Snapshots : NoDispatch(c, k, s)
    <3>1. ASSUME NEW d \in Callers, NEW k \in CycleIds, Replay(d, k)
          PROVE  \E s \in Snapshots : Analyse(d, ReplayId(k), s)
      BY <3>1, ReplayStep
    <3>2. \/ \E c \in Callers, k \in Ids, s \in Snapshots : Analyse(c, k, s)
          \/ \E c \in Callers : Proceed(c)
      BY <3>1 DEF Next, Ids, StartNext, Finish
    <3> QED
      BY <3>2
      DEF Analyse, StartDispatch, Proceed, Submit, SubmitRaises, AllAnswered, TimedOut,
          WaitOver, GiveUp
  <2> QED
    BY <1>1, <1>2, <2>1
<1>4. Spec => [][Step]_vars
  BY <1>3, Invariance, PTL DEF Spec
<1> QED
  BY <1>4 DEF ProposalsAreUnanimous
=============================================================================
