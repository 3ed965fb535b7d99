------------------------------ MODULE Dispatch ------------------------------
(***************************************************************************)
(* The analysis cycles of grow/orchestration: cycle.py hands one snapshot  *)
(* to a team of specialists through dispatcher.py, validator.py judges     *)
(* what they return, aggregator.py makes a package of it.                  *)
(*                                                                         *)
(* Callers are threads with an orchestrator each.  All of them share one   *)
(* pool of worker threads, which a caller with a larger team replaces.  A  *)
(* worker cannot be interrupted: a specialist may return long after its    *)
(* caller gave up on it, or never.                                         *)
(*                                                                         *)
(* The executor is modelled from how dispatcher.py uses it.  Retired pools *)
(* have nothing queued (cancel_futures) and only finish what they run, so  *)
(* the queue and the busy workers of the present pool are all there is to  *)
(* keep.  A future cancelled by a retiring pool is never reported done.    *)
(*                                                                         *)
(* An operator X_fault is X with a programming error; nothing uses it.     *)
(***************************************************************************)
EXTENDS Naturals, Sequences, FiniteSets

CONSTANTS
  Callers,
  Team,            \* Team[c]: the specialists of c's orchestrator, in order
  MinPoolWorkers,
  Snapshots,
  Stale,           \* the snapshots gate_snapshot_quality refuses
  CycleIds,
  Instruments,
  Answers,         \* what a specialist may return
  None,            \* no instrument, no snapshot, a blank cycle id
  Raised,          \* the specialist raised instead
  MaxRuns          \* bound: MaxRuns[c], cycles begun by c

\* The id under which a cycle is replayed.
ReplayId(k) == <<"replay", k>>

Ids == CycleIds \cup {ReplayId(k) : k \in CycleIds}

\* An output of the wrong type or schema is one that is of no snapshot.
AnswerType ==
  [of : Snapshots \cup {None}, cycle : Ids \cup {None},
   status : {"PASS", "DEGRADED", "NO_DATA", "ERROR"}, missing : BOOLEAN,
   instrument : Instruments \cup {None}]

ASSUME DispatchConstants ==
  /\ Team \in [Callers -> Seq(STRING)]
  /\ MinPoolWorkers \in Nat \ {0}
  /\ Stale \subseteq Snapshots
  /\ Answers \subseteq AnswerType
  /\ Raised \notin Answers /\ None \notin Answers \cup {Raised}
  /\ None \notin Ids \cup Instruments \cup Snapshots
  /\ MaxRuns \in [Callers -> Nat]

Size(c) == Len(Team[c])

Members(c) == 1..Size(c)

\* The work of one specialist in one run of one caller.
Tasks ==
  UNION {{<<c, n, i>> : n \in 1..MaxRuns[c], i \in Members(c)} : c \in Callers}

VARIABLES
  pool,     \* the pool in force: generation, size, queue and busy workers
  future,   \* [Tasks -> state of the future]
  result,   \* what a finished future holds
  run,      \* where each caller is
  store     \* each orchestrator's packages

vars == <<pool, future, result, run, store>>

Open(c) == run[c].at # "idle"

Task(c, i) == <<c, run[c].n, i>>

\* Somebody still holds the future of t.
Awaited(t) == Open(t[1]) /\ run[t[1]].n = t[2]

-----------------------------------------------------------------------------
(* validator.py, debate.py, aggregator.py, AgentCycleOrchestrator          *)

\* validate_agent_output on an answer to cycle k about snapshot s
Valid(a, s, k) ==
  /\ a.of = s
  /\ a.cycle \in {None, k}
  /\ a.status = "NO_DATA" => a.missing

Row(status, instrument) == [status |-> status, instrument |-> instrument]

Rejected == Row("REJECTED", None)

Unavailable == Row("ERROR", None)

Judged(a, s, k) ==
  IF Valid(a, s, k) THEN Row(a.status, a.instrument) ELSE Rejected

\* What the present state of the i-th future says.
RowOf_fault(c, i) ==
  LET a == result[Task(c, i)]
  IN IF a \in {None, Raised}
       THEN Unavailable ELSE Judged(a, run[c].snapshot, run[c].cycle)

\* What dispatch_agents makes of the i-th future: done when wait returned or not.
RowOf(c, i) ==
  LET a == result[Task(c, i)]
  IN IF i \notin run[c].done \/ a = Raised
       THEN Unavailable ELSE Judged(a, run[c].snapshot, run[c].cycle)

\* Only the futures that were done leave a row.
Rows_fault(c) == [i \in run[c].done |-> RowOf(c, i)]

\* Every specialist at its place, whatever order they finished in.  The rejected
\* rows are the code's second list.
Rows(c) == [i \in Members(c) |-> RowOf(c, i)]

\* The instruments the rows that pass propose to open.
Voiced(rows) ==
  {rows[i].instrument : i \in {j \in DOMAIN rows : rows[j].status = "PASS"}} \ {None}

\* _synthesize: a failed specialist vetoes, a rejected one does not.
Proposal(rows) ==
  IF /\ \A i \in DOMAIN rows : rows[i].status # "ERROR"
     /\ \E x \in Instruments : Voiced(rows) = {x}
    THEN CHOOSE x \in Instruments : Voiced(rows) = {x} ELSE None

Package(k, s, rows) ==
  [cycle |-> k, snapshot |-> s, rows |-> rows, proposal |-> Proposal(rows)]

-----------------------------------------------------------------------------
(* The pool                                                                *)

Max2(a, b) == IF a >= b THEN a ELSE b

Cancelled(S) == [t \in Tasks |-> IF t \in S THEN "cancelled" ELSE future[t]]

Queued == {t \in Tasks : future[t] = "queued"}

Pool(gen, size) == [gen |-> gen, size |-> size, queue |-> <<>>, busy |-> {}]

SharedPool_fault(needed) ==
  LET size == Max2(needed, MinPoolWorkers)
  IN IF pool.gen = 0 \/ pool.size # size
       THEN pool' = Pool(pool.gen + 1, size) /\ future' = Cancelled(Queued)
       ELSE UNCHANGED <<pool, future>>

\* _shared_pool: the pool in force, or a larger one that retires it.
SharedPool(needed) ==
  LET size == Max2(needed, MinPoolWorkers)
  IN IF pool.gen = 0 \/ pool.size < size
       THEN pool' = Pool(pool.gen + 1, size) /\ future' = Cancelled(Queued)
       ELSE UNCHANGED <<pool, future>>

\* A free worker takes the oldest task, and lets it go if it was cancelled.
StartNext ==
  LET t == Head(pool.queue)
      goes == future[t] = "queued"
  IN /\ pool.queue # <<>>
     /\ Cardinality(pool.busy) < pool.size
     /\ pool' = [pool EXCEPT !.queue = Tail(@), !.busy = IF goes THEN @ \cup {t} ELSE @]
     /\ future' = [future EXCEPT ![t] = IF goes THEN "running" ELSE @]
     /\ UNCHANGED <<result, run, store>>

\* _call_agent returns, or raises, on a worker of this pool or a retired one.
Finish(t, v) ==
  /\ future[t] = "running"
  /\ future' = [future EXCEPT ![t] = "finished"]
  /\ result' = [result EXCEPT ![t] = IF Awaited(t) THEN v ELSE None]
  /\ pool' = [pool EXCEPT !.busy = @ \ {t}]
  /\ UNCHANGED <<run, store>>

-----------------------------------------------------------------------------
(* AnalysisOrchestrator.run and dispatch_agents                            *)

At(at, n, k, s, gen) ==
  [at |-> at, n |-> n, cycle |-> k, snapshot |-> s, gen |-> gen,
   next |-> 1, done |-> {}, left |-> {}]

Idle(n) == At("idle", n, None, None, 0)

Save(c, p) == store' = [store EXCEPT ![c] = Append(@, p)]

Begin(c) ==
  ~ Open(c) /\ run[c].n < MaxRuns[c]

\* A snapshot that is no good, or a team of nobody: no dispatch.
NoDispatch(c, k, s) ==
  /\ Begin(c)
  /\ s \in Stale \/ Team[c] = <<>>
  /\ Save(c, Package(k, s, <<>>))
  /\ run' = [run EXCEPT ![c].n = @ + 1]
  /\ UNCHANGED <<pool, future, result>>

StartDispatch(c, k, s) ==
  /\ Begin(c)
  /\ s \notin Stale /\ Team[c] # <<>>
  /\ SharedPool(Size(c))
  /\ run' = [run EXCEPT ![c] = At("submit", @.n + 1, k, s, pool'.gen)]
  /\ UNCHANGED <<result, store>>

Analyse(c, k, s) == NoDispatch(c, k, s) \/ StartDispatch(c, k, s)

\* replay, with the snapshot last stored under the id
Replay(c, k) ==
  \E j \in DOMAIN store[c] :
    /\ store[c][j].cycle = k
    /\ \A x \in DOMAIN store[c] : store[c][x].cycle = k => x <= j
    /\ Analyse(c, ReplayId(k), store[c][j].snapshot)

Submit(c) ==
  LET t == Task(c, run[c].next)
  IN /\ run[c].at = "submit"
     /\ run[c].gen = pool.gen
     /\ pool' = [pool EXCEPT !.queue = Append(@, t)]
     /\ future' = [future EXCEPT ![t] = "queued"]
     /\ run' = [run EXCEPT ![c].next = @ + 1,
                           ![c].at = IF run[c].next = Size(c) THEN "wait" ELSE @]
     /\ UNCHANGED <<result, store>>

\* The futures of a run are dropped with it.
Drop(c) ==
  result' = [t \in Tasks |-> IF t[1] = c /\ t[2] = run[c].n THEN None ELSE result[t]]

\* The pool was retired meanwhile: submit raises, and so does the cycle.
SubmitRaises(c) ==
  /\ run[c].at = "submit"
  /\ run[c].gen # pool.gen
  /\ run' = [run EXCEPT ![c] = Idle(@.n)]
  /\ Drop(c)
  /\ UNCHANGED <<pool, future, store>>

Finished(c) == {i \in Members(c) : future[Task(c, i)] = "finished"}

WaitOver(c) ==
  /\ run' = [run EXCEPT ![c].at = "collect", ![c].done = Finished(c),
                        ![c].left = Members(c) \ Finished(c)]
  /\ UNCHANGED <<pool, future, result, store>>

AllAnswered(c) ==
  /\ run[c].at = "wait"
  /\ Finished(c) = Members(c)
  /\ WaitOver(c)

TimedOut_fault(c) ==
  /\ run[c].at = "wait"
  /\ Finished(c) = Members(c)
  /\ WaitOver(c)

TimedOut(c) ==
  /\ run[c].at = "wait"
  /\ Finished(c) # Members(c)
  /\ WaitOver(c)

GiveUp_fault(c, i) ==
  /\ run[c].at = "collect"
  /\ i \in run[c].left
  /\ run' = [run EXCEPT ![c].left = @ \ {i}]
  /\ UNCHANGED <<pool, future, result, store>>

\* future.cancel() of a pending future: it stops what has not started.
GiveUp(c, i) ==
  LET t == Task(c, i)
  IN /\ run[c].at = "collect"
     /\ i \in run[c].left
     /\ run' = [run EXCEPT ![c].left = @ \ {i}]
     /\ future' = [future EXCEPT ![t] = IF @ = "queued" THEN "cancelled" ELSE @]
     /\ UNCHANGED <<pool, result, store>>

Report(c) ==
  /\ run[c].at = "collect"
  /\ run[c].left = {}
  /\ Save(c, Package(run[c].cycle, run[c].snapshot, Rows(c)))
  /\ run' = [run EXCEPT ![c] = Idle(@.n)]
  /\ Drop(c)
  /\ UNCHANGED <<pool, future>>

-----------------------------------------------------------------------------
Init ==
  /\ pool = Pool(0, 0)
  /\ future = [t \in Tasks |-> "new"]
  /\ result = [t \in Tasks |-> None]
  /\ run = [c \in Callers |-> Idle(0)]
  /\ store = [c \in Callers |-> <<>>]

\* What a caller does once it has begun.
Proceed(c) ==
  \/ Submit(c)
  \/ SubmitRaises(c)
  \/ AllAnswered(c)
  \/ TimedOut(c)
  \/ \E i \in run[c].left : GiveUp(c, i)
  \/ Report(c)

Next ==
  \/ \E c \in Callers, k \in CycleIds, s \in Snapshots : Analyse(c, k, s)
  \/ \E c \in Callers, k \in CycleIds : Replay(c, k)
  \/ \E c \in Callers : Proceed(c)
  \/ StartNext
  \/ \E t \in Tasks, v \in Answers \cup {Raised} : Finish(t, v)

Spec == Init /\ [][Next]_vars

\* The caller's thread runs and its wait times out.  Nothing is assumed of the
\* workers: a specialist may never return.
FairSpec == Spec /\ \A c \in Callers : WF_vars(Proceed(c))

-----------------------------------------------------------------------------
Statuses == {"PASS", "DEGRADED", "NO_DATA", "ERROR", "REJECTED"}

RowType == [status : Statuses, instrument : Instruments \cup {None}]

PackageType(c) ==
  [cycle : Ids, snapshot : Snapshots,
   rows : [Members(c) -> RowType] \cup [{} -> RowType],
   proposal : Instruments \cup {None}]

RunType ==
  [at : {"idle", "submit", "wait", "collect"}, n : Nat,
   cycle : Ids \cup {None}, snapshot : Snapshots \cup {None}, gen : Nat,
   next : Nat, done : SUBSET Nat, left : SUBSET Nat]

TypeOK ==
  /\ pool \in [gen : Nat, size : Nat, queue : Seq(Tasks), busy : SUBSET Tasks]
  /\ future \in [Tasks -> {"new", "queued", "running", "finished", "cancelled"}]
  /\ result \in [Tasks -> Answers \cup {Raised, None}]
  /\ run \in [Callers -> RunType]
  /\ DOMAIN store = Callers
  /\ \A c \in Callers :
       /\ store[c] \in Seq(PackageType(c))
       /\ run[c].next \in 1..(Size(c) + 1)

\* dispatch_agents: whatever timed out, raised, was rejected or lost with a
\* retired pool, every specialist of a dispatched cycle has its row in the
\* package, and so a veto: with one unavailable, nothing is proposed.
EveryoneAccountedFor ==
  \A c \in Callers : \A j \in DOMAIN store[c] :
    LET p == store[c][j]
    IN p.snapshot \notin Stale =>
         /\ DOMAIN p.rows = Members(c)
         /\ \A i \in Members(c) :
              p.rows[i].status = "ERROR" => p.proposal = None

\* _shared_pool: a run whose pool is still in force has a worker for each of
\* its specialists, and the pool never runs more tasks than it has workers.
PoolFitsTeam ==
  /\ Cardinality(pool.busy) <= pool.size
  /\ \A c \in Callers :
       Open(c) /\ run[c].gen = pool.gen => Size(c) <= pool.size

\* dispatch_agents and _synthesize: nothing is proposed unless every specialist
\* had answered when the wait returned, none of them by an exception, one of
\* them proposed just that about the snapshot of the package, and nothing that
\* was accepted proposes anything else.
ProposalsAreUnanimous ==
  [][\A c \in Callers :
       store'[c] # store[c] =>
         LET p == store'[c][Len(store'[c])]
             answer(i) == result[Task(c, i)]
         IN p.proposal # None =>
              /\ \A i \in Members(c) : i \in run[c].done /\ answer(i) # Raised
              /\ Voiced(p.rows) = {p.proposal}
              /\ \E i \in Members(c) :
                   /\ answer(i).instrument = p.proposal
                   /\ answer(i).of = p.snapshot]_vars

\* _shared_pool: a cycle only fails because a caller with a larger team, larger
\* than the smallest pool, took the pool away; equal and smaller teams, and any
\* that fit the smallest pool, never disturb each other.
DisturbedByLarger ==
  [][\A c \in Callers :
       run[c].at = "submit" /\ run'[c].at = "idle" =>
         \E d \in Callers : Size(d) > Max2(Size(c), MinPoolWorkers)]_vars

\* dispatch_agents: no specialist is started for a cycle that is over.
NoLateStart ==
  [][\A t \in Tasks :
       future[t] = "queued" /\ future'[t] = "running" => Awaited(t)]_vars

\* dispatch_agents: a cycle that began ends, with a package or an exception,
\* though specialists never return.
RunsEnd ==
  \A c \in Callers : Open(c) ~> ~ Open(c)
=============================================================================
