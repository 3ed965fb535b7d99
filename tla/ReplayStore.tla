----------------------------- MODULE ReplayStore -----------------------------
(***************************************************************************)
(* The durable trade replay store (grow/campaign/replay.py), used by       *)
(* several processes: TradeReplayStore.append, record_cycle, attach_exit   *)
(* and get, under the exclusive file lock per decision of fs_lock.py.      *)
(*                                                                         *)
(* A call is what the code does between taking the lock and releasing it:  *)
(*   waiting -> reading -> deciding -> returning or raising -> idle         *)
(* and other processes, crashes included, come in between.  `flock' is     *)
(* released by the operating system when its holder dies; the msvcrt       *)
(* variant gives up after a minute.  The file of a row is replaced by      *)
(* rename, so a reader sees the old row or the new one.                    *)
(*                                                                         *)
(* A row is a record [fill, exit]: fill is one of Fills and stands for     *)
(* everything a cycle writes, exit for the exit and P&L payloads, which    *)
(* are made from one closed position.                                      *)
(*                                                                         *)
(* Left out: validation of the payload (a row is valid by construction),   *)
(* and two decision ids that share a file name.  An operator X_fault is X  *)
(* with a programming error; nothing uses it.                              *)
(***************************************************************************)
EXTENDS Naturals

CONSTANTS
  Processes,
  Decisions,
  Fills,
  Exits,
  NoRow,
  NoExit,
  Free,          \* the lock of a decision is not held
  Positions,
  NoPosition,    \* a fill without a position
  PositionOf,    \* [Fills -> Positions \cup {NoPosition}]
  ClosedOf,      \* [Exits -> Positions]: the position the exit is of
  LockBackend,   \* filesystem_lock_backend: "fcntl" or "msvcrt"
  MaxCalls,      \* bound: calls a process makes
  MaxCrashes     \* bound: deaths of a process

ASSUME StoreConstants ==
  /\ Processes \cap {Free} = {}
  /\ NoExit \notin Exits
  /\ NoRow \notin [fill : Fills, exit : Exits \cup {NoExit}]
  /\ NoPosition \notin Positions
  /\ PositionOf \in [Fills -> Positions \cup {NoPosition}]
  /\ ClosedOf \in [Exits -> Positions]
  /\ LockBackend \in {"fcntl", "msvcrt"}
  /\ MaxCalls \in Nat
  /\ MaxCrashes \in Nat

Rows == [fill : Fills, exit : Exits \cup {NoExit}]

RowOrNone == Rows \cup {NoRow}

\* The exit of a row is of the position of its fill, when there is one.
Fits(row) ==
  row.exit # NoExit =>
    PositionOf[row.fill] \in {NoPosition, ClosedOf[row.exit]}

\* The calls: record_cycle offers a row without an exit; append any row that
\* makes sense; and attach_exit an exit.
Calls ==
  [op : {"record_cycle"}, decision : Decisions, row : [fill : Fills, exit : {NoExit}]]
    \cup [op : {"append"}, decision : Decisions, row : {r \in Rows : Fits(r)}]
    \cup [op : {"attach_exit"}, decision : Decisions, exit : Exits]

VARIABLES
  file,      \* the row on disk of each decision
  lock,      \* the holder of the lock of each decision
  cache,     \* _by_id of each process
  at,        \* where each process is in its call
  call,      \* the call it is making
  seen,      \* what it read from disk in this call
  budget     \* calls each process may still make, and deaths left

vars == <<file, lock, cache, at, call, seen, budget>>

Idle == [op |-> "none"]

-----------------------------------------------------------------------------
(* The steps of a call                                                     *)

Begin(p) ==
  /\ at[p] = "idle"
  /\ budget.calls[p] > 0
  /\ \E c \in Calls : call' = [call EXCEPT ![p] = c]
  /\ at' = [at EXCEPT ![p] = "waiting"]
  /\ budget' = [budget EXCEPT !.calls[p] = @ - 1]
  /\ UNCHANGED <<file, lock, cache, seen>>

\* exclusive_filesystem_lock: the lock can be had
Available_fault(d) == TRUE

Available(d) == lock[d] = Free

Acquire(p) ==
  /\ at[p] = "waiting"
  /\ Available(call[p].decision)
  /\ lock' = [lock EXCEPT ![call[p].decision] = p]
  /\ at' = [at EXCEPT ![p] = "reading"]
  /\ UNCHANGED <<file, cache, call, seen, budget>>

\* _lock_msvcrt raises after its deadline; flock waits for ever.
GiveUp(p) ==
  /\ LockBackend = "msvcrt"
  /\ at[p] = "waiting"
  /\ ~ Available(call[p].decision)
  /\ at' = [at EXCEPT ![p] = "idle"]
  /\ call' = [call EXCEPT ![p] = Idle]
  /\ UNCHANGED <<file, lock, cache, seen, budget>>

\* _read_disk
Read(p) ==
  /\ at[p] = "reading"
  /\ seen' = [seen EXCEPT ![p] = file[call[p].decision]]
  /\ at' = [at EXCEPT ![p] = "deciding"]
  /\ UNCHANGED <<file, lock, cache, call, budget>>

\* The call finds its work done: the first writer won, the same row or the
\* same exit is there already.
Done_fault(c, row) ==
  CASE c.op = "record_cycle" -> row # NoRow
    [] c.op = "append"       -> row # NoRow /\ row.fill = c.row.fill
    [] c.op = "attach_exit"  -> row # NoRow /\ row.exit = c.exit

Done(c, row) ==
  CASE c.op = "record_cycle" -> row # NoRow
    [] c.op = "append"       -> row = c.row
    [] c.op = "attach_exit"  -> row # NoRow /\ row.exit = c.exit

\* What the call would write, if it may write at all.
Writable_fault(c, row) ==
  IF c.op = "attach_exit"
    THEN row # NoRow /\ PositionOf[row.fill] \in {NoPosition, ClosedOf[c.exit]}
    ELSE row = NoRow

Writable_fault2(c, row) ==
  IF c.op = "attach_exit" THEN row # NoRow /\ row.exit = NoExit ELSE row = NoRow

Writable(c, row) ==
  IF c.op = "attach_exit"
    THEN /\ row # NoRow
         /\ row.exit = NoExit
         /\ PositionOf[row.fill] \in {NoPosition, ClosedOf[c.exit]}
    ELSE row = NoRow

Written(c, row) ==
  IF c.op = "attach_exit" THEN [row EXCEPT !.exit = c.exit] ELSE c.row

\* The call returns `row' after updating the cache of its process.
Return(p, row) ==
  /\ cache' = [cache EXCEPT ![p][call[p].decision] = row]
  /\ at' = [at EXCEPT ![p] = "returning"]

FindDone(p) ==
  /\ at[p] = "deciding"
  /\ Done(call[p], seen[p])
  /\ Return(p, seen[p])
  /\ UNCHANGED <<file, lock, call, seen, budget>>

\* atomic_write_json succeeds
Write(p) ==
  LET row == Written(call[p], seen[p])
  IN /\ at[p] = "deciding"
     /\ ~ Done(call[p], seen[p])
     /\ Writable(call[p], seen[p])
     /\ file' = [file EXCEPT ![call[p].decision] = row]
     /\ Return(p, row)
     /\ UNCHANGED <<lock, call, seen, budget>>

\* The call raises: the row is another one, or there is none to attach the
\* exit to, or the position is another one, or the write fails.
Raise(p) ==
  /\ at[p] = "deciding"
  /\ ~ Done(call[p], seen[p])
  /\ at' = [at EXCEPT ![p] = "raising"]
  /\ UNCHANGED <<file, lock, cache, call, seen, budget>>

Release(p) ==
  /\ at[p] \in {"returning", "raising"}
  /\ seen' = [seen EXCEPT ![p] = NoRow]
  /\ lock' = [lock EXCEPT ![call[p].decision] = Free]
  /\ at' = [at EXCEPT ![p] = "idle"]
  /\ call' = [call EXCEPT ![p] = Idle]
  /\ UNCHANGED <<file, cache, budget>>

\* get reads the file without the lock, and falls back on the cache.
Get(p, d) ==
  /\ at[p] = "idle"
  /\ cache' = IF file[d] = NoRow THEN cache
                                  ELSE [cache EXCEPT ![p][d] = file[d]]
  /\ UNCHANGED <<file, lock, at, call, seen, budget>>

-----------------------------------------------------------------------------
(* Crashes                                                                 *)

\* The locks the operating system gives back when process p dies.
Freed_fault(p) == lock

Freed(p) == [d \in Decisions |-> IF lock[d] = p THEN Free ELSE lock[d]]

\* Process p dies wherever it is; what it had in memory is gone.
Crash(p) ==
  /\ budget.crashes > 0
  /\ at[p] # "down"
  /\ lock' = Freed(p)
  /\ at' = [at EXCEPT ![p] = "down"]
  /\ call' = [call EXCEPT ![p] = Idle]
  /\ cache' = [cache EXCEPT ![p] = [d \in Decisions |-> NoRow]]
  /\ budget' = [budget EXCEPT !.crashes = @ - 1]
  /\ seen' = [seen EXCEPT ![p] = NoRow]
  /\ UNCHANGED file

\* A new process loads the rows there are (_load_existing).  They are read
\* one by one, but nothing relates the rows of two decisions.
Restart(p) ==
  /\ at[p] = "down"
  /\ at' = [at EXCEPT ![p] = "idle"]
  /\ cache' = [cache EXCEPT ![p] = file]
  /\ UNCHANGED <<file, lock, call, seen, budget>>

-----------------------------------------------------------------------------

Init ==
  /\ file = [d \in Decisions |-> NoRow]
  /\ lock = [d \in Decisions |-> Free]
  /\ cache = [p \in Processes |-> [d \in Decisions |-> NoRow]]
  /\ at = [p \in Processes |-> "idle"]
  /\ call = [p \in Processes |-> Idle]
  /\ seen = [p \in Processes |-> NoRow]
  /\ budget = [calls |-> [p \in Processes |-> MaxCalls], crashes |-> MaxCrashes]

\* A step of a call that is under way and has not been given up
Advance(p) ==
  \/ Acquire(p) \/ Read(p)
  \/ FindDone(p) \/ Write(p) \/ Raise(p)
  \/ Release(p)

Step(p) ==
  \/ Begin(p)
  \/ Advance(p)
  \/ GiveUp(p)
  \/ \E d \in Decisions : Get(p, d)
  \/ Crash(p)
  \/ Restart(p)

Next == \E p \in Processes : Step(p)

Spec == Init /\ [][Next]_vars

\* A process that is in a call is scheduled.  No waiter has to give up, nothing
\* is assumed about which waiter gets a lock, and a dead process need not come
\* back.
FairSpec == Spec /\ \A p \in Processes : WF_vars(Advance(p))

-----------------------------------------------------------------------------
(* What the store must keep                                                *)

Places == {"idle", "waiting", "reading", "deciding", "returning", "raising", "down"}

\* Every variable has the shape the code gives it.
TypeOK ==
  /\ file \in [Decisions -> RowOrNone]
  /\ lock \in [Decisions -> Processes \cup {Free}]
  /\ cache \in [Processes -> [Decisions -> RowOrNone]]
  /\ at \in [Processes -> Places]
  /\ call \in [Processes -> Calls \cup {Idle}]
  /\ seen \in [Processes -> RowOrNone]
  /\ budget \in [calls : [Processes -> 0..MaxCalls], crashes : 0..MaxCrashes]

\* `later' still says everything `earlier' said.
Extends(later, earlier) ==
  earlier # NoRow =>
    /\ later # NoRow
    /\ later.fill = earlier.fill
    /\ earlier.exit # NoExit => later.exit = earlier.exit

\* Whatever a process was ever told of a decision stays true on disk: two
\* processes never disagree about the fill or the exit of a decision, and
\* what a process keeps in _by_id is at worst old.
CachesBehindDisk ==
  \A p \in Processes, d \in Decisions : Extends(file[d], cache[p][d])

\* The row on disk does what the call asked for.
Satisfied(c, row) ==
  CASE c.op = "record_cycle" -> row # NoRow
    [] c.op = "append"       -> row = c.row
    [] c.op = "attach_exit"  -> row # NoRow /\ row.exit = c.exit

\* A call that returns has taken effect when it gives up the lock, whatever
\* others did between its reading and its writing.
ReturnsAreTrue ==
  \A p \in Processes :
    at[p] = "returning" => Satisfied(call[p], file[call[p].decision])

\* No row shows the exit of a position that is not the one it was filled as,
\* although fill and exit come from different calls and processes.
ExitsFitFills ==
  \A d \in Decisions : file[d] # NoRow => Fits(file[d])

Audit == INSTANCE AuditRecord WITH rows <- file

\* The files are a write-once record: the first writer of a row wins, and an
\* exit is attached to it once.
WriteOnce == Audit!Spec

\* Every call comes to an end, whoever dies inside the critical section.
CallsEnd == \A p \in Processes : at[p] = "waiting" ~> at[p] \in {"idle", "down"}
=============================================================================
