-------------------------- MODULE ReplayStoreProofs --------------------------
(***************************************************************************)
(* Proofs about ReplayStore, for any number of processes and decisions.    *)
(*                                                                         *)
(* The properties rest on the critical section: who is inside a call on a  *)
(* decision holds its lock (Holding), so what it read is still what is on  *)
(* disk when it decides (SeenCurrent).                                     *)
(***************************************************************************)
EXTENDS ReplayStore, TLAPS

Inside == {"reading", "deciding", "returning", "raising"}

\* A process has a call exactly while it is in one.
InCall ==
  \A p \in Processes :
    at[p] \in Inside \cup {"waiting"} => call[p] \in Calls

Holding ==
  /\ \A p \in Processes : at[p] \in Inside => lock[call[p].decision] = p
  /\ \A p \in Processes, d \in Decisions :
       lock[d] = p => at[p] \in Inside /\ call[p].decision = d

SeenCurrent ==
  \A p \in Processes :
    at[p] = "deciding" => seen[p] = file[call[p].decision]

IInv ==
  /\ TypeOK
  /\ InCall
  /\ Holding
  /\ SeenCurrent
  /\ CachesBehindDisk
  /\ ReturnsAreTrue
  /\ ExitsFitFills

USE StoreConstants

LEMMA CallShape ==
  ASSUME NEW c \in Calls
  PROVE  /\ c.decision \in Decisions
         /\ c.op \in {"record_cycle", "append", "attach_exit"}
         /\ c.op = "record_cycle" => c.row \in Rows /\ c.row.exit = NoExit
         /\ c.op = "append" => c.row \in Rows /\ Fits(c.row)
         /\ c.op = "attach_exit" => c.exit \in Exits
BY DEF Calls, Rows

\* What a call writes is a row that makes sense, extends what was there and
\* does what was asked for.
LEMMA WrittenRow ==
  ASSUME NEW c \in Calls, NEW row \in RowOrNone, Writable(c, row),
         row # NoRow => Fits(row)
  PROVE  /\ Written(c, row) \in Rows
         /\ Fits(Written(c, row))
         /\ Extends(Written(c, row), row)
         /\ Satisfied(c, Written(c, row))
<1>0. Rows \cap {NoRow} = {}
  BY DEF Rows
<1>1. CASE c.op = "attach_exit"
  <2>1. row \in Rows /\ row.exit = NoExit /\ c.exit \in Exits
    BY <1>1, CallShape DEF Writable, RowOrNone
  <2>2. /\ Written(c, row) = [row EXCEPT !.exit = c.exit]
        /\ Written(c, row) \in Rows
        /\ Written(c, row).fill = row.fill
        /\ Written(c, row).exit = c.exit
    BY <1>1, <2>1 DEF Written, Rows
  <2>3. Fits(Written(c, row))
    BY <1>1, <2>1, <2>2 DEF Fits, Writable
  <2> QED
    BY <1>0, <1>1, <2>1, <2>2, <2>3 DEF Extends, Satisfied
<1>2. CASE c.op # "attach_exit"
  <2>1. row = NoRow /\ Written(c, row) = c.row /\ c.row \in Rows /\ Fits(c.row)
    BY <1>2, CallShape DEF Writable, Written, Fits
  <2> QED
    BY <1>0, <1>2, <2>1, CallShape DEF Extends, Satisfied
<1> QED
  BY <1>1, <1>2

LEMMA ExtendsReflexive ==
  ASSUME NEW row
  PROVE  Extends(row, row)
BY DEF Extends

LEMMA ExtendsTransitive ==
  ASSUME NEW a, NEW b, NEW c, Extends(c, b), Extends(b, a)
  PROVE  Extends(c, a)
BY DEF Extends

THEOREM InitEstablishes == Init => IInv
<1> SUFFICES ASSUME Init PROVE IInv
  OBVIOUS
<1> USE DEF Init
<1>1. TypeOK
  BY DEF TypeOK, RowOrNone, Places
<1>2. InCall /\ Holding /\ SeenCurrent
  BY DEF InCall, Holding, SeenCurrent, Inside
<1>3. CachesBehindDisk /\ ReturnsAreTrue /\ ExitsFitFills
  BY DEF CachesBehindDisk, ReturnsAreTrue, ExitsFitFills, Extends
<1> QED
  BY <1>1, <1>2, <1>3 DEF IInv

LEMMA BeginKeeps ==
  ASSUME IInv, NEW p \in Processes, Begin(p)
  PROVE  IInv'
<1> USE DEF IInv, Begin
<1>1. TypeOK'
  <2>1. call' \in [Processes -> Calls \cup {Idle}] /\ at' \in [Processes -> Places]
    BY DEF TypeOK, Places
  <2>2. budget' \in [calls : [Processes -> 0..MaxCalls], crashes : 0..MaxCrashes]
    <3>1. budget.calls[p] - 1 \in 0..MaxCalls
      BY DEF TypeOK
    <3>2. [budget.calls EXCEPT ![p] = @ - 1] \in [Processes -> 0..MaxCalls]
      BY <3>1 DEF TypeOK
    <3>3. budget' = [budget EXCEPT !.calls = [budget.calls EXCEPT ![p] = @ - 1]]
      BY DEF TypeOK
    <3> QED
      BY <3>2, <3>3 DEF TypeOK
  <2> QED
    BY <2>1, <2>2 DEF TypeOK
<1>2. InCall' /\ Holding'
  BY CallShape DEF TypeOK, InCall, Holding, Inside
<1>3. SeenCurrent'
  BY DEF TypeOK, SeenCurrent, InCall, Inside
<1>4. CachesBehindDisk'
  BY DEF TypeOK, CachesBehindDisk
<1>5. ReturnsAreTrue' /\ ExitsFitFills'
  BY DEF TypeOK, ReturnsAreTrue, ExitsFitFills, InCall, Inside
<1> QED
  BY <1>1, <1>2, <1>3, <1>4, <1>5

LEMMA AcquireKeeps ==
  ASSUME IInv, NEW p \in Processes, Acquire(p)
  PROVE  IInv'
<1> USE DEF IInv, Acquire, Available
<1>1. TypeOK'
  BY CallShape DEF TypeOK, Places, InCall
<1>2. InCall' /\ Holding'
  BY CallShape DEF TypeOK, InCall, Holding, Inside
<1>3. SeenCurrent'
  BY DEF TypeOK, SeenCurrent, InCall, Inside
<1>4. CachesBehindDisk'
  BY DEF TypeOK, CachesBehindDisk
<1>5. ReturnsAreTrue' /\ ExitsFitFills'
  BY DEF TypeOK, ReturnsAreTrue, ExitsFitFills, InCall, Inside
<1> QED
  BY <1>1, <1>2, <1>3, <1>4, <1>5

LEMMA GiveUpKeeps ==
  ASSUME IInv, NEW p \in Processes, GiveUp(p)
  PROVE  IInv'
<1> USE DEF IInv, GiveUp
<1>1. TypeOK'
  BY DEF TypeOK, Places
<1>2. InCall' /\ Holding'
  BY DEF TypeOK, InCall, Holding, Inside
<1>3. SeenCurrent'
  BY DEF TypeOK, SeenCurrent, InCall, Inside
<1>4. CachesBehindDisk'
  BY DEF TypeOK, CachesBehindDisk
<1>5. ReturnsAreTrue' /\ ExitsFitFills'
  BY DEF TypeOK, ReturnsAreTrue, ExitsFitFills, InCall, Inside
<1> QED
  BY <1>1, <1>2, <1>3, <1>4, <1>5

LEMMA ReadKeeps ==
  ASSUME IInv, NEW p \in Processes, Read(p)
  PROVE  IInv'
<1> USE DEF IInv, Read
<1>1. TypeOK'
  <2>1. file[call[p].decision] \in RowOrNone
    BY CallShape DEF TypeOK, InCall, Inside
  <2> QED
    BY <2>1 DEF TypeOK, Places
<1>2. InCall' /\ Holding'
  BY CallShape DEF TypeOK, InCall, Holding, Inside
<1>3. SeenCurrent'
  BY DEF TypeOK, SeenCurrent, InCall, Inside
<1>4. CachesBehindDisk'
  BY DEF TypeOK, CachesBehindDisk
<1>5. ReturnsAreTrue' /\ ExitsFitFills'
  BY DEF TypeOK, ReturnsAreTrue, ExitsFitFills, InCall, Inside
<1> QED
  BY <1>1, <1>2, <1>3, <1>4, <1>5

LEMMA FindDoneKeeps ==
  ASSUME IInv, NEW p \in Processes, FindDone(p)
  PROVE  IInv'
<1> USE DEF IInv, FindDone, Return
<1>1. TypeOK'
  <2>1. call[p].decision \in Decisions /\ seen[p] \in RowOrNone
    BY CallShape DEF TypeOK, InCall, Inside
  <2>2. cache' \in [Processes -> [Decisions -> RowOrNone]]
    BY <2>1 DEF TypeOK
  <2> QED
    BY <2>2 DEF TypeOK, Places
<1>2. InCall' /\ Holding'
  BY DEF TypeOK, InCall, Holding, Inside
<1>3. SeenCurrent'
  BY DEF TypeOK, SeenCurrent, InCall, Inside
<1>4. CachesBehindDisk'
  BY CallShape, ExtendsReflexive DEF TypeOK, CachesBehindDisk, SeenCurrent, InCall, Inside
<1>5. ReturnsAreTrue'
  <2>1. Satisfied(call[p], file[call[p].decision])
    BY CallShape DEF SeenCurrent, InCall, Inside, Done, Satisfied
  <2> QED
    BY <2>1 DEF TypeOK, ReturnsAreTrue
<1>6. ExitsFitFills'
  BY DEF ExitsFitFills
<1> QED
  BY <1>1, <1>2, <1>3, <1>4, <1>5, <1>6

LEMMA RaiseKeeps ==
  ASSUME IInv, NEW p \in Processes, Raise(p)
  PROVE  IInv'
<1> USE DEF IInv, Raise
<1>1. TypeOK'
  BY DEF TypeOK, Places
<1>2. InCall' /\ Holding'
  BY DEF TypeOK, InCall, Holding, Inside
<1>3. SeenCurrent'
  BY DEF TypeOK, SeenCurrent, InCall, Inside
<1>4. CachesBehindDisk'
  BY DEF TypeOK, CachesBehindDisk
<1>5. ReturnsAreTrue' /\ ExitsFitFills'
  BY DEF TypeOK, ReturnsAreTrue, ExitsFitFills, InCall, Inside
<1> QED
  BY <1>1, <1>2, <1>3, <1>4, <1>5

LEMMA ReleaseKeeps ==
  ASSUME IInv, NEW p \in Processes, Release(p)
  PROVE  IInv'
<1> USE DEF IInv, Release
<1>1. TypeOK'
  <2>1. call[p].decision \in Decisions
    BY CallShape DEF InCall, Inside
  <2>2. lock' \in [Decisions -> Processes \cup {Free}]
    BY DEF TypeOK
  <2>3. seen' \in [Processes -> RowOrNone]
    BY DEF TypeOK, RowOrNone
  <2> QED
    BY <2>2, <2>3 DEF TypeOK, Places
<1>2. InCall' /\ Holding'
  BY CallShape DEF TypeOK, InCall, Holding, Inside
<1>3. SeenCurrent'
  BY DEF TypeOK, SeenCurrent, InCall, Inside
<1>4. CachesBehindDisk'
  BY DEF TypeOK, CachesBehindDisk
<1>5. ReturnsAreTrue' /\ ExitsFitFills'
  BY DEF TypeOK, ReturnsAreTrue, ExitsFitFills, InCall, Inside
<1> QED
  BY <1>1, <1>2, <1>3, <1>4, <1>5

LEMMA GetKeeps ==
  ASSUME IInv, NEW p \in Processes, NEW e \in Decisions, Get(p, e)
  PROVE  IInv'
<1> USE DEF IInv, Get
<1>1. TypeOK'
  BY DEF TypeOK, Places
<1>2. InCall' /\ Holding'
  BY DEF TypeOK, InCall, Holding, Inside
<1>3. SeenCurrent'
  BY DEF TypeOK, SeenCurrent, InCall, Inside
<1>4. CachesBehindDisk'
  BY ExtendsReflexive DEF TypeOK, CachesBehindDisk
<1>5. ReturnsAreTrue' /\ ExitsFitFills'
  BY DEF TypeOK, ReturnsAreTrue, ExitsFitFills, InCall, Inside
<1> QED
  BY <1>1, <1>2, <1>3, <1>4, <1>5

LEMMA CrashKeeps ==
  ASSUME IInv, NEW p \in Processes, Crash(p)
  PROVE  IInv'
<1> USE DEF IInv, Crash, Freed
<1>1. TypeOK'
  BY DEF TypeOK, Places, RowOrNone, Freed
<1>2. InCall'
  BY DEF TypeOK, InCall, Inside
<1>3. \A x \in Processes : at'[x] \in Inside =>
        /\ x # p
        /\ lock[call[x].decision] = x
        /\ call'[x] = call[x]
        /\ call[x].decision \in Decisions
  BY CallShape DEF TypeOK, InCall, Holding, Inside
<1>4. \A x \in Processes, d \in Decisions : lock'[d] = x =>
        x # p /\ lock[d] = x /\ at'[x] = at[x] /\ call'[x] = call[x]
  BY DEF TypeOK
<1>5. Holding'
  BY <1>3, <1>4 DEF Holding, TypeOK
<1>6. SeenCurrent'
  BY DEF TypeOK, SeenCurrent, InCall, Inside
<1>7. CachesBehindDisk'
  BY DEF TypeOK, CachesBehindDisk, Extends
<1>8. ReturnsAreTrue' /\ ExitsFitFills'
  BY DEF TypeOK, ReturnsAreTrue, ExitsFitFills, InCall, Inside
<1> QED
  BY <1>1, <1>2, <1>5, <1>6, <1>7, <1>8

LEMMA RestartKeeps ==
  ASSUME IInv, NEW p \in Processes, Restart(p)
  PROVE  IInv'
<1> USE DEF IInv, Restart
<1>1. TypeOK'
  BY DEF TypeOK, Places
<1>2. InCall' /\ Holding'
  BY DEF TypeOK, InCall, Holding, Inside
<1>3. SeenCurrent'
  BY DEF TypeOK, SeenCurrent, InCall, Inside
<1>4. CachesBehindDisk'
  BY ExtendsReflexive DEF TypeOK, CachesBehindDisk
<1>5. ReturnsAreTrue' /\ ExitsFitFills'
  BY DEF TypeOK, ReturnsAreTrue, ExitsFitFills, InCall, Inside
<1> QED
  BY <1>1, <1>2, <1>3, <1>4, <1>5

\* Nobody else is inside a call on the decision p writes.
LEMMA WriteKeeps ==
  ASSUME IInv, NEW p \in Processes, Write(p)
  PROVE  IInv'
<1> DEFINE d == call[p].decision
           row == Written(call[p], seen[p])
<1>1. /\ at[p] = "deciding"
      /\ call[p] \in Calls
      /\ d \in Decisions
      /\ seen[p] = file[d]
      /\ file[d] \in RowOrNone
  BY CallShape DEF Write, IInv, InCall, SeenCurrent, Inside, TypeOK
<1>2. /\ file' = [file EXCEPT ![d] = row]
      /\ cache' = [cache EXCEPT ![p][d] = row]
      /\ at' = [at EXCEPT ![p] = "returning"]
      /\ UNCHANGED <<lock, call, seen, budget>>
  BY DEF Write, Return
<1>3. /\ row \in Rows
      /\ Fits(row)
      /\ Extends(row, file[d])
      /\ Satisfied(call[p], row)
  BY <1>1, WrittenRow DEF Write, IInv, ExitsFitFills
<1>4. \A x \in Processes : x # p /\ at[x] \in Inside =>
        call[x].decision \in Decisions /\ call[x].decision # d
  BY <1>1, CallShape DEF IInv, Holding, InCall, Inside
<1> HIDE DEF d, row
<1>5. TypeOK'
  <2>1. /\ file' \in [Decisions -> RowOrNone]
        /\ cache' \in [Processes -> [Decisions -> RowOrNone]]
    BY <1>1, <1>2, <1>3 DEF IInv, TypeOK, RowOrNone
  <2> QED
    BY <1>2, <2>1 DEF IInv, TypeOK, Places
<1>6. InCall' /\ Holding'
  <2>1. at'[p] \in Inside /\ at[p] \in Inside
    BY <1>1, <1>2 DEF Inside, IInv, TypeOK
  <2>2. \A x \in Processes : x # p => at'[x] = at[x]
    BY <1>2 DEF IInv, TypeOK
  <2> QED
    BY <1>2, <2>1, <2>2 DEF IInv, InCall, Holding
<1>7. SeenCurrent'
  <2> SUFFICES ASSUME NEW x \in Processes, at'[x] = "deciding"
               PROVE  seen[x] = file'[call[x].decision]
    BY <1>2 DEF SeenCurrent
  <2>1. x # p /\ at[x] = "deciding"
    BY <1>2 DEF IInv, TypeOK
  <2> QED
    BY <1>1, <1>2, <1>4, <2>1 DEF IInv, SeenCurrent, TypeOK, Inside
<1>8. CachesBehindDisk'
  <2> SUFFICES ASSUME NEW x \in Processes, NEW e \in Decisions
               PROVE  Extends(file'[e], cache'[x][e])
    BY DEF CachesBehindDisk
  <2>1. Extends(file[e], cache[x][e])
    BY DEF IInv, CachesBehindDisk
  <2>2. CASE e # d
    BY <1>2, <2>1, <2>2 DEF IInv, TypeOK
  <2>3. CASE e = d /\ x = p
    BY <1>1, <1>2, <2>3, ExtendsReflexive DEF IInv, TypeOK
  <2>4. CASE e = d /\ x # p
    <3>1. Extends(row, cache[x][e])
      BY <1>3, <2>1, <2>4, ExtendsTransitive
    <3> QED
      BY <1>1, <1>2, <2>4, <3>1 DEF IInv, TypeOK
  <2> QED
    BY <2>2, <2>3, <2>4
<1>9. ReturnsAreTrue'
  <2> SUFFICES ASSUME NEW x \in Processes, at'[x] = "returning"
               PROVE  Satisfied(call[x], file'[call[x].decision])
    BY <1>2 DEF ReturnsAreTrue
  <2>1. CASE x = p
    BY <1>1, <1>2, <1>3, <2>1 DEF IInv, TypeOK, d
  <2>2. CASE x # p
    BY <1>1, <1>2, <1>4, <2>2 DEF IInv, TypeOK, Inside, ReturnsAreTrue
  <2> QED
    BY <2>1, <2>2
<1>10. ExitsFitFills'
  BY <1>1, <1>2, <1>3 DEF IInv, TypeOK, ExitsFitFills
<1> QED
  BY <1>5, <1>6, <1>7, <1>8, <1>9, <1>10 DEF IInv

LEMMA NextKeeps == IInv /\ [Next]_vars => IInv'
<1> SUFFICES ASSUME IInv, [Next]_vars PROVE IInv'
  OBVIOUS
<1>1. ASSUME NEW p \in Processes, Step(p) PROVE IInv'
  <2>1. CASE Begin(p)
    BY <2>1, BeginKeeps
  <2>2. CASE Acquire(p)
    BY <2>2, AcquireKeeps
  <2>3. CASE GiveUp(p)
    BY <2>3, GiveUpKeeps
  <2>4. CASE Read(p)
    BY <2>4, ReadKeeps
  <2>5. CASE FindDone(p)
    BY <2>5, FindDoneKeeps
  <2>6. CASE Write(p)
    BY <2>6, WriteKeeps
  <2>7. CASE Raise(p)
    BY <2>7, RaiseKeeps
  <2>8. CASE Release(p)
    BY <2>8, ReleaseKeeps
  <2>9. CASE \E d \in Decisions : Get(p, d)
    BY <2>9, GetKeeps
  <2>10. CASE Crash(p)
    BY <2>10, CrashKeeps
  <2>11. CASE Restart(p)
    BY <2>11, RestartKeeps
  <2> QED
    BY <1>1, <2>1, <2>2, <2>3, <2>4, <2>5, <2>6, <2>7, <2>8, <2>9, <2>10, <2>11
       DEF Step, Advance
<1>2. CASE UNCHANGED vars
  BY <1>2 DEF vars, IInv, TypeOK, InCall, Holding, SeenCurrent, CachesBehindDisk,
     ReturnsAreTrue, ExitsFitFills
<1> QED
  BY <1>1, <1>2 DEF Next

THEOREM Invariance == Spec => []IInv
BY InitEstablishes, NextKeeps, PTL DEF Spec

\* Types of all variables, in every state.
THEOREM TypeCorrect == Spec => []TypeOK
<1>1. IInv => TypeOK
  BY DEF IInv
<1> QED
  BY <1>1, Invariance, PTL

\* What a process was told of a decision stays true on disk.
THEOREM ToldOnce == Spec => []CachesBehindDisk
<1>1. IInv => CachesBehindDisk
  BY DEF IInv
<1> QED
  BY <1>1, Invariance, PTL

\* A call that returns has taken effect.
THEOREM CallsTellTruth == Spec => []ReturnsAreTrue
<1>1. IInv => ReturnsAreTrue
  BY DEF IInv
<1> QED
  BY <1>1, Invariance, PTL

\* No row shows the exit of another position.
THEOREM ExitsFit == Spec => []ExitsFitFills
<1>1. IInv => ExitsFitFills
  BY DEF IInv
<1> QED
  BY <1>1, Invariance, PTL

\* A write of the store is a write of the record, or attaches an exit to it.
LEMMA WriteImplements ==
  ASSUME IInv, NEW p \in Processes, Write(p)
  PROVE  Audit!Next
<1> DEFINE d == call[p].decision
           c == call[p]
<1>1. /\ c \in Calls
      /\ d \in Decisions
      /\ seen[p] = file[d]
      /\ file[d] \in RowOrNone
      /\ Writable(c, file[d])
      /\ file' = [file EXCEPT ![d] = Written(c, file[d])]
  BY CallShape DEF Write, IInv, InCall, SeenCurrent, Inside, TypeOK
<1>2. CASE c.op = "attach_exit"
  <2>1. /\ file[d] \in Audit!Rows
        /\ file[d].exit = NoExit
        /\ c.exit \in Exits
        /\ Written(c, file[d]) = [file[d] EXCEPT !.exit = c.exit]
    BY <1>1, <1>2, CallShape DEF Writable, Written, RowOrNone, Rows, Audit!Rows
  <2>2. file' = [file EXCEPT ![d].exit = c.exit]
    BY <1>1, <2>1
  <2> QED
    BY <1>1, <2>1, <2>2 DEF Audit!Next, Audit!AttachExit
<1>3. CASE c.op # "attach_exit"
  <2>1. file[d] = NoRow /\ Written(c, file[d]) = c.row /\ c.row \in Audit!Rows
    BY <1>1, <1>3, CallShape DEF Writable, Written, Rows, Audit!Rows
  <2> QED
    BY <1>1, <2>1 DEF Audit!Next, Audit!Write
<1> QED
  BY <1>2, <1>3

\* The store implements the write-once record: whatever the processes do and
\* wherever they die, a row is written once and gets its exit once.
THEOREM StoreImplementsRecord == Spec => WriteOnce
<1>1. Init => Audit!Init
  BY DEF Init, Audit!Init
<1>2. IInv /\ [Next]_vars => [Audit!Next]_file
  <2> SUFFICES ASSUME IInv, NEW p \in Processes, Step(p), file' # file
               PROVE  Audit!Next
    BY DEF Next, vars
  <2>1. Write(p)
    BY DEF Step, Advance, Begin, Acquire, GiveUp, Read, FindDone, Raise, Release,
       Get, Crash, Restart
  <2> QED
    BY <2>1, WriteImplements
<1> QED
  BY <1>1, <1>2, Invariance, PTL DEF Spec, WriteOnce, Audit!Spec
=============================================================================
