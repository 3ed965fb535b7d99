-------------------------- MODULE PaperSessionProofs --------------------------
(***************************************************************************)
(* Proofs about PaperSession for every set of decisions and every bound.   *)
(*                                                                         *)
(* AuditNeverAhead is not inductive: what is written to the record was     *)
(* decided by an earlier step.  IInv adds what the steps in between know:  *)
(* a sync and a record are only reached after a checkpoint went through,   *)
(* and the engine in memory never falls behind the one on disk.            *)
(***************************************************************************)
EXTENDS PaperSession, TLAPS

\* A filled decision has a position, and no other has.
Numbered(e) ==
  \A d \in Decisions :
    e.position[d] # 0 <=> e.state[d] \in {"open", "closed"}

\* Engine e goes on from engine f: what was filled or closed stays so.
Follows(e, f) ==
  \A d \in Decisions :
    /\ f.state[d] = "closed" => e.state[d] = "closed"
    /\ f.state[d] = "open" => e.state[d] \in {"open", "closed"}
    /\ f.state[d] \in {"open", "closed"} => e.position[d] = f.position[d]

\* The step under way comes after a checkpoint.
AfterCheckpoint ==
  /\ step.at = "sync" => paper = disk
  /\ step.at = "record" /\ step.fill.accepted =>
       /\ disk.state[step.decision] \in {"open", "closed"}
       /\ disk.position[step.decision] = step.fill.position

IInv ==
  /\ TypeOK
  /\ Numbered(paper)
  /\ Numbered(disk)
  /\ Follows(paper, disk)
  /\ AfterCheckpoint
  /\ AuditNeverAhead
  /\ CyclesHaveRows

\* Going on composes.
LEMMA FollowsTransitive ==
  ASSUME NEW e, NEW f, NEW g, Follows(f, e), Follows(g, f)
  PROVE  Follows(g, e)
BY DEF Follows

\* A row that was backed by a checkpoint is backed by any later one.
LEMMA BackedByLater ==
  ASSUME AuditNeverAhead, Follows(disk', disk), UNCHANGED rows
  PROVE  AuditNeverAhead'
BY DEF AuditNeverAhead, Backed, Follows

-----------------------------------------------------------------------------
(* What the engine's handlers make of it                                   *)

\* on_snapshot closes open positions and does nothing else.
LEMMA MonitoredFollows ==
  ASSUME TypeOK, Numbered(paper), NEW closed \in SUBSET OpenIn(paper)
  PROVE  LET e == [paper EXCEPT !.state =
                     [d \in Decisions |-> IF d \in closed THEN "closed"
                                                          ELSE paper.state[d]]]
         IN e \in Engines /\ Numbered(e) /\ Follows(e, paper)
<1> DEFINE e == [paper EXCEPT !.state =
                   [d \in Decisions |-> IF d \in closed THEN "closed"
                                                        ELSE paper.state[d]]]
<1>1. paper \in Engines
  BY DEF TypeOK
<1>2. /\ e.position = paper.position
      /\ \A d \in Decisions :
           e.state[d] = IF d \in closed THEN "closed" ELSE paper.state[d]
  BY <1>1 DEF Engines
<1>3. e \in Engines
  BY <1>1 DEF Engines
<1>4. \A d \in closed : paper.state[d] = "open"
  BY DEF OpenIn
<1> HIDE DEF e
<1>5. Numbered(e) /\ Follows(e, paper)
  BY <1>2, <1>4 DEF Numbered, Follows
<1> QED
  BY <1>3, <1>5 DEF e

\* execute judges a decision once.
LEMMA ExecutedFollows ==
  ASSUME TypeOK, Numbered(paper), NEW d \in Decisions, NEW filled \in BOOLEAN,
         filled => issued < MaxPositions
  PROVE  /\ Executed(d, filled) \in Engines
         /\ Numbered(Executed(d, filled))
         /\ Follows(Executed(d, filled), paper)
         /\ Answer(d, filled) \in Fills
         /\ Answer(d, filled).accepted =>
              /\ Executed(d, filled).state[d] = "open"
              /\ Executed(d, filled).position[d] = Answer(d, filled).position
              /\ issued + 1 \in 0..MaxPositions
<1> DEFINE e == Executed(d, filled)
<1>1. /\ paper \in Engines /\ issued \in 0..MaxPositions /\ MaxPositions \in Nat
  BY SessionConstants DEF TypeOK
<1>2. CASE paper.state[d] # "new"
  <2>1. e = paper /\ ~ Answer(d, filled).accepted
    BY <1>2 DEF Executed, Answer
  <2>2. Answer(d, filled) \in Fills
    BY <1>1, <1>2, <2>1 DEF Answer, Fills, Engines
  <2> QED
    BY <1>1, <2>1, <2>2 DEF Follows
<1>3. CASE paper.state[d] = "new" /\ filled
  <2>1. issued + 1 \in 1..MaxPositions
    BY <1>1, <1>3
  <2>2. e = [state |-> [paper.state EXCEPT ![d] = "open"],
             position |-> [paper.position EXCEPT ![d] = issued + 1]]
    BY <1>3 DEF Executed
  <2>3. /\ e \in Engines /\ e.state[d] = "open" /\ e.position[d] = issued + 1
        /\ \A x \in Decisions : x # d =>
             e.state[x] = paper.state[x] /\ e.position[x] = paper.position[x]
    BY <1>1, <2>1, <2>2 DEF Engines
  <2>4. Answer(d, filled) = [accepted |-> TRUE, duplicate |-> FALSE,
                             position |-> e.position[d]]
    BY <1>3 DEF Answer
  <2> HIDE DEF e
  <2>5. Numbered(e) /\ Follows(e, paper)
    BY <1>1, <1>3, <2>1, <2>3 DEF Numbered, Follows
  <2>6. Answer(d, filled) \in Fills
    BY <2>1, <2>3, <2>4 DEF Fills
  <2> QED
    BY <2>1, <2>3, <2>4, <2>5, <2>6 DEF e
<1>4. CASE paper.state[d] = "new" /\ ~ filled
  <2>1. e = [paper EXCEPT !.state[d] = "refused"] /\ ~ Answer(d, filled).accepted
    BY <1>4 DEF Executed, Answer
  <2>2. /\ e \in Engines /\ e.position = paper.position
        /\ \A x \in Decisions : x # d => e.state[x] = paper.state[x]
        /\ e.state[d] = "refused"
    BY <1>1, <2>1 DEF Engines
  <2>3. Answer(d, filled) \in Fills
    BY <1>1, <1>4, <2>2 DEF Answer, Fills, Engines
  <2> HIDE DEF e
  <2>4. Numbered(e) /\ Follows(e, paper)
    BY <1>1, <1>4, <2>2 DEF Numbered, Follows
  <2> QED
    BY <2>1, <2>2, <2>3, <2>4 DEF e
<1> QED
  BY <1>2, <1>3, <1>4

\* A checkpoint that goes through or raises leaves engine and disk in step.
LEMMA KeptInStep ==
  ASSUME IInv, NEW e, e \in Engines, Numbered(e), Follows(e, paper),
         Saved(e) \/ Unsaved(e), UNCHANGED rows
  PROVE  /\ paper' \in Engines /\ disk' \in Engines /\ faults' \in 0..MaxFaults
         /\ Numbered(paper)' /\ Numbered(disk)' /\ Follows(paper, disk)'
         /\ AuditNeverAhead'
<1>1. TypeOK /\ Numbered(disk) /\ Follows(paper, disk) /\ AuditNeverAhead
  BY DEF IInv
<1>2. Follows(e, disk)
  BY <1>1, FollowsTransitive
<1>3. paper' = e /\ (disk' = e \/ disk' = disk)
  BY DEF Saved, Unsaved
<1>4. faults' \in 0..MaxFaults
  BY <1>1, SessionConstants DEF Saved, Unsaved, TypeOK
<1>5. Follows(e, e) /\ Follows(disk, disk)
  BY DEF Follows
<1>6. Follows(disk', disk)
  BY <1>2, <1>3, <1>5
<1>7. Numbered(paper)' /\ Numbered(disk)' /\ Follows(paper, disk)'
  BY <1>1, <1>2, <1>3, <1>5 DEF Numbered, Follows
<1> QED
  BY <1>1, <1>3, <1>4, <1>6, <1>7, BackedByLater DEF TypeOK

-----------------------------------------------------------------------------
(* The steps of a session                                                  *)

\* Steps that leave engine, checkpoint and record alone.
LEMMA QuietStep ==
  ASSUME IInv, UNCHANGED <<paper, disk, rows>>, TypeOK',
         AfterCheckpoint', CyclesHaveRows'
  PROVE  IInv'
BY DEF IInv, Numbered, Follows, AuditNeverAhead, Backed

\* start, end of a sync, no decision, a failing store, a skipped monitor
LEMMA IdleSteps ==
  ASSUME IInv,
         \/ Start \/ AttachDone \/ NoDecision \/ StoreFails
         \/ \E healthy \in BOOLEAN : SkipMonitor(healthy)
  PROVE  IInv'
<1>1. TypeOK /\ AfterCheckpoint /\ CyclesHaveRows
  BY DEF IInv
<1>2. UNCHANGED <<paper, disk, rows, wired, cycles, issued>>
  BY DEF Start, AttachDone, NoDecision, StoreFails, SkipMonitor
<1>3. CyclesHaveRows'
  BY <1>1, <1>2 DEF CyclesHaveRows
<1>4. status' \in {"CREATED", "RUNNING", "ENDED"} /\ faults' \in 0..MaxFaults
  BY <1>1, SessionConstants
  DEF TypeOK, Start, AttachDone, NoDecision, StoreFails, SkipMonitor
<1>5. CASE Start
  <2>1. step' = step
    BY <1>5 DEF Start
  <2> QED
    BY <1>1, <1>2, <1>3, <1>4, <2>1, QuietStep DEF TypeOK, AfterCheckpoint
<1>6. CASE step' = Idle
  <2>1. step' \in Steps /\ step'.at = "idle"
    BY <1>6 DEF Steps, Idle
  <2>2. AfterCheckpoint'
    BY <2>1 DEF AfterCheckpoint
  <2> QED
    BY <1>1, <1>2, <1>3, <1>4, <2>1, <2>2, QuietStep DEF TypeOK
<1>7. CASE step' \in [at : {"decide"}, decide : BOOLEAN]
  <2>1. step' \in Steps /\ step'.at = "decide"
    BY <1>7 DEF Steps
  <2>2. AfterCheckpoint'
    BY <2>1 DEF AfterCheckpoint
  <2> QED
    BY <1>1, <1>2, <1>3, <1>4, <2>1, <2>2, QuietStep DEF TypeOK
<1>8. NoDecision \/ StoreFails => step' = Idle
  BY DEF NoDecision, StoreFails, Raised
<1>9. (\E healthy \in BOOLEAN : SkipMonitor(healthy)) =>
        step' \in [at : {"decide"}, decide : BOOLEAN]
  BY DEF SkipMonitor
<1>10. AttachDone => step' \in [at : {"decide"}, decide : BOOLEAN]
  <2> SUFFICES ASSUME AttachDone
               PROVE  step' \in [at : {"decide"}, decide : BOOLEAN]
    OBVIOUS
  <2>1. step.at = "sync" /\ step' = [step EXCEPT !.at = "decide"]
    BY DEF AttachDone
  <2>2. step \in [at : {"sync", "decide"}, decide : BOOLEAN]
    BY <1>1, <2>1 DEF TypeOK, Steps, Idle
  <2> QED
    BY <2>1, <2>2
<1> QED
  BY <1>5, <1>6, <1>7, <1>8, <1>9, <1>10

\* A snapshot is marked and positions are exited.
LEMMA MonitorStep ==
  ASSUME IInv, NEW closed \in SUBSET OpenIn(paper), NEW decide \in BOOLEAN,
         NEW healthy \in BOOLEAN, Monitor(closed, decide, healthy)
  PROVE  IInv'
<1> DEFINE e == [paper EXCEPT !.state =
                   [d \in Decisions |-> IF d \in closed THEN "closed"
                                                        ELSE paper.state[d]]]
<1>1. TypeOK /\ Numbered(paper) /\ CyclesHaveRows
  BY DEF IInv
<1>2. paper \in Engines
  BY <1>1 DEF TypeOK
<1>3. \/ Saved(e) /\ step' = Plan(decide, healthy)
      \/ Unsaved(e) /\ step' = Idle
  BY DEF Monitor, Raised
<1>4. UNCHANGED <<status, rows, wired, cycles, issued>>
  BY DEF Monitor
<1>5. e \in Engines /\ Numbered(e) /\ Follows(e, paper)
  BY <1>1, MonitoredFollows
<1> HIDE DEF e
<1>6. /\ paper' \in Engines /\ disk' \in Engines /\ faults' \in 0..MaxFaults
      /\ Numbered(paper)' /\ Numbered(disk)' /\ Follows(paper, disk)'
      /\ AuditNeverAhead'
  BY <1>3, <1>4, <1>5, KeptInStep
<1>7. Plan(decide, healthy) \in [at : {"sync", "decide"}, decide : BOOLEAN]
  BY DEF Plan
<1>8. step' \in Steps
  BY <1>3, <1>7 DEF Steps, Idle
<1>9. AfterCheckpoint'
  <2>1. CASE Saved(e) /\ step' = Plan(decide, healthy)
    <3>1. step'.at # "record" /\ paper' = disk'
      BY <2>1, <1>7 DEF Saved
    <3> QED
      BY <3>1 DEF AfterCheckpoint
  <2>2. CASE step' = Idle
    <3>1. step'.at = "idle"
      BY <2>2 DEF Idle
    <3> QED
      BY <3>1 DEF AfterCheckpoint
  <2> QED
    BY <1>3, <2>1, <2>2
<1> QED
  BY <1>1, <1>4, <1>6, <1>8, <1>9 DEF IInv, TypeOK, CyclesHaveRows

\* The exit of a closed position is attached to the row of its fill.
LEMMA AttachStep ==
  ASSUME IInv, NEW d \in Decisions, AttachNext(d)
  PROVE  IInv'
<1>1. /\ TypeOK /\ Numbered(paper) /\ AfterCheckpoint
      /\ AuditNeverAhead /\ CyclesHaveRows
  BY DEF IInv
<1>2. /\ step.at = "sync" /\ Unattached(d)
      /\ rows' = [rows EXCEPT ![d].exit = paper.position[d]]
      /\ UNCHANGED <<status, step, paper, disk, wired, cycles, issued, faults>>
  BY DEF AttachNext, Record!AttachExit
<1>3. paper = disk
  BY <1>1, <1>2 DEF AfterCheckpoint
<1>4. paper.position[d] \in PositionIds
  BY <1>1, <1>2, SessionConstants
  DEF TypeOK, Numbered, Unattached, Engines, PositionIds
<1>5. rows[d] \in Record!Rows
  BY <1>1, <1>2 DEF TypeOK, Unattached
<1>6. /\ rows'[d] = [fill |-> rows[d].fill, exit |-> paper.position[d]]
      /\ \A x \in Decisions : x # d => rows'[x] = rows[x]
      /\ rows' \in [Decisions -> Record!Rows \cup {NoRow}]
  BY <1>1, <1>2, <1>4, <1>5 DEF TypeOK, Record!Rows
<1>7. rows'[d] \in Record!Rows
  BY <1>4, <1>5, <1>6 DEF Record!Rows
<1>8. rows'[d] # NoRow
  BY <1>7, SessionConstants DEF Record!Rows, Fills, PositionIds
<1>9. TypeOK'
  BY <1>1, <1>2, <1>6 DEF TypeOK
<1>10. AuditNeverAhead'
  <2>1. Backed(d)'
    BY <1>1, <1>2, <1>3, <1>6 DEF AuditNeverAhead, Backed, Unattached
  <2>2. \A x \in Decisions : x # d => Backed(x)'
    BY <1>1, <1>2, <1>6 DEF AuditNeverAhead, Backed
  <2> QED
    BY <2>1, <2>2 DEF AuditNeverAhead
<1>11. CyclesHaveRows'
  BY <1>1, <1>2, <1>6, <1>8 DEF CyclesHaveRows, TypeOK
<1> QED
  BY <1>1, <1>2, <1>9, <1>10, <1>11 DEF IInv, AfterCheckpoint, Numbered, Follows

\* A decision is executed and the checkpoint is written, or not.
LEMMA ExecuteStep ==
  ASSUME IInv, NEW d \in Decisions, NEW filled \in BOOLEAN, Execute(d, filled)
  PROVE  IInv'
<1> DEFINE e == Executed(d, filled)
           answer == Answer(d, filled)
<1>1. TypeOK /\ Numbered(paper) /\ CyclesHaveRows
  BY DEF IInv
<1>2. filled => issued < MaxPositions
  BY DEF Execute
<1>3. \/ Saved(e) /\ step' = [at |-> "record", decision |-> d, fill |-> answer]
      \/ Unsaved(e) /\ step' = Idle
  BY DEF Execute, Raised
<1>4. /\ UNCHANGED <<status, rows, wired, cycles>>
      /\ issued' = IF answer.accepted THEN issued + 1 ELSE issued
  BY DEF Execute
<1>5. /\ e \in Engines /\ Numbered(e) /\ Follows(e, paper) /\ answer \in Fills
      /\ answer.accepted => /\ e.state[d] = "open"
                            /\ e.position[d] = answer.position
                            /\ issued + 1 \in 0..MaxPositions
  BY <1>1, <1>2, ExecutedFollows
<1> HIDE DEF e, answer
<1>6. /\ paper' \in Engines /\ disk' \in Engines /\ faults' \in 0..MaxFaults
      /\ Numbered(paper)' /\ Numbered(disk)' /\ Follows(paper, disk)'
      /\ AuditNeverAhead'
  BY <1>3, <1>4, <1>5, KeptInStep
<1>7. step' \in Steps
  BY <1>3, <1>5 DEF Steps, Idle
<1>8. issued' \in 0..MaxPositions
  BY <1>1, <1>4, <1>5 DEF TypeOK
<1>9. AfterCheckpoint'
  <2>1. CASE Saved(e) /\ step' = [at |-> "record", decision |-> d, fill |-> answer]
    <3>1. disk' = e /\ step'.at = "record" /\ step'.decision = d /\ step'.fill = answer
      BY <2>1 DEF Saved
    <3> QED
      BY <3>1, <1>5 DEF AfterCheckpoint
  <2>2. CASE step' = Idle
    <3>1. step'.at = "idle"
      BY <2>2 DEF Idle
    <3> QED
      BY <3>1 DEF AfterCheckpoint
  <2> QED
    BY <1>3, <2>1, <2>2
<1> QED
  BY <1>1, <1>4, <1>6, <1>7, <1>8, <1>9 DEF IInv, TypeOK, CyclesHaveRows

\* record_cycle writes the first row of a decision.
LEMMA WriteRowStep ==
  ASSUME IInv, WriteRow
  PROVE  IInv'
<1> DEFINE d == step.decision
           row == [fill |-> step.fill, exit |-> NoExit]
<1>1. TypeOK /\ AfterCheckpoint /\ AuditNeverAhead /\ CyclesHaveRows
  BY DEF IInv
<1>2. /\ step.at = "record" /\ step' = Idle /\ cycles' = cycles \cup {d}
      /\ rows' = IF wired /\ rows[d] = NoRow THEN [rows EXCEPT ![d] = row] ELSE rows
      /\ UNCHANGED <<status, paper, disk, wired, issued, faults>>
  BY DEF WriteRow, Record!Write
<1>3. d \in Decisions /\ step.fill \in Fills
  BY <1>1, <1>2 DEF TypeOK, Steps, Idle
<1>4. row \in Record!Rows /\ row # NoRow /\ row.fill = step.fill /\ row.exit = NoExit
  BY <1>3, SessionConstants DEF Record!Rows, Fills, PositionIds
<1>5. step'.at = "idle" /\ step' \in Steps
  BY <1>2 DEF Steps, Idle
<1> HIDE DEF row
<1>6. \A x \in Decisions : rows'[x] = rows[x] \/ (x = d /\ rows'[x] = row)
  BY <1>1, <1>2, <1>3 DEF TypeOK
<1>7. TypeOK'
  BY <1>1, <1>2, <1>3, <1>4, <1>5 DEF TypeOK
<1>8. AuditNeverAhead'
  <2>1. ASSUME NEW x \in Decisions
        PROVE  Backed(x)'
    <3>1. CASE rows'[x] = rows[x]
      BY <3>1, <1>1, <1>2 DEF AuditNeverAhead, Backed
    <3>2. CASE x = d /\ rows'[x] = row
      BY <3>2, <1>1, <1>2, <1>4 DEF AfterCheckpoint, Backed
    <3> QED
      BY <3>1, <3>2, <1>6
  <2> QED
    BY <2>1 DEF AuditNeverAhead
<1>9. CyclesHaveRows'
  BY <1>1, <1>2, <1>3, <1>4 DEF TypeOK, CyclesHaveRows
<1> QED
  BY <1>2, <1>5, <1>7, <1>8, <1>9 DEF IInv, AfterCheckpoint, Numbered, Follows

\* The session ends, or the process dies and another one takes over.
LEMMA LastSteps ==
  ASSUME IInv, End \/ \E rewire \in BOOLEAN : Restart(rewire)
  PROVE  IInv'
<1>1. /\ TypeOK /\ Numbered(paper) /\ Numbered(disk)
      /\ AfterCheckpoint /\ AuditNeverAhead /\ CyclesHaveRows
  BY DEF IInv
<1>2. CASE End
  <2>1. /\ step = Idle /\ UNCHANGED <<step, rows, wired, cycles, issued>>
        /\ status' = "ENDED" /\ (Saved(paper) \/ Unsaved(paper))
    BY <1>2 DEF End, Ready
  <2>2. paper \in Engines /\ Follows(paper, paper)
    BY <1>1 DEF TypeOK, Follows
  <2>3. /\ paper' \in Engines /\ disk' \in Engines /\ faults' \in 0..MaxFaults
        /\ Numbered(paper)' /\ Numbered(disk)' /\ Follows(paper, disk)'
        /\ AuditNeverAhead'
    BY <1>1, <2>1, <2>2, KeptInStep
  <2>4. step'.at = "idle"
    BY <2>1 DEF Idle
  <2> QED
    BY <1>1, <2>1, <2>3, <2>4 DEF IInv, TypeOK, AfterCheckpoint, CyclesHaveRows
<1>3. ASSUME NEW rewire \in BOOLEAN, Restart(rewire)
      PROVE  IInv'
  <2>1. /\ status' = "CREATED" /\ step' = Idle /\ paper' = disk
        /\ wired' = rewire /\ cycles' = {} /\ faults < MaxFaults
        /\ faults' = faults + 1 /\ UNCHANGED <<disk, rows, issued>>
    BY <1>3 DEF Restart
  <2>2. step'.at = "idle" /\ step' \in Steps
    BY <2>1 DEF Steps, Idle
  <2>3. TypeOK'
    BY <1>1, <2>1, <2>2, SessionConstants DEF TypeOK
  <2>4. Numbered(paper)' /\ Numbered(disk)' /\ Follows(paper, disk)' /\ AuditNeverAhead'
    BY <1>1, <2>1 DEF Numbered, Follows, AuditNeverAhead, Backed
  <2> QED
    BY <2>1, <2>2, <2>3, <2>4 DEF IInv, AfterCheckpoint, CyclesHaveRows
<1> QED
  BY <1>2, <1>3

\* Every step keeps the invariant.
LEMMA NextKeeps ==
  ASSUME IInv, [Next]_vars
  PROVE  IInv'
<1>1. CASE UNCHANGED vars
  BY <1>1 DEF vars, IInv, TypeOK, Numbered, Follows, AfterCheckpoint,
     AuditNeverAhead, Backed, CyclesHaveRows
<1>2. CASE Process
  BY <1>2, IdleSteps, AttachStep, ExecuteStep, WriteRowStep DEF Process
<1> QED
  BY <1>1, <1>2, IdleSteps, MonitorStep, LastSteps DEF Next

\* The invariant holds throughout.
THEOREM Invariance == Spec => []IInv
<1>1. Init => IInv
  <2> SUFFICES ASSUME Init
               PROVE  IInv
    OBVIOUS
  <2>1. NewEngine \in Engines /\ Numbered(NewEngine) /\ Follows(NewEngine, NewEngine)
    BY SessionConstants DEF NewEngine, Engines, Numbered, Follows
  <2>2. step.at = "idle" /\ step \in Steps
    BY DEF Init, Idle, Steps
  <2>3. TypeOK
    BY <2>1, <2>2, SessionConstants DEF Init, TypeOK, Record!Init
  <2> QED
    BY <2>1, <2>2, <2>3
    DEF Init, IInv, AfterCheckpoint, AuditNeverAhead, Backed, CyclesHaveRows, Record!Init
<1>2. IInv /\ [Next]_vars => IInv'
  BY NextKeeps
<1> QED
  BY <1>1, <1>2, PTL DEF Spec

\* Every variable of a session has the shape the code gives it.
THEOREM TypeCorrect == Spec => []TypeOK
<1>1. IInv => TypeOK
  BY DEF IInv
<1> QED
  BY <1>1, Invariance, PTL

\* The trade replay record never says more than the paper checkpoint.
THEOREM RecordBehindCheckpoint == Spec => []AuditNeverAhead
<1>1. IInv => AuditNeverAhead
  BY DEF IInv
<1> QED
  BY <1>1, Invariance, PTL

\* Whatever the summary counts as a cycle is in the record.
THEOREM CountedCyclesRecorded == Spec => []CyclesHaveRows
<1>1. IInv => CyclesHaveRows
  BY DEF IInv
<1> QED
  BY <1>1, Invariance, PTL

-----------------------------------------------------------------------------
(* The session keeps to the lifecycle of the engine                        *)

\* A handler's result, kept or not.
LEMMA KeepMaps ==
  ASSUME NEW e, Saved(e) \/ Unsaved(e)
  PROVE  paper'.state = e.state /\ disk'.state \in {e.state, disk.state}
BY DEF Saved, Unsaved

\* Every step of a session is one of the engine's, or none.
LEMMA StepMaps ==
  ASSUME TypeOK, [Next]_vars
  PROVE  [Engine!Next]_<<paper.state, disk.state>>
<1>0. paper \in Engines /\ disk \in Engines
  BY DEF TypeOK
<1>1. ASSUME UNCHANGED <<paper, disk>>
      PROVE  UNCHANGED <<paper.state, disk.state>>
  BY <1>1
<1>2. CASE UNCHANGED vars
  BY <1>1, <1>2 DEF vars
<1>3. CASE \/ Start \/ AttachDone \/ NoDecision \/ StoreFails \/ WriteRow
           \/ \E d \in Decisions : AttachNext(d)
           \/ \E healthy \in BOOLEAN : SkipMonitor(healthy)
  BY <1>1, <1>3
  DEF Start, AttachDone, NoDecision, StoreFails, WriteRow, AttachNext, SkipMonitor
<1>4. ASSUME NEW closed \in SUBSET OpenIn(paper), NEW decide \in BOOLEAN,
             NEW healthy \in BOOLEAN, Monitor(closed, decide, healthy)
      PROVE  Engine!Next
  <2> DEFINE s == [d \in Decisions |-> IF d \in closed THEN "closed"
                                                       ELSE paper.state[d]]
             e == [paper EXCEPT !.state = s]
  <2>1. Saved(e) \/ Unsaved(e)
    BY <1>4 DEF Monitor
  <2>2. e.state = s
    BY <1>0 DEF Engines
  <2> HIDE DEF e
  <2>3. paper'.state = s /\ disk'.state \in {s, disk.state}
    BY <2>1, <2>2, KeepMaps
  <2>4. closed \in SUBSET Engine!Opened
    BY DEF OpenIn, Engine!Opened
  <2>5. Engine!Close(closed)
    BY <2>3, <2>4 DEF Engine!Close, Engine!Keep
  <2> QED
    BY <2>4, <2>5 DEF Engine!Next
<1>5. ASSUME NEW e, e.state = paper.state, Saved(e) \/ Unsaved(e)
      PROVE  Engine!Next
  <2>1. paper.state = [d \in Decisions |-> IF d \in {} THEN "closed" ELSE paper.state[d]]
    BY <1>0 DEF Engines
  <2>2. paper'.state = paper.state /\ disk'.state \in {paper.state, disk.state}
    BY <1>5, KeepMaps
  <2>3. {} \in SUBSET Engine!Opened
    OBVIOUS
  <2>4. Engine!Close({})
    BY <2>1, <2>2 DEF Engine!Close, Engine!Keep
  <2> QED
    BY <2>3, <2>4 DEF Engine!Next
<1>6. ASSUME NEW d \in Decisions, NEW filled \in BOOLEAN, Execute(d, filled)
      PROVE  Engine!Next
  <2> DEFINE e == Executed(d, filled)
  <2>1. Saved(e) \/ Unsaved(e)
    BY <1>6 DEF Execute
  <2>2. CASE paper.state[d] # "new"
    <3>1. e.state = paper.state
      BY <2>2 DEF Executed
    <3> QED
      BY <3>1, <2>1, <1>5
  <2>3. CASE paper.state[d] = "new"
    <3>1. PICK outcome \in {"refused", "open"} :
            e.state = [paper.state EXCEPT ![d] = outcome]
      BY <2>3, <1>0 DEF Executed, Engines
    <3> HIDE DEF e
    <3>2. /\ paper'.state = [paper.state EXCEPT ![d] = outcome]
          /\ disk'.state \in {[paper.state EXCEPT ![d] = outcome], disk.state}
      BY <2>1, <3>1, KeepMaps
    <3>3. Engine!Execute(d)
      BY <2>3, <3>2 DEF Engine!Execute, Engine!Keep
    <3> QED
      BY <3>3 DEF Engine!Next
  <2> QED
    BY <2>2, <2>3
<1>7. CASE End
  BY <1>5, <1>7 DEF End
<1>8. CASE \E rewire \in BOOLEAN : Restart(rewire)
  BY <1>8 DEF Restart, Engine!Next, Engine!Restart
<1> QED
  BY <1>2, <1>3, <1>4, <1>6, <1>7, <1>8 DEF Next, Process

\* Whatever raises or dies between its steps, the session uses the engine as
\* EngineLifecycle allows.
THEOREM SessionKeepsEngine == Spec => EngineKept
<1>1. Init => Engine!Init
  BY DEF Init, NewEngine, Engine!Init, Engine!New
<1>2. TypeOK /\ [Next]_vars => [Engine!Next]_<<paper.state, disk.state>>
  BY StepMaps
<1> QED
  BY <1>1, <1>2, TypeCorrect, PTL DEF Spec, EngineKept, Engine!Spec
=============================================================================
