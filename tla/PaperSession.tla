---------------------------- MODULE PaperSession ----------------------------
(***************************************************************************)
(* One paper session: grow/campaign/session.py drives the campaign runner  *)
(* (runner.py), which drives the paper engine and its checkpoint and the   *)
(* trade replay store (replay.py).  The engine is the one of PaperEngine,  *)
(* seen from outside, as EngineLifecycle has it: a decision is new,        *)
(* refused, open or closed, and has a position once it was filled.  The    *)
(* store is the write-once record of AuditRecord, which ReplayStore        *)
(* implements.                                                             *)
(*                                                                         *)
(* A snapshot is processed in steps, each of which may raise and after     *)
(* each of which the process may die:                                      *)
(*   mark and exit, checkpoint -> attach the exits, one by one             *)
(*     -> execute a decision, checkpoint -> write its row.                 *)
(* An exception leaves the session RUNNING; the driver may go on.  After a *)
(* death the next process restores the checkpoint and starts a session.    *)
(*                                                                         *)
(* A position is a number: register_open draws a fresh id.                 *)
(* An operator X_fault is X with a programming error; nothing uses it.     *)
(***************************************************************************)
EXTENDS Naturals, FiniteSets

CONSTANTS
  Decisions,
  NoRow,
  NoExit,
  MaxPositions,  \* bound: positions ever opened
  MaxFaults      \* bound: exceptions and deaths

ASSUME SessionConstants ==
  /\ MaxPositions \in Nat
  /\ MaxFaults \in Nat
  /\ NoExit \notin 1..MaxPositions
  /\ NoRow \notin [fill : [accepted : BOOLEAN, duplicate : BOOLEAN,
                           position : 0..MaxPositions],
                   exit : 1..MaxPositions \cup {NoExit}]

PositionIds == 1..MaxPositions

\* What build_replay_record says of an execution; position 0: none.
Fills ==
  [accepted : BOOLEAN, duplicate : BOOLEAN, position : 0..MaxPositions]

VARIABLES
  status,   \* CREATED, RUNNING or ENDED
  step,     \* where process_snapshot is
  paper,    \* the engine in memory
  disk,     \* the engine's last checkpoint
  rows,     \* the replay store's rows
  wired,    \* the runner has a replay store
  cycles,   \* decisions of the cycles this session has counted
  issued,   \* positions opened so far, by any process
  faults

vars == <<status, step, paper, disk, rows, wired, cycles, issued, faults>>

Record == INSTANCE AuditRecord WITH Exits <- PositionIds

Engine == INSTANCE EngineLifecycle WITH state <- paper.state, saved <- disk.state

Idle == [at |-> "idle"]

\* A new engine, which is also what a restart without a checkpoint begins with.
NewEngine ==
  [state |-> [d \in Decisions |-> "new"], position |-> [d \in Decisions |-> 0]]

OpenIn(e) == {d \in Decisions : e.state[d] = "open"}

\* The engine's checkpoint goes through, or raises.
Saved(e) == paper' = e /\ disk' = e /\ UNCHANGED faults

Unsaved(e) ==
  faults < MaxFaults /\ faults' = faults + 1 /\ paper' = e /\ UNCHANGED disk

\* Where an exception leaves the session.
Raised == step' = Idle

-----------------------------------------------------------------------------
(* start, process_snapshot, end                                            *)

Start ==
  /\ status = "CREATED"
  /\ status' = "RUNNING"
  /\ UNCHANGED <<step, paper, disk, rows, wired, cycles, issued, faults>>

Ready == status = "RUNNING" /\ step = Idle

\* The driver asks for a decision, and check_market finds the quality OK.
Plan_fault(decide, healthy) ==
  [at |-> IF wired /\ healthy THEN "sync" ELSE "decide", decide |-> decide /\ healthy]

Plan(decide, healthy) ==
  [at |-> IF wired THEN "sync" ELSE "decide", decide |-> decide /\ healthy]

\* PaperExecutionEngine.on_snapshot closes some positions; a snapshot whose
\* quality is not OK closes none.
Monitor(closed, decide, healthy) ==
  LET e == [paper EXCEPT !.state =
              [d \in Decisions |-> IF d \in closed THEN "closed" ELSE @[d]]]
  IN /\ Ready
     /\ ~ healthy => closed = {}
     /\ \/ Saved(e) /\ step' = Plan(decide, healthy)
        \/ Unsaved(e) /\ Raised
     /\ UNCHANGED <<status, rows, wired, cycles, issued>>

\* process_snapshot with monitor = False
SkipMonitor(healthy) ==
  /\ Ready
  /\ step' = [at |-> "decide", decide |-> healthy]
  /\ UNCHANGED <<status, paper, disk, rows, wired, cycles, issued, faults>>

\* sync_exits_from_paper: the closed positions whose row is of the filled cycle
Unattached(d) ==
  /\ rows[d] # NoRow
  /\ rows[d].fill.accepted
  /\ rows[d].exit = NoExit
  /\ paper.state[d] = "closed"
  /\ rows[d].fill.position = paper.position[d]

\* They are attached in the order they were opened in.
AttachNext(d) ==
  /\ step.at = "sync"
  /\ Unattached(d)
  /\ \A x \in Decisions : Unattached(x) => paper.position[d] <= paper.position[x]
  /\ Record!AttachExit(d, paper.position[d])
  /\ UNCHANGED <<status, step, paper, disk, wired, cycles, issued, faults>>

AttachDone ==
  /\ step.at = "sync"
  /\ \A d \in Decisions : ~ Unattached(d)
  /\ step' = [step EXCEPT !.at = "decide"]
  /\ UNCHANGED <<status, paper, disk, rows, wired, cycles, issued, faults>>

\* No decision on this snapshot: none was asked for or the market is not OK.
NoDecision ==
  /\ step.at = "decide"
  /\ ~ step.decide
  /\ step' = Idle
  /\ UNCHANGED <<status, paper, disk, rows, wired, cycles, issued, faults>>

\* The engine after execute(d), and what it answers.
Executed_fault(d, filled) ==
  IF filled
    THEN [state |-> [paper.state EXCEPT ![d] = "open"],
          position |-> [paper.position EXCEPT ![d] = issued + 1]]
    ELSE [paper EXCEPT !.state[d] = "refused"]

Executed(d, filled) ==
  IF paper.state[d] # "new" THEN paper
  ELSE IF filled
    THEN [state |-> [paper.state EXCEPT ![d] = "open"],
          position |-> [paper.position EXCEPT ![d] = issued + 1]]
    ELSE [paper EXCEPT !.state[d] = "refused"]

Answer(d, filled) ==
  LET duplicate == paper.state[d] # "new"
  IN [accepted |-> filled /\ ~ duplicate,
      duplicate |-> duplicate,
      position |-> Executed(d, filled).position[d]]

Execute_fault(d, filled) ==
  /\ step.at = "decide"
  /\ step.decide
  /\ filled => issued < MaxPositions
  /\ Saved(Executed(d, filled)) \/ Unsaved(Executed(d, filled))
  /\ step' = [at |-> "record", decision |-> d, fill |-> Answer(d, filled)]
  /\ issued' = IF Answer(d, filled).accepted THEN issued + 1 ELSE issued
  /\ UNCHANGED <<status, rows, wired, cycles>>

Execute(d, filled) ==
  /\ step.at = "decide"
  /\ step.decide
  /\ filled => issued < MaxPositions
  /\ \/ /\ Saved(Executed(d, filled))
        /\ step' = [at |-> "record", decision |-> d, fill |-> Answer(d, filled)]
     \/ Unsaved(Executed(d, filled)) /\ Raised
  /\ issued' = IF Answer(d, filled).accepted THEN issued + 1 ELSE issued
  /\ UNCHANGED <<status, rows, wired, cycles>>

\* record_cycle writes the row unless there is one, or there is no store; then
\* the session counts the cycle.
WriteRow ==
  /\ step.at = "record"
  /\ IF wired /\ rows[step.decision] = NoRow
       THEN Record!Write(step.decision, [fill |-> step.fill, exit |-> NoExit])
       ELSE UNCHANGED rows
  /\ cycles' = cycles \cup {step.decision}
  /\ step' = Idle
  /\ UNCHANGED <<status, paper, disk, wired, issued, faults>>

\* A write of the store raises, in the sync or in record_cycle.
StoreFails ==
  /\ step.at \in {"sync", "record"}
  /\ wired
  /\ faults < MaxFaults
  /\ faults' = faults + 1
  /\ Raised
  /\ UNCHANGED <<status, paper, disk, rows, wired, cycles, issued>>

\* The status is ENDED before the last checkpoint is tried.
End ==
  /\ Ready
  /\ status' = "ENDED"
  /\ Saved(paper) \/ Unsaved(paper)
  /\ UNCHANGED <<step, rows, wired, cycles, issued>>

\* The process dies; CampaignRunner.from_checkpoint, whose runner has no store
\* unless the caller gives it one, and a new session.
Restart(rewire) ==
  /\ faults < MaxFaults
  /\ faults' = faults + 1
  /\ status' = "CREATED"
  /\ step' = Idle
  /\ paper' = disk
  /\ wired' = rewire
  /\ cycles' = {}
  /\ UNCHANGED <<disk, rows, issued>>

-----------------------------------------------------------------------------

Init ==
  /\ status = "CREATED"
  /\ step = Idle
  /\ paper = NewEngine
  /\ disk = NewEngine
  /\ Record!Init
  /\ wired = TRUE
  /\ cycles = {}
  /\ issued = 0
  /\ faults = 0

Process ==
  \/ \E d \in Decisions : AttachNext(d)
  \/ AttachDone
  \/ NoDecision
  \/ \E d \in Decisions, filled \in BOOLEAN : Execute(d, filled)
  \/ WriteRow

Next ==
  \/ Start
  \/ \E closed \in SUBSET OpenIn(paper), decide, healthy \in BOOLEAN :
       Monitor(closed, decide, healthy)
  \/ \E healthy \in BOOLEAN : SkipMonitor(healthy)
  \/ Process
  \/ StoreFails
  \/ End
  \/ \E rewire \in BOOLEAN : Restart(rewire)

Spec == Init /\ [][Next]_vars

\* The driver starts a session and keeps monitoring while it runs, as
\* PaperCampaign.run_session does; a step under way is finished.
FairSpec ==
  /\ Spec
  /\ WF_vars(Start)
  /\ WF_vars(Process)
  /\ SF_vars(\E closed \in SUBSET OpenIn(paper), decide, healthy \in BOOLEAN :
               Monitor(closed, decide, healthy))

-----------------------------------------------------------------------------
(* What a session must keep                                                *)

Engines ==
  [state : [Decisions -> {"new", "refused", "open", "closed"}],
   position : [Decisions -> 0..MaxPositions]]

Steps ==
  {Idle}
    \cup [at : {"sync", "decide"}, decide : BOOLEAN]
    \cup [at : {"record"}, decision : Decisions, fill : Fills]

\* Every variable has the shape the code gives it.
TypeOK ==
  /\ status \in {"CREATED", "RUNNING", "ENDED"}
  /\ step \in Steps
  /\ paper \in Engines
  /\ disk \in Engines
  /\ rows \in [Decisions -> Record!Rows \cup {NoRow}]
  /\ wired \in BOOLEAN
  /\ cycles \subseteq Decisions
  /\ issued \in 0..MaxPositions
  /\ faults \in 0..MaxFaults

\* The audit record is never ahead of the checkpoint: what it calls filled or
\* exited survives any restart as that very position.
Backed(d) ==
  rows[d] # NoRow =>
    /\ rows[d].fill.accepted =>
         /\ disk.state[d] \in {"open", "closed"}
         /\ disk.position[d] = rows[d].fill.position
    /\ rows[d].exit # NoExit =>
         /\ disk.state[d] = "closed"
         /\ disk.position[d] = rows[d].exit

AuditNeverAhead == \A d \in Decisions : Backed(d)

\* A cycle the session's summary counts has a row in the record, refused ones
\* and duplicates included, as long as the runner has its store.
CyclesHaveRows == wired => \A d \in cycles : rows[d] # NoRow

\* replay.py, record_cycle: "First durable writer wins - later duplicate/reject
\* cycles stay out."  A decision that was filled is never recorded by a
\* duplicate cycle, which says that it was not accepted.
FirstCycleWins ==
  \A d \in Decisions :
    rows[d] # NoRow /\ paper.state[d] \in {"open", "closed"} =>
      ~ rows[d].fill.duplicate

Attached(d) == rows[d] # NoRow /\ rows[d].exit # NoExit

\* An exit that has reached a checkpoint gets into the record of its fill,
\* although the write of an earlier exit, or of this one, may have failed or the
\* process died before it, unless the session ends or has lost its store.
ExitsReachRecord ==
  \A d \in Decisions :
    (/\ disk.state[d] = "closed"
     /\ rows[d] # NoRow
     /\ rows[d].fill.accepted)
      ~> Attached(d) \/ status = "ENDED" \/ ~ wired

\* The session uses the engine as its lifecycle promises: exceptions between
\* its steps and restarts included, no decision is judged or closed twice.
EngineKept == Engine!Spec
=============================================================================
