# A verification of TradingAgent-India in TLA+

TradingAgent-India is a paper-trading system for NIFTY and SENSEX options.  A
market feed is turned into immutable snapshots; specialist agents and a policy
turn a snapshot into at most one decision; a risk guard has to approve it; a
paper engine turns approved decisions into simulated positions, marks them,
closes them, and keeps a durable checkpoint.  Live orders are refused by
construction, so what has to be right is bookkeeping, ordering, limits and
recovery.

This directory holds the TLA+ modules, the TLC configurations and the proofs.
`PROJECT.json` is their index: components, runs, the source lines behind each
definition, mutants, hazards and theorems.

    tlc -workers 2 -config MCPaperEngine_recovery.cfg MCPaperEngine
    tlapm PaperEngineProofs.tla

## 1. Inventory

Paths are relative to `src/grow/`.

| Component | State | Operations | Talks to |
|---|---|---|---|
| Paper engine (`paper/engine.py`) | seen decisions, orders, halts, trading day, timeout | `execute`, `on_snapshot`, `export_state`/`restore` | registry, ledger, guard, checkpoint |
| Position registry (`paper/positions.py`) | positions, index by contract | `register_open`, `mark`, `exits`, `begin_close`, `complete_close`, `abort_close` | engine |
| Cash ledger (`paper/ledger.py`) | cash, holdings at average cost, realized P&L | `submit` | guard stamp, engine |
| Checkpoint (`paper/checkpoint.py`) | one JSON file | atomic replace, load | engine, campaign |
| Pricing (`paper/fills.py`, `quotes.py`, `valuation.py`, `exits.py`) | none | which price fills, marks, exits | engine, registry |
| Risk guard (`risk/guard.py`) | none | `evaluate`, `evaluate_exit` | engine, live loop |
| Campaign runner and replay store (`campaign/runner.py`, `replay.py`, `fs_lock.py`) | one audit row per decision, files under a lock | `run_from_package`, `on_snapshot`, `record_cycle`, `append`, `attach_exit` | engine, several processes |
| Session and campaign (`campaign/session.py`, `paper_campaign.py`, `eod.py`, `summary.py`) | CREATED/RUNNING/ENDED, equity curve, reports | `process_snapshot`, `run_session`, `run` | runner |
| Orchestration (`orchestration/`) | shared thread pool, one cycle result | `dispatch`, `validate`, `aggregate` | specialists |
| Specialists (`agents/`) | none | `analyze` of each of the six | snapshot, orchestration |
| Decision integration (`decision/integration/`, `decision/aggregation/`) | none | gates, CEO gate, proposal, guard | package, policy, guard |
| Live loop (`live_data/loop.py`, `health.py`) | running, health, halts, events seen, open contracts | `start`, `run_once`, `stop` | feed, guard, ledger |
| Feed adapters (`live_data/truedata.py`, `kite_market.py`) | connection, symbol map, attempts, last activity, sequence | `connect`, `poll`, `close` | live loop |
| Expiry (`live_data/expiry.py`, `decision/calendar/`, `options/`) | cache of answers | classify, choose the traded expiry, plan the subscription | feed, options engine, campaign |
| Snapshot builders (`market_data/`, `campaign/`) | none | quality gate, provenance, health, ages | feed, orchestration, campaign |
| Strategies, options engine, research desk (`strategies/`, `options/`, `research/`, `ceo/`) | none | signals, contract, approval | live loop, backtest |
| History (`history/`) | none once loaded | validation, point-in-time queries, coverage, quality gate | backtest, validation |
| Backtest, validation (`backtest/`, `validation/`) | freeze record, windows, one engine per span | decide a day, replay a span, label, results | history, paper engine |
| Dashboard, gateway, learning, director, execution lock, safety checklist, scripts | none | views, reports, wiring | - |

What makes each correct, and what is hard about it:

* **Paper engine.**  Registry, ledger and orders are three books moved by
  different calls inside one handler; they must tell the same story after every
  early return.  The checkpoint is written last and can fail, and the process
  can die, so what is on disk is an older state of the session.  Exits are
  decided on marks but dealt at quotes.  Halts (timeout, unresolved close, daily
  loss) are set in one handler and read in the other.
* **Replay store and campaign.**  Several processes write one record per
  decision under a file lock; the first writer wins, an exit is attached once.
  The record is written after the paper checkpoint, with a crash possible in
  between.
* **Orchestration.**  Specialists run on a shared pool with a bounded wait; late
  answers, workers that never return, two cycles on one pool.
* **Feed.**  Reconnects, bounded backoff, symbol ids that belong to one
  connection, silence that must be noticed and must be recoverable.
* **Live loop.**  One cycle reads health, session and halts once and acts on
  several underlyings.
* **Snapshots, specialists, decision.**  Pure functions, but chained: what one
  leaves out of its answer another takes for absent evidence, and the policy
  judges every candidate against an empty book.
* **Campaign.**  Sessions that raise leave what they have; reports are rolled up
  over sessions of two kinds of calls, on snapshots of three builders.
* **History.**  When a quote is *of* and when it became *known* are two times;
  listings and expiries bound what can be traded; train, validate and test spans
  must owe each other nothing.

The complete list of hazards, each at its line with the properties that would
notice it, is in `PROJECT.json`.

## 2. Plan

| # | Modules | Question | State |
|---|---|---|---|
| 1 | `RiskGuard`, `PaperPricing`, `PaperEngine` | do the books, limits, halts and checkpoints of the paper session hold? | done |
| 2 | `PaperEngineProofs` | the same for all constants | done |
| 3 | `EngineLifecycle` (abstract), refined in `PaperEngineProofs` | what may callers of the engine rely on? | done |
| 4 | `AuditRecord` (abstract), `ReplayStore`, `ReplayStoreProofs` | is the replay store a write-once record, whatever processes and crashes? | done |
| 5 | `PaperSession`, `PaperSessionProofs`; composes `EngineLifecycle` and `AuditRecord` | checkpoint against audit record, session lifecycle | done |
| 6 | `Dispatch`, `DispatchProofs` | bounded wait, one outcome per specialist, no late result, pool exhaustion | done |
| 7 | `ExpiryChoice`, `ExpirySelection`, `TrueDataFeed`, `TrueDataFeedProofs`; `MarketFeed` (abstract) | recovery after silence, backoff budget, symbol map per connection, what is subscribed | done |
| 8 | `Strategies`, `OptionsEngine`, `ResearchDesk`, `LivePaperLoop`, `LivePaperLoopProofs`; composes `MarketFeed`, `RiskGuard`, `PaperPricing` | health, gates, timeout and the second open/close path | done |
| 9 | `AgentSnapshot`, `CampaignOptions`, `Specialists`, `DecisionIntegration`, `SessionEngine`, `PaperCampaign`, `SessionEngineProofs` | from a market to a decision to a report, over several sessions | done |
| 10 | `HistoryStore`, `Backtest`, `Qualification`, `HistoricalEvaluation`; also `SessionEngineProofs` | point-in-time data, qualification, windows, labels | done |
| 11 | `SharedLemmas` | what the proofs need of finite sets: least elements, sums, ranks, fractions | done |

How they compose:

    MarketFeed <= TrueDataFeed (refines)        EngineLifecycle <= PaperEngine
        |                                            |
    LivePaperLoop = MarketFeed + OptionsEngine   PaperSession = EngineLifecycle
        + ResearchDesk + RiskGuard                   + AuditRecord <= ReplayStore
        + PaperPricing

    AgentSnapshot -> CampaignOptions -> Specialists -> DecisionIntegration
        -> SessionEngine -> PaperCampaign
                         -> HistoricalEvaluation <- Qualification <- Backtest <- HistoryStore

What could come next: the Kite adapter as a second implementation of
`MarketFeed`; the `WalkForwardRunner` over fixture data; the freeze of a
configuration before its test data is opened.

## 3. The paper engine

### 3.1 Modules and code

`RiskGuard` and `PaperPricing` are pure.  `RiskGuard!Approves` is the conjunction
of the guard's ordered rules; order matters only for which rule is reported, so
it is left out.  Rules that are constant for the proposals the two callers build
(venue, universe, HMAC, confidence) are left out too.  `PaperPricing` says which
side of a quote an entry, an exit and a mark use, when a quote is usable at all,
which exit a mark calls for (`ChooseExit`), and what a round trip costs.  Money
is an integer number of ticks and divisions round down, where the code has
`Decimal`s.

`PaperEngine` keeps the engine in one record because `export_state` and `restore`
copy exactly that record; `disk` is the last record that was written.

| Code | Model |
|---|---|
| `execute` | `Execute(d)`: one disjunct per early return, in the code's order: `ExecuteDuplicate`, `ExecuteNotApproved`, `ExecuteMismatch`, `ExecuteTimedOut`, `ExecuteBlocked`, `ExecuteLossHalt`, `ExecuteRefused`, `ExecuteFilled` |
| `on_snapshot` | `OnStaleSnapshot` (quality not OK) and `OnFreshSnapshot` = expire, mark, then `RetryTimeoutCloses` or `RunExits` |
| `_close_position`, `_abort_exit` | `CloseAll`: every exit that is asked for is dealt (`Dealt`) or aborted; an aborted forced exit sets `unresolved` and `halted` |
| `_enforce_timeout`, `_roll_trading_day` | `EnforceTimeout`, `RollTradingDay` |
| `checkpoint()` at the end of each handler | `Commit`: the file is replaced, or the write raises and memory stays ahead |
| process death and `restore_paper_engine` | `Restart` |
| `PaperLedger._apply` | `Bought`, `Sold`, `Cash` |

The engine has no threads and nothing is awaited inside a handler, so a handler
is one atomic action.  A crash inside a handler has the effect of a crash before
it, because the checkpoint is its last durable write: that is `Restart` from the
previous checkpoint.  Inputs: the decision time of a snapshot (at most `MaxLag`
old), the quote of each contract (or none), whether snapshot, source and feed are
usable.

A decision fixes its contract, size and stop (`ContractOf`, `QuantityOf`,
`StopOf`).  The model takes a contract's identity to be the registry's key; a
decision gets at most one order and one position, so both are indexed by it.

### 3.2 Runs

| Run | Checks | Bounds and why they are enough |
|---|---|---|
| `recovery` | `BooksAgree`, `HaltDiscipline`, `CausalExits`, `NoEntryAfterHalt`, `EntriesRespectDailyLoss`, `DurableForward`, `LifecycleKept` | two decisions on one contract over two days: the contract expires on the first, a loss limit of 5 that one bad exit crosses, a timeout of 2; normal, high, crossed, late and future quotes; snapshots up to one instant late; any two faults (failed write or restart) in any order |
| `closing` | `TimeoutResolves`, `SquareOffFlattens` | two decisions, one never approved; a timeout at the last instant, the square-off window and the close; one fault, so that a restarted session whose timeout lies beyond the bound has to rely on the square-off; under fairness |
| `exit_quote` (violation) | `ExitsUseCurrentQuotes` | see findings |
| `square_off` (violation) | `SquareOffOwnsUp` | see findings |

`MaxTime` bounds the clock and `MaxFaults` the failures.  A time of 3 holds every
session state once; what a property needs is the relative order of an entry, a
mark, an exit, a fault and a change of session, and three steps of the clock hold
each of these orders.

`BooksAgree` relates the four books of the engine (registry, ledger, fills,
orders).  The limits on cash, cost and number of positions are checked where
several contracts compete for them, in `campaign` (section 9).

Properties over a book are checked on the book in memory *and* on the one on disk
(`Books`): after a restart the second one goes on.

**Fairness.**  `FairSpec` assumes weak fairness of the clock and of a fresh
snapshot for the current time on which each contract has a quote that can be sold
at.  The loop that drives the engine delivers a snapshot per interval for as long
as the session runs, so the first half is what the code's scheduling gives.  The
second is an assumption about the market: without a usable quote no paper exit is
possible, and the property is that nothing *else* keeps a position open.  No
fairness is put on entries, failures or restarts.

### 3.3 Findings

* `exit_quote`: docs/positions.md:37 says that out-of-order quotes cannot
  fabricate an exit.  The registry refuses to *mark* at such a quote, but the
  exit decided on an earlier mark is dealt at it: `_close_position` does not
  compare the quote's time with the last valuation.
* `square_off`: docs/positions.md:38 says that a session close without a valid
  quote records an unresolved close and halts entries.  With a last mark already
  at the stop, `choose_exit` names STOP_LOSS rather than SESSION_CLOSE, and
  `_abort_exit` flags only the forced reasons; the position stays open past the
  close and neither flag is set.

### 3.4 Proofs

`PaperEngineProofs` proves for every value of the constants (`EngineConstants`,
`PricingPolicy`, `RiskLimits`: the ranges of the parameters, nothing else) that
`Spec` implies `TypeOK`, `BooksAgree` (with its parts `OnePositionPerContract`,
`LedgerMatchesRegistry`, `FillsMatchRegistry`, `OrderFollowsPosition` each as a
theorem), `HaltDiscipline` and `WithinCap`.

None of these is inductive alone.  That the ledger never refuses the sale of an
open position needs that the holdings are exactly the open positions; that this
survives a purchase needs that at most one position is open on a contract;
that a decision gets at most one position needs that orders, positions and seen
ids agree.  The inductive invariant `IInv` says that the engine in memory and the
one on disk are both `Sound`, which is the conjunction of these parts.  The proof
has one lemma for each transformation of a book the handlers are made of
(`RollTradingDay`, `EnforceTimeout`, a rejection, a fill, `CloseAll`, `MarkAll`,
the timeout retry), each showing that a sound book stays sound; every action is
then a chain of them followed by `Commit`, and `Restart` only moves a sound book.

Its second part proves `DurableForward`, `NoEntryAfterHalt`,
`CausalExits` and `EntriesRespectDailyLoss`.  The invariant is
`IInv /\ MemoryExtendsDisk`: every transformation extends the book it is given,
`Extends` is transitive, so a successful write replaces the file by an extension
of it and a failed one leaves memory an extension.  The causality of exits is kept
by the same transformations.  The daily loss is a sum over the positions of a
day, but the proof never has to unfold it: an entry is judged on the book after the
day was rolled, a new position contributes nothing closed, and the sum (`NetResult`
of the same closed positions) is the same expression before and after.

Its third part proves that the engine implements `EngineLifecycle`, the
view its callers have of it: a decision is new, refused, open or closed
(`Outcome`); a step judges one decision, closes some positions, goes back to the
checkpoint, or changes nothing of this.  Each handler is mapped by two facts of
the parts before: it extends the book, and it adds at most one decision to
the seen ones.

Left to TLC: the two liveness properties and the two runs that show a violation.

## 4. The trade replay store

`ReplayStore` models `TradeReplayStore` as several processes use it.  A call goes
through the steps between which others come in: take the lock of the decision,
read the file, compare, replace the file, update `_by_id`, release.

| Code | Model |
|---|---|
| `exclusive_filesystem_lock` | `Acquire`, `Release`; `GiveUp` for `_lock_msvcrt`'s deadline |
| `_read_disk` | `Read` |
| the comparisons of `append`, `record_cycle`, `attach_exit` | `Done` (nothing left to do), `Writable` (may write), `Written` (what it writes) |
| success, same row found, exception | `Write`, `FindDone`, `Raise` (also a failed write) |
| `get` | `Get`: reads the file without the lock |
| death, and `_load_existing` of the next process | `Crash` (the operating system frees its locks), `Restart` |

A row is `[fill, exit]`: the properties tell apart whether two rows say the same of
the fill and of the exit, and of which position each is.  `replay_race` has three processes on one decision (a reader, a writer and one more
to overtake), two fills, three exits (two of the filled position, one of another),
one death, and msvcrt's deadline; locks and files are per decision, so that two
decisions do not influence each other.  One call per process is enough: what a
process keeps between calls is its cache, and `Get` and `Restart` refresh it in
any state.  `FairSpec` schedules a process that is inside a call; it does not
assume that a waiter gives up, that a dead process returns, or which waiter gets
a lock, so `CallsEnd` holds for flock as well.

`AuditRecord` is the promise: a row is written once and an exit attached once.
`WriteOnce` is the refinement, with `rows <- file`.  `ReplayStoreProofs` proves it
and the invariants for any number of processes and decisions.  The inductive
part is `Holding` (a process past the lock holds it, and nobody else is past it)
and `SeenCurrent` (what it has read is still on disk): the comparison made on
`seen` is then a comparison with the file.  Left out: validation of a row's
fields, and two ids that `_safe_id` maps to one file name.

## 5. The paper session

`PaperSession` composes the runner, the engine and the store inside
`PaperSessionRunner`.  The engine is the one of `EngineLifecycle` (a decision's
outcome, plus the number of its position), the store the one of `AuditRecord`;
sections 3 and 4 show that the real ones implement them.

| Code | Model |
|---|---|
| `start`, `end` | `Start`, `End` (ENDED is set before the last checkpoint is tried) |
| `process_snapshot` with `monitor`, or without | `Monitor`, `SkipMonitor` |
| `sync_exits_from_paper` | `AttachNext` one by one in the registry's order, `AttachDone` |
| `run_from_package` | `Execute` (with the engine's checkpoint), then `WriteRow` |
| no decision asked for or quality not OK | `NoDecision` |
| an exception of a checkpoint or of the store | `Unsaved`, `StoreFails`: the session stays RUNNING and the driver may go on |
| death, `CampaignRunner.from_checkpoint`, a new session | `Restart` |

`from_checkpoint` takes no replay store, so the restarted runner has none unless
its caller sets it (`Restart(rewire)`).

| Run | Checks | Bounds |
|---|---|---|
| `session_steps` | `AuditNeverAhead`, `EngineKept`, `ExitsReachRecord` | two decisions, three positions, any two exceptions or deaths, the store rewired after a death or not |
| `session_first` (violation) | `FirstCycleWins` | one fault |

`FairSpec`: a session that is created is started, a step under way is finished,
and the driver monitors again and again while the session runs, as
`PaperCampaign.run_session` does for every snapshot (strong fairness, because the
session is not ready for it inside a step).  The system may stop at `ENDED`, so
deadlock is not checked.

**Finding** (`session_first`): replay.py:378 says that later duplicate cycles stay
out of the record.  The checkpoint of a filled decision and its row are two
writes.  If the second is lost and the decision is submitted again, the engine
answers DUPLICATE_DECISION, the duplicate cycle is the first durable row, and the
exit of the filled position is never attached because the row is not accepted.

**Proofs.**  `PaperSessionProofs` proves `TypeOK`, `AuditNeverAhead`,
`CyclesHaveRows` and `EngineKept` for all decisions and bounds.
`AuditNeverAhead` needs to know what the earlier steps of the same snapshot left:
`AfterCheckpoint` (a sync or a record is only reached after a checkpoint went
through) and `Follows` (the engine in memory goes on from the one on disk), so
that a row backed once stays backed.  `ExitsReachRecord` is liveness and stays
with TLC.

## 6. Analysis dispatch

`Dispatch` models what one cycle of the specialists is made of, with several
threads that run cycles at the same time.  They share one thing, the pool of
`_shared_pool`, and through it everything: queue, workers, and the right to go on
submitting.

| Code | Model |
|---|---|
| `AnalysisOrchestrator.run` | `Analyse`: `NoDispatch` for a snapshot the quality gate refuses (or no specialists), else `StartDispatch` |
| `replay` | `Replay`: the snapshot last stored under the id, run again as `ReplayId` |
| `_shared_pool` | `SharedPool`: a larger team retires the pool and cancels what is queued in it |
| `pool.submit` | `Submit`, one specialist at a time; `SubmitRaises` on a retired pool |
| worker threads | `StartNext`, `Finish`: any order, any delay, any answer, or never |
| `wait` | `AllAnswered`, `TimedOut`; what is done is `run[c].done` from then on |
| the loop over `pending` | `GiveUp` one by one; a worker may start or finish another meanwhile |
| result assembly, `aggregate_outputs`, `AnalysisCycleStore.save` | `Report` with `Rows`, `Package`, `Save` |
| `validate_agent_output` | `Valid`, `Judged` |
| `_synthesize` of the compat cycle, with `summarize_debate` | `Proposal`, `Voiced` |

The code keeps accepted and rejected outputs in two tuples; the model has one row
per specialist, marked `REJECTED` for the second.  An answer names an instrument
when it proposes to open a position there.  Left out: the other actions and their
votes, evidence, digests, summary texts, the call without a cycle id that
`_call_agent` tries after a TypeError, a replay of a replay, and the optional
second pass.  The executor is external and modelled from its use: a future that a
retiring pool cancels is never reported done to `wait`, so its caller waits for
the whole timeout and reports it unavailable.  Times are left out: `TimedOut` may
happen at any moment before all have answered, which is more than a timeout can do.

`dispatch_cycles` checks `EveryoneAccountedFor`, `ProposalsAreUnanimous`,
`DisturbedByLarger`, `NoLateStart` and `RunsEnd` with two callers.  `MinPoolWorkers` is 1, so that a team of
one fits the smallest pool and a team of two does not: every relation between a
team, the smallest pool and the pool in force occurs, and with two specialists and
hung workers the queue is used.  `MaxRuns` gives the first caller two cycles, so
that a late answer of the first can meet the second, and the one whose pool was
retired can begin again.  The answers are two proposals, one bound to a cycle id,
and one about another snapshot.

**Fairness.**  Only a caller's own thread is scheduled, its timeout included.  A
worker need not run and a specialist need not return: `RunsEnd` says that a cycle
ends in spite of that.  The system stops when all cycles are used up, so deadlock
is not checked.

What the runs make visible: specialists queued behind workers that hang are
reported as having exceeded the timeout although they were never started, and a
caller can lose its cycle to another one with a larger team.  `DisturbedByLarger`
says exactly when; with the eight workers of the code and teams of at most eight
it cannot happen.

**Proofs.**  `DispatchProofs` proves `TypeOK`, that the pool fits a run
that holds it, and the four safety properties of the run for any callers,
teams and bounds.  The inductive invariant `IInv` adds to them:
`FutureRunsNew` (futures of later runs are untouched), `QueuedHeld` (what is
queued sits in the pool in force, for a run that holds that pool and has not given
up on it; this is what makes `NoLateStart` hold), `ResultsKept` (a finished future
that is still held has its result), and for each run `RunSound`: a run either
holds the pool in force, which then fits it, or was displaced by a larger team.
`RunsEnd` stays with TLC.

## 7. The vendor feed

`TrueDataFeed` models the TrueData adapter together with the line to its vendor:
what the adapter keeps (`feed`), and what the vendor holds of the connection
(`line`: how it numbers the symbols there, what is subscribed, and, in `missed`, what
the adapter takes for subscribed although this line was never told).

| Code (`live_data/truedata.py`) | Model |
|---|---|
| `connect`, `disconnect` | `ConnectFails`, `Connect(n)`, `Disconnect` |
| `poll` on a stopped adapter, or after a silence | `PollStopped`, `PollSilent` (`_activity_stale` comes first) |
| `poll` while degraded: `_reconnect_poll` | `PollRecovers` (`GivesUp`, `Waits`, `AttemptFails`), `PollRestores` |
| a frame: login, acknowledgement, catalog, heartbeat, error, malformed, tick | `Frame` = `Login`, `Acknowledge`, `Catalog`, `Heartbeat`, `Error`, `Malformed`, `Tick`, `TickRefused`, `Silence` |
| a receive that raises | `PollLoses` (`_clear_symbol_map`, then the policy) |
| `_refresh_plan` with `live_data/subscription.py` | `Replan`, `Planned`, `Resubscribe` |
| `_ingest_tick` | `Resolved`, `Ingested` |

A frame is abstracted to its kind and what it says.  A symbol is an index or an
option of the catalog; values are what a property can tell apart.  The clock is
shared with the vendor: a tick may be stamped at most `MaxLag` before and
`MaxLead` after it.

`ExpirySelection` has the classification of an expiry (weekly, monthly or
neither, by the schedule of the exchange, holidays and the calendar), the
resolution of which expiries are traded, and the plan of strikes around a spot.
`ExpiryChoice` has the choice itself, which the adapter and the options engine
share.

`connect()` has no guard on the state of the adapter (truedata.py:449-492), nor has
`disconnect()`, and so their actions have none.  On an adapter with a plan `connect()` clears the map
and opens a new line, but `_refresh_plan` tells the vendor only what changed in the plan:
the rest is `missed`.  When the catalog cannot be had, `connect` raises with the adapter
on a new line and the map of the old one; what then keeps a tick from being
resolved through it is the caller.  `start` of the loop leaves it CONNECTING, where
`run_once` polls nothing, so the model has `Polled`: after a connect that raised
nobody polls until one has not.

`MarketFeed` is what a provider promises the live loop: a health, a snapshot
number that only grows when something was told, a quote that carries its own time,
and that nothing is told while it is off.

| Run | Checks | Bounds |
|---|---|---|
| `feed` | `TicksMeanTheirSymbol`, `SubscribedAsPlanned`, `RecoveryDecided`, `SilentForGood`, `ImplementsMarketFeed` | one index and three options of which two may be traded; two numberings in which the index and an option change places, so that a number of the last connection names another symbol; a limit of two symbols, below what the plan would like, and a spot that moves the plan; both disconnect policies; two attempts with a backoff of at most 1; a staleness of 2 in a time of 3, so that there is time to be silent, to recover and to be silent again; connects at any time; ticks of the index and of one option; 70958 states |

**Fairness.**  Weak fairness of `Recovery` (a poll that recovers, restores or finds
the silence) and of the clock: the runner of the loop polls for as long as it runs,
and time passes.  What the vendor sends is free.

**Proofs.**  `TrueDataFeedProofs` proves `TicksMeanTheirSymbol` and
`SilentForGood` as checked, that an adapter that resolves numbers has one for each
symbol it wants (`ReadyMeansMapped`), `SubscribedAsPlanned`, and that the adapter
implements `MarketFeed`; for any symbols, catalogs, numberings, policies and bounds.
The inductive invariant `IInv` is that, while the adapter is polled, its map is part of
the numbering of the line it listens on: a recovery, and a connect that succeeds, clear
the map before they use a new line, and every place that extends the map takes the number
from a frame of the current line; after a connect that raised the map may be of an
older line, and nobody polls.  `SubscribedAsPlanned` has two halves.  That the vendor
sends what is wanted but for what `connect()` left out (`LineFollowsPlan`) is an invariant
of its own, since a plan may be replaced while a connection is down; without the
exception it is false of the code (section 11).  `missed` gains members nowhere but in
`Connect` and `ConnectFails`, so over plans, losses and recoveries the line follows the
plan exactly.  That what is wanted is within the vendor's
limit needs the planner: options are ordered by their distance in strikes, ties by
strike and then by name, and those with fewer than `room` options before them are
taken.  The order is strict because names differ, so the options taken are numbered
by how many come before them and cannot be more than `room`.

Assumed of the constants: `AdapterConstants` (their ranges), `NothingIsNoTick` (the
mark of "not told" is no value of a symbol), `PlanConstants` (finitely many symbols;
the indices alone fit the limit, or `plan_subscriptions` raises SUBSCRIPTION_LIMIT;
one catalog row for each symbol), and for the refinement the constants of
`MarketFeed`.  Left to TLC: `RecoveryDecided`, which is liveness.

## 8. The live paper loop

`LivePaperLoop` models `live_data/loop.py`; a call of `run_once` is one action, and
one disjunct of `Run` for each of its ends.

| Code | Model |
|---|---|
| `start`, `stop` | `Start`, `Stop` |
| `run_once`: timed out | `RunTimedOut` |
| nothing polled, or the poll raises | `RunWithoutSnapshot` |
| the event refused by `live_data/normalize.py`; stale | `RunInvalid`, `RunStale` |
| the rest of a call | `RunFresh` = `Managed` (mark, close) then `EvaluatedAll` |
| `_manage_positions`, `_close` | `Marking`, `Leaving`, `SoldBook`, `Closed` |
| `_evaluate` of one index: strategies, options engine, desk, guard, fill | `Evaluated` with `PickSignal`, `BestContract`, `DeskApproves`, `Approves`, `Entered` |

The provider is the one of `MarketFeed`, whose steps are the polls of the loop:
what is checked here holds for each vendor that implements it.  `Strategies` has
the regime of the market and the four strategies over records of indicators,
`OptionsEngine` the checks and the ranking of contracts, `ResearchDesk` the
reports of the fixture agents, their synthesis and its validation.  How an
indicator follows from bars is left out: the run takes a market that goes up, one
that goes down, and none.

| Run | Checks | Bounds |
|---|---|---|
| `live_session` | `LiveBooksAgree`, `EntriesJustified`, `HaltIsForGood`, `CloseLeavesNothing`, `TimeoutKeepsInventory` | one index with a call and a put; quotes at the money, below the stop and without a bid; provider answers up to one instant old or ahead, in any order, or none, or an exception; a closing window at 1 between two open days; a timeout at the last instant, 3; limits (position 70, gross 95, day's loss 25, risk 15, cash 100) that one position passes, and a second one, a bad exit or a dear quote does not |

`start` and `stop` may be called in any state, also after the loop has stopped or timed out.

**Fairness.**  None is assumed.  Nothing in the repository guarantees that `run_once` is
called once the timeout has passed: docs/live_data.md:75 leaves the scheduling to an
external runner, and the one there is, `drain_smoke_loop` (live_data/smoke.py:1001-1019),
stops after at most 256 cycles or at the first fill or fresh quote of an option.  That a
session ends is therefore not claimed; `TimeoutKeepsInventory` says what the calls that
do come after the timeout may and may not do.

**Proofs.**  `LivePaperLoopProofs` proves `LiveBooksAgree`, `EntriesJustified`,
`HaltIsForGood`, `CloseLeavesNothing` and `TimeoutKeepsInventory` for any catalog of contracts, any calendar,
limits and policies, and whatever a provider tells (`LoopConstants`,
`CatalogContracts`: finitely many contracts, told apart by what
`options/validate.py` refuses as a duplicate).

The inductive invariant `LiveInv` has two sides.  `FeedSound`: what was told of a
symbol is one of its values, and its time one that can be told.  `DeskSound`: the
book holds at most one position of a contract and the loop's own set names the
contracts of the book; the ledger's holding of a contract is the lot and the entry
price of that position, so the ledger's gross, a sum over contracts, is the sum of
what the positions cost; and cash, cost and the result of the day balance.  A call of
`run_once` is a chain of three kinds of steps, each of which keeps `DeskSound`:
marking, closing a set of positions (a sum over what is left), and buying, once for
each index.

* `EntriesJustified` follows an entry from the signal to the fill.  That the price is
  never below the bid is not what the fill checks: the options engine refuses a
  contract whose ask is below its bid.  That one index' purchase does not push the
  gross of a later one over the limit holds since each `Evaluated` reads the desk
  that the one before has left.
* `HaltIsForGood` needs that a contract closed in a call is not bought in the same
  call, whichever signal there is: `Managed` returns the contracts it has closed.
* `CloseLeavesNothing` needs that in the closing window each position that was ever
  valued leaves: at the mark of a usable quote, and else at its last mark, however old
  (`fallback_bid`, loop.py:602).  Only a position that was never valued stays, and then
  the desk is halted and the close unresolved.  docs/positions.md:38 promises less
  selling than that (section 11).
* `TimeoutKeepsInventory` needs that the timeout is looked at before anything is polled,
  marked or sold, also by a loop that was started again.

## 9. The campaign

| Module | Models |
|---|---|
| `AgentSnapshot` | the three builders of a snapshot (agents, fixture, campaign), the quality gate, provenance, market health, ages, and the quote the paper engine takes from a row |
| `CampaignOptions` | `agents/campaign_options`: chain filter, direction from averages, ranking, feasibility, the pick among indices |
| `Specialists` | each specialist of a cycle as an operator from a snapshot to its answer, and the conflicts the package reports |
| `DecisionIntegration` | the policy's gates in their order, the CEO gate, the proposal, the guard on an empty book |
| `SessionEngine` | the paper engine of one session over several contracts: what `PaperEngine` does, without faults and with the sums of its ledger |
| `PaperCampaign` | `campaign/paper_campaign.py`: `run`, `run_session`, `report`, with the cycle of `session.py` and the reports of `eod.py` and `summary.py` |

An answer of a specialist is its status, the vote of its structured fields, the
directions whose words its text contains (the debate reads prose), whether it names
high volatility, and the contract it proposes.  A specialist that raises or is late
(section 6) is one of `Failings`.

| Code | Model |
|---|---|
| `PaperCampaign.run` | `Run(plan)`, `NextSession`, `FinishRun` |
| `run_session` on its own | `RunSession` |
| `process_snapshot` | `ProcessSnapshot(snapshot, failing)` |
| the end of a session, its report | `EndSession`, `EodOf` |
| an exception | `SessionRaises`: the campaign stays RUNNING |
| `report` | `Report`, `Total` |

| Run | Checks | Bounds |
|---|---|---|
| `campaign` | `EntriesFitLedger`, `OneProvenance`, `LossWithinDrawdown`, `EndedReportsEveryDayOnce`, `EntryUnopposed` | two indices with a call and a put each; two days of three moments, the last one the square-off; ten markets on the first day (rising, falling, one index alone, two that disagree, a fixture row among live ones, wild closes, a late view, no bids, and two other prices) and two on the second; all specialists answer, or the technical one fails; two snapshots a session, two sessions; cash 50, gross 45, two positions, risk 6, a daily loss of 5: one position fits, a second one only if it is cheap, and one bad exit stops the day |

`EntriesFitLedger` is the limits of the whole session although each decision is
judged on an empty book: the engine's own checks have to make up for it.  The
system stops when its sessions are used up, so deadlock is not checked.

**Proofs.**  `SessionEngineProofs` proves all five for any days, markets, contracts,
failures and limits.  It assumes `CampaignConstants` and `CampaignMarkets` (ranges;
prices and lots of a quote are natural numbers) and the limits of the other modules.
The inductive invariant `IInv` says that while `run` is in
progress no session is lost: reports, the session under way and what is due are in
the order of their dates and each begun session is one of the first two; and that
a session's snapshots are all of the kind of the campaign's label, because a
snapshot with rows takes its source from them.

`EntryUnopposed` is shown step by step: an order that was filled comes from a decision
that is approved, its direction from an answer of the options specialist that the
debate has left standing, so that none of the others can have said the opposite; this
follows the chain through `Specialists` and `DecisionIntegration`.

The invariant of the ledger is `LedgerInv`.  `LedgerSound`: each trade is typed and
within its risk, and cash, open cost, number and contracts of open trades keep the
limits of the session.  A decision is judged on an empty book, so nothing of this
comes from the decision: that one more trade fits is what the engine's own checks
say, cash and gross of the ledger that was marked a moment before
(`GrownFits`); marking and closing only bring cash in (`FollowedMoney`).  `Drawn`:
the peak of the equity curve is never below the starting cash, so the fall that a
point records is at least what has been lost by then, and a report is made of a
session after a last point.

## 10. Historical evaluation

`HistoryStore` models a canonical dataset as a record (bars, quotes with the time
they are of and the time they were known, master, sessions, provenance), its
validation, the point-in-time queries, the coverage report, the quality gate and
the bridge to a snapshot.  `Backtest` models the decision of one day from signal to
closed trade, the simulator and the windows.  `Qualification` models the provider
evaluation (`history/eval.py`): one operator per check, `MandatoryHold` for those
that reject, `QualificationOf` for the status, and what a recorded vendor file
becomes.  `HistoricalEvaluation` takes a
request of one of three kinds through its stages; a request brings a record of
qualification, none, or the one the provider evaluation makes of its dataset
(`FromHarness`):

| Code | Model |
|---|---|
| `HistoricalValidationCampaign` (`validation/historical.py`) | `OpenCampaign`, `BuildCycles`, `SplitWindows` |
| `WalkForwardValidationRunner` (`validation/runner.py`) on given cycles | `TakeCycles`, `SplitWindows` |
| qualified `BacktestRunner` (`backtest/runner.py`, `history/integrate/replay.py`) | `OpenBacktest`, `DecideDay` |
| the replay of a span (`validation/replay.py`) | `StartSpan`, `ReplayCycle`, `EndSpan` with an engine of its own |
| an exception | `Raises` |
| results, leakage status | `ResultOf`, `Finish` |

| Run | Checks | Bounds |
|---|---|---|
| `evaluation` | `OnlyWhatWasKnown`, `SpansStandAlone`, `HistoricalIsReal` | 997 requests over 34 datasets of four days with three contracts of one index and one of another: quotes that become known late, a contract listed late or delisted early, an expiry whose contracts are listed with a gap, fixtures, drafts, recorded samples, records of another dataset and those the provider evaluation makes, which come to each of its outcomes, two with quotes missing, of which one is hidden by rounding and one is refused; six plans of packages (mornings of each contract, evenings, one per day, one day missing); three sizes of windows, one whose tests overlap and one with an embargo; runners whose rows or views come from the future; backtests with three ablations |

There is no concurrency here: each request is one path.  What the run asks is
whether any path from data to result goes around one of its many filters, so the
datasets are chosen such that each filter is the only one in the way once.
`HistoricalIsReal` follows a dataset from its qualification to the cycles that are
decided on it: the evaluation of a provider looks at slots of its own, and it
reconstructs expiries from contracts, quoted or not, so that what it found must
still be true at the slots of the campaign.  A completeness is rounded to four digits before it is
compared with 1.0 (history/store.py:167-190,308; history/eval.py:159), so `BelowOne` counts
a dataset as complete when no more than half of one unit of `Precision` is missing.
`Precision` is 10000 in the code, where one missing quote in twenty thousand is hidden;
the run has 24, so that of 48 expected quotes one missing is hidden and two are refused.
`HistoricalIsReal` says no more than that: of what the dataset should quote, the cycles
miss at most that half unit.  Same-day expiries are refused, as
`config.py:454` demands.

**Proofs.**  `SessionEngineProofs` proves all three, for any datasets, requests,
prepared decisions, plans of windows, costs and signals.  The module is shared with
the campaign because a replay and a campaign drive the same `SessionEngine`, and the
lemmas about it serve both.  What is assumed:

* `StoresAreValid`: a dataset passes the store's own validation (`ValidStore`), is
  finite, contracts and cadence included, its times are integers, its prices natural
  numbers (`StoreNumbers`); the decision of a day lies within the day, and `Precision`
  is positive.
* `BacktestParameters`: the square-off of a day is after its decision and before the
  day ends, as the two times in the code are.
* `EvaluationRequests`: sizes and dates are integers, a prepared candidate has natural
  numbers.  A runner that is handed its cycles does not see where they come from; that
  they show the dataset is up to its caller, so `TakenFrom` asks that a row which is
  not of the future shows the quote that was last known.  Rows of the future
  are allowed: that these are not traded is the code's doing, and proved.

The inductive invariant `EvaluationInv` has three parts.  `CyclesSound`: the cycles
are those of the request, each with a snapshot of its own moment.  `SpansInOrder`: what
is done, in progress and to do is, in this order, the plan of the request, and the
plan is one in which the training and the validation of a window end before its test
begins (`SoundPlan`).  `SpanSound` and `ResultSound`: of a replay every trade was
bought, and perhaps sold, on cycles of the span's own days at what these showed
(`Dealt`), and its equity follows from its engine's cash; of a backtest every trade is what some day's
decision filled from bars and quotes of that day (`DayTraded`).  The properties then
follow by what a cycle or a decision can have seen: `KnownQuotes` of its moment, which
is `Known`; for windows by `TestsLast`; for labels by the checks the campaign made when
it was opened, which still hold because neither request nor dataset changes.

Proving it corrected the properties twice.  A bar may have no length, and a
backtest that leaves on such a bar sells at the moment it bought: `SoldInTime` says so.
And `HistoricalIsReal` is false of a campaign for an index the dataset was not
qualified for: the evaluation looks at the instruments of the dataset's scope only, and
`HistoricalValidationCampaign` never compares its underlying with them (section 11).  The
run has no such request.  Proving it also moved assumptions into sight that were
silent in the model: that times of a day are within the day.

## 11. What the code says of itself and does not do

The three violation runs show a disagreement of code and documentation each.
Others were met while modelling; the models do what the code does.

*Live loop and feed*
* docs/positions.md:37 is not true of the live loop either: it marks at quotes however
  old, and at quotes from the future.  Only a quote older than the position's last
  valuation is refused (valuation.py:40-43).
* docs/positions.md:38 is not true of the live loop: in the closing window a position
  without a usable quote is sold at its last mark (loop.py:602).  `UNRESOLVED_CLOSE` and the
  halt come only for a position that was never marked.  `CloseLeavesNothing` states
  what the code does.
* docs/truedata.md:79-83 and 162-163 have a reconnect resubscribe everything that is
  desired.  The backoff does; `connect` on an adapter with a plan does not: what was
  desired before is not told to the new line, and the adapter is READY with nothing
  subscribed (`missed`).
* A `connect` that fails for the catalog keeps the symbol map of the old line.  Under
  `fail_closed` only the caller, which does not poll then, keeps a tick of the new line
  from being booked through it.
* Without M15 bars `run_once` raises "cannot compute indicators on an empty
  series"; docs/strategy.md:81 says otherwise.  `Barren` is this case.
* If the feed stops before the timeout, the timeout with an open position is never
  recorded (docs/positions.md:39, docs/live_data.md:80).
* The cap on positions is not enforced in the live loop: loop.py:487 calls the guard
  without the number of open positions.
* Classes of expiries are cached by contract, without the date they hold for; the
  plan is not made again when the spot drifts; freshness is judged on the newest tick of any
  symbol.

*Options, specialists, decision*
* `options/engine.py` compares a contract's expiry with a record, and never records
  a rejection of its direction gate.
* Two indices that disagree raise a direction conflict through the prose of an
  answer, and lose the high-volatility flag (README.md:175 of the repository).
* `paper/quotes.py` and the campaign's score take an unknown class of expiry for
  weekly, the bridge of historical data for monthly, and the chain filter refuses
  it.
* A snapshot of the agents' builder over two indices has no closes per index, and a
  historical one has none the specialists find.

*Reports*
* The net result may be below the drawdown, because the ledger's cash leaves the
  charges out; the report counts a block by the risk guard twice.
* `by_instrument` of the replay counts each open position again at every entry.

*Provider evaluation*
* Its point-in-time check adds a contract of strike 25000 that expires fourteen days
  after the last open day.  When the dataset has that contract, the evaluation
  leaves with `CONTRACT_IDENTITY_COLLISION` (`ProbeCollides`).
* The quote of that contract is available when it is taken: a store that forgot
  about availability would pass.  Coverage does not look at availability either, so
  a dataset all of whose quotes come late is approved (`LateQuotes`).
* An expiry counts as listed between the listings of its contracts.  Where the
  options engine has another chain to choose from this is found and rejected
  (`Relisted`); where it has none, the resolver is compared with itself, the dataset
  is approved, and a campaign over it raises (`Unlisted`).

*Backtest and validation*
* A backtest demands a limit of one open position, and yet fills two indices on one
  day.  An entry without a quote to exit at becomes "no trade" and leaves no trace.
  An exit on a bar is at the bar's end though the bar may have been published later.
* Positions open at the end of a span are in its equity and not in its trades.
* With a step shorter than the test window a day is counted several times in the
  combined result.
* `CONTRACT_NOT_LISTED` and `MISSING_LOT_SIZE` leave the overall status `CLEAN`
  while the result of the role says `LEAKAGE`.
* A contract that expired while open can never be sold in a replay, which then is
  unresolved and halted for the rest of its span; a replay with a session timeout
  halts for good.
* The doubled slippage of the robustness report is twice nothing under both of the
  fill models in use (validation/freeze.py:176, robustness.py:65).
* `HISTORICAL` does not look at a rejected quality.  Completeness is rounded to four
  digits before it is compared with 1.0: a dataset in which one quote of twenty thousand
  is missing has no `OPTION_SNAPSHOT_GAPS`, qualifies, and is labelled `HISTORICAL`
  (`BelowOne`, `AsQualified`).
* A campaign's underlying is not compared with the instruments the dataset is
  scoped to and was qualified for (validation/historical.py:397-450): an index
  outside this scope has contracts no check of the qualification has looked at.
* A package keyed by day serves only the slot it was made for; the others are
  blocked as mismatched.

## 12. Not modelled

* **Execution lock** (`safety/`): its guards are constants of a paper build,
  evaluated at construction; no state, and no step after it.
* **Production safety checklist**: reports over imported modules and artifacts.
* **Strategy director, market data hub, model gateway, learning, scripts**:
  sequential selection over a static catalog, normalisation of fixture bars,
  pass-through calls and wiring; nothing keeps state between calls.
* **Dashboard**: a read-mostly view of files with caches that expire.
* **Configuration, clock, types**: values appear as CONSTANTS, the clock as a
  variable; parsing and its errors are left out.

Modelled in part:

* the risk guard without its stamp, universe, venue and confidence rules, which are
  constant for the proposals its callers build;
* the replay store without `verify_replay` and `pnl_replay`, which only read;
* decision integration without the signal engine and the audit log, which explain a
  decision after it is made;
* the feed without the Kite provider, the decoder of frames, and the mock; the hours
  of a session are data;
* history without vendor candidates, the scorecard and the comparison of providers;
  validation without freeze fingerprints, robustness report and artifacts; backtest
  without the walk-forward runner over fixtures and slippage stress;
* the research desk without the wording of its reports.

### What is proved and what is only model-checked

Proved for every value of the constants: all invariants and action properties of the
runs that pass, the refinements among them.  Liveness is left to TLC:
`TimeoutResolves`, `SquareOffFlattens`, `CallsEnd`, `ExitsReachRecord`, `RunsEnd`,
`RecoveryDecided`.  The prover knows neither fairness nor ENABLED.

Sums, minima and ranks over finite sets are proved about with `SharedLemmas`.  The
library's induction theorems take a predicate as an operator, which the provers here
cannot instantiate, so an induction is made by looking at a least counterexample: of a
set of subsets of a finite set one contains no other (`MinimalSubset`, from `WFMin`).
From it come that a sum is a sum over any split of its set (`SumPart`), that a sum of
natural numbers is one (`SumNatural`), that the first elements in a strict order are
as many as asked for (`FirstFew`), and what a median is above and below.
