-------------------------- MODULE HistoricalEvaluation --------------------------
(***************************************************************************)
(* An evaluation over a historical dataset, of one of three kinds:         *)
(*   campaign  HistoricalValidationCampaign (grow/validation/historical.py)*)
(*             checks the dataset, builds a cycle of every decision slot   *)
(*             and hands them to the walk-forward runner;                  *)
(*   runner    WalkForwardValidationRunner (grow/validation/runner.py) on  *)
(*             cycles the caller built;                                    *)
(*   backtest  a qualified BacktestRunner (grow/history/integrate/         *)
(*             replay.py, grow/backtest/runner.py).                        *)
(* The first two replay each train, validate and test span of their        *)
(* windows through a paper engine of its own (grow/validation/replay.py),  *)
(* the last decides once a day (Backtest).                                 *)
(*                                                                         *)
(* A request is a record of what the caller passes.  A cycle is a record   *)
(* [snapshot, package]; a package [of, candidate] is of the snapshot it    *)
(* was made for.  The engine is that of SessionEngine: its profile has no  *)
(* session timeout.                                                        *)
(*                                                                         *)
(* Left out: the replay with doubled slippage, the robustness report, the  *)
(* counts by regime and expiry, artifacts, and the fingerprints that       *)
(* freeze the configuration.                                               *)
(*                                                                         *)
(* An operator X_fault is X with a programming error; nothing uses it.     *)
(***************************************************************************)
EXTENDS SessionEngine, Qualification

CONSTANTS
  Requests,       \* what callers may ask for
  BacktestCash    \* backtest.starting_cash

VARIABLES
  request,   \* the request in progress
  stage,     \* NEW, OPENED, READY, SPANS, SPAN, DONE or RAISED
  cycles,    \* the cycles, by their moments
  todo,      \* the spans still to do
  span,      \* the span in progress, or the one done last
  results    \* what the spans came to

evaluationVars == <<request, stage, cycles, todo, span, results>>

\* Numbers, the least first: before the n-th there are n - 1.
InOrder(S) ==
  [n \in 1..Cardinality(S) |->
     CHOOSE a \in S : Cardinality({b \in S : b < a}) = n - 1]

NoPackage == [of |-> -1, candidate |-> NoCandidate]

NoCycles == [t \in {} |-> NoPackage]

-----------------------------------------------------------------------------
(* What callers may ask for                                                *)

Shows(row, q) == row.bid = q.bid /\ row.ask = q.ask /\ row.ltp = q.ltp

\* Of the quotes of a contract that were available at a moment the last one taken.
LastKnown(store, c, t) ==
  LET known == {q \in store.quotes : q.contract = c /\ q.at <= t /\ q.known <= t}
  IN {q \in known : \A p \in known : p.at <= q.at}

\* A snapshot of a dataset: what it shows of no later moment is the last that was
\* known of the contract.
TakenFrom(snapshot, store, t) ==
  /\ snapshot.at = t
  /\ \A c \in DOMAIN snapshot.rows :
       LET row == snapshot.rows[c]
       IN /\ {row.bid, row.ask, row.ltp, row.lot} \subseteq Nat
          /\ row.age >= 0 => \E q \in LastKnown(store, c, t) : Shows(row, q)

Prepared(package) ==
  {package.candidate.quantity, package.candidate.stop} \subseteq Nat

\* The runner does not see where the cycles it is given come from: that they show
\* the dataset, or the future, is up to its caller.
ASSUME EvaluationRequests ==
  /\ BacktestCash \in Int /\ IndexList \in Seq(DOMAIN ProfileFor)
  /\ \A r \in Requests :
       /\ r.kind \in {"campaign", "runner", "backtest"} /\ r.store \in Stores
       /\ r.kind # "backtest" =>
            /\ {r.sizes.train, r.sizes.validate, r.sizes.test, r.sizes.step,
                r.sizes.embargo} \subseteq Int
            /\ r.sessions \in Seq(Int)
       /\ r.kind = "campaign" =>
            /\ \A t \in DOMAIN r.packages.slots : Prepared(r.packages.slots[t])
            /\ \A d \in DOMAIN r.packages.days : Prepared(r.packages.days[d])
       /\ r.kind = "runner" =>
            /\ DOMAIN r.cycles \subseteq Nat
            /\ \A t \in DOMAIN r.cycles : /\ TakenFrom(r.cycles[t].snapshot, r.store, t)
                                          /\ Prepared(r.cycles[t].package)
       /\ r.kind = "backtest" => {r.from, r.to} \subseteq Int

-----------------------------------------------------------------------------
(* Opening                                                                 *)

\* The record of a request, unless it is the one the provider evaluation makes of
\* the dataset.
FromHarness == [status |-> "FROM_HARNESS", ofStore |-> TRUE]

RecordOf(r) ==
  IF r.record = FromHarness
    THEN [status |-> QualificationOf(r.store), ofStore |-> TRUE]
    ELSE r.record

LabelOf(r) == IF r.label = "NONE" THEN DerivedLabel(r.store) ELSE r.label

\* HistoricalValidationCampaign.__init__ does not raise.
CampaignOpens(r) ==
  /\ LabelOf(r) # "LIVE-PAPER"
  /\ LabelOf(r) = DerivedLabel(r.store)
  /\ IF LabelOf(r) = "HISTORICAL" THEN MayEvaluate(r.store, RecordOf(r))
     ELSE r.store.scope # "HISTORICAL_RESEARCH" \/ r.store.fixture
  /\ ~ TodayInstead(DOMAIN r.store.master, r.today)

\* open_qualified_runner does not raise, nor its calendar of the open days.
BacktestOpens(r) ==
  /\ ~ r.store.fixture /\ r.store.scope = "HISTORICAL_RESEARCH" /\ ~ r.store.sample
  /\ RecordOf(r).ofStore /\ RecordOf(r).status \in ReadyStatuses
  /\ OpenDays(r.store) \cap r.from..r.to # {}

-----------------------------------------------------------------------------
(* Cycles                                                                  *)

\* The packages are looked up by the slot, then by its day.
PackageAt(packages, t) ==
  IF t \in DOMAIN packages.slots THEN packages.slots[t]
  ELSE IF DateAt(t) \in DOMAIN packages.days THEN packages.days[DateAt(t)]
  ELSE NoPackage

\* build_historical_cycles
CyclesOf(r) ==
  [t \in DecisionSlots(r.store) |->
     [snapshot |-> HistoricalSnapshot(r.store, r.index, t),
      package |-> PackageAt(r.packages, t)]]

\* Only the first of the cycles is looked at.
ProvenanceHolds_fault(label, built) ==
  label = "HISTORICAL" => SourceOf(built[Earliest(DOMAIN built)].snapshot) = "LIVE"

\* assert_historical_evaluation_provenance
ProvenanceHolds(label, built) ==
  label = "HISTORICAL" =>
    {SourceOf(built[t].snapshot) : t \in DOMAIN built} = {"LIVE"}

UniverseOf(built) == UNION {DOMAIN built[t].snapshot.rows : t \in DOMAIN built}

SessionsOf(r) ==
  IF r.sessions # <<>> THEN r.sessions ELSE InOrder(OpenDays(r.store))

\* There is something to build, and no slot is without a price or a chain.
CyclesBuildable(r) ==
  /\ SessionsOf(r) # <<>>
  /\ DecisionSlots(r.store) # {}
  /\ \A t \in DecisionSlots(r.store) : Readable(r.store, r.index, t)

-----------------------------------------------------------------------------
(* Spans                                                                   *)

Period(role, window, days, stress) ==
  [role |-> role, window |-> window, from |-> days[1], to |-> days[2],
   stress |-> stress]

\* WalkForwardValidationRunner.run: the three spans of every window, then all
\* test days at once with doubled charges.
Roles == <<"train", "validate", "test">>

SpansOf(windows, stressed) ==
  LET part(k, role) == Period(role, k, windows[k][role], 1)
      all == <<windows[1].test[1], windows[Len(windows)].test[2]>>
      count == 3 * Len(windows)
  IN [n \in 1..(IF stressed THEN count + 1 ELSE count) |->
        IF n > count THEN Period("stress", 0, all, 2)
        ELSE part((n + 2) \div 3, Roles[((n - 1) % 3) + 1])]

\* BacktestRunner.run, which calls itself for the stress.
BacktestSpans(r) ==
  LET plain == Period("backtest", 0, <<r.from, r.to>>, 1)
      stress == Period("stress", 0, <<r.from, r.to>>, 2)
  IN IF r.stressed /\ r.ablation = "full" THEN <<plain, stress>> ELSE <<plain>>

StartingCash == IF request.kind = "backtest" THEN BacktestCash ELSE CampaignCash

\* The steps of a span: cycles by their moments, or the day's decisions of each
\* index.
StepsOf(period) ==
  IF request.kind = "backtest"
    THEN {<<MomentOf(day, DecisionOffset), i>> :
            day \in OpenDays(request.store) \cap period.from..period.to,
            i \in DOMAIN IndexList}
    ELSE {<<t, 1>> : t \in {u \in DOMAIN cycles :
                              period.from <= DateAt(u) /\ DateAt(u) <= period.to}}

NextOf(steps) ==
  CHOOSE s \in steps : \A r \in steps :
    s[1] < r[1] \/ (s[1] = r[1] /\ s[2] <= r[2])

\* HistoricalPaperReplay.run before its loop; BacktestLedger.
NewSpan(period, engine) ==
  [period |-> period, left |-> StepsOf(period), engine |-> engine,
   trades |-> [i \in {} |-> NoFill], decisions |-> 0, fills |-> 0,
   flags |-> {}, cycles |-> Cardinality(StepsOf(period)),
   equity |-> StartingCash, peak |-> StartingCash, drawdown |-> 0]

\* The engine is made once, for all spans.
EngineFor_fault(period) ==
  IF period.role = "train" THEN NewEngine(period.from) ELSE span.engine

\* A new engine, and a new registry of the trades reported, for every span.
EngineFor(period) == NewEngine(period.from)

NoSpan == [left |-> {}, engine |-> NewEngine(0)]

\* The next point of an equity curve.
WithEquity(s, value) ==
  LET peak == IF value > s.peak THEN value ELSE s.peak
      drop == value - peak
  IN [s EXCEPT !.equity = value, !.peak = peak,
               !.drawdown = IF drop < @ THEN drop ELSE @]

-----------------------------------------------------------------------------
(* A cycle of a replay                                                     *)

\* snapshot_leakage_flags
Leaks(snapshot) ==
  (IF \E c \in DOMAIN snapshot.rows : snapshot.rows[c].age < 0
     THEN {"LOOKAHEAD_OPTION_QUOTE"} ELSE {})
    \cup (IF \E u \in DOMAIN snapshot.under : snapshot.under[u].age < 0
            THEN {"LOOKAHEAD_UNDERLYING_QUOTE"} ELSE {})

\* quote_on_historical_chain and contract_available_at; that a quote is of the
\* future was found before.
OnChain(store, snapshot) ==
  \A c \in DOMAIN snapshot.rows :
    /\ c \in DOMAIN store.master
    /\ ListedWhen(store, c, snapshot.at)
    /\ store.master[c].lot >= 1

\* What keeps a cycle from a decision.
FlagsAt(snapshot) ==
  IF Leaks(snapshot) # {} THEN Leaks(snapshot)
  ELSE IF request.listed /\ ~ OnChain(request.store, snapshot)
    THEN {"NOT_AVAILABLE"} ELSE {}

\* The package is one of prepared answers: what it proposes, and nothing that
\* speaks against it.
OutputsOf(package) ==
  [n \in SpecialistNames |->
     IF n = "campaign_options"
       THEN OptionsAnswer(package.candidate, package.candidate.direction)
       ELSE Answer("PASS", "NONE", {})]

\* DecisionIntegrator._decide on the empty book: a package of another snapshot
\* is blocked.
DecisionOn(cycle) ==
  IF cycle.package.of # cycle.snapshot.at THEN Verdict("BLOCKED", NoCandidate)
  ELSE Decide(cycle.snapshot, OutputsOf(cycle.package),
              SessionOf[cycle.snapshot.at], EmptyBook)

\* engine.run
Traded(engine, cycle) == Execute(engine, cycle.snapshot, DecisionOn(cycle))

\* What a closed trade is reported as: the charges are scaled, its prices are
\* not.
Reported(t, stress) ==
  [contract |-> t.contract, openedAt |-> t.openedAt, closedAt |-> t.closedAt,
   entry |-> t.entry, exit |-> t.mark, gross |-> GrossOf(t),
   cost |-> t.costs * stress, net |-> GrossOf(t) - t.costs * stress]

\* Trades already reported stay as they are.
WithReports(s) ==
  [s EXCEPT !.trades =
     [i \in ClosedTrades(s.engine) |->
        IF i \in DOMAIN s.trades THEN s.trades[i]
        ELSE Reported(s.engine.trades[i], s.period.stress)]]

\* The engine's own equity: its charges are those of the book.
EngineEquity(engine) == CampaignCash + NetPnl(engine) + Unrealized(engine)

\* After the entry, if any: exits, reports, and an equity point.
Cycled(s, engine, snapshot, step, flags) ==
  LET monitored == Monitor(engine, snapshot)
      filled == Len(engine.trades) > Len(s.engine.trades)
  IN WithEquity(
       WithReports([s EXCEPT !.engine = monitored, !.left = @ \ {step},
                             !.flags = @ \cup flags,
                             !.decisions = @ + 1,
                             !.fills = IF filled THEN @ + 1 ELSE @]),
       EngineEquity(monitored))

AfterCycle(s, cycle, step, flags) ==
  Cycled(s, IF flags = {} THEN Traded(s.engine, cycle) ELSE s.engine,
         cycle.snapshot, step, flags)

\* A cycle that would be decided has no package.
LacksPackage(cycle) == FlagsAt(cycle.snapshot) = {} /\ cycle.package = NoPackage

-----------------------------------------------------------------------------
(* A decision of a backtest                                                *)

\* CostModel's stress scales the charges; BacktestLedger.record_trade adds the
\* net of the trade to the cash.
Charged(t, stress) == [t EXCEPT !.cost = @ * stress, !.net = t.gross - t.cost * stress]

AfterDecision(s, outcome, step) ==
  LET next == [s EXCEPT !.left = @ \ {step}, !.decisions = @ + 1]
      t == Charged(outcome.trade, s.period.stress)
  IN IF outcome.trade = NoFill THEN next
     ELSE WithEquity([next EXCEPT
                        !.fills = @ + 1,
                        !.trades = [i \in DOMAIN @ \cup {s.fills + 1} |->
                                      IF i \in DOMAIN @ THEN @[i] ELSE t]],
                     s.equity + t.net)

OutcomeAt(step) ==
  Evaluate(request.store, IndexList[step[2]], step[1],
           request.signals[DateAt(step[1])], request.ablation)

-----------------------------------------------------------------------------
(* Results                                                                 *)

\* calculate_metrics, calculate
ResultOf(s) ==
  [period |-> s.period, trades |-> s.trades,
   gross |-> SumFunction([i \in DOMAIN s.trades |-> s.trades[i].gross]),
   cost |-> SumFunction([i \in DOMAIN s.trades |-> s.trades[i].cost]),
   net |-> SumFunction([i \in DOMAIN s.trades |-> s.trades[i].net]),
   ending |-> s.equity, drawdown |-> s.drawdown, flags |-> s.flags,
   decisions |-> s.decisions, fills |-> s.fills, cycles |-> s.cycles]

TestsOf(rs) == {k \in DOMAIN rs : rs[k].period.role = "test"}

CombinedTestNet(rs) == SumFunction([k \in TestsOf(rs) |-> rs[k].net])

\* The status of the whole walk: of the flags, only those of the future.
LeakageStatus(rs) ==
  IF \E k \in DOMAIN rs : rs[k].period.role # "stress"
        /\ rs[k].flags \cap {"LOOKAHEAD_OPTION_QUOTE", "LOOKAHEAD_UNDERLYING_QUOTE"}
             # {}
    THEN "LEAKAGE"
  ELSE IF \A k \in TestsOf(rs) : rs[k].cycles = 0 THEN "UNKNOWN" ELSE "CLEAN"

-----------------------------------------------------------------------------
(* The evaluation                                                          *)

\* Nothing of what was done is returned.
Raises ==
  /\ stage' = "RAISED"
  /\ results' = <<>>
  /\ UNCHANGED <<request, cycles, todo, span>>

OpenCampaign ==
  /\ stage = "NEW" /\ request.kind = "campaign"
  /\ IF CampaignOpens(request)
       THEN /\ stage' = "OPENED"
            /\ UNCHANGED <<request, cycles, todo, span, results>>
       ELSE Raises

BuildCycles ==
  /\ stage = "OPENED"
  /\ IF CyclesBuildable(request)
       THEN \E built \in {CyclesOf(request)} :
              IF /\ ProvenanceHolds(LabelOf(request), built)
                 /\ ~ TodayInstead(UniverseOf(built), request.today)
                THEN /\ stage' = "READY"
                     /\ cycles' = built
                     /\ UNCHANGED <<request, todo, span, results>>
                ELSE Raises
       ELSE Raises

TakeCycles ==
  /\ stage = "NEW" /\ request.kind = "runner"
  /\ stage' = "READY"
  /\ cycles' = request.cycles
  /\ UNCHANGED <<request, todo, span, results>>

SplitWindows ==
  /\ stage = "READY"
  /\ \E days \in {SessionsOf(request)} :
       IF SoundSplit(days, request.sizes) /\ Windows(days, request.sizes) # <<>>
         THEN /\ stage' = "SPANS"
              /\ todo' = SpansOf(Windows(days, request.sizes), request.stressed)
              /\ UNCHANGED <<request, cycles, span, results>>
         ELSE Raises

OpenBacktest ==
  /\ stage = "NEW" /\ request.kind = "backtest"
  /\ IF BacktestOpens(request)
       THEN /\ stage' = "SPANS"
            /\ todo' = BacktestSpans(request)
            /\ UNCHANGED <<request, cycles, span, results>>
       ELSE Raises

StartSpan ==
  /\ stage = "SPANS"
  /\ todo # <<>>
  /\ span' = NewSpan(Head(todo), EngineFor(Head(todo)))
  /\ stage' = "SPAN"
  /\ todo' = Tail(todo)
  /\ UNCHANGED <<request, cycles, results>>

ReplayCycle ==
  /\ stage = "SPAN" /\ span.left # {} /\ request.kind # "backtest"
  /\ \E step \in {NextOf(span.left)} :
       \E cycle \in {cycles[step[1]]} :
         IF LacksPackage(cycle) THEN Raises
         ELSE /\ span' = AfterCycle(span, cycle, step, FlagsAt(cycle.snapshot))
              /\ UNCHANGED <<request, stage, cycles, todo, results>>

DecideDay ==
  /\ stage = "SPAN" /\ span.left # {} /\ request.kind = "backtest"
  /\ \E step \in {NextOf(span.left)} :
       \E outcome \in {OutcomeAt(step)} :
         IF outcome.raises THEN Raises
         ELSE /\ span' = AfterDecision(span, outcome, step)
              /\ UNCHANGED <<request, stage, cycles, todo, results>>

EndSpan ==
  /\ stage = "SPAN" /\ span.left = {}
  /\ results' = Append(results, ResultOf(span))
  /\ stage' = "SPANS"
  /\ UNCHANGED <<request, cycles, todo, span>>

Finish ==
  /\ stage = "SPANS" /\ todo = <<>>
  /\ stage' = "DONE"
  /\ UNCHANGED <<request, cycles, todo, span, results>>

EvaluationInit ==
  /\ request \in Requests
  /\ stage = "NEW"
  /\ cycles = NoCycles
  /\ todo = <<>>
  /\ span = NoSpan
  /\ results = <<>>

EvaluationNext ==
  \/ OpenCampaign
  \/ BuildCycles
  \/ TakeCycles
  \/ SplitWindows
  \/ OpenBacktest
  \/ StartSpan
  \/ ReplayCycle
  \/ DecideDay
  \/ EndSpan
  \/ Finish

EvaluationSpec == EvaluationInit /\ [][EvaluationNext]_evaluationVars

-----------------------------------------------------------------------------
(* What an evaluation must keep                                            *)

ReportedTrades == UNION {{results[k].trades[i] : i \in DOMAIN results[k].trades} :
                             k \in DOMAIN results}

EntryAt(q) == IF request.kind = "backtest" THEN EntryFill(q) ELSE BuyPrice(q)

ExitAt(q) == IF request.kind = "backtest" THEN ExitFill(q) ELSE SellPrice(q)

\* A backtest leaves a trade at the end of a bar, and a bar may have no length.
SoldInTime(t) ==
  \/ t.openedAt < t.closedAt
  \/ /\ request.kind = "backtest" /\ t.openedAt = t.closedAt
     /\ \E b \in request.store.bars : b.start = t.openedAt /\ b.end = t.openedAt

\* Every trade of every span was bought and sold at prices of the last quote
\* that was available at the time, and sold after it was bought; the contract
\* was listed when it was bought, unless the runner was given no listing; and
\* cycles the campaign builds itself never show the future.
OnlyWhatWasKnown ==
  /\ \A t \in ReportedTrades :
       /\ \E q \in LastKnown(request.store, t.contract, t.openedAt) :
            t.entry = EntryAt(q)
       /\ \E q \in LastKnown(request.store, t.contract, t.closedAt) :
            t.exit = ExitAt(q)
       /\ request.kind = "backtest" \/ request.listed =>
            ListedWhen(request.store, t.contract, t.openedAt)
       /\ SoldInTime(t)
       /\ request.kind = "backtest" =>
            t.closedAt <= MomentOf(DateAt(t.openedAt), SquareOffOffset)
  /\ request.kind = "campaign" /\ stage = "DONE" =>
       LeakageStatus(results) # "LEAKAGE"

\* A span owes nothing to another one: its trades lie within its days, its
\* equity is the starting cash and what its own trades made (scaled charges
\* are not the book's) and hold; and a test begins to trade only when the
\* train and validate spans of its window have ended.
SpansStandAlone ==
  /\ stage = "SPAN" =>
       LET total == ResultOf(span)
           period == span.period
       IN /\ total.ending = StartingCash + total.gross
                              + Unrealized(span.engine)
                              - (IF request.kind = "backtest" THEN total.cost
                                 ELSE total.cost \div period.stress)
          /\ \A i \in DOMAIN span.trades :
               /\ period.from <= DateAt(span.trades[i].openedAt)
               /\ DateAt(span.trades[i].closedAt) <= period.to
  /\ \A k \in TestsOf(results), j \in DOMAIN results :
       results[j].period.window = results[k].period.window /\ j # k =>
         \A t \in {results[k].trades[i] : i \in DOMAIN results[k].trades} :
           results[j].period.to < DateAt(t.openedAt)

\* What was listed at a moment of a cycle and not quoted just then.
Unquoted ==
  {s \in (DOMAIN request.store.master) \X (DOMAIN cycles) :
     /\ s[1] \in ListedAt(request.store, request.index, s[2])
     /\ s \notin {<<q.contract, q.at>> : q \in request.store.quotes}}

\* At every cycle the options engine would choose the expiry that was
\* reconstructed; and of the quotes the whole dataset should have, the cycles
\* miss no more than half of one unit of Precision: none of less than 20000.
AsQualified ==
  /\ \A t \in DOMAIN cycles :
       EngineExpiry(request.store, request.index, t)
         = ResolvedExpiry(request.store, request.index, t)
  /\ 2 * Precision * Cardinality(Unquoted)
       <= Cardinality(ExpectedQuotes(request.store))

\* An evaluation labelled HISTORICAL is of a published and qualified dataset,
\* and neither side of a trade was filled from a quote of a fixture.  When the
\* provider evaluation qualified it, what it found holds at every cycle that is
\* decided, if it was done for the index the campaign is of (which nothing
\* checks), and the dataset is neither a fixture's nor a recorded sample.
HistoricalIsReal ==
  request.kind = "campaign" /\ stage \in {"SPANS", "SPAN", "DONE"}
    /\ LabelOf(request) = "HISTORICAL" =>
      /\ request.store.published /\ QualifiedBy(request.store, RecordOf(request))
      /\ \A t \in ReportedTrades :
           \A q \in LastKnown(request.store, t.contract, t.openedAt)
                     \cup LastKnown(request.store, t.contract, t.closedAt) :
             ~ q.flagged /\ ~ request.store.fixture
      /\ request.record = FromHarness =>
           /\ request.index \in request.store.instruments => AsQualified
           /\ ~ IsFramework(request.store) /\ ~ IsRecorded(request.store)
=============================================================================
