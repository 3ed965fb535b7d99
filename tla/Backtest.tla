-------------------------------- MODULE Backtest --------------------------------
(***************************************************************************)
(* The 2E backtest of one decision (grow/backtest/pipeline.py, simulate.py,*)
(* costs.py) over a historical dataset: from a strategy's signal through   *)
(* the options engine and the research desk to an entry, and its exit on   *)
(* the bars of the same day; and the chronological windows of a            *)
(* walk-forward (walkforward.py, grow/validation/windows.py).  All of it   *)
(* is pure.                                                                *)
(*                                                                         *)
(* A signal is a record [direction, stop, target] of index prices, which   *)
(* the strategies are free to choose; NoSignal has the direction "NONE".   *)
(*                                                                         *)
(* What a decision comes to is a record [raises, reason, trade]: the       *)
(* backtest is left with an exception, or there is a row with a reason     *)
(* and, when it was filled, a trade.                                       *)
(*                                                                         *)
(* Left out: the checks for bars and chains of the future, which what the  *)
(* sources give always passes; recorded decisions of the desk; and the lot *)
(* of a fixture's contract.                                                *)
(*                                                                         *)
(* An operator X_fault is X with a programming error; nothing uses it.     *)
(***************************************************************************)
EXTENDS HistoryStore, PaperPricing, ResearchDesk

CONSTANTS
  SquareOffOffset,   \* 15:15
  BacktestQuantity   \* backtest.quantity, in lots

ASSUME BacktestParameters ==
  /\ SquareOffOffset \in (DecisionOffset + 1)..(DayLength - 1)
  /\ BacktestQuantity \in Nat \ {0}

Ablations == {"always_no_trade", "skip_ceo", "full"}

NoFill == [contract |-> NoContract]

Raise == [raises |-> TRUE, reason |-> "DATA_UNAVAILABLE", trade |-> NoFill]

Outcome(reason, trade) == [raises |-> FALSE, reason |-> reason, trade |-> trade]

Declined(reason) == Outcome(reason, NoFill)

-----------------------------------------------------------------------------
(* The decision                                                            *)

\* The chain of HistoricalOptionSource.snapshot, as the options engine takes
\* it: it names the expiries of all listed contracts, quoted or not.
HistoricalChain(store, index, t) ==
  LET quotes == QuotesAt(store, index, t)
      listed == ListedAt(store, index, t)
  IN [today |-> DateAt(t), at |-> t, spot |-> LastPrice(store, index, t),
      contracts |-> listed,
      quotes |-> [c \in listed |->
                    IF c \in ChainAt(store, index, t)
                      THEN [at |-> quotes[c].at, value |-> quotes[c]]
                      ELSE NothingTold]]

\* bind_execution_lot: the contract of the candidate's identity, when it is
\* listed; 0 when that has no lot.
BoundLot(store, c, t) ==
  IF ListedWhen(store, c, t) THEN store.master[c].lot ELSE 0

PacketFor(q, direction) ==
  [direction |-> direction, type |-> TypeOf[q.contract], stale |-> FALSE,
   wide |-> 200 * (q.ask - q.bid) > 15 * (q.bid + q.ask)]

\* ExecutionSimulator.enter: the ask and the slippage, of a quote of two sides.
EntryFill(q) ==
  IF q.ask > 0 /\ q.bid > 0 /\ q.bid <= q.ask THEN q.ask + Slip(q.ask) ELSE 0

\* ExecutionSimulator.exit: the bid less the slippage, never below a tick.
ExitFill(q) ==
  IF q.bid = 0 \/ (q.ask > 0 /\ q.bid > q.ask) THEN 0
  ELSE IF q.bid - Slip(q.bid) > 1 THEN q.bid - Slip(q.bid) ELSE 1

-----------------------------------------------------------------------------
(* The exit                                                                *)

StopHit(bar, signal) ==
  IF signal.direction = "BULLISH" THEN bar.low <= signal.stop
                                  ELSE bar.high >= signal.stop

TargetHit(bar, signal) ==
  IF signal.direction = "BULLISH" THEN bar.high >= signal.target
                                  ELSE bar.low <= signal.target

\* The day's square-off is looked at with what is known then.
PathBars(store, index, t) ==
  BarsAt(store, index, "M15", MomentOf(DateAt(t), SquareOffOffset))

\* _path_exit: the end of the first bar since the decision that touches the
\* stop or the target, the stop first.
PathExit(bars, signal, t) ==
  LET hits == {b \in bars : /\ b.start >= t
                            /\ StopHit(b, signal) \/ TargetHit(b, signal)}
      first == CHOOSE b \in hits : \A a \in hits : b.start <= a.start
  IN IF hits = {} THEN [at |-> MomentOf(DateAt(t), SquareOffOffset),
                        reason |-> "SQUARE_OFF"]
     ELSE [at |-> first.end,
           reason |-> IF ~ StopHit(first, signal) THEN "TARGET"
                      ELSE IF TargetHit(first, signal) THEN "STOP_FIRST_AMBIGUOUS"
                      ELSE "STOP"]

\* contract_pnl and round_trip, of an exit at a price.
FilledTrade(q, t, exit, price, lot) ==
  LET units == BacktestQuantity * lot
      gross == (price - EntryFill(q)) * units
      cost == RoundTrip(EntryFill(q), price, units)
  IN [contract |-> q.contract, openedAt |-> t, closedAt |-> exit.at,
      entry |-> EntryFill(q), exit |-> price, gross |-> gross, cost |-> cost,
      net |-> gross - cost]

\* _close: without a quote to sell at there is no trade at all.
Exited(store, index, q, t, exit, lot) ==
  LET quotes == QuotesAt(store, index, exit.at)
      price == IF q.contract \in ChainAt(store, index, exit.at)
                 THEN ExitFill(quotes[q.contract]) ELSE 0
  IN CASE ~ Readable(store, index, exit.at) -> Raise
       [] Readable(store, index, exit.at) /\ price = 0 -> Declined("NO_EXIT_QUOTE")
       [] OTHER -> Outcome(exit.reason, FilledTrade(q, t, exit, price, lot))

\* _close from its look at the square-off.
Closing(store, index, q, t, signal, lot) ==
  IF ~ PriceKnown(store, index, MomentOf(DateAt(t), SquareOffOffset)) THEN Raise
  ELSE Exited(store, index, q, t,
              PathExit(PathBars(store, index, t), signal, t), lot)

\* evaluate, once the options engine has chosen.
Bought(store, index, c, t, signal, ablation) ==
  LET q == QuotesAt(store, index, t)[c]
      lot == BoundLot(store, c, t)
  IN IF lot = 0 THEN Declined("MISSING_LOT_SIZE")
     ELSE IF ablation # "skip_ceo" /\ ~ DeskApproves(PacketFor(q, signal.direction))
       THEN Declined("CEO_NO_TRADE")
     ELSE IF EntryFill(q) = 0 THEN Declined("UNKNOWN_QUOTE")
     ELSE Closing(store, index, q, t, signal, lot)

Chosen(store, index, t, signal, ablation) ==
  LET c == BestContract(HistoricalChain(store, index, t), index, signal.direction)
  IN IF c = NoContract THEN Declined("OPTIONS_NO_TRADE")
     ELSE Bought(store, index, c, t, signal, ablation)

\* DecisionPipeline.evaluate; the strategies speak in an open session only.
Evaluate(store, index, t, signal, ablation) ==
  IF ablation = "always_no_trade" THEN Declined("ABLATION_ALWAYS_NO_TRADE")
  ELSE IF ~ PriceKnown(store, index, t) THEN Raise
  ELSE IF StoreSession(store, t) # "OPEN" \/ signal.direction = "NONE"
    THEN Declined("NO_SIGNAL")
  ELSE IF ChainAt(store, index, t) = {} THEN Raise
  ELSE Chosen(store, index, t, signal, ablation)

-----------------------------------------------------------------------------
(* Windows                                                                 *)

\* The sizes are a record [train, validate, test, step, embargo].
Block(sizes) ==
  sizes.train + sizes.embargo + sizes.validate + sizes.embargo + sizes.test

WindowFrom(days, i, sizes) ==
  LET v == i + sizes.train + sizes.embargo
      s == v + sizes.validate + sizes.embargo
  IN [train |-> <<days[i], days[i + sizes.train - 1]>>,
      validate |-> <<days[v], days[v + sizes.validate - 1]>>,
      test |-> <<days[s], days[s + sizes.test - 1]>>]

\* split_windows and split_walk_windows: that no two parts of a window overlap
\* follows from the order of the days.
Windows(days, sizes) ==
  LET n == IF Len(days) < Block(sizes) THEN 0
           ELSE (Len(days) - Block(sizes)) \div sizes.step + 1
  IN [k \in 1..n |-> WindowFrom(days, 1 + (k - 1) * sizes.step, sizes)]

\* assert_chronological
Chronological(days) == \A i, j \in DOMAIN days : i < j => days[i] < days[j]

\* split_walk_windows does not raise.
SoundSplit(days, sizes) ==
  /\ Chronological(days)
  /\ 1 <= sizes.train /\ 1 <= sizes.validate /\ 1 <= sizes.test /\ 1 <= sizes.step
  /\ 0 <= sizes.embargo
=============================================================================
