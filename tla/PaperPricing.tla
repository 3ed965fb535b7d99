---------------------------- MODULE PaperPricing ----------------------------
(***************************************************************************)
(* Prices of the paper book: which side of a quote fills an order          *)
(* (grow/paper/fills.py), which side marks a position                      *)
(* (grow/paper/valuation.py), which exit a mark calls for                  *)
(* (grow/paper/exits.py); and what a round trip costs                      *)
(* (grow/backtest/costs.py).                                               *)
(*                                                                         *)
(* A quote is a record [ok, bid, ask, ltp, age]: ok is quality = OK, a     *)
(* price that is missing or not positive is 0, and age is how long before  *)
(* the snapshot's decision time the quote was stamped (negative: after     *)
(* it).  Prices are integers in ticks.                                     *)
(*                                                                         *)
(* An operator X_fault is X with a programming error; nothing uses it.     *)
(***************************************************************************)
EXTENDS Integers

CONSTANTS
  Deterministic,   \* FillPolicy.deterministic: exits take BID, else LTP
  EntrySource,     \* FillPolicy.entry_source
  ExitSource,      \* FillPolicy.exit_source
  SlippageBps,     \* FillPolicy.slippage_bps
  TakeProfitPct,   \* live_data.take_profit_pct, in percent
  SquareOffOnClose,\* live_data.session_close_square_off
  Brokerage,       \* CostModel.brokerage_per_order
  SttRate,         \* CostModel.stt_sell_pct, per 100000
  ExchangeRate,    \* CostModel.exchange_pct, per 100000
  GstRate          \* CostModel.gst_pct, per 100

PriceSources == {"BID", "ASK", "LTP", "MIDPOINT"}

ASSUME PricingPolicy ==
  /\ Deterministic \in BOOLEAN
  /\ EntrySource \in PriceSources
  /\ ExitSource \in PriceSources
  /\ SlippageBps \in Nat
  /\ TakeProfitPct \in Nat
  /\ SquareOffOnClose \in BOOLEAN
  /\ {Brokerage, SttRate, ExchangeRate, GstRate} \subseteq Nat

Crossed(q) == q.bid > 0 /\ q.ask > 0 /\ q.bid > q.ask

\* The price of a source, 0 when the quote has none: a crossed quote has no
\* price at all, and a midpoint needs both sides.
Reference(q, source) ==
  IF Crossed(q) THEN 0
  ELSE IF source = "LTP" THEN q.ltp
  ELSE IF source = "BID" THEN q.bid
  ELSE IF source = "ASK" THEN q.ask
  ELSE IF q.bid > 0 /\ q.ask > 0 THEN (q.bid + q.ask) \div 2
  ELSE 0

\* The side an exit fills at: the policy's, or BID else LTP when the model is
\* the deterministic one.
ExitSourceOf(q) ==
  IF ~ Deterministic THEN ExitSource
  ELSE IF Reference(q, "BID") > 0 THEN "BID" ELSE "LTP"

Slip(reference) == (reference * SlippageBps) \div 10000

\* A buy pays the slippage; a sell receives less, never under one tick.
BuyPrice(q) == Reference(q, EntrySource) + Slip(Reference(q, EntrySource))

SellPrice(q) ==
  LET reference == Reference(q, ExitSourceOf(q))
      net == reference - Slip(reference)
  IN IF net > 1 THEN net ELSE 1

\* A quote stamped after the decision time is not known yet.
KnownAt_fault(q) == q.age >= -1

KnownAt(q) == q.age >= 0

\* simulate_fill finds a price: the quote is usable, known and priced.
Buyable(q) == q.ok /\ KnownAt(q) /\ Reference(q, EntrySource) > 0

Sellable(q) == q.ok /\ KnownAt(q) /\ Reference(q, ExitSourceOf(q)) > 0

\* The mark of a long: BID, else LTP, never ASK.  Unlike a fill, a mark does
\* not look at whether the quote is crossed.
MarkPrice(q) == IF q.bid > 0 THEN q.bid ELSE q.ltp

\* The quote enters the 3B snapshot and has a side to value a long at.
Markable(q) == q.ok /\ KnownAt(q) /\ MarkPrice(q) > 0

\* CostModel.round_trip: two orders, STT on the sale, exchange fees on both
\* legs, GST on brokerage and fees.
RoundTrip(entry, exit, quantity) ==
  LET stt == (exit * quantity * SttRate) \div 100000
      fees == ((entry + exit) * quantity * ExchangeRate) \div 100000
      gst == ((2 * Brokerage + fees) * GstRate) \div 100
  IN 2 * Brokerage + stt + fees + gst

TakeProfit(entry) == (entry * (100 + TakeProfitPct)) \div 100

CloseDue_fault(session) == SquareOffOnClose /\ session = "SQUARE_OFF_WINDOW"

CloseDue(session) ==
  SquareOffOnClose /\ session \in {"SQUARE_OFF_WINDOW", "CLOSED"}

\* choose_exit: STOP_LOSS before TAKE_PROFIT before SESSION_CLOSE.
ChooseExit(mark, stop, takeProfit, closeDue) ==
  IF mark <= stop THEN "STOP_LOSS"
  ELSE IF mark >= takeProfit THEN "TAKE_PROFIT"
  ELSE IF closeDue THEN "SESSION_CLOSE" ELSE "NONE"
=============================================================================
