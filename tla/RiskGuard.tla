------------------------------ MODULE RiskGuard ------------------------------
(***************************************************************************)
(* grow/risk/guard.py: the ordered, fail-closed rules that must all pass   *)
(* before a proposal is stamped.  The rules are pure, so the module only   *)
(* has operators.                                                          *)
(*                                                                         *)
(* A proposal is a record [intent, side, quantity, price, stop, session,   *)
(* highVolatility]; stop = 0 stands for "no stop".  A book is a record     *)
(* [cash, gross, symbol, dailyPnl, open] of what the caller passes.        *)
(* Money is an integer number of ticks.                                    *)
(*                                                                         *)
(* Abstracted: the venue, HMAC and universe rules (the two callers pass a  *)
(* paper venue and extend the universe with the ticker just before each    *)
(* call), and the text of the rule results.                                *)
(***************************************************************************)
EXTENDS Integers

CONSTANTS
  MaxPositionNotional,   \* risk.max_position_notional
  MaxGrossNotional,      \* risk.max_gross_notional
  MaxDailyLoss,          \* risk.max_daily_loss
  MaxConcentrationPct,   \* risk.max_symbol_concentration, in percent
  MaxOpenPositions,      \* risk.max_open_positions
  MaxPerTradeRisk        \* risk.max_per_trade_risk

ASSUME RiskLimits ==
  /\ MaxPositionNotional \in Nat
  /\ MaxGrossNotional \in Nat
  /\ MaxDailyLoss \in Nat
  /\ MaxConcentrationPct \in Nat
  /\ MaxOpenPositions \in Nat
  /\ MaxPerTradeRisk \in Nat

Flatten == {"CLOSE", "REDUCE", "SQUARE_OFF"}

Notional(p) == p.quantity * p.price

\* Exposure the proposal would add: only an OPEN adds any.
Added(p) == IF p.intent = "OPEN" THEN Notional(p) ELSE 0

\* stop.required: an OPEN needs a stop on the losing side of its price.
StopSound(p) ==
  p.intent = "OPEN" =>
    /\ p.stop > 0
    /\ IF p.side = "BUY" THEN p.stop < p.price ELSE p.stop > p.price

\* notional.position, notional.gross, cash.available, concentration.symbol.
\* The equity basis is cost notional, floored at 1.
NotionalLimits(p, b) ==
  /\ Notional(p) <= MaxPositionNotional
  /\ b.gross + Added(p) <= MaxGrossNotional
  /\ Added(p) <= b.cash
  /\ LET equity == IF b.cash + b.gross > 1 THEN b.cash + b.gross ELSE 1
     IN 100 * (b.symbol + Added(p)) <= MaxConcentrationPct * equity

\* session.entries and session.flatten
SessionPermits(p) ==
  p.session \in (IF p.intent = "OPEN" THEN {"OPEN"}
                                       ELSE {"OPEN", "SQUARE_OFF_WINDOW"})

\* positions.count and risk.per_trade, the 4C rules for an OPEN
OpenLimits(p, b) ==
  p.intent = "OPEN" =>
    /\ 0 <= b.open /\ b.open < MaxOpenPositions
    /\ LET distance == IF p.price > p.stop THEN p.price - p.stop
                                           ELSE p.stop - p.price
       IN distance * p.quantity <= MaxPerTradeRisk

\* RiskGuard.evaluate: every rule passes.  The book is cash long-only
\* (risk.allow_short is false), so an OPEN is never a SELL.
Approves(p, b) ==
  /\ p.quantity > 0
  /\ p.price > 0
  /\ ~ (p.intent = "OPEN" /\ p.side = "SELL")
  /\ StopSound(p)
  /\ NotionalLimits(p, b)
  /\ b.dailyPnl >= -MaxDailyLoss
  /\ SessionPermits(p)
  /\ ~ (p.highVolatility /\ p.intent = "OPEN")
  /\ OpenLimits(p, b)

\* RiskGuard.evaluate_exit: it looks at the proposal alone, so neither the
\* session nor the book can veto a reduction of exposure.
ApprovesExit(p) ==
  /\ p.intent \in Flatten
  /\ p.side = "SELL"
  /\ p.quantity > 0
  /\ p.price > 0
=============================================================================
