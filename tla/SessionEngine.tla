---------------------------- MODULE SessionEngine ----------------------------
(***************************************************************************)
(* The paper execution engine (grow/paper/engine.py, positions.py,         *)
(* ledger.py) as the campaign and the historical replay drive it: without  *)
(* a checkpoint, and with live_data.session_timeout_seconds = 0, so that   *)
(* nothing times out.  All of it is pure: an operator takes the engine and *)
(* gives the engine after the call.  PaperEngine is the same engine with   *)
(* its lifecycle, its checkpoints and its timeout.                         *)
(*                                                                         *)
(* An engine is a record with at least                                     *)
(*   [day, trades, halted, unresolved, dailyHalt]:                         *)
(* the day of its loss budget, every trade it ever opened, and what stops  *)
(* new entries.  Times are those of the snapshots it is given.             *)
(*                                                                         *)
(* An operator X_fault is X with a programming error; nothing uses it.     *)
(***************************************************************************)
EXTENDS DecisionIntegration, PaperPricing

CONSTANT SessionOf   \* the calendar's session at a moment

NewEngine(day) ==
  [day |-> day, trades |-> <<>>, halted |-> FALSE, unresolved |-> FALSE,
   dailyHalt |-> FALSE]

-----------------------------------------------------------------------------
(* Accounts                                                                *)

IsOpen(t) == t.state = "OPEN"

OpenTrades(s) == {i \in DOMAIN s.trades : IsOpen(s.trades[i])}

ClosedTrades(s) == DOMAIN s.trades \ OpenTrades(s)

Cost(t) == t.quantity * t.entry

GrossOf(t) == IF IsOpen(t) THEN 0 ELSE t.quantity * (t.mark - t.entry)

NetOf(t) == GrossOf(t) - t.costs

UnrealizedOf(t) ==
  IF IsOpen(t) /\ t.mark > 0 THEN t.quantity * (t.mark - t.entry) ELSE 0

GrossPnl(s) == SumFunction([i \in DOMAIN s.trades |-> GrossOf(s.trades[i])])

NetPnl(s) == SumFunction([i \in DOMAIN s.trades |-> NetOf(s.trades[i])])

Unrealized(s) == SumFunction([i \in DOMAIN s.trades |-> UnrealizedOf(s.trades[i])])

\* What the positions of some of the open trades cost.
CostOf(s, S) == SumFunction([i \in S |-> Cost(s.trades[i])])

OpenCost(s) == CostOf(s, OpenTrades(s))

\* The ledger's cash: charges are never booked to it.
LedgerCash(s) == CampaignCash + GrossPnl(s) - OpenCost(s)

\* The net of what was closed on a day.
DayRealized(s, today) ==
  LET S == {i \in DOMAIN s.trades : s.trades[i].closedOn = today}
  IN SumFunction([i \in S |-> NetOf(s.trades[i])])

OpenOn(s, contract) == {i \in OpenTrades(s) : s.trades[i].contract = contract}

\* The guard is told what the integrator's was told.
LedgerBook_fault(s, contract, today) == EmptyBook

\* What the engine's own guard is told.
LedgerBook(s, contract, today) ==
  [cash |-> LedgerCash(s), gross |-> OpenCost(s),
   symbol |-> CostOf(s, OpenOn(s, contract)),
   dailyPnl |-> DayRealized(s, today), open |-> Cardinality(OpenTrades(s))]

\* The last marks take the day below its floor, what was closed today does not.
OnlyMarkedLoss(s, today) ==
  /\ DayRealized(s, today) >= -MaxDailyLoss
  /\ DayRealized(s, today) + Unrealized(s) < -MaxDailyLoss

-----------------------------------------------------------------------------
(* Entries                                                                 *)

Stopped(s) == s.halted \/ s.unresolved \/ s.dailyHalt

\* _roll_trading_day: a loss halt ends with its day.
Rolled(s, today) ==
  IF s.day = today THEN s ELSE [s EXCEPT !.day = today, !.dailyHalt = FALSE]

\* _resolve_sizing: whole lots of the size that the quote states.
Sized(lot, quantity) == lot >= 1 /\ quantity >= lot /\ quantity % lot = 0

\* execute, from the gates to the stamp.
Accepts(s, snapshot, candidate) ==
  LET quote == PaperQuote(snapshot, candidate.contract)
      proposal == [intent |-> "OPEN", side |-> "BUY",
                   quantity |-> candidate.quantity, price |-> BuyPrice(quote),
                   stop |-> candidate.stop, session |-> SessionOf[snapshot.at],
                   highVolatility |-> FALSE]
  IN /\ ~ Stopped(s)
     /\ ~ OnlyMarkedLoss(s, snapshot.today)
     /\ GatedQuality(snapshot) = "OK"
     /\ SourceOf(snapshot) # "MIXED"
     /\ AllowsNewTrade(snapshot)
     /\ SessionOf[snapshot.at] = "OPEN"
     /\ Cardinality(OpenTrades(s)) < MaxOpenPositions
     /\ Buyable(quote)
     /\ Sized(snapshot.rows[candidate.contract].lot, candidate.quantity)
     /\ TypeOf[candidate.contract] = AllowedType(candidate.direction)
     /\ candidate.stop > 0
     /\ OpenOn(s, candidate.contract) = {}
     /\ candidate.stop < BuyPrice(quote)
     /\ Approves(proposal, LedgerBook(s, candidate.contract, snapshot.today))

TradeOf(snapshot, candidate) ==
  [contract |-> candidate.contract, quantity |-> candidate.quantity,
   stop |-> candidate.stop,
   entry |-> BuyPrice(PaperQuote(snapshot, candidate.contract)),
   openedAt |-> snapshot.at, state |-> "OPEN", mark |-> 0, markedAt |-> 0,
   closedAt |-> -1, closedOn |-> -1, costs |-> 0]

\* Of an engine already on the day of the snapshot; a loss that is only marked
\* halts the day's entries.
Entered(s, snapshot, candidate) ==
  IF Accepts(s, snapshot, candidate)
    THEN [s EXCEPT !.trades = Append(@, TradeOf(snapshot, candidate))]
  ELSE [s EXCEPT !.dailyHalt =
                    @ \/ (~ Stopped(s) /\ OnlyMarkedLoss(s, snapshot.today))]

\* execute
Execute(s, snapshot, decision) ==
  IF decision.status # "CANDIDATE" THEN s
  ELSE Entered(Rolled(s, snapshot.today), snapshot, decision.candidate)

-----------------------------------------------------------------------------
(* Exits                                                                   *)

\* The registry's mark of an open trade.
MarkedTrade(t, quote, at) ==
  IF /\ IsOpen(t)
     /\ Markable(quote)
     /\ t.mark > 0 => at - quote.age >= t.markedAt
    THEN [t EXCEPT !.mark = MarkPrice(quote), !.markedAt = at - quote.age]
    ELSE t

ExitOf(t, at) ==
  IF ~ IsOpen(t) \/ t.mark = 0 THEN "NONE"
  ELSE ChooseExit(t.mark, t.stop, TakeProfit(t.entry), CloseDue(SessionOf[at]))

\* _close_position goes through.
Closable(t, quote, at) == at > t.openedAt /\ Sellable(quote)

ClosedTrade(t, quote, snapshot) ==
  [t EXCEPT !.state = "CLOSED", !.mark = SellPrice(quote),
            !.closedAt = snapshot.at, !.closedOn = snapshot.today,
            !.costs = RoundTrip(t.entry, SellPrice(quote), t.quantity)]

Expired(t, today) == IsOpen(t) /\ ExpiryOf[t.contract] < today

\* What becomes of one trade: first it is closed if its contract has expired,
\* else marked and closed if an exit is due.
Monitored(t, snapshot) ==
  LET quote == PaperQuote(snapshot, t.contract)
      marked == MarkedTrade(t, quote, snapshot.at)
      due == ExitOf(marked, snapshot.at) # "NONE" \/ Expired(t, snapshot.today)
  IN IF IsOpen(t) /\ due /\ Closable(t, quote, snapshot.at)
       THEN ClosedTrade(t, quote, snapshot) ELSE marked

\* At the square-off a trade that was never valued, or whose close does not go
\* through, leaves the engine unresolved; so does an expired one.
LeftOpen(t, snapshot) ==
  LET quote == PaperQuote(snapshot, t.contract)
      marked == MarkedTrade(t, quote, snapshot.at)
      closable == Closable(t, quote, snapshot.at)
  IN /\ IsOpen(t)
     /\ \/ Expired(t, snapshot.today) /\ ~ closable
        \/ marked.mark = 0 /\ CloseDue(SessionOf[snapshot.at])
             /\ ~ (Expired(t, snapshot.today) /\ closable)
        \/ ExitOf(marked, snapshot.at) = "SESSION_CLOSE" /\ ~ closable

\* on_snapshot
Monitor(s, snapshot) ==
  LET left == \E i \in DOMAIN s.trades : LeftOpen(s.trades[i], snapshot)
  IN IF GatedQuality(snapshot) # "OK" THEN s
     ELSE [s EXCEPT
             !.trades = [i \in DOMAIN s.trades |-> Monitored(s.trades[i], snapshot)],
             !.unresolved = @ \/ left,
             !.halted = @ \/ left]
=============================================================================
