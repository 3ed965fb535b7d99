----------------------------- MODULE PaperEngine -----------------------------
(***************************************************************************)
(* The paper execution engine: grow/paper/engine.py with the position      *)
(* registry (positions.py), the cash ledger (ledger.py) and the durable    *)
(* checkpoint (checkpoint.py) it drives.                                   *)
(*                                                                         *)
(* The engine is single threaded.  Its two handlers are execute, which     *)
(* turns one approved decision into at most one position, and on_snapshot, *)
(* which marks and closes positions.  Each runs to its end and writes a    *)
(* checkpoint, so each is one action; the checkpoint may fail, and the     *)
(* process may die and be restored from the last one that was written.     *)
(*                                                                         *)
(* The whole engine is one record, `engine', because the checkpoint is a   *)
(* copy of it (export_state / restore).  Its fields:                       *)
(*   startedAt        when the session began                               *)
(*   seen             decision ids ever submitted                          *)
(*   orders           status of the order of each decision                 *)
(*   positions        position of each decision (a decision gets at most   *)
(*                    one order, hence at most one position)               *)
(*   fills            what the ledger was paid and got for each position,  *)
(*                    and the stamp of the quote the exit used             *)
(*   holdings         the ledger's quantity and average price by contract  *)
(*   halted, unresolved, dailyHalt, pnlDay, timeoutRecorded                *)
(*                                                                         *)
(* book.cash is the running total of book.fills (PaperLedger._apply moves  *)
(* both together), so it is the derived operator Cash.                     *)
(*                                                                         *)
(* Statuses that exist only inside a handler (CREATED, PENDING, FILLED,    *)
(* EXIT_REQUESTED, and EXIT_PENDING for a position) are not states.  Left  *)
(* out: the journal, the counters of the summary, the diagnostics.         *)
(*                                                                         *)
(* An operator X_fault is X with a plausible programming error.  Nothing   *)
(* uses it: put in the place of X it shows that a property notices.        *)
(***************************************************************************)
EXTENDS RiskGuard, PaperPricing, FiniteSets, FiniteSetsExt

CONSTANTS
  Decisions,       \* ids of the 4C decisions submitted to the engine
  Contracts,       \* option contracts
  Candidate,       \* [Decisions -> BOOLEAN]: approved paper candidate
  Complete,        \* [Decisions -> BOOLEAN]: sizing, price and direction agree
  ContractOf,      \* [Decisions -> Contracts]
  QuantityOf,      \* [Decisions -> Nat \ {0}], lots times lot size
  StopOf,          \* [Decisions -> Nat \ {0}]
  ExpiryDay,       \* [Contracts -> Nat]
  Quotes,          \* quotes a snapshot may carry for a contract
  NoQuote,         \* the snapshot has no quote for the contract
  MaxTime,         \* bound: the clock stops here
  DayOf,           \* [0..MaxTime -> Nat]: IST calendar day
  SessionOf,       \* [0..MaxTime -> Sessions]
  MaxLag,          \* bound: age of a snapshot when the engine gets it
  StartingCash,
  SessionTimeout,  \* live_data.session_timeout_seconds, 0 disables it
  MaxFaults        \* bound: failed checkpoints and restarts

Sessions ==
  {"PRE_OPEN", "OPEN", "SQUARE_OFF_WINDOW", "CLOSED", "HOLIDAY", "WEEKEND"}

Times == 0..MaxTime

ASSUME EngineConstants ==
  /\ IsFiniteSet(Decisions)
  /\ Candidate \in [Decisions -> BOOLEAN]
  /\ Complete \in [Decisions -> BOOLEAN]
  /\ ContractOf \in [Decisions -> Contracts]
  /\ QuantityOf \in [Decisions -> Nat \ {0}]
  /\ StopOf \in [Decisions -> Nat \ {0}]
  /\ ExpiryDay \in [Contracts -> Nat]
  /\ Quotes \subseteq [ok: BOOLEAN, bid: Nat, ask: Nat, ltp: Nat, age: Int]
  /\ NoQuote \notin Quotes
  /\ MaxTime \in Nat
  /\ DayOf \in [Times -> Nat]
  /\ SessionOf \in [Times -> Sessions]
  /\ MaxLag \in Nat
  /\ StartingCash \in Nat
  /\ SessionTimeout \in Nat
  /\ MaxFaults \in Nat

VARIABLES
  clock,    \* the engine's wall clock
  engine,   \* the engine in memory
  disk,     \* the last checkpoint written, or NoCheckpoint
  faults    \* failed checkpoints and restarts so far

vars == <<clock, engine, disk, faults>>

NoCheckpoint == [startedAt |-> -1]

-----------------------------------------------------------------------------
(* The registry and the ledger                                             *)

NoPosition ==
  [state |-> "NONE", entry |-> 0, openedAt |-> 0, mark |-> 0, markedAt |-> 0,
   closedAt |-> 0, reason |-> "NONE", costs |-> 0]

NoFill == [buy |-> 0, sell |-> 0, exitQuoteAt |-> 0]

\* A new engine: PaperExecutionEngine.__init__ at clock time t.
Fresh(t) ==
  [startedAt |-> t,
   seen |-> {},
   orders |-> [d \in Decisions |-> "NONE"],
   positions |-> [d \in Decisions |-> NoPosition],
   fills |-> [d \in Decisions |-> NoFill],
   holdings |-> [c \in Contracts |-> [quantity |-> 0, average |-> 0]],
   halted |-> FALSE,
   unresolved |-> FALSE,
   dailyHalt |-> FALSE,
   pnlDay |-> DayOf[t],
   timeoutRecorded |-> FALSE]

Open(e) == {d \in Decisions : e.positions[d].state = "OPEN"}

Closed(e) == {d \in Decisions : e.positions[d].state = "CLOSED"}

\* _occupied
Occupied(e) == Cardinality(Open(e))

\* has_open: the registry's index by contract finds an OPEN position.
HasOpen_fault(e, c) == FALSE

HasOpen(e, c) == \E d \in Open(e) : ContractOf[d] = c

\* book.cash
Cash(e) ==
  StartingCash
    + MapThenSumSet(LAMBDA d : e.fills[d].sell - e.fills[d].buy, Decisions)

\* book.gross_notional: at cost
GrossNotional(e) ==
  MapThenSumSet(LAMBDA c : e.holdings[c].quantity * e.holdings[c].average,
                Contracts)

GrossPnl(e, d) == e.fills[d].sell - e.fills[d].buy

\* The result, after costs, of the positions closed on that day.
NetResult(positions, fills, day) ==
  MapThenSumSet(LAMBDA d : fills[d].sell - fills[d].buy - positions[d].costs,
                {d \in Decisions : /\ positions[d].state = "CLOSED"
                                   /\ DayOf[positions[d].closedAt] = day})

\* trading_day_realized_pnl: net of costs
DayRealized_fault(e, day) ==
  MapThenSumSet(LAMBDA d : GrossPnl(e, d),
                {d \in Closed(e) : DayOf[e.positions[d].closedAt] = day})

DayRealized(e, day) == NetResult(e.positions, e.fills, day)

\* trading_day_total_pnl: every open mark counts as today's
DayTotal(e, day) ==
  LET Valued == {d \in Open(e) : e.positions[d].mark > 0}
      Unrealized(d) ==
        (e.positions[d].mark - e.positions[d].entry) * QuantityOf[d]
  IN DayRealized(e, day) + MapThenSumSet(Unrealized, Valued)

\* PaperLedger._apply of a BUY: a second lot is averaged in.
Bought(h, quantity, price) ==
  [quantity |-> h.quantity + quantity,
   average |-> (h.average * h.quantity + price * quantity)
                 \div (h.quantity + quantity)]

\* PaperLedger._apply of a SELL: an emptied holding is deleted.
Sold(h, quantity) ==
  IF h.quantity = quantity THEN [quantity |-> 0, average |-> 0]
                           ELSE [h EXCEPT !.quantity = @ - quantity]

-----------------------------------------------------------------------------
(* Steps both handlers share                                               *)

\* _enforce_timeout returns true; 0 disables it.
TimedOut(e) == SessionTimeout > 0 /\ clock - e.startedAt >= SessionTimeout

\* _enforce_timeout's effect, the first time it finds the session timed out.
EnforceTimeout_fault(e) ==
  IF TimedOut(e) /\ ~ e.timeoutRecorded
    THEN [e EXCEPT !.timeoutRecorded = TRUE, !.halted = TRUE]
    ELSE e

EnforceTimeout(e) ==
  IF TimedOut(e) /\ ~ e.timeoutRecorded
    THEN [e EXCEPT !.timeoutRecorded = TRUE,
                   !.halted = TRUE,
                   !.unresolved = @ \/ Open(e) # {}]
    ELSE e

\* _roll_trading_day: any other day than the last one lifts the loss halt.
RollTradingDay(e, m) ==
  IF DayOf[m] # e.pnlDay
    THEN [e EXCEPT !.pnlDay = DayOf[m], !.dailyHalt = FALSE]
    ELSE e

\* The handler's last step, checkpoint(): the file is replaced atomically, or
\* writing it raises and memory stays ahead of the disk.
Commit(e) ==
  /\ engine' = e
  /\ \/ disk' = e /\ UNCHANGED faults
     \/ faults < MaxFaults /\ faults' = faults + 1 /\ UNCHANGED disk
  /\ UNCHANGED clock

\* Decision times of the snapshots that can reach the engine now.
Moments == {m \in Times : m <= clock /\ clock - m <= MaxLag}

QuoteOrNone == Quotes \cup {NoQuote}

-----------------------------------------------------------------------------
(* execute                                                                 *)

\* The decision is recorded and its order, if it gets that far, is rejected.
Rejected(e, d) ==
  [e EXCEPT !.seen = @ \cup {d}, !.orders[d] = "REJECTED"]

\* A decision id is accepted for processing once.
ExecuteDuplicate(d) == d \in engine.seen /\ Commit(engine)

\* Not an approved candidate: remembered, but no order is written.
ExecuteNotApproved(d) ==
  /\ d \notin engine.seen
  /\ ~ Candidate[d]
  /\ Commit([engine EXCEPT !.seen = @ \cup {d}])

New_fault(d) == Candidate[d]

New(d) == d \notin engine.seen /\ Candidate[d]

\* The decision was made on another snapshot or version.
ExecuteMismatch(d) == New(d) /\ Commit(Rejected(engine, d))

ExecuteTimedOut(d) ==
  /\ New(d)
  /\ TimedOut(engine)
  /\ Commit(Rejected(EnforceTimeout(engine), d))

\* The state in which execute judges an entry at moment m.
Ready(m) == RollTradingDay(engine, m)

Blocked_fault(e) == e.dailyHalt

Blocked(e) == e.halted \/ e.unresolved \/ e.dailyHalt

ExecuteBlocked(d, m) ==
  /\ New(d)
  /\ ~ TimedOut(engine)
  /\ Blocked(Ready(m))
  /\ Commit(Rejected(Ready(m), d))

\* Today's total is below the floor although its realized part is not.
UnrealizedBreach(e, m) ==
  /\ DayTotal(e, DayOf[m]) < -MaxDailyLoss
  /\ DayRealized(e, DayOf[m]) >= -MaxDailyLoss

ExecuteLossHalt(d, m) ==
  /\ New(d)
  /\ ~ TimedOut(engine)
  /\ ~ Blocked(Ready(m))
  /\ UnrealizedBreach(Ready(m), m)
  /\ Commit(Rejected([Ready(m) EXCEPT !.dailyHalt = TRUE], d))

\* The engine will judge the snapshot and the quote of the decision.
Judged(d, m) ==
  /\ New(d)
  /\ ~ TimedOut(engine)
  /\ ~ Blocked(Ready(m))
  /\ ~ UnrealizedBreach(Ready(m), m)

EntryProposal(d, m, q) ==
  [intent |-> "OPEN", side |-> "BUY", quantity |-> QuantityOf[d],
   price |-> BuyPrice(q), stop |-> StopOf[d], session |-> SessionOf[m],
   highVolatility |-> FALSE]

GuardBook(e, d, m) ==
  LET h == e.holdings[ContractOf[d]]
  IN [cash |-> Cash(e), gross |-> GrossNotional(e),
      symbol |-> h.quantity * h.average,
      dailyPnl |-> DayRealized(e, DayOf[m]), open |-> Occupied(e)]

\* Every check between the halts and the fill, in any order: they only read.
Enterable(e, d, m, q, usable) ==
  /\ usable
  /\ SessionOf[m] = "OPEN"
  /\ Occupied(e) < MaxOpenPositions
  /\ Complete[d]
  /\ q # NoQuote
  /\ Buyable(q)
  /\ ~ HasOpen(e, ContractOf[d])
  /\ StopOf[d] < BuyPrice(q)
  /\ Approves(EntryProposal(d, m, q), GuardBook(e, d, m))

ExecuteRefused(d, m, q, usable) ==
  /\ Judged(d, m)
  /\ ~ Enterable(Ready(m), d, m, q, usable)
  /\ Commit(Rejected(Ready(m), d))

OpenedAt(price, m) ==
  [NoPosition EXCEPT !.state = "OPEN", !.entry = price, !.openedAt = m]

\* ledger.submit, register_open, and the order's FILLED then OPEN.
Filled(e, d, m, price) ==
  [e EXCEPT
     !.seen = @ \cup {d},
     !.orders[d] = "OPEN",
     !.positions[d] = OpenedAt(price, m),
     !.fills[d] = [NoFill EXCEPT !.buy = QuantityOf[d] * price],
     !.holdings[ContractOf[d]] = Bought(@, QuantityOf[d], price)]

ExecuteFilled(d, m, q) ==
  /\ Judged(d, m)
  /\ Enterable(Ready(m), d, m, q, TRUE)
  /\ Commit(Filled(Ready(m), d, m, BuyPrice(q)))

\* `usable': the snapshot's quality is OK, its source is not mixed and the
\* feed is healthy.
Execute(d) ==
  \/ ExecuteDuplicate(d)
  \/ ExecuteNotApproved(d)
  \/ ExecuteMismatch(d)
  \/ ExecuteTimedOut(d)
  \/ \E m \in Moments :
       \/ ExecuteBlocked(d, m)
       \/ ExecuteLossHalt(d, m)
       \/ \E q \in QuoteOrNone, usable \in BOOLEAN :
            ExecuteRefused(d, m, q, usable)
       \/ \E q \in Quotes : ExecuteFilled(d, m, q)

-----------------------------------------------------------------------------
(* on_snapshot                                                             *)

\* Reasons whose failed close leaves the session unresolved and halted.
Forced == {"SESSION_CLOSE", "SESSION_TIMEOUT", "EXPIRED"}

ExitReasons == Forced \cup {"STOP_LOSS", "TAKE_PROFIT"}

ExitProposal(d, q) ==
  [intent |-> "CLOSE", side |-> "SELL", quantity |-> QuantityOf[d],
   price |-> SellPrice(q)]

\* _close_position goes through: the exit follows the entry, the quote has a
\* price, the guard stamps it and the ledger holds enough to sell.
Closable(e, d, m, q) ==
  /\ m > e.positions[d].openedAt
  /\ q # NoQuote
  /\ Sellable(q)
  /\ ApprovesExit(ExitProposal(d, q))
  /\ QuantityOf[d] <= e.holdings[ContractOf[d]].quantity

ClosedAs(p, d, m, q, reason) ==
  [p EXCEPT !.state = "CLOSED", !.mark = SellPrice(q), !.closedAt = m,
            !.reason = reason,
            !.costs = RoundTrip(p.entry, SellPrice(q), QuantityOf[d])]

\* The order's last status.
Terminal(reason) == IF reason = "EXPIRED" THEN "EXPIRED" ELSE "CLOSED"

\* The positions whose close goes through, when why[d] # "NONE" asks for it.
Dealt(e, m, quotes, why) ==
  {d \in Open(e) : /\ why[d] # "NONE"
                   /\ Closable(e, d, m, quotes[ContractOf[d]])}

\* A forced close that does not go through.
Stranded(e, m, quotes, why) ==
  \E d \in Open(e) \ Dealt(e, m, quotes, why) : why[d] \in Forced

\* _close_position of every decision d with why[d] # "NONE"; the others are
\* left alone.  A position is closed, or its exit is aborted: it stays OPEN,
\* and a forced exit that fails halts the session.  The closes do not
\* influence each other (at most one position is open on a contract).
CloseAll(e, m, quotes, why) ==
  LET done == Dealt(e, m, quotes, why)
      failed == Stranded(e, m, quotes, why)
      q(d) == quotes[ContractOf[d]]
  IN [e EXCEPT
        !.positions = [d \in Decisions |->
          IF d \in done THEN ClosedAs(@[d], d, m, q(d), why[d]) ELSE @[d]],
        !.orders = [d \in Decisions |->
          IF d \in done THEN Terminal(why[d]) ELSE @[d]],
        !.fills = [d \in Decisions |->
          IF d \in done
            THEN [@[d] EXCEPT !.sell = QuantityOf[d] * SellPrice(q(d)),
                              !.exitQuoteAt = m - q(d).age]
            ELSE @[d]],
        !.holdings = [c \in Contracts |->
          IF \E d \in done : ContractOf[d] = c
            THEN Sold(@[c],
                      QuantityOf[CHOOSE d \in done : ContractOf[d] = c])
            ELSE @[c]],
        !.unresolved = @ \/ failed,
        !.halted = @ \/ failed]

\* Positions whose contract expired before the snapshot's session date.
CloseExpired(e, m, quotes) ==
  CloseAll(e, m, quotes,
    [d \in Decisions |->
       IF d \in Open(e) /\ ExpiryDay[ContractOf[d]] < DayOf[m]
         THEN "EXPIRED" ELSE "NONE"])

\* PositionRegistry.mark: no quote, or one older than the last valuation,
\* leaves the last mark in place.
Marked_fault(p, m, q) ==
  IF p.state # "NONE" /\ q # NoQuote /\ Markable(q)
    THEN [p EXCEPT !.mark = MarkPrice(q), !.markedAt = m - q.age]
    ELSE p

Marked(p, m, q) ==
  IF /\ p.state = "OPEN"
     /\ q # NoQuote
     /\ Markable(q)
     /\ p.mark > 0 => m - q.age >= p.markedAt
    THEN [p EXCEPT !.mark = MarkPrice(q), !.markedAt = m - q.age]
    ELSE p

MarkAll(e, m, quotes) ==
  [e EXCEPT !.positions = [d \in Decisions |->
     Marked(@[d], m, quotes[ContractOf[d]])]]

\* _retry_timeout_closes: after a timeout all that is left is closed, and the
\* session is resolved once nothing is left.
RetryTimeoutCloses_fault(e, m, quotes) ==
  CloseAll(e, m, quotes,
    [d \in Decisions |-> IF d \in Open(e) THEN "SESSION_TIMEOUT" ELSE "NONE"])

RetryTimeoutCloses(e, m, quotes) ==
  LET tried == CloseAll(e, m, quotes,
                 [d \in Decisions |->
                    IF d \in Open(e) THEN "SESSION_TIMEOUT" ELSE "NONE"])
  IN IF Open(tried) = {}
       THEN [tried EXCEPT !.unresolved = FALSE,
                          !.halted = @ \/ Open(e) # {}]
       ELSE tried

ExitReason(e, d, m) ==
  LET p == e.positions[d]
  IN IF d \notin Open(e) \/ p.mark = 0
       THEN "NONE"
       ELSE ChooseExit(p.mark, StopOf[d], TakeProfit(p.entry),
                       CloseDue(SessionOf[m]))

\* PositionRegistry.exits, then a close for each exit it decides.  A position
\* that was never valued cannot exit: when the close is due that halts.
RunExits(e, m, quotes) ==
  LET stuck == /\ CloseDue(SessionOf[m])
               /\ \E d \in Open(e) : e.positions[d].mark = 0
      flagged == [e EXCEPT !.unresolved = @ \/ stuck, !.halted = @ \/ stuck]
  IN CloseAll(flagged, m, quotes, [d \in Decisions |-> ExitReason(e, d, m)])

\* on_snapshot up to its exits: time out, expire, mark.
Current(e, m, quotes) ==
  MarkAll(CloseExpired(EnforceTimeout(e), m, quotes), m, quotes)

\* Its exits: all of them after a timeout, else those the marks call for.
Exited(current, m, quotes) ==
  IF TimedOut(current) \/ (current.timeoutRecorded /\ current.unresolved)
    THEN RetryTimeoutCloses(current, m, quotes)
    ELSE RunExits(current, m, quotes)

\* The whole handler on a snapshot whose quality is OK.
Managed(e, m, quotes) == Exited(Current(e, m, quotes), m, quotes)

OnFreshSnapshot(m, quotes) == Commit(Managed(engine, m, quotes))

\* A snapshot whose quality is not OK neither marks nor exits.
OnStaleSnapshot == Commit(EnforceTimeout(engine))

OnSnapshot ==
  \/ OnStaleSnapshot
  \/ \E m \in Moments, quotes \in [Contracts -> QuoteOrNone] :
       OnFreshSnapshot(m, quotes)

-----------------------------------------------------------------------------
(* Time and crashes                                                        *)

Tick == clock < MaxTime /\ clock' = clock + 1 /\ UNCHANGED <<engine, disk, faults>>

\* The process dies.  The next one restores the checkpoint (restore_paper_engine),
\* or starts a new session when there is none.
Restart ==
  /\ faults < MaxFaults
  /\ faults' = faults + 1
  /\ engine' = IF disk = NoCheckpoint THEN Fresh(clock) ELSE disk
  /\ UNCHANGED <<clock, disk>>

Init ==
  /\ clock = 0
  /\ engine = Fresh(0)
  /\ disk = NoCheckpoint
  /\ faults = 0

Next ==
  \/ Tick
  \/ \E d \in Decisions : Execute(d)
  \/ OnSnapshot
  \/ Restart

Spec == Init /\ [][Next]_vars

-----------------------------------------------------------------------------
(* What the engine must keep.  An invariant about a book holds of the book *)
(* in memory and of the one on disk: either may be the one that goes on.   *)

Reasons == ExitReasons \cup {"NONE"}

PositionRecords ==
  [state : {"NONE", "OPEN", "CLOSED"}, entry : Nat, openedAt : Times,
   mark : Nat, markedAt : Int, closedAt : Times, reason : Reasons, costs : Nat]

Engines ==
  [startedAt : Times,
   seen : SUBSET Decisions,
   orders : [Decisions -> {"NONE", "REJECTED", "OPEN", "CLOSED", "EXPIRED"}],
   positions : [Decisions -> PositionRecords],
   fills : [Decisions -> [buy : Nat, sell : Nat, exitQuoteAt : Int]],
   holdings : [Contracts -> [quantity : Nat, average : Nat]],
   halted : BOOLEAN,
   unresolved : BOOLEAN,
   dailyHalt : BOOLEAN,
   pnlDay : Nat,
   timeoutRecorded : BOOLEAN]

\* Every field of the engine and of its checkpoint has the shape the code gives it.
TypeOK ==
  /\ clock \in Times
  /\ engine \in Engines
  /\ disk \in Engines \cup {NoCheckpoint}
  /\ faults \in 0..MaxFaults

Books == IF disk = NoCheckpoint THEN {engine} ELSE {engine, disk}

\* At most one position is OPEN on a contract, although several decisions may
\* name it and positions on it come and go (has_open, adopt).
OneOpen(e) ==
  \A a, b \in Open(e) : ContractOf[a] = ContractOf[b] => a = b

OnePositionPerContract == \A e \in Books : OneOpen(e)

\* The ledger and the registry, two books moved by different calls of one
\* handler, hold the same inventory at the same cost: what is OPEN is held in
\* full, and nothing else is.  So the ledger never refuses an exit.
Reconciled(e) ==
  /\ \A d \in Open(e) :
       e.holdings[ContractOf[d]] = [quantity |-> QuantityOf[d],
                                    average |-> e.positions[d].entry]
  /\ \A c \in Contracts : c \notin {ContractOf[d] : d \in Open(e)} =>
       e.holdings[c].quantity = 0

LedgerMatchesRegistry == \A e \in Books : Reconciled(e)

\* Each position was paid for once and sold at most once, at the prices the
\* registry shows, so gross realized P&L is what the ledger's cash moved by.
FillsMatch(e) ==
  \A d \in Decisions :
    LET p == e.positions[d]
    IN /\ e.fills[d].buy = QuantityOf[d] * p.entry
       /\ e.fills[d].sell = IF p.state = "CLOSED" THEN QuantityOf[d] * p.mark ELSE 0

FillsMatchRegistry == \A e \in Books : FillsMatch(e)

\* The number of open positions never passes its cap.
WithinCap == \A e \in Books : Cardinality(Open(e)) <= MaxOpenPositions

\* The status of the order of a decision and the state of its position tell
\* the same story, and neither exists for a decision that was never seen.
OrderFollows(e) ==
  \A d \in Decisions :
    LET p == e.positions[d]
        status == e.orders[d]
    IN /\ p.state = "NONE" <=> status \in {"NONE", "REJECTED"}
       /\ p.state = "OPEN" <=> status = "OPEN"
       /\ status = "EXPIRED" <=> p.state = "CLOSED" /\ p.reason = "EXPIRED"
       /\ status # "NONE" => d \in e.seen

OrderFollowsPosition == \A e \in Books : OrderFollows(e)

\* Four books of one trade -- registry, ledger, fills and orders -- are moved by
\* different calls of one handler, in memory and on disk; they never disagree.
BooksAgree ==
  /\ OnePositionPerContract
  /\ LedgerMatchesRegistry
  /\ FillsMatchRegistry
  /\ OrderFollowsPosition

\* An unresolved close always blocks entries, and a recorded timeout leaves
\* no inventory that the session does not own up to.
HaltsKept(e) ==
  /\ e.unresolved => e.halted
  /\ e.timeoutRecorded => e.halted
  /\ e.timeoutRecorded /\ Open(e) # {} => e.unresolved

HaltDiscipline == \A e \in Books : HaltsKept(e)

\* Nothing is dealt at a price from the future: an exit follows its entry and
\* uses a quote that was known when the exit was decided.
Causal(e) ==
  \A d \in Closed(e) :
    /\ e.positions[d].openedAt < e.positions[d].closedAt
    /\ e.fills[d].exitQuoteAt <= e.positions[d].closedAt

CausalExits == \A e \in Books : Causal(e)

Entered(e) == {d \in Decisions : e.positions[d].state # "NONE"}

\* No step enters a position on a day whose closed trades, costs included, have
\* already lost more than a day may: whatever was restored, and whatever halt
\* the new day lifted.
EntriesRespectDailyLoss ==
  [][\A d \in Entered(engine') \ Entered(engine) :
       NetResult(engine.positions, engine.fills,
                 DayOf[engine'.positions[d].openedAt]) >= -MaxDailyLoss]_vars

\* `later' has everything `earlier' recorded: no decision is forgotten, no
\* position is undone, reopened or repriced, no halt is lifted.
Extends(later, earlier) ==
  /\ later.startedAt = earlier.startedAt
  /\ earlier.seen \subseteq later.seen
  /\ earlier.halted => later.halted
  /\ earlier.timeoutRecorded => later.timeoutRecorded
  /\ \A d \in Decisions :
       LET was == earlier.positions[d]
           is == later.positions[d]
       IN /\ was.state = "CLOSED" =>
               is = was /\ later.fills[d] = earlier.fills[d]
          /\ was.state = "OPEN" =>
               /\ is.state # "NONE"
               /\ is.entry = was.entry
               /\ is.openedAt = was.openedAt
          /\ d \in earlier.seen /\ was.state = "NONE" => is.state = "NONE"

\* The engine in memory is never behind the file it would be restored from.
MemoryExtendsDisk == disk # NoCheckpoint => Extends(engine, disk)

\* What a checkpoint has recorded is never taken back by a later one, through
\* any number of failed writes and restarts.
DurableForward == [][disk # NoCheckpoint => Extends(disk', disk)]_vars

\* Once a halt is on disk no position is entered again, restarts included.
NoEntryAfterHalt ==
  [][disk # NoCheckpoint /\ disk.halted =>
       Entered(engine') \subseteq Entered(engine)]_vars

\* What became of decision d, as the outside sees it.
Outcome(e, d) ==
  CASE d \notin e.seen                -> "new"
    [] d \in Open(e)                  -> "open"
    [] d \in Closed(e)                -> "closed"
    [] d \in e.seen \ Entered(e)      -> "refused"

StateOf(e) == [d \in Decisions |-> Outcome(e, d)]

Lifecycle == INSTANCE EngineLifecycle WITH
  state <- StateOf(engine),
  saved <- IF disk = NoCheckpoint THEN [d \in Decisions |-> "new"] ELSE StateOf(disk)

\* The engine implements the lifecycle its callers rely on: a decision is
\* judged once and closed once, over every interleaving of failed writes and
\* restarts, and a restart goes back to the last checkpoint.
LifecycleKept == Lifecycle!Spec

\* docs/positions.md: "Missing or stale/future/out-of-order quotes do not
\* update marks and cannot fabricate an exit."  An exit is never dealt at a
\* quote older than the one its position was last valued at.
ExitsUseCurrentQuotes ==
  \A d \in Closed(engine) :
    engine.fills[d].exitQuoteAt >= engine.positions[d].markedAt

\* docs/positions.md: "A SESSION_CLOSE without a valid quote records
\* UNRESOLVED_CLOSE, halts new entries".  When the close is due, a snapshot
\* leaves no position open without owning up to it.
SquareOffOwnsUp ==
  [][\A m \in Moments, quotes \in [Contracts -> QuoteOrNone] :
       OnFreshSnapshot(m, quotes) /\ CloseDue(SessionOf[m])
         => Open(engine') = {} \/ engine'.unresolved]_vars

\* The clock goes on, and the loop that drives the engine eventually delivers
\* a fresh snapshot, for the current time, on which every contract has a
\* quote that can be sold at.
GoodSnapshot ==
  \E quotes \in [Contracts -> {q \in Quotes : Sellable(q)}] :
    \E current \in {Current(engine, clock, quotes)} :
      \E managed \in {Exited(current, clock, quotes)} : Commit(managed)

FairSpec == Spec /\ WF_vars(Tick) /\ WF_vars(GoodSnapshot)

\* A timeout that catches inventory does not strand it: once quotes come back
\* everything is closed and the session is no longer unresolved, even across
\* failed checkpoints and a restart.
TimeoutResolves ==
  engine.timeoutRecorded /\ Open(engine) # {}
    ~> Open(engine) = {} /\ ~ engine.unresolved

\* A position carried into the square-off window or past the close is closed.
SquareOffFlattens ==
  Open(engine) # {} /\ CloseDue(SessionOf[clock]) ~> Open(engine) = {}
=============================================================================
