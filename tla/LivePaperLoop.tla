----------------------------- MODULE LivePaperLoop -----------------------------
(***************************************************************************)
(* The 3A live paper loop (grow/live_data/loop.py): a caller starts it,    *)
(* calls run_once again and again and may stop it.  A call polls the       *)
(* provider, normalises what it says (normalize.py), marks and closes      *)
(* positions, and lets strategies, options engine, research desk and risk  *)
(* guard decide about at most one new position per index.                  *)
(*                                                                         *)
(* The provider is the one of MarketFeed, so this holds for every vendor   *)
(* that implements it.  A call is one action: nothing in it is awaited.    *)
(* Calls that only report (before start, after stop, inside the snapshot   *)
(* interval) change nothing and are no actions.                            *)
(*                                                                         *)
(* desk is what the trading half keeps:                                    *)
(*   book           the open positions of the registry                     *)
(*   held, cash     the ledger                                             *)
(*   openContracts  the loop's own set of contracts it holds               *)
(*   realized       net result of the closed positions                     *)
(*   halted, unresolved                                                    *)
(* _closed_this_cycle is cleared before it is read, so it is local to a    *)
(* call.  _seen_events never refuses: a provider numbers its snapshots     *)
(* upwards and a call looks at an index once.                              *)
(*                                                                         *)
(* A definition X_fault is X with a programming error; nothing uses it.    *)
(***************************************************************************)
EXTENDS MarketFeed, OptionsEngine, ResearchDesk, RiskGuard, PaperPricing,
        Sequences, FiniteSetsExt

CONSTANTS
  Indicators,      \* indicator records the bars of an index may give
  IndexOrder,      \* sequence of the index symbols, as the provider lists them
  LotOf,           \* [Listed -> Nat], 0 when the catalog has none
  Lots,            \* live_data.quantity
  StopLossPct,     \* live_data.stop_loss_pct, in percent
  StartingCash,
  MaxStaleness,    \* live_data.max_staleness_seconds
  SnapshotInterval,\* live_data.snapshot_interval_seconds
  LoopTimeout,     \* live_data.session_timeout_seconds
  SessionOf,       \* [Times -> Sessions]
  DateOf           \* [Times -> Nat]

Sessions ==
  {"PRE_OPEN", "OPEN", "SQUARE_OFF_WINDOW", "CLOSED", "HOLIDAY", "WEEKEND"}

ASSUME LoopConstants ==
  /\ Symbols = Spots \cup Listed
  /\ Spots \cap Listed = {}
  /\ Nothing = NothingTold
  /\ NoContract \notin Listed
  /\ \A c \in Listed :
       Values[c] \subseteq [bid : Nat, ask : Nat, ltp : Nat, volume : Nat, oi : Nat]
  /\ \A u \in Spots : Values[u] \subseteq Nat
  /\ IndexOrder \in Seq(Spots)
  /\ LotOf \in [Listed -> Nat]
  /\ Lots \in Nat \ {0}
  /\ StopLossPct \in 1..99
  /\ StartingCash \in Nat
  /\ {MaxStaleness, SnapshotInterval, LoopTimeout} \subseteq Nat
  /\ SessionOf \in [Times -> Sessions]
  /\ DateOf \in [Times -> Nat]

VARIABLES
  desk,
  state,   \* SessionHealth of the loop
  lastCycle

loopVars == <<desk, state, lastCycle>>

vars == <<clock, feedVars, loopVars>>

States == {"DISCONNECTED", "CONNECTING", "READY", "RUNNING", "STALE",
           "DEGRADED", "STOPPED"}

NeverCycled == -1
NotValued == -1

Init ==
  /\ clock = 0
  /\ FeedInit
  /\ desk = [book |-> {},
             held |-> [c \in Listed |-> [quantity |-> 0, average |-> 0]],
             cash |-> StartingCash,
             openContracts |-> {},
             realized |-> 0,
             halted |-> FALSE,
             unresolved |-> FALSE]
  /\ state = "DISCONNECTED"
  /\ lastCycle = NeverCycled

-----------------------------------------------------------------------------
(* Marks and exits                                                         *)

\* PositionRegistry.mark: at the told quote, unless it is older than the one
\* the position was last valued at.  How old it is does not matter.
Marked(p, snapshot) ==
  LET q == snapshot.told[p.contract]
  IN IF q # Nothing /\ q.at >= p.valuedAt /\ MarkPrice(q.value) > 0
       THEN [p EXCEPT !.mark = MarkPrice(q.value), !.valuedAt = q.at]
       ELSE p

\* PositionRegistry.exits
ExitOf(p, due) ==
  IF p.valuedAt = NotValued THEN "NONE"
  ELSE ChooseExit(p.mark, p.stop, p.target, due)

\* The sale of a mark: slippage, never below one tick.
Proceeds(mark) == IF mark - Slip(mark) > 1 THEN mark - Slip(mark) ELSE 1

\* PaperLedger._assert_position lets the sale through.
Deliverable(d, p) == d.held[p.contract].quantity >= p.quantity

NetResult(p) ==
  (Proceeds(p.mark) - p.entry) * p.quantity
    - RoundTrip(p.entry, Proceeds(p.mark), p.quantity)

SoldBook(d, gone) ==
  [c \in Listed |->
     LET rest == d.held[c].quantity
                   - MapThenSumSet(LAMBDA p : p.quantity,
                                   {p \in gone : p.contract = c})
     IN [quantity |-> rest,
         average |-> IF rest = 0 THEN 0 ELSE d.held[c].average]]

Closed_fault(d, gone) ==
  [d EXCEPT
     !.book = @ \ gone,
     !.held = SoldBook(d, gone),
     !.cash = @ + MapThenSumSet(LAMBDA p : Proceeds(p.mark) * p.quantity, gone),
     !.realized = @ + MapThenSumSet(NetResult, gone)]

\* _close_position for each exit: guard, ledger, registry, open contracts.
\* What the ledger does not deliver stays open.
Closed(d, gone) ==
  [d EXCEPT
     !.book = @ \ gone,
     !.held = SoldBook(d, gone),
     !.cash = @ + MapThenSumSet(LAMBDA p : Proceeds(p.mark) * p.quantity, gone),
     !.openContracts = @ \ {p.contract : p \in gone},
     !.realized = @ + MapThenSumSet(NetResult, gone)]

\* _manage_positions: a position that has to close and was never marked
\* leaves the session unresolved.
Marking(d, snapshot) == [d EXCEPT !.book = {Marked(p, snapshot) : p \in @}]

Leaving(d, due) ==
  {p \in d.book : ExitOf(p, due) # "NONE" /\ Deliverable(d, p)}

Unmarked(d, due) == due /\ \E p \in d.book : p.valuedAt = NotValued

Managed_fault(d, snapshot) ==
  LET due == CloseDue(SessionOf[snapshot.at])
      marked == Marking(d, snapshot)
  IN Closed([marked EXCEPT !.unresolved = @ \/ Unmarked(marked, due)],
            Leaving(marked, due))

Managed(d, snapshot) ==
  LET due == CloseDue(SessionOf[snapshot.at])
      marked == Marking(d, snapshot)
      stuck == Unmarked(marked, due)
  IN Closed([marked EXCEPT !.unresolved = @ \/ stuck, !.halted = @ \/ stuck],
            Leaving(marked, due))

-----------------------------------------------------------------------------
(* Entries                                                                 *)

ContractsOf == [u \in Spots |-> {c \in Listed : UnderlyingOf[c] = u}]

\* The chain normalize_event builds of an index.
ChainOf(u, snapshot) ==
  [today |-> DateOf[snapshot.at], at |-> snapshot.at,
   spot |-> snapshot.told[u].value,
   contracts |-> ContractsOf[u], quotes |-> snapshot.told]

EntryPrice(c, snapshot) ==
  LET ask == snapshot.told[c].value.ask IN ask + Slip(ask)

Quantity(c) == Lots * LotOf[c]

StopPrice(price) == (price * (100 - StopLossPct)) \div 100

OpenProposal(c, price, at) ==
  [intent |-> "OPEN", side |-> "BUY", quantity |-> Quantity(c),
   price |-> price, stop |-> StopPrice(price),
   session |-> SessionOf[at], highVolatility |-> FALSE]

AtCost(h) == h.quantity * h.average

\* What the loop tells the guard.  It leaves the number of open positions out,
\* so that positions.count is not judged.
GuardView(d, c) ==
  [cash |-> d.cash,
   gross |-> MapThenSumSet(LAMBDA k : AtCost(d.held[k]), Listed),
   symbol |-> AtCost(d.held[c]), dailyPnl |-> d.realized, open |-> 0]

Taken_fault(d, c, closedNow) ==
  c \in d.openContracts \/ \E p \in d.book : p.contract = c

\* DUPLICATE_OPEN_POSITION: held, in the registry, or closed in this call.
Taken(d, c, closedNow) ==
  \/ c \in d.openContracts
  \/ c \in closedNow
  \/ \E p \in d.book : p.contract = c

NewPosition(c, price) ==
  [contract |-> c, quantity |-> Quantity(c), entry |-> price,
   stop |-> StopPrice(price), target |-> TakeProfit(price),
   mark |-> 0, valuedAt |-> NotValued]

Averaged(h, quantity, price) ==
  [quantity |-> h.quantity + quantity,
   average |-> (AtCost(h) + price * quantity) \div (h.quantity + quantity)]

\* ledger.submit, _open_contracts.add, register_open
Entered(d, c, price) ==
  [d EXCEPT
     !.book = @ \cup {NewPosition(c, price)},
     !.held[c] = Averaged(@, Quantity(c), price),
     !.cash = @ - Quantity(c) * price,
     !.openContracts = @ \cup {c}]

\* build_packet, of a snapshot that is fresh.
PacketOf(c, direction, snapshot) ==
  LET v == snapshot.told[c].value
  IN [direction |-> direction, type |-> TypeOf[c], stale |-> FALSE,
      wide |-> 200 * (v.ask - v.bid) > 15 * (v.bid + v.ask)]

\* What the strategies say of each indicator record.
SignalOf == [i \in Indicators |-> PickSignal(Signals(i))]

\* _evaluate: signal, contract, lot, desk, duplicates, guard; then the entry.
Evaluated(d, u, snapshot, closedNow) ==
  LET signal == SignalOf[snapshot.bars[u]]
      c == BestContract(ChainOf(u, snapshot), u, signal.direction)
      price == EntryPrice(c, snapshot)
  IN IF /\ signal # NoSignal
        /\ c # NoContract
        /\ LotOf[c] >= 1
        /\ DeskApproves(PacketOf(c, signal.direction, snapshot))
        /\ ~ Taken(d, c, closedNow)
        /\ Approves(OpenProposal(c, price, snapshot.at), GuardView(d, c))
       THEN Entered(d, c, price) ELSE d

\* An index without a single bar: build_indicators raises through run_once.
Barren(u, snapshot) == snapshot.bars[u].count = 0

\* The indices are judged in their order, each on what the ones before it
\* left, up to the first one that raises.
EvaluatedAll(d, snapshot, closedNow) ==
  LET after[n \in 0..Len(IndexOrder)] ==
        IF n = 0 THEN d
        ELSE IF \E m \in 1..n : Barren(IndexOrder[m], snapshot)
          THEN after[n - 1]
          ELSE Evaluated(after[n - 1], IndexOrder[n], snapshot, closedNow)
  IN after[Len(IndexOrder)]

\* _closed_this_cycle: the contracts that managing the positions has closed.
ClosedNow(d, managed) ==
  {p.contract : p \in d.book} \ {p.contract : p \in managed.book}

\* _allows_new_entries, the loop being RUNNING unless it is halted.
MayEnter(d, at) == ~ d.halted /\ ~ d.unresolved /\ SessionOf[at] = "OPEN"

-----------------------------------------------------------------------------
(* The calls                                                               *)

\* At any time, and as often as the caller likes.
Start ==
  /\ FeedConnect
  /\ state' = (IF answer' = "raised" THEN "CONNECTING" ELSE "READY")
  /\ UNCHANGED <<clock, desk, lastCycle>>

Stop ==
  /\ FeedDisconnect
  /\ state' = "STOPPED"
  /\ UNCHANGED <<clock, desk, lastCycle>>

Idle == {"DISCONNECTED", "CONNECTING", "STOPPED"}

\* The session began when the loop was made, at time 0.
TimedOut == clock >= LoopTimeout

\* halt_for_timeout if there are positions, then stop.
RunTimedOut ==
  /\ state \notin Idle
  /\ TimedOut
  /\ FeedDisconnect
  /\ state' = "STOPPED"
  /\ desk' = (IF desk.book = {} THEN desk
              ELSE [desk EXCEPT !.halted = TRUE, !.unresolved = TRUE])
  /\ UNCHANGED <<clock, lastCycle>>

IntervalPending ==
  lastCycle # NeverCycled /\ clock - lastCycle < SnapshotInterval

Polls_fault ==
  /\ state \notin Idle
  /\ ~ IntervalPending
  /\ FeedPoll
  /\ UNCHANGED clock

Polls ==
  /\ state \notin Idle
  /\ ~ TimedOut
  /\ ~ IntervalPending
  /\ FeedPoll
  /\ UNCHANGED clock

RunWithoutSnapshot ==
  /\ Polls
  /\ answer' # "snapshot"
  /\ state' = CASE answer' = "control" -> state
                [] answer' = "none" /\ health' = "STOPPED" -> "STOPPED"
                [] OTHER -> "DEGRADED"
  /\ UNCHANGED <<desk, lastCycle>>

\* normalize_event raises: MISSING_SPOT or FUTURE_SNAPSHOT.
Invalid == stamp' > clock \/ \E u \in Spots : told'[u] = Nothing

RunInvalid ==
  /\ Polls
  /\ answer' = "snapshot"
  /\ Invalid
  /\ state' = "DEGRADED"
  /\ UNCHANGED <<desk, lastCycle>>

Stale == clock - stamp' > MaxStaleness

RunStale ==
  /\ Polls
  /\ answer' = "snapshot"
  /\ ~ Invalid
  /\ Stale
  /\ state' = "STALE"
  /\ lastCycle' = clock
  /\ UNCHANGED desk

\* The LiveSnapshot of the event.  Its bars come from the vendor's history: they
\* may give any indicators.
Normalized ==
  {[at |-> stamp', told |-> told', bars |-> b] : b \in [Spots -> Indicators]}

RunFresh ==
  /\ Polls
  /\ answer' = "snapshot"
  /\ ~ Invalid
  /\ ~ Stale
  /\ \E snapshot \in Normalized :
       \E managed \in {Managed(desk, snapshot)} :
         /\ state' = (IF managed.halted THEN "DEGRADED" ELSE "RUNNING")
         /\ IF MayEnter(managed, snapshot.at)
              THEN /\ desk' = EvaluatedAll(managed, snapshot,
                                          ClosedNow(desk, managed))
                   /\ lastCycle' = IF \E u \in Spots : Barren(u, snapshot)
                                     THEN lastCycle ELSE clock
              ELSE desk' = managed /\ lastCycle' = clock

Run == RunTimedOut \/ RunWithoutSnapshot \/ RunInvalid \/ RunStale \/ RunFresh

Tick == FeedTick /\ UNCHANGED loopVars

Next == Tick \/ Start \/ Stop \/ Run

Spec == Init /\ [][Next]_vars

-----------------------------------------------------------------------------
(* Properties                                                              *)

Cost(p) == p.quantity * p.entry

\* The three books of a session say the same: the registry has at most one
\* open position of a contract, the ledger holds exactly the positions' lots
\* at their entry price, the loop's own set names their contracts, and what
\* left the cash is what they cost, less the result and the charges of the
\* closed ones (which the ledger never pays).
LiveBooksAgree ==
  /\ desk.openContracts = {p.contract : p \in desk.book}
  /\ \A p, q \in desk.book : p.contract = q.contract => p = q
  /\ \A c \in Listed :
       desk.held[c] =
         [quantity |-> MapThenSumSet(LAMBDA p : p.quantity,
                                     {p \in desk.book : p.contract = c}),
          average |-> IF c \in desk.openContracts
                        THEN (CHOOSE p \in desk.book : p.contract = c).entry
                        ELSE 0]
  /\ desk.cash + MapThenSumSet(Cost, desk.book) >= StartingCash + desk.realized
  /\ desk.cash >= 0

\* The positions a step has bought: none of them is valued yet.
Entries == {p \in desk'.book \ desk.book : p.valuedAt = NotValued}

\* Whatever the provider told before, in whatever order: a new position was
\* bought in an open session of a loop that is not halted, at a snapshot as
\* fresh as configured and a quote no older than the options engine allows,
\* at its ask or above and never below its bid, with the day's loss, the gross
\* and the position limit kept.
EntriesJustified ==
  [][\A p \in Entries :
       LET q == told'[p.contract]
       IN /\ state' = "RUNNING" /\ ~ desk'.halted /\ ~ desk'.unresolved
          /\ SessionOf[stamp'] = "OPEN"
          /\ stamp' <= clock /\ clock - stamp' <= MaxStaleness
          /\ q.at <= stamp' /\ stamp' - q.at <= MaxQuoteAge
          /\ p.entry >= q.value.ask /\ p.entry >= q.value.bid
          /\ desk'.realized >= -MaxDailyLoss
          /\ Cost(p) <= MaxPositionNotional
          /\ MapThenSumSet(Cost, desk'.book) <= MaxGrossNotional]_vars

\* A position that a call closes is not bought again by the same call, and a
\* halted or unresolved session stays so and buys nothing more.
HaltIsForGood ==
  [][/\ \A p \in Entries : p.contract \notin {o.contract : o \in desk.book}
     /\ desk.halted => desk'.halted
     /\ desk.unresolved => desk'.unresolved
     /\ desk.halted \/ desk.unresolved =>
          /\ desk'.openContracts \subseteq desk.openContracts
          /\ desk'.cash >= desk.cash]_vars

\* Once a fresh snapshot falls into the closing window, all that is left open
\* was never valued, and then the session is halted and a close unresolved.
\* What was ever valued is sold: at the mark of a quote of that snapshot if it
\* has one to be marked at, and else at the last mark, whereas
\* docs/positions.md:38 has a close without a valid quote left unresolved.
CloseLeavesNothing ==
  [][LET completed == lastCycle' # lastCycle /\ clock - stamp' <= MaxStaleness
     IN completed /\ CloseDue(SessionOf[stamp']) =>
          \A p \in desk'.book :
            p.valuedAt = NotValued /\ desk'.halted /\ desk'.unresolved]_vars

\* From its timeout on a session buys, sells and values nothing and asks the
\* provider nothing, though it be started again; and whatever call but stop
\* and start ends it, inventory is left halted and unresolved.
TimeoutKeepsInventory ==
  [][TimedOut =>
       /\ desk'.book = desk.book /\ desk'.cash = desk.cash
       /\ told' = told
       /\ state' # state /\ ~ Start /\ ~ Stop /\ desk.book # {} =>
            state' = "STOPPED" /\ desk'.halted /\ desk'.unresolved]_vars
=============================================================================
