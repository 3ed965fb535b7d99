-------------------------- MODULE PaperEngineProofs --------------------------
(***************************************************************************)
(* Proofs about PaperEngine for every set of decisions, contracts and      *)
(* quotes, every calendar, every limit and every bound.                    *)
(*                                                                         *)
(* The inductive invariant is Sound of the engine in memory and of the     *)
(* engine on disk.  One lemma per operator of a handler shows that the     *)
(* operator preserves Sound; a second one, that it only Extends the book:  *)
(* so memory extends the last checkpoint and each checkpoint extends the   *)
(* one before it, whatever writes fail and wherever the process dies.  The *)
(* last part maps the engine to EngineLifecycle: seen from outside, every  *)
(* step judges one decision, closes some positions, goes back to the       *)
(* checkpoint, or does nothing.                                            *)
(***************************************************************************)
EXTENDS PaperEngine, FiniteSetTheorems, TLAPS

-----------------------------------------------------------------------------
(* Prices                                                                  *)

\* Integer division by a positive divisor stays in Nat.
LEMMA DivNat ==
  ASSUME NEW a \in Nat, NEW b \in Nat \ {0}
  PROVE  a \div b \in Nat
OBVIOUS

\* The slippage of a price is a price.
LEMMA SlipNat ==
  ASSUME NEW a \in Nat
  PROVE  Slip(a) \in Nat
<1>1. a * SlippageBps \in Nat
  BY PricingPolicy
<1>2. (a * SlippageBps) \div 10000 \in Nat
  BY <1>1, DivNat
<1> QED
  BY <1>2 DEF Slip

\* Every side of a quote is a price, 0 when the quote has none (fills.py).
LEMMA ReferenceNat ==
  ASSUME NEW q \in Quotes, NEW source \in PriceSources
  PROVE  Reference(q, source) \in Nat
<1>1. q.bid \in Nat /\ q.ask \in Nat /\ q.ltp \in Nat
  BY EngineConstants
<1>2. (q.bid + q.ask) \div 2 \in Nat
  BY <1>1, DivNat
<1> QED
  BY <1>1, <1>2 DEF Reference, PriceSources

\* The price a buy pays.
LEMMA BuyPriceNat ==
  ASSUME NEW q \in Quotes
  PROVE  BuyPrice(q) \in Nat
<1>1. Reference(q, EntrySource) \in Nat
  BY ReferenceNat, PricingPolicy
<1> QED
  BY <1>1, SlipNat DEF BuyPrice

\* The price a sell gets.
LEMMA SellPriceNat ==
  ASSUME NEW q \in Quotes
  PROVE  SellPrice(q) \in Nat
<1>1. ExitSourceOf(q) \in PriceSources
  BY PricingPolicy, ReferenceNat DEF ExitSourceOf, PriceSources
<1>2. Reference(q, ExitSourceOf(q)) \in Nat
  BY <1>1, ReferenceNat
<1> QED
  BY <1>2, SlipNat DEF SellPrice

\* The costs of a round trip (CostModel.round_trip).
LEMMA RoundTripNat ==
  ASSUME NEW entry \in Nat, NEW exit \in Nat, NEW quantity \in Nat
  PROVE  RoundTrip(entry, exit, quantity) \in Nat
<1>1. exit * quantity * SttRate \in Nat
  BY PricingPolicy
<1>2. (entry + exit) * quantity * ExchangeRate \in Nat
  BY PricingPolicy
<1> DEFINE stt == (exit * quantity * SttRate) \div 100000
           fees == ((entry + exit) * quantity * ExchangeRate) \div 100000
<1>3. stt \in Nat /\ fees \in Nat
  BY <1>1, <1>2, DivNat
<1> HIDE DEF fees, stt
<1>4. (2 * Brokerage + fees) * GstRate \in Nat
  BY <1>3, PricingPolicy
<1>5. ((2 * Brokerage + fees) * GstRate) \div 100 \in Nat
  BY <1>4, DivNat
<1> QED
  BY <1>3, <1>5, PricingPolicy DEF RoundTrip, stt, fees

\* The average price of a first lot is its price (PaperLedger._apply).
LEMMA FirstLot ==
  ASSUME NEW quantity \in Nat \ {0}, NEW price \in Nat, NEW average \in Nat
  PROVE  Bought([quantity |-> 0, average |-> average], quantity, price)
           = [quantity |-> quantity, average |-> price]
<1>1. (price * quantity) \div quantity = price
  OBVIOUS
<1>2. average * 0 + price * quantity = price * quantity /\ 0 + quantity = quantity
  OBVIOUS
<1> QED
  BY <1>1, <1>2 DEF Bought

-----------------------------------------------------------------------------
(* The inductive invariant of one book                                     *)

WithinLimit(e) == Cardinality(Open(e)) <= MaxOpenPositions

Sound(e) ==
  /\ e \in Engines
  /\ OneOpen(e)
  /\ Reconciled(e)
  /\ FillsMatch(e)
  /\ OrderFollows(e)
  /\ HaltsKept(e)
  /\ WithinLimit(e)

IInv ==
  /\ clock \in Times
  /\ faults \in 0..MaxFaults
  /\ Sound(engine)
  /\ disk # NoCheckpoint => Sound(disk)

\* The open positions of a book are finitely many.
LEMMA OpenFinite ==
  ASSUME NEW e
  PROVE  IsFiniteSet(Open(e)) /\ Cardinality(Open(e)) \in Nat
<1>1. Open(e) \in SUBSET Decisions
  BY DEF Open
<1> QED
  BY <1>1, EngineConstants, FS_Subset, FS_CardinalityType

\* A new session is sound.
LEMMA FreshSound ==
  ASSUME NEW t \in Times
  PROVE  Sound(Fresh(t))
<1> DEFINE e == Fresh(t)
<1>1. e \in Engines
  BY EngineConstants DEF Fresh, Engines, NoPosition, NoFill, PositionRecords,
     Reasons, ExitReasons, Times
<1>2. Open(e) = {}
  BY DEF Fresh, Open, NoPosition
<1>3. FillsMatch(e)
  BY EngineConstants DEF Fresh, FillsMatch, NoPosition, NoFill
<1>4. OneOpen(e) /\ Reconciled(e)
  BY <1>2 DEF OneOpen, Reconciled, Fresh
<1>5. OrderFollows(e) /\ HaltsKept(e)
  BY DEF OrderFollows, HaltsKept, Fresh, NoPosition
<1>6. WithinLimit(e)
  BY <1>2, FS_EmptySet, RiskLimits DEF WithinLimit
<1> QED
  BY <1>1, <1>3, <1>4, <1>5, <1>6 DEF Sound

\* A step that leaves positions, fills, holdings and orders alone, lifts no
\* halt and keeps the discipline of the halts preserves soundness.
LEMMA FlagsSound ==
  ASSUME NEW e, Sound(e), NEW f \in Engines,
         f.positions = e.positions, f.fills = e.fills,
         f.holdings = e.holdings, f.orders = e.orders,
         e.seen \subseteq f.seen, HaltsKept(f)
  PROVE  Sound(f)
<1>1. Open(f) = Open(e)
  BY DEF Open
<1> QED
  BY <1>1 DEF Sound, OneOpen, Reconciled, FillsMatch, OrderFollows, WithinLimit

\* _enforce_timeout keeps a book sound.
LEMMA EnforceTimeoutSound ==
  ASSUME NEW e, Sound(e)
  PROVE  Sound(EnforceTimeout(e))
<1> DEFINE f == EnforceTimeout(e)
<1>1. e \in Engines /\ HaltsKept(e)
  BY DEF Sound
<1>2. /\ f \in Engines
      /\ f.positions = e.positions /\ f.fills = e.fills
      /\ f.holdings = e.holdings /\ f.orders = e.orders /\ f.seen = e.seen
  BY <1>1 DEF EnforceTimeout, Engines
<1>3. Open(f) = Open(e)
  BY <1>2 DEF Open
<1>4. HaltsKept(f)
  BY <1>1, <1>3 DEF HaltsKept, EnforceTimeout, Engines
<1> QED
  BY <1>2, <1>4, FlagsSound

\* _roll_trading_day keeps a book sound.
LEMMA RollSound ==
  ASSUME NEW e, Sound(e), NEW m \in Times
  PROVE  Sound(RollTradingDay(e, m))
<1> DEFINE f == RollTradingDay(e, m)
<1>1. e \in Engines /\ HaltsKept(e)
  BY DEF Sound
<1>2. /\ f \in Engines
      /\ f.positions = e.positions /\ f.fills = e.fills
      /\ f.holdings = e.holdings /\ f.orders = e.orders /\ f.seen = e.seen
      /\ f.halted = e.halted /\ f.unresolved = e.unresolved
      /\ f.timeoutRecorded = e.timeoutRecorded
  BY <1>1, EngineConstants DEF RollTradingDay, Engines
<1>3. HaltsKept(f)
  BY <1>1, <1>2 DEF HaltsKept, Open
<1> QED
  BY <1>2, <1>3, FlagsSound


\* Rejecting a decision that was never seen keeps a book sound.
LEMMA RejectedSound ==
  ASSUME NEW e, Sound(e), NEW d \in Decisions, d \notin e.seen
  PROVE  Sound(Rejected(e, d))
<1> DEFINE f == Rejected(e, d)
<1>1. e \in Engines /\ HaltsKept(e) /\ OrderFollows(e)
  BY DEF Sound
<1>2. /\ f \in Engines
      /\ f.positions = e.positions /\ f.fills = e.fills
      /\ f.holdings = e.holdings
      /\ f.orders = [e.orders EXCEPT ![d] = "REJECTED"]
      /\ f.seen = e.seen \cup {d}
      /\ f.halted = e.halted /\ f.unresolved = e.unresolved
      /\ f.timeoutRecorded = e.timeoutRecorded
  BY <1>1 DEF Rejected, Engines
<1>3. Open(f) = Open(e)
  BY <1>2 DEF Open
<1>4. e.positions[d].state = "NONE"
  BY <1>1 DEF OrderFollows, Engines
<1>5. OrderFollows(f)
  <2> SUFFICES ASSUME NEW x \in Decisions
               PROVE  LET p == f.positions[x]
                          status == f.orders[x]
                      IN /\ p.state = "NONE" <=> status \in {"NONE", "REJECTED"}
                         /\ p.state = "OPEN" <=> status = "OPEN"
                         /\ status = "EXPIRED" <=> p.state = "CLOSED" /\ p.reason = "EXPIRED"
                         /\ status # "NONE" => x \in f.seen
    BY DEF OrderFollows
  <2>1. CASE x = d
    BY <2>1, <1>1, <1>2, <1>4 DEF Engines
  <2>2. CASE x # d
    <3>1. f.orders[x] = e.orders[x]
      BY <2>2, <1>1, <1>2 DEF Engines
    <3> QED
      BY <3>1, <1>1, <1>2 DEF OrderFollows
  <2> QED
    BY <2>1, <2>2
<1>6. HaltsKept(f)
  BY <1>1, <1>2, <1>3 DEF HaltsKept
<1> QED
  BY <1>2, <1>3, <1>5, <1>6
  DEF Sound, OneOpen, Reconciled, FillsMatch, WithinLimit

\* An entry on a contract that has no open position, with a slot free, keeps a
\* book sound: ledger, registry and order are moved together.
LEMMA FilledSound ==
  ASSUME NEW e, Sound(e), NEW d \in Decisions, d \notin e.seen,
         NEW m \in Times, NEW price \in Nat,
         ~ e.halted, ~ HasOpen(e, ContractOf[d]), Occupied(e) < MaxOpenPositions
  PROVE  Sound(Filled(e, d, m, price))
<1> DEFINE f == Filled(e, d, m, price)
           c == ContractOf[d]
           h == Bought(e.holdings[c], QuantityOf[d], price)
<1>1. /\ e \in Engines /\ OneOpen(e) /\ Reconciled(e) /\ FillsMatch(e)
      /\ OrderFollows(e) /\ HaltsKept(e)
  BY DEF Sound
<1>2. c \in Contracts /\ QuantityOf[d] \in Nat \ {0}
  BY EngineConstants
<1>3. e.positions[d].state = "NONE" /\ d \notin Open(e)
  BY <1>1 DEF OrderFollows, Engines, Open
<1>4. h = [quantity |-> QuantityOf[d], average |-> price]
  <2>1. e.holdings[c].quantity = 0
    BY <1>1, <1>2 DEF Reconciled, HasOpen
  <2>2. e.holdings[c] = [quantity |-> 0, average |-> e.holdings[c].average]
    BY <2>1, <1>1, <1>2 DEF Engines
  <2>3. e.holdings[c].average \in Nat
    BY <1>1, <1>2 DEF Engines
  <2> QED
    BY <2>2, <2>3, <1>2, FirstLot
<1>5. /\ OpenedAt(price, m) \in PositionRecords
      /\ OpenedAt(price, m).state = "OPEN"
      /\ OpenedAt(price, m).entry = price
      /\ OpenedAt(price, m).openedAt = m
      /\ OpenedAt(price, m).reason = "NONE"
  <2>1. NoPosition \in PositionRecords /\ NoPosition.reason = "NONE"
    BY EngineConstants DEF NoPosition, PositionRecords, Times, Reasons, ExitReasons
  <2> QED
    BY <2>1 DEF OpenedAt, PositionRecords
<1>6. /\ f.positions = [e.positions EXCEPT ![d] = OpenedAt(price, m)]
      /\ f.fills = [e.fills EXCEPT ![d] =
                      [buy |-> QuantityOf[d] * price, sell |-> 0, exitQuoteAt |-> 0]]
      /\ f.holdings = [e.holdings EXCEPT ![c] = h]
      /\ f.orders = [e.orders EXCEPT ![d] = "OPEN"]
      /\ f.seen = e.seen \cup {d}
      /\ f.halted = e.halted /\ f.unresolved = e.unresolved
      /\ f.timeoutRecorded = e.timeoutRecorded
      /\ f.startedAt = e.startedAt /\ f.dailyHalt = e.dailyHalt
      /\ f.pnlDay = e.pnlDay
  BY <1>1 DEF Filled, Engines, NoFill
<1>7. f \in Engines
  <2>3. f.positions \in [Decisions -> PositionRecords]
    BY <1>5, <1>1, <1>6 DEF Engines
  <2>4. QuantityOf[d] * price \in Nat
    BY <1>2
  <2>5. f.fills \in [Decisions -> [buy : Nat, sell : Nat, exitQuoteAt : Int]]
    BY <2>4, <1>1, <1>6 DEF Engines
  <2>6. f.holdings \in [Contracts -> [quantity : Nat, average : Nat]]
    BY <1>1, <1>2, <1>4, <1>6 DEF Engines
  <2>7. f.orders \in [Decisions -> {"NONE", "REJECTED", "OPEN", "CLOSED", "EXPIRED"}]
        /\ f.seen \subseteq Decisions
    BY <1>1, <1>6 DEF Engines
  <2>8. /\ f.startedAt \in Times /\ f.pnlDay \in Nat
        /\ f.halted \in BOOLEAN /\ f.unresolved \in BOOLEAN
        /\ f.dailyHalt \in BOOLEAN /\ f.timeoutRecorded \in BOOLEAN
    BY <1>1, <1>6 DEF Engines
  <2> QED
    BY <2>3, <2>5, <2>6, <2>7, <2>8, <1>1 DEF Engines, Filled
<1> HIDE DEF f
<1>8. \A x \in Decisions : x # d =>
        /\ f.positions[x] = e.positions[x]
        /\ f.fills[x] = e.fills[x]
        /\ f.orders[x] = e.orders[x]
  BY <1>1, <1>6 DEF Engines
<1>9. /\ f.positions[d] = OpenedAt(price, m)
      /\ f.fills[d] = [buy |-> QuantityOf[d] * price, sell |-> 0, exitQuoteAt |-> 0]
      /\ f.orders[d] = "OPEN"
      /\ f.holdings[c] = [quantity |-> QuantityOf[d], average |-> price]
  BY <1>1, <1>2, <1>4, <1>6 DEF Engines
<1>10. Open(f) = Open(e) \cup {d}
  BY <1>5, <1>8, <1>9 DEF Open
<1>11. \A x \in Open(e) : ContractOf[x] # c
  BY DEF HasOpen
<1>12. OneOpen(f)
  BY <1>1, <1>10, <1>11 DEF OneOpen
<1>13. Reconciled(f)
  <2>1. \A x \in Contracts : x # c => f.holdings[x] = e.holdings[x]
    BY <1>1, <1>6 DEF Engines
  <2>2. ASSUME NEW x \in Open(f)
        PROVE  f.holdings[ContractOf[x]] =
                 [quantity |-> QuantityOf[x], average |-> f.positions[x].entry]
    <3>1. CASE x = d
      BY <3>1, <1>5, <1>9
    <3>2. CASE x # d
      <4>1. x \in Open(e) /\ x \in Decisions
        BY <3>2, <1>10 DEF Open
      <4>2. ContractOf[x] \in Contracts /\ ContractOf[x] # c
        BY <4>1, <1>11, EngineConstants
      <4> QED
        BY <4>1, <4>2, <2>1, <3>2, <1>8, <1>1 DEF Reconciled
    <3> QED
      BY <3>1, <3>2
  <2>3. ASSUME NEW x \in Contracts, x \notin {ContractOf[y] : y \in Open(f)}
        PROVE  f.holdings[x].quantity = 0
    <3>1. x # c /\ x \notin {ContractOf[y] : y \in Open(e)}
      BY <2>3, <1>10
    <3> QED
      BY <3>1, <2>1, <1>1 DEF Reconciled
  <2> QED
    BY <2>2, <2>3 DEF Reconciled
<1>14. FillsMatch(f)
  <2>1. \A x \in Decisions : x # d =>
          LET p == f.positions[x]
          IN /\ f.fills[x].buy = QuantityOf[x] * p.entry
             /\ f.fills[x].sell = IF p.state = "CLOSED" THEN QuantityOf[x] * p.mark ELSE 0
    BY <1>1, <1>8 DEF FillsMatch
  <2>2. LET p == f.positions[d]
        IN /\ f.fills[d].buy = QuantityOf[d] * p.entry
           /\ f.fills[d].sell = IF p.state = "CLOSED" THEN QuantityOf[d] * p.mark ELSE 0
    BY <1>5, <1>9
  <2> QED
    BY <2>1, <2>2 DEF FillsMatch
<1>15. OrderFollows(f)
  <2>1. \A x \in Decisions : x # d =>
          LET p == f.positions[x]
              status == f.orders[x]
          IN /\ p.state = "NONE" <=> status \in {"NONE", "REJECTED"}
             /\ p.state = "OPEN" <=> status = "OPEN"
             /\ status = "EXPIRED" <=> p.state = "CLOSED" /\ p.reason = "EXPIRED"
             /\ status # "NONE" => x \in f.seen
    BY <1>1, <1>6, <1>8 DEF OrderFollows
  <2>2. f.positions[d].state = "OPEN" /\ f.orders[d] = "OPEN" /\ d \in f.seen
    BY <1>5, <1>6, <1>9
  <2> QED
    BY <2>1, <2>2 DEF OrderFollows
<1>16. WithinLimit(f)
  <2>1. Cardinality(Open(f)) = Cardinality(Open(e)) + 1
    BY <1>3, <1>10, OpenFinite, FS_AddElement
  <2> QED
    BY <2>1, OpenFinite, RiskLimits DEF WithinLimit, Occupied
<1>17. HaltsKept(f)
  BY <1>1, <1>6 DEF HaltsKept
<1> QED
  BY <1>7, <1>12, <1>13, <1>14, <1>15, <1>16, <1>17 DEF Sound, f

-----------------------------------------------------------------------------
(* Closing and marking                                                     *)

\* The inputs of a snapshot's closes.
CloseInput(m, quotes, why) ==
  /\ m \in Times
  /\ quotes \in [Contracts -> QuoteOrNone]
  /\ why \in [Decisions -> Reasons]

\* What one close writes into the registry and the ledger's fills.
LEMMA ClosedRecord ==
  ASSUME NEW e, Sound(e), NEW m, NEW quotes, NEW why,
         CloseInput(m, quotes, why), NEW d \in Dealt(e, m, quotes, why)
  PROVE  LET q == quotes[ContractOf[d]]
             p == e.positions[d]
             now == ClosedAs(p, d, m, q, why[d])
         IN /\ d \in Decisions /\ d \in Open(e) /\ why[d] \in ExitReasons
            /\ q \in Quotes /\ SellPrice(q) \in Nat /\ m - q.age \in Int
            /\ QuantityOf[d] * SellPrice(q) \in Nat
            /\ p \in PositionRecords /\ p.state = "OPEN" /\ now \in PositionRecords
            /\ now.state = "CLOSED" /\ now.mark = SellPrice(q)
            /\ now.entry = p.entry /\ now.reason = why[d]
            /\ now.openedAt = p.openedAt /\ now.closedAt = m
<1> DEFINE q == quotes[ContractOf[d]]
           p == e.positions[d]
           now == ClosedAs(p, d, m, q, why[d])
<1>1. d \in Decisions /\ d \in Open(e) /\ p.state = "OPEN" /\ why[d] # "NONE"
  BY DEF Dealt, Open
<1>2. why[d] \in ExitReasons
  BY <1>1 DEF CloseInput, Reasons
<1>3. q \in Quotes
  <2>1. q \in QuoteOrNone
    BY <1>1, EngineConstants DEF CloseInput
  <2>2. q # NoQuote
    BY DEF Dealt, Closable
  <2> QED
    BY <2>1, <2>2 DEF QuoteOrNone
<1>4. SellPrice(q) \in Nat
  BY <1>3, SellPriceNat
<1>5. m - q.age \in Int
  BY <1>3, EngineConstants DEF CloseInput, Times
<1>6. QuantityOf[d] \in Nat \ {0}
  BY <1>1, EngineConstants
<1>7. QuantityOf[d] * SellPrice(q) \in Nat
  BY <1>4, <1>6
<1>8. p \in PositionRecords
  BY <1>1 DEF Sound, Engines
<1>9. RoundTrip(p.entry, SellPrice(q), QuantityOf[d]) \in Nat
  BY <1>4, <1>6, <1>8, RoundTripNat DEF PositionRecords
<1>10. /\ now \in PositionRecords
       /\ now.state = "CLOSED" /\ now.mark = SellPrice(q)
       /\ now.entry = p.entry /\ now.reason = why[d]
       /\ now.openedAt = p.openedAt /\ now.closedAt = m
  BY <1>2, <1>4, <1>8, <1>9 DEF ClosedAs, PositionRecords, Reasons, CloseInput
<1> HIDE DEF now, q
<1> QED
  BY <1>1, <1>2, <1>3, <1>4, <1>5, <1>7, <1>8, <1>10 DEF now, q

\* The fields of the book after CloseAll.
LEMMA CloseAllFields ==
  ASSUME NEW e, Sound(e), NEW m, NEW quotes, NEW why,
         CloseInput(m, quotes, why)
  PROVE  LET f == CloseAll(e, m, quotes, why)
             done == Dealt(e, m, quotes, why)
             failed == Stranded(e, m, quotes, why)
             q(d) == quotes[ContractOf[d]]
         IN /\ f.startedAt = e.startedAt /\ f.seen = e.seen
            /\ f.dailyHalt = e.dailyHalt /\ f.pnlDay = e.pnlDay
            /\ f.timeoutRecorded = e.timeoutRecorded
            /\ f.unresolved = (e.unresolved \/ failed)
            /\ f.halted = (e.halted \/ failed)
            /\ \A d \in Decisions :
                 /\ d \in done =>
                      /\ f.positions[d] = ClosedAs(e.positions[d], d, m, q(d), why[d])
                      /\ f.orders[d] = Terminal(why[d])
                      /\ f.fills[d].buy = e.fills[d].buy
                      /\ f.fills[d].sell = QuantityOf[d] * SellPrice(q(d))
                      /\ f.fills[d].exitQuoteAt = m - q(d).age
                      /\ f.fills[d] \in [buy : Nat, sell : Nat, exitQuoteAt : Int]
                 /\ d \notin done =>
                      /\ f.positions[d] = e.positions[d]
                      /\ f.orders[d] = e.orders[d]
                      /\ f.fills[d] = e.fills[d]
            /\ \A c \in Contracts :
                 /\ c \in {ContractOf[d] : d \in done} =>
                      f.holdings[c] = [quantity |-> 0, average |-> 0]
                 /\ c \notin {ContractOf[d] : d \in done} =>
                      f.holdings[c] = e.holdings[c]
            /\ f \in Engines
<1> DEFINE f == CloseAll(e, m, quotes, why)
           done == Dealt(e, m, quotes, why)
           failed == Stranded(e, m, quotes, why)
           q(d) == quotes[ContractOf[d]]
           positions == [d \in Decisions |->
             IF d \in done THEN ClosedAs(e.positions[d], d, m, q(d), why[d])
                           ELSE e.positions[d]]
           orders == [d \in Decisions |->
             IF d \in done THEN Terminal(why[d]) ELSE e.orders[d]]
           fills == [d \in Decisions |->
             IF d \in done
               THEN [e.fills[d] EXCEPT !.sell = QuantityOf[d] * SellPrice(q(d)),
                                       !.exitQuoteAt = m - q(d).age]
               ELSE e.fills[d]]
           holdings == [c \in Contracts |->
             IF \E d \in done : ContractOf[d] = c
               THEN Sold(e.holdings[c], QuantityOf[CHOOSE d \in done : ContractOf[d] = c])
               ELSE e.holdings[c]]
<1>1. e \in Engines /\ OneOpen(e) /\ Reconciled(e)
  BY DEF Sound
<1>2. failed \in BOOLEAN
  BY DEF Stranded
<1>3. positions \in [Decisions -> PositionRecords]
  BY <1>1, ClosedRecord DEF Engines
<1>4. orders \in [Decisions -> {"NONE", "REJECTED", "OPEN", "CLOSED", "EXPIRED"}]
  BY <1>1 DEF Engines, Terminal
<1>5. ASSUME NEW d \in Decisions
      PROVE  /\ fills[d] \in [buy : Nat, sell : Nat, exitQuoteAt : Int]
             /\ d \in done =>
                  /\ fills[d].buy = e.fills[d].buy
                  /\ fills[d].sell = QuantityOf[d] * SellPrice(q(d))
                  /\ fills[d].exitQuoteAt = m - q(d).age
  <2>1. e.fills[d] \in [buy : Nat, sell : Nat, exitQuoteAt : Int]
    BY <1>1 DEF Engines
  <2>2. CASE d \in done
    <3>1. QuantityOf[d] * SellPrice(q(d)) \in Nat /\ m - q(d).age \in Int
      BY <2>2, ClosedRecord
    <3>2. fills[d] = [e.fills[d] EXCEPT !.sell = QuantityOf[d] * SellPrice(q(d)),
                                        !.exitQuoteAt = m - q(d).age]
      BY <2>2
    <3> HIDE DEF fills, q, done
    <3> QED
      BY <2>1, <2>2, <3>1, <3>2
  <2>3. CASE d \notin done
    BY <2>1, <2>3
  <2> QED
    BY <2>2, <2>3
<1>6. ASSUME NEW c \in Contracts
      PROVE  /\ c \in {ContractOf[d] : d \in done} =>
                  holdings[c] = [quantity |-> 0, average |-> 0]
             /\ c \notin {ContractOf[d] : d \in done} =>
                  holdings[c] = e.holdings[c]
  <2>1. CASE \E d \in done : ContractOf[d] = c
    <3> DEFINE x == CHOOSE d \in done : ContractOf[d] = c
    <3>1. x \in done /\ ContractOf[x] = c
      BY <2>1
    <3>2. x \in Open(e)
      BY <3>1 DEF Dealt
    <3>3. e.holdings[c] = [quantity |-> QuantityOf[x], average |-> e.positions[x].entry]
      BY <3>1, <3>2, <1>1 DEF Reconciled
    <3>4. holdings[c] = Sold(e.holdings[c], QuantityOf[x])
      BY <2>1
    <3> HIDE DEF x, holdings
    <3> QED
      BY <2>1, <3>3, <3>4 DEF Sold
  <2>2. CASE ~ \E d \in done : ContractOf[d] = c
    BY <2>2
  <2> QED
    BY <2>1, <2>2
<1>7. holdings \in [Contracts -> [quantity : Nat, average : Nat]]
  <2>1. \A c \in Contracts : holdings[c] \in [quantity : Nat, average : Nat]
    <3> HIDE DEF holdings
    <3> QED
      BY <1>1, <1>6 DEF Engines
  <2> QED
    BY <2>1
<1>8. fills \in [Decisions -> [buy : Nat, sell : Nat, exitQuoteAt : Int]]
  <2>1. \A d \in Decisions : fills[d] \in [buy : Nat, sell : Nat, exitQuoteAt : Int]
    BY <1>5
  <2> QED
    BY <2>1
<1>9. f = [e EXCEPT !.positions = positions, !.orders = orders, !.fills = fills,
                    !.holdings = holdings,
                    !.unresolved = (e.unresolved \/ failed),
                    !.halted = (e.halted \/ failed)]
  BY <1>1 DEF CloseAll, Engines
<1>10. \A d \in Decisions :
         /\ d \in done => /\ positions[d] = ClosedAs(e.positions[d], d, m, q(d), why[d])
                          /\ orders[d] = Terminal(why[d])
         /\ d \notin done => /\ positions[d] = e.positions[d]
                             /\ orders[d] = e.orders[d]
                             /\ fills[d] = e.fills[d]
  OBVIOUS
<1> HIDE DEF f, done, failed, q, positions, orders, fills, holdings
<1>11. /\ f.startedAt = e.startedAt /\ f.seen = e.seen
       /\ f.dailyHalt = e.dailyHalt /\ f.pnlDay = e.pnlDay
       /\ f.timeoutRecorded = e.timeoutRecorded
       /\ f.positions = positions /\ f.orders = orders /\ f.fills = fills
       /\ f.holdings = holdings
       /\ f.unresolved = (e.unresolved \/ failed)
       /\ f.halted = (e.halted \/ failed)
  BY <1>1, <1>9 DEF Engines
<1>12. f \in Engines
  BY <1>1, <1>2, <1>3, <1>4, <1>7, <1>8, <1>9 DEF Engines
<1> QED
  BY <1>5, <1>6, <1>10, <1>11, <1>12 DEF f, done, failed, q

\* Closing positions, and aborting the closes that fail, keeps a book sound:
\* ledger, registry and order give up each position together.
LEMMA CloseAllSound ==
  ASSUME NEW e, Sound(e), NEW m, NEW quotes, NEW why,
         CloseInput(m, quotes, why)
  PROVE  LET f == CloseAll(e, m, quotes, why)
         IN Sound(f) /\ Open(f) = Open(e) \ Dealt(e, m, quotes, why)
<1> DEFINE f == CloseAll(e, m, quotes, why)
           done == Dealt(e, m, quotes, why)
           failed == Stranded(e, m, quotes, why)
           q(d) == quotes[ContractOf[d]]
<1>1. /\ e \in Engines /\ OneOpen(e) /\ Reconciled(e) /\ FillsMatch(e)
      /\ OrderFollows(e) /\ HaltsKept(e) /\ WithinLimit(e)
  BY DEF Sound
<1>2. /\ f \in Engines /\ f.seen = e.seen
      /\ f.timeoutRecorded = e.timeoutRecorded
      /\ f.unresolved = (e.unresolved \/ failed)
      /\ f.halted = (e.halted \/ failed)
  BY CloseAllFields
<1>3. ASSUME NEW d \in done
      PROVE  /\ d \in Decisions /\ d \in Open(e)
             /\ f.positions[d].state = "CLOSED" /\ f.positions[d].reason = why[d]
             /\ f.positions[d].entry = e.positions[d].entry
             /\ f.positions[d].mark = SellPrice(q(d))
             /\ f.orders[d] = Terminal(why[d])
             /\ f.fills[d].buy = e.fills[d].buy
             /\ f.fills[d].sell = QuantityOf[d] * SellPrice(q(d))
  BY CloseAllFields, ClosedRecord
<1>4. \A d \in Decisions : d \notin done =>
        /\ f.positions[d] = e.positions[d]
        /\ f.orders[d] = e.orders[d]
        /\ f.fills[d] = e.fills[d]
  BY CloseAllFields
<1>5. \A c \in Contracts :
        /\ c \in {ContractOf[d] : d \in done} =>
             f.holdings[c] = [quantity |-> 0, average |-> 0]
        /\ c \notin {ContractOf[d] : d \in done} => f.holdings[c] = e.holdings[c]
  BY CloseAllFields
<1>6. failed \in BOOLEAN
  BY DEF Stranded
<1> HIDE DEF f, done, failed, q
<1>7. Open(f) = Open(e) \ done
  BY <1>3, <1>4 DEF Open
<1>8. OneOpen(f)
  BY <1>1, <1>7 DEF OneOpen
<1>9. Reconciled(f)
  <2>1. ASSUME NEW d \in Open(f)
        PROVE  f.holdings[ContractOf[d]] =
                 [quantity |-> QuantityOf[d], average |-> f.positions[d].entry]
    <3>1. d \in Open(e) /\ d \notin done /\ d \in Decisions
      BY <1>7 DEF Open
    <3>2. ContractOf[d] \in Contracts
      BY <3>1, EngineConstants
    <3>3. ContractOf[d] \notin {ContractOf[x] : x \in done}
      BY <3>1, <1>1, <1>3 DEF OneOpen
    <3> QED
      BY <3>1, <3>2, <3>3, <1>1, <1>4, <1>5 DEF Reconciled
  <2>2. ASSUME NEW c \in Contracts, c \notin {ContractOf[d] : d \in Open(f)}
        PROVE  f.holdings[c].quantity = 0
    <3>1. CASE c \in {ContractOf[d] : d \in done}
      BY <3>1, <1>5
    <3>2. CASE c \notin {ContractOf[d] : d \in done}
      <4>1. c \notin {ContractOf[d] : d \in Open(e)}
        BY <2>2, <3>2, <1>7
      <4> QED
        BY <3>2, <4>1, <1>1, <1>5 DEF Reconciled
    <3> QED
      BY <3>1, <3>2
  <2> QED
    BY <2>1, <2>2 DEF Reconciled
<1>10. FillsMatch(f)
  <2> SUFFICES ASSUME NEW d \in Decisions
               PROVE  /\ f.fills[d].buy = QuantityOf[d] * f.positions[d].entry
                      /\ f.fills[d].sell = IF f.positions[d].state = "CLOSED"
                                             THEN QuantityOf[d] * f.positions[d].mark
                                             ELSE 0
    BY DEF FillsMatch
  <2>1. CASE d \in done
    BY <2>1, <1>1, <1>3 DEF FillsMatch
  <2>2. CASE d \notin done
    BY <2>2, <1>1, <1>4 DEF FillsMatch
  <2> QED
    BY <2>1, <2>2
<1>11. OrderFollows(f)
  <2> SUFFICES ASSUME NEW d \in Decisions
               PROVE  LET p == f.positions[d]
                          status == f.orders[d]
                      IN /\ p.state = "NONE" <=> status \in {"NONE", "REJECTED"}
                         /\ p.state = "OPEN" <=> status = "OPEN"
                         /\ status = "EXPIRED" <=> p.state = "CLOSED" /\ p.reason = "EXPIRED"
                         /\ status # "NONE" => d \in f.seen
    BY DEF OrderFollows
  <2>1. CASE d \in done
    <3>1. e.orders[d] = "OPEN"
      BY <2>1, <1>1, <1>3 DEF OrderFollows, Open
    <3>2. d \in f.seen
      BY <3>1, <1>1, <1>2 DEF OrderFollows
    <3> QED
      BY <2>1, <3>2, <1>3 DEF Terminal
  <2>2. CASE d \notin done
    BY <2>2, <1>1, <1>2, <1>4 DEF OrderFollows
  <2> QED
    BY <2>1, <2>2
<1>12. HaltsKept(f)
  BY <1>1, <1>2, <1>6, <1>7 DEF HaltsKept
<1>13. WithinLimit(f)
  <2>1. Cardinality(Open(f)) <= Cardinality(Open(e))
    BY <1>7, OpenFinite, FS_Subset
  <2> QED
    BY <2>1, <1>1, OpenFinite, RiskLimits DEF WithinLimit
<1> QED
  BY <1>2, <1>7, <1>8, <1>9, <1>10, <1>11, <1>12, <1>13 DEF Sound, f, done

\* _force_expired and its closes keep a book sound.
LEMMA CloseExpiredSound ==
  ASSUME NEW e, Sound(e), NEW m \in Times,
         NEW quotes \in [Contracts -> QuoteOrNone]
  PROVE  Sound(CloseExpired(e, m, quotes))
<1> DEFINE why == [d \in Decisions |->
             IF d \in Open(e) /\ ExpiryDay[ContractOf[d]] < DayOf[m]
               THEN "EXPIRED" ELSE "NONE"]
<1>1. CloseInput(m, quotes, why)
  BY DEF CloseInput, Reasons, ExitReasons, Forced
<1> HIDE DEF why
<1>2. Sound(CloseAll(e, m, quotes, why))
  BY <1>1, CloseAllSound
<1> QED
  BY <1>2 DEF CloseExpired, why

\* PositionRegistry.mark changes how an open position is valued and no more.
LEMMA MarkedRecord ==
  ASSUME NEW p \in PositionRecords, NEW m \in Times, NEW q \in QuoteOrNone
  PROVE  LET now == Marked(p, m, q)
         IN /\ now \in PositionRecords
            /\ now.state = p.state /\ now.entry = p.entry
            /\ now.openedAt = p.openedAt /\ now.reason = p.reason
            /\ p.state # "OPEN" => now = p
<1>1. CASE q = NoQuote
  BY <1>1 DEF Marked
<1>2. CASE q # NoQuote
  <2>1. q \in Quotes
    BY <1>2 DEF QuoteOrNone
  <2>2. MarkPrice(q) \in Nat /\ m - q.age \in Int
    BY <2>1, EngineConstants DEF MarkPrice, Times
  <2> QED
    BY <2>2 DEF Marked, PositionRecords
<1> QED
  BY <1>1, <1>2

\* Marking every open position keeps a book sound.
LEMMA MarkAllSound ==
  ASSUME NEW e, Sound(e), NEW m \in Times,
         NEW quotes \in [Contracts -> QuoteOrNone]
  PROVE  Sound(MarkAll(e, m, quotes))
<1> DEFINE f == MarkAll(e, m, quotes)
           marks == [d \in Decisions |->
                       Marked(e.positions[d], m, quotes[ContractOf[d]])]
<1>1. /\ e \in Engines /\ OneOpen(e) /\ Reconciled(e) /\ FillsMatch(e)
      /\ OrderFollows(e) /\ HaltsKept(e) /\ WithinLimit(e)
  BY DEF Sound
<1>2. ASSUME NEW d \in Decisions
      PROVE  /\ marks[d] \in PositionRecords
             /\ marks[d].state = e.positions[d].state
             /\ marks[d].entry = e.positions[d].entry
             /\ marks[d].reason = e.positions[d].reason
             /\ e.positions[d].state # "OPEN" => marks[d] = e.positions[d]
  <2>1. quotes[ContractOf[d]] \in QuoteOrNone
    BY EngineConstants
  <2>2. e.positions[d] \in PositionRecords
    BY <1>1 DEF Engines
  <2>3. marks[d] = Marked(e.positions[d], m, quotes[ContractOf[d]])
    OBVIOUS
  <2> QED
    BY <2>1, <2>2, <2>3, MarkedRecord
<1>3. marks \in [Decisions -> PositionRecords]
  BY <1>2
<1>4. f = [e EXCEPT !.positions = marks]
  BY DEF MarkAll
<1> HIDE DEF f, marks
<1>5. /\ f.positions = marks /\ f.fills = e.fills /\ f.holdings = e.holdings
      /\ f.orders = e.orders /\ f.seen = e.seen /\ f.halted = e.halted
      /\ f.unresolved = e.unresolved /\ f.timeoutRecorded = e.timeoutRecorded
      /\ f \in Engines
  BY <1>1, <1>3, <1>4 DEF Engines
<1>6. Open(f) = Open(e)
  BY <1>2, <1>5 DEF Open
<1>7. OneOpen(f) /\ WithinLimit(f) /\ HaltsKept(f)
  BY <1>1, <1>5, <1>6 DEF OneOpen, WithinLimit, HaltsKept
<1>8. Reconciled(f)
  <2>1. \A d \in Open(f) : f.positions[d].entry = e.positions[d].entry
    BY <1>2, <1>5 DEF Open
  <2> QED
    BY <2>1, <1>1, <1>5, <1>6 DEF Reconciled
<1>9. FillsMatch(f)
  BY <1>1, <1>2, <1>5 DEF FillsMatch
<1>10. OrderFollows(f)
  BY <1>1, <1>2, <1>5 DEF OrderFollows
<1> QED
  BY <1>5, <1>7, <1>8, <1>9, <1>10 DEF Sound, f

\* _retry_timeout_closes keeps a book sound: the session is only resolved when
\* nothing is open any more.
LEMMA RetryTimeoutClosesSound ==
  ASSUME NEW e, Sound(e), NEW m \in Times,
         NEW quotes \in [Contracts -> QuoteOrNone]
  PROVE  Sound(RetryTimeoutCloses(e, m, quotes))
<1> DEFINE why == [d \in Decisions |->
                     IF d \in Open(e) THEN "SESSION_TIMEOUT" ELSE "NONE"]
           tried == CloseAll(e, m, quotes, why)
           f == RetryTimeoutCloses(e, m, quotes)
<1>1. CloseInput(m, quotes, why)
  BY DEF CloseInput, Reasons, ExitReasons, Forced
<1>2. f = IF Open(tried) = {}
            THEN [tried EXCEPT !.unresolved = FALSE,
                               !.halted = tried.halted \/ Open(e) # {}]
            ELSE tried
  BY DEF RetryTimeoutCloses
<1> HIDE DEF why, f
<1>3. Sound(tried)
  BY <1>1, CloseAllSound
<1> HIDE DEF tried
<1>4. CASE Open(tried) = {}
  <2>1. tried \in Engines /\ HaltsKept(tried)
    BY <1>3 DEF Sound
  <2>2. /\ f \in Engines /\ f.positions = tried.positions
        /\ f.fills = tried.fills /\ f.holdings = tried.holdings
        /\ f.orders = tried.orders /\ f.seen = tried.seen
        /\ f.unresolved = FALSE /\ f.timeoutRecorded = tried.timeoutRecorded
        /\ f.halted = (tried.halted \/ Open(e) # {})
    BY <1>2, <1>4, <2>1 DEF Engines
  <2>3. Open(f) = {}
    BY <1>4, <2>2 DEF Open
  <2>4. HaltsKept(f)
    BY <2>1, <2>2, <2>3 DEF HaltsKept
  <2> QED
    BY <1>3, <2>2, <2>4, FlagsSound DEF f
<1>5. CASE Open(tried) # {}
  BY <1>2, <1>3, <1>5 DEF f
<1> QED
  BY <1>4, <1>5

\* The exits of a snapshot keep a book sound.
LEMMA RunExitsSound ==
  ASSUME NEW e, Sound(e), NEW m \in Times,
         NEW quotes \in [Contracts -> QuoteOrNone]
  PROVE  Sound(RunExits(e, m, quotes))
<1> DEFINE stuck == /\ CloseDue(SessionOf[m])
                    /\ \E d \in Open(e) : e.positions[d].mark = 0
           flagged == [e EXCEPT !.unresolved = e.unresolved \/ stuck,
                                !.halted = e.halted \/ stuck]
           why == [d \in Decisions |-> ExitReason(e, d, m)]
<1>1. CloseInput(m, quotes, why)
  BY DEF CloseInput, Reasons, ExitReasons, Forced, ExitReason, ChooseExit
<1>2. e \in Engines /\ HaltsKept(e)
  BY DEF Sound
<1>3. stuck \in BOOLEAN
  BY DEF CloseDue
<1>4. RunExits(e, m, quotes) = CloseAll(flagged, m, quotes, why)
  BY <1>2 DEF RunExits, Engines
<1> HIDE DEF stuck, why
<1>5. /\ flagged \in Engines /\ flagged.positions = e.positions
      /\ flagged.fills = e.fills /\ flagged.holdings = e.holdings
      /\ flagged.orders = e.orders /\ flagged.seen = e.seen
      /\ flagged.timeoutRecorded = e.timeoutRecorded
      /\ flagged.unresolved = (e.unresolved \/ stuck)
      /\ flagged.halted = (e.halted \/ stuck)
  BY <1>2, <1>3 DEF Engines
<1>6. HaltsKept(flagged)
  BY <1>2, <1>3, <1>5 DEF HaltsKept, Open
<1> HIDE DEF flagged
<1>7. Sound(flagged)
  BY <1>5, <1>6, FlagsSound
<1>8. Sound(CloseAll(flagged, m, quotes, why))
  BY <1>1, <1>7, CloseAllSound
<1> QED
  BY <1>4, <1>8

\* on_snapshot keeps a book sound.
LEMMA ManagedSound ==
  ASSUME NEW e, Sound(e), NEW m \in Times,
         NEW quotes \in [Contracts -> QuoteOrNone]
  PROVE  Sound(Managed(e, m, quotes))
<1> DEFINE current == MarkAll(CloseExpired(EnforceTimeout(e), m, quotes), m, quotes)
<1>1. Sound(EnforceTimeout(e))
  BY EnforceTimeoutSound
<1>2. Sound(CloseExpired(EnforceTimeout(e), m, quotes))
  BY <1>1, CloseExpiredSound
<1>3. Sound(current)
  BY <1>2, MarkAllSound
<1> HIDE DEF current
<1>4. Sound(RetryTimeoutCloses(current, m, quotes)) /\ Sound(RunExits(current, m, quotes))
  BY <1>3, RetryTimeoutClosesSound, RunExitsSound
<1> QED
  BY <1>4 DEF Managed, Current, Exited, current

-----------------------------------------------------------------------------
(* The steps of the engine                                                 *)

\* A handler that ends in a checkpoint keeps the invariant, whether or not the
\* checkpoint was written.
LEMMA CommitSound ==
  ASSUME IInv, NEW f, Sound(f), Commit(f)
  PROVE  IInv'
<1>1. engine' = f /\ clock' = clock
  BY DEF Commit
<1>2. disk' = f \/ disk' = disk
  BY DEF Commit
<1>3. faults' \in 0..MaxFaults
  BY EngineConstants DEF Commit, IInv
<1>4. Sound(engine)' /\ (disk # NoCheckpoint => Sound(disk))'
  BY <1>1, <1>2 DEF IInv
<1> QED
  BY <1>1, <1>3, <1>4 DEF IInv

\* execute, in each of its outcomes, keeps the invariant.
LEMMA ExecuteSound ==
  ASSUME IInv, NEW d \in Decisions, Execute(d)
  PROVE  IInv'
<1>1. Sound(engine) /\ engine \in Engines
  BY DEF IInv, Sound
<1>2. \A m \in Moments : m \in Times
  BY DEF Moments
<1>3. \A m \in Times : Sound(Ready(m)) /\ Ready(m).seen = engine.seen
  BY <1>1, RollSound, EngineConstants DEF Ready, RollTradingDay, Engines
<1>4. CASE ExecuteDuplicate(d)
  BY <1>1, <1>4, CommitSound DEF ExecuteDuplicate
<1>5. CASE ExecuteNotApproved(d)
  <2> DEFINE f == [engine EXCEPT !.seen = engine.seen \cup {d}]
  <2>1. Commit(f)
    BY <1>5 DEF ExecuteNotApproved
  <2>2. /\ f \in Engines /\ f.positions = engine.positions
        /\ f.fills = engine.fills /\ f.holdings = engine.holdings
        /\ f.orders = engine.orders /\ engine.seen \subseteq f.seen
        /\ f.halted = engine.halted /\ f.unresolved = engine.unresolved
        /\ f.timeoutRecorded = engine.timeoutRecorded
    BY <1>1 DEF Engines
  <2> HIDE DEF f
  <2>3. HaltsKept(f)
    BY <1>1, <2>2 DEF HaltsKept, Open, Sound
  <2>4. Sound(f)
    BY <1>1, <2>2, <2>3, FlagsSound
  <2> QED
    BY <2>1, <2>4, CommitSound
<1>6. CASE ExecuteMismatch(d)
  <2>1. Sound(Rejected(engine, d))
    BY <1>1, <1>6, RejectedSound DEF ExecuteMismatch, New
  <2> QED
    BY <1>6, <2>1, CommitSound DEF ExecuteMismatch
<1>7. CASE ExecuteTimedOut(d)
  <2>1. Sound(EnforceTimeout(engine))
    BY <1>1, EnforceTimeoutSound
  <2>2. d \notin EnforceTimeout(engine).seen
    BY <1>1, <1>7 DEF ExecuteTimedOut, New, EnforceTimeout, Engines
  <2>3. Sound(Rejected(EnforceTimeout(engine), d))
    BY <2>1, <2>2, RejectedSound
  <2> QED
    BY <1>7, <2>3, CommitSound DEF ExecuteTimedOut
<1>8. ASSUME NEW m \in Moments, ExecuteBlocked(d, m)
      PROVE  IInv'
  <2>1. Sound(Rejected(Ready(m), d))
    BY <1>2, <1>3, <1>8, RejectedSound DEF ExecuteBlocked, New
  <2> QED
    BY <1>8, <2>1, CommitSound DEF ExecuteBlocked
<1>9. ASSUME NEW m \in Moments, ExecuteLossHalt(d, m)
      PROVE  IInv'
  <2> DEFINE r == Ready(m)
             f == [r EXCEPT !.dailyHalt = TRUE]
  <2>1. Sound(r) /\ r \in Engines /\ d \notin r.seen
    BY <1>2, <1>3, <1>9 DEF ExecuteLossHalt, New, Sound
  <2>2. Commit(Rejected(f, d))
    BY <1>9 DEF ExecuteLossHalt
  <2> HIDE DEF r
  <2>3. /\ f \in Engines /\ f.positions = r.positions
        /\ f.fills = r.fills /\ f.holdings = r.holdings
        /\ f.orders = r.orders /\ f.seen = r.seen
        /\ f.halted = r.halted /\ f.unresolved = r.unresolved
        /\ f.timeoutRecorded = r.timeoutRecorded
    BY <2>1 DEF Engines
  <2> HIDE DEF f
  <2>4. HaltsKept(f)
    BY <2>1, <2>3 DEF HaltsKept, Open, Sound
  <2>5. Sound(f)
    BY <2>1, <2>3, <2>4, FlagsSound
  <2>6. Sound(Rejected(f, d))
    BY <2>1, <2>3, <2>5, RejectedSound
  <2> QED
    BY <2>2, <2>6, CommitSound
<1>10. ASSUME NEW m \in Moments, NEW q \in QuoteOrNone, NEW usable \in BOOLEAN,
              ExecuteRefused(d, m, q, usable)
       PROVE  IInv'
  <2>1. Sound(Rejected(Ready(m), d))
    BY <1>2, <1>3, <1>10, RejectedSound DEF ExecuteRefused, Judged, New
  <2> QED
    BY <1>10, <2>1, CommitSound DEF ExecuteRefused
<1>11. ASSUME NEW m \in Moments, NEW q \in Quotes, ExecuteFilled(d, m, q)
       PROVE  IInv'
  <2>1. Sound(Ready(m)) /\ d \notin Ready(m).seen /\ ~ Ready(m).halted
    BY <1>2, <1>3, <1>11 DEF ExecuteFilled, Judged, New, Blocked
  <2>2. ~ HasOpen(Ready(m), ContractOf[d]) /\ Occupied(Ready(m)) < MaxOpenPositions
    BY <1>11 DEF ExecuteFilled, Enterable
  <2>3. Sound(Filled(Ready(m), d, m, BuyPrice(q)))
    BY <2>1, <2>2, <1>2, BuyPriceNat, FilledSound
  <2> QED
    BY <1>11, <2>3, CommitSound DEF ExecuteFilled
<1> QED
  BY <1>4, <1>5, <1>6, <1>7, <1>8, <1>9, <1>10, <1>11 DEF Execute

\* Every step of the specification keeps the invariant.
LEMMA NextSound ==
  ASSUME IInv, [Next]_vars
  PROVE  IInv'
<1>1. CASE UNCHANGED vars
  BY <1>1 DEF vars, IInv
<1>2. CASE Tick
  <2>1. clock' \in Times
    BY <1>2, EngineConstants DEF Tick, IInv, Times
  <2> QED
    BY <1>2, <2>1 DEF Tick, IInv
<1>3. ASSUME NEW d \in Decisions, Execute(d)
      PROVE  IInv'
  BY <1>3, ExecuteSound
<1>4. CASE OnSnapshot
  <2>1. CASE OnStaleSnapshot
    <3>1. Sound(EnforceTimeout(engine))
      BY EnforceTimeoutSound DEF IInv
    <3> QED
      BY <2>1, <3>1, CommitSound DEF OnStaleSnapshot
  <2>2. ASSUME NEW m \in Moments, NEW quotes \in [Contracts -> QuoteOrNone],
               OnFreshSnapshot(m, quotes)
        PROVE  IInv'
    <3>1. Sound(Managed(engine, m, quotes))
      BY ManagedSound DEF IInv, Moments
    <3> QED
      BY <2>2, <3>1, CommitSound DEF OnFreshSnapshot
  <2> QED
    BY <1>4, <2>1, <2>2 DEF OnSnapshot
<1>5. CASE Restart
  <2>1. Sound(Fresh(clock))
    BY FreshSound DEF IInv
  <2>2. faults' \in 0..MaxFaults
    BY <1>5, EngineConstants DEF Restart, IInv
  <2>3. /\ clock' = clock /\ disk' = disk
        /\ engine' = IF disk = NoCheckpoint THEN Fresh(clock) ELSE disk
    BY <1>5 DEF Restart
  <2>4. Sound(engine)' /\ (disk # NoCheckpoint => Sound(disk))'
    BY <2>1, <2>3 DEF IInv
  <2> QED
    BY <2>2, <2>3, <2>4 DEF IInv
<1> QED
  BY <1>1, <1>2, <1>3, <1>4, <1>5 DEF Next

\* The inductive invariant holds of every reachable state.
THEOREM Invariance == Spec => []IInv
<1>1. Init => IInv
  <2> SUFFICES ASSUME Init
               PROVE  IInv
    OBVIOUS
  <2>1. 0 \in Times /\ 0 \in 0..MaxFaults
    BY EngineConstants DEF Times
  <2> QED
    BY <2>1, FreshSound DEF Init, IInv
<1>2. IInv /\ [Next]_vars => IInv'
  BY NextSound
<1> QED
  BY <1>1, <1>2, PTL DEF Spec

\* The engine in memory and the one a restart would read are always complete
\* and well formed.
THEOREM TypeCorrect == Spec => []TypeOK
<1>1. IInv => TypeOK
  BY DEF IInv, Sound, TypeOK
<1> QED
  BY <1>1, Invariance, PTL

\* has_open keeps one open position per contract, whatever the decisions and
\* the interleaving of entries, exits, failed checkpoints and restarts.
THEOREM OneContractOnePosition == Spec => []OnePositionPerContract
<1>1. IInv => OnePositionPerContract
  BY DEF IInv, Sound, OnePositionPerContract, Books
<1> QED
  BY <1>1, Invariance, PTL

\* The ledger holds exactly what the registry shows open, at the same cost.
THEOREM LedgerInStep == Spec => []LedgerMatchesRegistry
<1>1. IInv => LedgerMatchesRegistry
  BY DEF IInv, Sound, LedgerMatchesRegistry, Books
<1> QED
  BY <1>1, Invariance, PTL

\* The cash of each position moved at the prices the registry shows.
THEOREM FillsInStep == Spec => []FillsMatchRegistry
<1>1. IInv => FillsMatchRegistry
  BY DEF IInv, Sound, FillsMatchRegistry, Books
<1> QED
  BY <1>1, Invariance, PTL

\* The order of a decision and its position agree.
THEOREM OrdersInStep == Spec => []OrderFollowsPosition
<1>1. IInv => OrderFollowsPosition
  BY DEF IInv, Sound, OrderFollowsPosition, Books
<1> QED
  BY <1>1, Invariance, PTL

\* Registry, ledger, fills and orders never disagree.
THEOREM BooksInStep == Spec => []BooksAgree
<1>1. OnePositionPerContract /\ LedgerMatchesRegistry
      /\ FillsMatchRegistry /\ OrderFollowsPosition => BooksAgree
  BY DEF BooksAgree
<1> QED
  BY <1>1, OneContractOnePosition, LedgerInStep, FillsInStep, OrdersInStep, PTL

\* No timeout or failed close leaves inventory the session does not own up to.
THEOREM HaltsDisciplined == Spec => []HaltDiscipline
<1>1. IInv => HaltDiscipline
  BY DEF IInv, Sound, HaltDiscipline, Books
<1> QED
  BY <1>1, Invariance, PTL

\* The number of open positions never passes the cap.
THEOREM CapKept == Spec => []WithinCap
<1>1. IInv => WithinCap
  BY DEF IInv, Sound, WithinLimit, WithinCap, Books
<1> QED
  BY <1>1, Invariance, PTL

-----------------------------------------------------------------------------
(* What a step never takes back                                            *)

\* `later' extends `earlier' and entered no position.
Carries(later, earlier) ==
  Extends(later, earlier) /\ Entered(later) \subseteq Entered(earlier)

DInv == IInv /\ MemoryExtendsDisk

\* A book extends itself.
LEMMA CarriesReflexive ==
  ASSUME NEW e
  PROVE  Carries(e, e)
BY DEF Carries, Extends, Entered

\* Extension composes: the state of a position in between is OPEN or CLOSED.
LEMMA ExtendsTransitive ==
  ASSUME NEW e, NEW f, NEW g, Sound(f), Extends(f, e), Extends(g, f)
  PROVE  Extends(g, e)
<1>1. \A d \in Decisions : f.positions[d].state \in {"NONE", "OPEN", "CLOSED"}
  BY DEF Sound, Engines, PositionRecords
<1>2. ASSUME NEW d \in Decisions
      PROVE  /\ e.positions[d].state = "CLOSED" =>
                  /\ g.positions[d] = e.positions[d]
                  /\ g.fills[d] = e.fills[d]
             /\ e.positions[d].state = "OPEN" =>
                  /\ g.positions[d].state # "NONE"
                  /\ g.positions[d].entry = e.positions[d].entry
                  /\ g.positions[d].openedAt = e.positions[d].openedAt
             /\ d \in e.seen /\ e.positions[d].state = "NONE" =>
                  g.positions[d].state = "NONE"
  <2>1. CASE e.positions[d].state = "CLOSED"
    BY <2>1 DEF Extends
  <2>2. CASE e.positions[d].state = "OPEN"
    BY <1>1, <2>2 DEF Extends
  <2>3. CASE d \in e.seen /\ e.positions[d].state = "NONE"
    BY <2>3 DEF Extends
  <2> QED
    BY <2>1, <2>2, <2>3
<1> QED
  BY <1>2 DEF Extends

\* Carrying a book on composes.
LEMMA CarriesTransitive ==
  ASSUME NEW e, NEW f, NEW g, Sound(f), Carries(f, e), Carries(g, f)
  PROVE  Carries(g, e)
<1>1. Extends(g, e)
  BY ExtendsTransitive DEF Carries
<1> QED
  BY <1>1 DEF Carries

\* A step that leaves positions and fills alone and lifts no halt carries the
\* book on.
LEMMA FlagsCarry ==
  ASSUME NEW e, NEW f, f.positions = e.positions, f.fills = e.fills,
         f.startedAt = e.startedAt, e.seen \subseteq f.seen,
         e.halted => f.halted, e.timeoutRecorded => f.timeoutRecorded
  PROVE  Carries(f, e)
BY DEF Carries, Extends, Entered

\* _enforce_timeout carries the book on.
LEMMA EnforceTimeoutCarries ==
  ASSUME NEW e, Sound(e)
  PROVE  Carries(EnforceTimeout(e), e)
<1> DEFINE f == EnforceTimeout(e)
<1>1. e \in Engines
  BY DEF Sound
<1>2. /\ f.positions = e.positions /\ f.fills = e.fills
      /\ f.startedAt = e.startedAt /\ f.seen = e.seen
      /\ e.halted => f.halted
      /\ e.timeoutRecorded => f.timeoutRecorded
  BY <1>1 DEF EnforceTimeout, Engines
<1> QED
  BY <1>2, FlagsCarry

\* _roll_trading_day carries the book on.
LEMMA RollCarries ==
  ASSUME NEW e, Sound(e), NEW m \in Times
  PROVE  Carries(RollTradingDay(e, m), e)
<1> DEFINE f == RollTradingDay(e, m)
<1>1. e \in Engines
  BY DEF Sound
<1>2. /\ f.positions = e.positions /\ f.fills = e.fills
      /\ f.startedAt = e.startedAt /\ f.seen = e.seen
      /\ f.halted = e.halted
      /\ f.timeoutRecorded = e.timeoutRecorded
  BY <1>1 DEF RollTradingDay, Engines
<1> QED
  BY <1>2, FlagsCarry

\* A rejection carries the book on.
LEMMA RejectedCarries ==
  ASSUME NEW e, Sound(e), NEW d \in Decisions
  PROVE  Carries(Rejected(e, d), e)
<1> DEFINE f == Rejected(e, d)
<1>1. e \in Engines
  BY DEF Sound
<1>2. /\ f.positions = e.positions /\ f.fills = e.fills
      /\ f.startedAt = e.startedAt /\ e.seen \subseteq f.seen
      /\ f.halted = e.halted
      /\ f.timeoutRecorded = e.timeoutRecorded
  BY <1>1 DEF Rejected, Engines
<1> QED
  BY <1>2, FlagsCarry

\* An entry of a decision that was never seen extends the book.
LEMMA FilledExtends ==
  ASSUME NEW e, Sound(e), NEW d \in Decisions, d \notin e.seen,
         NEW m \in Times, NEW price \in Nat
  PROVE  Extends(Filled(e, d, m, price), e)
<1> DEFINE f == Filled(e, d, m, price)
<1>1. e \in Engines /\ OrderFollows(e)
  BY DEF Sound
<1>2. e.positions[d].state = "NONE"
  BY <1>1 DEF OrderFollows, Engines
<1>3. /\ f.startedAt = e.startedAt /\ e.seen \subseteq f.seen
      /\ f.halted = e.halted /\ f.timeoutRecorded = e.timeoutRecorded
      /\ \A x \in Decisions : x # d =>
           f.positions[x] = e.positions[x] /\ f.fills[x] = e.fills[x]
  BY <1>1 DEF Filled, Engines
<1> QED
  BY <1>2, <1>3 DEF Extends

\* Closing positions carries the book on: only OPEN positions change, and what
\* they were entered at stays.
LEMMA CloseAllCarries ==
  ASSUME NEW e, Sound(e), NEW m, NEW quotes, NEW why,
         CloseInput(m, quotes, why)
  PROVE  Carries(CloseAll(e, m, quotes, why), e)
<1> DEFINE f == CloseAll(e, m, quotes, why)
           done == Dealt(e, m, quotes, why)
<1>1. /\ f.startedAt = e.startedAt /\ f.seen = e.seen
      /\ f.halted = (e.halted \/ Stranded(e, m, quotes, why))
      /\ f.timeoutRecorded = e.timeoutRecorded
  BY CloseAllFields
<1>2. \A d \in Decisions : d \notin done =>
        f.positions[d] = e.positions[d] /\ f.fills[d] = e.fills[d]
  BY CloseAllFields
<1>3. \A d \in done :
        /\ e.positions[d].state = "OPEN" /\ f.positions[d].state = "CLOSED"
        /\ f.positions[d].entry = e.positions[d].entry
        /\ f.positions[d].openedAt = e.positions[d].openedAt
  BY CloseAllFields, ClosedRecord
<1> HIDE DEF f, done
<1>4. Extends(f, e)
  BY <1>1, <1>2, <1>3 DEF Extends
<1>5. Entered(f) \subseteq Entered(e)
  BY <1>2, <1>3 DEF Entered
<1> QED
  BY <1>4, <1>5 DEF Carries, f

\* Expiring positions carries the book on.
LEMMA CloseExpiredCarries ==
  ASSUME NEW e, Sound(e), NEW m \in Times,
         NEW quotes \in [Contracts -> QuoteOrNone]
  PROVE  Carries(CloseExpired(e, m, quotes), e)
<1> DEFINE why == [d \in Decisions |->
             IF d \in Open(e) /\ ExpiryDay[ContractOf[d]] < DayOf[m]
               THEN "EXPIRED" ELSE "NONE"]
<1>1. CloseInput(m, quotes, why)
  BY DEF CloseInput, Reasons, ExitReasons, Forced
<1> HIDE DEF why
<1>2. Carries(CloseAll(e, m, quotes, why), e)
  BY <1>1, CloseAllCarries
<1> QED
  BY <1>2 DEF CloseExpired, why

\* Marking carries the book on.
LEMMA MarkAllCarries ==
  ASSUME NEW e, Sound(e), NEW m \in Times,
         NEW quotes \in [Contracts -> QuoteOrNone]
  PROVE  Carries(MarkAll(e, m, quotes), e)
<1> DEFINE f == MarkAll(e, m, quotes)
<1>1. e \in Engines
  BY DEF Sound
<1>2. /\ f.startedAt = e.startedAt /\ f.seen = e.seen /\ f.fills = e.fills
      /\ f.halted = e.halted /\ f.timeoutRecorded = e.timeoutRecorded
      /\ \A d \in Decisions :
           f.positions[d] = Marked(e.positions[d], m, quotes[ContractOf[d]])
  BY <1>1 DEF MarkAll, Engines
<1>3. \A d \in Decisions :
        e.positions[d] \in PositionRecords /\ quotes[ContractOf[d]] \in QuoteOrNone
  BY <1>1, EngineConstants DEF Engines
<1>4. \A d \in Decisions :
        /\ f.positions[d].state = e.positions[d].state
        /\ f.positions[d].entry = e.positions[d].entry
        /\ f.positions[d].openedAt = e.positions[d].openedAt
        /\ e.positions[d].state # "OPEN" => f.positions[d] = e.positions[d]
  BY <1>2, <1>3, MarkedRecord
<1> HIDE DEF f
<1> QED
  BY <1>2, <1>4 DEF Carries, Extends, Entered, f

\* Retrying the closes of a timed-out session carries the book on.
LEMMA RetryTimeoutClosesCarries ==
  ASSUME NEW e, Sound(e), NEW m \in Times,
         NEW quotes \in [Contracts -> QuoteOrNone]
  PROVE  Carries(RetryTimeoutCloses(e, m, quotes), e)
<1> DEFINE why == [d \in Decisions |->
                     IF d \in Open(e) THEN "SESSION_TIMEOUT" ELSE "NONE"]
           tried == CloseAll(e, m, quotes, why)
           f == RetryTimeoutCloses(e, m, quotes)
<1>1. CloseInput(m, quotes, why)
  BY DEF CloseInput, Reasons, ExitReasons, Forced
<1>2. f = IF Open(tried) = {}
            THEN [tried EXCEPT !.unresolved = FALSE,
                               !.halted = tried.halted \/ Open(e) # {}]
            ELSE tried
  BY DEF RetryTimeoutCloses
<1> HIDE DEF why, f
<1>3. Sound(tried) /\ Carries(tried, e)
  BY <1>1, CloseAllSound, CloseAllCarries
<1> HIDE DEF tried
<1>4. tried \in Engines
  BY <1>3 DEF Sound
<1>5. /\ f.positions = tried.positions /\ f.fills = tried.fills
      /\ f.startedAt = tried.startedAt /\ f.seen = tried.seen
      /\ tried.halted => f.halted
      /\ f.timeoutRecorded = tried.timeoutRecorded
  BY <1>2, <1>4 DEF Engines
<1>6. Carries(f, tried)
  BY <1>5, FlagsCarry
<1> QED
  BY <1>3, <1>6, CarriesTransitive DEF f

\* The exits of a snapshot carry the book on.
LEMMA RunExitsCarries ==
  ASSUME NEW e, Sound(e), NEW m \in Times,
         NEW quotes \in [Contracts -> QuoteOrNone]
  PROVE  Carries(RunExits(e, m, quotes), e)
<1> DEFINE stuck == /\ CloseDue(SessionOf[m])
                    /\ \E d \in Open(e) : e.positions[d].mark = 0
           flagged == [e EXCEPT !.unresolved = e.unresolved \/ stuck,
                                !.halted = e.halted \/ stuck]
           why == [d \in Decisions |-> ExitReason(e, d, m)]
<1>1. CloseInput(m, quotes, why)
  BY DEF CloseInput, Reasons, ExitReasons, Forced, ExitReason, ChooseExit
<1>2. e \in Engines /\ HaltsKept(e)
  BY DEF Sound
<1>3. stuck \in BOOLEAN
  BY DEF CloseDue
<1>4. RunExits(e, m, quotes) = CloseAll(flagged, m, quotes, why)
  BY <1>2 DEF RunExits, Engines
<1> HIDE DEF stuck, why
<1>5. /\ flagged \in Engines /\ flagged.positions = e.positions
      /\ flagged.fills = e.fills /\ flagged.holdings = e.holdings
      /\ flagged.orders = e.orders /\ flagged.seen = e.seen
      /\ flagged.startedAt = e.startedAt
      /\ flagged.timeoutRecorded = e.timeoutRecorded
      /\ flagged.unresolved = (e.unresolved \/ stuck)
      /\ flagged.halted = (e.halted \/ stuck)
  BY <1>2, <1>3 DEF Engines
<1>6. HaltsKept(flagged)
  BY <1>2, <1>3, <1>5 DEF HaltsKept, Open
<1> HIDE DEF flagged
<1>7. Sound(flagged) /\ Carries(flagged, e)
  BY <1>3, <1>5, <1>6, FlagsSound, FlagsCarry
<1>8. Carries(CloseAll(flagged, m, quotes, why), flagged)
  BY <1>1, <1>7, CloseAllCarries
<1> QED
  BY <1>4, <1>7, <1>8, CarriesTransitive

\* on_snapshot carries the book on.
LEMMA ManagedCarries ==
  ASSUME NEW e, Sound(e), NEW m \in Times,
         NEW quotes \in [Contracts -> QuoteOrNone]
  PROVE  Carries(Managed(e, m, quotes), e)
<1> DEFINE a == EnforceTimeout(e)
           b == CloseExpired(a, m, quotes)
           c == MarkAll(b, m, quotes)
<1>1. Sound(a) /\ Carries(a, e)
  BY EnforceTimeoutSound, EnforceTimeoutCarries
<1> HIDE DEF a
<1>2. Sound(b) /\ Carries(b, a)
  BY <1>1, CloseExpiredSound, CloseExpiredCarries
<1> HIDE DEF b
<1>3. Sound(c) /\ Carries(c, b)
  BY <1>2, MarkAllSound, MarkAllCarries
<1> HIDE DEF c
<1>4. Carries(c, e)
  BY <1>1, <1>2, <1>3, CarriesTransitive
<1>5. Carries(RetryTimeoutCloses(c, m, quotes), e) /\ Carries(RunExits(c, m, quotes), e)
  BY <1>3, <1>4, RetryTimeoutClosesCarries, RunExitsCarries, CarriesTransitive
<1> QED
  BY <1>5 DEF Managed, Current, Exited, a, b, c

-----------------------------------------------------------------------------
(* The steps of the engine                                                 *)

\* A checkpointed step that extends the book in memory extends what is on
\* disk, and what it writes extends what it replaces.
LEMMA CommitExtends ==
  ASSUME DInv, NEW f, Sound(f), Extends(f, engine), Commit(f)
  PROVE  /\ MemoryExtendsDisk'
         /\ disk # NoCheckpoint => Extends(disk', disk)
<1>1. engine' = f /\ (disk' = f \/ disk' = disk)
  BY DEF Commit
<1>2. disk # NoCheckpoint => Extends(f, disk)
  BY ExtendsTransitive DEF DInv, IInv, MemoryExtendsDisk
<1>3. Extends(f, f)
  BY CarriesReflexive DEF Carries
<1>4. disk # NoCheckpoint => Extends(disk, disk)
  BY CarriesReflexive DEF Carries
<1> QED
  BY <1>1, <1>2, <1>3, <1>4 DEF MemoryExtendsDisk

\* What every step but an entry does: it carries the book on, or goes back to
\* the one on disk.
StepCarries ==
  /\ MemoryExtendsDisk'
  /\ disk # NoCheckpoint => Extends(disk', disk)
  /\ disk # NoCheckpoint => Entered(engine') \subseteq Entered(engine)

\* A handler that enters nothing.
LEMMA CommitCarries ==
  ASSUME DInv, NEW f, Sound(f), Carries(f, engine), Commit(f)
  PROVE  StepCarries
<1>1. engine' = f
  BY DEF Commit
<1>2. Extends(f, engine) /\ Entered(f) \subseteq Entered(engine)
  BY DEF Carries
<1> QED
  BY <1>1, <1>2, CommitExtends DEF StepCarries

\* Every step extends memory and disk, and none enters a position after a halt
\* that is on disk.
LEMMA StepExtends ==
  ASSUME DInv, [Next]_vars
  PROVE  /\ MemoryExtendsDisk'
         /\ disk # NoCheckpoint => Extends(disk', disk)
         /\ disk # NoCheckpoint /\ disk.halted =>
              Entered(engine') \subseteq Entered(engine)
<1> DEFINE Goal == /\ MemoryExtendsDisk'
                   /\ disk # NoCheckpoint => Extends(disk', disk)
                   /\ disk # NoCheckpoint /\ disk.halted =>
                        Entered(engine') \subseteq Entered(engine)
<1>0. IInv /\ Sound(engine) /\ engine \in Engines
  BY DEF DInv, IInv, Sound
<1>1. StepCarries => Goal
  BY DEF StepCarries
<1>2. ASSUME engine' = engine, disk' = disk
      PROVE  StepCarries
  BY <1>2, CarriesReflexive DEF StepCarries, DInv, MemoryExtendsDisk, Carries
<1>3. CASE UNCHANGED vars \/ Tick
  BY <1>1, <1>2, <1>3 DEF vars, Tick
<1>4. CASE Restart
  <2>1. disk' = disk /\ engine' = IF disk = NoCheckpoint THEN Fresh(clock) ELSE disk
    BY <1>4 DEF Restart
  <2>2. Extends(disk, disk)
    BY CarriesReflexive DEF Carries
  <2>3. ASSUME disk # NoCheckpoint
        PROVE  Entered(disk) \subseteq Entered(engine)
    <3>1. Extends(engine, disk)
      BY <2>3 DEF DInv, MemoryExtendsDisk
    <3>2. \A d \in Decisions : disk.positions[d].state \in {"NONE", "OPEN", "CLOSED"}
      BY <2>3, <1>0 DEF IInv, Sound, Engines, PositionRecords
    <3>3. ASSUME NEW d \in Entered(disk)
          PROVE  d \in Decisions /\ engine.positions[d].state # "NONE"
      BY <3>1, <3>2 DEF Entered, Extends
    <3> QED
      BY <3>3 DEF Entered
  <2>4. StepCarries
    BY <2>1, <2>2, <2>3 DEF StepCarries, MemoryExtendsDisk
  <2> QED
    BY <2>4, <1>1
<1>5. CASE OnSnapshot
  <2>1. CASE OnStaleSnapshot
    BY <2>1, <1>0, <1>1, EnforceTimeoutSound, EnforceTimeoutCarries, CommitCarries
    DEF OnStaleSnapshot
  <2>2. ASSUME NEW m \in Moments, NEW quotes \in [Contracts -> QuoteOrNone],
               OnFreshSnapshot(m, quotes)
        PROVE  Goal
    <3>1. m \in Times
      BY DEF Moments
    <3>2. Sound(Managed(engine, m, quotes)) /\ Carries(Managed(engine, m, quotes), engine)
      BY <1>0, <3>1, ManagedSound, ManagedCarries
    <3>3. StepCarries
      BY <2>2, <3>2, CommitCarries DEF OnFreshSnapshot
    <3> QED
      BY <3>3, <1>1
  <2> QED
    BY <1>5, <2>1, <2>2 DEF OnSnapshot
<1>6. ASSUME NEW d \in Decisions, Execute(d)
      PROVE  Goal
  <2>1. \A m \in Moments : m \in Times
    BY DEF Moments
  <2>2. ASSUME NEW m \in Times
        PROVE  /\ Sound(Ready(m)) /\ Carries(Ready(m), engine)
               /\ Ready(m).seen = engine.seen /\ Ready(m).halted = engine.halted
    BY <1>0, RollSound, RollCarries, EngineConstants DEF Ready, RollTradingDay, Engines
  \* A rejection of a decision that was never seen, in a book that carries
  \* the one in memory on.
  <2>3. ASSUME NEW e, Sound(e), Carries(e, engine), d \notin e.seen,
               Commit(Rejected(e, d))
        PROVE  Goal
    <3>1. Sound(Rejected(e, d)) /\ Carries(Rejected(e, d), e)
      BY <2>3, RejectedSound, RejectedCarries
    <3>2. Carries(Rejected(e, d), engine)
      BY <2>3, <3>1, CarriesTransitive
    <3>3. StepCarries
      BY <2>3, <3>1, <3>2, CommitCarries
    <3> QED
      BY <3>3, <1>1
  <2>4. CASE ExecuteDuplicate(d)
    <3>1. StepCarries
      BY <2>4, <1>0, CarriesReflexive, CommitCarries DEF ExecuteDuplicate
    <3> QED
      BY <3>1, <1>1
  <2>5. CASE ExecuteNotApproved(d)
    <3> DEFINE f == [engine EXCEPT !.seen = engine.seen \cup {d}]
    <3>1. Commit(f)
      BY <2>5 DEF ExecuteNotApproved
    <3>2. /\ f \in Engines /\ f.positions = engine.positions
          /\ f.fills = engine.fills /\ f.holdings = engine.holdings
          /\ f.orders = engine.orders /\ engine.seen \subseteq f.seen
          /\ f.halted = engine.halted /\ f.unresolved = engine.unresolved
          /\ f.timeoutRecorded = engine.timeoutRecorded
          /\ f.startedAt = engine.startedAt
      BY <1>0 DEF Engines
    <3> HIDE DEF f
    <3>3. HaltsKept(f)
      BY <1>0, <3>2 DEF HaltsKept, Open, Sound
    <3>4. Sound(f) /\ Carries(f, engine)
      BY <1>0, <3>2, <3>3, FlagsSound, FlagsCarry
    <3>5. StepCarries
      BY <3>1, <3>4, CommitCarries
    <3> QED
      BY <3>5, <1>1
  <2>6. CASE ExecuteMismatch(d)
    BY <2>6, <2>3, <1>0, CarriesReflexive DEF ExecuteMismatch, New
  <2>7. CASE ExecuteTimedOut(d)
    <3>1. Sound(EnforceTimeout(engine)) /\ Carries(EnforceTimeout(engine), engine)
      BY <1>0, EnforceTimeoutSound, EnforceTimeoutCarries
    <3>2. d \notin EnforceTimeout(engine).seen
      BY <1>0, <2>7 DEF ExecuteTimedOut, New, EnforceTimeout, Engines
    <3> QED
      BY <3>1, <3>2, <2>3, <2>7 DEF ExecuteTimedOut
  <2>8. ASSUME NEW m \in Moments, ExecuteBlocked(d, m)
        PROVE  Goal
    BY <2>8, <2>1, <2>2, <2>3 DEF ExecuteBlocked, New
  <2>9. ASSUME NEW m \in Moments, ExecuteLossHalt(d, m)
        PROVE  Goal
    <3> DEFINE r == Ready(m)
               f == [r EXCEPT !.dailyHalt = TRUE]
    <3>1. Sound(r) /\ r \in Engines /\ d \notin r.seen /\ Carries(r, engine)
      BY <2>1, <2>2, <2>9 DEF ExecuteLossHalt, New, Sound
    <3>2. Commit(Rejected(f, d))
      BY <2>9 DEF ExecuteLossHalt
    <3> HIDE DEF r
    <3>3. /\ f \in Engines /\ f.positions = r.positions
          /\ f.fills = r.fills /\ f.holdings = r.holdings
          /\ f.orders = r.orders /\ f.seen = r.seen
          /\ f.halted = r.halted /\ f.unresolved = r.unresolved
          /\ f.timeoutRecorded = r.timeoutRecorded
          /\ f.startedAt = r.startedAt
      BY <3>1 DEF Engines
    <3> HIDE DEF f
    <3>4. HaltsKept(f)
      BY <3>1, <3>3 DEF HaltsKept, Open, Sound
    <3>5. Sound(f) /\ Carries(f, r)
      BY <3>1, <3>3, <3>4, FlagsSound, FlagsCarry
    <3>6. Carries(f, engine)
      BY <3>1, <3>5, CarriesTransitive
    <3> QED
      BY <3>1, <3>2, <3>3, <3>5, <3>6, <2>3
  <2>10. ASSUME NEW m \in Moments, NEW q \in QuoteOrNone, NEW usable \in BOOLEAN,
                ExecuteRefused(d, m, q, usable)
         PROVE  Goal
    BY <2>10, <2>1, <2>2, <2>3 DEF ExecuteRefused, Judged, New
  <2>11. ASSUME NEW m \in Moments, NEW q \in Quotes, ExecuteFilled(d, m, q)
         PROVE  Goal
    <3> DEFINE f == Filled(Ready(m), d, m, BuyPrice(q))
    <3>1. /\ Sound(Ready(m)) /\ d \notin Ready(m).seen /\ ~ Ready(m).halted
          /\ Carries(Ready(m), engine)
      BY <2>1, <2>2, <2>11 DEF ExecuteFilled, Judged, New, Blocked
    <3>2. ~ HasOpen(Ready(m), ContractOf[d]) /\ Occupied(Ready(m)) < MaxOpenPositions
      BY <2>11 DEF ExecuteFilled, Enterable
    <3>3. BuyPrice(q) \in Nat
      BY BuyPriceNat
    <3>4. Sound(f) /\ Extends(f, Ready(m))
      BY <3>1, <3>2, <3>3, <2>1, FilledSound, FilledExtends
    <3>5. Commit(f)
      BY <2>11 DEF ExecuteFilled
    <3> HIDE DEF f
    <3>6. Extends(f, engine)
      BY <3>1, <3>4, ExtendsTransitive DEF Carries
    <3>7. ~ engine.halted
      BY <3>1, <2>1, <2>2
    <3>8. disk # NoCheckpoint => ~ disk.halted
      BY <3>7 DEF DInv, MemoryExtendsDisk, Extends
    <3> QED
      BY <3>4, <3>5, <3>6, <3>8, CommitExtends
  <2> QED
    BY <1>6, <2>4, <2>5, <2>6, <2>7, <2>8, <2>9, <2>10, <2>11 DEF Execute
<1> QED
  BY <1>3, <1>4, <1>5, <1>6 DEF Next

\* The engine in memory is never behind its checkpoint.
THEOREM MemoryAhead == Spec => []MemoryExtendsDisk
<1>1. Init => DInv
  <2> SUFFICES ASSUME Init
               PROVE  DInv
    OBVIOUS
  <2>1. IInv
    <3>1. 0 \in Times /\ 0 \in 0..MaxFaults
      BY EngineConstants DEF Times
    <3> QED
      BY <3>1, FreshSound DEF Init, IInv
  <2> QED
    BY <2>1 DEF Init, DInv, MemoryExtendsDisk
<1>2. DInv /\ [Next]_vars => DInv'
  BY NextSound, StepExtends DEF DInv
<1>3. DInv => MemoryExtendsDisk
  BY DEF DInv
<1> QED
  BY <1>1, <1>2, <1>3, PTL DEF Spec

\* A checkpoint never takes back what an earlier one recorded.
THEOREM CheckpointsForward == Spec => DurableForward
<1>1. DInv /\ [Next]_vars => [disk # NoCheckpoint => Extends(disk', disk)]_vars
  BY StepExtends
<1>2. IInv /\ MemoryExtendsDisk => DInv
  BY DEF DInv
<1> QED
  BY <1>1, <1>2, Invariance, MemoryAhead, PTL DEF Spec, DurableForward

\* A halt that reached the disk stops entries for good.
THEOREM HaltsLast == Spec => NoEntryAfterHalt
<1>1. DInv /\ [Next]_vars =>
        [disk # NoCheckpoint /\ disk.halted =>
           Entered(engine') \subseteq Entered(engine)]_vars
  BY StepExtends
<1>2. IInv /\ MemoryExtendsDisk => DInv
  BY DEF DInv
<1> QED
  BY <1>1, <1>2, Invariance, MemoryAhead, PTL DEF Spec, NoEntryAfterHalt

-----------------------------------------------------------------------------
(* Nothing is dealt at a price from the future                             *)

CInv == Causal(engine) /\ (disk # NoCheckpoint => Causal(disk))

\* A close follows its entry and is dealt at a quote known by then.
LEMMA CloseAllCausal ==
  ASSUME NEW e, Sound(e), Causal(e), NEW m, NEW quotes, NEW why,
         CloseInput(m, quotes, why)
  PROVE  Causal(CloseAll(e, m, quotes, why))
<1> DEFINE f == CloseAll(e, m, quotes, why)
           done == Dealt(e, m, quotes, why)
           q(d) == quotes[ContractOf[d]]
<1>1. e \in Engines
  BY DEF Sound
<1>2. \A d \in Decisions : d \notin done =>
        f.positions[d] = e.positions[d] /\ f.fills[d] = e.fills[d]
  BY CloseAllFields
<1>3. ASSUME NEW d \in done
      PROVE  /\ f.positions[d].openedAt < f.positions[d].closedAt
             /\ f.fills[d].exitQuoteAt <= f.positions[d].closedAt
  <2>1. /\ d \in Decisions /\ q(d) \in Quotes /\ e.positions[d] \in PositionRecords
        /\ f.positions[d].openedAt = e.positions[d].openedAt
        /\ f.positions[d].closedAt = m
    BY CloseAllFields, ClosedRecord
  <2>2. m > e.positions[d].openedAt /\ KnownAt(q(d))
    BY DEF Dealt, Closable, Sellable
  <2>3. f.fills[d].exitQuoteAt = m - q(d).age
    BY CloseAllFields, <2>1
  <2>4. m \in Int /\ q(d).age \in Int /\ e.positions[d].openedAt \in Int
    BY <2>1, EngineConstants DEF CloseInput, Times, PositionRecords
  <2> HIDE DEF f, q
  <2> QED
    BY <2>1, <2>2, <2>3, <2>4 DEF KnownAt
<1> HIDE DEF f, done
<1> QED
  BY <1>2, <1>3 DEF Causal, Closed, f

\* on_snapshot keeps a book causal.
LEMMA ManagedCausal ==
  ASSUME NEW e, Sound(e), Causal(e), NEW m \in Times,
         NEW quotes \in [Contracts -> QuoteOrNone]
  PROVE  Causal(Managed(e, m, quotes))
<1> DEFINE a == EnforceTimeout(e)
           expired == [d \in Decisions |->
             IF d \in Open(a) /\ ExpiryDay[ContractOf[d]] < DayOf[m]
               THEN "EXPIRED" ELSE "NONE"]
           b == CloseAll(a, m, quotes, expired)
           c == MarkAll(b, m, quotes)
           late == [d \in Decisions |->
                      IF d \in Open(c) THEN "SESSION_TIMEOUT" ELSE "NONE"]
           tried == CloseAll(c, m, quotes, late)
           stuck == /\ CloseDue(SessionOf[m])
                    /\ \E d \in Open(c) : c.positions[d].mark = 0
           flagged == [c EXCEPT !.unresolved = c.unresolved \/ stuck,
                                !.halted = c.halted \/ stuck]
           why == [d \in Decisions |-> ExitReason(c, d, m)]
<1>1. Causal(a) /\ Sound(a)
  <2>1. a.positions = e.positions /\ a.fills = e.fills
    BY DEF EnforceTimeout, Sound, Engines
  <2> QED
    BY <2>1, EnforceTimeoutSound DEF Causal, Closed
<1>2. /\ CloseInput(m, quotes, expired)
      /\ CloseInput(m, quotes, late)
      /\ CloseInput(m, quotes, why)
  BY DEF CloseInput, Reasons, ExitReasons, Forced, ExitReason, ChooseExit
<1> HIDE DEF a, expired, late, why
<1>3. Causal(b) /\ Sound(b)
  BY <1>1, <1>2, CloseAllCausal, CloseAllSound
<1> HIDE DEF b
<1>4. Causal(c) /\ Sound(c)
  <2>1. /\ c.fills = b.fills
        /\ \A d \in Decisions :
             c.positions[d] = Marked(b.positions[d], m, quotes[ContractOf[d]])
    BY <1>3 DEF MarkAll, Sound, Engines
  <2>2. \A d \in Decisions :
          b.positions[d] \in PositionRecords /\ quotes[ContractOf[d]] \in QuoteOrNone
    BY <1>3, EngineConstants DEF Sound, Engines
  <2>3. \A d \in Decisions :
          /\ c.positions[d].state = b.positions[d].state
          /\ b.positions[d].state # "OPEN" => c.positions[d] = b.positions[d]
    BY <2>1, <2>2, MarkedRecord
  <2>4. Sound(c)
    BY <1>3, MarkAllSound
  <2> HIDE DEF c
  <2> QED
    BY <1>3, <2>1, <2>3, <2>4 DEF Causal, Closed
<1> HIDE DEF c
<1>5. Causal(RetryTimeoutCloses(c, m, quotes))
  <2>1. Causal(tried) /\ Sound(tried)
    BY <1>2, <1>4, CloseAllCausal, CloseAllSound
  <2>2. RetryTimeoutCloses(c, m, quotes) =
          IF Open(tried) = {}
            THEN [tried EXCEPT !.unresolved = FALSE,
                               !.halted = tried.halted \/ Open(c) # {}]
            ELSE tried
    BY DEF RetryTimeoutCloses, late
  <2> HIDE DEF tried
  <2>3. /\ RetryTimeoutCloses(c, m, quotes).positions = tried.positions
        /\ RetryTimeoutCloses(c, m, quotes).fills = tried.fills
    BY <2>1, <2>2 DEF Sound, Engines
  <2> QED
    BY <2>1, <2>3 DEF Causal, Closed
<1>6. Causal(RunExits(c, m, quotes))
  <2>1. RunExits(c, m, quotes) = CloseAll(flagged, m, quotes, why)
    BY <1>4 DEF RunExits, Sound, Engines, why
  <2>2. stuck \in BOOLEAN
    BY DEF CloseDue
  <2> HIDE DEF stuck
  <2>3. /\ flagged \in Engines /\ flagged.positions = c.positions
        /\ flagged.fills = c.fills /\ flagged.holdings = c.holdings
        /\ flagged.orders = c.orders /\ flagged.seen = c.seen
        /\ flagged.timeoutRecorded = c.timeoutRecorded
        /\ flagged.unresolved = (c.unresolved \/ stuck)
        /\ flagged.halted = (c.halted \/ stuck)
    BY <1>4, <2>2 DEF Sound, Engines
  <2> HIDE DEF flagged
  <2>4. HaltsKept(flagged)
    BY <1>4, <2>2, <2>3 DEF HaltsKept, Open, Sound
  <2>5. Sound(flagged) /\ Causal(flagged)
    BY <1>4, <2>3, <2>4, FlagsSound DEF Causal, Closed
  <2> QED
    BY <1>2, <2>1, <2>5, CloseAllCausal
<1> QED
  BY <1>5, <1>6 DEF Managed, Current, Exited, CloseExpired, a, b, c, expired

\* What execute does to a position: nothing, or it opens the one of the
\* decision it was given, at a moment whose closed trades allow it.
LEMMA ExecuteEnters ==
  ASSUME IInv, NEW d \in Decisions, Execute(d)
  PROVE  /\ disk' = engine' \/ disk' = disk
         /\ \A x \in Decisions :
              \/ /\ engine'.positions[x] = engine.positions[x]
                 /\ engine'.fills[x] = engine.fills[x]
              \/ /\ engine'.positions[x].state = "OPEN"
                 /\ NetResult(engine.positions, engine.fills,
                              DayOf[engine'.positions[x].openedAt]) >= -MaxDailyLoss
<1> DEFINE Goal == /\ disk' = engine' \/ disk' = disk
                   /\ \A x \in Decisions :
                        \/ /\ engine'.positions[x] = engine.positions[x]
                           /\ engine'.fills[x] = engine.fills[x]
                        \/ /\ engine'.positions[x].state = "OPEN"
                           /\ NetResult(engine.positions, engine.fills,
                                DayOf[engine'.positions[x].openedAt]) >= -MaxDailyLoss
<1>1. engine \in Engines
  BY DEF IInv, Sound
<1>2. ASSUME NEW f, Commit(f), f.positions = engine.positions, f.fills = engine.fills
      PROVE  Goal
  BY <1>2 DEF Commit
<1>3. \A m \in Moments : /\ Ready(m) \in Engines
                         /\ Ready(m).positions = engine.positions
                         /\ Ready(m).fills = engine.fills
  BY <1>1, EngineConstants DEF Ready, RollTradingDay, Engines, Moments
<1>4. ASSUME NEW e \in Engines
      PROVE  Rejected(e, d).positions = e.positions /\ Rejected(e, d).fills = e.fills
  BY <1>4 DEF Rejected, Engines
<1>5. CASE ExecuteDuplicate(d)
  BY <1>2, <1>5 DEF ExecuteDuplicate
<1>6. CASE ExecuteNotApproved(d)
  <2> DEFINE f == [engine EXCEPT !.seen = engine.seen \cup {d}]
  <2>1. Commit(f)
    BY <1>6 DEF ExecuteNotApproved
  <2>2. f.positions = engine.positions /\ f.fills = engine.fills
    BY <1>1 DEF Engines
  <2> HIDE DEF f
  <2> QED
    BY <1>2, <2>1, <2>2
<1>7. CASE ExecuteMismatch(d)
  BY <1>1, <1>2, <1>4, <1>7 DEF ExecuteMismatch
<1>8. CASE ExecuteTimedOut(d)
  <2> DEFINE f == EnforceTimeout(engine)
  <2>1. f \in Engines /\ f.positions = engine.positions /\ f.fills = engine.fills
    BY <1>1 DEF EnforceTimeout, Engines
  <2>2. Commit(Rejected(f, d))
    BY <1>8 DEF ExecuteTimedOut
  <2> HIDE DEF f
  <2> QED
    BY <1>2, <1>4, <2>1, <2>2
<1>9. ASSUME NEW m \in Moments, ExecuteBlocked(d, m)
      PROVE  Goal
  BY <1>2, <1>3, <1>4, <1>9 DEF ExecuteBlocked
<1>10. ASSUME NEW m \in Moments, ExecuteLossHalt(d, m)
       PROVE  Goal
  <2> DEFINE r == Ready(m)
             f == [r EXCEPT !.dailyHalt = TRUE]
  <2>1. Commit(Rejected(f, d))
    BY <1>10 DEF ExecuteLossHalt
  <2>2. r \in Engines /\ r.positions = engine.positions /\ r.fills = engine.fills
    BY <1>3
  <2> HIDE DEF r
  <2>3. f \in Engines /\ f.positions = engine.positions /\ f.fills = engine.fills
    BY <2>2 DEF Engines
  <2> HIDE DEF f
  <2> QED
    BY <1>2, <1>4, <2>1, <2>3
<1>11. ASSUME NEW m \in Moments, NEW q \in QuoteOrNone, NEW usable \in BOOLEAN,
              ExecuteRefused(d, m, q, usable)
       PROVE  Goal
  BY <1>2, <1>3, <1>4, <1>11 DEF ExecuteRefused
<1>12. ASSUME NEW m \in Moments, NEW q \in Quotes, ExecuteFilled(d, m, q)
       PROVE  Goal
  <2> DEFINE r == Ready(m)
             f == Filled(r, d, m, BuyPrice(q))
             b == GuardBook(r, d, m)
  <2>1. Commit(f)
    BY <1>12 DEF ExecuteFilled
  <2>2. r \in Engines /\ r.positions = engine.positions /\ r.fills = engine.fills
    BY <1>3
  <2>3. b.dailyPnl = NetResult(engine.positions, engine.fills, DayOf[m])
    BY <2>2 DEF GuardBook, DayRealized
  <2>4. b.dailyPnl >= -MaxDailyLoss
    BY <1>12 DEF ExecuteFilled, Enterable, Approves
  <2> HIDE DEF r, b
  <2>5. /\ f.positions[d].state = "OPEN" /\ f.positions[d].openedAt = m
        /\ \A x \in Decisions : x # d =>
             f.positions[x] = r.positions[x] /\ f.fills[x] = r.fills[x]
    BY <2>2 DEF Filled, OpenedAt, NoPosition, Engines
  <2> HIDE DEF f
  <2>6. engine' = f /\ (disk' = engine' \/ disk' = disk)
    BY <2>1 DEF Commit
  <2> QED
    BY <2>2, <2>3, <2>4, <2>5, <2>6
<1> QED
  BY <1>5, <1>6, <1>7, <1>8, <1>9, <1>10, <1>11, <1>12 DEF Execute

\* Every step keeps the book in memory and the one on disk causal.
LEMMA StepCausal ==
  ASSUME IInv, CInv, [Next]_vars
  PROVE  CInv'
<1>1. Causal(engine) /\ (disk # NoCheckpoint => Causal(disk)) /\ Sound(engine)
  BY DEF CInv, IInv
<1>2. ASSUME NEW f, Causal(f), engine' = f, disk' = f \/ disk' = disk
      PROVE  CInv'
  BY <1>1, <1>2 DEF CInv
<1>3. CASE UNCHANGED vars \/ Tick
  BY <1>1, <1>2, <1>3 DEF vars, Tick
<1>4. CASE Restart
  <2>1. Causal(Fresh(clock))
    BY DEF Causal, Closed, Fresh, NoPosition
  <2>2. disk' = disk /\ engine' = IF disk = NoCheckpoint THEN Fresh(clock) ELSE disk
    BY <1>4 DEF Restart
  <2> QED
    BY <1>1, <2>1, <2>2 DEF CInv
<1>5. ASSUME NEW d \in Decisions, Execute(d)
      PROVE  CInv'
  <2>1. Causal(engine')
    BY <1>1, <1>5, ExecuteEnters DEF Causal, Closed
  <2> QED
    BY <1>1, <1>5, <2>1, ExecuteEnters DEF CInv
<1>6. CASE OnSnapshot
  <2>1. CASE OnStaleSnapshot
    <3>1. /\ EnforceTimeout(engine).positions = engine.positions
          /\ EnforceTimeout(engine).fills = engine.fills
      BY <1>1 DEF EnforceTimeout, Sound, Engines
    <3>2. Causal(EnforceTimeout(engine))
      BY <1>1, <3>1 DEF Causal, Closed
    <3> QED
      BY <1>2, <2>1, <3>2 DEF OnStaleSnapshot, Commit
  <2>2. ASSUME NEW m \in Moments, NEW quotes \in [Contracts -> QuoteOrNone],
               OnFreshSnapshot(m, quotes)
        PROVE  CInv'
    <3>1. Causal(Managed(engine, m, quotes))
      BY <1>1, ManagedCausal DEF Moments
    <3> QED
      BY <1>2, <2>2, <3>1 DEF OnFreshSnapshot, Commit
  <2> QED
    BY <1>6, <2>1, <2>2 DEF OnSnapshot
<1> QED
  BY <1>3, <1>4, <1>5, <1>6 DEF Next

\* An exit follows its entry and uses a quote known when it was decided, in
\* memory and in what a restart would read.
THEOREM ExitsCausal == Spec => []CausalExits
<1>1. Init => CInv
  BY DEF Init, CInv, Causal, Closed, Fresh, NoPosition
<1>2. IInv /\ CInv /\ [Next]_vars => CInv'
  BY StepCausal
<1>3. CInv => CausalExits
  BY DEF CInv, CausalExits, Books
<1> QED
  BY <1>1, <1>2, <1>3, Invariance, PTL DEF Spec

\* No entry on a day whose closed trades already lost more than a day may.
THEOREM EntriesWithinDailyLoss == Spec => EntriesRespectDailyLoss
<1> DEFINE Within == \A d \in Entered(engine') \ Entered(engine) :
                       NetResult(engine.positions, engine.fills,
                         DayOf[engine'.positions[d].openedAt]) >= -MaxDailyLoss
<1>1. ASSUME DInv, [Next]_vars
      PROVE  [Within]_vars
  <2>1. CASE UNCHANGED vars \/ Tick
    BY <2>1 DEF vars, Tick, Entered
  <2>2. ASSUME NEW d \in Decisions, Execute(d)
        PROVE  Within
    BY <1>1, <2>2, ExecuteEnters DEF Entered, DInv
  <2>3. ASSUME engine' = IF disk = NoCheckpoint THEN Fresh(clock) ELSE disk
        PROVE  Entered(engine') \subseteq Entered(engine)
    <3>1. CASE disk = NoCheckpoint
      BY <2>3, <3>1 DEF Entered, Fresh, NoPosition
    <3>2. CASE disk # NoCheckpoint
      <4>1. Extends(engine, disk)
        BY <1>1, <3>2 DEF DInv, MemoryExtendsDisk
      <4>2. \A d \in Decisions : disk.positions[d].state \in {"NONE", "OPEN", "CLOSED"}
        BY <1>1, <3>2 DEF DInv, IInv, Sound, Engines, PositionRecords
      <4>3. ASSUME NEW d \in Entered(disk)
            PROVE  d \in Decisions /\ engine.positions[d].state # "NONE"
        BY <4>1, <4>2 DEF Entered, Extends
      <4> QED
        BY <2>3, <3>2, <4>3 DEF Entered
    <3> QED
      BY <3>1, <3>2
  <2>4. CASE Restart
    BY <2>3, <2>4 DEF Restart
  <2>5. CASE OnStaleSnapshot
    <3>1. Carries(EnforceTimeout(engine), engine)
      BY <1>1, EnforceTimeoutCarries DEF DInv, IInv
    <3> QED
      BY <2>5, <3>1 DEF OnStaleSnapshot, Commit, Carries
  <2>6. ASSUME NEW m \in Moments, NEW quotes \in [Contracts -> QuoteOrNone],
               OnFreshSnapshot(m, quotes)
        PROVE  Within
    <3>1. Carries(Managed(engine, m, quotes), engine)
      BY <1>1, ManagedCarries DEF DInv, IInv, Moments
    <3> QED
      BY <2>6, <3>1 DEF OnFreshSnapshot, Commit, Carries
  <2> QED
    BY <1>1, <2>1, <2>2, <2>4, <2>5, <2>6 DEF Next, OnSnapshot
<1>2. IInv /\ MemoryExtendsDisk => DInv
  BY DEF DInv
<1> QED
  BY <1>1, <1>2, Invariance, MemoryAhead, PTL DEF Spec, EntriesRespectDailyLoss

-----------------------------------------------------------------------------
(* The engine implements EngineLifecycle                                   *)

SavedState == IF disk = NoCheckpoint THEN [d \in Decisions |-> "new"] ELSE StateOf(disk)

\* A sound book shows one of the four outcomes for each decision.
LEMMA OutcomeCases ==
  ASSUME NEW e, Sound(e), NEW d \in Decisions
  PROVE  /\ d \notin e.seen => Outcome(e, d) = "new" /\ e.positions[d].state = "NONE"
         /\ e.positions[d].state = "OPEN" => d \in e.seen /\ Outcome(e, d) = "open"
         /\ e.positions[d].state = "CLOSED" => d \in e.seen /\ Outcome(e, d) = "closed"
         /\ d \in e.seen /\ e.positions[d].state = "NONE" => Outcome(e, d) = "refused"
         /\ e.positions[d].state \in {"NONE", "OPEN", "CLOSED"}
<1>1. /\ e.positions[d].state \in {"NONE", "OPEN", "CLOSED"}
      /\ e.orders[d] \in {"NONE", "REJECTED", "OPEN", "CLOSED", "EXPIRED"}
  BY DEF Sound, Engines, PositionRecords
<1>2. d \notin e.seen => e.positions[d].state = "NONE"
  BY <1>1 DEF Sound, OrderFollows
<1> QED
  BY <1>1, <1>2 DEF Outcome, Open, Closed, Entered

\* A new engine has judged nothing.
LEMMA FreshOutcomes ==
  ASSUME NEW t \in Times
  PROVE  StateOf(Fresh(t)) = [d \in Decisions |-> "new"]
<1>1. Fresh(t).seen = {}
  BY DEF Fresh
<1>2. Sound(Fresh(t))
  BY FreshSound
<1>3. \A d \in Decisions : Outcome(Fresh(t), d) = "new"
  BY <1>1, <1>2, OutcomeCases
<1> QED
  BY <1>3 DEF StateOf

\* What a checkpointed step shows outside.
LEMMA CommitKeeps ==
  ASSUME NEW f, Sound(f), Commit(f)
  PROVE  /\ StateOf(engine)' = StateOf(f)
         /\ SavedState' \in {StateOf(f), SavedState}
<1>1. engine' = f /\ (disk' = f \/ disk' = disk)
  BY DEF Commit
<1>2. StateOf(engine)' = StateOf(f)
  BY <1>1 DEF StateOf, Outcome, Open, Closed, Entered
<1>3. CASE disk' = disk
  <2>1. SavedState' = SavedState
    BY <1>3 DEF SavedState, StateOf, Outcome, Open, Closed, Entered
  <2> QED
    BY <1>2, <2>1
<1>4. CASE disk' = f
  <2>1. f # NoCheckpoint
    BY EngineConstants DEF Sound, Engines, NoCheckpoint, Times
  <2>2. StateOf(disk)' = StateOf(f)
    BY <1>4 DEF StateOf, Outcome, Open, Closed, Entered
  <2>3. SavedState' = StateOf(f)
    BY <1>4, <2>1, <2>2 DEF SavedState
  <2> QED
    BY <1>2, <2>3
<1> QED
  BY <1>1, <1>3, <1>4

\* A handler that judges no decision closes some positions, possibly none.
LEMMA StepCloses ==
  ASSUME NEW f, Sound(engine), Sound(f), Carries(f, engine), f.seen = engine.seen,
         Commit(f)
  PROVE  \E closed \in SUBSET Lifecycle!Opened : Lifecycle!Close(closed)
<1> DEFINE closed == {d \in Decisions : /\ engine.positions[d].state = "OPEN"
                                        /\ f.positions[d].state = "CLOSED"}
           s == [d \in Decisions |-> IF d \in closed THEN "closed"
                                                     ELSE StateOf(engine)[d]]
<1>1. closed \subseteq Lifecycle!Opened
  BY OutcomeCases DEF Lifecycle!Opened, StateOf
<1>2. ASSUME NEW d \in Decisions
      PROVE  Outcome(f, d) = s[d]
  <2>1. /\ engine.positions[d].state = "CLOSED" => f.positions[d].state = "CLOSED"
        /\ engine.positions[d].state = "OPEN" => f.positions[d].state # "NONE"
        /\ engine.positions[d].state = "NONE" => f.positions[d].state = "NONE"
    BY DEF Carries, Extends, Entered
  <2>2. d \in f.seen <=> d \in engine.seen
    OBVIOUS
  <2> QED
    BY <2>1, <2>2, OutcomeCases DEF StateOf
<1> HIDE DEF closed
<1>3. StateOf(f) = s
  BY <1>2 DEF StateOf
<1> HIDE DEF s
<1>4. StateOf(engine)' = s /\ SavedState' \in {s, SavedState}
  BY <1>3, CommitKeeps
<1>5. Lifecycle!Close(closed)
  BY <1>1, <1>4 DEF Lifecycle!Close, Lifecycle!Keep, SavedState, s
<1> QED
  BY <1>1, <1>5

\* A handler that judges decision d.
LEMMA StepJudges ==
  ASSUME NEW f, NEW d \in Decisions, Sound(engine), Sound(f),
         d \notin engine.seen, f.seen = engine.seen \cup {d},
         \A x \in Decisions : x # d =>
           f.positions[x].state = engine.positions[x].state,
         f.positions[d].state # "CLOSED",
         Commit(f)
  PROVE  Lifecycle!Execute(d)
<1> DEFINE outcome == Outcome(f, d)
           s == [StateOf(engine) EXCEPT ![d] = outcome]
<1>1. StateOf(engine)[d] = "new"
  BY OutcomeCases DEF StateOf
<1>2. outcome \in {"refused", "open"}
  BY OutcomeCases
<1>3. ASSUME NEW x \in Decisions, x # d
      PROVE  Outcome(f, x) = Outcome(engine, x)
  <2>1. x \in f.seen <=> x \in engine.seen
    BY <1>3
  <2> QED
    BY <1>3, <2>1, OutcomeCases
<1> HIDE DEF outcome
<1>4. StateOf(f) = s
  BY <1>3 DEF StateOf, outcome
<1>5. StateOf(engine)' = s /\ SavedState' \in {s, SavedState}
  BY <1>4, CommitKeeps
<1> QED
  BY <1>1, <1>2, <1>5 DEF Lifecycle!Execute, Lifecycle!Keep, SavedState

\* on_snapshot judges no decision.
LEMMA ManagedSeen ==
  ASSUME NEW e, Sound(e), NEW m \in Times,
         NEW quotes \in [Contracts -> QuoteOrNone]
  PROVE  Managed(e, m, quotes).seen = e.seen
<1>0. \A f \in Engines : /\ EnforceTimeout(f).seen = f.seen
                         /\ MarkAll(f, m, quotes).seen = f.seen
                         /\ \A why : CloseAll(f, m, quotes, why).seen = f.seen
  BY DEF EnforceTimeout, MarkAll, CloseAll, Engines
<1> DEFINE a == EnforceTimeout(e)
           b == CloseExpired(a, m, quotes)
           c == MarkAll(b, m, quotes)
<1>1. Sound(a) /\ Sound(b) /\ Sound(c)
  BY EnforceTimeoutSound, CloseExpiredSound, MarkAllSound
<1>2. a \in Engines /\ b \in Engines /\ c \in Engines
  BY <1>1 DEF Sound
<1>3. a.seen = e.seen /\ b.seen = a.seen /\ c.seen = b.seen
  BY <1>0, <1>2 DEF Sound, CloseExpired
<1> HIDE DEF a, b, c
<1>4. RunExits(c, m, quotes).seen = c.seen
  <2> DEFINE stuck == /\ CloseDue(SessionOf[m])
                      /\ \E d \in Open(c) : c.positions[d].mark = 0
             flagged == [c EXCEPT !.unresolved = c.unresolved \/ stuck,
                                  !.halted = c.halted \/ stuck]
             why == [d \in Decisions |-> ExitReason(c, d, m)]
  <2>1. RunExits(c, m, quotes) = CloseAll(flagged, m, quotes, why)
    BY <1>2 DEF RunExits, Engines
  <2>2. stuck \in BOOLEAN
    BY DEF CloseDue
  <2> HIDE DEF stuck, why
  <2>3. flagged \in Engines /\ flagged.seen = c.seen
    BY <1>2, <2>2 DEF Engines
  <2> HIDE DEF flagged
  <2> QED
    BY <1>0, <2>1, <2>3
<1>5. RetryTimeoutCloses(c, m, quotes).seen = c.seen
  <2> DEFINE why == [d \in Decisions |->
                       IF d \in Open(c) THEN "SESSION_TIMEOUT" ELSE "NONE"]
             tried == CloseAll(c, m, quotes, why)
  <2>1. RetryTimeoutCloses(c, m, quotes) =
          IF Open(tried) = {}
            THEN [tried EXCEPT !.unresolved = FALSE,
                               !.halted = tried.halted \/ Open(c) # {}]
            ELSE tried
    BY DEF RetryTimeoutCloses
  <2>2. CloseInput(m, quotes, why)
    BY DEF CloseInput, Reasons, ExitReasons, Forced
  <2> HIDE DEF why
  <2>3. Sound(tried) /\ tried.seen = c.seen
    BY <1>0, <1>1, <1>2, <2>2, CloseAllSound
  <2> HIDE DEF tried
  <2>4. tried \in Engines
    BY <2>3 DEF Sound
  <2> QED
    BY <2>1, <2>3, <2>4 DEF Engines
<1> QED
  BY <1>3, <1>4, <1>5 DEF Managed, Current, Exited, a, b, c

-----------------------------------------------------------------------------
(* The steps of the engine                                                 *)

\* A rejection of a new decision, in a book that shows the same outcomes.
LEMMA RejectedJudges ==
  ASSUME NEW e, NEW d \in Decisions, Sound(engine), Sound(e),
         e.seen = engine.seen, e.positions = engine.positions,
         d \notin engine.seen, Commit(Rejected(e, d))
  PROVE  Lifecycle!Execute(d)
<1> DEFINE f == Rejected(e, d)
<1>1. Sound(f)
  BY RejectedSound
<1>2. f.seen = engine.seen \cup {d} /\ f.positions = engine.positions
  BY DEF Rejected, Sound, Engines
<1>3. engine.positions[d].state = "NONE"
  BY OutcomeCases
<1> HIDE DEF f
<1> QED
  BY <1>1, <1>2, <1>3, StepJudges DEF f

\* Each way execute can end judges the decision or, when it was judged before,
\* changes nothing.
LEMMA ExecuteMaps ==
  ASSUME IInv, NEW d \in Decisions, Execute(d)
  PROVE  Lifecycle!Next
<1>0. Sound(engine) /\ engine \in Engines
  BY DEF IInv, Sound
<1>1. Lifecycle!Execute(d) => Lifecycle!Next
  BY DEF Lifecycle!Next
<1>2. \A m \in Moments : m \in Times
  BY DEF Moments
<1>3. ASSUME NEW m \in Times
      PROVE  /\ Sound(Ready(m)) /\ Ready(m).seen = engine.seen
             /\ Ready(m).positions = engine.positions
  BY <1>0, RollSound, EngineConstants DEF Ready, RollTradingDay, Engines
<1>4. CASE ExecuteDuplicate(d)
  BY <1>4, <1>0, CarriesReflexive, StepCloses DEF ExecuteDuplicate, Lifecycle!Next
<1>5. CASE ExecuteNotApproved(d)
  <2> DEFINE f == [engine EXCEPT !.seen = engine.seen \cup {d}]
  <2>1. Commit(f) /\ d \notin engine.seen
    BY <1>5 DEF ExecuteNotApproved
  <2>2. /\ f \in Engines /\ f.positions = engine.positions
        /\ f.fills = engine.fills /\ f.holdings = engine.holdings
        /\ f.orders = engine.orders /\ f.seen = engine.seen \cup {d}
        /\ f.halted = engine.halted /\ f.unresolved = engine.unresolved
        /\ f.timeoutRecorded = engine.timeoutRecorded
        /\ f.startedAt = engine.startedAt
    BY <1>0 DEF Engines
  <2> HIDE DEF f
  <2>3. HaltsKept(f)
    BY <1>0, <2>2 DEF HaltsKept, Open, Sound
  <2>4. Sound(f)
    BY <1>0, <2>2, <2>3, FlagsSound
  <2>5. engine.positions[d].state = "NONE"
    BY <1>0, <2>1, OutcomeCases
  <2> QED
    BY <1>0, <1>1, <2>1, <2>2, <2>4, <2>5, StepJudges
<1>6. CASE ExecuteMismatch(d)
  BY <1>6, <1>0, <1>1, RejectedJudges DEF ExecuteMismatch, New
<1>7. CASE ExecuteTimedOut(d)
  <2>1. /\ Sound(EnforceTimeout(engine))
        /\ EnforceTimeout(engine).seen = engine.seen
        /\ EnforceTimeout(engine).positions = engine.positions
    BY <1>0, EnforceTimeoutSound DEF EnforceTimeout, Engines
  <2> QED
    BY <2>1, <1>7, <1>0, <1>1, RejectedJudges DEF ExecuteTimedOut, New
<1>8. ASSUME NEW m \in Moments, ExecuteBlocked(d, m)
      PROVE  Lifecycle!Next
  BY <1>8, <1>0, <1>1, <1>2, <1>3, RejectedJudges DEF ExecuteBlocked, New
<1>9. ASSUME NEW m \in Moments, ExecuteLossHalt(d, m)
      PROVE  Lifecycle!Next
  <2> DEFINE r == Ready(m)
             f == [r EXCEPT !.dailyHalt = TRUE]
  <2>1. /\ Sound(r) /\ r \in Engines /\ d \notin engine.seen
        /\ r.seen = engine.seen /\ r.positions = engine.positions
    BY <1>2, <1>3, <1>9 DEF ExecuteLossHalt, New, Sound
  <2>2. Commit(Rejected(f, d))
    BY <1>9 DEF ExecuteLossHalt
  <2> HIDE DEF r
  <2>3. /\ f \in Engines /\ f.positions = r.positions
        /\ f.fills = r.fills /\ f.holdings = r.holdings
        /\ f.orders = r.orders /\ f.seen = r.seen
        /\ f.halted = r.halted /\ f.unresolved = r.unresolved
        /\ f.timeoutRecorded = r.timeoutRecorded
        /\ f.startedAt = r.startedAt
    BY <2>1 DEF Engines
  <2> HIDE DEF f
  <2>4. HaltsKept(f)
    BY <2>1, <2>3 DEF HaltsKept, Open, Sound
  <2>5. Sound(f)
    BY <2>1, <2>3, <2>4, FlagsSound
  <2> QED
    BY <1>0, <1>1, <2>1, <2>2, <2>3, <2>5, RejectedJudges
<1>10. ASSUME NEW m \in Moments, NEW q \in QuoteOrNone, NEW usable \in BOOLEAN,
              ExecuteRefused(d, m, q, usable)
       PROVE  Lifecycle!Next
  BY <1>10, <1>0, <1>1, <1>2, <1>3, RejectedJudges DEF ExecuteRefused, Judged, New
<1>11. ASSUME NEW m \in Moments, NEW q \in Quotes, ExecuteFilled(d, m, q)
       PROVE  Lifecycle!Next
  <2> DEFINE r == Ready(m)
             f == Filled(r, d, m, BuyPrice(q))
  <2>1. /\ Sound(r) /\ d \notin r.seen /\ ~ r.halted
        /\ r.seen = engine.seen /\ r.positions = engine.positions
    BY <1>2, <1>3, <1>11 DEF ExecuteFilled, Judged, New, Blocked
  <2>2. ~ HasOpen(r, ContractOf[d]) /\ Occupied(r) < MaxOpenPositions
    BY <1>11 DEF ExecuteFilled, Enterable
  <2>3. Commit(f)
    BY <1>11 DEF ExecuteFilled
  <2> HIDE DEF r
  <2>4. Sound(f)
    BY <2>1, <2>2, <1>2, BuyPriceNat, FilledSound
  <2>5. /\ f.seen = r.seen \cup {d} /\ f.positions[d].state = "OPEN"
        /\ \A x \in Decisions : x # d =>
             f.positions[x].state = r.positions[x].state
    BY <2>1 DEF Filled, OpenedAt, NoPosition, Sound, Engines
  <2> HIDE DEF f
  <2> QED
    BY <1>0, <1>1, <2>1, <2>3, <2>4, <2>5, StepJudges
<1> QED
  BY <1>4, <1>5, <1>6, <1>7, <1>8, <1>9, <1>10, <1>11 DEF Execute

\* Every step of the engine is a step of the lifecycle or leaves it alone.
LEMMA StepMaps ==
  ASSUME IInv, [Next]_vars
  PROVE  [Lifecycle!Next]_<<StateOf(engine), SavedState>>
<1>0. Sound(engine) /\ engine \in Engines
  BY DEF IInv, Sound
<1>1. CASE UNCHANGED vars \/ Tick
  <2>1. engine' = engine /\ disk' = disk
    BY <1>1 DEF vars, Tick
  <2>2. StateOf(engine)' = StateOf(engine)
    BY <2>1 DEF StateOf, Outcome, Open, Closed, Entered
  <2>3. SavedState' = SavedState
    BY <2>1 DEF SavedState, StateOf, Outcome, Open, Closed, Entered
  <2> QED
    BY <2>2, <2>3
<1>2. CASE \E d \in Decisions : Execute(d)
  BY <1>2, ExecuteMaps
<1>3. CASE OnSnapshot
  <2>1. CASE OnStaleSnapshot
    <3>1. EnforceTimeout(engine).seen = engine.seen
      BY <1>0 DEF EnforceTimeout, Engines
    <3> QED
      BY <2>1, <3>1, <1>0, EnforceTimeoutSound, EnforceTimeoutCarries, StepCloses
      DEF OnStaleSnapshot, Lifecycle!Next
  <2>2. ASSUME NEW m \in Moments, NEW quotes \in [Contracts -> QuoteOrNone],
               OnFreshSnapshot(m, quotes)
        PROVE  Lifecycle!Next
    <3> DEFINE f == Managed(engine, m, quotes)
    <3>1. m \in Times
      BY DEF Moments
    <3>2. Sound(f) /\ Carries(f, engine) /\ f.seen = engine.seen
      BY <1>0, <3>1, ManagedSound, ManagedCarries, ManagedSeen
    <3>3. Commit(f)
      BY <2>2 DEF OnFreshSnapshot
    <3> HIDE DEF f
    <3> QED
      BY <1>0, <3>2, <3>3, StepCloses DEF Lifecycle!Next
  <2> QED
    BY <1>3, <2>1, <2>2 DEF OnSnapshot
<1>4. CASE Restart
  <2>1. disk' = disk /\ engine' = IF disk = NoCheckpoint THEN Fresh(clock) ELSE disk
    BY <1>4 DEF Restart
  <2>2. StateOf(Fresh(clock)) = [d \in Decisions |-> "new"]
    BY FreshOutcomes DEF IInv
  <2>3. StateOf(engine)' = SavedState
    <3>1. CASE disk = NoCheckpoint
      <4>1. StateOf(engine)' = StateOf(Fresh(clock))
        BY <2>1, <3>1 DEF StateOf, Outcome, Open, Closed, Entered
      <4> QED
        BY <4>1, <2>2, <3>1 DEF SavedState
    <3>2. CASE disk # NoCheckpoint
      <4>0. engine' = disk
        BY <2>1, <3>2
      <4>1. StateOf(engine)' = StateOf(disk)
        BY <4>0 DEF StateOf, Outcome, Open, Closed, Entered
      <4> QED
        BY <4>1, <3>2 DEF SavedState
    <3> QED
      BY <3>1, <3>2
  <2>4. SavedState' = SavedState
    BY <2>1 DEF SavedState, StateOf, Outcome, Open, Closed, Entered
  <2> QED
    BY <2>3, <2>4 DEF Lifecycle!Next, Lifecycle!Restart, SavedState
<1> QED
  BY <1>1, <1>2, <1>3, <1>4 DEF Next

\* The paper engine is the engine its callers rely on (EngineLifecycle).
THEOREM EngineImplementsLifecycle == Spec => LifecycleKept
<1>1. Init => Lifecycle!Init
  <2> SUFFICES ASSUME Init
               PROVE  Lifecycle!Init
    OBVIOUS
  <2>1. StateOf(Fresh(0)) = [d \in Decisions |-> "new"]
    BY FreshOutcomes, EngineConstants DEF Times
  <2> QED
    BY <2>1 DEF Init, Lifecycle!Init, Lifecycle!New
<1>2. IInv /\ [Next]_vars => [Lifecycle!Next]_<<StateOf(engine), SavedState>>
  BY StepMaps
<1> QED
  BY <1>1, <1>2, Invariance, PTL DEF Spec, LifecycleKept, Lifecycle!Spec, SavedState

=============================================================================
