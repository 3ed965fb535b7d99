----------------------------- MODULE HistoryStore ------------------------------
(***************************************************************************)
(* A historical dataset (grow/history/store.py, quality.py) and what of it *)
(* is known at a moment: the bars and quotes of the bridge to the market   *)
(* and option sources (bridge.py, calendar.py), the label an evaluation    *)
(* over it gets (grow/validation/labels.py) and the snapshot the           *)
(* specialists of a historical cycle share (grow/validation/historical.py).*)
(* All of it is pure.                                                      *)
(*                                                                         *)
(* A store is a record                                                     *)
(*   [published, fixture, synthetic, scope, sample, metadata, license,     *)
(*    status, instruments, calendar, claims, cadence, sessions, master,    *)
(*    quotes, bars]:                                                       *)
(* sessions gives of some days [status, open, close]; master of some       *)
(* contracts [first, last, lot], when it was listed and its lot size;      *)
(* quotes is a set of [contract, at, known, bid, ask, ltp, volume, oi,     *)
(* flagged], known being when it became available; bars a set of           *)
(* [index, frame, start, end, known, low, high, close].  claims says of    *)
(* which columns the vendor promises them, instruments which indices are   *)
(* in it, calendar whether its sessions come from a real one, cadence at   *)
(* which moments of a day there are snapshots.  A missing price, size or   *)
(* lot is 0.                                                               *)
(*                                                                         *)
(* A moment is an integer; DayLength of them make a day.  Prices are       *)
(* integers in ticks of 0.05.                                              *)
(*                                                                         *)
(* Left out: implied volatility, Greeks, ids and fingerprints and the      *)
(* quality notes of the bars.                                              *)
(*                                                                         *)
(* An operator X_fault is X with a programming error; nothing uses it.     *)
(***************************************************************************)
EXTENDS AgentSnapshot

CONSTANTS
  Stores,           \* the datasets
  DayLength,        \* moments of a day
  CloseWindow,      \* the last fifteen minutes of a session
  DecisionOffset,   \* 11:00
  Precision         \* a completeness is a multiple of its inverse: 10000

Scopes == {"FRAMEWORK_TEST_ONLY", "ADAPTER_TESTING", "HISTORICAL_RESEARCH"}
Frames == {"M15", "D1"}
Columns == {"BID_ASK", "OI", "VOLUME"}

DateAt(t) == t \div DayLength

MomentOf(day, offset) == day * DayLength + offset

-----------------------------------------------------------------------------
(* What a store accepts                                                    *)

\* validate_bar: a bar can be available before it ends.
ValidBar(b) ==
  /\ b.frame \in Frames
  /\ 0 < b.low /\ b.low <= b.close /\ b.close <= b.high
  /\ b.start <= b.known
  /\ b.start <= b.end

\* validate_contract
ValidListing(l) == l.first <= l.last /\ l.lot \in Nat

\* validate_quote, and add_quote's look into the contracts.
ValidHistoryQuote(q, store) ==
  /\ q.at <= q.known
  /\ ~ (HasBoth(q) /\ q.bid > q.ask)
  /\ q.contract \in DOMAIN store.master

\* validate_session: neither that it opens before it closes nor that it does so
\* on its day.
ValidSession(s) == s.status \in {"OPEN", "CLOSED"}

\* The store's constructor, and its add_ operations with their duplicates.
ValidStore(store) ==
  /\ store.scope \in Scopes /\ store.claims \subseteq Columns
  /\ \A day \in DOMAIN store.sessions : ValidSession(store.sessions[day])
  /\ \A c \in DOMAIN store.master : ValidListing(store.master[c])
  /\ \A q \in store.quotes :
       /\ ValidHistoryQuote(q, store)
       /\ \A p \in store.quotes \ {q} : <<p.contract, p.at>> # <<q.contract, q.at>>
  /\ \A b \in store.bars :
       /\ ValidBar(b)
       /\ \A a \in store.bars \ {b} :
            <<a.index, a.frame, a.start>> # <<b.index, b.frame, b.start>>

\* What a store is made of.
StoreNumbers(store) ==
  /\ IsFiniteSet(store.quotes) /\ IsFiniteSet(store.bars)
  /\ IsFiniteSet(DOMAIN store.master) /\ IsFiniteSet(store.cadence)
  /\ IsFiniteSet(DOMAIN store.sessions) /\ store.fixture \in BOOLEAN
  /\ DOMAIN store.sessions \subseteq Nat /\ store.cadence \subseteq Nat
  /\ DOMAIN store.master \subseteq Listed
  /\ \A c \in DOMAIN store.master :
       {store.master[c].first, store.master[c].last} \subseteq Int
  /\ \A q \in store.quotes : /\ {q.at, q.known} \subseteq Int
                             /\ {q.bid, q.ask, q.ltp, q.volume, q.oi} \subseteq Nat
                             /\ q.flagged \in BOOLEAN
  /\ \A b \in store.bars :
       {b.start, b.end, b.known, b.low, b.high, b.close} \subseteq Int

ASSUME StoresAreValid ==
  /\ {CloseWindow, DecisionOffset, DayLength} \subseteq Nat
  /\ DecisionOffset < DayLength /\ Precision \in Nat \ {0}
  /\ \A s \in Stores : ValidStore(s) /\ StoreNumbers(s)

-----------------------------------------------------------------------------
(* What is known at a moment                                               *)

OpenDays(store) ==
  {day \in DOMAIN store.sessions : store.sessions[day].status = "OPEN"}

ListedWhen(store, c, t) == store.master[c].first <= t /\ t <= store.master[c].last

\* contracts_at
ListedAt(store, index, t) ==
  {c \in DOMAIN store.master : UnderlyingOf[c] = index /\ ListedWhen(store, c, t)}

\* bars_at
BarsAt(store, index, frame, t) ==
  {b \in store.bars : /\ b.index = index /\ b.frame = frame
                      /\ b.known <= t /\ b.end <= t}

\* A quote counts from when it was taken, not from when it was available.
KnownQuotes_fault(store, c, t) ==
  {q \in store.quotes : q.contract = c /\ q.at <= t /\ ListedWhen(store, c, q.at)}

KnownQuotes(store, c, t) ==
  {q \in store.quotes : /\ q.contract = c
                        /\ q.known <= t /\ q.at <= t
                        /\ ListedWhen(store, c, q.at)}

\* snapshot_quotes: of each contract listed now the latest quote.
QuotesAt(store, index, t) ==
  [c \in {d \in ListedAt(store, index, t) : KnownQuotes(store, d, t) # {}} |->
     CHOOSE q \in KnownQuotes(store, c, t) :
       \A p \in KnownQuotes(store, c, t) : p.at <= q.at]

LastOf(bars) == CHOOSE b \in bars : \A a \in bars : a.start <= b.start

\* HistoricalMarketSource.snapshot: the last close of the fifteen minutes, else
\* of the days.  The bar it forms of today has the close of the former.
LastPrice(store, index, t) ==
  LET quarters == BarsAt(store, index, "M15", t)
      daily == BarsAt(store, index, "D1", t)
  IN CASE quarters # {} -> LastOf(quarters).close
       [] quarters = {} /\ daily # {} -> LastOf(daily).close
       [] OTHER -> 0

\* session_state_at of a weekday in the dataset
StoreSession(store, t) ==
  LET s == store.sessions[DateAt(t)]
  IN CASE s.status = "CLOSED" \/ t >= s.close -> "CLOSED"
       [] s.status = "OPEN" /\ t < s.open -> "PRE_OPEN"
       [] s.status = "OPEN" /\ s.close - CloseWindow <= t /\ t < s.close ->
            "SQUARE_OFF_WINDOW"
       [] OTHER -> "OPEN"

\* The market source does not raise: the day is in the dataset, and there is a
\* price.
PriceKnown(store, index, t) ==
  DateAt(t) \in DOMAIN store.sessions /\ LastPrice(store, index, t) > 0

\* HistoricalOptionSource.snapshot leaves expired contracts out and raises
\* when nothing is left.
ChainAt(store, index, t) ==
  {c \in DOMAIN QuotesAt(store, index, t) : ExpiryOf[c] >= DateAt(t)}

Readable(store, index, t) ==
  PriceKnown(store, index, t) /\ ChainAt(store, index, t) # {}

-----------------------------------------------------------------------------
(* Coverage and quality                                                    *)

\* The moments of the open sessions; the cadence of a day that is outside of
\* its session is none.
SlotsOf(store, cadence) ==
  {t \in {MomentOf(day, o) : day \in OpenDays(store), o \in cadence} :
     LET s == store.sessions[DateAt(t)] IN s.open <= t /\ t <= s.close}

ExpectedQuotes(store) ==
  {s \in (DOMAIN store.master) \X SlotsOf(store, store.cadence) :
     ListedWhen(store, s[1], s[2])}

ObservedQuotes(store) ==
  ExpectedQuotes(store) \cap {<<q.contract, q.at>> : q \in store.quotes}

ActualSessions(store) == OpenDays(store) \cap {DateAt(b.start) : b \in store.bars}

\* _ratio is below one: more are missing than rounding forgives, half a unit
\* being rounded up; of none at all it is zero.
BelowOne(count, total) ==
  total = 0 \/ 2 * Precision * (total - count) > total

Incomplete(store, column) ==
  LET has(q) == CASE column = "BID_ASK" -> HasBoth(q)
                  [] column = "OI" -> q.oi > 0
                  [] OTHER -> q.volume > 0
  IN /\ column \in store.claims
     /\ BelowOne(Cardinality({q \in store.quotes : has(q)}), Cardinality(store.quotes))

\* The warnings of apply_quality_gate
Warnings(store) ==
  {w \in {"MISSING_SESSIONS", "OPTION_SNAPSHOT_GAPS"} \cup Columns :
     CASE w = "MISSING_SESSIONS" -> ActualSessions(store) # OpenDays(store)
       [] w = "OPTION_SNAPSHOT_GAPS" ->
            BelowOne(Cardinality(ObservedQuotes(store)),
                     Cardinality(ExpectedQuotes(store)))
       [] OTHER -> Incomplete(store, w)}

\* apply_quality_gate, when the store is published; a draft until then.
QualityStatus(store) ==
  IF ~ store.published THEN "DRAFT"
  ELSE IF store.fixture \/ store.scope = "FRAMEWORK_TEST_ONLY" THEN "SYNTHETIC"
  ELSE IF ObservedQuotes(store) = {} \/ ActualSessions(store) = {} THEN "REJECTED"
  ELSE IF Warnings(store) # {} THEN "APPROVED_WITH_WARNINGS" ELSE "APPROVED"

-----------------------------------------------------------------------------
(* Labels                                                                  *)

\* classify_store_evaluation_label; "UNCLASSIFIED" stands for its exception.
DerivedLabel(store) ==
  IF store.fixture \/ store.scope = "FRAMEWORK_TEST_ONLY"
    THEN IF QualityStatus(store) = "SYNTHETIC" \/ store.synthetic
           THEN "SYNTHETIC" ELSE "FIXTURE"
  ELSE IF store.scope = "ADAPTER_TESTING" \/ store.sample THEN "SYNTHETIC"
  ELSE IF store.scope = "HISTORICAL_RESEARCH" THEN "HISTORICAL"
  ELSE "UNCLASSIFIED"

ReadyStatuses == {"QUALIFIED", "APPROVED_FOR_2E"}

\* The record of a qualification [status, ofStore] must be of this dataset;
\* without one it is the status the dataset itself states.
NoRecord == [status |-> "NONE", ofStore |-> FALSE]

QualifiedBy(store, record) ==
  IF record = NoRecord THEN store.status \in ReadyStatuses
  ELSE record.ofStore /\ record.status \in ReadyStatuses

\* require_historical_evaluation_dataset.  It does not ask for the quality: a
\* dataset the quality gate rejected passes.
MayEvaluate(store, record) ==
  /\ DerivedLabel(store) = "HISTORICAL"
  /\ store.published
  /\ store.metadata
  /\ QualifiedBy(store, record)

-----------------------------------------------------------------------------
(* The snapshot of a historical cycle                                      *)

\* A row is OK however old its quote is.
HistoricalRow(store, q, t) ==
  [bid |-> q.bid, ask |-> q.ask, ltp |-> q.ltp, volume |-> q.volume,
   oi |-> q.oi, class |-> ClassOf[q.contract],
   lot |-> store.master[q.contract].lot, age |-> t - q.at,
   fixture |-> store.fixture \/ q.flagged, ok |-> TRUE]

\* build_historical_agent_snapshot, of a moment that is Readable: one index,
\* whose view is its last price, without a history.
HistoricalSnapshot(store, index, t) ==
  LET spot == LastPrice(store, index, t)
      quotes == QuotesAt(store, index, t)
  IN Sealed([at |-> t, today |-> DateAt(t), quality |-> "OK", health |-> "NONE",
             source |-> "LIVE", fresh |-> TRUE,
             under |-> [u \in {index} |->
                          [ltp |-> spot, open |-> 0, high |-> 0, low |-> 0,
                           close |-> spot, age |-> 0]],
             rows |-> [c \in ChainAt(store, index, t) |->
                         HistoricalRow(store, quotes[c], t)],
             closes |-> <<>>, shared |-> NoCloses])

\* decision_slots: a dataset without a cadence has one slot a day.
DecisionSlots(store) ==
  SlotsOf(store, IF store.cadence = {} THEN {DecisionOffset} ELSE store.cadence)

\* assert_historical_not_today raises: today's contracts, of which none is in
\* the universe.
TodayInstead(universe, today) == today # {} /\ universe \cap today = {}
=============================================================================
