---------------------------- MODULE AgentSnapshot ----------------------------
(***************************************************************************)
(* The snapshot all specialists of a cycle share (grow/market_data/): how  *)
(* it is built from a live feed, from Kite's quote pages or for a fixture, *)
(* where its quotes come from, and whether they may be traded on.  All of  *)
(* it is pure.                                                             *)
(*                                                                         *)
(* What a builder is given is a market, a record                           *)
(*   [event, fresh, under, chains, quotes, closes]:                        *)
(* the time it was taken and whether the feed was fresh; of some indices a *)
(* view [ltp, open, high, low, close, at]; of some a chain, TRUE when it   *)
(* is a fixture's; of some contracts a quote [bid, ask, ltp, volume, oi,   *)
(* at, flagged, class, lot]; of some indices the closes of their bars.     *)
(* A missing price is 0.  Prices are integers in ticks of 0.05.            *)
(*                                                                         *)
(* A snapshot is a record [at, today, quality, health, source, fresh,      *)
(* under, rows, closes, shared]: views and rows have an age instead of a   *)
(* time, closes are by index, and shared are closes of no stated index.    *)
(* health is "NONE" when the builder states none.                          *)
(*                                                                         *)
(* Left out: ids, notes and digests, and the JSON of the quote pages.      *)
(*                                                                         *)
(* An operator X_fault is X with a programming error; nothing uses it.     *)
(***************************************************************************)
EXTENDS OptionsEngine, Sequences

CONSTANTS
  IndexList,        \* the indices in the order they are configured
  MaxAgentAge,      \* max_quote_age_seconds of build_agent_snapshot
  CampaignWindow,   \* STRIKE_WINDOW of the campaign's own snapshot
  HistoryMin,       \* HISTORY_MIN_CLOSES
  HistoryTarget     \* HISTORY_TARGET_BARS

Sources == {"FIXTURE", "LIVE", "MIXED"}
Qualities == {"OK", "STALE", "INSUFFICIENT", "REJECTED"}
Healths == {"HEALTHY", "DEGRADED", "STALE", "DISCONNECTED", "FAILED"}

ASSUME SnapshotParameters ==
  /\ \A i \in DOMAIN IndexList : ProfileFor[IndexList[i]] \in Profiles
  /\ {MaxAgentAge, CampaignWindow, HistoryMin, HistoryTarget} \subseteq Nat

NoCloses == <<>>

-----------------------------------------------------------------------------
(* Provenance                                                              *)

\* Rows of a fixture beside rows of a feed count as the feed's.
ClassifyFixtureFlags_fault(flags) ==
  IF flags = {TRUE} THEN "FIXTURE" ELSE "LIVE"

\* classify_fixture_flags: of no rows at all it says LIVE.
ClassifyFixtureFlags(flags) ==
  CASE flags = {TRUE} -> "FIXTURE"
    [] flags = {TRUE, FALSE} -> "MIXED"
    [] OTHER -> "LIVE"

FlagsOf(rows) == {rows[c].fixture : c \in DOMAIN rows}

\* AgentMarketSnapshot.__post_init__: the rows have the last word on the
\* source, also over what the builder states.
Sealed(snapshot) ==
  IF DOMAIN snapshot.rows = {} THEN snapshot
  ELSE [snapshot EXCEPT !.source = ClassifyFixtureFlags(FlagsOf(snapshot.rows))]

\* classify_agent_snapshot, and source_is_fixture of the paper side.
SourceOf(snapshot) ==
  IF DOMAIN snapshot.rows = {} THEN snapshot.source
  ELSE ClassifyFixtureFlags(FlagsOf(snapshot.rows))

-----------------------------------------------------------------------------
(* Quality and health                                                      *)

\* gate_snapshot_quality
GatedQuality(snapshot) ==
  IF snapshot.quality # "OK" THEN snapshot.quality
  ELSE IF \/ DOMAIN snapshot.under = {}
          \/ \E u \in DOMAIN snapshot.under : snapshot.under[u].ltp = 0
    THEN "INSUFFICIENT" ELSE "OK"

\* market_data_health_from_quality
HealthOfQuality(quality) ==
  CASE quality = "OK" -> "HEALTHY"
    [] quality = "STALE" -> "STALE"
    [] quality = "INSUFFICIENT" -> "DEGRADED"
    [] OTHER -> "FAILED"

\* resolve_market_data_health: what the snapshot states, else its quality;
\* a feed that is not fresh is never healthy.
MarketHealth(snapshot) ==
  LET stated == IF snapshot.health # "NONE" THEN snapshot.health
                ELSE HealthOfQuality(GatedQuality(snapshot))
  IN IF stated = "HEALTHY" /\ ~ snapshot.fresh THEN "STALE" ELSE stated

\* allows_new_paper_trade
AllowsNewTrade(snapshot) == MarketHealth(snapshot) = "HEALTHY"

-----------------------------------------------------------------------------
(* The builders                                                            *)

\* _underlying_from_market
AgedView(view, at) ==
  [ltp |-> view.ltp, open |-> view.open, high |-> view.high,
   low |-> view.low, close |-> view.close, age |-> at - view.at]

\* _option_from_contract; an old quote makes its own row unusable.
AgedRow(quote, at, fixture) ==
  [bid |-> quote.bid, ask |-> quote.ask, ltp |-> quote.ltp,
   volume |-> quote.volume, oi |-> quote.oi, class |-> quote.class,
   lot |-> quote.lot, age |-> at - quote.at, fixture |-> fixture,
   ok |-> at - quote.at <= MaxAgentAge]

\* build_agent_snapshot raises on a market of the future.
FromTheFuture(market, at) == market.event > at

\* history_diagnostics_from_live: the closes of the first index that has any.
SharedCloses(market) ==
  LET has(i) == /\ IndexList[i] \in DOMAIN market.closes
                /\ market.closes[IndexList[i]] # NoCloses
      S == {i \in DOMAIN IndexList : has(i)}
  IN IF S = {} THEN NoCloses ELSE market.closes[IndexList[Earliest(S)]]

\* build_agent_snapshot, the snapshot of a live feed.
AgentSnapshot(market, at, today) ==
  LET flagged(c) == \/ market.chains[UnderlyingOf[c]]
                    \/ market.quotes[c].flagged
      rows == [c \in DOMAIN market.quotes |->
                 AgedRow(market.quotes[c], at, flagged(c))]
      fixtures == {market.chains[u] : u \in DOMAIN market.chains}
      source == IF DOMAIN rows # {} THEN ClassifyFixtureFlags(FlagsOf(rows))
                ELSE IF fixtures = {TRUE} THEN "FIXTURE" ELSE "LIVE"
      old == \E u \in DOMAIN market.under :
               at - market.under[u].at > MaxAgentAge
      quality == CASE source = "MIXED" -> "REJECTED"
                   [] DOMAIN market.under = {} -> "INSUFFICIENT"
                   [] ~ market.fresh \/ old -> "STALE"
                   [] OTHER -> "OK"
  IN Sealed([at |-> at, today |-> today, quality |-> quality,
             health |-> HealthOfQuality(quality), source |-> source,
             fresh |-> market.fresh,
             under |-> [u \in DOMAIN market.under |->
                          AgedView(market.under[u], at)],
             rows |-> rows, closes |-> <<>>, shared |-> SharedCloses(market)])

\* build_fixture_snapshot, of one index: every row is stamped a fixture's.
FixtureSnapshot(market, index, at, today) ==
  LET listed == {c \in DOMAIN market.quotes : UnderlyingOf[c] = index}
  IN Sealed([at |-> at, today |-> today,
             quality |-> IF index \in DOMAIN market.under THEN "OK"
                                                          ELSE "INSUFFICIENT",
             health |-> "NONE", source |-> "FIXTURE", fresh |-> TRUE,
             under |-> [u \in {index} \cap DOMAIN market.under |->
                          AgedView(market.under[u], at)],
             rows |-> [c \in listed |->
                         [AgedRow(market.quotes[c], at, TRUE) EXCEPT !.ok = TRUE]],
             closes |-> <<>>, shared |-> SharedCloses(market)])

\* _preferred_live_expiry of an index
PreferredExpiry(index, today) ==
  ChooseExpiry({[day |-> ExpiryOf[c], class |-> ClassOf[c]] :
                  c \in {d \in Listed : /\ UnderlyingOf[d] = index
                                        /\ ExpiryOf[d] >= today}},
               ProfileFor[index], today, FALSE)

ListedFor(index, expiry) ==
  {c \in Listed : UnderlyingOf[c] = index /\ ExpiryOf[c] = expiry}

\* _pair_for_underlying: the strikes with both sides.
PairStrikes(pool) ==
  {StrikeOf[c] : c \in {d \in pool : \E e \in pool :
                          StrikeOf[d] = StrikeOf[e] /\ TypeOf[d] # TypeOf[e]}}

\* _build_one_index: the contracts asked for are those of the strikes nearest
\* to the pair's.
NearestTo(atm, pool) ==
  LET nearer(s, t) == \/ Magnitude(s - atm) < Magnitude(t - atm)
                      \/ Magnitude(s - atm) = Magnitude(t - atm) /\ s < t
      closer(c) == {StrikeOf[d] : d \in {e \in pool :
                                    nearer(StrikeOf[e], StrikeOf[c])}}
  IN {c \in pool : Cardinality(closer(c)) <= 2 * CampaignWindow}

AskedOf(pool, spot) ==
  IF PairStrikes(pool) = {} THEN {}
  ELSE NearestTo(AtmStrike(spot, PairStrikes(pool)), pool)

Asked(index, spot, today) ==
  AskedOf(ListedFor(index, PreferredExpiry(index, today)), spot)

\* The last bars of a history.
LastCloses(closes, n) ==
  IF Len(closes) > n THEN SubSeq(closes, Len(closes) - n + 1, Len(closes))
                     ELSE closes

\* The rows of one index that Kite's page answered and that have a class.
Answered(market, index, today) ==
  IF index \notin DOMAIN market.under THEN {}
  ELSE {c \in Asked(index, market.under[index].ltp, today)
              \cap DOMAIN market.quotes : market.quotes[c].class \in Classes}

\* _build_one_index does not raise: there are rows, each with a lot, and bars.
RowsAnswer(market, index, rows) ==
  /\ rows # {}
  /\ \A c \in rows : market.quotes[c].lot >= 1
  /\ index \in DOMAIN market.closes
  /\ Len(market.closes[index]) >= HistoryMin

\* build_campaign_live_snapshot: the indices that answer; a failing one is
\* left out, and without any the builder raises.
AnsweringIndices(market, today) ==
  {u \in {IndexList[i] : i \in DOMAIN IndexList} :
     RowsAnswer(market, u, Answered(market, u, today))}

\* The snapshot of the indices found, whose rows are those found.  All it says
\* of its age is that it is of now: views and rows are stamped with the time
\* of the build, whatever the exchange's times are.
SnapshotOf(market, found, rows, at, today) ==
  LET first == Earliest({i \in DOMAIN IndexList : IndexList[i] \in found})
      last(u) == LastCloses(market.closes[u], HistoryTarget)
  IN Sealed([at |-> at, today |-> today, quality |-> "OK",
             health |-> "HEALTHY", source |-> "LIVE", fresh |-> TRUE,
             under |-> [u \in found |->
                          [AgedView(market.under[u], at) EXCEPT !.age = 0]],
             rows |-> [c \in rows |->
                         [AgedRow(market.quotes[c], at, FALSE)
                            EXCEPT !.age = 0, !.ok = TRUE]],
             closes |-> [u \in found |-> last(u)],
             shared |-> last(IndexList[first])])

SnapshotOfFound(market, found, at, today) ==
  SnapshotOf(market, found, UNION {Answered(market, u, today) : u \in found},
             at, today)

\* build_campaign_live_snapshot
CampaignSnapshot(market, at, today) ==
  SnapshotOfFound(market, AnsweringIndices(market, today), at, today)

-----------------------------------------------------------------------------
(* What the paper side sees of it                                          *)

\* live_snapshot_from_agent leaves out rows that are not OK; the rest is what
\* PaperPricing calls a quote.
PaperQuote(snapshot, contract) ==
  IF contract \in DOMAIN snapshot.rows
    THEN [ok |-> snapshot.rows[contract].ok,
          bid |-> snapshot.rows[contract].bid,
          ask |-> snapshot.rows[contract].ask,
          ltp |-> snapshot.rows[contract].ltp,
          age |-> snapshot.rows[contract].age]
    ELSE [ok |-> FALSE, bid |-> 0, ask |-> 0, ltp |-> 0, age |-> 0]
=============================================================================
