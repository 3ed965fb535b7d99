----------------------------- MODULE Specialists -----------------------------
(***************************************************************************)
(* The specialists of a campaign's analysis cycle (grow/agents/) and the   *)
(* package the aggregator makes of their answers (grow/orchestration/      *)
(* aggregator.py, grow/decision/aggregation/debate.py).  How the answers   *)
(* are gathered is in Dispatch; a specialist that raises or is late has    *)
(* the status ERROR.                                                       *)
(*                                                                         *)
(* An answer is a record [status, vote, mentions, volatile, opens]: the    *)
(* direction its structured fields state; the directions whose words its   *)
(* findings and interpretation contain, explanations included; whether     *)
(* they name high volatility; and the contract it proposes to open.        *)
(*                                                                         *)
(* Left out: metrics, confidences and notes nobody decides by.             *)
(*                                                                         *)
(* An operator X_fault is X with a programming error; nothing uses it.     *)
(***************************************************************************)
EXTENDS CampaignOptions

CONSTANTS
  MaxViewAge,             \* the age at which the data agent objects
  StrategiesConfigured,   \* the runner has names for the strategy researcher
  RegimeBars              \* _REGIME_M15_SESSION_BARS

ASSUME SpecialistParameters ==
  /\ StrategiesConfigured \in BOOLEAN
  /\ RegimeBars \in Nat \ {0}
  /\ MaxViewAge \in Nat

SpecialistNames == {"market_data", "technical", "options", "regime",
                    "strategy_research", "campaign_options"}

Answer(status, vote, mentions) ==
  [status |-> status, vote |-> vote, mentions |-> mentions,
   volatile |-> FALSE, opens |-> NoCandidate]

NoData == Answer("NO_DATA", "NONE", {})

Failed == Answer("ERROR", "NONE", {})

IndicesOf(snapshot) == DOMAIN snapshot.under

-----------------------------------------------------------------------------
(* The specialists                                                         *)

\* MarketDataAgent: an old view, an unusable row or a row without a side
\* makes the evidence weaker, not absent.
MarketDataAgent(snapshot) ==
  LET concerned ==
        \/ \E u \in IndicesOf(snapshot) : snapshot.under[u].age > MaxViewAge
        \/ \E c \in DOMAIN snapshot.rows :
             LET row == snapshot.rows[c]
             IN row.ltp = 0 \/ ~ HasBoth(row) \/ ~ row.ok
  IN Answer(IF concerned THEN "DEGRADED" ELSE "PASS", "NONE", {})

\* An index takes part when its view has a high and a low and its history
\* is long enough for the averages.
TechnicalSides(snapshot) ==
  {AverageSide(HistoryOf(snapshot, u)) :
     u \in {v \in IndicesOf(snapshot) : /\ snapshot.under[v].high > 0
                                        /\ snapshot.under[v].low > 0}}
    \ {"NONE"}

\* TechnicalAgent: its sentence about indices that disagree names both
\* directions.
TechnicalAgent(snapshot) ==
  LET sides == TechnicalSides(snapshot)
  IN CASE sides = {} -> Answer("DEGRADED", "NONE", {})
       [] Cardinality(sides) = 1 ->
            Answer("PASS", CHOOSE s \in sides : TRUE, sides)
       [] OTHER -> Answer("PASS", "NONE", Directions)

\* OptionsChainAgent
OptionsChainAgent(snapshot) ==
  LET usable == {c \in DOMAIN snapshot.rows : snapshot.rows[c].ok}
      concerned == \/ usable # DOMAIN snapshot.rows
                   \/ \E c \in usable : \/ snapshot.rows[c].ltp = 0
                                        \/ ~ HasBoth(snapshot.rows[c])
  IN IF usable = {} THEN NoData
     ELSE Answer(IF concerned THEN "DEGRADED" ELSE "PASS", "NONE", {})

\* _same_period_levels: the bars of a session, else the view's open against
\* its last price; NoCloses when there is neither.
PeriodOf(snapshot, index) ==
  LET view == snapshot.under[index]
      bars == LastCloses(HistoryOf(snapshot, index), RegimeBars)
      low == IF view.low > 0 THEN view.low ELSE Min({view.open, view.ltp})
      high == IF view.high > 0 THEN view.high ELSE Max({view.open, view.ltp})
      closes == {bars[i] : i \in DOMAIN bars}
  IN IF Len(HistoryOf(snapshot, index)) >= 2
       THEN [first |-> bars[1], last |-> bars[Len(bars)],
             range |-> Max(closes) - Min(closes)]
     ELSE [first |-> view.open, last |-> view.ltp, range |-> high - low]

\* A range of two percent of the last price is high volatility.
RegimeLabel(snapshot, index) ==
  LET period == PeriodOf(snapshot, index)
  IN CASE period.first = 0 -> "INSUFFICIENT"
       [] period.first # 0 /\ 50 * period.range >= snapshot.under[index].ltp ->
            "HIGH_VOLATILITY"
       [] OTHER -> IF period.last > period.first THEN "BULLISH"
                   ELSE IF period.last < period.first THEN "BEARISH"
                   ELSE "RANGING"

RegimeLabels(snapshot) ==
  {RegimeLabel(snapshot, u) : u \in IndicesOf(snapshot)} \ {"INSUFFICIENT"}

\* Of indices that disagree the agent reports neither a direction nor high
\* volatility; its sentence about them names one direction.
RegimeAnswer(labels) ==
  CASE labels = {} -> Answer("DEGRADED", "NONE", {})
    [] Cardinality(labels) > 1 -> Answer("PASS", "NONE", {"BULLISH"})
    [] labels \subseteq Directions /\ Cardinality(labels) = 1 ->
         Answer("PASS", CHOOSE l \in labels : TRUE, labels)
    [] OTHER -> [Answer("PASS", "NONE", {}) EXCEPT
                   !.volatile = labels = {"HIGH_VOLATILITY"}]

RegimeAgent(snapshot) == RegimeAnswer(RegimeLabels(snapshot))

StrategyResearchAgent ==
  IF StrategiesConfigured THEN Answer("PASS", "NONE", {}) ELSE NoData

\* CampaignOptionsAgent: its only words of direction are those of the
\* sentence that there is none, which names both.
OptionsAnswer(candidate, direction) ==
  IF direction = "NONE" THEN Answer("PASS", "NONE", Directions)
  ELSE [Answer("PASS", direction, {}) EXCEPT !.opens = candidate]

PicksAnswer(candidate, picks) ==
  OptionsAnswer(candidate, ReportedDirection(candidate, picks))

PicksToAnswer(snapshot, picks) == PicksAnswer(BestPick(snapshot, picks), picks)

CampaignOptionsAgent(snapshot) ==
  IF DOMAIN snapshot.rows = {} THEN NoData
  ELSE PicksToAnswer(snapshot, Picks(snapshot))

\* require_quality: no specialist works on a snapshot that is not usable.
SpecialistAnswer(name, snapshot) ==
  IF GatedQuality(snapshot) # "OK" THEN NoData
  ELSE CASE name = "market_data" -> MarketDataAgent(snapshot)
         [] name = "technical" -> TechnicalAgent(snapshot)
         [] name = "options" -> OptionsChainAgent(snapshot)
         [] name = "regime" -> RegimeAgent(snapshot)
         [] name = "strategy_research" -> StrategyResearchAgent
         [] OTHER -> CampaignOptionsAgent(snapshot)

-----------------------------------------------------------------------------
(* The package                                                             *)

\* The votes are those of the findings, not of a stated direction.
\* direction_vote over the outputs that are no errors
VotesFor(outputs, direction) ==
  {n \in DOMAIN outputs : /\ outputs[n].status # "ERROR"
                          /\ outputs[n].vote = direction}

Mentioning(outputs, direction) ==
  {n \in DOMAIN outputs : /\ outputs[n].status # "ERROR"
                          /\ direction \in outputs[n].mentions}

Actionable(outputs) ==
  {n \in DOMAIN outputs : /\ outputs[n].status = "PASS"
                          /\ outputs[n].opens # NoCandidate}

\* aggregate_outputs, with summarize_debate: conflicts of direction, and of
\* two proposals for different contracts.
PackageConflict(outputs) ==
  \/ VotesFor(outputs, "BULLISH") # {} /\ VotesFor(outputs, "BEARISH") # {}
  \/ Cardinality({outputs[n].opens.contract : n \in Actionable(outputs)}) > 1

\* The outputs of one cycle in which some specialists failed.
CycleOutputs(snapshot, failing) ==
  [n \in SpecialistNames |-> IF n \in failing THEN Failed
                             ELSE SpecialistAnswer(n, snapshot)]
=============================================================================
