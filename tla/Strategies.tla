------------------------------ MODULE Strategies ------------------------------
(***************************************************************************)
(* The 2B strategy engine (grow/strategies/): from the indicators of one   *)
(* index to at most one research signal.  All of it is pure.               *)
(*                                                                         *)
(* The indicators of the primary timeframe are a record                    *)
(*   [count, close, fast, slow, slope, rsi, roc, atr, high, low, body,     *)
(*    range, daily]:                                                       *)
(* count is the number of bars, so that an indicator that needs more bars  *)
(* is None in the code; daily is the trend of the daily bars, "unknown"    *)
(* when they are too few for its averages.  Prices are integers in ticks,  *)
(* rsi and roc integers in percent, a confidence runs to 10000.            *)
(*                                                                         *)
(* A signal is [name, direction, confidence]; its levels only decide       *)
(* whether it is emitted.  Left out: how an indicator follows from bars.   *)
(***************************************************************************)
EXTENDS Integers, FiniteSets

CONSTANTS
  EnabledStrategies,  \* names in strategies.* with enabled: true
  FastPeriod, SlowPeriod, RsiPeriod, RocPeriod, AtrPeriod, Lookback,
  RsiThreshold, RsiOversold, RsiOverbought,
  DeviationPct

StrategyNames == {"breakout", "ema_trend", "mean_reversion", "momentum"}

ASSUME StrategyParameters ==
  /\ EnabledStrategies \subseteq StrategyNames
  /\ {FastPeriod, SlowPeriod, RsiPeriod, RocPeriod, AtrPeriod, Lookback}
       \subseteq Nat \ {0}
  /\ {RsiThreshold, RsiOversold, RsiOverbought, DeviationPct} \subseteq 0..100

Directions == {"BULLISH", "BEARISH"}

Opposite(direction) == IF direction = "BULLISH" THEN "BEARISH" ELSE "BULLISH"

NoSignal == [name |-> "none", direction |-> "NONE", confidence |-> 0]

-----------------------------------------------------------------------------
(* The regime                                                              *)

HasFast(i) == i.count >= FastPeriod
HasSlow(i) == i.count >= SlowPeriod
HasAtr(i) == i.count > AtrPeriod

TrendLabel(i) ==
  IF ~ HasFast(i) \/ ~ HasSlow(i) THEN "unknown"
  ELSE IF i.fast > i.slow /\ i.close > i.fast THEN "up"
  ELSE IF i.fast < i.slow /\ i.close < i.fast THEN "down"
  ELSE "mixed"

\* The average true range in per mille of the close: 12 is high, 4 low.
Volatility(i) ==
  IF ~ HasAtr(i) \/ i.close <= 0 THEN "unknown"
  ELSE IF 1000 * i.atr >= 12 * i.close THEN "high"
  ELSE IF 1000 * i.atr <= 4 * i.close THEN "low"
  ELSE "mid"

TrendRegime(trend) ==
  CASE trend = "up" -> "BULL_TREND"
    [] trend = "down" -> "BEAR_TREND"
    [] OTHER -> "RANGE"

\* classify: without daily averages the primary timeframe decides alone.
Regime(i) ==
  LET trend == TrendLabel(i)
      volatility == Volatility(i)
  IN IF i.daily = "unknown"
       THEN IF trend = "unknown" THEN "UNKNOWN" ELSE TrendRegime(trend)
     ELSE IF trend = "mixed" /\ volatility = "high" THEN "HIGH_VOLATILITY"
     ELSE IF trend = "mixed" /\ volatility = "low" THEN "LOW_VOLATILITY"
     ELSE IF i.daily = trend /\ trend \in {"up", "down"} THEN TrendRegime(trend)
     ELSE IF "mixed" \in {trend, i.daily} THEN "RANGE"
     ELSE "UNKNOWN"

TrendOf(direction) ==
  IF direction = "BULLISH" THEN "BULL_TREND" ELSE "BEAR_TREND"

-----------------------------------------------------------------------------
(* Confidence                                                              *)

Magnitude(n) == IF n < 0 THEN -n ELSE n

\* unit: |value| over the magnitude that counts as full.
Share(value, full) ==
  IF full <= 0 THEN 0
  ELSE LET s == (Magnitude(value) * 10000) \div full
       IN IF s > 10000 THEN 10000 ELSE s

RegimeAlignment(direction, regime, style) ==
  IF style = "reversion"
    THEN CASE regime = "RANGE" -> 10000
           [] regime = "LOW_VOLATILITY" -> 8000
           [] regime = "UNKNOWN" -> 4500
           [] regime = "HIGH_VOLATILITY" -> 2500
           [] OTHER -> 0
    ELSE CASE regime = TrendOf(direction) -> 10000
           [] regime = "LOW_VOLATILITY" -> 5500
           [] regime = "HIGH_VOLATILITY" -> 4000
           [] regime = "UNKNOWN" -> 3500
           [] regime = "RANGE" -> 2500
           [] OTHER -> 0

\* The parts of a strategy's confidence besides the regime's.  A fraction of
\* a price is kept exact by scaling both sides.
TrendParts(i) ==
  <<Share(1000 * (i.fast - i.slow), 15 * i.close),
    Share(10000 * i.slope, 5 * i.close),
    Share(100 * (i.close - i.fast), i.close)>>

MomentumParts(i) ==
  <<Share(100 * (i.close - i.fast), i.close), Share(i.rsi - 50, 30),
    Share(i.roc, 2)>>

BreakoutParts(i, direction) ==
  LET level == IF direction = "BULLISH" THEN i.high ELSE i.low
  IN <<Share(i.body, i.atr), Share(i.close - level, i.atr),
       Share(i.body, IF i.range > 0 THEN i.range ELSE i.atr)>>

ReversionParts(i) ==
  <<Share(100 * (i.close - i.fast), 3 * i.fast), Share(i.rsi - 50, 35),
    Share(i.rsi - 50, 25)>>

Parts(name, i, direction) ==
  CASE name = "ema_trend" -> TrendParts(i)
    [] name = "momentum" -> MomentumParts(i)
    [] name = "breakout" -> BreakoutParts(i, direction)
    [] OTHER -> ReversionParts(i)

Style(name) == IF name = "mean_reversion" THEN "reversion" ELSE "trend"

Confidence(name, i, direction) ==
  LET p == Parts(name, i, direction)
  IN (p[1] + p[2] + p[3]
        + RegimeAlignment(direction, Regime(i), Style(name))) \div 4

-----------------------------------------------------------------------------
(* The strategies                                                          *)

\* The indicators a strategy needs exist.
HistoryFor(name, i) ==
  /\ HasAtr(i)
  /\ CASE name = "ema_trend" -> HasSlow(i) /\ i.count > FastPeriod
       [] name = "momentum" ->
            HasFast(i) /\ i.count > RsiPeriod /\ i.count > RocPeriod
       [] name = "breakout" -> i.count > Lookback
       [] OTHER -> HasFast(i) /\ i.count > RsiPeriod

\* What each strategy looks for, and in which regimes it proposes it.
EmaTrend(i, direction) ==
  /\ IF direction = "BULLISH"
       THEN i.fast > i.slow /\ i.slope > 0 /\ i.close > i.fast
       ELSE i.fast < i.slow /\ i.slope < 0 /\ i.close < i.fast
  /\ Regime(i) \notin {"RANGE", TrendOf(Opposite(direction))}

Momentum(i, direction) ==
  /\ IF direction = "BULLISH"
       THEN i.rsi > RsiThreshold /\ i.roc > 0 /\ i.close > i.fast
       ELSE i.rsi < 100 - RsiThreshold /\ i.roc < 0 /\ i.close < i.fast
  /\ Regime(i) # TrendOf(Opposite(direction))

Breakout(i, direction) ==
  /\ IF direction = "BULLISH" THEN i.close > i.high /\ i.body > 0
                              ELSE i.close < i.low /\ i.body < 0
  /\ Regime(i) \notin {"RANGE", TrendOf(Opposite(direction))}

MeanReversion(i, direction) ==
  /\ IF direction = "BULLISH"
       THEN /\ i.rsi <= RsiOversold
            /\ 100 * i.close < (100 - DeviationPct) * i.fast
       ELSE /\ i.rsi >= RsiOverbought
            /\ 100 * i.close > (100 + DeviationPct) * i.fast
  /\ Regime(i) \in {"RANGE", "LOW_VOLATILITY", "UNKNOWN"}

Proposes(name, i, direction) ==
  CASE name = "ema_trend" -> EmaTrend(i, direction)
    [] name = "momentum" -> Momentum(i, direction)
    [] name = "breakout" -> Breakout(i, direction)
    [] OTHER -> MeanReversion(i, direction)

\* Stop and target, one and a half ranges away and twice that; a breakout or a
\* trend keeps its stop beyond the level it broke, a reversion aims at the
\* average.
Levels(name, i, direction) ==
  LET sign == IF direction = "BULLISH" THEN 1 ELSE -1
      stop == i.close - sign * ((3 * i.atr) \div 2)
      anchor == CASE name = "breakout" ->
                       IF direction = "BULLISH" THEN i.low ELSE i.high
                  [] name = "ema_trend" /\ sign * stop < sign * i.close ->
                       i.fast
                  [] OTHER -> stop
  IN [stop |-> IF sign * anchor < sign * stop THEN anchor ELSE stop,
      target |-> IF name = "mean_reversion" THEN i.fast
                 ELSE i.close + 2 * (i.close - stop)]

\* research_signal and validate_signal: the levels lie on their sides of the
\* entry and are positive.
Emitted(name, i, direction) ==
  LET l == Levels(name, i, direction)
  IN /\ IF direction = "BULLISH" THEN l.stop < i.close /\ i.close < l.target
                                 ELSE l.target < i.close /\ i.close < l.stop
     /\ i.close > 0 /\ l.stop > 0 /\ l.target > 0

\* StrategyEngine.evaluate over an open session.
Signals(i) ==
  {[name |-> p[1], direction |-> p[2], confidence |-> Confidence(p[1], i, p[2])] :
     p \in {q \in EnabledStrategies \X Directions :
              /\ HistoryFor(q[1], i)
              /\ Proposes(q[1], i, q[2])
              /\ Emitted(q[1], i, q[2])}}

\* The order of names as text, which breaks a tie.
NameRank(name) ==
  CASE name = "breakout" -> 1
    [] name = "ema_trend" -> 2
    [] name = "mean_reversion" -> 3
    [] OTHER -> 4

\* pick_signal: the most confident one.
PickSignal(signals) ==
  IF signals = {} THEN NoSignal
  ELSE CHOOSE s \in signals : \A t \in signals \ {s} :
         \/ s.confidence > t.confidence
         \/ s.confidence = t.confidence /\ NameRank(s.name) < NameRank(t.name)
=============================================================================
