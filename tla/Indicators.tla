----------------------------- MODULE Indicators -----------------------------
(***************************************************************************)
(* IndicatorsGroup (groups/indicators/group.py): seven detectors over the  *)
(* features of the bar just closed and a short memory of earlier bars (the *)
(* closes and RSIs of the last bars, a squeeze waiting for its breakout,   *)
(* the previous MACD), the regime, and the bundle that is published after  *)
(* contradictory signals have been removed.  One symbol.                   *)
(***************************************************************************)
EXTENDS Features, Sequences, FiniteSets

CONSTANTS
  DivergenceBack,   \* how far back the divergence looks: prices[-5]
  MacdWarmUp        \* closes needed before MACD is computed: 35

ASSUME IndicatorsAssumption == DivergenceBack \in Nat \ {0} /\ MacdWarmUp \in Nat \ {0}

VARIABLES
  history,       \* _price_history, _rsi_history: the last bars, this one included
  closesSeen,    \* length of _closes_cache, up to MacdWarmUp
  squeezeActive, \* _squeeze_active
  prevMacd,      \* _prev_macd_line minus _prev_signal_line, or None
  indicators     \* the bundle published: its signals and its regime

indicatorVars == <<history, closesSeen, squeezeActive, prevMacd, indicators>>

HistorySize == Max({3, DivergenceBack})

SqueezeThreshold == 35
EmaCrossAdxMin == 15

Only(condition, name) == IF condition THEN {name} ELSE {}

-----------------------------------------------------------------------------
(* The detectors: each gives the signals it raises, at most one.           *)

EmaCrossover(f) ==
  IF f.adx < EmaCrossAdxMin THEN {}
  ELSE Only(f.pe20 < f.pe50 /\ f.e20 > f.e50, "golden_cross")
       \cup Only(f.pe20 > f.pe50 /\ f.e20 < f.e50, "death_cross")

Separated(f) == f.e50 > 0 /\ 1000 * Abs(f.e50 - f.e20) >= f.e50
BackBelow(f) == 100 * f.c > 95 * f.e20 /\ 100 * f.c <= 102 * f.e20
BackAbove(f) == 100 * f.c < 105 * f.e20 /\ 100 * f.c >= 98 * f.e20
TrendContinuation(f) ==
  IF f.adx < 20 \/ f.vol < 8 \/ ~Separated(f) \/ f.rsi <= 30 \/ f.rsi >= 70 THEN {}
  ELSE Only(FullBear(f) /\ BackBelow(f), "trend_continuation_short")
       \cup Only(FullBull(f) /\ BackAbove(f), "trend_continuation_long")

Rising(f) == f.rsi > f.prsi
Divergence(f, h) ==
  LET past == h[Len(h) - DivergenceBack + 1]
  IN IF Len(h) < DivergenceBack \/ f.adx < 18 THEN {}
     ELSE Only(f.c < past.c /\ f.rsi > past.rsi /\ Rising(f), "rsi_bullish_divergence")
          \cup Only(f.c > past.c /\ f.rsi < past.rsi /\ ~Rising(f), "rsi_bearish_divergence")
RsiSignal(f, h) ==
  IF Impulse(f) THEN {}
  ELSE IF f.rsi < 30 /\ Rising(f) /\ f.adx >= 15 THEN {"rsi_oversold_bounce"}
  ELSE IF f.rsi > 70 /\ ~Rising(f) /\ f.adx >= 15 THEN {"rsi_overbought_fade"}
  ELSE Divergence(f, h)

\* Slip: a difference of zero no longer counts as below for the cross upwards.
MacdSignalStrictUp(now, before) ==
  IF before < 0 /\ now > 0 THEN {"macd_bullish_cross"}
  ELSE IF before >= 0 /\ now < 0 THEN {"macd_bearish_cross"}
  ELSE Only(before < 0 /\ now > before /\ now < 0, "macd_histogram_turn_up")
       \cup Only(before > 0 /\ now < before /\ now > 0, "macd_histogram_turn_down")
(* The first value is its own predecessor, so it crosses nothing.          *)
MacdSignal(now, before) ==
  IF before <= 0 /\ now > 0 THEN {"macd_bullish_cross"}
  ELSE IF before >= 0 /\ now < 0 THEN {"macd_bearish_cross"}
  ELSE Only(before < 0 /\ now > before /\ now < 0, "macd_histogram_turn_up")
       \cup Only(before > 0 /\ now < before /\ now > 0, "macd_histogram_turn_down")

Squeezed(f) == f.bbw < SqueezeThreshold
BandBreakout(f, active) ==
  IF Squeezed(f) \/ ~active \/ f.vol <= 12 THEN {}
  ELSE Only(f.c > f.bbU, "bb_squeeze_breakout_long") \cup Only(f.c < f.bbL, "bb_squeeze_breakout_short")
SqueezeAfter(f, active) == Squeezed(f) \/ (active /\ BandBreakout(f, active) = {})

RsiMeanReversion(f) ==
  IF Impulse(f) THEN {}
  ELSE Only(f.prsi < 35 /\ f.rsi >= 35 /\ f.rsi < 55, "rsi_mean_reversion_long")
       \cup Only(f.prsi > 65 /\ f.rsi <= 65 /\ f.rsi > 45, "rsi_mean_reversion_short")

VolumeBreakout(f) ==
  IF f.vol < 20 \/ f.adx < 15 \/ 2 * Body(f) < (IF f.atr > 0 THEN f.atr ELSE 1) THEN {}
  ELSE Only(Bullish(f), "volume_breakout_long") \cup Only(Bearish(f), "volume_breakout_short")

-----------------------------------------------------------------------------
LongIndicators ==
  {"golden_cross", "trend_continuation_long", "rsi_oversold_bounce", "rsi_bullish_divergence", "macd_bullish_cross",
   "macd_histogram_turn_up", "bb_squeeze_breakout_long", "rsi_mean_reversion_long", "volume_breakout_long"}
IndicatorDir(name) == IF name \in LongIndicators THEN "long" ELSE "short"

(* The hypotheses that are worth a bonus: all but H3-001 (RSI) and MACD.   *)
Boosted ==
  {"golden_cross", "death_cross", "trend_continuation_long", "trend_continuation_short",
   "bb_squeeze_breakout_long", "bb_squeeze_breakout_short", "rsi_mean_reversion_long", "rsi_mean_reversion_short",
   "volume_breakout_long", "volume_breakout_short"}

(* _compute_regime, with the ADX the entry filters read from it.           *)
Regime(f) ==
  [macro |-> IF f.c > f.e200 /\ f.c > f.e50 THEN "bull" ELSE IF f.c < f.e200 THEN "bear" ELSE "ranging",
   trending |-> f.adx > 25,
   volatility |-> IF AtrAbove(f, 14) THEN "high" ELSE IF AtrBelow(f, 7) THEN "low" ELSE "normal",
   adx |-> f.adx]

(* _validate_signals: the more numerous side survives, and none on a tie.  *)
Validated(names) ==
  LET long == {n \in names : IndicatorDir(n) = "long"}
      short == names \ long
  IN IF long = {} \/ short = {} THEN names
     ELSE IF Cardinality(long) > Cardinality(short) THEN long
     ELSE IF Cardinality(short) > Cardinality(long) THEN short
     ELSE {}

Points(condition, n) == IF condition THEN n ELSE 0

(* _score_signals, in hundredths.                                          *)
IndicatorQuality(name, f) ==
  LET long == IndicatorDir(name) = "long"
      score == 40 + Points(f.adx > 25, 20) + Points(f.adx \in 20..25, 10)
               + Points(f.vol > 15, 15) + Points(f.vol \in 13..15, 5)
               + Points(IF long THEN f.e20 > f.e50 ELSE f.e20 < f.e50, 20)
               + Points(IF long THEN f.rsi \in 51..69 ELSE f.rsi \in 31..49, 10)
               + Points(name \in Boosted, 5)
  IN Min({score, 100})

Signal(name, dir, kind, quality) == [name |-> name, dir |-> dir, kind |-> kind, q |-> quality]

(* Everything the detectors raise on the newest bar of h, before           *)
(* validation; a before of None stands for the current value.            *)
Detected(h, seen, active, before) ==
  LET f == h[Len(h)]
  IN EmaCrossover(f) \cup TrendContinuation(f) \cup RsiSignal(f, h) \cup BandBreakout(f, active)
     \cup RsiMeanReversion(f) \cup VolumeBreakout(f)
     \cup (IF seen < MacdWarmUp THEN {}
           ELSE MacdSignal(f.macd, IF before = None THEN f.macd ELSE before))

-----------------------------------------------------------------------------
InitIndicators ==
  /\ history = <<>>
  /\ closesSeen = 0
  /\ squeezeActive = FALSE
  /\ prevMacd = None
  /\ indicators = [signals |-> {}, regime |-> None]

(* _process_features: the caches are extended first, so the detectors see  *)
(* the bar itself as the newest entry of the history.                      *)
IndicatorsBar(f) ==
  LET kept == SubSeq(Append(history, f), Max({1, Len(history) + 2 - HistorySize}), Len(history) + 1)
      seen == Min({closesSeen + 1, MacdWarmUp})
      names == Validated(Detected(kept, seen, squeezeActive, prevMacd))
  IN /\ history' = kept
     /\ closesSeen' = seen
     /\ squeezeActive' = SqueezeAfter(f, squeezeActive)
     /\ prevMacd' = IF seen < MacdWarmUp THEN prevMacd ELSE f.macd
     /\ indicators' =
          [signals |-> {Signal(n, IndicatorDir(n), "indicator", IndicatorQuality(n, f)) : n \in names},
           regime |-> Regime(f)]
=============================================================================
