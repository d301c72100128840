----------------------------- MODULE EntryFilter ----------------------------
(***************************************************************************)
(* What EntryGroup (groups/entry/group.py) does with the bundles of a bar  *)
(* once it evaluates them (which bundles those are, and when, is module    *)
(* BarCascade): the filters in their order, the composite score, and the   *)
(* proposal.  Signals are the records of module Indicators: name, dir,     *)
(* kind and quality in hundredths.                                         *)
(***************************************************************************)
EXTENDS Features, FiniteSets

CompositeThreshold == 30

(* The volume filter: under half the average of twenty bars.               *)
TooThin(f) == f.vol < 5

Toward(signals, dir) == {s \in signals : s.dir = dir}

(* The larger side, and long on a tie.                                     *)
Majority(signals) ==
  IF Cardinality(Toward(signals, "long")) >= Cardinality(Toward(signals, "short"))
  THEN "long" ELSE "short"

(* _check_4h_alignment: h4 is the order of the 4h averages EMA20 and       *)
(* EMA50, "short" when fewer than 50 bars are known or the provider fails. *)
Aligned(h4, dir) == h4 = "short" \/ h4 = (IF dir = "long" THEN "up" ELSE "down")

(* No long in a bear market; a short only in a strong trend with the two   *)
(* slow averages crossed.                                                  *)
Filtered(dir, regime, f, h4) ==
  \/ dir = "long" /\ regime.macro = "bear"
  \/ dir = "short" /\ (regime.adx <= 30 \/ f.e50 >= f.e200)
  \/ ~Aligned(h4, dir)

-----------------------------------------------------------------------------
(* avg_quality: the mean, in parts of Unit of a hundredth, a common        *)
(* multiple of every possible number of signals.                           *)
Unit == 420
Mean(signals) ==
  IF signals = {} THEN 0 ELSE (Unit * MapThenSumSet(LAMBDA s : s.q, signals)) \div Cardinality(signals)

OfKind(signals, kind) == {s \in signals : s.kind = kind}

(* Which signals carry the previous RSI and the volume ratio along.        *)
CarriesRsi ==
  {"rsi_oversold_bounce", "rsi_overbought_fade", "rsi_mean_reversion_long", "rsi_mean_reversion_short",
   "volume_breakout_long", "volume_breakout_short"}
CarriesVolume ==
  {"trend_continuation_long", "trend_continuation_short", "bb_squeeze_breakout_long", "bb_squeeze_breakout_short",
   "rsi_mean_reversion_long", "rsi_mean_reversion_short", "volume_breakout_long", "volume_breakout_short"}

Bonus(condition, n) == IF condition THEN n ELSE 0

(* The momentum part, in hundredths: RSI and volume count only if one of   *)
(* the signals happens to carry them.                                      *)
Momentum(primary, dir, regime, f) ==
  LET carried(names) == \E s \in primary : s.name \in names
      towards == IF dir = "long" THEN f.rsi > f.prsi ELSE f.rsi < f.prsi
  IN Bonus(regime.adx > 30, 40) + Bonus(regime.adx \in 21..30, 25)
     + Bonus(carried(CarriesRsi) /\ towards, 30)
     + Bonus(carried(CarriesVolume) /\ f.vol > 20, 30)
     + Bonus(carried(CarriesVolume) /\ f.vol \in 13..20, 20)

(* _compute_composite_score, in hundredths of a percent: four weights, or  *)
(* five when the historian answers with a win rate (NoAnalog otherwise).   *)
NoAnalog == -1
Composite(primary, dir, regime, f, atLevel, winRate) ==
  LET indicator == Mean(OfKind(primary, "indicator"))
      candle == Mean(OfKind(primary, "candlestick"))
      momentum == Momentum(primary, dir, regime, f)
      four == 35 * indicator + 25 * candle + Unit * (20 * Bonus(atLevel, 100) + 20 * momentum)
      five == 30 * indicator + 22 * candle
              + Unit * (18 * Bonus(atLevel, 100) + 16 * momentum + 14 * winRate)
  IN (IF winRate = NoAnalog THEN four ELSE five) \div Unit

(* _evaluate_trade_opportunity and _build_proposal.  Every signal has a    *)
(* direction, so the bypass of the confirmation gate for a single strong   *)
(* signal is never taken: without a direction there is no signal at all.   *)
(* atLevel belongs to the structural bundle found among the bundles.       *)
Proposal(signals, regime, f, h4, atLevel, winRate) ==
  LET dir == Majority(signals)
      composite == Composite(Toward(signals, dir), dir, regime, f, atLevel, winRate)
  IN IF \/ TooThin(f) \/ signals = {} \/ Filtered(dir, regime, f, h4)
        \/ composite < 100 * CompositeThreshold
     THEN None
     ELSE [dir |-> dir, entry |-> f.c, composite |-> composite, regime |-> regime]
=============================================================================
