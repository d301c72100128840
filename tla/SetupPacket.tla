----------------------------- MODULE SetupPacket ----------------------------
(***************************************************************************)
(* The packet the panel judges (runtime/setup_packet_builder.py), built    *)
(* from a proposal, the features of the bar, and the caches of structure,  *)
(* candlesticks and chart patterns.  The builder classifies the features   *)
(* anew, with thresholds of its own.                                       *)
(***************************************************************************)
EXTENDS Candlesticks

(* StructuralLevelBundle.                                                  *)
StructuralLevels ==
  [atSupport : BOOLEAN, atResistance : BOOLEAN, hh : BOOLEAN, hl : BOOLEAN,
   trend : {"uptrend", "downtrend", "sideways"}, quality : {"none", "weak", "moderate"}]

NoLevels ==
  [atSupport |-> FALSE, atResistance |-> FALSE, hh |-> FALSE, hl |-> FALSE,
   trend |-> "sideways", quality |-> "none"]

(* _ema_alignment: where the close stands, not how the averages do.        *)
Alignment(f) ==
  LET above20 == f.c > f.e20  above50 == f.c > f.e50  above200 == f.c > f.e200
  IN CASE above200 /\ above50 -> IF above20 THEN "full_bull" ELSE "partial_bull"
       [] ~above200 /\ ~above50 -> IF above20 THEN "partial_bear" ELSE "full_bear"
       [] OTHER -> "mixed"

(* _bb_position.                                                           *)
BandPosition(f) ==
  CASE f.c > f.bbU -> "above_upper"
    [] f.c <= f.bbU /\ 10 * f.c >= 3 * f.bbM + 7 * f.bbU -> "near_upper"
    [] f.c <= f.bbL /\ 10 * f.c < 3 * f.bbM + 7 * f.bbU -> "below_lower"
    [] f.c > f.bbL /\ 10 * f.c <= 7 * f.bbL + 3 * f.bbM /\ 10 * f.c < 3 * f.bbM + 7 * f.bbU -> "near_lower"
    [] OTHER -> "middle"

(* _volatility_regime, _volume_character, _rsi_direction, _setup_quality.  *)
Volatility(f) == IF AtrAbove(f, 15) THEN "high" ELSE IF AtrBelow(f, 7) THEN "low" ELSE "normal"
VolumeCharacter(f) ==
  IF f.vol >= 20 THEN "surge" ELSE IF f.vol >= 12 THEN "above_avg" ELSE IF f.vol >= 8 THEN "normal" ELSE "below_avg"
RsiDirection(f) == IF f.rsi - f.prsi > 1 THEN "rising" ELSE IF f.rsi - f.prsi < -1 THEN "falling" ELSE "flat"
SetupQuality(composite) ==
  IF composite >= 7500 THEN "A" ELSE IF composite >= 6000 THEN "B" ELSE IF composite >= 5000 THEN "C" ELSE "invalid"

(* build_setup_proposal: a candidate has no stop and no target of its own, *)
(* so the stop is two average ranges away and the target twice as far; the *)
(* leverage is what the stop allows, at most 3.  Percentages in            *)
(* hundredths, the other two in tenths.                                    *)
StopDistance(f) == 2 * f.atr
Terms(prop, f) ==
  [stopPct |-> (10000 * StopDistance(f)) \div prop.entry,
   rr |-> IF StopDistance(f) > 0 THEN 20 ELSE 0,
   leverage |-> IF StopDistance(f) > 0 THEN Min({(10 * prop.entry) \div StopDistance(f), 30}) ELSE 10,
   quality |-> SetupQuality(prop.composite)]

(* build_candlestick_snapshot: the first pattern speaks for all of them.   *)
CandleSnapshot(candles, st) ==
  [patterns |-> {candles[i] : i \in DOMAIN candles},
   primary |-> IF candles = <<>> THEN "none" ELSE candles[1],
   dir |-> IF candles = <<>> THEN "none" ELSE IF CandleDir(candles[1]) = "long" THEN "bullish" ELSE "bearish",
   atStructure |-> st.atSupport \/ st.atResistance]

(* build_chart_pattern_snapshot: the caches hold the names of the forming  *)
(* patterns and the confirmed signals, the first of which gives direction  *)
(* and level.  A signal always has a target, if only of 0.                 *)
ChartSnapshot(chart) ==
  [confirmed |-> chart.confirmed, active |-> chart.active,
   contributed |-> chart.confirmed \/ chart.active,
   dir |-> IF ~chart.confirmed THEN "none" ELSE IF chart.dir = "long" THEN "bullish" ELSE "bearish",
   level |-> IF chart.confirmed THEN chart.level ELSE 0,
   target |-> chart.confirmed]

(* build_btc_setup_packet.                                                 *)
Packet(prop, f, st, candles, chart) ==
  LET levels == IF st = None THEN NoLevels ELSE st
  IN [dir |-> prop.dir, entry |-> prop.entry, regime |-> prop.regime, terms |-> Terms(prop, f),
      ema |-> Alignment(f), rsi |-> f.rsi, rsiDir |-> RsiDirection(f), adx |-> f.adx,
      vol |-> f.vol, volume |-> VolumeCharacter(f), volatility |-> Volatility(f),
      atr |-> f.atr, atrSma |-> f.atrSma, bbw |-> f.bbw, band |-> BandPosition(f),
      levels |-> levels, candle |-> CandleSnapshot(candles, levels), chart |-> ChartSnapshot(chart)]
=============================================================================
