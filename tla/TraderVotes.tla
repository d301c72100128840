----------------------------- MODULE TraderVotes ----------------------------
(***************************************************************************)
(* The twenty trader evaluators (traders/evaluators.py) and the panel that *)
(* counts them (traders/panel.py).  Each operator is one evaluator: the    *)
(* score it gives a setup packet p (module SetupPacket), in tenths.  What  *)
(* an evaluator writes beside it (reasons, concerns, its confidence) does  *)
(* not reach the decision and is left out.                                 *)
(***************************************************************************)
EXTENDS SetupPacket, FiniteSets

Pts(condition, n) == IF condition THEN n ELSE 0
Long(p) == p.dir = "long"

(* Packet facts several evaluators read, in the direction of the trade.    *)
EmaAligned(p) == p.ema \in (IF Long(p) THEN {"full_bull", "partial_bull"} ELSE {"full_bear", "partial_bear"})
EmaFull(p) == p.ema = (IF Long(p) THEN "full_bull" ELSE "full_bear")
RsiAligned(p) == p.rsiDir = (IF Long(p) THEN "rising" ELSE "falling")
AtLevel(p) == IF Long(p) THEN p.levels.atSupport ELSE p.levels.atResistance
SwingsAgree(p) == IF Long(p) THEN p.levels.hh /\ p.levels.hl ELSE ~p.levels.hh /\ ~p.levels.hl
TrendAgrees(p) == p.levels.trend = (IF Long(p) THEN "uptrend" ELSE "downtrend")
CandleAgrees(p) == p.candle.dir = (IF Long(p) THEN "bullish" ELSE "bearish")
MacroAgrees(p) == p.regime.macro = (IF Long(p) THEN "bull" ELSE "bear")
MacroOpposes(p) == p.regime.macro = (IF Long(p) THEN "bear" ELSE "bull")

-----------------------------------------------------------------------------
TrendFollowing(p) ==
  50 + (CASE EmaFull(p) -> 25
          [] EmaAligned(p) /\ ~EmaFull(p) -> 15
          [] p.ema = "mixed" -> -15
          [] OTHER -> -25)
     + Pts(p.adx > 30, 20) + Pts(p.adx \in 26..30, 15) - Pts(p.adx < 15, 5)
     - Pts(~EmaAligned(p) /\ p.adx > 30, 5)
     + (IF TrendAgrees(p) THEN 10 ELSE -5)
     + Pts(SwingsAgree(p), 5)

Sweet(p) == IF Long(p) THEN p.rsi \in 40..65 ELSE p.rsi \in 35..60
MomentumTrader(p) ==
  50 + Pts(Sweet(p), 20)
     + (IF Long(p) THEN Pts(p.rsi \in 66..75, 5) - Pts(p.rsi > 75, 25) - Pts(p.rsi < 30, 10)
                   ELSE Pts(p.rsi \in 25..34, 5) - Pts(p.rsi < 25, 25) - Pts(p.rsi > 70, 5))
     + Pts(RsiAligned(p), IF Sweet(p) THEN 15 ELSE 5)
     + Pts(p.vol > 20, 15) + Pts(p.vol \in 16..20, 10) + Pts(p.vol \in 13..15, 5) - Pts(p.vol < 8, 10)
     + Pts(p.adx > 25 /\ RsiAligned(p), 5)

(* Abstains in a trend, whatever the rest.                                 *)
MeanReversion(p) ==
  LET extreme == IF Long(p) THEN p.rsi < 35 /\ p.band = "below_lower" ELSE p.rsi > 70 /\ p.band = "above_upper"
      stretched == IF Long(p) THEN p.rsi < 40 ELSE p.rsi > 65
  IN CASE p.adx > 25 -> 55
       [] p.adx <= 25 /\ AtLevel(p) /\ extreme -> 80
       [] p.adx <= 25 /\ AtLevel(p) /\ stretched /\ ~extreme -> 60
       [] OTHER -> 30

Breakout(p) ==
  LET off == 1000 * Abs(p.entry - p.chart.level)
  IN (CASE p.chart.confirmed /\ p.vol > 15 -> 80
        [] p.chart.confirmed /\ p.vol \in 12..15 -> 65
        [] p.chart.confirmed /\ p.vol < 12 -> 40
        [] OTHER -> 50)
     - Pts(p.vol < 12, 10)
     + Pts(p.chart.level > 0 /\ off < 5 * p.chart.level, 10) - Pts(p.chart.level > 0 /\ off > 20 * p.chart.level, 10)
     + Pts(p.bbw < 15, 10) + Pts(p.bbw \in 15..19, 5)

(* The bonus for a level under 1% away needs a distance that no bundle     *)
(* carries, and the one for strong structure a quality none has.           *)
Structure(p) ==
  50 + Pts(AtLevel(p), 30) + Pts(SwingsAgree(p), 10)
     + Pts(p.levels.quality = "moderate", 5) - Pts(p.levels.quality \in {"weak", "none"}, 15)

HighConviction ==
  {"bullish_engulfing", "bearish_engulfing", "morning_star", "evening_star",
   "three_white_soldiers", "three_black_crows", "hammer", "shooting_star"}
Candlestick(p) ==
  IF p.candle.patterns = {} THEN 40
  ELSE 50 + Pts(p.candle.atStructure, 20) + (IF CandleAgrees(p) THEN 20 ELSE -15)
          + Pts(p.candle.primary \in HighConviction, 15)

RiskParity(p) ==
  Min({90, 30 + 2 * p.terms.rr}) - Pts(p.terms.stopPct > 500, 15) - Pts(p.terms.stopPct < 50, 10)

VolatilityTrader(p) ==
  (IF p.volatility = "normal" THEN 70 ELSE 50)
  - Pts(p.volatility = "high", IF p.terms.stopPct < 150 THEN 20 ELSE 10)
  - Pts(p.volatility = "low" /\ AtrBelow(p, 7), 10)
  - Pts(AtrAbove(p, 15), 10)

\* Slip: a surge is read as a climax.
VolumeProfileClimax(p) == 50 + Pts(p.vol \in 13..20, 20) - Pts(p.volume \in {"surge", "below_avg"}, 30)
VolumeProfile(p) ==
  Min({100, 50 + Pts(p.vol > 15, 20) + Pts(p.vol \in 13..15, 10) - Pts(p.vol < 8, 20)
               + Pts(p.volume = "surge", 30) + Pts(p.volume = "above_avg", 10) - Pts(p.volume = "below_avg", 20)})

MacroRegime(p) ==
  50 + Pts(MacroAgrees(p), 30) - Pts(MacroOpposes(p), IF Long(p) THEN 30 ELSE 20) + Pts(p.regime.trending, 10)

Contrary(p) ==
  CASE p.terms.rr > 30 /\ p.levels.quality = "strong" -> 75
    [] p.terms.rr >= 25 /\ p.levels.quality \in {"strong", "moderate"}
       /\ ~(p.terms.rr > 30 /\ p.levels.quality = "strong") -> 60
    [] OTHER -> IF (IF Long(p) THEN p.rsi > 80 ELSE p.rsi < 20) THEN 30 ELSE 50

ProfitTarget(p) ==
  (IF p.terms.rr >= 25 THEN 80 ELSE IF p.terms.rr >= 20 THEN 70 ELSE IF p.terms.rr >= 15 THEN 50 ELSE 30)
  + Pts(p.chart.confirmed /\ p.chart.target, 20)

EntryTiming(p) ==
  50 - (IF AtrAbove(p, 20) THEN 20 ELSE Pts(AtrAbove(p, 15), 10))
     + Pts(AtLevel(p), 20)
     + Pts(p.band \in (IF Long(p) THEN {"near_lower", "below_lower"} ELSE {"near_upper", "above_upper"}), 10)

(* Seven agreements are counted; the fourth compares the direction of the  *)
(* pattern, bullish or bearish, with that of the trade, long or short.     *)
Confluence(p) ==
  LET agreements ==
        <<EmaAligned(p), RsiAligned(p) /\ (IF Long(p) THEN p.rsi < 70 ELSE p.rsi > 30), CandleAgrees(p),
          p.chart.confirmed /\ p.chart.dir \in {p.dir, "none"}, AtLevel(p), MacroAgrees(p), p.vol > 13>>
  IN Min({100, 30 + 15 * Cardinality({i \in DOMAIN agreements : agreements[i]})})

DrawdownRisk(p) ==
  LET wide == p.terms.stopPct > 300
      paid == 50 - Pts(wide, 15)
              - Pts(p.terms.rr < 20, IF p.terms.rr < 15 THEN 25 ELSE 15)
              - Pts(p.volatility = "high" /\ p.terms.stopPct < 150, 20)
              + Pts(~wide, IF p.terms.rr >= 25 THEN 15 ELSE IF p.terms.rr >= 20 THEN 5 ELSE 0)
  IN Max({10, paid})

LeverageSpecialist(p) ==
  IF p.terms.quality = "invalid" THEN 10
  ELSE (IF p.terms.leverage <= 20 THEN 80 ELSE IF p.terms.leverage <= 30 THEN 60
        ELSE IF p.terms.leverage <= 50 THEN 40 ELSE 20)
       + Pts(p.terms.quality = "A", 10) - Pts(p.terms.quality = "C", 15)

PatternCompletion(p) ==
  IF ~p.chart.contributed THEN 50
  ELSE (IF p.chart.confirmed THEN 80 ELSE IF p.chart.active THEN 50 ELSE 40)
       + Pts(p.chart.confirmed /\ p.chart.target, 20)

BullishWicks == {"hammer", "inverted_hammer", "dragonfly_doji", "bullish_pin_bar"}
BearishWicks == {"shooting_star", "hanging_man", "gravestone_doji", "bearish_pin_bar", "bearish_rejection"}
WickAnalysis(p) ==
  LET bullish == p.candle.patterns \cap BullishWicks # {}
      bearish == p.candle.patterns \cap BearishWicks # {}
      matching == IF Long(p) THEN bullish ELSE bearish
      opposing == IF Long(p) THEN bearish ELSE bullish
  IN 50 + Pts(AtLevel(p), IF matching THEN 20 ELSE 5) - Pts(opposing, 20)

MarketContext(p) ==
  60 - Pts(p.bbw < 30 /\ p.adx < 20, 20)
     + Pts(TrendAgrees(p) /\ AtLevel(p), 20)
     + Pts(MacroAgrees(p) /\ p.chart.dir \in {IF Long(p) THEN "bullish" ELSE "bearish", "none"}, 10)
     - Pts(p.ema = "mixed", 10)

ExecutionQuality(p) ==
  IF p.terms.quality = "invalid" THEN 10
  ELSE 50 + Pts(p.terms.stopPct \in 100..300, 10) - Pts(p.terms.stopPct < 50, 20) - Pts(p.terms.stopPct > 500, 15)
          + Pts(p.terms.rr > 20, 20) - Pts(p.terms.rr < 15, 15)
          + (CASE p.terms.quality = "A" -> 20 [] p.terms.quality = "B" -> 10 [] OTHER -> -10)

-----------------------------------------------------------------------------
Scores(p) ==
  [TrendFollowing |-> TrendFollowing(p), Momentum |-> MomentumTrader(p), MeanReversion |-> MeanReversion(p),
   Breakout |-> Breakout(p), Structure |-> Structure(p), Candlestick |-> Candlestick(p),
   RiskParity |-> RiskParity(p), Volatility |-> VolatilityTrader(p), VolumeProfile |-> VolumeProfile(p),
   MacroRegime |-> MacroRegime(p), Contrary |-> Contrary(p), ProfitTarget |-> ProfitTarget(p),
   EntryTiming |-> EntryTiming(p), Confluence |-> Confluence(p), DrawdownRisk |-> DrawdownRisk(p),
   LeverageSpecialist |-> LeverageSpecialist(p), PatternCompletion |-> PatternCompletion(p),
   WickAnalysis |-> WickAnalysis(p), MarketContext |-> MarketContext(p), ExecutionQuality |-> ExecutionQuality(p)]
Traders == DOMAIN [TrendFollowing |-> 0, Momentum |-> 0, MeanReversion |-> 0, Breakout |-> 0, Structure |-> 0,
   Candlestick |-> 0, RiskParity |-> 0, Volatility |-> 0, VolumeProfile |-> 0, MacroRegime |-> 0, Contrary |-> 0,
   ProfitTarget |-> 0, EntryTiming |-> 0, Confluence |-> 0, DrawdownRisk |-> 0, LeverageSpecialist |-> 0,
   PatternCompletion |-> 0, WickAnalysis |-> 0, MarketContext |-> 0, ExecutionQuality |-> 0]

(* _vote_from_score, on the score before it is clamped into 1..10.         *)
ByScore(score) == IF score >= 60 THEN "approve" ELSE IF score <= 40 THEN "reject" ELSE "abstain"

(* The vote follows the score, except where an evaluator sees no evidence  *)
(* at all or lets the reward or the leverage overrule its score.           *)
Vote(trader, score, p) ==
  CASE trader = "Candlestick" /\ p.candle.patterns = {} -> "abstain"
    [] trader = "RiskParity" ->
         IF p.terms.rr < 15 THEN "reject" ELSE IF p.terms.rr >= 20 THEN "approve" ELSE "abstain"
    [] trader = "DrawdownRisk" /\ p.terms.rr < 15 -> "reject"
    [] trader = "LeverageSpecialist" /\ p.terms.leverage > 50 -> "reject"
    [] OTHER -> ByScore(score)

Clamped(score) == Max({10, Min({100, score})})

\* Slip: the twelve approvals the panel's docstring names.
ApproveThresholdTwelve(p, symbol) == 12 + (IF symbol = "BTCUSDT" THEN 0 ELSE 1)
ApproveThreshold(p, symbol) == 15 + (IF symbol = "BTCUSDT" THEN 0 ELSE 1)
MinAvgScore == 58

(* TraderEvaluatorPanel.evaluate: an evaluator that raises is left out of  *)
(* the counts and of the average.                                          *)
Total(s, failing) ==
  LET points(t) == IF t \in failing THEN 0 ELSE Clamped(s[t])
  IN points("TrendFollowing") + points("Momentum") + points("MeanReversion") + points("Breakout")
     + points("Structure") + points("Candlestick") + points("RiskParity") + points("Volatility")
     + points("VolumeProfile") + points("MacroRegime") + points("Contrary") + points("ProfitTarget")
     + points("EntryTiming") + points("Confluence") + points("DrawdownRisk") + points("LeverageSpecialist")
     + points("PatternCompletion") + points("WickAnalysis") + points("MarketContext") + points("ExecutionQuality")

Tally(p, failing) ==
  LET s == Scores(p)
      voters == Traders \ failing
      voting(v) == {t \in voters : Vote(t, s[t], p) = v}
  IN [approve |-> voting("approve"), reject |-> voting("reject"),
      total |-> Total(s, failing), voters |-> Cardinality(voters)]
\* Slip: the threshold lowered by one for each evaluator that is missing.
RecommendsLowered(p, tally, symbol) ==
  /\ tally.voters > 0
  /\ Cardinality(tally.approve) >= ApproveThreshold(p, symbol) - (20 - tally.voters)
  /\ tally.total >= MinAvgScore * tally.voters
Recommends(p, tally, symbol) ==
  /\ tally.voters > 0
  /\ Cardinality(tally.approve) >= ApproveThreshold(p, symbol)
  /\ tally.total >= MinAvgScore * tally.voters
=============================================================================
