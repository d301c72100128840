----------------------------- MODULE SignalChain -----------------------------
(***************************************************************************)
(* What a closed bar of one symbol comes to: indicator and candlestick     *)
(* signals, the entry proposal, the setup packet, and the count of the     *)
(* panel's votes.  Module BarCascade has the order in which the groups     *)
(* hand these on; here is what they decide.                                *)
(***************************************************************************)
EXTENDS TraderVotes, Indicators, EntryFilter

CONSTANTS
  FeatureBars, \* the feature vectors a bar may have
  Contexts,    \* what the other groups contribute: see Context below
  Symbol

VARIABLES
  candles,   \* CandlestickGroup._signals_cache: the names of the patterns
  proposal,  \* the candidate EntryGroup publishes, or None
  packet,    \* the setup packet built from it, or None
  tally      \* the votes on it, or None

chainVars == <<indicatorVars, candles, proposal, packet, tally>>

(* A context c: c.st is the structural bundle cached, or None, c.chart the *)
(* two caches of the chart pattern group, c.h4 the order of the 4h         *)
(* averages, c.winRate the historian's answer, and c.failing the           *)
(* evaluators that raise on this packet.                                   *)
(* Closes are positive; a structural bundle is never rated better than     *)
(* moderate; None is neither a number nor a bundle.                        *)
ASSUME ChainAssumption ==
  /\ None \notin Int /\ None \notin StructuralLevels
  /\ FeatureBars \subseteq FeatureVector
  /\ \A f \in FeatureBars : f.c > 0
  /\ \A c \in Contexts :
       /\ c.st \in StructuralLevels \cup {None}
       /\ c.chart.confirmed \in BOOLEAN /\ c.chart.active \in BOOLEAN

AtStructure(st) == IF st = None THEN FALSE ELSE st.atSupport \/ st.atResistance

CandleSignals(names) ==
  {Signal(n, CandleDir(n), "candlestick", CandleQuality(n)) : n \in {names[i] : i \in DOMAIN names}}

ChainInit ==
  /\ InitIndicators
  /\ candles = <<>>
  /\ proposal = None /\ packet = None /\ tally = None

(* FeatureReadyEvent, through to the panel.  Both signal groups see every  *)
(* bar, so the candlestick history is the end of the indicators'.          *)
BarClosed(f, c) ==
  /\ IndicatorsBar(f)
  /\ candles' = Candles(SubSeq(history', Max({1, Len(history') - 2}), Len(history')), c.st)
  /\ proposal' = Proposal(indicators'.signals \cup CandleSignals(candles'), indicators'.regime, f,
                          c.h4, AtStructure(c.st), c.winRate)
  /\ packet' = IF proposal' = None THEN None ELSE Packet(proposal', f, c.st, candles', c.chart)
  /\ tally' = IF packet' = None THEN None ELSE Tally(packet', c.failing)

ChainNext == \E f \in FeatureBars, c \in Contexts : BarClosed(f, c)

ChainSpec == ChainInit /\ [][ChainNext]_chainVars

-----------------------------------------------------------------------------
(* Properties.                                                             *)

Newest == history[Len(history)]

(* Each indicator signal has its opposite; of the candlestick patterns     *)
(* three are bearish only and one is bullish only.                         *)
Pairs ==
  {<<"golden_cross", "death_cross">>, <<"trend_continuation_long", "trend_continuation_short">>,
   <<"rsi_oversold_bounce", "rsi_overbought_fade">>, <<"rsi_bullish_divergence", "rsi_bearish_divergence">>,
   <<"macd_bullish_cross", "macd_bearish_cross">>, <<"macd_histogram_turn_up", "macd_histogram_turn_down">>,
   <<"bb_squeeze_breakout_long", "bb_squeeze_breakout_short">>,
   <<"rsi_mean_reversion_long", "rsi_mean_reversion_short">>,
   <<"volume_breakout_long", "volume_breakout_short">>,
   <<"dragonfly_doji", "gravestone_doji">>, <<"bullish_engulfing", "bearish_engulfing">>,
   <<"strong_bullish_engulfing", "strong_bearish_engulfing">>, <<"kicking_bullish", "kicking_bearish">>,
   <<"harami_cross_bullish", "harami_cross_bearish">>, <<"morning_star", "evening_star">>,
   <<"doji_reversal_long", "doji_reversal_short">>, <<"tri_star_bullish", "tri_star_bearish">>}
OneSided == {"three_black_crows", "inverted_hammer_bearish", "on_neck", "long_lower_shadow"}
Reflected(names) ==
  {p[2] : p \in {q \in Pairs : q[1] \in names}} \cup {p[1] : p \in {q \in Pairs : q[2] \in names}}

UpsideDown(h) == [i \in DOMAIN h |-> MirrorBar(h[i])]
UpsideDownStructure(st) == [st EXCEPT !.atSupport = st.atResistance, !.atResistance = st.atSupport]
Structures == {c.st : c \in Contexts}

(* A percentage of a price is not the same distance as that of its         *)
(* reflection: a continuation is compared where both are the same to it.   *)
ByPercentage(f) ==
  LET g == MirrorBar(f)
  IN IF /\ Separated(f) <=> Separated(g)
        /\ BackBelow(f) <=> BackAbove(g)
        /\ BackAbove(f) <=> BackBelow(g)
     THEN {} ELSE {"trend_continuation_long", "trend_continuation_short"}

(* A long lower shadow, which has no counterpart, counts as a find, after  *)
(* which the strong engulfing does not stand in.                           *)
HeldBack(names) ==
  IF "long_lower_shadow" \in names THEN {"strong_bullish_engulfing", "strong_bearish_engulfing"} ELSE {}

(* The detectors do not favour a side: on the same bars seen upside down,  *)
(* with the same memory, they raise the opposite signals, the one-sided    *)
(* patterns and what they hold back aside.  (A bar whose RSI has not moved *)
(* is no bar of either side: the code then takes the RSI as falling.)      *)
MirrorSignals ==
  history # <<>> /\ Newest.rsi # Newest.prsi =>
    /\ \A active \in BOOLEAN, before \in {None, -1, 0, 1} :
         Detected(UpsideDown(history), closesSeen, active, IF before = None THEN None ELSE -before)
             \ ByPercentage(Newest)
           = Reflected(Detected(history, closesSeen, active, before) \ ByPercentage(Newest))
    /\ \A st \in Structures \ {None} :
         LET found(h, levels) == LET names == Candles(h, levels) IN {names[i] : i \in DOMAIN names}
             upright == found(history, st)
             upsideDown == found(UpsideDown(history), UpsideDownStructure(st))
             aside == OneSided \cup HeldBack(upright \cup upsideDown)
         IN upsideDown \ aside = Reflected(upright \ aside)

Judged == packet # None

(* Leaving an evaluator that raises out of the count must not open a       *)
(* trade: what the survivors recommend, all twenty would have recommended. *)
FailureNeverEnters ==
  Judged => \A t \in Traders :
    Recommends(packet, Tally(packet, {t}), Symbol) => Recommends(packet, Tally(packet, {}), Symbol)

(* More volume on the same setup never loses an approval.                  *)
VolumeNeverCosts ==
  Judged =>
    \A v \in {8, 12, 13, 16, 21} :
      LET more == [packet EXCEPT !.vol = v, !.volume = VolumeCharacter([vol |-> v])]
      IN v > packet.vol => Tally(packet, {}).approve \subseteq Tally(more, {}).approve

(* No evaluator has a veto, but the weaknesses add up: a recommended trade *)
(* has at most one of them: away from the level that should hold it, on    *)
(* thin volume, with a composite score under a half, or against the macro  *)
(* regime.                                                                 *)
Weaknesses(p) ==
  {w \in {"no level", "thin", "invalid", "against"} :
     CASE w = "no level" -> ~AtLevel(p)
       [] w = "thin" -> p.volume = "below_avg"
       [] w = "invalid" -> p.terms.quality = "invalid"
       [] w = "against" -> MacroOpposes(p)}
OneWeaknessAtMost ==
  Judged /\ Recommends(packet, tally, Symbol) => Cardinality(Weaknesses(packet)) <= 1
=============================================================================
