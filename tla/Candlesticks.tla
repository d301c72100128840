---------------------------- MODULE Candlesticks ----------------------------
(***************************************************************************)
(* CandlestickGroup (groups/candlestick/group.py): the patterns it finds   *)
(* in the last one, two or three bars, in the order in which it collects   *)
(* them: the first becomes the primary pattern of the setup packet.  st is *)
(* the structural bundle the group has cached for the symbol, or           *)
(* None before the first one.                                              *)
(***************************************************************************)
EXTENDS Features, Sequences

One(condition, name) == IF condition THEN <<name>> ELSE <<>>

(* RJ-009: no pattern in a market without direction.                       *)
Directed(f) == f.adx >= 15

-----------------------------------------------------------------------------
(* One bar.                                                                *)

DragonflyDoji(f, st) ==
  One(/\ Directed(f) /\ Doji(f) /\ st.atSupport
      /\ 2 * UpperShadow(f) <= 3 * Body(f) /\ LowerShadow(f) >= 2 * Body(f), "dragonfly_doji")

GravestoneDoji(f, st) ==
  One(/\ Directed(f) /\ Doji(f) /\ st.atResistance
      /\ 2 * LowerShadow(f) <= 3 * Body(f) /\ UpperShadow(f) >= 2 * Body(f), "gravestone_doji")

LongLowerShadow(f, st) ==
  One(/\ Directed(f) /\ st.atSupport /\ f.e20 < f.e50
      /\ CandleRange(f) > 0 /\ 4 * LowerShadow(f) >= 3 * CandleRange(f), "long_lower_shadow")

InvertedHammer(f, st) ==
  One(/\ Directed(f) /\ f.e20 > f.e50 /\ st.atResistance
      /\ Body(f) > 0 /\ UpperShadow(f) >= 2 * Body(f)
      /\ 10 * LowerShadow(f) <= CandleRange(f), "inverted_hammer_bearish")

-----------------------------------------------------------------------------
(* Two bars: p, then f.                                                    *)

EngulfsUp(p, f) == Bearish(p) /\ Bullish(f) /\ f.o <= p.c /\ f.c >= p.o
EngulfsDown(p, f) == Bullish(p) /\ Bearish(f) /\ f.o >= p.c /\ f.c <= p.o

Engulfing(p, f, st) ==
  IF ~Directed(f) THEN <<>>
  ELSE One(EngulfsUp(p, f) /\ st.atSupport, "bullish_engulfing")
       \o One(EngulfsDown(p, f) /\ st.atResistance, "bearish_engulfing")

StrongEngulfing(p, f) ==
  IF ~Directed(f) \/ f.atr <= 0 \/ Body(f) <= 0 \/ 2 * Body(f) < 3 * f.atr THEN <<>>
  ELSE One(EngulfsUp(p, f), "strong_bullish_engulfing") \o One(EngulfsDown(p, f), "strong_bearish_engulfing")

Kicking(p, f) ==
  IF ~Directed(f) \/ BodyBelow(p, 85) \/ BodyBelow(f, 85) THEN <<>>
  ELSE One(Bearish(p) /\ Bullish(f) /\ f.o >= p.c, "kicking_bullish")
       \o One(Bullish(p) /\ Bearish(f) /\ f.o <= p.c, "kicking_bearish")

OnNeck(p, f) ==
  One(/\ Directed(f) /\ f.e20 < f.e50 /\ Bearish(p) /\ BodyAbove(p, 50)
      /\ f.o <= p.l /\ p.l > 0 /\ 1000 * Abs(f.c - p.l) <= 3 * p.l, "on_neck")

HaramiCross(p, f) ==
  IF \/ ~Directed(f) \/ ~Doji(f) \/ BodyBelow(p, 60)
     \/ Max({f.o, f.c}) > Max({p.o, p.c}) \/ Min({f.o, f.c}) < Min({p.o, p.c})
  THEN <<>>
  ELSE One(Bearish(p), "harami_cross_bullish") \o One(Bullish(p), "harami_cross_bearish")

-----------------------------------------------------------------------------
(* Three bars: b, s, f.                                                    *)

Star(b, s, f, st) ==
  IF ~Directed(f) \/ ~BodyAbove(b, 60) \/ ~BodyBelow(s, 30) \/ ~BodyAbove(f, 60) THEN <<>>
  ELSE One(Bearish(b) /\ Bullish(f) /\ st.atSupport /\ 2 * f.c > b.o + b.c, "morning_star")
       \o One(Bullish(b) /\ Bearish(f) /\ st.atResistance /\ 2 * f.c < b.o + b.c, "evening_star")

ThreeBlackCrows(b, s, f) ==
  One(/\ Directed(f) /\ \A x \in {b, s, f} : Bearish(x) /\ BodyAbove(x, 60)
      /\ s.c < b.c /\ f.c < s.c /\ b.e20 > b.e50, "three_black_crows")

(* doji_reversal carries either direction; its name here says which.       *)
DojiReversal(b, s, f) ==
  IF ~Doji(f) \/ ~Directed(f) THEN <<>>
  ELSE One(Bullish(b) /\ Bullish(s), "doji_reversal_short") \o One(Bearish(b) /\ Bearish(s), "doji_reversal_long")

TriStar(b, s, f) ==
  IF ~Doji(b) \/ ~Doji(s) \/ ~Doji(f) \/ ~Directed(f) THEN <<>>
  ELSE One(b.e20 < b.e50 /\ s.c < b.c /\ s.c < f.c, "tri_star_bullish")
       \o One(b.e20 > b.e50 /\ s.c > b.c /\ s.c > f.c, "tri_star_bearish")

-----------------------------------------------------------------------------
LongCandles ==
  {"dragonfly_doji", "long_lower_shadow", "bullish_engulfing", "strong_bullish_engulfing", "kicking_bullish",
   "harami_cross_bullish", "morning_star", "doji_reversal_long", "tri_star_bullish"}
CandleDir(name) == IF name \in LongCandles THEN "long" ELSE "short"

(* quality_score of each pattern, in hundredths.                           *)
CandleQuality(name) ==
  CASE name \in {"morning_star", "evening_star"} -> 75
    [] name \in {"bullish_engulfing", "bearish_engulfing", "kicking_bullish", "kicking_bearish"} -> 70
    [] name = "three_black_crows" -> 65
    [] name \in {"strong_bullish_engulfing", "strong_bearish_engulfing", "inverted_hammer_bearish",
                 "tri_star_bullish", "tri_star_bearish"} -> 60
    [] name = "long_lower_shadow" -> 50
    [] OTHER -> 55

(* _process_features: the strong engulfing stands in when there is no      *)
(* structure, or nothing has been found so far.                            *)
Candles(h, st) ==
  LET n == Len(h)
      f == h[n]
      structured(patterns) == IF st = None THEN <<>> ELSE patterns
      single == structured(DragonflyDoji(f, st) \o GravestoneDoji(f, st) \o LongLowerShadow(f, st))
      engulfing == structured(Engulfing(h[n - 1], f, st))
      first == single \o engulfing
      strong == IF st = None \/ first = <<>> THEN StrongEngulfing(h[n - 1], f) ELSE <<>>
      double == engulfing \o strong \o structured(InvertedHammer(f, st))
                \o Kicking(h[n - 1], f) \o OnNeck(h[n - 1], f) \o HaramiCross(h[n - 1], f)
      triple == structured(Star(h[n - 2], h[n - 1], f, st)) \o ThreeBlackCrows(h[n - 2], h[n - 1], f)
                \o DojiReversal(h[n - 2], h[n - 1], f) \o TriStar(h[n - 2], h[n - 1], f)
  IN single \o (IF n >= 2 THEN double ELSE <<>>) \o (IF n >= 3 THEN triple ELSE <<>>)
=============================================================================
