------------------------------ MODULE Features ------------------------------
(***************************************************************************)
(* The feature vector of one closed bar (features/compute.py), as the      *)
(* signal groups read it.  Prices, moving averages and ranges are integers *)
(* of one tick size; rsi, adx and bbw (the width percentile of the         *)
(* Bollinger bands) are whole points; vol is the volume ratio in tenths;   *)
(* macd is the histogram, MACD line minus signal line.  The averages are   *)
(* inputs; what the code derives from a single bar is computed here.       *)
(***************************************************************************)
EXTENDS Integers, FiniteSetsExt

CONSTANT None  \* Python's None: no bundle, no proposal, no previous value

FeatureVector ==
  [o : Int, h : Int, l : Int, c : Int, e20 : Int, e50 : Int, e200 : Int, pe20 : Int, pe50 : Int,
   bbU : Int, bbM : Int, bbL : Int, bbw : Int, rsi : Int, prsi : Int, adx : Int, macd : Int,
   vol : Int, atr : Nat, atrSma : Int]

Abs(x) == IF x < 0 THEN -x ELSE x

(* _candle_anatomy: the parts of a candle, and its body as a share of its  *)
(* range, which is 0 when the range is.                                    *)
Body(f) == Abs(f.c - f.o)
CandleRange(f) == f.h - f.l
UpperShadow(f) == f.h - Max({f.o, f.c})
LowerShadow(f) == Min({f.o, f.c}) - f.l
BodyAbove(f, pct) == 100 * Body(f) > pct * CandleRange(f)
BodyBelow(f, pct) == CandleRange(f) = 0 \/ 100 * Body(f) < pct * CandleRange(f)

Bullish(f) == f.c > f.o
Bearish(f) == f.c < f.o

(* compute: a candle wider than two average ranges is an impulse, one      *)
(* whose body is under a tenth of its range a doji.                        *)
Impulse(f) == CandleRange(f) > 2 * f.atr
Doji(f) == BodyBelow(f, 10)

(* The moving averages all in one order; the comparison is strict on both  *)
(* sides.                                                                  *)
FullBull(f) == f.e20 > f.e50 /\ f.e50 > f.e200
FullBear(f) == f.e20 < f.e50 /\ f.e50 < f.e200

(* The ratio of the average range to its own average, which counts as 1    *)
(* when there is none: above and below a threshold given in tenths.        *)
AtrAbove(f, tenths) == (IF f.atrSma > 0 THEN 10 * f.atr ELSE 10) > (IF f.atrSma > 0 THEN tenths * f.atrSma ELSE tenths)
AtrBelow(f, tenths) == (IF f.atrSma > 0 THEN 10 * f.atr ELSE 10) < (IF f.atrSma > 0 THEN tenths * f.atrSma ELSE tenths)

(* Long and short exchanged.                                               *)
Opposite(dir) == IF dir = "long" THEN "short" ELSE "long"

(* The same bar seen upside down: prices reflected at Axis, the RSI at 50. *)
Axis == 1000
Flip(x) == 2 * Axis - x
MirrorBar(f) ==
  [f EXCEPT !.o = Flip(@), !.c = Flip(@), !.h = Flip(f.l), !.l = Flip(f.h),
            !.e20 = Flip(@), !.e50 = Flip(@), !.e200 = Flip(@), !.pe20 = Flip(@), !.pe50 = Flip(@),
            !.bbU = Flip(f.bbL), !.bbM = Flip(@), !.bbL = Flip(f.bbU),
            !.rsi = 100 - @, !.prsi = 100 - @, !.macd = -@]
=============================================================================
