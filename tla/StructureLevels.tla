-------------------------- MODULE StructureLevels --------------------------
(***************************************************************************)
(* TechnicalStructureGroup (groups/technical_structure/group.py): swing    *)
(* pivots of the bars of one symbol, clustered into levels of support and  *)
(* resistance, and the bundle published for every bar.                     *)
(*                                                                         *)
(* A bar is [high, low, close, ema], where ema is the sign of ema20 minus  *)
(* ema50.  The ATR is a constant of the instance.  Prices are multiples of *)
(* Grain, so that the first merges, which halve, stay exact; later ones    *)
(* round down by at most 1.                                                *)
(***************************************************************************)
EXTENDS Integers, Sequences, FiniteSetsExt

CONSTANTS
  Atr,        \* features.atr14
  MaxLevels   \* levels kept on each side

ASSUME StructureAssumption == Atr \in Nat \ {0} /\ MaxLevels \in Nat \ {0}

VARIABLES
  bars,       \* _bar_history
  resistance, \* _resistance_levels, a sequence of levels
  support,    \* _support_levels
  bundle      \* _structural_cache: the bundle published last
structureVars == <<bars, resistance, support, bundle>>

HistorySize == 60
MinTouches == 2
Tolerance == Atr \div 2
\* No price.
None == 0

Distance(x, y) == IF x < y THEN y - x ELSE x - y

-----------------------------------------------------------------------------
(* Pivots.                                                                 *)

\* The pivot is the bar before the last two.
Candidate(b) == Len(b) - 2
Neighbours(b) == {Candidate(b) - 2, Candidate(b) - 1, Candidate(b) + 1, Candidate(b) + 2}

IsSwingHigh(b) == \A i \in Neighbours(b) : b[Candidate(b)].high > b[i].high
IsSwingLow(b) == \A i \in Neighbours(b) : b[Candidate(b)].low < b[i].low

-----------------------------------------------------------------------------
(* Levels: [price, touches, tested], where tested counts the pivots that   *)
(* made it.                                                                *)

Touches(price, b) ==
  Cardinality({i \in DOMAIN b : b[i].high >= price - Tolerance /\ b[i].low <= price + Tolerance})

\* Slip: clustered within a whole ATR.
NearWide(levels, price) == {i \in DOMAIN levels : Distance(levels[i].price, price) <= Atr}
\* The first level within the tolerance takes the pivot in.
Near(levels, price) == {i \in DOMAIN levels : Distance(levels[i].price, price) <= Tolerance}

Merged(level, price, b) ==
  LET middle == (level.price + price) \div 2
  IN [price |-> middle, touches |-> Max({Touches(middle, b), level.touches + 1}),
      tested |-> level.tested + 1]

Cluster(levels, price, b) ==
  IF Near(levels, price) # {}
  THEN [levels EXCEPT ![Min(Near(levels, price))] = Merged(@, price, b)]
  ELSE Append(levels, [price |-> price, touches |-> Touches(price, b), tested |-> 1])

\* Broken: more than 1% and more than an ATR beyond the level.
Broken(level, close, above) ==
  IF above THEN 100 * close > 101 * level.price /\ close - level.price > Atr
  ELSE 100 * close < 99 * level.price /\ level.price - close > Atr

\* The levels that stay.
Prune(levels, close, above) == {i \in DOMAIN levels : ~Broken(levels[i], close, above)}

\* Of the levels that stay, those with the most touches; with equal touches in
\* their order.
Rank(levels, kept, i) ==
  Cardinality({j \in kept :
    \/ levels[j].touches > levels[i].touches
    \/ levels[j].touches = levels[i].touches /\ j <= i})
Strongest(levels, kept) ==
  [r \in 1..Min({MaxLevels, Cardinality(kept)}) |->
     levels[CHOOSE i \in kept : Rank(levels, kept, i) = r]]

\* One side's levels after a bar: cluster, prune, keep the strongest.
Side(levels, swing, pivot, b, close, above) ==
  LET clustered == IF swing THEN Cluster(levels, pivot, b) ELSE levels
  IN Strongest(clustered, Prune(clustered, close, above))

-----------------------------------------------------------------------------
(* The bundle.                                                             *)

\* The nearest level that was touched twice, on the far side of the close.
Nearest(levels, close, above) ==
  LET beyond == {i \in DOMAIN levels :
                   /\ levels[i].touches >= MinTouches
                   /\ IF above THEN levels[i].price >= close ELSE levels[i].price <= close}
      prices == {levels[i].price : i \in beyond}
  IN IF prices = {} THEN None ELSE IF above THEN Min(prices) ELSE Max(prices)

At(nearest, close) == nearest # None /\ Distance(nearest, close) <= Atr

\* The second half of the last ten bars against the first.
Recent(b) == SubSeq(b, Max({1, Len(b) - 9}), Len(b))
HigherHighs(b) ==
  LET r == Recent(b)  mid == Len(r) \div 2
  IN Max({r[i].high : i \in mid + 1..Len(r)}) > Max({r[i].high : i \in 1..mid})
HigherLows(b) ==
  LET r == Recent(b)  mid == Len(r) \div 2
  IN Min({r[i].low : i \in mid + 1..Len(r)}) > Min({r[i].low : i \in 1..mid})

Trend(higherHighs, higherLows, ema) ==
  IF higherHighs /\ higherLows /\ ema > 0 THEN "uptrend"
  ELSE IF ~higherHighs /\ ~higherLows /\ ema < 0 THEN "downtrend"
  ELSE "sideways"

Quality(higherHighs, higherLows, trend) ==
  IF higherHighs /\ higherLows /\ trend # "sideways" THEN "moderate"
  ELSE IF higherHighs \/ higherLows THEN "weak"
  ELSE "none"

Bundle(b, resistances, supports) ==
  LET bar == b[Len(b)]
      above == Nearest(resistances, bar.close, TRUE)
      below == Nearest(supports, bar.close, FALSE)
      enough == Len(b) >= 6
      hh == enough /\ HigherHighs(b)
      hl == enough /\ HigherLows(b)
      trend == IF enough THEN Trend(hh, hl, bar.ema) ELSE "sideways"
  IN [resistance |-> above, support |-> below,
      atResistance |-> At(above, bar.close), atSupport |-> At(below, bar.close),
      higherHighs |-> hh, higherLows |-> hl, trend |-> trend,
      quality |-> Quality(hh, hl, trend)]

NoBundle == [resistance |-> None, support |-> None, atResistance |-> FALSE,
             atSupport |-> FALSE, higherHighs |-> FALSE, higherLows |-> FALSE,
             trend |-> "sideways", quality |-> "none"]

-----------------------------------------------------------------------------
InitStructure ==
  bars = <<>> /\ resistance = <<>> /\ support = <<>> /\ bundle = NoBundle

\* Fewer than five bars leave the cache as it is.
StructureBar(bar) ==
  LET b == SubSeq(Append(bars, bar), Max({1, Len(bars) + 2 - HistorySize}), Len(bars) + 1)
      pivot == b[Candidate(b)]
  IN /\ bars' = b
     /\ IF Len(b) < 5
        THEN UNCHANGED <<resistance, support, bundle>>
        ELSE /\ resistance' = Side(resistance, IsSwingHigh(b), pivot.high, b, bar.close, TRUE)
             /\ support' = Side(support, IsSwingLow(b), pivot.low, b, bar.close, FALSE)
             /\ bundle' = Bundle(b, resistance', support')

=============================================================================
