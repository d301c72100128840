---------------------------- MODULE ChartPattern ----------------------------
(***************************************************************************)
(* ChartPatternGroup (groups/chart_pattern): one state machine for each    *)
(* hypothesis, advanced by every bar of the symbol, the signals of the     *)
(* bar, and the cooldown after a failure.  Symbols do not interact; this   *)
(* is one of them.                                                         *)
(*                                                                         *)
(* A bar is [high, low, close, adx].  A machine that is not in formation   *)
(* keeps a window of its own; all windows end with the latest bar, so the  *)
(* model keeps one history and the length of each window.  Prices are      *)
(* integers; levels and moves are in twentieths, in which the averages of  *)
(* five and the quarters of a height are exact.                            *)
(***************************************************************************)
EXTENDS Integers, Sequences, FiniteSetsExt

VARIABLES
  history,   \* the latest bars, the longest window's worth
  machine,   \* hypothesis -> its PatternStateMachine
  cooldown,  \* hypothesis -> bars left of _failure_cooldown
  signals,   \* _signals_cache: the patterns confirmed by the latest bar
  active     \* _active_cache: the hypotheses in formation
patternVars == <<history, machine, cooldown, signals, active>>

Detectors == {"H1-003", "H1-016", "H1-017", "H1-018", "H1-019", "H1-020", "H1-021",
              "H1-022", "H1-023"}
\* advance() raises NotImplementedError and the group skips the machine.
Stubs == {"H1-001", "H1-002", "H1-004", "H1-005"}
Hypotheses == Detectors \cup Stubs

\* direction_bias of the detectors' classes.
Bias == [h \in Detectors |-> IF h \in {"H1-003", "H1-017", "H1-019", "H1-020"}
                             THEN "long" ELSE "short"]

\* The instances' max_bars.  Two subclasses redefine the attribute, but the
\* constructor they inherit from the dataclass sets its own default.
MaxFormation == 60
\* The class attribute.
DeclaredMaxBars == [h \in Detectors |-> CASE h = "H1-020" -> 100
                                          [] h = "H1-021" -> 80
                                          [] OTHER -> 60]
CooldownBars == 5
Exempt == {"H1-003", "H1-005"}

\* The length of a machine's window, and the bars it needs.
WindowSize == [h \in Detectors |-> CASE h = "H1-003" -> 20
                                     [] h \in {"H1-016", "H1-017", "H1-021"} -> 40
                                     [] h = "H1-020" -> 80
                                     [] h = "H1-023" -> 50
                                     [] OTHER -> 30]
\* Slip: two bars are enough for a double bottom.
WarmupShort == [h \in Detectors |-> CASE h = "H1-003" -> 2
                                      [] h \in {"H1-016", "H1-017"} -> 10
                                      [] h \in {"H1-018", "H1-019"} -> 20
                                      [] h = "H1-020" -> 30
                                      [] OTHER -> 15]
Warmup == [h \in Detectors |-> CASE h \in {"H1-003", "H1-016", "H1-017"} -> 10
                                 [] h \in {"H1-018", "H1-019"} -> 20
                                 [] h = "H1-020" -> 30
                                 [] OTHER -> 15]

Closes(w) == [i \in DOMAIN w |-> w[i].close]
Highs(w) == [i \in DOMAIN w |-> w[i].high]
Lows(w) == [i \in DOMAIN w |-> w[i].low]

Top(s, a, b) == Max({s[i] : i \in a..b})
Bottom(s, a, b) == Min({s[i] : i \in a..b})
SumOf(s, a, b) == FoldSet(LAMBDA i, acc : s[i] + acc, 0, a..b)

-----------------------------------------------------------------------------
(* The machines.  hi and lo are the extremes a formation keeps.            *)

Idle == [state |-> "INACTIVE", age |-> 0, seen |-> 0, hi |-> 0, lo |-> 0,
         level |-> 0, move |-> 0]

Formed(m, hi, lo) == [m EXCEPT !.state = "FORMING", !.age = 0, !.hi = hi, !.lo = lo]
Pending(m, level, move) ==
  [m EXCEPT !.state = "BREAKOUT_PENDING", !.level = level, !.move = move]
Started(m, level, move) == Pending([m EXCEPT !.age = 0], level, move)

\* A close 2.5% below the highest close is the first trough.
DoubleBottomStart(m, w) ==
  LET c == Closes(w)  n == Len(w) IN
  IF 1000 * c[n] < 975 * Top(c, 1, n)
  THEN Formed(m, c[n], c[n])
  ELSE m

\* Slip: the first trough is taken for the neckline.
DoubleBottomFormTrough(m, bar) ==
  LET neck == Max({m.hi, bar.close})
      g == [m EXCEPT !.hi = neck]
  IN IF 1000 * neck > 1003 * m.lo /\ 1000 * bar.close <= 1001 * m.lo
     THEN Pending(g, 20 * m.lo, 20 * (neck - m.lo))
     ELSE g
\* The second trough at most 0.1% above the first, after a recovery of more
\* than 0.3%: the neckline is the highest close in between.
DoubleBottomForm(m, bar) ==
  LET neck == Max({m.hi, bar.close})
      g == [m EXCEPT !.hi = neck]
  IN IF 1000 * neck > 1003 * m.lo /\ 1000 * bar.close <= 1001 * m.lo
     THEN Pending(g, 20 * neck, 20 * (neck - m.lo))
     ELSE g

\* Ten bars that end wider than they began; a top asks it of the inner bars too.
Expanding(w, inner) ==
  LET n == Len(w) IN
  /\ w[n].high > w[n - 9].high /\ w[n].low < w[n - 9].low
  /\ inner => w[n - 2].high > w[n - 5].high /\ w[n - 2].low < w[n - 5].low

DiamondStart(m, w, inner) ==
  LET n == Len(w) IN
  IF Expanding(w, inner)
  THEN Formed(m, Top(Highs(w), n - 9, n), Bottom(Lows(w), n - 9, n))
  ELSE m

\* From the fifth bar of the contraction's own window, which starts at the
\* fifth bar of the formation.
DiamondForm(m, bar, bearish) ==
  LET hi == Max({m.hi, bar.high})
      lo == Min({m.lo, bar.low})
      g == [m EXCEPT !.hi = hi, !.lo = lo]
  IN IF m.age >= 9 /\ 1000 * bar.high < 998 * hi /\ 1000 * bar.low > 1002 * lo
     THEN Pending(g, IF bearish THEN 20 * lo + 5 * (hi - lo) ELSE 20 * hi - 5 * (hi - lo),
                  10 * (hi - lo))
     ELSE g

DiamondTopStart(m, w) == DiamondStart(m, w, TRUE)
DiamondBottomStart(m, w) == DiamondStart(m, w, FALSE)
DiamondTopForm(m, bar) == DiamondForm(m, bar, TRUE)
DiamondBottomForm(m, bar) == DiamondForm(m, bar, FALSE)

\* The averages of the first and the last five bars of the window rise, or
\* fall, by more than 1%.
ChannelStart(m, w, rising) ==
  LET n == Len(w)
      firstLows == SumOf(Lows(w), 1, 5)    lastLows == SumOf(Lows(w), n - 4, n)
      firstHighs == SumOf(Highs(w), 1, 5)  lastHighs == SumOf(Highs(w), n - 4, n)
      moved == IF rising
               THEN 100 * lastLows > 101 * firstLows /\ 100 * lastHighs > 101 * firstHighs
               ELSE 100 * lastLows < 99 * firstLows /\ 100 * lastHighs < 99 * firstHighs
  IN IF moved
     THEN Started(m, 4 * (IF rising THEN lastLows ELSE lastHighs), 4 * (lastHighs - lastLows))
     ELSE m

AscendingChannelStart(m, w) == ChannelStart(m, w, TRUE)
DescendingChannelStart(m, w) == ChannelStart(m, w, FALSE)

\* A lowest close in the middle half of the window, ten closes within 2% of it,
\* a left rim 3% above it and a close that has left the bottom.
RoundingStart(m, w) ==
  LET c == Closes(w)  n == Len(w)
      low == Bottom(c, 1, n)
      at == Min({i \in 1..n : c[i] = low}) - 1
      rim == Top(c, 1, Max({at, 1}))
      near == {i \in 1..n : 100 * c[i] <= 102 * low}
  IN IF /\ n \div 4 < at /\ at < (3 * n) \div 4
        /\ Cardinality(near) >= 10
        /\ 100 * c[n] > 102 * low /\ 100 * rim > 103 * low
     THEN Started(m, 20 * rim, 10 * (rim - low))
     ELSE m

\* A lead-in of 1 to 5% over ten bars, a bump twice as high after it, and a
\* close 3% below the bump.
BumpStart(m, w) ==
  LET c == Closes(w)  n == Len(w)
      height == c[10] - c[1]
      peak == Top(Highs(w), 11, n)
  IN IF /\ 100 * height > c[1] /\ 20 * height < c[1]
        /\ peak - c[10] >= 2 * height
        /\ 100 * c[n] < 97 * peak
     THEN Started(m, 20 * c[10], 20 * (peak - c[1]))
     ELSE m

\* Three fives of bars, each wider than the one before; the last is the rest
\* of the window.
BroadeningStart(m, w) ==
  LET h == Highs(w)  l == Lows(w)  n == Len(w) IN
  IF /\ Top(h, 11, n) > Top(h, 6, 10) /\ Top(h, 6, 10) > Top(h, 1, 5)
     /\ Bottom(l, 11, n) < Bottom(l, 6, 10) /\ Bottom(l, 6, 10) < Bottom(l, 1, 5)
  THEN Started(m, 20 * Bottom(l, 11, n), 10 * (Top(h, 11, n) - Bottom(l, 11, n)))
  ELSE m

\* Three highs within 1% of the highest, eight bars from the first to the last,
\* and a low more than 1% below in between.
TripleTopStart(m, w) ==
  LET h == Highs(w)  n == Len(w)
      peak == Top(h, 1, n)
      touches == {i \in 1..n : 100 * h[i] >= 99 * peak}
      support == Bottom(Lows(w), Min(touches), Max(touches))
  IN IF /\ Cardinality(touches) >= 3 /\ Max(touches) - Min(touches) >= 8
        /\ 100 * (peak - support) > peak
     THEN Started(m, 20 * support, 10 * (peak - support))
     ELSE m

Start(h, m, w) ==
  CASE h = "H1-003" -> DoubleBottomStart(m, w)
    [] h = "H1-016" -> DiamondTopStart(m, w)
    [] h = "H1-017" -> DiamondBottomStart(m, w)
    [] h = "H1-018" -> AscendingChannelStart(m, w)
    [] h = "H1-019" -> DescendingChannelStart(m, w)
    [] h = "H1-020" -> RoundingStart(m, w)
    [] h = "H1-021" -> BumpStart(m, w)
    [] h = "H1-022" -> BroadeningStart(m, w)
    [] h = "H1-023" -> TripleTopStart(m, w)

\* A close beyond the level, in the direction of the pattern.
Beyond(h, level, close) == IF Bias[h] = "long" THEN 20 * close > level
                           ELSE 20 * close < level

\* _check_expiry
Expired(m) == m.state # "INACTIVE" /\ m.age >= MaxFormation

\* advance() of an implemented machine; bars ends with the new bar.
Advance(h, m, bars) ==
  LET bar == bars[Len(bars)]
      older == [m EXCEPT !.age = @ + 1]
      seen == Min({m.seen + 1, WindowSize[h]})
      window == SubSeq(bars, Len(bars) - seen + 1, Len(bars))
      tracked == [m EXCEPT !.seen = seen]
  IN CASE Expired(m) -> [m EXCEPT !.state = "EXPIRED"]
       [] m.state = "INACTIVE" -> IF seen < Warmup[h] THEN tracked ELSE Start(h, tracked, window)
       [] ~Expired(m) /\ m.state = "FORMING" ->
            (CASE h = "H1-003" -> DoubleBottomForm(older, bar)
              [] h = "H1-016" -> DiamondTopForm(older, bar)
              [] h = "H1-017" -> DiamondBottomForm(older, bar))
       [] ~Expired(m) /\ m.state = "BREAKOUT_PENDING" ->
            IF Beyond(h, m.level, bar.close) THEN [older EXCEPT !.state = "CONFIRMED"] ELSE older

-----------------------------------------------------------------------------
(* The group.                                                              *)

\* The direction of a signal: a fixed set of three hypotheses is bullish.
Direction(h) == IF h \in {"H1-002", "H1-003", "H1-005"} THEN "long" ELSE "short"

\* ChartPatternSignal.__post_init__: the target is half the measured move.
Signal(h, m) == [hypothesis |-> h, direction |-> Direction(h), level |-> m.level,
                 move |-> m.move, target |-> m.move \div 2]

\* Slip: the exemption inverted.
BlockedExempt(h, bar) == bar.adx < 20 /\ h \in Exempt
\* RJ-009: below an ADX of 20 only the exempt hypotheses may signal.
Blocked(h, bar) == bar.adx < 20 /\ h \notin Exempt

InitPatterns ==
  /\ history = <<>>
  /\ machine = [h \in Hypotheses |-> Idle]
  /\ cooldown = [h \in Hypotheses |-> 0]
  /\ signals = {} /\ active = {}

Keep(bars) == SubSeq(bars, Max({1, Len(bars) - 79}), Len(bars))

PatternBar(bar) ==
  LET bars == Keep(Append(history, bar))
      next == [h \in Hypotheses |-> IF h \in Stubs THEN machine[h] ELSE Advance(h, machine[h], bars)]
      confirmed == {h \in Hypotheses : next[h].state = "CONFIRMED"}
      failed == {h \in Hypotheses : next[h].state = "EXPIRED"}
                  \cup {h \in confirmed : Blocked(h, bar)}
      ticked == [h \in Hypotheses |-> Max({0, cooldown[h] - 1})]
  IN /\ history' = bars
     /\ machine' = [h \in Hypotheses |-> IF h \in confirmed \cup failed THEN Idle ELSE next[h]]
     /\ cooldown' = [h \in Hypotheses |-> IF h \in failed THEN CooldownBars ELSE ticked[h]]
     /\ signals' = {Signal(h, next[h]) : h \in confirmed \ failed}
     /\ active' = {h \in Hypotheses : /\ next[h].state \in {"FORMING", "BREAKOUT_PENDING"}
                                      /\ ticked[h] = 0}

=============================================================================
