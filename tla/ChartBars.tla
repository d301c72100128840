----------------------------- MODULE ChartBars -----------------------------
(***************************************************************************)
(* The two groups that keep a memory of the bars, ChartPattern and         *)
(* StructureLevels, driven by the same FeatureReadyEvents: one for every   *)
(* bar, handled by both before the next bar is taken.                      *)
(*                                                                         *)
(* The market is the environment: it follows a path of legs, each a number *)
(* of bars with a slope of the middle price, a change of the half range,   *)
(* and the ADX and EMA order the features report; after the last leg it    *)
(* repeats the last bar.                                                   *)
(***************************************************************************)
EXTENDS ChartPattern, StructureLevels

CONSTANTS
  Paths,     \* the sequences of legs explored
  Opening    \* the first middle price and half range

Legs == [bars : Nat \ {0}, slope : Int, widen : Int, adx : Nat, ema : {-1, 0, 1}]

ASSUME MarketAssumption ==
  /\ Paths \subseteq Seq(Legs) \ {<<>>}
  /\ Opening \in [mid : Int, half : Nat \ {0}]

VARIABLES
  path,      \* the path taken
  leg, bar,  \* the position on it: the leg, the bars of it that are done
  price      \* [mid, half], of the latest bar
marketVars == <<path, leg, bar, price>>
vars == <<patternVars, structureVars, marketVars>>

Resting(l) == [l EXCEPT !.slope = 0, !.widen = 0]
Leg == IF leg <= Len(path) THEN path[leg] ELSE Resting(path[Len(path)])

NextPrice == [mid |-> price.mid + Leg.slope, half |-> Max({1, price.half + Leg.widen})]

Bar(p) == [high |-> p.mid + p.half, low |-> p.mid - p.half, close |-> p.mid,
           adx |-> Leg.adx, ema |-> Leg.ema]

Init ==
  /\ InitPatterns /\ InitStructure
  /\ path \in Paths /\ leg = 1 /\ bar = 0 /\ price = Opening

MarketMoves ==
  /\ price' = NextPrice
  /\ IF leg <= Len(path) /\ bar + 1 = Leg.bars
     THEN leg' = leg + 1 /\ bar' = 0
     ELSE leg' = leg /\ bar' = IF leg <= Len(path) THEN bar + 1 ELSE bar
  /\ UNCHANGED path

FeatureReady ==
  /\ MarketMoves
  /\ PatternBar(Bar(NextPrice))
  /\ StructureBar(Bar(NextPrice))

Next == FeatureReady

Spec == Init /\ [][Next]_vars

-----------------------------------------------------------------------------
(* Properties.                                                             *)

InFormation(m) == m.state \in {"FORMING", "BREAKOUT_PENDING"}

\* RJ-007: no pattern is retried within five bars of its failure
\* (group.py:21 and 60-61).  The cooldown itself is never asked before a
\* machine starts: what keeps the rule is that every machine needs ten bars of
\* its own after a reset.
FailedPatternRests == \A h \in Hypotheses : cooldown[h] > 0 => ~InFormation(machine[h])

\* A breakout is taken at the first close beyond the level: no close since the
\* formation started is beyond the level of a machine that still waits for
\* one.  (Diamonds fix their level after the formation started.)
PendingIsUnbroken ==
  \A h \in Detectors \ {"H1-016", "H1-017"} :
    machine[h].state = "BREAKOUT_PENDING" =>
      \A i \in (Len(history) - machine[h].age + 1)..Len(history) :
        ~Beyond(h, machine[h].level, history[i].close)

\* A signal is never emitted on the bar that completes its pattern, nor from
\* anything but a waiting machine whose level that bar's close has crossed, nor
\* below an ADX of 20 unless the hypothesis is exempt (state_machine.py:7-11,
\* RJ-009).
SignalsAreBreakouts ==
  [][\A s \in signals' :
       /\ machine[s.hypothesis].state = "BREAKOUT_PENDING"
       /\ machine[s.hypothesis].level = s.level
       /\ Beyond(s.hypothesis, s.level, history'[Len(history')].close)
       /\ history'[Len(history')].adx >= 20 \/ s.hypothesis \in Exempt]_vars

\* A pivot is not lost: the bar that confirms it leaves a level within half the
\* tolerance of it, neither pruned by that bar's close nor moved further by the
\* merge; only a side that is full of stronger levels may drop it.
PivotRemembered ==
  LET pivot == bars[Candidate(bars)]
      kept(levels, p) == \/ \E i \in DOMAIN levels : 2 * Distance(levels[i].price, p) <= Tolerance + 2
                         \/ Len(levels) = MaxLevels
  IN Len(bars) >= 5 =>
       /\ IsSwingHigh(bars) => kept(resistance, pivot.high)
       /\ IsSwingLow(bars) => kept(support, pivot.low)

=============================================================================
