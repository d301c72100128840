---------------------------- MODULE MCChartBars ----------------------------
(***************************************************************************)
(* Paths of legs around a price of 10000 with an opening half range of 50. *)
(* The free paths are all sequences of three legs of ten bars; the         *)
(* composed ones lead every detector to its start and its breakout, and    *)
(* the last leg rests long enough for a formation to reach its limit.      *)
(***************************************************************************)
EXTENDS ChartBars

Go(n, slope, widen, adx) ==
  [bars |-> n, slope |-> slope, widen |-> widen, adx |-> adx,
   ema |-> IF slope > 0 THEN 1 ELSE IF slope < 0 THEN -1 ELSE 0]

Down == Go(10, -100, 0, 25)
Up == Go(10, 100, 0, 25)
Drift == Go(10, 30, 0, 15)
Wider == Go(10, 0, 24, 25)
Narrower == Go(10, 0, -24, 25)
Slopes == {Down, Up, Drift, Wider, Narrower}
Free == {<<a, b, c>> : a, b, c \in Slopes}

Flat(n) == Go(n, 0, 0, 15)
\* Legs of three bars, long enough for a pivot at every turn.
Zigzag(up, down) ==
  <<Go(3, up, 0, 25), Go(3, down, 0, 25), Go(3, up, 0, 25), Go(3, down, 0, 25)>>

Composed ==
  { \* double bottom, and the same at the neckline in a ranging market
    <<Flat(10), Go(6, -80, 0, 25), Go(5, 60, 0, 25), Go(5, -60, 0, 25), Go(8, 80, 0, 15)>>,
    \* a first trough that is never followed by a second, and a fall two bars
    \* after the formation has expired
    <<Flat(10), Go(6, -80, 0, 25), Flat(60), Go(4, -300, 0, 25)>>,
    \* diamonds, broken down and up
    <<Wider, Go(11, 0, -24, 25), Go(8, -90, 0, 25)>>,
    <<Wider, Go(11, 0, -24, 25), Go(8, 90, 0, 25)>>,
    \* channels
    <<Go(20, 40, 0, 25), Go(10, -90, 0, 25)>>,
    <<Go(20, -40, 0, 25), Go(10, 90, 0, 25)>>,
    \* rounding bottom, with and without its breakout
    <<Down, Flat(14), Go(10, 100, 0, 25), Go(5, 60, 0, 25)>>,
    <<Down, Flat(14), Go(6, 100, 0, 25), Flat(1)>>,
    \* bump and run
    <<Go(10, 30, 0, 25), Up, Go(14, -120, 0, 25)>>,
    \* broadening top
    <<Go(15, 0, 12, 25), Go(8, -150, 0, 25)>>,
    \* triple top, trending and ranging
    <<Go(5, -60, 0, 25), Go(5, 60, 0, 25), Go(5, -60, 0, 25), Go(5, 60, 0, 25), Go(12, -70, 0, 25)>>,
    <<Go(5, -60, 0, 25), Go(5, 60, 0, 25), Go(5, -60, 0, 25), Go(5, 60, 0, 25), Go(12, -70, 0, 15)>>,
    \* a zigzag whose pivots merge, fill a side and break
    <<Go(4, 60, 0, 25), Go(4, -50, 0, 25), Go(4, 55, 0, 25), Go(4, -60, 0, 25), Go(3, 90, 0, 25),
      Go(3, -30, 0, 25), Go(6, 70, 0, 25), Go(4, -40, 0, 25), Go(9, -95, 0, 25)>>,
    \* falling and rising zigzags, whose pivots are more than the tolerance apart
    Zigzag(60, -90) \o Zigzag(60, -90), Zigzag(90, -60) \o Zigzag(90, -60),
    \* a narrow range, at support and at resistance
    Zigzag(20, -20) }

MCPaths == Free \cup Composed
MCOpening == [mid |-> 10000, half |-> 50]
=============================================================================
