---------------------------- MODULE MCExitLadder ----------------------------
(***************************************************************************)
(* Bars for TLC.  R is 20 ticks; the prices lie on, just inside and beyond *)
(* every threshold: the stop, the entry, 0.3R, 1R, 1.5R, 2R, 2.5R and 3R.  *)
(***************************************************************************)
EXTENDS ExitLadder

MCTicks == {-25, -20, -10, 0, 5, 6, 20, 30, 40, 50, 60}
\* The stop is 2, 2.5 or 3 ATR away, so atr14 starts at 7 to 10 ticks; 40 is
\* a volatility shock after the entry, which puts the trail below the stop.
MCAtrs == {7, 10, 40}
=============================================================================
