--------------------------- MODULE MCSignalChain ---------------------------
(***************************************************************************)
(* Three bars of one symbol.  The first two come from a small set that     *)
(* leads up to the patterns (and to a squeeze, a MACD and an RSI to        *)
(* compare with), the third from a wider one, with every context.  Prices  *)
(* lie near Axis, where a percentage of a price and of its reflection is   *)
(* mostly the same to the tick.                                            *)
(***************************************************************************)
EXTENDS SignalChain, TLC

(* Candles: open, high, low, close.                                        *)
Candle(o, h, l, c) == [o |-> o, h |-> h, l |-> l, c |-> c]
Averages(e20, e50, e200, pe20, pe50) == [e20 |-> e20, e50 |-> e50, e200 |-> e200, pe20 |-> pe20, pe50 |-> pe50]
Force(rsi, prsi, adx, macd) == [rsi |-> rsi, prsi |-> prsi, adx |-> adx, macd |-> macd]
Activity(vol, atr, atrSma, width, bbw) ==
  [vol |-> vol, atr |-> atr, atrSma |-> atrSma, bbU |-> Axis + width, bbM |-> Axis, bbL |-> Axis - width, bbw |-> bbw]
Join(a, b, c, d) == a @@ b @@ c @@ d

Falling == Averages(990, 994, 1006, 989, 995)
Climbing == Averages(1010, 1006, 994, 1011, 1005)
Quiet == Activity(10, 8, 8, 6, 20)
Loose == Activity(10, 8, 8, 6, 50)
MCLeadBars ==
  {Join(Candle(1004, 1004, 995, 996), Falling, Force(40, 38, 22, -1), Quiet),
   Join(Candle(996, 1005, 996, 1004), Climbing, Force(60, 62, 22, 2), Quiet),
   Join(Candle(1008, 1009, 1001, 1002), Climbing, Force(64, 66, 22, 2), Loose),
   Join(Candle(1000, 1006, 994, 1000), Falling, Force(33, 30, 22, -2), Loose),
   Join(Candle(996, 1002, 990, 996), Falling, Force(33, 34, 22, -2), Quiet),
   Join(Candle(1000, 1006, 994, 1000), Climbing, Force(66, 68, 22, 1), Loose),
   Join(Candle(1004, 1010, 998, 1004), Climbing, Force(70, 66, 22, 2), Quiet)}

LastCandles ==
  {Candle(996, 1007, 996, 1006),    \* a long white body: engulfs, kicks
   Candle(1004, 1004, 993, 994),    \* a long black one
   Candle(996, 997, 985, 997),      \* a dragonfly
   Candle(1004, 1015, 1003, 1003),  \* a gravestone
   Candle(994, 997, 990, 993),      \* a black one opening under the last low
   Candle(1006, 1006, 958, 994)}    \* a black one with a long shadow below it
LastAverages ==
  {Averages(1003, 1000, 990, 999, 1000), Averages(997, 1000, 1010, 1001, 1000),
   Averages(990, 993, 991, 989, 993)}
LastForces ==
  {Force(52, 34, 32, 1), Force(48, 66, 32, -1), Force(28, 25, 24, -1), Force(72, 75, 24, 1), Force(55, 50, 32, 2)}
LastActivities ==
  {Activity(22, 8, 8, 4, 50), Activity(18, 8, 8, 10, 20), Activity(7, 6, 8, 12, 50), Activity(14, 8, 8, 5, 10)}
MCLastBars ==
  {Join(a, b, c, d) : a \in LastCandles, b \in LastAverages, c \in LastForces, d \in LastActivities}
MCBars == MCLeadBars \cup MCLastBars

Level(support, resistance, up, trend, quality) ==
  [atSupport |-> support, atResistance |-> resistance, hh |-> up, hl |-> up, trend |-> trend, quality |-> quality]
Chart(confirmed, dir, level) == [confirmed |-> confirmed, active |-> confirmed, dir |-> dir, level |-> level]
Context(st, chart, h4, winRate, failing) ==
  [st |-> st, chart |-> chart, h4 |-> h4, winRate |-> winRate, failing |-> failing]
NoChart == [confirmed |-> FALSE, active |-> TRUE, dir |-> "long", level |-> 0]
MCContexts ==
  {Context(None, NoChart, "short", NoAnalog, {}),
   Context(Level(TRUE, FALSE, TRUE, "uptrend", "moderate"), Chart(TRUE, "long", 1006), "up", 0, {}),
   Context(Level(FALSE, TRUE, FALSE, "downtrend", "none"), Chart(TRUE, "short", 994), "down", 0, {"Breakout"}),
   Context(Level(FALSE, FALSE, TRUE, "uptrend", "moderate"), Chart(TRUE, "long", 1005), "up", NoAnalog, {}),
   Context(Level(FALSE, TRUE, FALSE, "downtrend", "weak"), NoChart, "down", NoAnalog, {"Contrary"})}

MCNext ==
  /\ Len(history) < 3
  /\ \E f \in IF Len(history) < 2 THEN MCLeadBars ELSE MCLastBars, c \in Contexts : BarClosed(f, c)

MCSpec == ChainInit /\ [][MCNext]_chainVars
=============================================================================
