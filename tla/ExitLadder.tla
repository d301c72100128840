----------------------------- MODULE ExitLadder -----------------------------
(***************************************************************************)
(* The exit monitor, ExitGroup (groups/exit/group.py): the life of one     *)
(* open position from the bar it was opened on to the bar that closes it.  *)
(*                                                                         *)
(* Prices are measured in ticks from the entry price, positive in the      *)
(* position's favour.  The code handles LONG and SHORT as mirror images,   *)
(* so a bar is its adverse extreme, its close and its favourable extreme   *)
(* (low, close, high of a LONG; high, close, low of a SHORT).  The stop    *)
(* starts R ticks against the entry and the target lies 3R in favour       *)
(* (risk_leverage/group.py:491-496).  Results are in percent of the        *)
(* position times ticks, so 100 * R is one R-multiple.                     *)
(***************************************************************************)
EXTENDS Integers, FiniteSets

CONSTANTS
  R,              \* ticks between the entry and the initial stop
  Ticks,          \* bound: the prices a bar can show
  Atrs,           \* values of atr14 a bar can carry, in ticks
  NoTrail,        \* trailing_stop_price before it is set: None
  MaxBars,        \* MAX_BARS_TO_HOLD, 120 in the code
  BreakevenBars   \* BREAKEVEN_BARS, 48 in the code

ASSUME RiskAssumption == R \in Nat \ {0}
ASSUME PriceAssumption == Ticks \subseteq Int /\ Atrs \subseteq Nat
ASSUME TrailAssumption == NoTrail \notin Int
ASSUME BarsAssumption == MaxBars \in Nat \ {0} /\ BreakevenBars \in Nat

VARIABLES
  status,     \* "open" or the reason of the exit
  sized,      \* whether the position has a positive r_amount
  stop,       \* stop_price
  trail,      \* trailing_stop_price, NoTrail before activation
  barsHeld,   \* bars_held
  taken,      \* the levels in partial_exits
  locked,     \* sum of the P&L in partial_exits
  remaining,  \* remaining_fraction, in percent
  pnl,        \* result of the closed position
  best        \* history: best price since the entry bar

vars == <<status, sized, stop, trail, barsHeld, taken, locked, remaining, pnl, best>>

Target == 3 * R
Reasons == {"STOP_LOSS", "TARGET_REACHED", "TRAILING_STOP", "TIME_STOP"}

Bars == {b \in [adv : Ticks, close : Ticks, fav : Ticks, atr : Atrs] :
           b.adv <= b.close /\ b.close <= b.fav}

-----------------------------------------------------------------------------
(* A position as RiskLeverageGroup opens it.                               *)

Init ==
  /\ status = "open"
  /\ sized \in BOOLEAN
  /\ stop = -R
  /\ trail = NoTrail
  /\ barsHeld = 0
  /\ taken = {} /\ locked = 0 /\ remaining = 100
  /\ pnl = 0
  /\ best = 0

-----------------------------------------------------------------------------
(* One bar.  Each operator below is one step of _evaluate_position, in the *)
(* order the code runs them; the steps before the checks write the         *)
(* position even when the bar then closes it.                              *)

\* The distance to the stop as it is now, which is what the code calls R: it
\* is 0 once the stop has been moved to the entry.
RDist == -stop
AtLeastR(price, tenths) == RDist > 0 /\ 10 * price >= tenths * RDist


Fraction(l) == IF l = "1R" THEN 30 ELSE 20
Level(l) == IF l = "1R" THEN 1 ELSE 2

\* The partials a bar takes: 30% at +1R and 20% at +2R, both on one bar if
\* it reaches that far.
\* Slip: a bar that reaches the stop takes no partial first.
PartialsUnlessStopped(b) ==
  {l \in {"1R", "2R"} \ taken :
     sized /\ b.adv > stop /\ AtLeastR(b.fav, 10 * Level(l))}
Partials(b) ==
  {l \in {"1R", "2R"} \ taken : sized /\ AtLeastR(b.fav, 10 * Level(l))}

Recorded(new) == taken \cup new

PartialExits(b) ==
  LET new == Partials(b)
      Of(l, x) == IF l \in new THEN x ELSE 0
  IN
  /\ taken' = Recorded(new)
  /\ locked' = locked + Of("1R", Fraction("1R") * Level("1R") * RDist)
                      + Of("2R", Fraction("2R") * Level("2R") * RDist)
  /\ remaining' = remaining - Of("1R", Fraction("1R")) - Of("2R", Fraction("2R"))

\* Multiples of atr14, in tenths, for the R-multiple of the close.
TrailAtrs(close) ==
  IF AtLeastR(close, 25) THEN 8 ELSE IF AtLeastR(close, 20) THEN 10 ELSE 15
\* The floor at +3R is half the initial risk in favour.
Candidate(b) ==
  LET byAtr == b.close - (TrailAtrs(b.close) * b.atr) \div 10
      floor == R \div 2
  IN IF AtLeastR(b.close, 30) /\ byAtr < floor THEN floor ELSE byAtr

Ratchet(c) == IF trail = NoTrail THEN c ELSE IF c > trail THEN c ELSE trail

UpdateTrailingStop(b) ==
  trail' = IF sized /\ AtLeastR(b.close, 15) THEN Ratchet(Candidate(b)) ELSE trail

\* A stalled position has its stop moved to the entry.  The 0.3R test reads
\* as 0 >= 0.3, false, when the stop is already there.
Stalled(b) == barsHeld >= BreakevenBars /\ sized /\ ~AtLeastR(b.close, 3)
\* Slip: gives the stalled position room instead.
BreakevenWidens(b) == stop' = IF Stalled(b) THEN stop - R ELSE stop
Breakeven(b) == stop' = IF Stalled(b) /\ stop < 0 THEN 0 ELSE stop

\* The checks, on the position as the steps above left it; the first that
\* holds decides, and the exit is booked at its own price, not the bar's.
StopHit(b) == b.adv <= stop'
TargetHit(b) == b.fav >= Target
TrailHit(b) == trail' # NoTrail /\ b.adv <= trail'
TimeUp == barsHeld >= MaxBars

ExitReason(b) == CASE StopHit(b) -> "STOP_LOSS"
                   [] ~StopHit(b) /\ TargetHit(b) -> "TARGET_REACHED"
                   [] ~StopHit(b) /\ ~TargetHit(b) /\ TrailHit(b) -> "TRAILING_STOP"
                   [] ~StopHit(b) /\ ~TargetHit(b) /\ ~TrailHit(b) /\ TimeUp -> "TIME_STOP"
                   [] OTHER -> "open"

ExitPrice(b) == CASE ExitReason(b) = "STOP_LOSS" -> stop'
                  [] ExitReason(b) = "TARGET_REACHED" -> Target
                  [] ExitReason(b) = "TRAILING_STOP" -> trail'
                  [] ExitReason(b) = "TIME_STOP" -> b.close

\* Slip: forgets the partials.
PnlOfRemainder(price) == IF sized THEN remaining' * price ELSE 0
\* A position of size 0 has no P&L.
Pnl(price) == IF sized THEN locked' + remaining' * price ELSE 0

-----------------------------------------------------------------------------
(* Actions: what one FeatureReadyEvent of the position's symbol does.      *)

\* Slip: bars_held is not counted.
CountedNever == barsHeld
Counted == barsHeld + 1

\* The first bar a position sees is the one it was opened on, and its close is
\* the entry price: the bar's extremes came before the entry, so only
\* bars_held moves.
IsEntryBar == barsHeld = 0
EntryBar ==
  /\ status = "open" /\ IsEntryBar
  /\ barsHeld' = Counted
  /\ UNCHANGED <<status, sized, stop, trail, taken, locked, remaining, pnl, best>>

EvaluateBar(b) ==
  /\ status = "open" /\ ~IsEntryBar
  /\ PartialExits(b)
  /\ UpdateTrailingStop(b)
  /\ Breakeven(b)
  /\ best' = IF b.fav > best THEN b.fav ELSE best
  /\ UNCHANGED sized
  /\ status' = ExitReason(b)
  /\ IF status' = "open"
     THEN barsHeld' = Counted /\ pnl' = pnl
     ELSE barsHeld' = barsHeld /\ pnl' = Pnl(ExitPrice(b))

\* A closed position is in no snapshot any more.
Gone == status # "open" /\ UNCHANGED vars

Next == EntryBar \/ (\E b \in Bars : EvaluateBar(b)) \/ Gone

\* The market data loop delivers bars for as long as the system runs.
Spec == Init /\ [][Next]_vars /\ WF_vars(Next)

-----------------------------------------------------------------------------
(* Properties.                                                             *)

\* Each partial is booked once, at its own price and fraction: what is locked
\* and what remains follow from the levels recorded in partial_exits, and the
\* second is never there without the first (group.py:246-334).
BookedOnce ==
  /\ "2R" \in taken => "1R" \in taken
  /\ remaining = 100 - (IF "1R" \in taken THEN 30 ELSE 0) - (IF "2R" \in taken THEN 20 ELSE 0)
  /\ locked = (IF "1R" \in taken THEN 30 * R ELSE 0) + (IF "2R" \in taken THEN 40 * R ELSE 0)

\* The contract the risk gate's budget rests on: whatever the order of
\* partials, stop moves and exits, a position loses at most its R amount and
\* earns at most three times as much, on gaps and crash bars too.
PnlWithinR == pnl >= -100 * R /\ pnl <= 300 * R

\* A position that has once traded at +2R does not close at a loss: either
\* its partials outweigh the rest of it stopped out (which needs them booked
\* on the very bar that hits the stop), or its stop is at the entry.
ReachedTwoRNeverLoses == (sized /\ best >= 2 * R) => pnl >= 0

\* Every position is closed in the end, the sizeless ones included.
EventuallyCloses == <>(status # "open")

\* The bracket of module PositionLifecycle: stopped out now, or at the target.
Floor == IF sized THEN locked + remaining * stop ELSE 0
Ceiling == IF sized THEN locked + remaining * Target ELSE 0
Lifecycle == INSTANCE PositionLifecycle WITH
  WorstCase <- -100 * R, BestCase <- 300 * R, LastBar <- MaxBars,
  status <- IF status = "open" THEN "open" ELSE "closed",
  age <- barsHeld, floor <- Floor, ceiling <- Ceiling, result <- pnl
\* The ladder's steps only narrow the bracket and close inside it.
ImplementsLifecycle == Lifecycle!Spec
=============================================================================
