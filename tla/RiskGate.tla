------------------------------ MODULE RiskGate ------------------------------
(***************************************************************************)
(* The account and its gate: SystemState.portfolio (core/state.py) with    *)
(* every operation that writes it, and RiskLeverageGroup                   *)
(* (groups/risk_leverage/group.py), the only component that opens a        *)
(* position.  The exit monitor appears through what it does to the         *)
(* account: it closes an open position with a P&L between -1R and +3R,     *)
(* the contract that module ExitLadder checks.  Sizing appears through     *)
(* the bounds that module RiskSizing checks: a margin of at most 30% of    *)
(* equity and a risk of at most 10% of equity per position.                *)
(*                                                                         *)
(* Every handler runs to completion without suspending (the bus awaits     *)
(* its callbacks in turn), so each one is a single action.  Money is an    *)
(* integer; percentages that the code caches are kept as fractions.        *)
(***************************************************************************)
EXTENDS Integers, Sequences, FiniteSetsExt

CONSTANTS
  Symbols,        \* every symbol a proposal can name
  Eligible,       \* the runner's symbols: SystemState.eligible_symbols
  PositionIds,    \* what uuid4 draws position ids from
  InitialEquity,
  MarginPcts,     \* margins an order may need, in percent of equity
  RiskPcts,       \* R amounts an order may carry, in percent of equity
  Window,         \* length of recent_outcomes (20 in the code)
  DaysPerWeek,    \* 7; day 0 is Monday
  MaxGapDays,     \* longest run of days without a bar, plus one
  ResetsPnl,      \* TRUE: driven by BacktestEngine; FALSE: by the live runner
  MaxTrades,      \* bound: positions opened in a behaviour
  MaxEquity       \* bound: the highest equity explored

ASSUME SymbolsAssumption == IsFiniteSet(Symbols) /\ Eligible \subseteq Symbols
ASSUME EquityAssumption == InitialEquity \in Nat \ {0}
ASSUME OrderAssumption == MarginPcts \subseteq 0..30 /\ RiskPcts \subseteq 0..10
ASSUME CalendarAssumption ==
  DaysPerWeek \in Nat \ {0} /\ MaxGapDays \in Nat \ {0} /\ ResetsPnl \in BOOLEAN
ASSUME BoundAssumption ==
  Window \in Nat \ {0} /\ MaxTrades \in Nat /\ MaxEquity \in Nat

VARIABLES
  equity, available, openPositions,
  dailyPnl, dailyPct, weeklyPnl, weeklyPct,
  hwm, drawdown,                 \* high_water_mark, drawdown_pct
  losses, outcomes, totalTrades, \* consecutive_losses, recent_outcomes
  haltFlag,                      \* risk_state.halted
  macro,                         \* macro_position_modifier, in percent
  mode, weekday

pnlVars == <<dailyPnl, dailyPct, weeklyPnl, weeklyPct>>
recordVars == <<hwm, drawdown, losses, outcomes, totalTrades>>
accountVars == <<equity, available, openPositions, pnlVars, recordVars>>
vars == <<accountVars, haltFlag, macro, mode, weekday>>

-----------------------------------------------------------------------------
(* Fractions: what the code stores as a float computed from two amounts.   *)

\* The quotient n/d with a positive denominator; 0 when the code skips the
\* division because d is 0.
Frac(n, d) == IF d = 0 THEN [num |-> 0, den |-> 1]
              ELSE IF d < 0 THEN [num |-> -n, den |-> -d]
              ELSE [num |-> n, den |-> d]
AbovePct(f, p) == 100 * f.num > p * f.den

DailyLossLimit == -15
WeeklyLossLimit == -30
MaxDrawdownHalt == 40
MaxMarginUtilization == 80

Held == {openPositions[i].symbol : i \in DOMAIN openPositions}
TotalMargin == MapThenSumSet(LAMBDA i : openPositions[i].margin, DOMAIN openPositions)
Drawdown == Frac(hwm - equity, hwm)

-----------------------------------------------------------------------------
(* Initial state: SystemState.__init__ with no position and no history.    *)

Init ==
  /\ equity = InitialEquity /\ available = InitialEquity
  /\ openPositions = << >>
  /\ dailyPnl = 0 /\ dailyPct = Frac(0, 1)
  /\ weeklyPnl = 0 /\ weeklyPct = Frac(0, 1)
  /\ hwm = InitialEquity /\ drawdown = Frac(0, 1)
  /\ losses = 0 /\ outcomes = << >> /\ totalTrades = 0
  /\ haltFlag = FALSE
  /\ macro = 100
  /\ mode \in {"research", "shadow"}
  /\ weekday \in 0..(DaysPerWeek - 1)

-----------------------------------------------------------------------------
(* The gate's rules, each a test of the account as it stands when the      *)
(* proposal arrives.  A proposal says which symbol it trades and whether   *)
(* its plan is complete (rule 9: prices, hypothesis, composite score).     *)

Proposal == [symbol : Symbols, complete : BOOLEAN]

\* Rule 7 asks the regime for a volume_ratio.  RegimeContext has no such
\* field, so the default 1.0 is what it compares with 5.0.
RegimeVolumeRatio == 1

\* Slip: takes the positions to be keyed by symbol.
SymbolFreeByKey(p) == p.symbol \notin DOMAIN openPositions
SymbolFree(p) == p.symbol \notin Held
ModeAllows == mode # "research"
\* Slip: forgets the weekly limit.
WithinDailyLimitOnly == 100 * dailyPct.num >= DailyLossLimit * dailyPct.den
WithinLossLimits ==
  /\ 100 * dailyPct.num >= DailyLossLimit * dailyPct.den
  /\ 100 * weeklyPct.num >= WeeklyLossLimit * weeklyPct.den
\* Slip: trusts the flag instead of the drawdown.
WithinDrawdownByFlag == ~haltFlag
WithinDrawdown == ~AbovePct(drawdown, MaxDrawdownHalt)
ExposureOk == equity <= 0 \/ 100 * TotalMargin <= MaxMarginUtilization * equity
NoPump == RegimeVolumeRatio <= 5

\* Rules 0 to 7 and 9.  Rule 5 limits the "btc" cluster, which is where
\* every position is: _approve leaves correlation_cluster at its default, so
\* rule 5 tests the same sum against the same limit as rule 4.
Passes(p) ==
  /\ SymbolFree(p)
  /\ ModeAllows
  /\ WithinLossLimits
  /\ WithinDrawdown
  /\ ExposureOk
  /\ p.symbol \in Eligible
  /\ NoPump
  /\ p.complete

-----------------------------------------------------------------------------
(* Writes to the portfolio.                                                *)

\* SystemState.open_position: the margin, not the notional, leaves available.
OpenPosition(id, pos) ==
  /\ openPositions' = [i \in DOMAIN openPositions \cup {id} |->
                         IF i = id THEN pos ELSE openPositions[i]]
  /\ available' = available - pos.margin
  /\ UNCHANGED <<equity, pnlVars, recordVars>>

\* recent_outcomes after one more trade.
Appended(won) ==
  LET all == Append(outcomes, won)
  IN  IF Len(all) > Window THEN Tail(all) ELSE all

\* high_water_mark after a trade that leaves equity e.
Peak(won, e) == IF won /\ e > hwm THEN e ELSE hwm

\* SystemState.close_position.
ClosePosition(id, pnl) ==
  /\ openPositions' = [i \in DOMAIN openPositions \ {id} |-> openPositions[i]]
  /\ available' = available + openPositions[id].margin
  /\ equity' = equity + pnl
  /\ dailyPnl' = dailyPnl + pnl
  /\ dailyPct' = Frac(dailyPnl', equity')
  /\ weeklyPnl' = weeklyPnl + pnl
  /\ weeklyPct' = Frac(weeklyPnl', equity')
  /\ outcomes' = Appended(pnl >= 0)
  /\ losses' = IF pnl < 0 THEN losses + 1 ELSE 0
  /\ hwm' = Peak(pnl >= 0, equity')
  /\ drawdown' = IF hwm' > 0 THEN Frac(hwm' - equity', hwm') ELSE drawdown
  /\ totalTrades' = totalTrades + 1

-----------------------------------------------------------------------------
(* The handlers.                                                           *)

\* Slip: without the cap at 10% of equity, four times the risk.
OrdersUncapped(sym) ==
  {[symbol |-> sym, margin |-> (equity * m) \div 100,
    risk |-> (equity * 4 * r) \div 100] : m \in MarginPcts, r \in RiskPcts}

\* What _compute_order may size: nothing when the macro modifier is 0,
\* otherwise some margin and some risk within the bounds of RiskSizing.
Orders(sym) ==
  IF macro = 0
    THEN {[symbol |-> sym, margin |-> 0, risk |-> 0]}
    ELSE {[symbol |-> sym, margin |-> (equity * m) \div 100,
           risk |-> (equity * r) \div 100] : m \in MarginPcts, r \in RiskPcts}

\* _evaluate_proposal, every rule passing: the approval is published, then
\* the position opened, then PositionOpenEvent published.
Approve(p) ==
  /\ totalTrades + Cardinality(DOMAIN openPositions) < MaxTrades
  /\ Passes(p)
  /\ \E pos \in Orders(p.symbol), id \in PositionIds \ DOMAIN openPositions :
       OpenPosition(id, pos)
  /\ UNCHANGED <<haltFlag, macro, mode, weekday>>

\* _evaluate_proposal, some rule failing: a rejection is published for the
\* journal and nothing is written.
Reject(p) == ~Passes(p) /\ UNCHANGED vars

\* ExitGroup._execute_exit: the position is closed before its
\* PositionCloseEvent is published.
Exit(id) ==
  /\ \E pnl \in -openPositions[id].risk .. 3 * openPositions[id].risk :
       equity + pnl <= MaxEquity /\ ClosePosition(id, pnl)
  /\ UNCHANGED <<haltFlag, macro, mode, weekday>>

\* NewsMacroGroup on a bar close: SystemState.update_macro_state.  Of its
\* schedule the account only tells "block" from the positive modifiers.
MacroModifiers == {0, 100}

UpdateMacro(m) ==
  /\ m # macro
  /\ macro' = m
  /\ UNCHANGED <<accountVars, haltFlag, mode, weekday>>

\* Slips: Monday taken for the seventh day; percentages left by the reset.
StartsWeekIso(day) == day = DaysPerWeek
ClearsDailyAmountOnly == dailyPnl' = 0 /\ UNCHANGED dailyPct

\* bar_day.weekday() == 0, and reset_daily_pnl.
StartsWeek(day) == day = 0
ClearsDaily == dailyPnl' = 0 /\ dailyPct' = Frac(0, 1)

\* The first bar of a later day.  BacktestEngine then clears the daily P&L,
\* and the weekly P&L when that day is a Monday; the live runner does not
\* look at the date.
NewDay(d) ==
  /\ weekday' = (weekday + d) % DaysPerWeek
  /\ IF ResetsPnl
       THEN /\ ClearsDaily
            /\ IF StartsWeek(weekday')
                 THEN weeklyPnl' = 0 /\ weeklyPct' = Frac(0, 1)
                 ELSE UNCHANGED <<weeklyPnl, weeklyPct>>
       ELSE UNCHANGED pnlVars
  /\ UNCHANGED <<equity, available, openPositions, recordVars,
                 haltFlag, macro, mode>>

DayPasses == \E d \in 1..MaxGapDays : NewDay(d)

Next ==
  \/ \E p \in Proposal : Approve(p)
  \/ \E p \in Proposal : Reject(p)
  \/ \E id \in DOMAIN openPositions : Exit(id)
  \/ \E m \in MacroModifiers : UpdateMacro(m)
  \/ DayPasses

Spec == Init /\ [][Next]_vars

\* Bars keep arriving, so days keep passing.
FairSpec == Spec /\ WF_vars(DayPasses)

-----------------------------------------------------------------------------
(* Properties.                                                             *)

Fraction == [num : Int, den : Int]
Position == [symbol : Symbols, margin : Int, risk : Int]

\* The account has the shape the code gives it.
TypeOK ==
  /\ equity \in Int /\ available \in Int
  /\ DOMAIN openPositions \subseteq PositionIds
  /\ \A i \in DOMAIN openPositions : openPositions[i] \in Position
  /\ dailyPnl \in Int /\ weeklyPnl \in Int /\ hwm \in Int
  /\ dailyPct \in Fraction /\ weeklyPct \in Fraction /\ drawdown \in Fraction
  /\ losses \in Nat /\ totalTrades \in Nat
  /\ outcomes \in Seq(BOOLEAN) /\ Len(outcomes) <= Window
  /\ haltFlag \in BOOLEAN /\ macro \in 0..100
  /\ mode \in {"research", "shadow"} /\ weekday \in 0..(DaysPerWeek - 1)

\* At most one open position per symbol (rule 0), although positions are
\* keyed by their own ids and the approval is published before the position
\* is recorded.
OnePositionPerSymbol ==
  \A i, j \in DOMAIN openPositions :
    openPositions[i].symbol = openPositions[j].symbol => i = j

\* The percentages the gate reads are those of the amounts as they are now:
\* no operation changes an amount and leaves its percentage stale.
SameFraction(f, g) == f.num * g.den = g.num * f.den
PercentagesCurrent ==
  /\ SameFraction(dailyPct, Frac(dailyPnl, equity))
  /\ SameFraction(weeklyPct, Frac(weeklyPnl, equity))
  /\ SameFraction(drawdown, Drawdown)

\* The high-water mark is at least the equity and never below the initial
\* equity, although close_position raises it only on a trade that does not
\* lose.
HighWaterMarkIsPeak == hwm >= equity /\ hwm >= InitialEquity

\* What the drawdown halt really bounds.  It stops entries below 60% of the
\* high-water mark, but each position still open at that moment may lose up
\* to 10% of it: every eligible symbol without a position accounts for one
\* such loss already taken.
LossBudget ==
  10 * equity >= hwm * (6 - Cardinality(Eligible \ Held))

\* With at most five symbols (the runner has three) the account can never be
\* wiped out.
Solvent == Cardinality(Eligible) <= 5 => equity > 0

Opens == DOMAIN openPositions' \ DOMAIN openPositions # {}

\* A position is opened only while the account, recomputed from its amounts
\* and not from cached percentages, is solvent and inside the daily, weekly
\* and drawdown limits.
EntriesInsideLimits ==
  [][Opens => /\ equity > 0
              /\ 100 * dailyPnl >= DailyLossLimit * equity
              /\ 100 * weeklyPnl >= WeeklyLossLimit * equity
              /\ 100 * (hwm - equity) <= MaxDrawdownHalt * hwm]_vars

\* A drawdown halt with no position open is final: no reset lifts it and the
\* account never trades again.
Flat == openPositions = << >>
HaltWhenFlatIsFinal ==
  [][Flat /\ AbovePct(Drawdown, MaxDrawdownHalt)
       => Flat' /\ equity' = equity /\ AbovePct(Drawdown', MaxDrawdownHalt)]_vars

\* Under BacktestEngine a breached daily or weekly loss limit is lifted by
\* the passing of days.
BreachedLimits ==
  {l \in {<<dailyPct, DailyLossLimit>>, <<weeklyPct, WeeklyLossLimit>>} :
     100 * l[1].num < l[2] * l[1].den}
LossLimitLifts == BreachedLimits # {} ~> BreachedLimits = {}

=============================================================================
