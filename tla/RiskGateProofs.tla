--------------------------- MODULE RiskGateProofs ---------------------------
(***************************************************************************)
(* Theorems about the account and its gate, for every set of symbols,      *)
(* every initial equity and every calendar.  The argument is one inductive *)
(* invariant, Ledger, whose parts are strengthened so that each follows    *)
(* from the others: the loss budget needs one position per symbol (a close *)
(* frees exactly one symbol), risks bounded by the high-water mark, and    *)
(* the drawdown the gate reads to be the drawdown there is.                *)
(***************************************************************************)
EXTENDS RiskGate, FiniteSetTheorems, SequenceTheorems, TLAPS

\* A cached percentage is the quotient of its amount and the equity, or the
\* zero that a reset wrote together with a zero amount.
Caches(pct, pnl) ==
  pct = Frac(pnl, equity) \/ (pnl = 0 /\ pct = Frac(0, 1))

PercentagesCached ==
  /\ Caches(dailyPct, dailyPnl)
  /\ Caches(weeklyPct, weeklyPnl)
  /\ drawdown = Drawdown \/ (equity = hwm /\ drawdown = Frac(0, 1))

\* Every open risk was at most 10% of an equity that never exceeded the
\* high-water mark.
RisksBounded ==
  \A i \in DOMAIN openPositions :
    0 <= openPositions[i].risk /\ 10 * openPositions[i].risk <= hwm

Ledger ==
  /\ TypeOK
  /\ Held \subseteq Eligible
  /\ OnePositionPerSymbol
  /\ HighWaterMarkIsPeak
  /\ PercentagesCached
  /\ RisksBounded
  /\ LossBudget

-----------------------------------------------------------------------------
(* Lemmas about the operators.                                             *)

\* The list of outcomes keeps its type and its length bound.
LEMMA AppendedType ==
  ASSUME outcomes \in Seq(BOOLEAN), Len(outcomes) <= Window, NEW won \in BOOLEAN
  PROVE  Appended(won) \in Seq(BOOLEAN) /\ Len(Appended(won)) <= Window
<1> DEFINE all == Append(outcomes, won)
<1>1. all \in Seq(BOOLEAN) /\ Len(all) = Len(outcomes) + 1 /\ all # << >>
  OBVIOUS
<1>2. Tail(all) \in Seq(BOOLEAN) /\ Len(Tail(all)) = Len(all) - 1
  BY <1>1, HeadTailProperties
<1>3. Len(outcomes) \in Nat /\ Window \in Nat
  BY BoundAssumption
<1>4. Appended(won) = IF Len(all) > Window THEN Tail(all) ELSE all
  BY DEF Appended
<1> HIDE DEF all
<1>5. CASE Len(all) > Window
  BY <1>1, <1>2, <1>3, <1>4, <1>5
<1>6. CASE ~(Len(all) > Window)
  BY <1>1, <1>3, <1>4, <1>6
<1> QED
  BY <1>5, <1>6

\* A quotient of integers is a pair of integers.
LEMMA FracType ==
  ASSUME NEW n \in Int, NEW d \in Int
  PROVE  Frac(n, d) \in Fraction
BY DEF Frac, Fraction

\* Percentages of an integer are integers between 0 and the whole.
LEMMA PercentType ==
  ASSUME NEW e \in Int, NEW p \in Int
  PROVE  (e * p) \div 100 \in Int
OBVIOUS

\* A risk of at most 10% of a positive equity.
LEMMA RiskIsTenth ==
  ASSUME NEW e \in Nat, NEW r \in 0..10
  PROVE  LET risk == (e * r) \div 100
         IN  risk \in Int /\ 0 <= risk /\ 10 * risk <= e
<1> DEFINE x == e * r
<1>1. x \in Nat /\ x <= 10 * e
  OBVIOUS
<1> HIDE DEF x
<1>2. x \div 100 \in Int /\ 0 <= x \div 100 /\ 100 * (x \div 100) <= x
  BY <1>1
<1>3. 10 * (x \div 100) <= e
  BY <1>1, <1>2
<1> QED
  BY <1>2, <1>3 DEF x

\* The symbols that hold a position, and so those that do not, are finite
\* in number.
LEMMA FreeIsFinite ==
  /\ IsFiniteSet(Eligible \ Held)
  /\ Cardinality(Eligible \ Held) \in Nat
<1>1. IsFiniteSet(Eligible)
  BY SymbolsAssumption, FS_Subset
<1>2. IsFiniteSet(Eligible \ Held)
  BY <1>1, FS_Subset
<1> QED
  BY <1>2, FS_CardinalityType

-----------------------------------------------------------------------------
(* The ledger is an inductive invariant: initially, and through each       *)
(* handler.                                                                *)

LEMMA InitLedger == Init => Ledger
<1> SUFFICES ASSUME Init PROVE Ledger
  OBVIOUS
<1>1. InitialEquity \in Int /\ InitialEquity > 0
  BY EquityAssumption
<1>2. DOMAIN openPositions = {}
  BY DEF Init
<1>3. Held = {}
  BY <1>2 DEF Held
<1>4. TypeOK
  <2>1. Frac(0, 1) \in Fraction
    BY FracType
  <2>2. outcomes \in Seq(BOOLEAN) /\ Len(outcomes) <= Window
    BY BoundAssumption DEF Init
  <2>3. haltFlag \in BOOLEAN /\ mode \in {"research", "shadow"}
    BY DEF Init
  <2>4. /\ equity \in Int /\ available \in Int /\ hwm \in Int
        /\ dailyPnl \in Int /\ weeklyPnl \in Int /\ losses \in Nat
        /\ totalTrades \in Nat /\ macro \in 0..100 /\ weekday \in 0..(DaysPerWeek - 1)
    BY <1>1 DEF Init
  <2>5. /\ dailyPct \in Fraction /\ weeklyPct \in Fraction /\ drawdown \in Fraction
    BY <2>1 DEF Init
  <2> QED
    BY <1>2, <2>2, <2>3, <2>4, <2>5 DEF TypeOK
<1>5. OnePositionPerSymbol /\ RisksBounded
  BY <1>2 DEF OnePositionPerSymbol, RisksBounded
<1>6. HighWaterMarkIsPeak
  BY <1>1 DEF Init, HighWaterMarkIsPeak
<1>7. PercentagesCached
  BY <1>1 DEF Init, PercentagesCached, Caches
<1>8. LossBudget
  BY <1>1, FreeIsFinite DEF Init, LossBudget
<1> QED
  BY <1>3, <1>4, <1>5, <1>6, <1>7, <1>8 DEF Ledger

\* The drawdown test on the cached drawdown is a test of the amounts.
LEMMA WithinDrawdownMeans ==
  ASSUME Ledger, WithinDrawdown
  PROVE  100 * (hwm - equity) <= 40 * hwm /\ 0 < hwm /\ 0 < equity /\ equity <= hwm
<1>1. hwm \in Int /\ equity \in Int /\ hwm > 0 /\ equity <= hwm
  BY EquityAssumption DEF Ledger, TypeOK, HighWaterMarkIsPeak
<1>2. CASE drawdown = Drawdown
  <2>1. drawdown = [num |-> hwm - equity, den |-> hwm]
    BY <1>1, <1>2 DEF Drawdown, Frac
  <2> QED
    BY <1>1, <2>1 DEF WithinDrawdown, AbovePct, MaxDrawdownHalt
<1>3. CASE equity = hwm
  BY <1>1, <1>3
<1> QED
  BY <1>2, <1>3 DEF Ledger, PercentagesCached

\* Opening a position on a symbol that is free, with a risk of at most 10%
\* of the equity, while the drawdown is at most 40%.
LEMMA ApproveLedger ==
  ASSUME Ledger, NEW p \in Proposal, Approve(p)
  PROVE  Ledger'
<1>1. PICK pos \in Orders(p.symbol), id \in PositionIds \ DOMAIN openPositions :
        OpenPosition(id, pos)
  BY DEF Approve
<1>2. UNCHANGED <<equity, pnlVars, recordVars, haltFlag, macro, mode, weekday>>
  BY <1>1 DEF Approve, OpenPosition
<1>3. p.symbol \in Eligible /\ p.symbol \notin Held /\ WithinDrawdown
  BY DEF Approve, Passes, SymbolFree
<1>4. 100 * (hwm - equity) <= 40 * hwm /\ 0 < hwm /\ 0 < equity /\ equity <= hwm
  BY <1>3, WithinDrawdownMeans
<1>5. equity \in Int /\ hwm \in Int /\ available \in Int
  BY DEF Ledger, TypeOK
<1>6. pos.symbol = p.symbol /\ pos \in Position /\ 0 <= pos.risk /\ 10 * pos.risk <= hwm
  <2>1. p.symbol \in Symbols
    BY <1>3, SymbolsAssumption
  <2>2. CASE macro = 0
    BY <2>1, <2>2, <1>1, <1>4, <1>5 DEF Orders, Position
  <2>3. CASE macro # 0
    <3>1. PICK m \in MarginPcts, r \in RiskPcts :
            pos = [symbol |-> p.symbol, margin |-> (equity * m) \div 100,
                   risk |-> (equity * r) \div 100]
      BY <1>1, <2>3 DEF Orders
    <3>2. m \in Int /\ r \in 0..10 /\ equity \in Nat
      BY <1>4, <1>5, OrderAssumption
    <3>3. (equity * m) \div 100 \in Int
      BY <3>2, <1>5, PercentType
    <3>4. LET risk == (equity * r) \div 100
          IN  risk \in Int /\ 0 <= risk /\ 10 * risk <= equity
      BY <3>2, RiskIsTenth
    <3> QED
      BY <2>1, <3>1, <3>3, <3>4, <1>4, <1>5 DEF Position
  <2> QED
    BY <2>2, <2>3
<1>7. /\ DOMAIN openPositions' = DOMAIN openPositions \cup {id}
      /\ openPositions'[id] = pos
      /\ \A i \in DOMAIN openPositions : openPositions'[i] = openPositions[i]
  BY <1>1 DEF OpenPosition
<1>8. Held' = Held \cup {p.symbol}
  BY <1>6, <1>7 DEF Held
<1>9. TypeOK'
  <2>1. available' \in Int
    BY <1>1, <1>5, <1>6 DEF OpenPosition, Position
  <2> QED
    BY <2>1, <1>2, <1>6, <1>7 DEF Ledger, TypeOK, pnlVars, recordVars
<1>10. OnePositionPerSymbol'
  BY <1>3, <1>6, <1>7 DEF Ledger, OnePositionPerSymbol, Held
<1>11. HighWaterMarkIsPeak' /\ PercentagesCached'
  BY <1>2 DEF Ledger, HighWaterMarkIsPeak, PercentagesCached, Caches, Drawdown,
              pnlVars, recordVars
<1>12. RisksBounded'
  BY <1>2, <1>6, <1>7 DEF Ledger, RisksBounded, recordVars
<1>13. LossBudget'
  <2>1. Cardinality(Eligible \ Held') \in Nat
    BY <1>3, <1>8, FreeIsFinite, FS_RemoveElement, FS_CardinalityType, FS_Subset,
       SymbolsAssumption
  <2>2. \A c \in Nat : 10 * equity >= hwm * (6 - c)
    BY <1>4, <1>5
  <2> QED
    BY <2>1, <2>2, <1>2 DEF LossBudget, recordVars
<1> QED
  BY <1>3, <1>8, <1>9, <1>10, <1>11, <1>12, <1>13 DEF Ledger

\* What closing a position leaves of it: the held symbols lose exactly its
\* own, and nothing else about the other positions changes.
LEMMA CloseFreesOneSymbol ==
  ASSUME Ledger, NEW id \in DOMAIN openPositions, NEW pnl, ClosePosition(id, pnl)
  PROVE  /\ DOMAIN openPositions' = DOMAIN openPositions \ {id}
         /\ \A i \in DOMAIN openPositions' : openPositions'[i] = openPositions[i]
         /\ openPositions[id].symbol \in Eligible
         /\ Held' = Held \ {openPositions[id].symbol}
         /\ Cardinality(Eligible \ Held') = Cardinality(Eligible \ Held) + 1
<1> DEFINE sym == openPositions[id].symbol
<1>1. /\ DOMAIN openPositions' = DOMAIN openPositions \ {id}
      /\ \A i \in DOMAIN openPositions' : openPositions'[i] = openPositions[i]
  BY DEF ClosePosition
<1>2. sym \in Held /\ Held \subseteq Eligible
  BY DEF Held, Ledger
<1>3. Held' = Held \ {sym}
  <2>1. \A i \in DOMAIN openPositions : openPositions[i].symbol = sym => i = id
    BY DEF Ledger, OnePositionPerSymbol
  <2> QED
    BY <1>1, <2>1 DEF Held
<1>4. Eligible \ Held' = (Eligible \ Held) \cup {sym} /\ sym \notin Eligible \ Held
  BY <1>2, <1>3
<1>5. Cardinality(Eligible \ Held') = Cardinality(Eligible \ Held) + 1
  BY <1>4, FreeIsFinite, FS_AddElement
<1> QED
  BY <1>1, <1>2, <1>3, <1>5

\* The arithmetic of the loss budget: one more loss of at most a tenth of
\* the high-water mark against one more free symbol.
LEMMA BudgetAfterClose ==
  ASSUME NEW e \in Int, NEW h \in Int, NEW c \in Nat, NEW pnl \in Int,
         NEW r \in Int, 0 < h, 10 * r <= h, -r <= pnl, e <= h,
         10 * e >= h * (6 - c),
         NEW h2 \in Int,
         h2 = IF pnl < 0 THEN h ELSE IF e + pnl > h THEN e + pnl ELSE h
  PROVE  10 * (e + pnl) >= h2 * (6 - (c + 1))
<1>1. h * (6 - (c + 1)) = h * (6 - c) - h
  OBVIOUS
<1>2. CASE h2 = h
  <2>1. 10 * pnl >= -h
    OBVIOUS
  <2> QED
    BY <1>1, <1>2, <2>1
<1>3. CASE h2 = e + pnl /\ h2 > h
  <2>1. 6 - (c + 1) <= 5 /\ h2 > 0
    BY <1>3
  <2>2. h2 * (6 - (c + 1)) <= h2 * 5
    BY <2>1
  <2> QED
    BY <1>3, <2>1, <2>2
<1> QED
  BY <1>2, <1>3

\* A peak is above what it was and above what the trade leaves.
LEMMA PeakAfterClose ==
  ASSUME NEW e \in Int, NEW h \in Int, NEW pnl \in Int, e <= h,
         NEW h2, h2 = IF pnl < 0 THEN h ELSE IF e + pnl > h THEN e + pnl ELSE h
  PROVE  e + pnl \in Int /\ h2 \in Int /\ h2 >= h /\ e + pnl <= h2
<1>1. CASE pnl < 0
  BY <1>1
<1>2. CASE ~(pnl < 0)
  BY <1>2
<1> QED
  BY <1>1, <1>2

LEMMA ExitLedger ==
  ASSUME Ledger, NEW id \in DOMAIN openPositions, Exit(id)
  PROVE  Ledger'
<1> DEFINE risk == openPositions[id].risk
<1>1. PICK pnl \in -risk .. 3 * risk : ClosePosition(id, pnl)
  BY DEF Exit
<1>2. /\ equity \in Int /\ hwm \in Int /\ available \in Int /\ losses \in Nat
      /\ dailyPnl \in Int /\ weeklyPnl \in Int /\ totalTrades \in Nat
      /\ openPositions[id] \in Position /\ 0 < hwm /\ equity <= hwm
      /\ InitialEquity <= hwm /\ InitialEquity \in Nat
      /\ outcomes \in Seq(BOOLEAN) /\ Len(outcomes) <= Window
  BY EquityAssumption DEF Ledger, TypeOK, HighWaterMarkIsPeak
<1>3. risk \in Int /\ pnl \in Int /\ -risk <= pnl /\ 10 * risk <= hwm
  BY <1>1, <1>2 DEF Position, Ledger, RisksBounded
<1>4. /\ equity' = equity + pnl
      /\ hwm' = IF pnl < 0 THEN hwm ELSE IF equity + pnl > hwm THEN equity + pnl ELSE hwm
      /\ available' = available + openPositions[id].margin
      /\ dailyPnl' = dailyPnl + pnl /\ dailyPct' = Frac(dailyPnl', equity')
      /\ weeklyPnl' = weeklyPnl + pnl /\ weeklyPct' = Frac(weeklyPnl', equity')
      /\ losses' \in {0, losses + 1} /\ totalTrades' = totalTrades + 1
      /\ outcomes' = Appended(pnl >= 0)
      /\ drawdown' = IF hwm' > 0 THEN Frac(hwm' - equity', hwm') ELSE drawdown
  BY <1>1, <1>2, <1>3 DEF ClosePosition, Peak
<1> HIDE DEF risk
<1>5. equity' \in Int /\ hwm' \in Int /\ hwm' >= hwm /\ equity' <= hwm'
  <2>1. /\ equity + pnl \in Int /\ hwm' \in Int
        /\ hwm' >= hwm /\ equity + pnl <= hwm'
    BY ONLY <1>2, <1>3, <1>4, pnl \in Int, PeakAfterClose
  <2> QED
    BY <1>4, <2>1
<1>6. drawdown' = Frac(hwm' - equity', hwm')
  BY <1>2, <1>4, <1>5
<1>7. /\ DOMAIN openPositions' = DOMAIN openPositions \ {id}
      /\ \A i \in DOMAIN openPositions' : openPositions'[i] = openPositions[i]
      /\ Held' = Held \ {openPositions[id].symbol}
      /\ Cardinality(Eligible \ Held') = Cardinality(Eligible \ Held) + 1
  BY <1>1, CloseFreesOneSymbol
<1>8. TypeOK'
  <2>1. dailyPct' \in Fraction /\ weeklyPct' \in Fraction /\ drawdown' \in Fraction
    BY <1>2, <1>3, <1>4, <1>5, <1>6, FracType
  <2>2. available' \in Int
    BY <1>2, <1>4 DEF Position
  <2>3. outcomes' \in Seq(BOOLEAN) /\ Len(outcomes') <= Window
    <3>1. (pnl >= 0) \in BOOLEAN
      OBVIOUS
    <3>2. Appended(pnl >= 0) \in Seq(BOOLEAN) /\ Len(Appended(pnl >= 0)) <= Window
      BY <1>2, <3>1, AppendedType
    <3> QED
      BY <1>4, <3>2
  <2>4. /\ DOMAIN openPositions' \subseteq PositionIds
        /\ \A i \in DOMAIN openPositions' : openPositions'[i] \in Position
    BY <1>7 DEF Ledger, TypeOK
  <2>5. dailyPnl' \in Int /\ weeklyPnl' \in Int /\ losses' \in Nat /\ totalTrades' \in Nat
    BY <1>2, <1>3, <1>4
  <2>6. UNCHANGED <<haltFlag, macro, mode, weekday>>
    BY DEF Exit
  <2> QED
    BY <1>5, <2>1, <2>2, <2>3, <2>4, <2>5, <2>6 DEF Ledger, TypeOK
<1>9. Held' \subseteq Eligible /\ OnePositionPerSymbol'
  BY <1>7 DEF Ledger, OnePositionPerSymbol
<1>10. HighWaterMarkIsPeak'
  BY <1>2, <1>5 DEF HighWaterMarkIsPeak
<1>11. PercentagesCached'
  BY <1>4, <1>6 DEF PercentagesCached, Caches, Drawdown
<1>12. RisksBounded'
  <2> SUFFICES ASSUME NEW i \in DOMAIN openPositions'
               PROVE  0 <= openPositions'[i].risk /\ 10 * openPositions'[i].risk <= hwm'
    BY DEF RisksBounded
  <2>1. i \in DOMAIN openPositions /\ openPositions'[i] = openPositions[i]
    BY <1>7
  <2>2. /\ openPositions[i].risk \in Int
        /\ 0 <= openPositions[i].risk /\ 10 * openPositions[i].risk <= hwm
    BY <2>1 DEF Ledger, TypeOK, Position, RisksBounded
  <2> QED
    BY <1>2, <1>5, <2>1, <2>2
<1>13. LossBudget'
  <2>1. 10 * (equity + pnl) >= hwm' * (6 - (Cardinality(Eligible \ Held) + 1))
    BY <1>2, <1>3, <1>4, <1>5, FreeIsFinite, BudgetAfterClose DEF Ledger, LossBudget
  <2> QED
    BY <1>4, <1>7, <2>1 DEF LossBudget
<1> QED
  BY <1>8, <1>9, <1>10, <1>11, <1>12, <1>13 DEF Ledger

LEMMA MacroLedger ==
  ASSUME Ledger, NEW m \in MacroModifiers, UpdateMacro(m)
  PROVE  Ledger'
<1>1. UNCHANGED <<accountVars, haltFlag, mode, weekday>> /\ macro' \in 0..100
  BY DEF UpdateMacro, MacroModifiers
<1>2. Held' = Held
  BY <1>1 DEF Held, accountVars
<1> QED
  BY <1>1, <1>2 DEF Ledger, TypeOK, OnePositionPerSymbol, HighWaterMarkIsPeak,
    PercentagesCached, Caches, Drawdown, RisksBounded, LossBudget,
    accountVars, pnlVars, recordVars

LEMMA DayLedger ==
  ASSUME Ledger, DayPasses
  PROVE  Ledger'
<1>1. PICK d \in 1..MaxGapDays : NewDay(d)
  BY DEF DayPasses
<1>2. UNCHANGED <<equity, available, openPositions, recordVars, haltFlag, macro, mode>>
  BY <1>1 DEF NewDay
<1>3. Held' = Held
  BY <1>2 DEF Held
<1>4. /\ dailyPnl' \in Int /\ weeklyPnl' \in Int
      /\ dailyPct' \in Fraction /\ weeklyPct' \in Fraction
  <2>1. Frac(0, 1) \in Fraction
    BY FracType
  <2> QED
    BY <1>1, <2>1 DEF NewDay, ClearsDaily, Ledger, TypeOK, pnlVars
<1>5. weekday' \in 0..(DaysPerWeek - 1)
  BY <1>1, CalendarAssumption DEF NewDay, Ledger, TypeOK
<1>6. TypeOK'
  BY <1>2, <1>4, <1>5 DEF Ledger, TypeOK, recordVars
<1>7. PercentagesCached'
  <2>1. Caches(dailyPct, dailyPnl)'
    BY <1>1, <1>2 DEF NewDay, ClearsDaily, Ledger, PercentagesCached, Caches, pnlVars
  <2>2. Caches(weeklyPct, weeklyPnl)'
    BY <1>1, <1>2 DEF NewDay, ClearsDaily, Ledger, PercentagesCached, Caches, pnlVars
  <2> QED
    BY <1>2, <2>1, <2>2 DEF Ledger, PercentagesCached, Drawdown, recordVars
<1> QED
  BY <1>2, <1>3, <1>6, <1>7 DEF Ledger, OnePositionPerSymbol, HighWaterMarkIsPeak,
    RisksBounded, LossBudget, recordVars

LEMMA StutterLedger == Ledger /\ UNCHANGED vars => Ledger'
<1> SUFFICES ASSUME Ledger, UNCHANGED vars PROVE Ledger'
  OBVIOUS
<1>1. Held' = Held
  BY DEF Held, vars, accountVars
<1> QED
  BY <1>1 DEF Ledger, TypeOK, OnePositionPerSymbol, HighWaterMarkIsPeak,
    PercentagesCached, Caches, Drawdown, RisksBounded, LossBudget,
    vars, accountVars, pnlVars, recordVars

LEMMA NextLedger == Ledger /\ [Next]_vars => Ledger'
<1> SUFFICES ASSUME Ledger, [Next]_vars PROVE Ledger'
  OBVIOUS
<1>1. ASSUME NEW p \in Proposal, Approve(p) PROVE Ledger'
  BY <1>1, ApproveLedger
<1>2. ASSUME NEW p \in Proposal, Reject(p) PROVE Ledger'
  BY <1>2, StutterLedger DEF Reject
<1>3. ASSUME NEW id \in DOMAIN openPositions, Exit(id) PROVE Ledger'
  BY <1>3, ExitLedger
<1>4. ASSUME NEW m \in MacroModifiers, UpdateMacro(m) PROVE Ledger'
  BY <1>4, MacroLedger
<1>5. CASE DayPasses
  BY <1>5, DayLedger
<1>6. CASE UNCHANGED vars
  BY <1>6, StutterLedger
<1> QED
  BY <1>1, <1>2, <1>3, <1>4, <1>5, <1>6 DEF Next

\* The invariant every theorem below is drawn from.
THEOREM LedgerInvariant == Spec => []Ledger
<1>1. Init => Ledger
  BY InitLedger
<1>2. Ledger /\ [Next]_vars => Ledger'
  BY NextLedger
<1> QED
  BY <1>1, <1>2, PTL DEF Spec

-----------------------------------------------------------------------------
(* What the account and its gate guarantee.                                *)

\* The account keeps its shape through every handler.
THEOREM TypeCorrect == Spec => []TypeOK
<1>1. Ledger => TypeOK
  BY DEF Ledger
<1> QED
  BY <1>1, LedgerInvariant, PTL

\* Rule 0 suffices: no sequence of approvals and exits leaves two positions
\* on one symbol.
THEOREM SymbolsHeldOnce == Spec => []OnePositionPerSymbol
<1>1. Ledger => OnePositionPerSymbol
  BY DEF Ledger
<1> QED
  BY <1>1, LedgerInvariant, PTL

\* The high-water mark is the peak of the equity.
THEOREM PeakIsPeak == Spec => []HighWaterMarkIsPeak
<1>1. Ledger => HighWaterMarkIsPeak
  BY DEF Ledger
<1> QED
  BY <1>1, LedgerInvariant, PTL

\* No handler leaves a cached percentage that is not the quotient of the
\* amounts as they are.
THEOREM PercentagesNeverStale == Spec => []PercentagesCurrent
<1>1. Ledger => PercentagesCurrent
  <2> SUFFICES ASSUME Ledger PROVE PercentagesCurrent
    OBVIOUS
  <2>1. /\ equity \in Int /\ hwm \in Int /\ hwm > 0
        /\ dailyPnl \in Int /\ weeklyPnl \in Int
    BY EquityAssumption DEF Ledger, TypeOK, HighWaterMarkIsPeak
  <2>2. ASSUME NEW pnl \in Int, NEW pct, Caches(pct, pnl)
        PROVE  SameFraction(pct, Frac(pnl, equity))
    <3>1. CASE pct = Frac(pnl, equity)
      BY <3>1 DEF SameFraction
    <3>2. CASE pnl = 0 /\ pct = Frac(0, 1)
      BY <2>1, <3>2 DEF SameFraction, Frac
    <3> QED
      BY <2>2, <3>1, <3>2 DEF Caches
  <2>3. SameFraction(drawdown, Drawdown)
    <3>1. CASE drawdown = Drawdown
      BY <3>1 DEF SameFraction
    <3>2. CASE equity = hwm /\ drawdown = Frac(0, 1)
      BY <2>1, <3>2 DEF SameFraction, Drawdown, Frac
    <3> QED
      BY <3>1, <3>2 DEF Ledger, PercentagesCached
  <2> QED
    BY <2>1, <2>2, <2>3 DEF Ledger, PercentagesCached, PercentagesCurrent
<1> QED
  BY <1>1, LedgerInvariant, PTL

\* The halt at 40% drawdown, the 10% cap on a position's risk and the single
\* position per symbol bound together what the account can lose.
THEOREM LossesAreBudgeted == Spec => []LossBudget
<1>1. Ledger => LossBudget
  BY DEF Ledger
<1> QED
  BY <1>1, LedgerInvariant, PTL

\* With at most five symbols the equity stays positive.
THEOREM NeverWipedOut == Spec => []Solvent
<1>1. Ledger => Solvent
  <2> SUFFICES ASSUME Ledger, Cardinality(Eligible) <= 5 PROVE equity > 0
    BY DEF Solvent
  <2>1. IsFiniteSet(Eligible)
    BY SymbolsAssumption, FS_Subset
  <2>2. Cardinality(Eligible \ Held) <= Cardinality(Eligible)
        /\ Cardinality(Eligible) \in Nat
    BY <2>1, FS_Subset, FS_CardinalityType
  <2>3. Cardinality(Eligible \ Held) \in Nat /\ Cardinality(Eligible \ Held) <= 5
    BY <2>2, FreeIsFinite
  <2>4. hwm \in Int /\ hwm > 0 /\ equity \in Int
    BY EquityAssumption DEF Ledger, TypeOK, HighWaterMarkIsPeak
  <2>5. ASSUME NEW c \in 0..5 PROVE hwm * (6 - c) > 0
    BY <2>4
  <2> QED
    BY <2>3, <2>4, <2>5 DEF Ledger, LossBudget
<1> QED
  BY <1>1, LedgerInvariant, PTL

\* Every position is opened on a solvent account inside its daily, weekly
\* and drawdown limits, as its amounts tell and not only its percentages.
THEOREM EntriesRespectLimits == Spec => EntriesInsideLimits
<1> DEFINE Inside ==
      Opens => /\ equity > 0
               /\ 100 * dailyPnl >= DailyLossLimit * equity
               /\ 100 * weeklyPnl >= WeeklyLossLimit * equity
               /\ 100 * (hwm - equity) <= MaxDrawdownHalt * hwm
<1>1. Ledger /\ [Next]_vars => [Inside]_vars
  <2> SUFFICES ASSUME Ledger, Next, Opens
               PROVE  /\ equity > 0
                      /\ 100 * dailyPnl >= DailyLossLimit * equity
                      /\ 100 * weeklyPnl >= WeeklyLossLimit * equity
                      /\ 100 * (hwm - equity) <= MaxDrawdownHalt * hwm
    OBVIOUS
  <2>1. \E p \in Proposal : Approve(p)
    BY DEF Next, Opens, Reject, Exit, ClosePosition, UpdateMacro, DayPasses, NewDay,
           vars, accountVars
  <2>2. WithinLossLimits /\ WithinDrawdown
    BY <2>1 DEF Approve, Passes
  <2>3. /\ equity \in Int /\ dailyPnl \in Int /\ weeklyPnl \in Int
        /\ 0 < equity /\ 100 * (hwm - equity) <= 40 * hwm
    BY <2>2, WithinDrawdownMeans DEF Ledger, TypeOK
  <2>4. 100 * dailyPnl >= -15 * equity
    BY <2>2, <2>3 DEF WithinLossLimits, DailyLossLimit, Ledger, PercentagesCached,
                      Caches, Frac
  <2>5. 100 * weeklyPnl >= -30 * equity
    BY <2>2, <2>3 DEF WithinLossLimits, WeeklyLossLimit, Ledger, PercentagesCached,
                      Caches, Frac
  <2> QED
    BY <2>3, <2>4, <2>5 DEF DailyLossLimit, WeeklyLossLimit, MaxDrawdownHalt
<1>2. QED
  BY <1>1, LedgerInvariant, PTL DEF Spec, EntriesInsideLimits

\* A drawdown halt that finds the account flat is for ever: nothing but a
\* trade moves the equity or the high-water mark, and no trade is allowed.
THEOREM FlatHaltIsFinal == Spec => HaltWhenFlatIsFinal
<1> DEFINE Stays ==
      Flat /\ AbovePct(Drawdown, MaxDrawdownHalt)
        => Flat' /\ equity' = equity /\ AbovePct(Drawdown', MaxDrawdownHalt)
<1>1. Ledger /\ [Next]_vars => [Stays]_vars
  <2> SUFFICES ASSUME Ledger, Next, Flat, AbovePct(Drawdown, MaxDrawdownHalt)
               PROVE  Flat' /\ equity' = equity /\ AbovePct(Drawdown', MaxDrawdownHalt)
    OBVIOUS
  <2>1. DOMAIN openPositions = {}
    BY DEF Flat
  <2>2. ~WithinDrawdown
    <3>1. equity \in Int /\ hwm \in Int /\ hwm > 0
      BY EquityAssumption DEF Ledger, TypeOK, HighWaterMarkIsPeak
    <3>2. drawdown = Drawdown
      BY <3>1 DEF Ledger, PercentagesCached, AbovePct, Drawdown, Frac, MaxDrawdownHalt
    <3> QED
      BY <3>2 DEF WithinDrawdown
  <2>3. UNCHANGED <<openPositions, equity, hwm>>
    BY <2>1, <2>2 DEF Next, Approve, Passes, Reject, UpdateMacro, DayPasses, NewDay,
                      vars, accountVars, recordVars
  <2> QED
    BY <2>3 DEF Flat, Drawdown
<1>2. QED
  BY <1>1, LedgerInvariant, PTL DEF Spec, HaltWhenFlatIsFinal

=============================================================================
