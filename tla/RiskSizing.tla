----------------------------- MODULE RiskSizing -----------------------------
(***************************************************************************)
(* The order RiskLeverageGroup computes for an approved proposal: the stop *)
(* of ATRStopPlacer (risk/sizing.py), the leverage ladder and the size     *)
(* (groups/risk_leverage/group.py).                                        *)
(*                                                                         *)
(* Prices are integers.  Amounts of money are in thousandths of equity and *)
(* leverage is in thousandths too; every product of the ladder is exact in *)
(* that unit, and divisions round down.                                    *)
(***************************************************************************)
EXTENDS Integers

CONSTANTS
  Proposals,  \* the proposals explored, a subset of Proposal
  NoOrder     \* nothing computed yet

Proposal == [long : BOOLEAN, entry : Nat \ {0},
             atr : Nat,                  \* regime.atr14, a multiple of 10
             atrRatio : Nat,             \* regime.atr14_vs_sma20, in percent
             score : 0..100, drawdown : 0..100,
             macro : 0..100,             \* size_reduction, in percent
             mdp : {50, 100, 150}]       \* size_multiplier, in percent

ASSUME ProposalAssumption == Proposals \subseteq Proposal

VARIABLES proposal, order
sizingVars == <<proposal, order>>

-----------------------------------------------------------------------------
(* The stop.                                                               *)

Abs(x) == IF x < 0 THEN -x ELSE x

\* The regime's ATR, or 1000 before the first one is known.
Atr(p) == IF p.atr > 0 THEN p.atr ELSE 1000
HighVol(p) == p.atrRatio > 150
\* Tenths of an ATR between the entry and the stop before the shift.
StopTenths(p) == IF HighVol(p) THEN 25 ELSE 20

Against(p, d) == IF p.long THEN p.entry - d ELSE p.entry + d

\* Within 0.2 ATR of a multiple of 1000.
NearRound(price, atr) ==
  LET nearest == ((price + 500) \div 1000) * 1000
  IN 10 * Abs(price - nearest) < 2 * atr

StopDistance(p) ==
  LET d == (StopTenths(p) * Atr(p)) \div 10
  IN IF NearRound(Against(p, d), Atr(p)) THEN d + (5 * Atr(p)) \div 10 ELSE d

-----------------------------------------------------------------------------
(* The leverage.                                                           *)

Lesser(a, b) == IF a < b THEN a ELSE b
Most(a, b) == IF a > b THEN a ELSE b

BaseLeverage(p) == IF p.score >= 75 THEN 20000
                   ELSE IF p.score >= 65 THEN 15000
                   ELSE IF p.score >= 55 THEN 10000
                   ELSE 7000
\* In tenths: by the stop's distance in percent of the entry.
VolatilityFactor(p) == IF 100 * StopDistance(p) > 4 * p.entry THEN 6
                       ELSE IF 1000 * StopDistance(p) < 15 * p.entry THEN 12
                       ELSE 10
DrawdownFactor(p) == IF p.drawdown > 25 THEN 50
                     ELSE IF p.drawdown > 15 THEN 65
                     ELSE IF p.drawdown > 8 THEN 80
                     ELSE 100
Adjusted(p) == (BaseLeverage(p) * VolatilityFactor(p) * DrawdownFactor(p)) \div 1000

\* The leverage at which 5% of the equity is lost at the stop.
RiskCap(p) == IF StopDistance(p) > 0
              THEN Lesser(Adjusted(p), (50 * p.entry) \div StopDistance(p))
              ELSE Adjusted(p)
\* Slip: no lower clamp.
LeverageUnclamped(p) == Lesser(35000, RiskCap(p))
Leverage(p) == Most(10000, Lesser(35000, RiskCap(p)))

-----------------------------------------------------------------------------
(* The size.                                                               *)

MaxNotional == 3000
MaxRisk == 100

Notional(p) == Lesser(MaxNotional, (Leverage(p) * p.macro * p.mdp) \div 10000)

\* The risk of a size at the stop.
RiskOf(p, size) == (size * StopDistance(p)) \div p.entry

\* Slip: the risk is capped on paper, the size is not.
SizeUnscaled(p) == Notional(p)
Size(p) == IF Notional(p) * StopDistance(p) > MaxRisk * p.entry
           THEN (MaxRisk * p.entry) \div StopDistance(p)
           ELSE Notional(p)

Order(p) ==
  [leverage |-> Leverage(p), size |-> Size(p),
   risk |-> Lesser(MaxRisk, RiskOf(p, Notional(p))),
   stop |-> Against(p, StopDistance(p)),
   target |-> Against(p, -3 * StopDistance(p))]

-----------------------------------------------------------------------------
(* Rule 9 has passed: the proposal has prices and a score of at least 0.50.*)

InitSizing == proposal = NoOrder /\ order = NoOrder

Propose ==
  /\ order = NoOrder /\ proposal = NoOrder
  /\ proposal' \in {p \in Proposals : p.score >= 50}
  /\ UNCHANGED order

ComputeOrder ==
  /\ order = NoOrder /\ proposal # NoOrder
  /\ order' = Order(proposal)
  /\ UNCHANGED proposal

\* The position is opened; the next proposal starts afresh.
Approved ==
  /\ order # NoOrder
  /\ order' = NoOrder /\ proposal' = NoOrder

NextSizing == Propose \/ ComputeOrder \/ Approved

SizingSpec == InitSizing /\ [][NextSizing]_sizingVars

-----------------------------------------------------------------------------
(* Properties.                                                             *)

\* The margin an order needs is at most 30% of equity: the cap on the notional
\* and the lower clamp of the leverage meet.  Module RiskGate assumes it of
\* MarginPcts (group.py:454 and 504-507).
MarginWithinThirty == order # NoOrder => 10 * order.size <= 3 * order.leverage

\* What the position loses at its stop is never more than the R amount the
\* order records, and that is at most 10% of equity: scaling the risk scales
\* the size with it (group.py:514-520).  Module RiskGate assumes it of RiskPcts.
LossAtStopWithinRisk ==
  order # NoOrder => RiskOf(proposal, order.size) <= order.risk /\ order.risk <= MaxRisk

=============================================================================
