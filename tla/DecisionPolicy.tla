--------------------------- MODULE DecisionPolicy ---------------------------
(***************************************************************************)
(* From the panel's votes to an order to enter or to hold: the aggregation *)
(* of TraderEvaluatorPanel (traders/panel.py), the rules R0 to R5 of       *)
(* MDPPolicy (mdp/policy.py) and FinalDecisionGroup                        *)
(* (decision/final_group.py) with its six safety rails and the path it     *)
(* falls back to when the MDP state cannot be built.                       *)
(*                                                                         *)
(* A case holds what the decision depends on: the votes, their scores, the *)
(* proposal, the regime and the account.  Scores and R:R are in tenths,    *)
(* fractions in percent.  The thresholds of the four regimes are equal in  *)
(* the code (panel_constants.py:36-41), so the regime enters only through  *)
(* "a long in a bear market" and "high volatility".                        *)
(***************************************************************************)
EXTENDS Integers

CONSTANTS
  Cases,   \* the cases explored, a subset of Case
  NoCase,  \* no proposal under decision
  MaxNat   \* bound: losing streaks explored

Evaluators == 20

Case == [approve : 0..Evaluators, reject : 0..Evaluators,
         avg : 0..100, deviation : 0..100,
         rr : 0..100, composite : 0..100,
         bearLong : BOOLEAN, highVol : BOOLEAN,
         offset : {0, 1},                \* 1 for ETHUSDT and BNBUSDT
         losses : 0..MaxNat,             \* consecutive_losses
         drawdown : 0..100, winRate : 0..100]

\* An evaluator that raises casts no vote, so the votes may be fewer than 20.
ASSUME CaseAssumption ==
  MaxNat \in Nat /\ Cases \subseteq {c \in Case : c.approve + c.reject <= Evaluators}

VARIABLES
  case,
  phase,      \* "idle", "voted" or "decided"
  path,       \* "mdp" or "legacy"
  action,     \* mdp_action
  decision,   \* "enter" or "hold"
  multiplier, \* size_multiplier of the decision, in percent
  logged      \* size_multiplier in the policy's reasoning, in percent

vars == <<case, phase, path, action, decision, multiplier, logged>>

Actions == {"no_trade", "enter_small", "enter_medium", "enter_high", "defer", "reduce_risk"}

-----------------------------------------------------------------------------
(* The panel.                                                              *)

PanelMinAvg == 58
\* Slip: the symbol's offset is forgotten.
ThresholdForBtc(c) == 15
Threshold(c) == 15 + c.offset
\* panel_recommendation = "enter"
Recommends(c) == c.approve >= Threshold(c) /\ c.avg >= PanelMinAvg

-----------------------------------------------------------------------------
(* The policy: the first rule that holds.                                  *)

Least(a, b) == IF a < b THEN a ELSE b
Base(c) == 15 + c.offset

ReduceRisk(c) == c.losses >= 10 \/ c.drawdown > 38
HighConviction(c) ==
  /\ c.approve >= Least(20, Base(c) + 2)
  /\ c.avg >= 70 /\ c.deviation < 15
  /\ c.drawdown < 15 /\ c.winRate >= 48
\* Slip: leaves the stronger cases to R1.
MediumBelowHc(c) ==
  /\ c.approve >= Base(c) /\ c.approve < Base(c) + 2
  /\ c.avg >= 58 /\ c.rr >= 15
\* Slip: takes the deferral's score.
MediumByDeferScore(c) == c.approve >= Base(c) /\ c.avg >= 55 /\ c.rr >= 15
Medium(c) == c.approve >= Base(c) /\ c.avg >= 58 /\ c.rr >= 15
RiskFactor(c) == c.drawdown > 10 \/ c.losses > 2 \/ c.highVol
Small(c) == c.approve >= Base(c) /\ c.avg >= 58 /\ RiskFactor(c)
Defer(c) ==
  /\ c.approve >= Base(c) - 3
  /\ c.avg >= 55 /\ c.composite >= 65 /\ c.deviation < 20

Policy(c) == CASE ReduceRisk(c) -> "reduce_risk"
               [] ~ReduceRisk(c) /\ HighConviction(c) -> "enter_high"
               [] ~ReduceRisk(c) /\ ~HighConviction(c) /\ Medium(c) -> "enter_medium"
               [] ~ReduceRisk(c) /\ ~HighConviction(c) /\ ~Medium(c) /\ Small(c) -> "enter_small"
               [] ~ReduceRisk(c) /\ ~HighConviction(c) /\ ~Medium(c) /\ ~Small(c) /\ Defer(c) -> "defer"
               [] OTHER -> "no_trade"

\* The size_multiplier written into the reasoning of each rule.
LoggedMultiplier(a) == CASE a = "enter_high" -> 150
                         [] a = "enter_medium" -> 100
                         [] a = "enter_small" -> 50
                         [] OTHER -> 0

-----------------------------------------------------------------------------
(* The final decision.                                                     *)

\* Safety rails 1 to 6: what triggers each.  A composite score below 0.50
\* makes the setup quality "invalid".  The proposal inside a packet has no
\* symbol, so rail 6 asks every symbol for the 16 approvals of BTC.
RailsTriggered(c) ==
  \/ c.avg < 50
  \/ c.reject > 12
  \/ c.rr < 15
  \/ c.composite < 50
  \/ c.bearLong
  \/ c.highVol /\ c.approve < 16

Overridden(c) == IF RailsTriggered(c) THEN "no_trade" ELSE Policy(c)

\* ACTION_SIZE_MULTIPLIERS
Multiplier(a) == CASE a = "enter_high" -> 150
                   [] a = "enter_medium" -> 100
                   [] a \in {"enter_small", "reduce_risk"} -> 50
                   [] OTHER -> 0

Enters(a) == a \in {"enter_small", "enter_medium", "enter_high", "reduce_risk"}

Init ==
  /\ phase = "idle" /\ case = NoCase
  /\ path = "mdp" /\ action = "no_trade" /\ decision = "hold"
  /\ multiplier = 100 /\ logged = 0

\* A CandidateTradeEvent: the panel votes on its proposal.  The decision made
\* from the votes starts with the defaults of FinalDecision.
Vote ==
  /\ phase = "idle" /\ phase' = "voted"
  /\ case' \in Cases
  /\ UNCHANGED <<path, action, decision, multiplier, logged>>

Decide ==
  /\ phase = "voted" /\ phase' = "decided"
  /\ path' = "mdp"
  /\ action' = Overridden(case)
  /\ logged' = LoggedMultiplier(Policy(case))
  /\ multiplier' = Multiplier(action')
  /\ decision' = IF Enters(action') THEN "enter" ELSE "hold"
  /\ UNCHANGED case

\* The state builder or the policy raised: thresholds alone decide, and the
\* multiplier keeps its default.
LegacyDecide ==
  /\ phase = "voted" /\ phase' = "decided"
  /\ path' = "legacy"
  /\ decision' = IF ~RailsTriggered(case) /\ Recommends(case) THEN "enter" ELSE "hold"
  /\ UNCHANGED <<case, action, multiplier, logged>>

\* The decision has been published or dropped.
Forward ==
  /\ phase = "decided" /\ phase' = "idle"
  /\ case' = NoCase
  /\ path' = "mdp" /\ action' = "no_trade" /\ decision' = "hold"
  /\ multiplier' = 100 /\ logged' = 0

Next == Vote \/ Decide \/ LegacyDecide \/ Forward

Spec == Init /\ [][Next]_vars

-----------------------------------------------------------------------------
(* Properties.                                                             *)

Decided == phase = "decided"

\* The fallback never enters a trade the policy would have held: a failing
\* state builder cannot make the system trade more (final_group.py:166-182
\* and 317-384, two copies of the thresholds in three files).
FallbackIsNoLooser ==
  Decided /\ path = "legacy" /\ decision = "enter" => Enters(Overridden(case))

\* Conversely, outside portfolio protection the policy's entries are all
\* recommended by the panel, so both paths enter the same trades.
PolicyNeedsThePanel ==
  Decided /\ path = "mdp" /\ decision = "enter" /\ ~ReduceRisk(case) => Recommends(case)

\* An entry of the policy has a size, the one its reasoning names (portfolio
\* protection apart, whose reasoning says 0 and whose size is half), and one more
\* approval, with one rejection less where there is any, never turns it into a
\* hold: the rules of policy and rails are ordered, none is skipped because a
\* stronger one half applies, and the two tables of multipliers, per rule and
\* per action, agree (policy.py:152-293, actions.py).
MoreApproval(c) ==
  [c EXCEPT !.approve = @ + 1, !.reject = IF @ > 0 THEN @ - 1 ELSE 0]
MoreApprovalNeverHolds ==
  Decided /\ path = "mdp" /\ decision = "enter" =>
    /\ multiplier > 0 /\ (~ReduceRisk(case) => logged = multiplier)
    /\ case.approve < Evaluators => Enters(Overridden(MoreApproval(case)))

=============================================================================
