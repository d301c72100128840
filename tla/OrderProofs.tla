----------------------------- MODULE OrderProofs -----------------------------
(***************************************************************************)
(* Proofs about what a proposal goes through from the panel's votes to an  *)
(* order: the decision of the policy or of its fallback (DecisionPolicy)   *)
(* and the size of the order (RiskSizing), for every case and every        *)
(* proposal.  What joins the two is the size multiplier, which the policy  *)
(* gives and the sizing takes.                                             *)
(***************************************************************************)
EXTENDS DecisionPolicy, RiskSizing, TLAPS

-----------------------------------------------------------------------------
(* The decision: the policy and its fallback enter the same trades outside *)
(* portfolio protection.                                                   *)

\* What a decision is, for the case it was made of.
Outcome ==
  /\ phase \in {"idle", "voted", "decided"}
  /\ path \in {"mdp", "legacy"}
  /\ phase # "idle" => case \in Cases
  /\ phase # "decided" => decision = "hold" /\ multiplier = 100
  /\ phase = "decided" /\ path = "mdp" =>
       /\ action = Overridden(case)
       /\ multiplier = Multiplier(action)
       /\ logged = LoggedMultiplier(Policy(case))
       /\ decision = IF Enters(action) THEN "enter" ELSE "hold"
  /\ phase = "decided" /\ path = "legacy" =>
       /\ decision = IF ~RailsTriggered(case) /\ Recommends(case) THEN "enter" ELSE "hold"
       /\ multiplier = 100

THEOREM OutcomeInvariant == Spec => []Outcome
<1>1. Init => Outcome
  BY DEF Init, Outcome
<1>2. Outcome /\ [Next]_vars => Outcome'
  <2> SUFFICES ASSUME Outcome, [Next]_vars PROVE Outcome'
    OBVIOUS
  <2>1. CASE Vote
    BY <2>1 DEF Vote, Outcome
  <2>2. CASE Decide
    BY <2>2 DEF Decide, Outcome
  <2>3. CASE LegacyDecide
    BY <2>3 DEF LegacyDecide, Outcome
  <2>4. CASE Forward
    BY <2>4 DEF Forward, Outcome
  <2>5. CASE UNCHANGED vars
    BY <2>5 DEF vars, Outcome, Overridden, Policy, RailsTriggered, ReduceRisk, HighConviction,
      Medium, Small, Defer, RiskFactor, Base, Threshold, Least, Recommends
  <2> QED
    BY <2>1, <2>2, <2>3, <2>4, <2>5 DEF Next
<1> QED
  BY <1>1, <1>2, PTL DEF Spec

-----------------------------------------------------------------------------
(* What the rules admit.                                                   *)

LEMMA CaseTyped ==
  ASSUME NEW c \in Case
  PROVE  /\ c.approve \in Int /\ c.reject \in Int /\ c.avg \in Int /\ c.rr \in Int
         /\ c.offset \in {0, 1} /\ c.composite \in Int /\ c.losses \in Int
         /\ c.drawdown \in Int /\ c.winRate \in Int /\ c.deviation \in Int
         /\ c.approve <= Evaluators
  BY DEF Case, Evaluators

\* Outside the rails, the policy enters exactly what R0, R1 or R2 admits: R3
\* asks for consensus like R2, and rail 3 for R2's R:R.
LEMMA WhatEnters ==
  ASSUME NEW c \in Case
  PROVE  Enters(Overridden(c)) <=>
           ~RailsTriggered(c) /\ (ReduceRisk(c) \/ HighConviction(c) \/ Medium(c))
<1>1. CASE RailsTriggered(c)
  BY <1>1 DEF Overridden, Enters
<1>2. CASE ~RailsTriggered(c)
  <2>1. Small(c) => Medium(c)
    BY <1>2, CaseTyped DEF RailsTriggered, Small, Medium
  <2>2. Overridden(c) = Policy(c)
    BY <1>2 DEF Overridden
  <2>3. Enters(Policy(c)) <=> ReduceRisk(c) \/ HighConviction(c) \/ Medium(c)
    BY <2>1 DEF Policy, Enters
  <2> QED
    BY <1>2, <2>2, <2>3
<1> QED
  BY <1>1, <1>2

\* The fallback never enters what the policy would have held
\* (_legacy_decide, final_group.py:317-384).
THEOREM FallbackNeverLooser == Spec => []FallbackIsNoLooser
<1>1. Outcome => FallbackIsNoLooser
  <2> SUFFICES ASSUME Outcome, phase = "decided", path = "legacy", decision = "enter"
               PROVE  Enters(Overridden(case))
    BY DEF FallbackIsNoLooser, Decided
  <2>1. case \in Case /\ ~RailsTriggered(case) /\ Recommends(case)
    BY CaseAssumption DEF Outcome
  <2>2. Medium(case)
    BY <2>1, CaseTyped DEF Recommends, RailsTriggered, Medium, Threshold, Base, PanelMinAvg
  <2> QED
    BY <2>1, <2>2, WhatEnters
<1> QED
  BY <1>1, OutcomeInvariant, PTL

\* Outside portfolio protection the policy enters only what the panel
\* recommends (MDPPolicy.decide, policy.py:152-293).
THEOREM PolicyFollowsPanel == Spec => []PolicyNeedsThePanel
<1>1. Outcome => PolicyNeedsThePanel
  <2> SUFFICES ASSUME Outcome, phase = "decided", path = "mdp", decision = "enter",
                      ~ReduceRisk(case)
               PROVE  Recommends(case)
    BY DEF PolicyNeedsThePanel, Decided
  <2>1. case \in Case /\ Enters(Overridden(case))
    BY CaseAssumption DEF Outcome
  <2>2. HighConviction(case) \/ Medium(case)
    BY <2>1, WhatEnters
  <2>3. case.approve >= Base(case) /\ case.avg >= 58
    BY <2>1, <2>2, CaseTyped DEF HighConviction, Medium, Base, Least, Evaluators
  <2> QED
    BY <2>3 DEF Recommends, Base, Threshold, PanelMinAvg
<1> QED
  BY <1>1, OutcomeInvariant, PTL

\* One more approval leaves a case a case, and brings it nearer to an entry.
LEMMA OneMoreApproval ==
  ASSUME NEW c \in Case, c.approve < Evaluators
  PROVE  LET d == MoreApproval(c) IN
           /\ d \in Case
           /\ ~RailsTriggered(c) => ~RailsTriggered(d)
           /\ ReduceRisk(c) => ReduceRisk(d)
           /\ HighConviction(c) => HighConviction(d)
           /\ Medium(c) => Medium(d)
<1> DEFINE d == MoreApproval(c)
           more == c.approve + 1
           fewer == IF c.reject > 0 THEN c.reject - 1 ELSE 0
<1>1. d = [c EXCEPT !.approve = more, !.reject = fewer]
  BY DEF MoreApproval
<1>2. more \in 0..Evaluators /\ fewer \in 0..Evaluators
  BY DEF Case, Evaluators
<1>3. more \in Int /\ more >= c.approve /\ fewer \in Int /\ fewer <= c.reject
  <2>1. c.approve \in Nat /\ c.reject \in Nat
    BY DEF Case, Evaluators
  <2> QED
    BY <2>1
<1> HIDE DEF d, more, fewer
<1>4. d \in Case /\ d.approve = more /\ d.reject = fewer
  BY <1>1, <1>2 DEF Case
<1>5. /\ d.avg = c.avg /\ d.deviation = c.deviation /\ d.rr = c.rr /\ d.composite = c.composite
      /\ d.bearLong = c.bearLong /\ d.highVol = c.highVol /\ d.offset = c.offset
      /\ d.losses = c.losses /\ d.drawdown = c.drawdown /\ d.winRate = c.winRate
  BY <1>1, <1>2 DEF Case
<1>6. d.approve \in Int /\ d.approve >= c.approve /\ d.reject \in Int /\ d.reject <= c.reject
  BY <1>3, <1>4
<1>7. ~RailsTriggered(c) => ~RailsTriggered(d)
  BY <1>5, <1>6, CaseTyped DEF RailsTriggered
<1>8. ReduceRisk(c) => ReduceRisk(d)
  BY <1>5 DEF ReduceRisk
<1>9. HighConviction(c) => HighConviction(d)
  BY <1>5, <1>6, CaseTyped DEF HighConviction, Base, Least
<1>10. Medium(c) => Medium(d)
  BY <1>5, <1>6, CaseTyped DEF Medium, Base
<1> QED
  BY <1>4, <1>7, <1>8, <1>9, <1>10 DEF d

\* The rules are ordered and the tables of multipliers agree: for every case,
\* an entry is sized as its reasoning says, and stays one with more approval
\* (MDPPolicy.decide, policy.py:152-293, actions.py).
THEOREM ApprovalNeverHolds == Spec => []MoreApprovalNeverHolds
<1>1. Outcome => MoreApprovalNeverHolds
  <2> SUFFICES ASSUME Outcome, phase = "decided", path = "mdp", decision = "enter"
               PROVE  /\ multiplier > 0 /\ (~ReduceRisk(case) => logged = multiplier)
                      /\ case.approve < Evaluators => Enters(Overridden(MoreApproval(case)))
    BY DEF MoreApprovalNeverHolds, Decided
  <2>1. /\ case \in Case /\ Enters(Overridden(case))
        /\ multiplier = Multiplier(Overridden(case)) /\ logged = LoggedMultiplier(Policy(case))
    BY CaseAssumption DEF Outcome
  <2>2. multiplier > 0
    BY <2>1 DEF Enters, Multiplier
  <2>3. Overridden(case) = Policy(case)
    BY <2>1 DEF Overridden, Enters
  <2>4. ~ReduceRisk(case) => Policy(case) # "reduce_risk"
    BY DEF Policy
  <2>5. ~ReduceRisk(case) => logged = multiplier
    BY <2>1, <2>3, <2>4 DEF Enters, Multiplier, LoggedMultiplier
  <2>6. ASSUME case.approve < Evaluators
        PROVE  Enters(Overridden(MoreApproval(case)))
    BY <2>1, <2>6, WhatEnters, OneMoreApproval
  <2> QED
    BY <2>2, <2>5, <2>6
<1> QED
  BY <1>1, OutcomeInvariant, PTL

\* Every entry, by either path, has one of the multipliers the sizing is made
\* for: no trade is sent on with a size of zero (actions.py, final_group.py).
THEOREM EntriesAreSized ==
  Spec => [](phase = "decided" /\ decision = "enter" => \E p \in Proposal : p.mdp = multiplier)
<1>1. Outcome => (phase = "decided" /\ decision = "enter" => multiplier \in {50, 100, 150})
  BY DEF Outcome, Multiplier, Enters
<1>2. ASSUME NEW m \in {50, 100, 150} PROVE \E p \in Proposal : p.mdp = m
  <2> DEFINE p == [long |-> TRUE, entry |-> 1, atr |-> 0, atrRatio |-> 0, score |-> 0,
                   drawdown |-> 0, macro |-> 0, mdp |-> m]
  <2>1. p \in Proposal /\ p.mdp = m
    BY DEF Proposal
  <2> QED
    BY <2>1
<1>3. Outcome => (phase = "decided" /\ decision = "enter" => \E p \in Proposal : p.mdp = multiplier)
  BY <1>1, <1>2
<1> QED
  BY <1>3, OutcomeInvariant, PTL

-----------------------------------------------------------------------------
(* The order: it needs a margin of at most 30% of equity, and a position   *)
(* loses at its stop at most the R amount recorded, which is at most 10%   *)
(* of equity.                                                              *)

\* A quotient is below n when n times the divisor is above the dividend.
LEMMA QuotientBelow ==
  ASSUME NEW a \in Nat, NEW d \in Nat \ {0}, NEW n \in Nat, n * d > a
  PROVE  a \div d \in Nat /\ a \div d < n /\ (a \div d) * d <= a
<1> DEFINE q == a \div d
<1>1. q \in Int /\ a = d * q + (a % d) /\ a % d \in 0..(d - 1)
  OBVIOUS
<1>2. q >= 0
  OBVIOUS
<1> HIDE DEF q
<1>3. d * q <= a
  BY ONLY <1>1
<1>4. d * q < n * d
  BY ONLY <1>1, <1>3, a \in Nat, n * d > a, n \in Nat, d \in Nat \ {0}
<1>5. q < n
  <2> SUFFICES ASSUME q >= n PROVE FALSE
    BY <1>1
  <2>1. d * q >= d * n
    BY ONLY q >= n, <1>1, n \in Nat, d \in Nat \ {0}
  <2> QED
    BY ONLY <2>1, <1>1, <1>4, n \in Nat, d \in Nat \ {0}
<1> QED
  BY <1>1, <1>2, <1>3, <1>5 DEF q

\* Dividing keeps a bound that is a multiple of the divisor.
LEMMA QuotientBounds ==
  ASSUME NEW x \in Nat, NEW e \in Nat \ {0}, NEW k \in Nat
  PROVE  /\ x \div e \in Nat
         /\ x <= k * e => x \div e <= k
         /\ x > k * e => x \div e >= k
<1> DEFINE q == x \div e
<1>1. q \in Int /\ x = e * q + (x % e) /\ x % e \in 0..(e - 1) /\ q >= 0
  OBVIOUS
<1> HIDE DEF q
<1>2. e * q <= x /\ x < e * q + e
  BY ONLY <1>1, x \in Nat, e \in Nat \ {0}
<1>3. ASSUME x <= k * e PROVE q <= k
  <2> SUFFICES ASSUME q >= k + 1 PROVE FALSE
    BY <1>1
  <2>1. e * q >= e * (k + 1)
    BY ONLY q >= k + 1, <1>1, k \in Nat, e \in Nat \ {0}
  <2>2. e * (k + 1) = k * e + e
    BY ONLY k \in Nat, e \in Nat \ {0}
  <2> QED
    BY ONLY <1>1, <1>2, <1>3, <2>1, <2>2, x \in Nat, e \in Nat \ {0}, k \in Nat
<1>4. ASSUME x > k * e PROVE q >= k
  <2> SUFFICES ASSUME q + 1 <= k PROVE FALSE
    BY <1>1
  <2>1. e * (q + 1) <= e * k
    BY ONLY q + 1 <= k, <1>1, k \in Nat, e \in Nat \ {0}
  <2>2. e * (q + 1) = e * q + e /\ e * k = k * e
    BY ONLY <1>1, k \in Nat, e \in Nat \ {0}
  <2> QED
    BY ONLY <1>1, <1>2, <1>4, <2>1, <2>2, x \in Nat, e \in Nat \ {0}, k \in Nat
<1> QED
  BY <1>1, <1>3, <1>4 DEF q

-----------------------------------------------------------------------------
(* The ranges of the ladder.                                               *)

LEMMA DistanceTyped ==
  ASSUME NEW p \in Proposal
  PROVE  StopDistance(p) \in Nat \ {0} /\ p.entry \in Nat \ {0}
<1>1. p.atr \in Nat /\ p.entry \in Nat \ {0}
  BY DEF Proposal
<1>2. Atr(p) \in Nat \ {0}
  BY <1>1 DEF Atr
<1>3. /\ (20 * Atr(p)) \div 10 \in Nat \ {0} /\ (25 * Atr(p)) \div 10 \in Nat \ {0}
      /\ (5 * Atr(p)) \div 10 \in Nat
  BY ONLY <1>2
<1>4. (StopTenths(p) * Atr(p)) \div 10 \in Nat \ {0}
  BY <1>3 DEF StopTenths
<1> DEFINE d == (StopTenths(p) * Atr(p)) \div 10
           s == (5 * Atr(p)) \div 10
<1>5. StopDistance(p) = d \/ StopDistance(p) = d + s
  BY DEF StopDistance
<1> HIDE DEF d, s
<1>6. d \in Nat \ {0} /\ s \in Nat
  BY <1>3, <1>4 DEF d, s
<1> QED
  BY <1>1, <1>5, <1>6

LEMMA LeverageTyped ==
  ASSUME NEW p \in Proposal
  PROVE  Leverage(p) \in Nat /\ Leverage(p) >= 10000
<1>1. BaseLeverage(p) \in Nat /\ VolatilityFactor(p) \in Nat /\ DrawdownFactor(p) \in Nat
  BY DEF BaseLeverage, VolatilityFactor, DrawdownFactor
<1>2. \A b, v, f \in Nat : (b * v * f) \div 1000 \in Int
  OBVIOUS
<1>3. Adjusted(p) \in Int
  BY <1>1, <1>2 DEF Adjusted
<1>4. StopDistance(p) \in Nat \ {0} /\ p.entry \in Nat \ {0}
  BY DistanceTyped
<1>5. (50 * p.entry) \div StopDistance(p) \in Int
  BY <1>4
<1>6. RiskCap(p) \in Int
  BY <1>3, <1>5 DEF RiskCap, Lesser
<1>7. \A x \in Int : Most(10000, Lesser(35000, x)) \in Nat /\ Most(10000, Lesser(35000, x)) >= 10000
  BY DEF Most, Lesser
<1> QED
  BY <1>6, <1>7 DEF Leverage

LEMMA NotionalTyped ==
  ASSUME NEW p \in Proposal
  PROVE  Notional(p) \in 0..MaxNotional
<1>1. p.macro \in 0..100 /\ p.mdp \in {50, 100, 150}
  BY DEF Proposal
<1>2. p.macro \in Nat /\ p.mdp \in Nat
  BY <1>1
<1>3. Leverage(p) \in Nat
  BY LeverageTyped
<1>4. \A l, m, f \in Nat : (l * m * f) \div 10000 \in Nat
  OBVIOUS
<1> DEFINE d == (Leverage(p) * p.macro * p.mdp) \div 10000
<1>5. d \in Nat
  BY <1>2, <1>3, <1>4
<1>6. Notional(p) = Lesser(3000, d)
  BY DEF Notional, MaxNotional
<1> HIDE DEF d
<1>7. Lesser(3000, d) \in 0..3000
  BY <1>5 DEF Lesser
<1> QED
  BY <1>6, <1>7 DEF MaxNotional

-----------------------------------------------------------------------------
(* The order.                                                              *)

\* What holds of the order of any proposal.
LEMMA OrderWithinLimits ==
  ASSUME NEW p \in Proposal
  PROVE  /\ Size(p) \in 0..MaxNotional
         /\ RiskOf(p, Size(p)) <= Lesser(MaxRisk, RiskOf(p, Notional(p)))
         /\ Lesser(MaxRisk, RiskOf(p, Notional(p))) <= MaxRisk
<1> DEFINE d == StopDistance(p)
           e == p.entry
           n == Notional(p)
<1>1. d \in Nat \ {0} /\ e \in Nat \ {0} /\ n \in Nat /\ n <= 3000
  <2>1. n \in 0..3000
    BY NotionalTyped DEF MaxNotional
  <2>2. d \in Nat \ {0} /\ e \in Nat \ {0}
    BY DistanceTyped
  <2> HIDE DEF d, e, n
  <2> QED
    BY <2>1, <2>2
<1>2. /\ Size(p) = IF n * d > 100 * e THEN (100 * e) \div d ELSE n
      /\ RiskOf(p, Size(p)) = (Size(p) * d) \div e
      /\ RiskOf(p, n) = (n * d) \div e
  BY DEF Size, RiskOf, MaxRisk
<1> HIDE DEF d, e, n
<1>3. 100 * e \in Nat /\ n * d \in Nat
  BY ONLY <1>1
<1>4. CASE n * d > 100 * e
  <2> DEFINE q == (100 * e) \div d
  <2>1. q \in Nat /\ q < n /\ q * d <= 100 * e
    BY ONLY <1>1, <1>3, <1>4, QuotientBelow
  <2>2. Size(p) = q
    BY <1>2, <1>4
  <2> HIDE DEF q
  <2>3. q * d \in Nat
    BY ONLY <1>1, <2>1
  <2>4. (q * d) \div e <= 100 /\ (q * d) \div e \in Nat
    BY ONLY <1>1, <2>1, <2>3, QuotientBounds
  <2>5. (n * d) \div e >= 100 /\ (n * d) \div e \in Nat
    BY ONLY <1>1, <1>3, <1>4, QuotientBounds
  <2> QED
    BY <1>1, <1>2, <2>1, <2>2, <2>4, <2>5 DEF Lesser, MaxRisk, MaxNotional, n
<1>5. CASE ~(n * d > 100 * e)
  <2>1. n * d <= 100 * e
    BY <1>3, <1>5
  <2>2. (n * d) \div e <= 100 /\ (n * d) \div e \in Nat
    BY ONLY <1>1, <1>3, <2>1, QuotientBounds
  <2>3. Size(p) = n
    BY <1>2, <1>5
  <2>4. RiskOf(p, n) \in Nat /\ RiskOf(p, n) <= 100
    BY <1>2, <2>2
  <2>5. Lesser(MaxRisk, RiskOf(p, n)) = RiskOf(p, n)
    BY <2>4 DEF Lesser, MaxRisk
  <2>6. Size(p) \in 0..MaxNotional
    BY <1>1, <2>3 DEF MaxNotional
  <2>7. RiskOf(p, Size(p)) = RiskOf(p, n) /\ n = Notional(p)
    BY <2>3 DEF n
  <2> QED
    BY <2>4, <2>5, <2>6, <2>7 DEF MaxRisk
<1> QED
  BY <1>4, <1>5

\* Every order is the order of the proposal beside it.
Computed ==
  /\ order # NoOrder => proposal \in Proposals /\ order = Order(proposal)
  /\ proposal \in Proposals \cup {NoOrder}

THEOREM OrderIsComputed == SizingSpec => []Computed
<1>1. InitSizing => Computed
  BY DEF InitSizing, Computed
<1>2. Computed /\ [NextSizing]_sizingVars => Computed'
  BY DEF Computed, NextSizing, Propose, ComputeOrder, Approved, sizingVars, Order
<1> QED
  BY <1>1, <1>2, PTL DEF SizingSpec

\* An order's margin is at most 30% of equity, which is what the risk gate's
\* exposure limits and loss budget assume of it (_compute_order,
\* group.py:501-507, with the clamp of _compute_leverage).
THEOREM MarginIsBounded == SizingSpec => []MarginWithinThirty
<1>1. Computed => MarginWithinThirty
  <2> SUFFICES ASSUME Computed, order # NoOrder
               PROVE  10 * order.size <= 3 * order.leverage
    BY DEF MarginWithinThirty
  <2>1. proposal \in Proposal /\ order = Order(proposal)
    BY ProposalAssumption DEF Computed
  <2>2. order.size = Size(proposal) /\ order.leverage = Leverage(proposal)
    BY <2>1 DEF Order
  <2>3. Size(proposal) \in 0..3000 /\ Leverage(proposal) \in Nat /\ Leverage(proposal) >= 10000
    BY <2>1, OrderWithinLimits, LeverageTyped DEF MaxNotional
  <2> DEFINE s == order.size
             l == order.leverage
  <2>4. s \in 0..3000 /\ l \in Nat /\ l >= 10000
    BY <2>2, <2>3
  <2> HIDE DEF s, l
  <2>5. 10 * s <= 3 * l
    BY ONLY <2>4
  <2> QED
    BY <2>5 DEF s, l
<1> QED
  BY <1>1, OrderIsComputed, PTL

\* The loss at the stop is at most the recorded R amount, and that at most 10%
\* of equity (_compute_order, group.py:509-520).
THEOREM LossIsBounded == SizingSpec => []LossAtStopWithinRisk
<1>1. Computed => LossAtStopWithinRisk
  <2> SUFFICES ASSUME Computed, order # NoOrder
               PROVE  RiskOf(proposal, order.size) <= order.risk /\ order.risk <= MaxRisk
    BY DEF LossAtStopWithinRisk
  <2>1. proposal \in Proposal /\ order = Order(proposal)
    BY ProposalAssumption DEF Computed
  <2>2. order.size = Size(proposal) /\ order.risk = Lesser(MaxRisk, RiskOf(proposal, Notional(proposal)))
    BY <2>1 DEF Order
  <2> QED
    BY <2>1, <2>2, OrderWithinLimits
<1> QED
  BY <1>1, OrderIsComputed, PTL
=============================================================================
