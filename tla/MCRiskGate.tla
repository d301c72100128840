---------------------------- MODULE MCRiskGate ----------------------------
(* Instances of RiskGate for TLC: the runner's three symbols and one that  *)
(* is not in the eligible universe.                                        *)
EXTENDS RiskGate, TLC

CONSTANTS btc, eth, bnb, xrp, p1, p2, p3, p4

\* The symbols are interchangeable, and so are the ids of positions.
Symmetry3 == Permutations({btc, eth, bnb}) \cup Permutations({p1, p2, p3, p4})
=============================================================================
