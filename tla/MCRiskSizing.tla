---------------------------- MODULE MCRiskSizing ----------------------------
(***************************************************************************)
(* Proposals on both sides of every threshold of the ladder.  The entries  *)
(* put the stop above, below and well away from a multiple of 1000 for the *)
(* different ATRs; stops are from 0.3% to 6% of the entry.                 *)
(***************************************************************************)
EXTENDS RiskSizing

Ordinary ==
  [long : BOOLEAN, entry : {60000, 61100, 64300, 99970, 3000},
   atr : {0, 50, 200, 500, 1000}, atrRatio : {100, 160},
   score : {49, 52, 60, 70, 80}, drawdown : {0, 6, 9, 16, 26},
   macro : {0, 35, 50, 70, 100}, mdp : {50, 100, 150}]
MCProposals == {p \in Ordinary : p.entry = 3000 => p.atr = 50}
=============================================================================
