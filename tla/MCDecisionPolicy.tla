-------------------------- MODULE MCDecisionPolicy --------------------------
(***************************************************************************)
(* Cases on both sides of every threshold of the panel, the policy and the *)
(* rails.  More than 12 rejections leave at most 7 approvals.              *)
(***************************************************************************)
EXTENDS DecisionPolicy

MCCases ==
  {c \in [approve : {7, 11, 12, 15, 16, 17}, reject : {0, 3, 13},
          avg : {49, 50, 55, 58, 70}, deviation : {14, 15, 20},
          rr : {14, 15}, composite : {49, 50, 65},
          bearLong : BOOLEAN, highVol : BOOLEAN, offset : {0, 1},
          losses : {0, 3, 10}, drawdown : {8, 14, 39}, winRate : {47, 48}] :
     /\ c.reject = 13 <=> c.approve = 7
     /\ c.approve = 11 <=> c.reject = 3
     /\ c.bearLong => c.offset = 0 /\ c.winRate = 48}
=============================================================================
