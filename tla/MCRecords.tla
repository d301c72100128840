------------------------------- MODULE MCRecords -------------------------------
(* Two seats, one setup family, two proposals; a win, and a loss inside the   *)
(* band of 0.05 R, which the journal's writer calls a breakeven.              *)
EXTENDS Records

CONSTANTS t1, t2, f1

MCTraders == {t1, t2}
MCFamilies == {f1}

\* One seat approves, the other votes no with confidence.
MCPanels == {[t \in MCTraders |-> IF t = t1 THEN <<"approve", "low">> ELSE <<"reject", "high">>]}

MCResults == {-4, 150}

=============================================================================
