------------------------------ MODULE Historian ------------------------------
(***************************************************************************)
(* HistorianGroup (groups/historian/group.py): the in-memory record of     *)
(* closed trades the entry group asks for a win rate.                      *)
(*                                                                         *)
(* The result is read from position.current_pnl_r, a field with default    *)
(* 0.0 that nothing assigns, so that every close counts as a loss; the     *)
(* regime statistics wait for a "regime:" entry of setup_refs that nothing *)
(* writes, so their half of the blend is always the neutral 0.5.           *)
(***************************************************************************)
EXTENDS Integers, Sequences

CONSTANT HypMinTrades    \* _HYP_MIN_TRADES (10 in the code)

ASSUME HypMinTradesAssumption == HypMinTrades \in Nat \ {0}

NoHistory == [losses |-> 0, recent |-> <<>>, total |-> 0, wins |-> 0]

\* getattr(pos, "current_pnl_r", 0.0)
PnlRead(result) == 0

LastTen(outcomes) ==
    IF Len(outcomes) > 10 THEN Tail(outcomes) ELSE outcomes

RecordClosedTrade(h, result) ==
    LET won == PnlRead(result) > 0 IN
    [losses |-> IF won THEN 0 ELSE h.losses + 1,
     recent |-> LastTen(Append(h.recent, won)),
     total  |-> h.total + 1,
     wins   |-> h.wins + (IF won THEN 1 ELSE 0)]

\* query(): 0.6 of the hypothesis's rate and 0.4 of the regime's 0.5, in percent,
\* once the hypothesis has enough trades, and the most severe streak warning.
Query(h) ==
    [similar |-> h.total,
     winRate |-> IF h.total >= HypMinTrades THEN (60 * h.wins) \div h.total + 20 ELSE 50,
     warning |-> IF h.losses >= 5 THEN 40 ELSE IF h.losses >= 3 THEN 20 ELSE 0]
=============================================================================
