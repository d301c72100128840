---------------------------- MODULE JournalTables ----------------------------
(***************************************************************************)
(* The SQLite tables the runner writes: the journal's own (journal/db.py), *)
(* the learning layer's on the same connection                             *)
(* (learning/journal_extension.py), the transition log                     *)
(* (mdp/transition_logger.py) and the back-test's evaluator table          *)
(* (backtest/learning_db.py), with the statements the program runs.        *)
(*                                                                         *)
(* Every id is a fresh uuid made once per proposal, so the proposal's      *)
(* number stands for the packet, panel, decision, transition, order and    *)
(* position made for it, and 0 for an empty or NULL id.  A row keeps the   *)
(* columns later statements read; prices, times and texts are left out.    *)
(* Every statement is committed on its own.                                *)
(***************************************************************************)
EXTENDS Integers, Sequences, FiniteSets

Outcomes == {"win", "loss", "breakeven"}

\* PanelDecisionGroup and JournalDB read the sign of pnl_r.
SignOutcome(r) == IF r > 0 THEN "win" ELSE IF r < 0 THEN "loss" ELSE "breakeven"

(***************************************************************************)
(* trades and journal_events.                                              *)
(***************************************************************************)
\* trade_id is the primary key: a second INSERT fails and is only logged.
InsertTradeOpen(trades, id) ==
    IF \E r \in trades : r.id = id THEN trades
    ELSE trades \cup {[id |-> id, outcome |-> "open", result |-> 0]}

\* Slip: a losing trade is never written back.
UpdateOnlyWins(trades, id, result) ==
    {IF r.id = id /\ result > 0 THEN [r EXCEPT !.outcome = "win", !.result = result] ELSE r :
        r \in trades}
\* The one UPDATE allowed on the table.
UpdateTradeClose(trades, id, result) ==
    {IF r.id = id THEN [r EXCEPT !.outcome = SignOutcome(result), !.result = result] ELSE r :
        r \in trades}

InsertEvent(events, type, id) == events \cup {[type |-> type, id |-> id]}

\* JournalReader.get_stats: what the console's overview shows of the table.
Overview(trades) ==
    [total  |-> Cardinality(trades),
     open   |-> Cardinality({r \in trades : r.outcome = "open"}),
     closed |-> Cardinality({r \in trades : r.outcome # "open"}),
     wins   |-> Cardinality({r \in trades : r.outcome = "win"}),
     losses |-> Cardinality({r \in trades : r.outcome = "loss"})]

(***************************************************************************)
(* The decision trace: setup_packets, trader_reviews, panel_summaries and  *)
(* final_decisions, one set of rows; trader_reviews has one per verdict.   *)
(***************************************************************************)
TraceTables == {"setup_packets", "panel_summaries", "final_decisions"}

TraceRow(table, packet) == [table |-> table, packet |-> packet, trade |-> 0]
ReviewRow(trader, packet, verdict) ==
    [table |-> "trader_reviews", packet |-> packet, trade |-> 0,
     trader |-> trader, verdict |-> verdict]

InsertSetupPacket(trace, packet) == trace \cup {TraceRow("setup_packets", packet)}
InsertTraderReview(trace, trader, packet, verdict) ==
    trace \cup {ReviewRow(trader, packet, verdict)}
InsertPanelSummary(trace, packet) == trace \cup {TraceRow("panel_summaries", packet)}
InsertFinalDecision(trace, packet) == trace \cup {TraceRow("final_decisions", packet)}

\* Slip: process_closed_trade is called without the reviews, as before Phase 7.
ReviewsForgotten(trace, packet) == {}
\* query_trader_reviews_by_packet
ReviewsOf(trace, packet) ==
    {r \in trace : r.table = "trader_reviews" /\ r.packet = packet}

\* Slip: the UPDATE has lost its packet and takes every row not yet linked.
BackfillUnlinked(trace, packet, id) ==
    {IF r.trade = 0 THEN [r EXCEPT !.trade = id] ELSE r : r \in trace}
\* backfill_trade_id_for_packet: four UPDATEs, one commit.
BackfillTradeId(trace, packet, id) ==
    {IF r.packet = packet /\ r.trade = 0 THEN [r EXCEPT !.trade = id] ELSE r : r \in trace}

(***************************************************************************)
(* mdp_transitions.  Actions are no_trade (with defer), enter (its three   *)
(* sizes) and reduce_risk.  The last one enters too, at half the size, but *)
(* it is not in ENTER_ACTIONS, so that its row has the reward 0.0 at once. *)
(***************************************************************************)
Actions == {"no_trade", "enter", "reduce_risk"}
EnterActions == {"enter"}

LogTransition(transitions, id, action) ==
    transitions \cup {[id |-> id, trade |-> 0,
                       reward |-> IF action \in EnterActions THEN "null" ELSE "zero"]}

UpdateReward(transitions, snap, id) ==
    {IF r.id = snap THEN [r EXCEPT !.reward = "paid", !.trade = id] ELSE r : r \in transitions}

(***************************************************************************)
(* outcome_attributions: a fresh attribution_id every time, so INSERT OR   *)
(* IGNORE ignores nothing and the table holds one row per call.            *)
(***************************************************************************)
InsertAttribution(attributions, id, packet, outcome, result, writer) ==
    Append(attributions, [trade |-> id, packet |-> packet, outcome |-> outcome,
                          result |-> result, writer |-> writer])

(***************************************************************************)
(* evaluator_performance, in a back-test only; UNIQUE(evaluator, trade).   *)
(***************************************************************************)
InsertEvaluatorVerdicts(rows, id, votes) ==
    rows \cup {[trader |-> t, trade |-> id, vote |-> votes[t][1], outcome |-> "null"] :
                  t \in {u \in DOMAIN votes :
                            ~ \E r \in rows : r.trader = u /\ r.trade = id}}

UpdateEvaluatorOutcomes(rows, id, result) ==
    {IF r.trade = id THEN [r EXCEPT !.outcome = SignOutcome(result)] ELSE r : r \in rows}
=============================================================================
