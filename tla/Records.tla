-------------------------------- MODULE Records --------------------------------
(***************************************************************************)
(* What a proposal and a trade leave behind: the journal, the learning     *)
(* layer, the transition log, the historian and the exit diagnostics, over *)
(* sessions of the runner that end by a teardown or by a crash.            *)
(*                                                                         *)
(* One bar is one uninterrupted run of handlers, but each statement is its *)
(* own commit and every failure is caught and logged, so the bar is a      *)
(* queue of jobs: a job may fail, and a crash may take what is left of the *)
(* queue with the memory.  The order of the jobs is the order in which the *)
(* event bus calls the groups: panel, risk gate and journal for a          *)
(* proposal; historian, panel, journal and back-test for a close.          *)
(*                                                                         *)
(* A proposal's number stands for every id made for it.  A back-test logs  *)
(* transitions and evaluator verdicts, a paper session does not: its final *)
(* decision group is built before the learning layer exists, and only the  *)
(* back-test hands the extension in afterwards.  The runner wires the      *)
(* layer in stages, and a session trades on with those it reached.         *)
(***************************************************************************)
EXTENDS JournalTables, LearningStats, Historian, ExitDiagnostics

CONSTANTS
    Traders,       \* the seats of the panel
    Panels,        \* the votes they may cast: [Traders -> {<<vote, confidence>>}]
    Families,      \* setup families
    Results,       \* results of a trade, in hundredths of R
    MaxProposals,  \* bound on the proposals of a behaviour
    MaxBars,       \* bound on its bars
    MaxSessions,   \* bound on its sessions
    MaxSetbacks,   \* bound on its failed jobs, writes and wirings and its crashes
    None           \* no trader

ASSUME RecordsAssumption == IsFiniteSet(Traders) /\ None \notin Traders /\ Results \subseteq Int

VARIABLES
    backtest,   \* BacktestEngine.run_full_pipeline, or the paper runner
    session,    \* the runner: up, and what of the learning layer is wired
    work,       \* what is left of the bar in progress
    tables,     \* the database
    csv,        \* data/exit_diagnosis.csv
    memory,     \* open positions, historian, pending diagnoses, held verdicts
    fate,       \* what really became of each proposal
    lost,       \* the jobs that failed or went with a crash
    bars, setbacks, sessions

vars == <<backtest, session, work, tables, csv, memory, fate, lost, bars, setbacks, sessions>>
counters == <<bars, sessions>>
ground == <<backtest, session, fate, csv, counters>>

Proposals == 1..Len(fate)

Job(op, id) == [op |-> op, id |-> id, trader |-> None]
Jobs(ops, id) == [i \in DOMAIN ops |-> Job(ops[i], id)]
ForEachTrader(op, id, traders) ==
    [i \in 1..Cardinality(traders) |-> [op |-> op, id |-> id, trader |-> SetToSeq(traders)[i]]]
When(condition, jobs) == IF condition THEN jobs ELSE <<>>

Lost(op, id) == \E j \in lost : j.op = op /\ j.id = id

\* What the runner wires, in its order: the extension a back-test takes its transition
\* log from, the panel's trace logger, the journal's attributor, and the recorder of the
\* exit diagnostics.  A stage that fails takes the later ones with it.
Everything == {"log", "panel", "journal", "diagnostics"}
Stages ==
    {{}, {"log"}, {"log", "panel"}, {"log", "panel", "journal"}, Everything}

NoMemory == [open |-> {}, hist |-> NoHistory, pending |-> {}, held |-> {}]

(***************************************************************************)
(* The queue of a proposal and of a close.                                 *)
(***************************************************************************)
\* _evaluate_proposal, then what PanelApprovedProposalEvent brings about; the journal
\* hears of the candidate last, its subscription being behind the panel's.
EvaluationJobs(id, verdict) ==
    When(backtest /\ "log" \in session.wired, Jobs(<<"log_transition">>, id))
    \o When("panel" \in session.wired,
            Jobs(<<"insert_setup_packet">>, id)
            \o ForEachTrader("insert_trader_review", id, Traders)
            \o Jobs(<<"insert_panel_summary", "insert_final_decision">>, id))
    \o When(verdict # "hold", Jobs(<<"risk_decision">>, id))
    \o When(verdict = "enter", Jobs(<<"insert_trade_open">>, id))
    \o When(verdict = "enter" /\ backtest /\ "panel" \in session.wired,
            Jobs(<<"insert_evaluator_verdicts">>, id))
    \o Jobs(<<"candidate_trade">>, id)

\* _backfill_reward, then _log_position_close, then the back-test's _on_close.
CloseJobs(position) ==
    When(position.snap # 0, Jobs(<<"update_reward">>, position.id))
    \o When("panel" \in session.wired,
            Jobs(<<"panel_attribution", "backfill_trade_id">>, position.id))
    \o Jobs(<<"update_trade_close">>, position.id)
    \o When("journal" \in session.wired,
            Jobs(<<"query_reviews", "journal_attribution", "family">>, position.id))
    \o When(backtest, Jobs(<<"update_evaluator_outcomes">>, position.id))

\* PerformanceJournalGroup calls nothing a win or a loss within 0.05 R.
BandOutcome(r) == IF r > 5 THEN "win" ELSE IF r < -5 THEN "loss" ELSE "breakeven"

(***************************************************************************)
(* Sessions.                                                               *)
(***************************************************************************)
Init ==
    /\ backtest \in BOOLEAN
    /\ session = [up |-> FALSE, wired |-> {}]
    /\ work = <<>>
    /\ tables = [trades |-> {}, events |-> {}, trace |-> {}, transitions |-> {},
                 attributions |-> <<>>, evaluators |-> {}, advice |-> {},
                 calibration |-> [t \in Traders |-> FreshCalibration],
                 families |-> [f \in Families |-> FreshFamily]]
    /\ csv = <<>>
    /\ memory = NoMemory
    /\ fate = <<>>
    /\ lost = {}
    /\ bars = 0 /\ setbacks = 0 /\ sessions = 0

\* setup(): _finalize_learning_wiring keeps what it wired before an exception; the
\* recorder has a try block of its own, but it comes last.
Start(wired) ==
    /\ ~session.up /\ sessions < MaxSessions
    /\ wired = Everything \/ setbacks < MaxSetbacks
    /\ session' = [up |-> TRUE, wired |-> wired]
    /\ sessions' = sessions + 1
    /\ setbacks' = IF wired = Everything THEN setbacks ELSE setbacks + 1
    /\ UNCHANGED <<backtest, work, tables, csv, memory, fate, lost, bars>>

\* Rows the diagnostics could not write: the error is logged, the record is gone.
WritesFail(failed) ==
    /\ failed = {} \/ setbacks < MaxSetbacks
    /\ setbacks' = IF failed = {} THEN setbacks ELSE setbacks + 1
    /\ lost' = lost \cup {Job("diagnosis", p.trade) : p \in failed}

\* teardown(): the journal writes what its diagnostics still wait for; positions stay
\* open in the table and are forgotten.
Stop(failed) ==
    /\ session.up /\ work = <<>>
    /\ session' = [up |-> FALSE, wired |-> {}]
    /\ csv' = Flushed(csv, memory.pending, failed)
    /\ WritesFail(failed)
    /\ memory' = NoMemory
    /\ UNCHANGED <<backtest, work, tables, fate, bars, sessions>>

\* A crash takes the jobs left, and with the memory the diagnoses that wait or are due.
Crash ==
    /\ session.up /\ setbacks < MaxSetbacks
    /\ LET left == {work[i] : i \in DOMAIN work}
           due == {j.id : j \in {k \in left : k.op = "update_trade_close"}} IN
       lost' = lost \cup left
                    \cup {Job("diagnosis", id) : id \in due \cup {p.trade : p \in memory.pending}}
    /\ session' = [up |-> FALSE, wired |-> {}]
    /\ work' = <<>>
    /\ memory' = NoMemory
    /\ setbacks' = setbacks + 1
    /\ UNCHANGED <<backtest, tables, csv, fate, bars, sessions>>

(***************************************************************************)
(* A bar: at most one proposal, then the exit monitor, then the journal.   *)
(***************************************************************************)
BarEnds == Jobs(<<"exit", "on_bar">>, 0)

QuietBar ==
    /\ session.up /\ work = <<>> /\ bars < MaxBars
    /\ work' = BarEnds
    /\ bars' = bars + 1
    /\ UNCHANGED <<backtest, session, tables, csv, memory, fate, lost, setbacks, sessions>>

\* The final decision group holds on no_trade alone; the risk gate may reject what it
\* enters, and refuses a second position of the symbol.
ProposalBar(action, verdict, votes, family) ==
    /\ session.up /\ work = <<>> /\ bars < MaxBars /\ Len(fate) < MaxProposals
    /\ verdict = "hold" <=> action = "no_trade"
    /\ verdict = "enter" => memory.open = {}
    /\ fate' = Append(fate, [action |-> action, verdict |-> verdict, status |-> "none",
                             result |-> 0, votes |-> votes, family |-> family,
                             wired |-> session.wired])
    /\ work' = EvaluationJobs(Len(fate) + 1, verdict) \o BarEnds
    /\ bars' = bars + 1
    /\ UNCHANGED <<backtest, session, tables, csv, memory, lost, setbacks, sessions>>

At(op) == work # <<>> /\ Head(work).op = op
Id == Head(work).id

Fails ==
    /\ setbacks < MaxSetbacks
    /\ setbacks' = setbacks + 1
    /\ lost' = lost \cup {Head(work)}

Succeeds == UNCHANGED <<lost, setbacks>>

\* One statement and its commit; a failure is logged and changes nothing.
Statement(table, contents) ==
    /\ work' = Tail(work)
    /\ \/ tables' = [tables EXCEPT ![table] = contents] /\ Succeeds
       \/ UNCHANGED tables /\ Fails

(***************************************************************************)
(* The jobs of a proposal.                                                 *)
(***************************************************************************)
LogTransitionJob ==
    /\ At("log_transition")
    /\ Statement("transitions", LogTransition(tables.transitions, Id, fate[Id].action))
    /\ UNCHANGED <<memory, ground>>

InsertSetupPacketJob ==
    /\ At("insert_setup_packet")
    /\ Statement("trace", InsertSetupPacket(tables.trace, Id))
    /\ UNCHANGED <<memory, ground>>

InsertTraderReviewJob ==
    /\ At("insert_trader_review")
    /\ LET t == Head(work).trader IN
       Statement("trace", InsertTraderReview(tables.trace, t, Id, fate[Id].votes[t]))
    /\ UNCHANGED <<memory, ground>>

InsertPanelSummaryJob ==
    /\ At("insert_panel_summary")
    /\ Statement("trace", InsertPanelSummary(tables.trace, Id))
    /\ UNCHANGED <<memory, ground>>

\* _verdict_sink follows at once: the verdicts wait for the position in memory.
InsertFinalDecisionJob ==
    /\ At("insert_final_decision")
    /\ Statement("trace", InsertFinalDecision(tables.trace, Id))
    /\ memory' = [memory EXCEPT !.held = IF backtest THEN @ \cup {Id} ELSE @]
    /\ UNCHANGED ground

JournalEventJob ==
    /\ At("risk_decision") \/ At("candidate_trade")
    /\ Statement("events", InsertEvent(tables.events, Head(work).op, Id))
    /\ UNCHANGED <<memory, ground>>

\* The id of a proposal's transition: "" when none is logged or its INSERT failed.
Snapshot(id) ==
    IF backtest /\ "log" \in session.wired /\ ~Lost("log_transition", id) THEN id ELSE 0

\* The position is in memory before its row is written.
InsertTradeOpenJob ==
    /\ At("insert_trade_open")
    /\ Statement("trades", InsertTradeOpen(tables.trades, Id))
    /\ memory' = [memory EXCEPT !.open = @ \cup
                     {[id |-> Id, bar |-> bars, snap |-> Snapshot(Id)]}]
    /\ fate' = [fate EXCEPT ![Id].status = "open"]
    /\ UNCHANGED <<backtest, session, csv, counters>>

\* _on_open: the verdicts held for the packet, once.
InsertEvaluatorVerdictsJob ==
    /\ At("insert_evaluator_verdicts")
    /\ Statement("evaluators", InsertEvaluatorVerdicts(tables.evaluators, Id, fate[Id].votes))
    /\ memory' = [memory EXCEPT !.held = @ \ {Id}]
    /\ UNCHANGED ground

(***************************************************************************)
(* The jobs of a close.                                                    *)
(***************************************************************************)
KeepsPositions ==
    /\ At("exit")
    /\ work' = Tail(work)
    /\ UNCHANGED <<tables, memory, lost, setbacks, ground>>

\* state.close_position() and the historian, both in memory, come first.  The exit monitor
\* leaves a position alone on the bar that opened it.
ClosePosition(position, result) ==
    /\ At("exit") /\ position.bar < bars
    /\ memory' = [memory EXCEPT !.open = @ \ {position},
                                !.hist = RecordClosedTrade(@, result)]
    /\ fate' = [fate EXCEPT ![position.id].status = "closed", ![position.id].result = result]
    /\ work' = CloseJobs(position) \o Tail(work)
    /\ UNCHANGED <<backtest, session, tables, csv, lost, setbacks, counters>>

UpdateRewardJob ==
    /\ At("update_reward")
    /\ Statement("transitions", UpdateReward(tables.transitions, Id, Id))
    /\ UNCHANGED <<memory, ground>>

PanelAttributionJob ==
    /\ At("panel_attribution")
    /\ Statement("attributions", InsertAttribution(tables.attributions, Id, Id,
                     SignOutcome(fate[Id].result), fate[Id].result, "panel"))
    /\ UNCHANGED <<memory, ground>>

BackfillTradeIdJob ==
    /\ At("backfill_trade_id")
    /\ Statement("trace", BackfillTradeId(tables.trace, Id, Id))
    /\ UNCHANGED <<memory, ground>>

\* The diagnostics hear of the close even if its row could not be written.
UpdateTradeCloseJob ==
    /\ At("update_trade_close")
    /\ Statement("trades", UpdateTradeClose(tables.trades, Id, fate[Id].result))
    /\ memory' = [memory EXCEPT !.pending =
                     IF "diagnostics" \in session.wired THEN OnTradeClose(@, Id) ELSE @]
    /\ UNCHANGED ground

\* The reviews are read, and each becomes an update after the attribution.
QueryReviewsJob ==
    /\ At("query_reviews")
    /\ \/ LET found == {r.trader : r \in ReviewsOf(tables.trace, Id)} IN
          /\ work' = <<work[2]>> \o ForEachTrader("calibrate", Id, found) \o Tail(Tail(work))
          /\ Succeeds
       \/ work' = Tail(work) /\ Fails
    /\ UNCHANGED <<tables, memory, ground>>

JournalAttributionJob ==
    /\ At("journal_attribution")
    /\ Statement("attributions", InsertAttribution(tables.attributions, Id, Id,
                     BandOutcome(fate[Id].result), fate[Id].result, "journal"))
    /\ UNCHANGED <<memory, ground>>

Upserted(table, key, rec) == [tables EXCEPT ![table][key] = rec]

\* A record that cannot be read is taken for a new one and written back as such.
UpsertAfterRead(table, key, rec, fresh) ==
    /\ work' = Tail(work)
    /\ \/ tables' = Upserted(table, key, rec) /\ Succeeds
       \/ tables' = Upserted(table, key, fresh) /\ Fails
       \/ UNCHANGED tables /\ Fails

CalibrateJob ==
    /\ At("calibrate")
    /\ LET t == Head(work).trader
           verdict == (CHOOSE r \in ReviewsOf(tables.trace, Id) : r.trader = t).verdict
           After(rec) == Calibrated(rec, verdict, BandOutcome(fate[Id].result)) IN
       UpsertAfterRead("calibration", t, After(tables.calibration[t]), After(FreshCalibration))
    /\ UNCHANGED <<memory, ground>>

FamilyJob ==
    /\ At("family")
    /\ LET f == fate[Id].family
           After(rec) == FamilyUpdated(rec, BandOutcome(fate[Id].result), fate[Id].result) IN
       UpsertAfterRead("families", f, After(tables.families[f]), After(FreshFamily))
    /\ UNCHANGED <<memory, ground>>

UpdateEvaluatorOutcomesJob ==
    /\ At("update_evaluator_outcomes")
    /\ Statement("evaluators", UpdateEvaluatorOutcomes(tables.evaluators, Id, fate[Id].result))
    /\ UNCHANGED <<memory, ground>>

\* The journal's own FeatureReadyEvent comes after the exit monitor's, so that the
\* bar of the close is the first bar after it.
OnBarJob(failed) ==
    /\ At("on_bar")
    /\ work' = Tail(work)
    /\ csv' = CsvAfterBar(csv, memory.pending, failed)
    /\ WritesFail(failed)
    /\ memory' = [memory EXCEPT !.pending = AfterBar(@)]
    /\ UNCHANGED <<backtest, session, fate, tables, counters>>

(***************************************************************************)
(* generate_all_recommendations, on the database as it stands.             *)
(***************************************************************************)
Advice(target, advice, samples) ==
    IF advice = "none" THEN {} ELSE {[target |-> target, advice |-> advice, samples |-> samples]}

GenerateAllRecommendations ==
    /\ work = <<>>
    /\ tables' = [tables EXCEPT !.advice = @
           \cup (UNION {Advice(t, TraderAdvice(tables.calibration[t]), tables.calibration[t].reviews) :
                            t \in Traders})
           \cup (UNION {Advice(f, FamilyAdvice(tables.families[f]), tables.families[f].total) :
                            f \in Families})]
    /\ UNCHANGED <<work, memory, lost, setbacks, ground>>

Next ==
    \/ \E wired \in Stages : Start(wired)
    \/ \E failed \in SUBSET memory.pending : Stop(failed)
    \/ Crash
    \/ QuietBar
    \/ \E action \in Actions, verdict \in {"hold", "reject", "enter"},
          votes \in Panels, family \in Families : ProposalBar(action, verdict, votes, family)
    \/ LogTransitionJob
    \/ InsertSetupPacketJob
    \/ InsertTraderReviewJob
    \/ InsertPanelSummaryJob
    \/ InsertFinalDecisionJob
    \/ JournalEventJob
    \/ InsertTradeOpenJob
    \/ InsertEvaluatorVerdictsJob
    \/ KeepsPositions
    \/ \E position \in memory.open, result \in Results : ClosePosition(position, result)
    \/ UpdateRewardJob
    \/ PanelAttributionJob
    \/ BackfillTradeIdJob
    \/ UpdateTradeCloseJob
    \/ QueryReviewsJob
    \/ JournalAttributionJob
    \/ CalibrateJob
    \/ FamilyJob
    \/ UpdateEvaluatorOutcomesJob
    \/ \E failed \in SUBSET Finished(Aged(memory.pending)) : OnBarJob(failed)
    \/ GenerateAllRecommendations

Spec == Init /\ [][Next]_vars

(***************************************************************************)
(* Properties.                                                             *)
(***************************************************************************)
AtRest == work = <<>>

Recorded(id) == \E r \in tables.trades : r.id = id

\* A row that says "open" although its position is gone, because the session that held
\* it ended or because the UPDATE at its close was lost.
Orphaned(id) ==
    /\ Recorded(id)
    /\ \/ fate[id].status = "open" /\ ~ \E p \in memory.open : p.id = id
       \/ Lost("update_trade_close", id)

\* Between two bars the console's overview counts as open exactly the positions held
\* and the orphans of ended sessions and lost updates, and every other trade with the
\* sign of its result; the reward of a transition is that of its close once the trade
\* closed, unless the update was lost.  Before that, and for ever if the trade was refused
\* or orphaned, an entry is left at NULL and anything else at 0.0, an entry at reduced
\* risk among them, although the logger's docstring excepts NO_TRADE and DEFER only
\* (journal/db.py, mdp/transition_logger.py:91-105, mdp/actions.py:36-40).
RowsTellWhy ==
    AtRest =>
        /\ Overview(tables.trades).open =
               Cardinality({p \in memory.open : Recorded(p.id)})
               + Cardinality({id \in Proposals : Orphaned(id)})
        /\ \A r \in tables.trades : r.outcome # "open" =>
               fate[r.id].status = "closed" /\ r.outcome = SignOutcome(fate[r.id].result)
        /\ \A t \in tables.transitions :
               /\ t.reward = "paid" <=>
                      fate[t.id].status = "closed" /\ ~Lost("update_reward", t.id)
               /\ t.reward = "null" <=> t.reward # "paid" /\ fate[t.id].action = "enter"

\* The trades closed in a session with this part of the layer wired.
WiredTrades(part) == {id \in Proposals : fate[id].status = "closed" /\ part \in fate[id].wired}
LearnedTrades == WiredTrades("journal")

\* The rows a writer left for a trade, and its job.
Of(id, writer) ==
    {i \in DOMAIN tables.attributions :
        tables.attributions[i].trade = id /\ tables.attributions[i].writer = writer}
AttributionJob == [panel |-> "panel_attribution", journal |-> "journal_attribution"]
Writers == DOMAIN AttributionJob

\* The rows a report counts when nothing is lost: one a trade and writer wired.
VerdictsDue == Cardinality(WiredTrades("panel")) + Cardinality(WiredTrades("journal"))

\* A closed trade is attributed by the panel and again by the journal, each if it was
\* wired, with the same result and, beyond 0.05 R, the same outcome; so the report's
\* totals count a trade twice, or once if the wiring stopped between the two.  No row of
\* the trace is ever linked to another trade (panel_decision/group.py,
\* performance_journal/group.py, journal_extension.py).
TwoVerdictsPerTrade ==
    /\ \A r \in tables.trace : r.trade # 0 =>
           r.trade = r.packet /\ fate[r.packet].status = "closed"
    /\ AtRest => \A id \in Proposals :
               /\ \A w \in Writers : Cardinality(Of(id, w)) =
                     IF id \in WiredTrades(w) /\ ~Lost(AttributionJob[w], id) THEN 1 ELSE 0
               /\ \A i \in Of(id, "panel"), k \in Of(id, "journal") :
                     tables.attributions[i].outcome = tables.attributions[k].outcome
                        <=> fate[id].result \notin (-5..5) \ {0}
    /\ AtRest =>
        /\ TradeStats(tables.attributions).total
               = VerdictsDue - Cardinality({j \in lost : \E w \in Writers :
                                               j.op = AttributionJob[w] /\ j.id \in WiredTrades(w)})
        /\ lost = {} =>
               PanelStats({r \in tables.trace : r.table = "panel_summaries"}, tables.attributions)
                   = [total |-> VerdictsDue, concludes |-> VerdictsDue >= MinSamples]

Approved(t, id) == fate[id].votes[t][1] = "approve"

CountersDisturbed(ops, trader) == \E j \in lost : j.op \in ops /\ j.trader \in {None, trader}

\* The running records count closed trades and nothing else: never more reviews of a
\* trader or trades of a family than there were, and as many, with the right wins, as
\* long as no review, no read and no write of them was lost (a failed read restarts the
\* record at zero).  The historian has heard of no more closes than there were.  No
\* recommendation rests on fewer samples than the minimum, nor on more than there are
\* closed trades, although attributions hold two rows a trade (calibration.py,
\* tracking.py, historian, recommendation_engine.py).
CountersFollowTrades ==
    AtRest =>
        /\ \A t \in Traders :
              LET rec == tables.calibration[t] IN
              /\ rec.reviews <= Cardinality(LearnedTrades)
              /\ ~CountersDisturbed({"insert_trader_review", "query_reviews", "calibrate"}, t) =>
                    /\ rec.reviews = Cardinality(LearnedTrades)
                    /\ rec.approvalsWon = Cardinality({id \in LearnedTrades :
                                              Approved(t, id) /\ fate[id].result > 5})
        /\ \A f \in Families :
              LET rec == tables.families[f]
                  ofFamily == {id \in LearnedTrades : fate[id].family = f} IN
              /\ rec.total = rec.wins + rec.losses + rec.breakevens
              /\ rec.total <= Cardinality(ofFamily)
              /\ (\A id \in ofFamily : ~Lost("family", id)) =>
                    /\ rec.total = Cardinality(ofFamily)
                    /\ rec.wins = Cardinality({id \in ofFamily : fate[id].result > 5})
        /\ Query(memory.hist).similar <= Cardinality({id \in Proposals : fate[id].status = "closed"})
        /\ \A a \in tables.advice : MinSamples <= a.samples /\ a.samples <= Cardinality(LearnedTrades)

RowsOf(id) == {i \in DOMAIN csv : csv[i].trade = id}
Waiting(id) == \E p \in memory.pending : p.trade = id

\* A trade closed with the diagnostics wired is written to the file once, after its last
\* snapshot or at the teardown, unless the write failed or a crash took it or its close;
\* meanwhile it waits, and it is never both written and waiting.  A trade of a session
\* whose recorder was not wired leaves no row (analysis/exit_diagnosis.py, runner.py).
DiagnosedOnce ==
    AtRest => \A id \in Proposals :
        Cardinality(RowsOf(id)) + (IF Waiting(id) THEN 1 ELSE 0)
            = IF id \in WiredTrades("diagnostics") /\ ~Lost("diagnosis", id) THEN 1 ELSE 0

\* groups/historian/group.py:61, "_consecutive_losses: running count reset on any win":
\* after a close with a profit the historian counts no losing streak.
WinsResetStreak ==
    [][\A position \in memory.open :
          (session'.up /\ position \notin memory'.open /\ fate'[position.id].result > 0)
              => memory'.hist.losses = 0]_vars
=============================================================================
