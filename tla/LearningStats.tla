---------------------------- MODULE LearningStats ----------------------------
(***************************************************************************)
(* What the learning layer makes of closed trades: the running records of  *)
(* a trader and of a setup family (learning/calibration.py, tracking.py),  *)
(* the statistics of the report (reports.py, calibration.py) and the       *)
(* recommendations (recommendation_engine.py).  Scores, Brier sums and     *)
(* bars held are left out: no conclusion below is drawn from them.         *)
(***************************************************************************)
EXTENDS Integers, Sequences, FiniteSets, SequencesExt

CONSTANT MinSamples      \* MIN_SAMPLES (30 in the code)

ASSUME MinSamplesAssumption == MinSamples \in Nat \ {0}

(***************************************************************************)
(* Running records, one row per trader and per family (UPSERT).            *)
(***************************************************************************)
FreshCalibration ==
    [reviews |-> 0, approvals |-> 0, approvalsWon |-> 0, rejections |-> 0, wrong |-> 0]

One(condition) == IF condition THEN 1 ELSE 0

\* A verdict is <<vote, confidence>>, the confidence "high" from 0.75 up.
Wrong(verdict, won) ==
    /\ verdict[2] = "high"
    /\ \/ verdict[1] = "approve" /\ ~won
       \/ verdict[1] = "reject" /\ won

Calibrated(rec, verdict, outcome) ==
    LET won == outcome = "win" IN
    [reviews      |-> rec.reviews + 1,
     approvals    |-> rec.approvals + One(verdict[1] = "approve"),
     approvalsWon |-> rec.approvalsWon + One(verdict[1] = "approve" /\ won),
     rejections   |-> rec.rejections + One(verdict[1] = "reject"),
     wrong        |-> rec.wrong + One(Wrong(verdict, won))]

FreshFamily == [total |-> 0, wins |-> 0, losses |-> 0, breakevens |-> 0, result |-> 0]

FamilyUpdated(rec, outcome, result) ==
    [total      |-> rec.total + 1,
     wins       |-> rec.wins + One(outcome = "win"),
     losses     |-> rec.losses + One(outcome = "loss"),
     breakevens |-> rec.breakevens + One(outcome \notin {"win", "loss"}),
     result     |-> rec.result + result]

(***************************************************************************)
(* Recommendations.  A rate of n out of m is compared by cross-products;   *)
(* approval_win_rate is None below MinSamples approvals, and an            *)
(* overconfident trader is only cautioned when nothing else was found.     *)
(***************************************************************************)
RateBelow(n, m, percent) == 100 * n < percent * m

Overconfident(rec) == 100 * rec.wrong > 30 * rec.reviews

TraderAdvice(rec) ==
    LET rated == rec.approvals >= MinSamples
        below(p) == RateBelow(rec.approvalsWon, rec.approvals, p) IN
    IF rec.reviews < MinSamples      THEN "none"
    ELSE IF rated /\ below(30)       THEN "quarantine"
    ELSE IF rated /\ below(40)       THEN "caution"
    ELSE IF rated /\ ~below(60)      THEN "reweight"
    ELSE IF Overconfident(rec)       THEN "caution"
    ELSE "none"

\* avg_pnl_r < -0.5, results being hundredths of R.
FamilyAdvice(rec) ==
    IF rec.total < MinSamples                    THEN "none"
    ELSE IF /\ RateBelow(rec.wins, rec.total, 30)
            /\ rec.result < -50 * rec.total      THEN "quarantine"
    ELSE IF RateBelow(rec.wins, rec.total, 40)   THEN "caution"
    ELSE "none"

(***************************************************************************)
(* The report.  _get_trade_stats groups the rows of outcome_attributions;  *)
(* compute_panel_stats joins them to the panel summaries by trade_id.      *)
(***************************************************************************)
CountOutcome(attributions, outcome) ==
    Cardinality({i \in DOMAIN attributions : attributions[i].outcome = outcome})

TradeStats(attributions) ==
    LET wins   == CountOutcome(attributions, "win")
        losses == CountOutcome(attributions, "loss")
        total  == wins + losses + CountOutcome(attributions, "breakeven") IN
    [total |-> total, wins |-> wins, losses |-> losses, concludes |-> total >= MinSamples]

PanelStats(summaries, attributions) ==
    LET joined == {i \in DOMAIN attributions :
                      \E s \in summaries : s.trade # 0 /\ s.trade = attributions[i].trade} IN
    [total |-> Cardinality(joined), concludes |-> Cardinality(joined) >= MinSamples]
=============================================================================
