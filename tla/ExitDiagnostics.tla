--------------------------- MODULE ExitDiagnostics ---------------------------
(***************************************************************************)
(* ExitDiagnosticsRecorder (analysis/exit_diagnosis.py): every closed      *)
(* trade is followed for POST_CLOSE_INTERVALS[-1] bars, then one row is    *)
(* appended to data/exit_diagnosis.csv.  What waits is kept in memory, by  *)
(* trade, with the bars counted since the close; a row is the trade and    *)
(* the bars it was followed for, which decide its snapshots.  A write that *)
(* fails is logged and its record forgotten all the same.  Left out: a     *)
(* directory that cannot be made, which would raise before the write and   *)
(* leave the record for the next bar.                                      *)
(***************************************************************************)
EXTENDS Integers, Sequences, FiniteSets, SequencesExt

CONSTANT LastSnapshot    \* POST_CLOSE_INTERVALS[-1] (96 in the code)

ASSUME LastSnapshotAssumption == LastSnapshot \in Nat \ {0}

\* The dict is keyed by trade: a second close would replace the first.
OnTradeClose(pending, id) ==
    {p \in pending : p.trade # id} \cup {[trade |-> id, bars |-> 0]}

Aged(pending) == {[p EXCEPT !.bars = @ + 1] : p \in pending}

Finished(pending) == {p \in pending : p.bars >= LastSnapshot}

\* _append_to_csv, for each of the records: the failed ones leave no row.
Appended(csv, records, failed) == csv \o SetToSeq(records \ failed)

\* on_bar(): one bar more for every pending trade of the symbol; those that have
\* had their last snapshot are written, or fail to be, and are forgotten.
\* Slip: a finished trade is written but stays in the dict.
KeptAfterBar(pending) == Aged(pending)
AfterBar(pending) == Aged(pending) \ Finished(Aged(pending))
CsvAfterBar(csv, pending, failed) == Appended(csv, Finished(Aged(pending)), failed)

\* flush_pending(), at teardown.
Flushed(csv, pending, failed) == Appended(csv, pending, failed)
=============================================================================
