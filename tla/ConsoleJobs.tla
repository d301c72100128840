----------------------------- MODULE ConsoleJobs -----------------------------
(***************************************************************************)
(* The console's background jobs: replays of a fixture through a harness   *)
(* (console/replay_manager.py, validation/replay_harness.py and            *)
(* true_replay_harness.py) and test runs (console/test_runner.py).  A job   *)
(* is a record the requests read while its task fills it in.                *)
(***************************************************************************)
EXTENDS Integers

CONSTANTS Jobs, MaxBars  \* MaxBars: bars of a fixture, lines of a test run

ASSUME JobsAssumption == MaxBars \in Nat \ {0}

VARIABLES job

NoJob == [kind |-> "none", status |-> "none", next |-> 0, errors |-> 0,
          finished |-> FALSE, open |-> FALSE]

InitJobs == job = [j \in Jobs |-> NoJob]

\* Both harnesses run a replay the same way.
Kinds == {"replay", "tests"}

Submit(j, kind) ==
  /\ job[j].kind = "none"
  /\ job' = [job EXCEPT ![j] = [NoJob EXCEPT !.kind = kind, !.status = "pending"]]

\* The end of _run_task: finally turns "running" into "done" and leaves
\* "error" alone.  Slip: it marks the job done in any case.
CloseWithDone(r) == [r EXCEPT !.finished = TRUE, !.open = FALSE, !.status = "done"]
Close(r) == [r EXCEPT !.finished = TRUE, !.open = FALSE,
                      !.status = IF @ = "running" THEN "done" ELSE @]

Fail(r) == Close([r EXCEPT !.status = "error", !.errors = @ + 1])

\* The task's first step: the fixture and the harness are looked up in their
\* tables, and the harness (or the subprocess) is started; any of it may fail.
Begin(j) ==
  /\ job[j].status = "pending"
  /\ LET r == [job[j] EXCEPT !.status = "running"]
     IN  \/ job' = [job EXCEPT ![j] = Fail(r)]
         \/ job' = [job EXCEPT ![j] = [r EXCEPT !.open = TRUE]]

\* One bar through the harness's runner, then a turn for the others; an
\* error is noted and the next bar follows.  For tests, a line of output.
Bar(j) ==
  /\ job[j].open /\ job[j].next < MaxBars
  /\ \E e \in IF job[j].kind = "tests" THEN {0} ELSE {0, 1} :
       job' = [job EXCEPT ![j].next = @ + 1, ![j].errors = @ + e]

\* All bars are through: the report is read into the record, or its
\* analysis raises; the harness's runner is torn down.
Report(j) ==
  /\ job[j].open /\ job[j].next = MaxBars
  /\ \/ job' = [job EXCEPT ![j] = Close(@)]
     \/ job' = [job EXCEPT ![j] = Fail(@)]

JobStep(j) == Begin(j) \/ Bar(j) \/ Report(j)

-----------------------------------------------------------------------------
\* A job that failed is never shown as done, although the status is written
\* in two functions and a finally of which the last writes "done"; and it is
\* finished with its harness closed.
ErrorsStayErrors ==
  \A j \in Jobs :
    job[j].finished =>
      /\ ~job[j].open /\ job[j].status \in {"done", "error"}
      /\ job[j].next < MaxBars => job[j].status = "error"
=============================================================================
