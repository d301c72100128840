---------------------------- MODULE RunnerManager ----------------------------
(***************************************************************************)
(* The console's runner manager (console/runner_manager.py) with the       *)
(* start and stop requests of console/server.py that drive it.  Requests   *)
(* and polling loops are tasks of one asyncio loop: an action is what a     *)
(* task does between two suspensions.  Setting a runner up never suspends,  *)
(* so a start is one action; a stop suspends while it waits for the         *)
(* cancelled polling loop and again while the runner's connections close.   *)
(*                                                                         *)
(* Runners are numbered in the order of their creation, and a polling loop  *)
(* carries the number of the runner it was created for.                     *)
(***************************************************************************)
EXTENDS Integers, FiniteSets

CONSTANTS
  MaxRunners,  \* bound: runners created in a behaviour
  Stops        \* the stop requests

ASSUME ManagerAssumption == MaxRunners \in Nat \ {0}

VARIABLES
  runner,      \* _runner; 0 is None
  running,     \* _running
  simulation,  \* _simulation_mode
  task,        \* the loop in _runner_task; 0 is None
  failed,      \* _error is set
  created,     \* runners created so far
  simulated,   \* those created for simulation
  up,          \* runners whose groups or connections are still open
  loop,        \* where each polling loop stands
  polled,      \* the runner each loop is polling
  cancelled,   \* loops with a cancellation requested
  stop,        \* where each stop request stands
  overlaps     \* runners created during a stop, or by a start that failed

managerVars == <<runner, running, simulation, task, failed, created, simulated,
                 up, loop, polled, cancelled, stop, overlaps>>

Runners == 1..MaxRunners
Loops == Runners
Idle == [at |-> "idle", on |-> 0]
StopsUnderWay == {s \in Stops : stop[s].at \in {"joining", "closing"}}

InitManager ==
  /\ runner = 0 /\ running = FALSE /\ simulation = TRUE /\ task = 0
  /\ failed = FALSE /\ created = 0 /\ simulated = {} /\ up = {}
  /\ loop = [l \in Loops |-> "none"] /\ polled = [l \in Loops |-> 0]
  /\ cancelled = {} /\ overlaps = 0
  /\ stop = [s \in Stops |-> Idle]

\* get_status and get_system_state: what the manager says of itself, and the
\* runner whose account it shows.
Mode == IF ~running THEN "stopped" ELSE IF simulation THEN "simulation" ELSE "live"
Shown == runner

-----------------------------------------------------------------------------
(* Start.                                                                  *)

StartRefused == running /\ UNCHANGED managerVars

\* What start() does before and during setup(), whether it succeeds or not.
Create(sim) ==
  /\ ~running /\ created < MaxRunners
  /\ created' = created + 1 /\ runner' = created' /\ up' = up \cup {created'}
  /\ simulation' = sim
  /\ simulated' = IF sim THEN simulated \cup {created'} ELSE simulated

\* A runner is set up; a live one gets a polling loop.
Start(sim) ==
  /\ Create(sim)
  /\ running' = TRUE /\ failed' = FALSE
  /\ IF sim
       THEN UNCHANGED <<task, loop>>
       ELSE task' = created' /\ loop' = [loop EXCEPT ![created'] = "new"]
  /\ overlaps' = IF StopsUnderWay # {} THEN overlaps + 1 ELSE overlaps
  /\ UNCHANGED <<polled, cancelled, stop>>

\* A group's setup raises: those before it have opened what they use, and
\* _runner keeps the runner.
StartFails(sim) ==
  /\ Create(sim)
  /\ running' = FALSE /\ failed' = TRUE
  /\ overlaps' = overlaps + 1
  /\ UNCHANGED <<task, loop, polled, cancelled, stop>>

-----------------------------------------------------------------------------
(* The polling loop.                                                       *)

\* Slip: the cancellation is swallowed like any other error of a poll.
LoopEndsSwallowed(l) ==
  /\ loop' = [loop EXCEPT ![l] = "sleeping"]
  /\ polled' = [polled EXCEPT ![l] = 0]
  /\ UNCHANGED running

\* The loop leaves its body; finally clears _running.
LoopEnds(l) ==
  /\ loop' = [loop EXCEPT ![l] = "done"]
  /\ polled' = [polled EXCEPT ![l] = 0]
  /\ running' = FALSE

\* A task cancelled before its first step never enters the body, and so
\* never reaches finally.
NeverBegins(l) ==
  /\ loop[l] = "new" /\ l \in cancelled
  /\ loop' = [loop EXCEPT ![l] = "done"]
  /\ UNCHANGED <<runner, running, simulation, task, failed, created, simulated,
                 up, polled, cancelled, stop, overlaps>>

Cancelled(l) ==
  /\ loop[l] \in {"sleeping", "polling"} /\ l \in cancelled
  /\ LoopEnds(l)
  /\ UNCHANGED <<runner, simulation, task, failed, created, simulated, up,
                 cancelled, stop, overlaps>>

\* The head of the loop: nothing to poll any more.
LoopExits(l) ==
  /\ loop[l] \in {"new", "sleeping"} /\ l \notin cancelled
  /\ ~running \/ runner = 0
  /\ LoopEnds(l)
  /\ UNCHANGED <<runner, simulation, task, failed, created, simulated, up,
                 cancelled, stop, overlaps>>

\* The head of the loop: it polls whichever runner is the manager's now.  A
\* simulation runner refuses, which is recorded as the manager's error.
PollBegins(l) ==
  /\ loop[l] \in {"new", "sleeping"} /\ l \notin cancelled
  /\ running /\ runner # 0
  /\ IF runner \in simulated
       THEN /\ loop' = [loop EXCEPT ![l] = "sleeping"]
            /\ failed' = TRUE /\ UNCHANGED polled
       ELSE /\ loop' = [loop EXCEPT ![l] = "polling"]
            /\ polled' = [polled EXCEPT ![l] = runner] /\ UNCHANGED failed
  /\ UNCHANGED <<runner, running, simulation, task, created, simulated, up,
                 cancelled, stop, overlaps>>

\* run_one_bar returns.  The runner's own errors it swallows, so this is a
\* poll with a bar or without; only a runner that is up can fetch one.
PollEnds(l) ==
  /\ loop[l] = "polling" /\ l \notin cancelled
  /\ loop' = [loop EXCEPT ![l] = "sleeping"]
  /\ polled' = [polled EXCEPT ![l] = 0]
  /\ UNCHANGED <<runner, running, simulation, task, failed, created, simulated,
                 up, cancelled, stop, overlaps>>

\* simulate_bar: accepted by a running simulation runner.
BarInjected ==
  /\ running /\ runner # 0 /\ simulation
  /\ UNCHANGED managerVars

-----------------------------------------------------------------------------
(* Stop.                                                                   *)

\* There is a polling loop that has not ended.
MustJoin == task # 0 /\ loop[task] # "done"

\* Everything is closed: the manager forgets whatever it holds now.
Forget(s) ==
  /\ runner' = 0 /\ task' = 0 /\ running' = FALSE
  /\ stop' = [stop EXCEPT ![s] = [at |-> "answered", on |-> 0]]

\* Slip: tears down what is running, where the loop's finally has just
\* cleared _running.
TearDownIfRunning(s) ==
  /\ up' = IF running THEN up \ {runner} ELSE up
  /\ Forget(s)

\* The part of stop() after the loop: the runner the manager holds by then is
\* torn down, which suspends if it has connections to close.
TearDown(s) ==
  \/ /\ up' = up \ {runner} /\ Forget(s)
  \/ /\ runner \notin simulated \cup {0}
     /\ stop' = [stop EXCEPT ![s] = [at |-> "closing", on |-> runner]]
     /\ UNCHANGED <<runner, task, running, up>>

StopRefused(s) ==
  /\ stop[s].at = "idle" /\ ~running /\ runner = 0
  /\ stop' = [stop EXCEPT ![s] = [at |-> "answered", on |-> 0]]
  /\ UNCHANGED <<runner, running, simulation, task, failed, created, simulated,
                 up, loop, polled, cancelled, overlaps>>

StopBegins(s) ==
  /\ stop[s].at = "idle" /\ (running \/ runner # 0)
  /\ IF MustJoin
       THEN /\ cancelled' = cancelled \cup {task}
            /\ stop' = [stop EXCEPT ![s] = [at |-> "joining", on |-> task]]
            /\ UNCHANGED <<runner, task, running, up>>
       ELSE TearDown(s) /\ UNCHANGED cancelled
  /\ UNCHANGED <<simulation, failed, created, simulated, loop, polled, overlaps>>

StopJoined(s) ==
  /\ stop[s].at = "joining" /\ loop[stop[s].on] = "done"
  /\ TearDown(s)
  /\ UNCHANGED <<simulation, failed, created, simulated, loop, polled,
                 cancelled, overlaps>>

StopClosed(s) ==
  /\ stop[s].at = "closing"
  /\ up' = up \ {stop[s].on}
  /\ Forget(s)
  /\ UNCHANGED <<simulation, failed, created, simulated, loop, polled,
                 cancelled, overlaps>>

LoopStep(l) ==
  NeverBegins(l) \/ Cancelled(l) \/ LoopExits(l) \/ PollBegins(l)
StopStep(s) == StopJoined(s) \/ StopClosed(s)
=============================================================================
