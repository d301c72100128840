------------------------------- MODULE Console -------------------------------
(***************************************************************************)
(* The console server (console/server.py): the requests that drive the     *)
(* runner manager and the event bridge, the clients' streams and the        *)
(* background jobs, all tasks of one asyncio loop.                          *)
(***************************************************************************)
EXTENDS RunnerManager, EventStream, ConsoleJobs

CONSTANTS
  Shutdown,    \* the stop the server makes of itself when it ends
  MaxRequests  \* bound: requests that reach the server in a behaviour

ASSUME ConsoleAssumption == Shutdown \in Stops /\ MaxRequests \in Nat

VARIABLES
  serving,  \* FALSE once the server shuts down
  requests  \* requests so far

vars == <<managerVars, bridgeVars, clientVars, job, serving, requests>>
streamVars == <<bridgeVars, clientVars>>

Init == InitManager /\ InitStream /\ InitJobs /\ serving = TRUE /\ requests = 0

\* A request is taken.
Request == serving /\ requests < MaxRequests /\ requests' = requests + 1 /\ UNCHANGED serving

\* POST /api/actions/start_runner: the bridge is attached in the same step,
\* if the start succeeded.
StartRequest ==
  /\ Request
  /\ \/ StartRefused /\ UNCHANGED streamVars
     \/ \E sim \in BOOLEAN :
          \/ Start(sim) /\ Attach(created') /\ UNCHANGED clientVars
          \/ StartFails(sim) /\ UNCHANGED streamVars
  /\ UNCHANGED job

\* POST /api/actions/stop_runner: the bridge is detached first, whatever the
\* manager answers.
StopRequest(s) ==
  /\ Request /\ s # Shutdown
  /\ Detach
  /\ StopRefused(s) \/ StopBegins(s)
  /\ UNCHANGED <<clientVars, job>>

\* The end of lifespan(): no request is open any more.  The runner is stopped
\* if it is running.
ShutDown ==
  /\ serving /\ StopsUnderWay = {} /\ \A c \in Clients : at[c] \in {"away", "gone"}
  /\ serving' = FALSE
  /\ Detach
  /\ IF running THEN StopBegins(Shutdown) ELSE UNCHANGED managerVars
  /\ UNCHANGED <<clientVars, job, requests>>

StopGoesOn(s) == StopStep(s) /\ UNCHANGED <<streamVars, job, serving, requests>>
LoopGoesOn(l) == LoopStep(l) /\ UNCHANGED <<streamVars, job, serving, requests>>

\* A poll ends without a bar, or with one of which the bus's subscribers
\* hear.
PollGoesOn(l) ==
  /\ PollEnds(l)
  /\ \/ UNCHANGED streamVars
     \/ polled[l] \in up /\ Handle(polled[l])
  /\ UNCHANGED <<job, serving, requests>>

BarRequest ==
  BarInjected /\ Handle(runner) /\ UNCHANGED <<job, serving, requests>>

ClientStep(c) ==
  /\ \/ /\ SendHistory(c) \/ SendEvent(c) \/ Heartbeat(c) \/ Disconnect(c)
        /\ UNCHANGED <<serving, requests>>
     \/ Request /\ (Connect(c) \/ SetFilter(c))
  /\ UNCHANGED <<managerVars, job>>

JobRequest(j, kind) ==
  Request /\ Submit(j, kind) /\ UNCHANGED <<managerVars, streamVars>>
JobGoesOn(j) ==
  JobStep(j) /\ UNCHANGED <<managerVars, streamVars, serving, requests>>

\* The process is over.
Down == ~serving /\ StopsUnderWay = {} /\ UNCHANGED vars

Next ==
  \/ StartRequest
  \/ \E s \in Stops : StopRequest(s) \/ StopGoesOn(s)
  \/ \E l \in Loops : LoopGoesOn(l) \/ PollGoesOn(l)
  \/ ShutDown \/ Down
  \/ BarRequest
  \/ \E c \in Clients : ClientStep(c)
  \/ \E j \in Jobs : JobGoesOn(j) \/ \E kind \in Kinds : JobRequest(j, kind)

\* asyncio runs every task that can run.
Spec ==
  /\ Init /\ [][Next]_vars
  /\ \A l \in Loops : WF_vars(LoopGoesOn(l)) /\ WF_vars(PollGoesOn(l))
  /\ \A s \in Stops : WF_vars(StopGoesOn(s))
  /\ \A j \in Jobs : WF_vars(JobGoesOn(j))

-----------------------------------------------------------------------------
(* Properties.                                                             *)

\* Between stops the manager tells the truth: a runner it calls running is
\* up, the bridge listens to its bus and to no other, and a live one has its
\* polling loop.  Stops that overlap starts and each other, loops of earlier
\* runners that end late, and failed starts must all leave it so.
RunningIsTrue ==
  StopsUnderWay = {} /\ Mode # "stopped" =>
    /\ Shown \in up /\ attached = Shown
    /\ Mode = "live" => task = Shown /\ loop[task] # "done"

\* Every runner left open without the manager holding it comes from a start
\* accepted while a stop was under way, or from a start that failed: no other
\* sequence of requests loses a runner.
LeaksAreExplained == Cardinality(up \ {runner}) <= overlaps

\* A stop that has begun is answered, and a job that was submitted ends.
RequestsEnd ==
  /\ \A s \in Stops : stop[s].at = "joining" ~> stop[s].at = "answered"
  /\ \A j \in Jobs : job[j].status = "pending" ~> job[j].finished

=============================================================================
