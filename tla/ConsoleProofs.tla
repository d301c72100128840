---------------------------- MODULE ConsoleProofs ----------------------------
(***************************************************************************)
(* Proofs about Console for any number of runners, stop requests, clients  *)
(* and jobs and any sizes of ring, queue and history.                      *)
(***************************************************************************)
EXTENDS Console, FiniteSetTheorems, SequenceTheorems, TLAPS

(***************************************************************************)
(* The manager's invariant.  Two facts carry RunningIsTrue: a runner is    *)
(* created only while _running is FALSE, and a loop that has a             *)
(* cancellation requested has ended or is being joined by a stop, so that  *)
(* between stops no loop dies under a runner.                              *)
(***************************************************************************)
ManagerType ==
  /\ created \in 0 .. MaxRunners /\ runner \in 0 .. created /\ task \in 0 .. created
  /\ running \in BOOLEAN /\ simulation \in BOOLEAN
  /\ simulated \subseteq 1 .. created /\ up \subseteq 1 .. created
  /\ loop \in [Loops -> {"none", "new", "sleeping", "polling", "done"}]
  /\ cancelled \subseteq 1 .. created
  /\ stop \in [Stops -> [at : {"idle", "joining", "closing", "answered"}, on : 0 .. created]]
  /\ overlaps \in Nat

Joining(l) == \E s \in Stops : stop[s].at = "joining" /\ stop[s].on = l
CancelledAreJoined == \A l \in cancelled : loop[l] = "done" \/ Joining(l)

\* A runner left behind costs one of overlaps.  It is paid for before it is
\* lost: by the runner of a failed start, and by what a stop that is closing
\* one runner will find in its place.
FailedStartIsCounted ==
  StopsUnderWay = {} /\ ~running /\ runner \in up => Cardinality(up) <= overlaps
ClosingIsCounted ==
  \A s \in Stops : stop[s].at = "closing" => Cardinality(up \ {stop[s].on}) <= overlaps

ManagerInv ==
  /\ ManagerType
  /\ CancelledAreJoined
  /\ RunningIsTrue
  /\ LeaksAreExplained
  /\ FailedStartIsCounted
  /\ ClosingIsCounted

(***************************************************************************)
(* The stream's invariant.  What a client was sent, is being sent and has  *)
(* queued is an interval of events, less what its filter held back.        *)
(***************************************************************************)
StreamType ==
  /\ handled \in Nat /\ ring \in Seq(Nat)
  /\ registered \subseteq Clients
  /\ queue \in [Clients -> Seq(Nat)] /\ history \in [Clients -> Seq(Nat)]
  /\ received \in [Clients -> Seq(Nat)] /\ skipped \in [Clients -> SUBSET Nat]
  /\ at \in [Clients -> {"away", "history", "live", "gone"}]

\* s is a run of consecutive events that ends in top.
RunTo(s, top) ==
  /\ s \in Seq(Nat) /\ Len(s) <= top
  /\ \A i \in 1 .. Len(s) : s[i] = top - Len(s) + i

\* s is in order, its events and those of sk are S, and S has no hole.
GapFree(s, sk, S) ==
  /\ \A i \in 1 .. (Len(s) - 1) : s[i] < s[i + 1]
  /\ S = ToSet(s) \cup sk
  /\ \A m, n \in S : (m .. n) \subseteq S

Seen(c) == ToSet(Pending(c)) \cup skipped[c]

\* A client not yet connected has nothing, one that reads its queue has had
\* its history, and the broadcast knows no other clients.
SoundClient(c) ==
  /\ at[c] = "away" => /\ received[c] = << >> /\ history[c] = << >>
                       /\ queue[c] = << >> /\ skipped[c] = {}
  /\ at[c] = "live" => history[c] = << >>
  /\ c \in registered => at[c] \in {"history", "live"}
  /\ Seen(c) \subseteq 1 .. handled
  /\ GapFree(Pending(c), skipped[c], Seen(c))
  /\ c \in registered /\ Seen(c) # {} => handled \in Seen(c)

StreamInv == StreamType /\ RunTo(ring, handled) /\ \A c \in Clients : SoundClient(c)

(***************************************************************************)
(* The jobs' invariant: an open harness belongs to a running job.          *)
(***************************************************************************)
JobRecords ==
  [kind : {"none"} \cup Kinds, status : {"none", "pending", "running", "done", "error"},
   next : Nat, errors : Nat, finished : BOOLEAN, open : BOOLEAN]

SoundJob(r) ==
  /\ r \in JobRecords
  /\ r.open => r.status = "running" /\ ~r.finished
  /\ r.status \in {"none", "pending"} => ~r.open /\ ~r.finished
  /\ r.finished => r.status \in {"done", "error"}
  /\ r.finished /\ r.next < MaxBars => r.status = "error"

JobInv == job \in [Jobs -> JobRecords] /\ \A j \in Jobs : SoundJob(job[j])

IInv == ManagerInv /\ StreamInv /\ JobInv

-----------------------------------------------------------------------------
(* The jobs.                                                               *)

LEMMA JobsInit == Init => JobInv
  BY DEF Init, InitJobs, NoJob, JobRecords, SoundJob, JobInv

\* Closing the record of a job that is not waiting.
LEMMA Closing ==
  ASSUME NEW r \in JobRecords, r.status \in {"running", "error"},
         r.next >= MaxBars \/ r.status = "error"
  PROVE  SoundJob(Close(r))
<1> DEFINE v == IF r.status = "running" THEN "done" ELSE r.status
           a == [r EXCEPT !.finished = TRUE]
           b == [a EXCEPT !.open = FALSE]
           c == [b EXCEPT !.status = v]
<1>1. /\ a \in JobRecords /\ a.finished /\ a.next = r.next
  BY DEF JobRecords
<1> HIDE DEF a
<1>2. b \in JobRecords /\ ~b.open /\ b.finished /\ b.next = r.next
  BY <1>1 DEF JobRecords
<1> HIDE DEF b
<1>3. /\ c \in JobRecords /\ ~c.open /\ c.finished /\ c.next = r.next /\ c.status = v
  BY <1>2 DEF JobRecords
<1>4. Close(r) = c
  BY DEF Close, a, b
<1>5. r.next \in Nat
  BY DEF JobRecords
<1> HIDE DEF c
<1> QED
  BY <1>3, <1>4, <1>5, JobsAssumption DEF SoundJob

LEMMA Failing ==
  ASSUME NEW r \in JobRecords
  PROVE  SoundJob(Fail(r))
<1> DEFINE a == [r EXCEPT !.status = "error"]
           b == [a EXCEPT !.errors = r.errors + 1]
<1>1. a \in JobRecords /\ a.status = "error" /\ a.errors = r.errors /\ r.errors + 1 \in Nat
  BY DEF JobRecords
<1> HIDE DEF a
<1>2. b \in JobRecords /\ b.status = "error"
  BY <1>1 DEF JobRecords
<1>3. Fail(r) = Close(b)
  BY DEF Fail, a
<1> HIDE DEF b
<1> QED
  BY <1>2, <1>3, Closing

\* Whatever a step writes over a job's record, it is sound.
LEMMA JobsNext == JobInv /\ [Next]_vars => JobInv'
<1> SUFFICES ASSUME JobInv, [Next]_vars PROVE JobInv'
  OBVIOUS
<1>1. ASSUME NEW j \in Jobs, NEW r, SoundJob(r), job' = [job EXCEPT ![j] = r]
      PROVE  JobInv'
  BY <1>1 DEF JobInv, SoundJob
<1>2. ASSUME NEW j \in Jobs, NEW kind \in Kinds, Submit(j, kind)
      PROVE  JobInv'
  <2> DEFINE r == [NoJob EXCEPT !.kind = kind, !.status = "pending"]
  <2>1. SoundJob(r)
    BY DEF NoJob, SoundJob, JobRecords
  <2>2. job' = [job EXCEPT ![j] = r]
    BY <1>2 DEF Submit
  <2> HIDE DEF r
  <2> QED
    BY <1>1, <2>1, <2>2
<1>3. ASSUME NEW j \in Jobs, Begin(j) PROVE JobInv'
  <2> DEFINE r == [job[j] EXCEPT !.status = "running"]
  <2>1. /\ r \in JobRecords /\ SoundJob([r EXCEPT !.open = TRUE])
    BY <1>3 DEF Begin, JobInv, SoundJob, JobRecords
  <2>2. SoundJob(Fail(r))
    BY <2>1, Failing
  <2>3. \/ job' = [job EXCEPT ![j] = Fail(r)]
        \/ job' = [job EXCEPT ![j] = [r EXCEPT !.open = TRUE]]
    BY <1>3 DEF Begin
  <2> HIDE DEF r
  <2> QED
    BY <1>1, <2>1, <2>2, <2>3
<1>4. ASSUME NEW j \in Jobs, Bar(j) PROVE JobInv'
  <2>1. PICK e \in {0, 1} : job' = [job EXCEPT ![j].next = @ + 1, ![j].errors = @ + e]
    BY <1>4 DEF Bar
  <2> DEFINE r == [job[j] EXCEPT !.next = @ + 1, !.errors = @ + e]
  <2>2. job[j] \in JobRecords /\ SoundJob(job[j]) /\ job[j].open
    BY <1>4 DEF Bar, JobInv
  <2>3. SoundJob(r)
    <3> DEFINE a == [job[j] EXCEPT !.next = job[j].next + 1]
               b == [a EXCEPT !.errors = job[j].errors + e]
    <3>1. job[j].next + 1 \in Nat /\ job[j].errors + e \in Nat
      BY <2>2 DEF JobRecords
    <3>2. /\ a \in JobRecords /\ a.open /\ a.status = job[j].status
          /\ a.finished = job[j].finished
      BY <2>2, <3>1 DEF JobRecords
    <3> HIDE DEF a
    <3>3. /\ b \in JobRecords /\ b.open /\ b.status = job[j].status
          /\ b.finished = job[j].finished
      BY <3>1, <3>2 DEF JobRecords
    <3>4. r = b
      BY DEF a
    <3> HIDE DEF b
    <3> QED
      BY <2>2, <3>3, <3>4 DEF SoundJob
  <2>4. job' = [job EXCEPT ![j] = r]
    BY <2>1, <2>2 DEF JobInv, JobRecords
  <2> HIDE DEF r
  <2> QED
    BY <1>1, <2>3, <2>4
<1>5. ASSUME NEW j \in Jobs, Report(j) PROVE JobInv'
  <2>1. job[j] \in JobRecords /\ job[j].status = "running" /\ job[j].next >= MaxBars
    BY <1>5, JobsAssumption DEF Report, JobInv, SoundJob, JobRecords
  <2>2. SoundJob(Close(job[j])) /\ SoundJob(Fail(job[j]))
    BY <2>1, Closing, Failing
  <2>3. job' = [job EXCEPT ![j] = Close(job[j])] \/ job' = [job EXCEPT ![j] = Fail(job[j])]
    BY <1>5 DEF Report
  <2> QED
    BY <1>1, <2>2, <2>3
<1>6. CASE UNCHANGED job
  BY <1>6 DEF JobInv
<1> QED
  BY <1>2, <1>3, <1>4, <1>5, <1>6
     DEF Next, vars, StartRequest, StopRequest, StopGoesOn, LoopGoesOn, PollGoesOn,
         ShutDown, Down, BarRequest, ClientStep, JobGoesOn, JobRequest, JobStep

-----------------------------------------------------------------------------
(* The manager.                                                            *)

LEMMA Counting ==
  ASSUME NEW S \in SUBSET (1 .. MaxRunners)
  PROVE  /\ Cardinality(S) \in Nat
         /\ \A x : /\ Cardinality(S \ {x}) \in Nat
                   /\ Cardinality(S \ {x}) <= Cardinality(S)
                   /\ Cardinality(S) <= Cardinality(S \ {x}) + 1
                   /\ Cardinality(S \cup {x}) <= Cardinality(S) + 1
<1>1. IsFiniteSet(S)
  <2>1. IsFiniteSet(1 .. MaxRunners)
    BY ManagerAssumption, FS_Interval
  <2> QED
    BY <2>1, FS_Subset
<1>2. Cardinality(S) \in Nat
  BY <1>1, FS_CardinalityType
<1>3. ASSUME NEW x
      PROVE  /\ Cardinality(S \ {x}) \in Nat
             /\ Cardinality(S \ {x}) <= Cardinality(S)
             /\ Cardinality(S) <= Cardinality(S \ {x}) + 1
             /\ Cardinality(S \cup {x}) <= Cardinality(S) + 1
  <2>1. /\ IsFiniteSet(S \ {x})
        /\ Cardinality(S \ {x}) = IF x \in S THEN Cardinality(S) - 1 ELSE Cardinality(S)
    BY <1>1, FS_RemoveElement
  <2>2. Cardinality(S \cup {x}) = IF x \in S THEN Cardinality(S) ELSE Cardinality(S) + 1
    BY <1>1, FS_AddElement
  <2>3. Cardinality(S \ {x}) \in Nat
    BY <2>1, FS_CardinalityType
  <2> QED
    BY <1>2, <2>1, <2>2, <2>3
<1> QED
  BY <1>2, <1>3

LEMMA UpCounted ==
  ASSUME ManagerType
  PROVE  /\ Cardinality(up) \in Nat
         /\ \A x : /\ Cardinality(up \ {x}) \in Nat
                   /\ Cardinality(up \ {x}) <= Cardinality(up)
                   /\ Cardinality(up) <= Cardinality(up \ {x}) + 1
                   /\ Cardinality(up \cup {x}) <= Cardinality(up) + 1
         /\ \A x, y : Cardinality((up \ {x}) \ {y}) <= Cardinality(up \ {x})
         /\ \A x, y : Cardinality((up \ {x}) \cup {y}) <= Cardinality(up \ {x}) + 1
<1>1. up \in SUBSET (1 .. MaxRunners)
  BY ManagerAssumption DEF ManagerType
<1>2. \A x : up \ {x} \in SUBSET (1 .. MaxRunners)
  BY <1>1
<1> QED
  BY <1>1, <1>2, Counting

LEMMA ManagerInit == Init => ManagerInv
<1> SUFFICES ASSUME Init PROVE ManagerInv
  OBVIOUS
<1>1. ManagerType
  <2>1. /\ created = 0 /\ runner = 0 /\ task = 0 /\ running = FALSE /\ simulation = TRUE
        /\ simulated = {} /\ up = {} /\ cancelled = {} /\ overlaps = 0
    BY DEF Init, InitManager
  <2>2. loop \in [Loops -> {"none", "new", "sleeping", "polling", "done"}]
    BY DEF Init, InitManager
  <2>3. stop \in [Stops -> [at : {"idle", "joining", "closing", "answered"}, on : 0 .. 0]]
    BY DEF Init, InitManager, Idle
  <2>4. 0 \in 0 .. MaxRunners /\ 0 \in 0 .. 0
    BY ManagerAssumption
  <2> QED
    BY <2>1, <2>2, <2>3, <2>4 DEF ManagerType
<1>2. up = {} /\ Cardinality({} \ {runner}) = 0
  <2>1. {} \ {runner} = {}
    OBVIOUS
  <2> QED
    BY <2>1, FS_EmptySet DEF Init, InitManager
<1> QED
  BY <1>1, <1>2
     DEF Init, InitManager, ManagerInv, CancelledAreJoined, RunningIsTrue, Mode, Idle,
         LeaksAreExplained, FailedStartIsCounted, ClosingIsCounted

\* While nothing runs, at most one runner that is up is not paid for, and only
\* during a stop.
LEMMA Slack ==
  ASSUME ManagerInv, ~running
  PROVE  Cardinality(up) <= IF StopsUnderWay # {} THEN overlaps + 1 ELSE overlaps
<1>1. Cardinality(up) \in Nat /\ Cardinality(up \ {runner}) \in Nat /\ overlaps \in Nat
  BY UpCounted DEF ManagerInv, ManagerType
<1>2. CASE runner \notin up
  <2>1. up \ {runner} = up
    BY <1>2
  <2> QED
    BY <1>1, <2>1 DEF ManagerInv, LeaksAreExplained
<1>3. CASE runner \in up /\ StopsUnderWay = {}
  BY <1>3 DEF ManagerInv, FailedStartIsCounted
<1>4. CASE StopsUnderWay # {}
  <2>1. Cardinality(up) <= Cardinality(up \ {runner}) + 1
    BY UpCounted DEF ManagerInv
  <2> QED
    BY <1>1, <1>4, <2>1 DEF ManagerInv, LeaksAreExplained
<1> QED
  BY <1>2, <1>3, <1>4

LEMMA StartKeeps ==
  ASSUME ManagerInv, NEW sim \in BOOLEAN,
         (Start(sim) /\ Attach(created')) \/ StartFails(sim)
  PROVE  ManagerInv'
<1> DEFINE n == created + 1
<1>1. /\ ManagerType /\ ~running /\ created < MaxRunners /\ created' = n
      /\ runner' = n /\ up' = up \cup {n} /\ simulation' = sim
      /\ simulated' = IF sim THEN simulated \cup {n} ELSE simulated
      /\ UNCHANGED <<cancelled, stop>>
  BY DEF Start, StartFails, Create, ManagerInv
<1>2. created \in Nat /\ n \in Loops /\ n \notin up /\ n \notin cancelled /\ overlaps \in Nat
  BY <1>1, ManagerAssumption DEF ManagerType, Loops, Runners
<1>3. \/ overlaps' = IF StopsUnderWay # {} THEN overlaps + 1 ELSE overlaps
      \/ overlaps' = overlaps + 1
  BY DEF Start, StartFails
<1>4. ManagerType'
  <2>1. /\ \/ UNCHANGED <<task, loop>>
           \/ task' = n /\ loop' = [loop EXCEPT ![n] = "new"]
        /\ running' \in BOOLEAN
    BY <1>1 DEF Start, StartFails
  <2>2. overlaps' \in Nat
    BY <1>2, <1>3
  <2>3. stop' \in [Stops -> [at : {"idle", "joining", "closing", "answered"}, on : 0 .. n]]
    BY <1>1, <1>2 DEF ManagerType
  <2> QED
    BY <1>1, <1>2, <2>1, <2>2, <2>3, ManagerAssumption DEF ManagerType
<1>5. CancelledAreJoined'
  <2>1. loop' = loop \/ loop' = [loop EXCEPT ![n] = "new"]
    BY <1>1 DEF Start, StartFails
  <2>2. \A l \in cancelled : l # n /\ l \in Loops
    BY <1>1, <1>2, ManagerAssumption DEF ManagerType, Loops, Runners
  <2>3. \A l \in cancelled : loop'[l] = loop[l]
    BY <1>1, <2>1, <2>2 DEF ManagerType
  <2> QED
    BY <1>1, <2>3 DEF ManagerInv, CancelledAreJoined, Joining
<1>6. RunningIsTrue'
  <2>1. CASE StartFails(sim)
    BY <2>1 DEF StartFails, RunningIsTrue, Mode
  <2>2. CASE Start(sim) /\ Attach(created')
    <3>1. ~sim => task' = n /\ loop'[n] = "new"
      BY <1>1, <1>2, <2>2 DEF Start, ManagerType
    <3> QED
      BY <1>1, <2>2, <3>1 DEF Attach, Start, RunningIsTrue, Mode, Shown
  <2> QED
    BY <2>1, <2>2
<1>7. Cardinality(up) <= overlaps'
  BY <1>1, <1>2, <1>3, Slack, UpCounted
<1>8. LeaksAreExplained'
  <2>1. up' \ {runner'} = up
    BY <1>1, <1>2
  <2> QED
    BY <1>7, <2>1 DEF LeaksAreExplained
<1>9. FailedStartIsCounted'
  <2> SUFFICES ASSUME StopsUnderWay = {}, StartFails(sim)
               PROVE  Cardinality(up') <= overlaps'
    BY <1>1 DEF FailedStartIsCounted, StopsUnderWay, Start
  <2>1. Cardinality(up) <= overlaps /\ overlaps' = overlaps + 1
    BY <1>1, Slack DEF StartFails
  <2>2. Cardinality(up \cup {n}) <= Cardinality(up) + 1 /\ Cardinality(up) \in Nat
    BY <1>1, UpCounted
  <2>3. Cardinality(up') \in Nat /\ up' = up \cup {n}
    BY <1>1, <1>4, Counting, ManagerAssumption DEF ManagerType
  <2> QED
    BY <1>2, <2>1, <2>2, <2>3
<1>10. ClosingIsCounted'
  <2> SUFFICES ASSUME NEW s \in Stops, stop[s].at = "closing"
               PROVE  Cardinality(up' \ {stop[s].on}) <= overlaps'
    BY <1>1 DEF ClosingIsCounted
  <2>1. StopsUnderWay # {} /\ stop[s].on \in 0 .. created
    BY <1>1 DEF StopsUnderWay, ManagerType
  <2>2. overlaps' = overlaps + 1
    BY <1>3, <2>1
  <2>3. up' \ {stop[s].on} = (up \ {stop[s].on}) \cup {n}
    BY <1>1, <1>2, <2>1
  <2>4. Cardinality(up \ {stop[s].on}) <= overlaps
    BY DEF ManagerInv, ClosingIsCounted
  <2>5. /\ Cardinality((up \ {stop[s].on}) \cup {n}) <= Cardinality(up \ {stop[s].on}) + 1
        /\ Cardinality(up \ {stop[s].on}) \in Nat
    BY <1>1, UpCounted
  <2>6. Cardinality(up' \ {stop[s].on}) <= Cardinality(up \ {stop[s].on}) + 1
    BY <2>3, <2>5
  <2>7. \A c, d, o \in Int : c <= d + 1 /\ d <= o => c <= o + 1
    OBVIOUS
  <2>8. Cardinality(up' \ {stop[s].on}) \in Nat
    BY <1>4, UpCounted, Counting, ManagerAssumption DEF ManagerType
  <2> QED
    BY <1>2, <2>2, <2>4, <2>5, <2>6, <2>8
<1> QED
  BY <1>4, <1>5, <1>6, <1>8, <1>9, <1>10 DEF ManagerInv

\* A stop that ends: what it closed is gone, and the manager holds no runner.
LEMMA ForgetKeeps ==
  ASSUME ManagerInv, NEW s \in Stops, NEW x,
         up' = up \ {x}, Cardinality(up \ {x}) <= overlaps,
         runner' = 0, task' \in {0, task}, running' = FALSE,
         stop' = [stop EXCEPT ![s] = [at |-> "answered", on |-> 0]],
         stop[s].at = "joining" => loop[stop[s].on] = "done",
         UNCHANGED <<simulation, created, simulated, loop, cancelled, overlaps>>
  PROVE  ManagerInv'
<1>1. ManagerType
  BY DEF ManagerInv
<1>2. \A t \in Stops : stop'[t] = IF t = s THEN [at |-> "answered", on |-> 0] ELSE stop[t]
  BY <1>1 DEF ManagerType
<1>3. ManagerType'
  <2>1. stop' \in [Stops -> [at : {"idle", "joining", "closing", "answered"}, on : 0 .. created]]
    BY <1>1 DEF ManagerType
  <2> QED
    BY <1>1, <2>1 DEF ManagerType
<1>4. CancelledAreJoined'
  <2> SUFFICES ASSUME NEW l \in cancelled, loop[l] # "done"
               PROVE  Joining(l)'
    BY DEF CancelledAreJoined
  <2>1. PICK t \in Stops : stop[t].at = "joining" /\ stop[t].on = l
    BY DEF ManagerInv, CancelledAreJoined, Joining
  <2>2. t # s
    BY <2>1
  <2> QED
    BY <1>2, <2>1, <2>2 DEF Joining
<1>5. RunningIsTrue'
  BY <1>1 DEF RunningIsTrue, Mode
<1>6. LeaksAreExplained' /\ FailedStartIsCounted'
  <2>1. 0 \notin up' /\ up' \ {0} = up'
    BY <1>1 DEF ManagerType
  <2> QED
    BY <1>1, <2>1 DEF LeaksAreExplained, FailedStartIsCounted
<1>7. ClosingIsCounted'
  <2> SUFFICES ASSUME NEW t \in Stops, t # s, stop[t].at = "closing"
               PROVE  Cardinality((up \ {x}) \ {stop[t].on}) <= overlaps
    BY <1>2 DEF ClosingIsCounted
  <2>1. Cardinality((up \ {x}) \ {stop[t].on}) <= Cardinality(up \ {x})
    BY <1>1, UpCounted
  <2>2. (up \ {x}) \ {stop[t].on} = up' \ {stop[t].on}
    OBVIOUS
  <2>3. Cardinality(up' \ {stop[t].on}) \in Nat /\ Cardinality(up \ {x}) \in Nat
    BY <1>1, <1>3, UpCounted, Counting, ManagerAssumption DEF ManagerType
  <2> QED
    BY <1>1, <2>1, <2>2, <2>3 DEF ManagerType
<1> QED
  BY <1>3, <1>4, <1>5, <1>6, <1>7 DEF ManagerInv

\* A stop that begins to close the runner the manager holds.
LEMMA ClosingKeeps ==
  ASSUME ManagerInv, NEW s \in Stops,
         stop' = [stop EXCEPT ![s] = [at |-> "closing", on |-> runner]],
         stop[s].at = "joining" => loop[stop[s].on] = "done",
         UNCHANGED <<runner, running, simulation, task, created, simulated, up, loop,
                     cancelled, overlaps>>
  PROVE  ManagerInv'
<1>1. \A t \in Stops : stop'[t] = IF t = s THEN [at |-> "closing", on |-> runner] ELSE stop[t]
  BY DEF ManagerInv, ManagerType
<1>2. ManagerType'
  <2>1. stop' \in [Stops -> [at : {"idle", "joining", "closing", "answered"}, on : 0 .. created]]
    BY DEF ManagerInv, ManagerType
  <2> QED
    BY <2>1 DEF ManagerInv, ManagerType
<1>3. CancelledAreJoined'
  <2> SUFFICES ASSUME NEW l \in cancelled, loop[l] # "done"
               PROVE  Joining(l)'
    BY DEF CancelledAreJoined
  <2>1. PICK t \in Stops : stop[t].at = "joining" /\ stop[t].on = l
    BY DEF ManagerInv, CancelledAreJoined, Joining
  <2>2. t # s
    BY <2>1
  <2> QED
    BY <1>1, <2>1, <2>2 DEF Joining
<1>4. StopsUnderWay' # {}
  BY <1>1 DEF StopsUnderWay
<1>5. ClosingIsCounted'
  <2>1. \A t \in Stops : stop[t].at = "closing" => Cardinality(up \ {stop[t].on}) <= overlaps
    BY DEF ManagerInv, ClosingIsCounted
  <2>2. Cardinality(up \ {runner}) <= overlaps
    BY DEF ManagerInv, LeaksAreExplained
  <2> QED
    BY <1>1, <2>1, <2>2 DEF ClosingIsCounted
<1>6. LeaksAreExplained'
  BY DEF ManagerInv, LeaksAreExplained
<1> QED
  BY <1>2, <1>3, <1>4, <1>5, <1>6
     DEF ManagerInv, RunningIsTrue, FailedStartIsCounted

LEMMA TearDownKeeps ==
  ASSUME ManagerInv, NEW s \in Stops, TearDown(s),
         stop[s].at = "joining" => loop[stop[s].on] = "done",
         UNCHANGED <<simulation, created, simulated, loop, cancelled, overlaps>>
  PROVE  ManagerInv'
<1>1. CASE up' = up \ {runner} /\ Forget(s)
  <2>1. Cardinality(up \ {runner}) <= overlaps
    BY DEF ManagerInv, LeaksAreExplained
  <2> QED
    BY <1>1, <2>1, ForgetKeeps DEF Forget
<1>2. CASE /\ stop' = [stop EXCEPT ![s] = [at |-> "closing", on |-> runner]]
           /\ UNCHANGED <<runner, task, running, up>>
  BY <1>2, ClosingKeeps
<1> QED
  BY <1>1, <1>2 DEF TearDown

\* A stop that begins to join the polling loop.
LEMMA JoinKeeps ==
  ASSUME ManagerInv, NEW s \in Stops, stop[s].at = "idle", MustJoin,
         cancelled' = cancelled \cup {task},
         stop' = [stop EXCEPT ![s] = [at |-> "joining", on |-> task]],
         UNCHANGED <<runner, running, simulation, task, created, simulated, up, loop,
                     overlaps>>
  PROVE  ManagerInv'
<1>1. \A t \in Stops : stop'[t] = IF t = s THEN [at |-> "joining", on |-> task] ELSE stop[t]
  BY DEF ManagerInv, ManagerType
<1>2. ManagerType'
  <2>1. stop' \in [Stops -> [at : {"idle", "joining", "closing", "answered"}, on : 0 .. created]]
    BY DEF ManagerInv, ManagerType
  <2>2. cancelled' \subseteq 1 .. created
    BY DEF ManagerInv, ManagerType, MustJoin
  <2> QED
    BY <2>1, <2>2 DEF ManagerInv, ManagerType
<1>3. CancelledAreJoined'
  <2> SUFFICES ASSUME NEW l \in cancelled', loop[l] # "done"
               PROVE  Joining(l)'
    BY DEF CancelledAreJoined
  <2>1. CASE l = task
    BY <1>1, <2>1 DEF Joining
  <2>2. CASE l \in cancelled
    <3>1. PICK t \in Stops : stop[t].at = "joining" /\ stop[t].on = l
      BY <2>2 DEF ManagerInv, CancelledAreJoined, Joining
    <3> QED
      BY <1>1, <3>1 DEF Joining
  <2> QED
    BY <2>1, <2>2
<1>4. StopsUnderWay' # {}
  BY <1>1 DEF StopsUnderWay
<1>5. ClosingIsCounted'
  BY <1>1 DEF ManagerInv, ClosingIsCounted
<1>6. LeaksAreExplained'
  BY DEF ManagerInv, LeaksAreExplained
<1> QED
  BY <1>2, <1>3, <1>4, <1>5, <1>6
     DEF ManagerInv, RunningIsTrue, FailedStartIsCounted

LEMMA StopBeginsKeeps ==
  ASSUME ManagerInv, NEW s \in Stops, StopBegins(s)
  PROVE  ManagerInv'
<1>1. CASE MustJoin
  BY <1>1, JoinKeeps DEF StopBegins
<1>2. CASE ~MustJoin
  <2>1. /\ TearDown(s) /\ stop[s].at = "idle"
        /\ UNCHANGED <<simulation, created, simulated, loop, cancelled, overlaps>>
    BY <1>2 DEF StopBegins
  <2> QED
    BY <2>1, TearDownKeeps
<1> QED
  BY <1>1, <1>2

LEMMA StopStepKeeps ==
  ASSUME ManagerInv, NEW s \in Stops, StopStep(s)
  PROVE  ManagerInv'
<1>1. CASE StopJoined(s)
  BY <1>1, TearDownKeeps DEF StopJoined
<1>2. CASE StopClosed(s)
  <2>1. Cardinality(up \ {stop[s].on}) <= overlaps
    BY <1>2 DEF StopClosed, ManagerInv, ClosingIsCounted
  <2> QED
    BY <1>2, <2>1, ForgetKeeps DEF StopClosed, Forget
<1> QED
  BY <1>1, <1>2 DEF StopStep

\* A stop that finds nothing to stop.
LEMMA StopRefusedKeeps ==
  ASSUME ManagerInv, NEW s \in Stops, StopRefused(s)
  PROVE  ManagerInv'
<1>1. up \ {0} = up /\ up \ {runner} = up
  BY DEF StopRefused, ManagerInv, ManagerType
<1>2. Cardinality(up \ {0}) <= overlaps
  BY <1>1 DEF ManagerInv, LeaksAreExplained
<1>3. /\ up' = up \ {0} /\ runner' = 0 /\ task' \in {0, task} /\ running' = FALSE
      /\ stop' = [stop EXCEPT ![s] = [at |-> "answered", on |-> 0]]
      /\ ~(stop[s].at = "joining")
      /\ UNCHANGED <<simulation, created, simulated, loop, cancelled, overlaps>>
  BY <1>1 DEF StopRefused, ManagerInv, ManagerType
<1> QED
  BY <1>2, <1>3, ForgetKeeps

\* A step of a polling loop.  The loop of a runner that is running ends only
\* during a stop, because a cancelled one is being joined.
LEMMA LoopKeeps ==
  ASSUME ManagerInv, NEW l \in Loops,
         NEW v \in {"sleeping", "polling", "done"}, loop' = [loop EXCEPT ![l] = v],
         \/ v # "done" /\ loop[l] # "done" /\ UNCHANGED running
         \/ v = "done" /\ l \in cancelled /\ loop[l] # "done" /\ running' \in {FALSE, running}
         \/ v = "done" /\ (~running \/ runner = 0) /\ running' = FALSE,
         UNCHANGED <<runner, simulation, task, created, simulated, up, cancelled, stop,
                     overlaps, attached>>
  PROVE  ManagerInv'
<1>1. /\ ManagerType
      /\ \A k \in Loops : loop'[k] = IF k = l THEN v ELSE loop[k]
  BY DEF ManagerInv, ManagerType
<1>2. ManagerType'
  BY <1>1 DEF ManagerType
<1>3. CancelledAreJoined'
  <2> SUFFICES ASSUME NEW k \in cancelled, loop'[k] # "done"
               PROVE  Joining(k)'
    BY DEF CancelledAreJoined
  <2>1. k \in Loops
    BY <1>1, ManagerAssumption DEF ManagerType, Loops, Runners
  <2>2. loop[k] # "done"
    BY <1>1, <2>1
  <2> QED
    BY <2>2 DEF ManagerInv, CancelledAreJoined, Joining
<1>4. StopsUnderWay' = StopsUnderWay
  BY DEF StopsUnderWay
<1>5. ASSUME StopsUnderWay = {}, running
      PROVE  running' /\ (Mode = "live" => loop'[task] # "done")
  <2>1. runner # 0 /\ (Mode = "live" => task \in Loops /\ loop[task] # "done")
    BY <1>1, <1>5, ManagerAssumption
       DEF ManagerInv, RunningIsTrue, Mode, Shown, ManagerType, Loops, Runners
  <2>2. ~(l \in cancelled /\ loop[l] # "done")
    BY <1>5 DEF ManagerInv, CancelledAreJoined, Joining, StopsUnderWay
  <2>3. v # "done" /\ loop[l] # "done" /\ UNCHANGED running
    BY <1>5, <2>1, <2>2
  <2> QED
    BY <1>1, <1>5, <2>1, <2>3
<1>6. running' => running
  OBVIOUS
<1>7. RunningIsTrue'
  BY <1>4, <1>5, <1>6 DEF ManagerInv, RunningIsTrue, Mode, Shown
<1>8. LeaksAreExplained'
  BY DEF ManagerInv, LeaksAreExplained
<1>9. FailedStartIsCounted'
  BY <1>4, <1>5 DEF ManagerInv, FailedStartIsCounted
<1>10. ClosingIsCounted'
  BY DEF ManagerInv, ClosingIsCounted
<1> QED
  BY <1>2, <1>3, <1>7, <1>8, <1>9, <1>10 DEF ManagerInv

\* A step that touches neither the manager nor what the bridge listens to.
LEMMA ElsewhereKeepsManager ==
  ASSUME ManagerInv, UNCHANGED <<managerVars, attached>>
  PROVE  ManagerInv'
  BY DEF managerVars, ManagerInv, ManagerType, CancelledAreJoined, Joining, RunningIsTrue,
         Mode, Shown, StopsUnderWay, LeaksAreExplained, FailedStartIsCounted,
         ClosingIsCounted

LEMMA LoopStepKeeps ==
  ASSUME ManagerInv, NEW l \in Loops, LoopStep(l) \/ PollEnds(l), UNCHANGED attached
  PROVE  ManagerInv'
<1>1. CASE NeverBegins(l)
  BY <1>1, LoopKeeps DEF NeverBegins
<1>2. CASE Cancelled(l)
  <2>1. /\ loop[l] # "done" /\ loop' = [loop EXCEPT ![l] = "done"]
        /\ running' \in {FALSE, running} /\ l \in cancelled
    BY <1>2 DEF Cancelled, LoopEnds
  <2> QED
    BY <1>2, <2>1, LoopKeeps DEF Cancelled
<1>3. CASE LoopExits(l)
  BY <1>3, LoopKeeps DEF LoopExits, LoopEnds
<1>4. CASE PollBegins(l)
  <2>1. /\ loop[l] # "done" /\ UNCHANGED running
        /\ \E v \in {"sleeping", "polling"} : loop' = [loop EXCEPT ![l] = v]
    BY <1>4 DEF PollBegins
  <2> QED
    BY <1>4, <2>1, LoopKeeps DEF PollBegins
<1>5. CASE PollEnds(l)
  BY <1>5, LoopKeeps DEF PollEnds
<1> QED
  BY <1>1, <1>2, <1>3, <1>4, <1>5 DEF LoopStep

LEMMA ManagerNext == ManagerInv /\ [Next]_vars => ManagerInv'
<1> SUFFICES ASSUME ManagerInv, [Next]_vars PROVE ManagerInv'
  OBVIOUS
<1>1. CASE StartRequest
  <2>1. CASE UNCHANGED <<managerVars, attached>>
    BY <2>1, ElsewhereKeepsManager
  <2>2. CASE \E sim \in BOOLEAN : (Start(sim) /\ Attach(created')) \/ StartFails(sim)
    BY <2>2, StartKeeps
  <2> QED
    BY <1>1, <2>1, <2>2 DEF StartRequest, StartRefused, streamVars, bridgeVars
<1>2. ASSUME NEW s \in Stops, StopRequest(s) PROVE ManagerInv'
  BY <1>2, StopRefusedKeeps, StopBeginsKeeps DEF StopRequest
<1>3. ASSUME NEW s \in Stops, StopGoesOn(s) PROVE ManagerInv'
  BY <1>3, StopStepKeeps DEF StopGoesOn
<1>4. ASSUME NEW l \in Loops, LoopGoesOn(l) PROVE ManagerInv'
  BY <1>4, LoopStepKeeps DEF LoopGoesOn, streamVars, bridgeVars
<1>5. ASSUME NEW l \in Loops, PollGoesOn(l) PROVE ManagerInv'
  <2>1. UNCHANGED attached
    BY <1>5 DEF PollGoesOn, Handle, streamVars, bridgeVars
  <2> QED
    BY <1>5, <2>1, LoopStepKeeps DEF PollGoesOn
<1>6. CASE ShutDown
  <2>1. CASE running
    BY <1>6, <2>1, ConsoleAssumption, StopBeginsKeeps DEF ShutDown
  <2>2. CASE ~running
    <3>1. UNCHANGED managerVars
      BY <1>6, <2>2 DEF ShutDown
    <3> QED
      BY <2>2, <3>1
         DEF managerVars, ManagerInv, ManagerType, CancelledAreJoined, Joining,
             RunningIsTrue, Mode, StopsUnderWay, LeaksAreExplained, FailedStartIsCounted,
             ClosingIsCounted
  <2> QED
    BY <2>1, <2>2
<1>7. CASE UNCHANGED <<managerVars, attached>>
  BY <1>7, ElsewhereKeepsManager
<1>8. CASE BarRequest
  BY <1>8, ElsewhereKeepsManager
     DEF BarRequest, BarInjected, Handle, bridgeVars
<1>9. ASSUME NEW c \in Clients, ClientStep(c) PROVE UNCHANGED <<managerVars, attached>>
  BY <1>9 DEF ClientStep, SendHistory, SendEvent, Heartbeat, Disconnect, Connect, SetFilter,
              bridgeVars
<1>10. ASSUME NEW j \in Jobs, JobGoesOn(j) PROVE UNCHANGED <<managerVars, attached>>
  BY <1>10 DEF JobGoesOn, streamVars, bridgeVars
<1>11. ASSUME NEW j \in Jobs, NEW kind \in Kinds, JobRequest(j, kind)
       PROVE  UNCHANGED <<managerVars, attached>>
  BY <1>11 DEF JobRequest, streamVars, bridgeVars
<1>12. CASE UNCHANGED vars
  BY <1>7, <1>12 DEF vars, bridgeVars
<1> QED
  BY <1>1, <1>2, <1>3, <1>4, <1>5, <1>6, <1>7, <1>8, <1>9, <1>10, <1>11, <1>12
     DEF Next, Down

-----------------------------------------------------------------------------
(* The stream.                                                             *)

\* What is passed on from the front of one sequence to the end of another
\* leaves the two together as they were.
LEMMA PassedOn ==
  ASSUME NEW r \in Seq(Nat), NEW h \in Seq(Nat), h # << >>
  PROVE  /\ Append(r, Head(h)) \in Seq(Nat) /\ Tail(h) \in Seq(Nat)
         /\ Append(r, Head(h)) \o Tail(h) = r \o h
<1> DEFINE a == Append(r, Head(h)) \o Tail(h)
           b == r \o h
<1>1. /\ Len(h) \in Nat /\ Len(h) >= 1 /\ Head(h) = h[1] /\ h[1] \in Nat
      /\ Tail(h) \in Seq(Nat) /\ Len(Tail(h)) = Len(h) - 1
      /\ \A i \in 1 .. Len(h) - 1 : Tail(h)[i] = h[i + 1]
  OBVIOUS
<1>2. /\ Append(r, Head(h)) \in Seq(Nat) /\ Len(Append(r, Head(h))) = Len(r) + 1
      /\ \A i \in 1 .. Len(r) : Append(r, Head(h))[i] = r[i]
      /\ Append(r, Head(h))[Len(r) + 1] = h[1]
  BY <1>1
<1>3. a \in Seq(Nat) /\ b \in Seq(Nat) /\ Len(a) = Len(b) /\ Len(b) = Len(r) + Len(h)
  BY <1>1, <1>2
<1>4. ASSUME NEW i \in 1 .. Len(b) PROVE a[i] = b[i]
  <2>1. CASE i <= Len(r)
    BY <1>1, <1>2, <1>3, <2>1
  <2>2. CASE i = Len(r) + 1
    BY <1>1, <1>2, <1>3, <2>2
  <2>3. CASE i > Len(r) + 1
    <3>1. a[i] = Tail(h)[i - (Len(r) + 1)]
      BY <1>1, <1>2, <1>3, <2>3
    <3>2. b[i] = h[i - Len(r)]
      BY <1>1, <1>3, <2>3
    <3> QED
      BY <1>1, <1>3, <2>3, <3>1, <3>2
  <2> QED
    BY <2>1, <2>2, <2>3
<1>5. a = b
  <2> HIDE DEF a, b
  <2> QED
    BY <1>3, <1>4, SeqEqual
<1> QED
  BY <1>1, <1>2, <1>5

LEMMA AppendedBehind ==
  ASSUME NEW p \in Seq(Nat), NEW q \in Seq(Nat), NEW n \in Nat
  PROVE  p \o Append(q, n) = Append(p \o q, n)
<1> DEFINE a == p \o Append(q, n)
           b == Append(p \o q, n)
<1>1. /\ Len(p) \in Nat /\ Len(q) \in Nat /\ Append(q, n) \in Seq(Nat)
      /\ Len(Append(q, n)) = Len(q) + 1 /\ p \o q \in Seq(Nat)
      /\ Len(p \o q) = Len(p) + Len(q)
  OBVIOUS
<1>2. /\ a \in Seq(Nat) /\ b \in Seq(Nat)
      /\ Len(a) = Len(p) + Len(q) + 1 /\ Len(b) = Len(p) + Len(q) + 1
  BY <1>1
<1>3. ASSUME NEW i \in 1 .. Len(a) PROVE a[i] = b[i]
  <2>1. CASE i <= Len(p)
    <3>1. a[i] = p[i] /\ b[i] = (p \o q)[i] /\ (p \o q)[i] = p[i]
      BY <1>1, <1>2, <2>1
    <3> QED
      BY <3>1
  <2>2. CASE i > Len(p) /\ i <= Len(p) + Len(q)
    <3>1. a[i] = Append(q, n)[i - Len(p)] /\ Append(q, n)[i - Len(p)] = q[i - Len(p)]
      BY <1>1, <1>2, <2>2
    <3>2. b[i] = (p \o q)[i] /\ (p \o q)[i] = q[i - Len(p)]
      BY <1>1, <1>2, <2>2
    <3> QED
      BY <3>1, <3>2
  <2>3. CASE i = Len(p) + Len(q) + 1
    <3>1. a[i] = Append(q, n)[i - Len(p)] /\ i - Len(p) = Len(q) + 1
      BY <1>1, <1>2, <2>3
    <3>2. b[i] = n /\ Append(q, n)[Len(q) + 1] = n
      BY <1>1, <1>2, <2>3
    <3> QED
      BY <3>1, <3>2
  <2> QED
    BY <1>1, <1>2, <2>1, <2>2, <2>3
<1>4. Len(a) = Len(b)
  BY <1>1, <1>2
<1> HIDE DEF a, b
<1>5. a = b
  BY <1>2, <1>3, <1>4, SeqEqual
<1> QED
  BY <1>5 DEF a, b

\* An event taken out of a sequence is still among what was seen.
LEMMA HeldBack ==
  ASSUME NEW r \in Seq(Nat), NEW q \in Seq(Nat), q # << >>, NEW sk \in SUBSET Nat,
         NEW S, GapFree(r \o q, sk, S), NEW x, x = Head(q), NEW t, t = Tail(q)
  PROVE  GapFree(r \o t, sk \cup {x}, S)
<1> DEFINE a == r \o Tail(q)
           b == r \o q
           k == Len(r) + 1
<1>1. /\ Len(r) \in Nat /\ Len(q) \in Nat /\ Len(q) >= 1 /\ Head(q) = q[1] /\ q[1] \in Nat
      /\ Tail(q) \in Seq(Nat) /\ Len(Tail(q)) = Len(q) - 1
      /\ \A i \in 1 .. Len(q) - 1 : Tail(q)[i] = q[i + 1]
  OBVIOUS
<1>2. /\ a \in Seq(Nat) /\ b \in Seq(Nat)
      /\ Len(a) = Len(b) - 1 /\ Len(b) = Len(r) + Len(q) /\ b[k] = q[1]
  BY <1>1
<1>3. \A i \in 1 .. Len(a) : a[i] = IF i < k THEN b[i] ELSE b[i + 1]
  <2> TAKE i \in 1 .. Len(a)
  <2>1. CASE i < k
    BY <1>1, <1>2, <2>1
  <2>2. CASE ~(i < k)
    <3>1. a[i] = Tail(q)[i - Len(r)] /\ b[i + 1] = q[(i + 1) - Len(r)]
      BY <1>1, <1>2, <2>2
    <3> QED
      BY <1>1, <1>2, <2>2, <3>1
  <2> QED
    BY <2>1, <2>2
<1>4. \A i \in 1 .. Len(b) - 1 : b[i] < b[i + 1]
  BY DEF GapFree
<1>5. k \in 1 .. Len(b) /\ Len(a) = Len(b) - 1 /\ k \in Nat
      /\ DOMAIN a = 1 .. Len(a) /\ DOMAIN b = 1 .. Len(b)
      /\ Len(a) \in Nat /\ Len(b) \in Nat
  BY <1>1, <1>2
<1>6. ToSet(a) \cup {b[k]} = ToSet(b)
  <2>1. ToSet(a) = {a[i] : i \in 1 .. Len(a)} /\ ToSet(b) = {b[i] : i \in 1 .. Len(b)}
    BY <1>5 DEF ToSet
  <2> HIDE DEF a, b, k
  <2>2. \A y \in ToSet(a) : y \in ToSet(b)
    BY <1>2, <1>3, <1>5, <2>1
  <2>3. ASSUME NEW j \in 1 .. Len(b), j # k PROVE b[j] \in ToSet(a)
    <3>1. CASE j < k
      <4>1. j \in 1 .. Len(a) /\ a[j] = b[j]
        BY <1>3, <1>5, <3>1
      <4> QED
        BY <2>1, <4>1
    <3>2. CASE j > k
      <4> DEFINE i == j - 1
      <4>1. i \in 1 .. Len(a) /\ i \in Nat /\ ~(i < k) /\ i + 1 = j
        BY <1>5, <3>2
      <4> HIDE DEF i
      <4>2. a[i] = b[j]
        BY <1>3, <4>1
      <4> QED
        BY <2>1, <4>1, <4>2
    <3> QED
      BY <1>5, <2>3, <3>1, <3>2
  <2> QED
    BY <1>5, <2>1, <2>2, <2>3
<1>7. \A i \in 1 .. Len(a) - 1 : a[i] < a[i + 1]
  <2> HIDE DEF a, b, k
  <2> SUFFICES ASSUME NEW i \in 1 .. Len(a) - 1 PROVE a[i] < a[i + 1]
    OBVIOUS
  <2>1. i \in 1 .. Len(a) /\ i + 1 \in 1 .. Len(a)
    BY <1>5
  <2>2. /\ a[i] = IF i < k THEN b[i] ELSE b[i + 1]
        /\ a[i + 1] = IF i + 1 < k THEN b[i + 1] ELSE b[(i + 1) + 1]
    BY <1>3, <2>1
  <2>3. b[i] < b[i + 1] /\ b[i + 1] < b[(i + 1) + 1]
    <3>1. i \in 1 .. Len(b) - 1 /\ i + 1 \in 1 .. Len(b) - 1
      BY <1>5, <2>1
    <3> QED
      BY <1>4, <3>1
  <2>4. b[i] \in Nat /\ b[i + 1] \in Nat /\ b[(i + 1) + 1] \in Nat
    <3>1. i \in 1 .. Len(b) /\ i + 1 \in 1 .. Len(b) /\ (i + 1) + 1 \in 1 .. Len(b)
      BY <1>5, <2>1
    <3>2. \A j \in 1 .. Len(b) : b[j] \in Nat
      BY <1>2, ElementOfSeq
    <3> QED
      BY <3>1, <3>2
  <2> QED
    BY <1>5, <2>1, <2>2, <2>3, <2>4
<1>8. a = r \o t /\ x = b[k]
  BY <1>1, <1>2
<1>9. ToSet(a) \cup (sk \cup {x}) = ToSet(b) \cup sk
  BY <1>6, <1>8
<1>10. GapFree(b, sk, S)
  OBVIOUS
<1> HIDE DEF a, b, k
<1> QED
  BY <1>7, <1>8, <1>9, <1>10 DEF GapFree

\* The next event at the end of what was seen.
LEMMA Extended ==
  ASSUME NEW s \in Seq(Nat), NEW sk \in SUBSET Nat, NEW top \in Nat,
         NEW S, GapFree(s, sk, S), S \subseteq 1 .. top, S # {} => top \in S
  PROVE  GapFree(Append(s, top + 1), sk, S \cup {top + 1})
<1> DEFINE a == Append(s, top + 1)
<1>1. /\ a \in Seq(Nat) /\ Len(a) = Len(s) + 1 /\ Len(s) \in Nat
      /\ \A i \in 1 .. Len(s) : a[i] = s[i]
      /\ a[Len(s) + 1] = top + 1
      /\ DOMAIN a = 1 .. Len(a) /\ DOMAIN s = 1 .. Len(s)
  OBVIOUS
<1> HIDE DEF a
<1>2. ToSet(a) = ToSet(s) \cup {top + 1}
  <2>1. ToSet(a) = {a[i] : i \in 1 .. Len(s) + 1} /\ ToSet(s) = {s[i] : i \in 1 .. Len(s)}
    BY <1>1 DEF ToSet
  <2>2. \A i \in 1 .. Len(s) + 1 : i \in 1 .. Len(s) \/ i = Len(s) + 1
    BY <1>1
  <2>3. \A x \in ToSet(a) : x \in ToSet(s) \cup {top + 1}
    BY <1>1, <2>1, <2>2
  <2>4. \A x \in ToSet(s) : x \in ToSet(a)
    BY <1>1, <2>1
  <2>5. top + 1 \in ToSet(a)
    BY <1>1, <2>1
  <2> QED
    BY <2>3, <2>4, <2>5
<1>3. \A i \in 1 .. Len(s) : s[i] \in 1 .. top
  BY <1>1 DEF ToSet, GapFree
<1>4. \A i \in 1 .. (Len(a) - 1) : a[i] < a[i + 1]
  <2> SUFFICES ASSUME NEW i \in 1 .. (Len(a) - 1) PROVE a[i] < a[i + 1]
    OBVIOUS
  <2>0. i = Len(s) \/ i < Len(s)
    <3>1. Len(a) - 1 = Len(s) /\ Len(s) \in Nat
      BY <1>1
    <3>2. i \in 1 .. Len(s)
      BY <3>1
    <3> QED
      BY <3>1, <3>2
  <2>1. CASE i = Len(s)
    <3>1. s[i] \in 1 .. top /\ a[i] = s[i] /\ a[i + 1] = top + 1
      BY <1>1, <1>3, <2>1
    <3> QED
      BY <3>1
  <2>2. CASE i < Len(s)
    <3>1. i \in 1 .. (Len(s) - 1) /\ i \in 1 .. Len(s) /\ i + 1 \in 1 .. Len(s)
      BY <1>1, <2>2
    <3>2. s[i] < s[i + 1]
      BY <3>1 DEF GapFree
    <3> QED
      BY <1>1, <3>1, <3>2
  <2> QED
    BY <2>0, <2>1, <2>2
<1>5. \A m, n \in S \cup {top + 1} : (m .. n) \subseteq S \cup {top + 1}
  <2>1. S \subseteq 1 .. top /\ (S # {} => top \in S) /\ \A m, n \in S : (m .. n) \subseteq S
    BY DEF GapFree
  <2> SUFFICES ASSUME NEW m \in S \cup {top + 1}, NEW n \in S \cup {top + 1}, NEW x \in m .. n
               PROVE  x \in S \cup {top + 1}
    OBVIOUS
  <2>2. m \in Nat /\ n \in Nat /\ m <= x /\ x <= n /\ x \in Int /\ m <= top + 1 /\ n <= top + 1
    BY <2>1
  <2>3. CASE x = top + 1
    BY <2>3
  <2>4. CASE x # top + 1
    <3>1. x <= top /\ m # top + 1
      BY <2>2, <2>4
    <3>2. m \in S /\ top \in S /\ x \in m .. top
      BY <2>1, <2>2, <3>1
    <3> QED
      BY <2>1, <3>2
  <2> QED
    BY <2>3, <2>4
<1> QED
  <2>1. S \cup {top + 1} = ToSet(a) \cup sk
    BY <1>2 DEF GapFree
  <2> QED
    BY <1>4, <1>5, <2>1 DEF a, GapFree

\* The tail of a run of consecutive events is one.
LEMMA LastOfRun ==
  ASSUME NEW top \in Nat, NEW s, RunTo(s, top), NEW n \in Nat \ {0}
  PROVE  RunTo(LastOf(s, n), top) /\ (s # << >> => LastOf(s, n) # << >>)
<1>1. CASE ~(Len(s) > n)
  BY <1>1 DEF LastOf
<1>2. CASE Len(s) > n
  <2> DEFINE a == Len(s) - n + 1
             t == SubSeq(s, a, Len(s))
  <2>1. s \in Seq(Nat) /\ Len(s) \in Nat /\ a \in 1 .. Len(s) /\ Len(s) <= top
        /\ \A i \in 1 .. Len(s) : s[i] = top - Len(s) + i
    BY <1>2 DEF RunTo
  <2>2. /\ t \in Seq(Nat) /\ Len(t) = n /\ \A i \in 1 .. n : t[i] = s[a + i - 1]
    BY <2>1
  <2>3. \A i \in 1 .. n : t[i] = top - n + i
    BY <2>1, <2>2
  <2>4. LastOf(s, n) = t
    BY <1>2 DEF LastOf
  <2> HIDE DEF t
  <2>5. n <= top /\ t # << >>
    BY <1>2, <2>1, <2>2
  <2>6. RunTo(t, top)
    BY <2>2, <2>3, <2>5 DEF RunTo
  <2> QED
    BY <2>4, <2>5, <2>6
<1> QED
  BY <1>1, <1>2

LEMMA RunIsGapFree ==
  ASSUME NEW top \in Nat, NEW s, RunTo(s, top)
  PROVE  /\ GapFree(s, {}, ToSet(s)) /\ ToSet(s) \subseteq 1 .. top
         /\ ToSet(s) # {} => top \in ToSet(s)
<1>1. s \in Seq(Nat) /\ Len(s) \in Nat /\ DOMAIN s = 1 .. Len(s) /\ Len(s) <= top
      /\ \A i \in 1 .. Len(s) : s[i] = top - Len(s) + i
  BY DEF RunTo
<1>2. ToSet(s) = (top - Len(s) + 1) .. top
  <2>1. ToSet(s) = {s[i] : i \in 1 .. Len(s)}
    BY <1>1 DEF ToSet
  <2>2. \A x \in (top - Len(s) + 1) .. top :
          /\ x - (top - Len(s)) \in 1 .. Len(s)
          /\ s[x - (top - Len(s))] = x
    BY <1>1
  <2>3. \A x \in (top - Len(s) + 1) .. top : x \in ToSet(s)
    BY <2>1, <2>2
  <2>4. \A i \in 1 .. Len(s) : s[i] \in (top - Len(s) + 1) .. top
    BY <1>1
  <2>5. \A x \in ToSet(s) : x \in (top - Len(s) + 1) .. top
    BY <2>1, <2>4
  <2> QED
    BY <2>3, <2>5
<1> QED
  BY <1>1, <1>2 DEF GapFree

LEMMA StreamInit == Init => StreamInv
<1> SUFFICES ASSUME Init PROVE StreamInv
  OBVIOUS
<1>1. /\ handled = 0 /\ ring = << >> /\ registered = {}
      /\ \A c \in Clients : /\ at[c] = "away" /\ received[c] = << >> /\ history[c] = << >>
                            /\ queue[c] = << >> /\ skipped[c] = {}
  BY DEF Init, InitStream
<1>2. StreamType
  BY DEF Init, InitStream, StreamType
<1>3. << >> \o << >> \o << >> = << >> /\ ToSet(<< >>) = {}
  BY DEF ToSet
<1>4. RunTo(<< >>, 0)
  BY DEF RunTo
<1>5. \A c \in Clients : Pending(c) = << >>
  BY <1>1, <1>3 DEF Pending
<1> QED
  BY <1>1, <1>2, <1>3, <1>4, <1>5 DEF StreamInv, SoundClient, Seen, GapFree

\* What a client holds consists of sequences of events.
LEMMA PendingTyped ==
  ASSUME StreamType, NEW c \in Clients
  PROVE  /\ received[c] \in Seq(Nat) /\ history[c] \in Seq(Nat) /\ queue[c] \in Seq(Nat)
         /\ Pending(c) \in Seq(Nat) /\ skipped[c] \in SUBSET Nat
<1>1. /\ received[c] \in Seq(Nat) /\ history[c] \in Seq(Nat) /\ queue[c] \in Seq(Nat)
      /\ skipped[c] \in SUBSET Nat
  BY DEF StreamType
<1>2. received[c] \o history[c] \in Seq(Nat)
  BY <1>1
<1> QED
  BY <1>1, <1>2 DEF Pending

\* A step of one client's endpoint leaves the others alone.
LEMMA OneClient ==
  ASSUME StreamInv, NEW c \in Clients, StreamType', SoundClient(c)',
         UNCHANGED <<handled, ring>>,
         \A d \in Clients \ {c} :
           /\ d \in registered' => d \in registered
           /\ at'[d] = at[d] /\ received'[d] = received[d] /\ history'[d] = history[d]
           /\ queue'[d] = queue[d] /\ skipped'[d] = skipped[d]
  PROVE  StreamInv'
  BY DEF StreamInv, SoundClient, Seen, Pending

LEMMA ConnectKeeps ==
  ASSUME StreamInv, NEW c \in Clients, Connect(c)
  PROVE  StreamInv'
<1> DEFINE h == LastOf(ring, HistorySize)
<1>1. StreamType /\ RunTo(ring, handled) /\ SoundClient(c) /\ handled \in Nat
  BY DEF StreamInv, StreamType
<1>2. RunTo(h, handled)
  <2>1. HistorySize \in Nat \ {0}
    BY StreamAssumption
  <2> QED
    BY <1>1, <2>1, LastOfRun
<1>3. h \in Seq(Nat)
  BY <1>2 DEF RunTo
<1> HIDE DEF h
<1>4. /\ history' = [history EXCEPT ![c] = h] /\ at' = [at EXCEPT ![c] = "history"]
      /\ registered' = registered \cup {c}
      /\ UNCHANGED <<handled, ring, queue, received, skipped>>
      /\ received[c] = << >> /\ queue[c] = << >> /\ skipped[c] = {}
  BY <1>1 DEF Connect, h, bridgeVars, SoundClient
<1>5. StreamType'
  BY <1>1, <1>3, <1>4 DEF StreamType
<1>6. Pending(c)' = h /\ skipped'[c] = {}
  <2>1. history'[c] = h
    BY <1>1, <1>4 DEF StreamType
  <2>2. << >> \o h \o << >> = h
    BY <1>3
  <2> QED
    BY <1>4, <2>1, <2>2 DEF Pending
<1>7. Seen(c)' = ToSet(h)
  BY <1>6 DEF Seen
<1>8. SoundClient(c)'
  <2>1. at'[c] = "history"
    BY <1>1, <1>4 DEF StreamType
  <2>2. /\ GapFree(h, {}, ToSet(h)) /\ ToSet(h) \subseteq 1 .. handled
        /\ ToSet(h) # {} => handled \in ToSet(h)
    BY <1>1, <1>2, RunIsGapFree
  <2> QED
    BY <1>4, <1>6, <1>7, <2>1, <2>2 DEF SoundClient
<1> QED
  BY <1>1, <1>4, <1>5, <1>8, OneClient DEF StreamType

LEMMA SendHistoryKeeps ==
  ASSUME StreamInv, NEW c \in Clients, SendHistory(c)
  PROVE  StreamInv'
<1>1. StreamType /\ SoundClient(c) /\ at[c] = "history" /\ history[c] \in Seq(Nat)
      /\ received[c] \in Seq(Nat)
  BY PendingTyped DEF StreamInv, SendHistory
<1>2. CASE history[c] = << >>
  <2>1. /\ at' = [at EXCEPT ![c] = "live"]
        /\ UNCHANGED <<handled, ring, registered, history, received, queue, skipped>>
    BY <1>2 DEF SendHistory, bridgeVars
  <2>2. StreamType' /\ at'[c] = "live" /\ \A d \in Clients \ {c} : at'[d] = at[d]
    BY <1>1, <2>1 DEF StreamType
  <2>3. SoundClient(c)'
    BY <1>1, <1>2, <2>1, <2>2 DEF SoundClient, Seen, Pending
  <2> QED
    BY <2>1, <2>2, <2>3, OneClient
<1>3. CASE history[c] # << >>
  <2> DEFINE r == Append(received[c], Head(history[c]))
             h == Tail(history[c])
  <2>1. /\ received' = [received EXCEPT ![c] = r] /\ history' = [history EXCEPT ![c] = h]
        /\ UNCHANGED <<handled, ring, registered, at, queue, skipped>>
    BY <1>3 DEF SendHistory, bridgeVars
  <2>2. r \in Seq(Nat) /\ h \in Seq(Nat) /\ r \o h = received[c] \o history[c]
    BY <1>1, <1>3, PassedOn
  <2> HIDE DEF r, h
  <2>3. /\ StreamType' /\ received'[c] = r /\ history'[c] = h
        /\ \A d \in Clients \ {c} : received'[d] = received[d] /\ history'[d] = history[d]
    BY <1>1, <2>1, <2>2 DEF StreamType
  <2>4. Pending(c)' = Pending(c) /\ skipped'[c] = skipped[c]
    BY <2>1, <2>2, <2>3 DEF Pending
  <2>5. SoundClient(c)'
    BY <1>1, <2>1, <2>4 DEF SoundClient, Seen
  <2> QED
    BY <2>1, <2>3, <2>5, OneClient
<1> QED
  BY <1>2, <1>3

LEMMA SendEventKeeps ==
  ASSUME StreamInv, NEW c \in Clients, SendEvent(c)
  PROVE  StreamInv'
<1> DEFINE r == Append(received[c], Head(queue[c]))
           q == Tail(queue[c])
           sk == skipped[c] \cup {Head(queue[c])}
<1>1. /\ StreamType /\ SoundClient(c) /\ at[c] = "live" /\ queue[c] # << >>
      /\ history[c] = << >> /\ received[c] \in Seq(Nat) /\ queue[c] \in Seq(Nat)
      /\ skipped[c] \in SUBSET Nat
  BY PendingTyped DEF StreamInv, SendEvent, SoundClient
<1>2. /\ queue' = [queue EXCEPT ![c] = q]
      /\ \/ received' = [received EXCEPT ![c] = r] /\ UNCHANGED skipped
         \/ skipped' = [skipped EXCEPT ![c] = sk] /\ UNCHANGED received
      /\ UNCHANGED <<handled, ring, registered, at, history>>
  BY DEF SendEvent, bridgeVars
<1>3. /\ r \in Seq(Nat) /\ q \in Seq(Nat) /\ r \o q = received[c] \o queue[c]
      /\ Head(queue[c]) \in Nat
  <2>1. \A u \in Seq(Nat) : u # << >> => Head(u) \in Nat
    OBVIOUS
  <2>2. Head(queue[c]) \in Nat
    BY <1>1, <2>1
  <2>3. r \in Seq(Nat) /\ q \in Seq(Nat) /\ r \o q = received[c] \o queue[c]
    BY <1>1, PassedOn
  <2> QED
    BY <2>2, <2>3
<1>4. Pending(c) = received[c] \o queue[c]
  <2>1. received[c] \o << >> = received[c]
    BY <1>1
  <2> QED
    BY <1>1, <2>1 DEF Pending
<1>5. GapFree(received[c] \o queue[c], skipped[c], Seen(c))
  BY <1>1, <1>4 DEF SoundClient
<1>6. GapFree(received[c] \o q, sk, Seen(c))
  <2> DEFINE u == received[c]
             w == queue[c]
             k == skipped[c]
             n == Head(queue[c])
  <2>1. /\ u \in Seq(Nat) /\ w \in Seq(Nat) /\ w # << >> /\ k \in SUBSET Nat
        /\ GapFree(u \o w, k, Seen(c)) /\ n = Head(w) /\ q = Tail(w)
    BY <1>1, <1>5
  <2> HIDE DEF u, w, k, n, q
  <2>2. GapFree(u \o q, k \cup {n}, Seen(c))
    BY <2>1, HeldBack
  <2> QED
    BY <2>2 DEF u, w, k, n
<1>7. sk \in SUBSET Nat
  BY <1>1, <1>3
<1> HIDE DEF r, q, sk
<1>8. /\ StreamType' /\ queue'[c] = q
      /\ \A d \in Clients \ {c} : /\ received'[d] = received[d] /\ queue'[d] = queue[d]
                                 /\ skipped'[d] = skipped[d]
      /\ \/ received'[c] = r /\ skipped'[c] = skipped[c]
         \/ received'[c] = received[c] /\ skipped'[c] = sk
  <2>1. \A x \in Seq(Nat) : [queue EXCEPT ![c] = x] \in [Clients -> Seq(Nat)]
    BY <1>1 DEF StreamType
  <2>2. CASE received' = [received EXCEPT ![c] = r] /\ UNCHANGED skipped
    BY <1>1, <1>2, <1>3, <2>1, <2>2 DEF StreamType
  <2>3. CASE skipped' = [skipped EXCEPT ![c] = sk] /\ UNCHANGED received
    BY <1>1, <1>2, <1>3, <1>7, <2>1, <2>3 DEF StreamType
  <2> QED
    BY <1>2, <2>2, <2>3
<1>9. GapFree(Pending(c)', skipped'[c], Seen(c)) /\ Seen(c)' = Seen(c)
  <2>0. GapFree(Pending(c)', skipped'[c], Seen(c)) => Seen(c)' = Seen(c)
    BY DEF GapFree, Seen
  <2>1. history'[c] = << >> /\ r \o << >> = r /\ received[c] \o << >> = received[c]
    BY <1>1, <1>2, <1>3
  <2>2. CASE received'[c] = r /\ skipped'[c] = skipped[c]
    <3>1. Pending(c)' = r \o q
      BY <1>8, <2>1, <2>2 DEF Pending
    <3> QED
      BY <1>3, <1>5, <2>0, <2>2, <3>1
  <2>3. CASE received'[c] = received[c] /\ skipped'[c] = sk
    <3>1. Pending(c)' = received[c] \o q
      BY <1>8, <2>1, <2>3 DEF Pending
    <3> QED
      BY <1>6, <2>0, <2>3, <3>1
  <2> QED
    BY <1>8, <2>2, <2>3
<1>10. SoundClient(c)'
  BY <1>1, <1>2, <1>9 DEF SoundClient
<1> QED
  BY <1>2, <1>8, <1>10, OneClient

LEMMA HandleKeeps ==
  ASSUME StreamInv, NEW x, Handle(x)
  PROVE  StreamInv'
<1> DEFINE n == handled + 1
           room == {c \in registered : Len(queue[c]) < QueueSize}
<1>1. StreamType /\ RunTo(ring, handled) /\ \A c \in Clients : SoundClient(c)
  BY DEF StreamInv
<1>2. CASE attached # x
  BY <1>1, <1>2 DEF Handle, bridgeVars, clientVars, StreamInv, StreamType, SoundClient,
                    Seen, Pending
<1>3. CASE attached = x
  <2>1. /\ handled' = n /\ ring' = LastOf(Append(ring, n), RingSize)
        /\ queue' = [c \in Clients |-> IF c \in room THEN Append(queue[c], n) ELSE queue[c]]
        /\ registered' = room
        /\ UNCHANGED <<at, history, received, skipped>>
    BY <1>3 DEF Handle, Broadcast
  <2>2. handled \in Nat /\ n \in Nat /\ room \subseteq registered /\ registered \subseteq Clients
    BY <1>1 DEF StreamType
  <2>3. RunTo(Append(ring, n), n)
    <3>1. /\ ring \in Seq(Nat) /\ Len(ring) <= handled
          /\ \A i \in 1 .. Len(ring) : ring[i] = handled - Len(ring) + i
      BY <1>1 DEF RunTo
    <3>2. /\ Append(ring, n) \in Seq(Nat) /\ Len(Append(ring, n)) = Len(ring) + 1
          /\ Append(ring, n)[Len(ring) + 1] = n
          /\ \A i \in 1 .. Len(ring) : Append(ring, n)[i] = ring[i]
      BY <2>2, <3>1
    <3>3. ASSUME NEW i \in 1 .. Len(ring) + 1
          PROVE  Append(ring, n)[i] = n - (Len(ring) + 1) + i
      <4>1. Len(ring) \in Nat /\ (i \in 1 .. Len(ring) \/ i = Len(ring) + 1)
        BY <3>1
      <4>2. CASE i \in 1 .. Len(ring)
        <5>1. Append(ring, n)[i] = handled - Len(ring) + i
          BY <3>1, <3>2, <4>2
        <5> QED
          BY <2>2, <4>1, <5>1
      <4>3. CASE i = Len(ring) + 1
        BY <2>2, <3>2, <4>1, <4>3
      <4> QED
        BY <4>1, <4>2, <4>3
    <3>4. Len(ring) + 1 <= n /\ Len(ring) \in Nat
      BY <2>2, <3>1
    <3> QED
      BY <3>2, <3>3, <3>4 DEF RunTo
  <2>4. RunTo(ring', handled')
    <3>1. RingSize \in Nat \ {0}
      BY StreamAssumption
    <3> QED
      BY <2>1, <2>2, <2>3, <3>1, LastOfRun
  <2>5. StreamType'
    <3>1. \A c \in Clients : queue[c] \in Seq(Nat) /\ Append(queue[c], n) \in Seq(Nat)
      BY <1>1, <2>2 DEF StreamType
    <3>2. queue' \in [Clients -> Seq(Nat)]
      BY <2>1, <3>1
    <3>3. ring' \in Seq(Nat)
      BY <2>4 DEF RunTo
    <3> QED
      BY <1>1, <2>1, <2>2, <3>2, <3>3 DEF StreamType
  <2> HIDE DEF room
  <2>6. ASSUME NEW c \in Clients PROVE SoundClient(c)'
    <3>1. SoundClient(c) /\ Seen(c) \subseteq 1 .. handled /\ handled' = handled + 1
      BY <1>1, <2>1 DEF SoundClient
    <3>2. CASE c \notin room
      <4>1. queue'[c] = queue[c]
        BY <2>1, <3>2
      <4>2. Pending(c)' = Pending(c) /\ Seen(c)' = Seen(c) /\ c \notin registered'
        BY <2>1, <3>2, <4>1 DEF Pending, Seen
      <4>3. Seen(c) \subseteq 1 .. handled'
        BY <2>2, <3>1
      <4> QED
        BY <2>1, <3>1, <4>1, <4>2, <4>3 DEF SoundClient
    <3>3. CASE c \in room
      <4>1. queue'[c] = Append(queue[c], n) /\ c \in registered
        BY <2>1, <2>2, <3>3
      <4>2. /\ Pending(c) \in Seq(Nat) /\ skipped[c] \in SUBSET Nat /\ queue[c] \in Seq(Nat)
            /\ received[c] \in Seq(Nat) /\ history[c] \in Seq(Nat)
        BY <1>1, PendingTyped
      <4>3. Pending(c)' = Append(Pending(c), n)
        <5> DEFINE p == received[c] \o history[c]
        <5>1. p \in Seq(Nat)
          BY <4>2
        <5>2. p \o Append(queue[c], n) = Append(p \o queue[c], n)
          BY <2>2, <4>2, <5>1, AppendedBehind
        <5> QED
          BY <2>1, <4>1, <5>2 DEF Pending
      <4>4. GapFree(Pending(c), skipped[c], Seen(c)) /\ (Seen(c) # {} => handled \in Seen(c))
        BY <3>1, <4>1 DEF SoundClient
      <4>5. GapFree(Append(Pending(c), n), skipped[c], Seen(c) \cup {n})
        BY <2>2, <3>1, <4>2, <4>4, Extended
      <4>6. GapFree(Pending(c)', skipped'[c], Seen(c)') /\ Seen(c)' = Seen(c) \cup {n}
        <5>1. Seen(c)' = Seen(c) \cup {n}
          BY <2>1, <4>3, <4>5 DEF GapFree, Seen
        <5> QED
          BY <2>1, <4>3, <4>5, <5>1
      <4>7. Seen(c) \cup {n} \subseteq 1 .. handled' /\ handled' \in Seen(c) \cup {n}
        BY <2>1, <2>2, <3>1
      <4> QED
        BY <2>1, <3>1, <4>1, <4>6, <4>7 DEF SoundClient
    <3> QED
      BY <3>2, <3>3
  <2> QED
    BY <2>4, <2>5, <2>6 DEF StreamInv
<1> QED
  BY <1>2, <1>3

\* A step that touches neither the events nor what a client holds.
LEMMA ElsewhereKeepsStream ==
  ASSUME StreamInv, UNCHANGED <<handled, ring, registered, queue, history, received,
                                skipped, at>>
  PROVE  StreamInv'
  BY DEF StreamInv, StreamType, SoundClient, Seen, Pending

LEMMA ClientStepKeeps ==
  ASSUME StreamInv, NEW c \in Clients, ClientStep(c)
  PROVE  StreamInv'
<1>1. CASE Disconnect(c)
  <2>1. /\ at' = [at EXCEPT ![c] = "gone"] /\ registered' = registered \ {c}
        /\ UNCHANGED <<handled, ring, queue, history, received, skipped>>
    BY <1>1 DEF Disconnect, bridgeVars
  <2>2. StreamType' /\ at'[c] = "gone" /\ \A d \in Clients \ {c} : at'[d] = at[d]
    BY <2>1 DEF StreamInv, StreamType
  <2>3. SoundClient(c)'
    BY <2>1, <2>2 DEF StreamInv, SoundClient, Seen, Pending
  <2> QED
    BY <2>1, <2>2, <2>3, OneClient
<1>2. CASE Heartbeat(c) \/ SetFilter(c)
  BY <1>2, ElsewhereKeepsStream DEF Heartbeat, SetFilter, bridgeVars, clientVars
<1> QED
  BY <1>1, <1>2, ConnectKeeps, SendHistoryKeeps, SendEventKeeps DEF ClientStep

LEMMA StreamNext == StreamInv /\ [Next]_vars => StreamInv'
<1> SUFFICES ASSUME StreamInv, [Next]_vars PROVE StreamInv'
  OBVIOUS
<1>1. CASE UNCHANGED <<handled, ring, clientVars>>
  BY <1>1, ElsewhereKeepsStream DEF clientVars
<1>2. StartRequest => UNCHANGED <<handled, ring, clientVars>>
  BY DEF StartRequest, Attach, streamVars, bridgeVars
<1>3. (\E s \in Stops : StopRequest(s)) \/ ShutDown => UNCHANGED <<handled, ring, clientVars>>
  BY DEF StopRequest, ShutDown, Detach
<1>4. (\E s \in Stops : StopGoesOn(s)) \/ (\E l \in Loops : LoopGoesOn(l))
      \/ (\E j \in Jobs : JobGoesOn(j) \/ \E kind \in Kinds : JobRequest(j, kind))
      \/ UNCHANGED vars
        => UNCHANGED <<handled, ring, clientVars>>
  BY DEF StopGoesOn, LoopGoesOn, JobGoesOn, JobRequest, streamVars, bridgeVars, vars
<1>5. ASSUME NEW l \in Loops, PollGoesOn(l) PROVE StreamInv'
  <2>1. UNCHANGED streamVars \/ Handle(polled[l])
    BY <1>5 DEF PollGoesOn
  <2> QED
    BY <1>1, <2>1, HandleKeeps DEF streamVars, bridgeVars
<1>6. CASE BarRequest
  BY <1>6, HandleKeeps DEF BarRequest
<1>7. ASSUME NEW c \in Clients, ClientStep(c) PROVE StreamInv'
  BY <1>7, ClientStepKeeps
<1> QED
  BY <1>1, <1>2, <1>3, <1>4, <1>5, <1>6, <1>7 DEF Next, Down

-----------------------------------------------------------------------------
(* The theorems.                                                           *)

LEMMA Invariant == Spec => []IInv
<1>1. Init => IInv
  BY ManagerInit, StreamInit, JobsInit DEF IInv
<1>2. IInv /\ [Next]_vars => IInv'
  BY ManagerNext, StreamNext, JobsNext DEF IInv
<1> QED
  BY <1>1, <1>2, PTL DEF Spec

\* Between stops the manager tells the truth: what runner_manager.get_status
\* calls running is up, the event bridge listens to its bus and to no other,
\* and a live runner has its polling loop, whatever stops, starts and late
\* loops of earlier runners have overlapped before.
THEOREM ManagerTellsTheTruth == Spec => []RunningIsTrue
<1>1. IInv => RunningIsTrue
  BY DEF IInv, ManagerInv
<1> QED
  BY <1>1, Invariant, PTL

\* RunnerManager.stop and start never lose an open runner without a start that
\* came during a stop or failed: there are at most as many of those as of these.
THEOREM OnlyOverlapsLeak == Spec => []LeaksAreExplained
<1>1. IInv => LeaksAreExplained
  BY DEF IInv, ManagerInv
<1> QED
  BY <1>1, Invariant, PTL

\* What ws_events sends a client, history and queue together, is in order and
\* without repetition or gap up to the newest event of the bridge, until the
\* client's queue overflows.
THEOREM StreamIsGapFree == Spec => []StreamHasNoGap
<1>1. IInv => StreamHasNoGap
  BY DEF IInv, StreamInv, SoundClient, GapFree, Seen, StreamHasNoGap
<1> QED
  BY <1>1, Invariant, PTL

\* A replay or test run that failed is never shown as done by the finally of
\* its task, and one that is finished has its harness closed.
THEOREM FailedJobsShowIt == Spec => []ErrorsStayErrors
<1>1. IInv => ErrorsStayErrors
  BY DEF IInv, JobInv, SoundJob, ErrorsStayErrors
<1> QED
  BY <1>1, Invariant, PTL
=============================================================================
