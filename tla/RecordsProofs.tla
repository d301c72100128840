---------------------------- MODULE RecordsProofs ----------------------------
(***************************************************************************)
(* Proofs about Records for any panel, any votes, results and families,    *)
(* any number of proposals, bars, sessions, failed statements and crashes. *)
(*                                                                         *)
(* IInv is about the queue and the rows of the journal; it is inductive by *)
(* itself.  Reckoning, inductive with it, is about what the learning layer *)
(* makes of the trades.  Each is proved a job at a time.                   *)
(***************************************************************************)
EXTENDS Records, FiniteSetTheorems, TLAPS

(***************************************************************************)
(* The queue.  Jobs come in one order, that of the bar; only the rows and  *)
(* the updates written once per trader may repeat.                         *)
(***************************************************************************)
Rank == [log_transition |-> 1, insert_setup_packet |-> 2, insert_trader_review |-> 3,
         insert_panel_summary |-> 4, insert_final_decision |-> 5, risk_decision |-> 6,
         insert_trade_open |-> 7, insert_evaluator_verdicts |-> 8, candidate_trade |-> 9,
         exit |-> 10, update_reward |-> 11, panel_attribution |-> 12, backfill_trade_id |-> 13,
         update_trade_close |-> 14, query_reviews |-> 15, journal_attribution |-> 16,
         calibrate |-> 17, family |-> 18, update_evaluator_outcomes |-> 19, on_bar |-> 20]
Ops == DOMAIN Rank
Repeated == {"insert_trader_review", "calibrate"}

JobRec == {j \in [op : Ops, id : Nat, trader : Traders \cup {None}] :
              j.op \in Repeated <=> j.trader # None}

Before(j, k) == Rank[j.op] < Rank[k.op] \/ (j.op = k.op /\ j.op \in Repeated /\ j # k)

Sorted(q) == q \in Seq(JobRec) /\ \A i, k \in 1 .. Len(q) : i < k => Before(q[i], q[k])

\* The jobs of a close that only a session that learns has, and what it must have wired.
Learning == {"panel_attribution", "backfill_trade_id", "query_reviews", "journal_attribution",
             "calibrate", "family"}
Needs(op) == IF op \in {"panel_attribution", "backfill_trade_id"} THEN "panel" ELSE "journal"

\* Some job of the set does op for the proposal id.
In(jobs, op, id) == \E j \in jobs : j.op = op /\ j.id = id

Is(f, id, status) == id \in 1 .. Len(f) /\ f[id].status = status

\* q the queue, f what became of the proposals, s what the session has wired.
SoundQueue(q, f, s) ==
    /\ Sorted(q)
    /\ \A j \in ToSet(q) :
          /\ j.id <= Len(f)
          /\ Rank[j.op] < 10 => j.id # 0
          /\ Rank[j.op] \in 11 .. 19 => Is(f, j.id, "closed") /\ f[j.id].wired = s
          /\ j.op \in Learning => Needs(j.op) \in s
          /\ Rank[j.op] <= 7 => Is(f, j.id, "none")
          /\ j.op = "insert_trade_open" => f[j.id].verdict = "enter" /\ f[j.id].wired = s
          /\ j.op = "query_reviews" =>
                /\ In(ToSet(q), "journal_attribution", j.id)
                /\ \A k \in ToSet(q) : k.op # "calibrate"
          /\ j.op = "exit" => \A k \in ToSet(q) : Rank[k.op] <= 10 \/ k.op = "on_bar"

(***************************************************************************)
(* The rows.  l stands for the lost jobs, q for the set of those in the    *)
(* queue.                                                                  *)
(***************************************************************************)
TradeRec == [id : Nat, outcome : Outcomes \cup {"open"}, result : Results \cup {0}]

\* A row is open as long as its position is, and after that if its update waits or
\* was lost.
SoundTrades(t, f, l, q) ==
    /\ t \subseteq TradeRec
    /\ \A r, s \in t : r.id = s.id => r = s
    /\ \A r \in t :
          /\ r.id \in 1 .. Len(f) /\ f[r.id].status # "none"
          /\ r.outcome = IF \/ f[r.id].status = "open"
                            \/ In(l, "update_trade_close", r.id)
                            \/ In(q, "update_trade_close", r.id)
                         THEN "open" ELSE SignOutcome(f[r.id].result)
    /\ \A j \in l : j.op = "update_trade_close" =>
          Is(f, j.id, "closed") /\ ~In(q, "update_trade_close", j.id)

PositionRec == [id : Nat, bar : Nat, snap : Nat]

\* o the positions; b tells the back-test, s what the session has wired.
SoundPositions(o, f, l, b, s) ==
    /\ o \subseteq PositionRec
    /\ \A p, r \in o : p.id = r.id => p = r
    /\ \A p \in o :
          /\ Is(f, p.id, "open") /\ f[p.id].wired = s
          /\ b /\ "log" \in s /\ ~In(l, "log_transition", p.id) => p.snap = p.id

TransitionRec == [id : Nat, reward : {"null", "zero", "paid"}, trade : Nat]

\* The reward of a row before its close.
Unpaid(action) == IF action = "enter" THEN "null" ELSE "zero"

\* What it is once the close's update has been done.
RewardNow(f, l, q, id) ==
    IF f[id].status = "closed" /\ ~In(l, "update_reward", id) /\ ~In(q, "update_reward", id)
    THEN "paid" ELSE Unpaid(f[id].action)

SoundTransitions(t, f, l, q, b) ==
    /\ t \subseteq TransitionRec
    /\ \A r \in t :
          /\ r.id \in 1 .. Len(f) /\ b /\ "log" \in f[r.id].wired
          /\ ~In(l, "log_transition", r.id) /\ ~In(q, "log_transition", r.id)
          /\ r.reward = RewardNow(f, l, q, r.id)
    /\ \A j \in l : j.op = "update_reward" =>
          Is(f, j.id, "closed") /\ ~In(q, "update_reward", j.id)
    /\ \A j \in q : j.op = "log_transition" => b /\ j.id \in 1 .. Len(f)
          /\ "log" \in f[j.id].wired /\ ~In(l, "log_transition", j.id)

DiagnosisRec == [trade : Nat, bars : Nat]

Written(c, id) == \E i \in 1 .. Len(c) : c[i].trade = id
Waits(w, id) == \E p \in w : p.trade = id

\* c the file, w the records that wait.
SoundDiagnoses(c, w, f, l, q) ==
    /\ c \in Seq(DiagnosisRec) /\ w \subseteq DiagnosisRec
    /\ \A i, k \in 1 .. Len(c) : c[i].trade = c[k].trade => i = k
    /\ \A p, r \in w : p.trade = r.trade => p = r
    /\ \A p \in w : p.trade \in 1 .. Len(f) /\ ~Written(c, p.trade)
    /\ \A i \in 1 .. Len(c) : c[i].trade \in 1 .. Len(f)
    /\ \A id \in 1 .. Len(f) :
          Written(c, id) \/ Waits(w, id) <=>
              /\ f[id].status = "closed" /\ "diagnostics" \in f[id].wired
              /\ ~In(l, "diagnosis", id) /\ ~In(q, "update_trade_close", id)
    /\ \A j \in l : j.op = "diagnosis" =>
          Is(f, j.id, "closed") /\ ~In(q, "update_trade_close", j.id)

(***************************************************************************)
(* The trace, of which the queue's reviews are read.                       *)
(***************************************************************************)
Verdicts == {votes[t] : votes \in Panels, t \in Traders}
TraceRec == [table : TraceTables, packet : Nat, trade : Nat]
ReviewRec == [table : {"trader_reviews"}, packet : Nat, trade : Nat,
              trader : Traders, verdict : Verdicts]

FateRec == [action : Actions, verdict : {"hold", "reject", "enter"},
            status : {"none", "open", "closed"}, result : Results \cup {0},
            votes : Panels, family : Families, wired : Stages]

TableNames == {"trades", "events", "trace", "transitions", "attributions", "evaluators",
               "advice", "calibration", "families"}
MemoryNames == {"open", "hist", "pending", "held"}

\* r is a record with these fields.
Has(r, names) == r = [n \in names |-> r[n]]

RecordsType ==
    /\ backtest \in BOOLEAN
    /\ session \in [up : BOOLEAN, wired : Stages]
    /\ Has(tables, TableNames)
    /\ tables.trace \subseteq TraceRec \cup ReviewRec
    /\ Has(memory, MemoryNames)
    /\ fate \in Seq(FateRec)
    /\ bars \in Nat
    /\ \A j \in lost : j.id \in Nat /\ j.id <= Len(fate)

IInv ==
    /\ RecordsType
    /\ SoundQueue(work, fate, session.wired)
    /\ SoundTrades(tables.trades, fate, lost, ToSet(work))
    /\ SoundPositions(memory.open, fate, lost, backtest, session.wired)
    /\ SoundTransitions(tables.transitions, fate, lost, ToSet(work), backtest)
    /\ SoundDiagnoses(csv, memory.pending, fate, lost, ToSet(work))
    /\ ~session.up => work = <<>> /\ memory.open = {} /\ memory.pending = {}

-----------------------------------------------------------------------------
(* Queues.                                                                 *)

LEMMA RankIs ==
    /\ Ops = {"log_transition", "insert_setup_packet", "insert_trader_review",
              "insert_panel_summary", "insert_final_decision", "risk_decision",
              "insert_trade_open", "insert_evaluator_verdicts", "candidate_trade", "exit",
              "update_reward", "panel_attribution", "backfill_trade_id",
              "update_trade_close", "query_reviews", "journal_attribution", "calibrate",
              "family", "update_evaluator_outcomes", "on_bar"}
    /\ \A op \in Ops : Rank[op] \in 1 .. 20
    /\ Rank["log_transition"] = 1 /\ Rank["insert_setup_packet"] = 2
    /\ Rank["insert_trader_review"] = 3 /\ Rank["insert_panel_summary"] = 4
    /\ Rank["insert_final_decision"] = 5 /\ Rank["risk_decision"] = 6
    /\ Rank["insert_trade_open"] = 7 /\ Rank["insert_evaluator_verdicts"] = 8
    /\ Rank["candidate_trade"] = 9 /\ Rank["exit"] = 10
    /\ Rank["update_reward"] = 11 /\ Rank["panel_attribution"] = 12
    /\ Rank["backfill_trade_id"] = 13 /\ Rank["update_trade_close"] = 14
    /\ Rank["query_reviews"] = 15 /\ Rank["journal_attribution"] = 16
    /\ Rank["calibrate"] = 17 /\ Rank["family"] = 18
    /\ Rank["update_evaluator_outcomes"] = 19 /\ Rank["on_bar"] = 20
  BY DEF Rank, Ops

\* Where the jobs of a session that learns come.
LEMMA RankLearning ==
    /\ Learning \subseteq Ops
    /\ \A op \in Learning : Rank[op] \in 12 .. 18 /\ Rank[op] # 14
  BY RankIs DEF Learning

LEMMA RankType == \A op \in Ops : Rank[op] \in Nat
  BY DEF Rank, Ops

LEMMA RankSplit ==
    \A op \in Ops \ {"exit", "on_bar"} : Rank[op] < 10 \/ Rank[op] \in 11 .. 19
  BY DEF Rank, Ops

\* Two jobs of one rank do the same.
LEMMA RankTells ==
    ASSUME NEW a \in Ops, NEW b \in Ops, Rank[a] = Rank[b] PROVE a = b
  BY RankIs

LEMMA Joined ==
    ASSUME NEW a, NEW b, Sorted(a), Sorted(b),
           \A j \in ToSet(a), k \in ToSet(b) : Before(j, k)
    PROVE  Sorted(a \o b) /\ ToSet(a \o b) = ToSet(a) \cup ToSet(b)
<1>1. a \in Seq(JobRec) /\ b \in Seq(JobRec)
  BY DEF Sorted
<1> DEFINE c == a \o b
           m == Len(a)
           n == Len(b)
<1>2. /\ c \in Seq(JobRec) /\ Len(c) = m + n /\ m \in Nat /\ n \in Nat
      /\ \A i \in 1 .. m + n : c[i] = IF i <= m THEN a[i] ELSE b[i - m]
  BY <1>1
<1>3. /\ DOMAIN a = 1 .. m /\ DOMAIN b = 1 .. n /\ DOMAIN c = 1 .. m + n
  BY <1>1, <1>2
<1> HIDE DEF c, m, n
<1>4. ToSet(c) = ToSet(a) \cup ToSet(b)
  <2>1. ASSUME NEW x \in ToSet(c) PROVE x \in ToSet(a) \cup ToSet(b)
    <3>1. PICK i \in 1 .. m + n : x = c[i]
      BY <1>3, <2>1 DEF ToSet
    <3>2. CASE i <= m
      BY <1>2, <1>3, <3>1, <3>2 DEF ToSet
    <3>3. CASE ~(i <= m)
      <4>1. i - m \in 1 .. n /\ x = b[i - m]
        BY <1>2, <3>1, <3>3
      <4> QED
        BY <1>3, <4>1 DEF ToSet
    <3> QED
      BY <3>2, <3>3
  <2>2. ASSUME NEW x \in ToSet(a) PROVE x \in ToSet(c)
    <3>1. PICK i \in 1 .. m : x = a[i]
      BY <1>3, <2>2 DEF ToSet
    <3>2. i \in 1 .. m + n /\ x = c[i]
      BY <1>2, <3>1
    <3> QED
      BY <1>3, <3>2 DEF ToSet
  <2>3. ASSUME NEW x \in ToSet(b) PROVE x \in ToSet(c)
    <3>1. PICK i \in 1 .. n : x = b[i]
      BY <1>3, <2>3 DEF ToSet
    <3>2. m + i \in 1 .. m + n /\ x = c[m + i]
      BY <1>2, <3>1
    <3> QED
      BY <1>3, <3>2 DEF ToSet
  <2> QED
    BY <2>1, <2>2, <2>3
<1>5. ASSUME NEW i \in 1 .. m + n, NEW k \in 1 .. m + n, i < k PROVE Before(c[i], c[k])
  <2>1. CASE k <= m
    <3>1. i \in 1 .. m /\ k \in 1 .. m /\ c[i] = a[i] /\ c[k] = a[k]
      BY <1>2, <1>5, <2>1
    <3> QED
      BY <1>5, <3>1 DEF Sorted, m
  <2>2. CASE i <= m /\ ~(k <= m)
    <3>1. i \in 1 .. m /\ k - m \in 1 .. n /\ c[i] = a[i] /\ c[k] = b[k - m]
      BY <1>2, <1>5, <2>2
    <3>2. a[i] \in ToSet(a) /\ b[k - m] \in ToSet(b)
      BY <1>3, <3>1 DEF ToSet
    <3> QED
      BY <3>1, <3>2
  <2>3. CASE ~(i <= m)
    <3>1. /\ i - m \in 1 .. n /\ k - m \in 1 .. n /\ i - m < k - m
          /\ c[i] = b[i - m] /\ c[k] = b[k - m]
      BY <1>2, <1>5, <2>3
    <3> QED
      BY <3>1 DEF Sorted, n
  <2> QED
    BY <2>1, <2>2, <2>3
<1>6. Sorted(c)
  BY <1>2, <1>5 DEF Sorted
<1> QED
  BY <1>4, <1>6 DEF c

\* The queue once its head is taken.
LEMMA TailOf ==
    ASSUME NEW q, Sorted(q), q # <<>>
    PROVE  /\ Head(q) \in JobRec /\ Sorted(Tail(q))
           /\ ToSet(q) = {Head(q)} \cup ToSet(Tail(q))
           /\ \A j \in ToSet(Tail(q)) : Before(Head(q), j)
<1> DEFINE u == Tail(q)
           n == Len(q)
<1>1. q \in Seq(JobRec)
  BY DEF Sorted
<1>2. /\ n \in Nat /\ n >= 1 /\ DOMAIN q = 1 .. n /\ Head(q) = q[1] /\ q[1] \in JobRec
      /\ u \in Seq(JobRec) /\ Len(u) = n - 1 /\ DOMAIN u = 1 .. n - 1
      /\ \A i \in 1 .. n - 1 : u[i] = q[i + 1]
  BY <1>1
<1>3. \A i, k \in 1 .. n : i < k => Before(q[i], q[k])
  BY DEF Sorted
<1> HIDE DEF u, n
<1>4. ASSUME NEW j \in ToSet(u) PROVE j \in ToSet(q) /\ Before(q[1], j)
  <2>1. PICK i \in 1 .. n - 1 : j = u[i]
    BY <1>2, <1>4 DEF ToSet
  <2>2. 1 \in 1 .. n /\ i + 1 \in 1 .. n /\ 1 < i + 1 /\ j = q[i + 1]
    BY <1>2, <2>1
  <2> QED
    BY <1>2, <1>3, <2>2 DEF ToSet
<1>5. ASSUME NEW j \in ToSet(q) PROVE j = q[1] \/ j \in ToSet(u)
  <2>1. PICK i \in 1 .. n : j = q[i]
    BY <1>2, <1>5 DEF ToSet
  <2>2. CASE i # 1
    <3>1. i - 1 \in 1 .. n - 1 /\ j = u[i - 1]
      BY <1>2, <2>1, <2>2
    <3> QED
      BY <1>2, <3>1 DEF ToSet
  <2> QED
    BY <2>1, <2>2
<1>6. q[1] \in ToSet(q)
  BY <1>2 DEF ToSet
<1>7. Sorted(u)
  <2>1. ASSUME NEW i \in 1 .. n - 1, NEW k \in 1 .. n - 1, i < k PROVE Before(u[i], u[k])
    <3>1. i + 1 \in 1 .. n /\ k + 1 \in 1 .. n /\ i + 1 < k + 1 /\ u[i] = q[i + 1] /\ u[k] = q[k + 1]
      BY <1>2, <2>1
    <3> QED
      BY <1>3, <3>1
  <2> QED
    BY <1>2, <2>1 DEF Sorted
<1>8. ToSet(q) = {q[1]} \cup ToSet(u)
  BY <1>4, <1>5, <1>6
<1> QED
  BY <1>2, <1>4, <1>7, <1>8 DEF u

\* What SetToSeq lists.
LEMMA SetToSeqIs ==
    ASSUME NEW S, IsFiniteSet(S)
    PROVE  /\ SetToSeq(S) \in [1 .. Cardinality(S) -> S]
           /\ \A i, k \in 1 .. Cardinality(S) : SetToSeq(S)[i] = SetToSeq(S)[k] => i = k
           /\ \A x \in S : \E i \in 1 .. Cardinality(S) : SetToSeq(S)[i] = x
<1> DEFINE n == Cardinality(S)
           q == SetToSeq(S)
<1>1. n \in Nat /\ ExistsBijection(1 .. n, S)
  BY FS_CardinalityType
<1>2. \E g \in [1 .. n -> S] : IsInjective(g)
  BY <1>1 DEF ExistsBijection, Bijection, Injection
<1>3. q \in [1 .. n -> S] /\ IsInjective(q)
  BY <1>2 DEF SetToSeq
<1> HIDE DEF q
<1>4. q \in Injection(1 .. n, S)
  BY <1>3 DEF Injection
<1>5. IsFiniteSet(1 .. n) /\ Cardinality(1 .. n) = n
  BY <1>1, FS_Interval
<1>6. q \in Surjection(1 .. n, S)
  BY <1>4, <1>5, FS_Injection
<1>7. \A x \in S : \E i \in 1 .. n : q[i] = x
  BY <1>6 DEF Surjection
<1>8. \A i, k \in 1 .. n : q[i] = q[k] => i = k
  BY <1>3 DEF IsInjective
<1> QED
  BY <1>3, <1>7, <1>8 DEF q

LEMMA JobsAre ==
    ASSUME NEW ops \in Seq(Ops), NEW id \in Nat,
           \A i \in 1 .. Len(ops) : ops[i] \notin Repeated,
           \A i, k \in 1 .. Len(ops) : i < k => Rank[ops[i]] < Rank[ops[k]]
    PROVE  /\ Sorted(Jobs(ops, id))
           /\ ToSet(Jobs(ops, id)) = {Job(ops[i], id) : i \in 1 .. Len(ops)}
<1> DEFINE n == Len(ops)
           q == Jobs(ops, id)
<1>1. /\ n \in Nat /\ q = [i \in 1 .. n |-> Job(ops[i], id)]
      /\ \A i \in 1 .. n : ops[i] \in Ops
  BY DEF Jobs
<1> HIDE DEF q, n
<1>2. \A i \in 1 .. n : Job(ops[i], id) \in JobRec /\ q[i] = Job(ops[i], id)
  BY <1>1, RecordsAssumption DEF Job, JobRec, n
<1>3. q \in Seq(JobRec) /\ Len(q) = n /\ DOMAIN q = 1 .. n
  BY <1>1, <1>2
<1>4. \A i, k \in 1 .. n : i < k => Before(q[i], q[k])
  <2>1. \A i \in 1 .. n : q[i].op = ops[i]
    <3>1. \A op : Job(op, id).op = op
      BY DEF Job
    <3> QED
      BY <1>2, <3>1
  <2>2. \A i, k \in 1 .. n : i < k => Rank[ops[i]] < Rank[ops[k]]
    BY DEF n
  <2> QED
    BY <2>1, <2>2 DEF Before
<1>5. Sorted(q)
  BY <1>3, <1>4 DEF Sorted
<1>6. ToSet(q) = {Job(ops[i], id) : i \in 1 .. n}
  BY <1>2, <1>3 DEF ToSet
<1> QED
  BY <1>5, <1>6 DEF q, n

LEMMA OneJob ==
    ASSUME NEW op \in Ops \ Repeated, NEW id \in Nat
    PROVE  Sorted(Jobs(<<op>>, id)) /\ ToSet(Jobs(<<op>>, id)) = {Job(op, id)}
<1> DEFINE o == <<op>>
<1>1. o \in Seq(Ops) /\ Len(o) = 1 /\ o[1] = op
  OBVIOUS
<1> HIDE DEF o
<1>2. /\ Sorted(Jobs(o, id))
      /\ ToSet(Jobs(o, id)) = {Job(o[i], id) : i \in 1 .. Len(o)}
  BY <1>1, JobsAre
<1>3. {Job(o[i], id) : i \in 1 .. Len(o)} = {Job(op, id)}
  BY <1>1
<1> QED
  BY <1>2, <1>3 DEF o

LEMMA TwoJobs ==
    ASSUME NEW a \in Ops \ Repeated, NEW b \in Ops \ Repeated, Rank[a] < Rank[b], NEW id \in Nat
    PROVE  /\ Sorted(Jobs(<<a, b>>, id))
           /\ ToSet(Jobs(<<a, b>>, id)) = {Job(a, id), Job(b, id)}
<1> DEFINE o == <<a, b>>
<1>1. o \in Seq(Ops) /\ Len(o) = 2 /\ o[1] = a /\ o[2] = b
  OBVIOUS
<1> HIDE DEF o
<1>2. /\ Sorted(Jobs(o, id))
      /\ ToSet(Jobs(o, id)) = {Job(o[i], id) : i \in 1 .. Len(o)}
  BY <1>1, JobsAre
<1>3. {Job(o[i], id) : i \in 1 .. Len(o)} = {Job(a, id), Job(b, id)}
  BY <1>1
<1> QED
  BY <1>2, <1>3 DEF o

LEMMA ThreeJobs ==
    ASSUME NEW a \in Ops \ Repeated, NEW b \in Ops \ Repeated, NEW c \in Ops \ Repeated,
           Rank[a] < Rank[b], Rank[b] < Rank[c], NEW id \in Nat
    PROVE  /\ Sorted(Jobs(<<a, b, c>>, id))
           /\ ToSet(Jobs(<<a, b, c>>, id)) = {Job(a, id), Job(b, id), Job(c, id)}
<1> DEFINE o == <<a, b, c>>
<1>1. o \in Seq(Ops) /\ Len(o) = 3 /\ o[1] = a /\ o[2] = b /\ o[3] = c
  OBVIOUS
<1> HIDE DEF o
<1>2. ASSUME NEW i \in 1 .. Len(o), NEW k \in 1 .. Len(o), i < k
      PROVE  Rank[o[i]] < Rank[o[k]]
  <2>1. Rank[a] \in Nat /\ Rank[b] \in Nat /\ Rank[c] \in Nat
    BY RankType
  <2>2. (i = 1 /\ k = 2) \/ (i = 1 /\ k = 3) \/ (i = 2 /\ k = 3)
    BY <1>1, <1>2
  <2> QED
    BY <1>1, <2>1, <2>2
<1>3. /\ Sorted(Jobs(o, id))
      /\ ToSet(Jobs(o, id)) = {Job(o[i], id) : i \in 1 .. Len(o)}
  BY <1>1, <1>2, JobsAre
<1>4. {Job(o[i], id) : i \in 1 .. Len(o)} = {Job(a, id), Job(b, id), Job(c, id)}
  BY <1>1
<1> QED
  BY <1>3, <1>4 DEF o

\* The job of a trader.
Each(op, id, t) == [op |-> op, id |-> id, trader |-> t]

LEMMA ForEachIs ==
    ASSUME NEW op \in Repeated, NEW id \in Nat, NEW S \in SUBSET Traders
    PROVE  /\ Sorted(ForEachTrader(op, id, S))
           /\ ToSet(ForEachTrader(op, id, S)) = {Each(op, id, t) : t \in S}
<1> DEFINE n == Cardinality(S)
           q == ForEachTrader(op, id, S)
           z == SetToSeq(S)
<1>1. IsFiniteSet(S)
  BY RecordsAssumption, FS_Subset
<1>2. /\ n \in Nat /\ z \in [1 .. n -> S]
      /\ \A x \in S : \E i \in 1 .. n : z[i] = x
      /\ \A i, k \in 1 .. n : z[i] = z[k] => i = k
  BY <1>1, SetToSeqIs, FS_CardinalityType
<1>3. q = [i \in 1 .. n |-> Each(op, id, z[i])]
  BY DEF ForEachTrader, Each
<1>4. op \in Ops
  BY RankIs DEF Repeated
<1> HIDE DEF q, n, z
<1>5. \A i \in 1 .. n : /\ q[i] = Each(op, id, z[i]) /\ z[i] \in S
                         /\ q[i].op = op /\ q[i].trader = z[i]
  BY <1>2, <1>3 DEF Each
<1>6. \A t \in S : Each(op, id, t) \in JobRec
  BY <1>4, RecordsAssumption DEF JobRec, Each
<1>7. q \in Seq(JobRec) /\ Len(q) = n /\ DOMAIN q = 1 .. n
  BY <1>2, <1>3, <1>5, <1>6
<1>8. Sorted(q)
  <2>1. \A i, k \in 1 .. n : i < k => q[i] # q[k]
    BY <1>2, <1>5
  <2> QED
    BY <1>5, <1>7, <2>1 DEF Sorted, Before
<1>9. ToSet(q) = {Each(op, id, t) : t \in S}
  BY <1>2, <1>5, <1>7 DEF ToSet
<1> QED
  BY <1>8, <1>9 DEF q

LEMMA NoJobs == Sorted(<<>>) /\ ToSet(<<>>) = {}
<1> DEFINE e == <<>>
<1>1. e \in Seq(JobRec) /\ Len(e) = 0 /\ DOMAIN e = {}
  OBVIOUS
<1> HIDE DEF e
<1>2. Sorted(e) /\ ToSet(e) = {}
  BY <1>1 DEF Sorted, ToSet
<1> QED
  BY <1>2 DEF e

\* A stretch of the queue, for one proposal, from one rank to another.
Stretch(q, lo, hi, id) ==
    Sorted(q) /\ \A j \in ToSet(q) : Rank[j.op] \in lo .. hi /\ j.id = id

LEMMA WhenStretch ==
    ASSUME NEW c \in BOOLEAN, NEW q, NEW lo \in Nat, NEW hi \in Nat, NEW id, c => Stretch(q, lo, hi, id)
    PROVE  /\ Stretch(When(c, q), lo, hi, id)
           /\ ToSet(When(c, q)) = IF c THEN ToSet(q) ELSE {}
  BY NoJobs DEF When, Stretch

\* The condition that a session has a part of the layer wired.
LEMMA WhenWired ==
    ASSUME NEW part, NEW s, NEW q, NEW lo \in Nat, NEW hi \in Nat, NEW id, Stretch(q, lo, hi, id)
    PROVE  /\ Stretch(When(part \in s, q), lo, hi, id)
           /\ ToSet(When(part \in s, q)) = IF part \in s THEN ToSet(q) ELSE {}
<1>1. CASE part \in s
  BY <1>1 DEF When
<1>2. CASE part \notin s
  BY <1>2, NoJobs DEF When, Stretch
<1> QED
  BY <1>1, <1>2

LEMMA StretchJoined ==
    ASSUME NEW a, NEW b, NEW lo \in Nat, NEW m \in Nat, NEW k \in Nat, NEW hi \in Nat, NEW id,
           lo <= m, m < k, k <= hi, Stretch(a, lo, m, id), Stretch(b, k, hi, id)
    PROVE  Stretch(a \o b, lo, hi, id) /\ ToSet(a \o b) = ToSet(a) \cup ToSet(b)
<1>1. \A i \in ToSet(a), j \in ToSet(b) : Before(i, j)
  BY DEF Stretch, Before
<1>2. Sorted(a \o b) /\ ToSet(a \o b) = ToSet(a) \cup ToSet(b)
  BY <1>1, Joined DEF Stretch
<1>3. \A j \in ToSet(a) \cup ToSet(b) : Rank[j.op] \in lo .. hi /\ j.id = id
  BY DEF Stretch
<1> QED
  BY <1>2, <1>3 DEF Stretch

\* The jobs of a proposal.
LEMMA EvaluationQueue ==
    ASSUME NEW id \in Nat, NEW verdict, backtest \in BOOLEAN, session.wired \in Stages
    PROVE  LET q == EvaluationJobs(id, verdict)
           IN  /\ Stretch(q, 1, 9, id)
               /\ \A j \in ToSet(q) : /\ j.op = "log_transition" => backtest /\ "log" \in session.wired
                                      /\ j.op = "insert_trade_open" => verdict = "enter"
               /\ "panel" \in session.wired =>
                     /\ Job("insert_panel_summary", id) \in ToSet(q)
                     /\ \A t \in Traders : Each("insert_trader_review", id, t) \in ToSet(q)
<1> DEFINE log == Jobs(<<"log_transition">>, id)
           trace == Jobs(<<"insert_setup_packet">>, id)
                    \o ForEachTrader("insert_trader_review", id, Traders)
                    \o Jobs(<<"insert_panel_summary", "insert_final_decision">>, id)
           risk == Jobs(<<"risk_decision">>, id)
           open == Jobs(<<"insert_trade_open">>, id)
           votes == Jobs(<<"insert_evaluator_verdicts">>, id)
           last == Jobs(<<"candidate_trade">>, id)
           a == When(backtest /\ "log" \in session.wired, log)
           b == When("panel" \in session.wired, trace)
           c == When(verdict # "hold", risk)
           d == When(verdict = "enter", open)
           e == When(verdict = "enter" /\ backtest /\ "panel" \in session.wired, votes)
<1>1. /\ "log_transition" \in Ops \ Repeated /\ "insert_setup_packet" \in Ops \ Repeated
      /\ "insert_panel_summary" \in Ops \ Repeated /\ "insert_final_decision" \in Ops \ Repeated
      /\ "risk_decision" \in Ops \ Repeated /\ "insert_trade_open" \in Ops \ Repeated
      /\ "insert_evaluator_verdicts" \in Ops \ Repeated /\ "candidate_trade" \in Ops \ Repeated
      /\ "insert_trader_review" \in Repeated
  BY RankIs DEF Repeated
<1>2. ASSUME NEW op \in Ops \ Repeated, NEW n \in Nat, Rank[op] = n
      PROVE  Stretch(Jobs(<<op>>, id), n, n, id) /\ ToSet(Jobs(<<op>>, id)) = {Job(op, id)}
  <2>1. Job(op, id).op = op /\ Job(op, id).id = id
    BY DEF Job
  <2> QED
    BY <1>2, <2>1, OneJob DEF Stretch
<1>3. Stretch(log, 1, 1, id) /\ ToSet(log) = {Job("log_transition", id)}
  BY <1>1, <1>2, RankIs
<1>4. Stretch(risk, 6, 6, id) /\ ToSet(risk) = {Job("risk_decision", id)}
  BY <1>1, <1>2, RankIs
<1>5. Stretch(open, 7, 7, id) /\ ToSet(open) = {Job("insert_trade_open", id)}
  BY <1>1, <1>2, RankIs
<1>6. Stretch(votes, 8, 8, id) /\ ToSet(votes) = {Job("insert_evaluator_verdicts", id)}
  BY <1>1, <1>2, RankIs
<1>7. Stretch(last, 9, 9, id) /\ ToSet(last) = {Job("candidate_trade", id)}
  BY <1>1, <1>2, RankIs
<1>8. /\ Stretch(trace, 2, 5, id)
      /\ Job("insert_panel_summary", id) \in ToSet(trace)
      /\ \A t \in Traders : Each("insert_trader_review", id, t) \in ToSet(trace)
  <2> DEFINE packet == Jobs(<<"insert_setup_packet">>, id)
             reviews == ForEachTrader("insert_trader_review", id, Traders)
             ends == Jobs(<<"insert_panel_summary", "insert_final_decision">>, id)
  <2>1. Stretch(packet, 2, 2, id)
    BY <1>1, <1>2, RankIs
  <2>2. /\ Stretch(reviews, 3, 3, id)
        /\ \A t \in Traders : Each("insert_trader_review", id, t) \in ToSet(reviews)
    <3>1. Sorted(reviews) /\ ToSet(reviews) = {Each("insert_trader_review", id, t) : t \in Traders}
      BY <1>1, ForEachIs
    <3> HIDE DEF reviews
    <3>2. \A t : /\ Each("insert_trader_review", id, t).op = "insert_trader_review"
                 /\ Each("insert_trader_review", id, t).id = id
      BY DEF Each
    <3> QED
      BY <3>1, <3>2, RankIs DEF Stretch
  <2>3. Stretch(ends, 4, 5, id) /\ Job("insert_panel_summary", id) \in ToSet(ends)
    <3>1. /\ Sorted(ends)
          /\ ToSet(ends) = {Job("insert_panel_summary", id), Job("insert_final_decision", id)}
      BY <1>1, RankIs, TwoJobs
    <3> HIDE DEF ends
    <3>2. \A j \in ToSet(ends) : /\ j.id = id
                                 /\ j.op \in {"insert_panel_summary", "insert_final_decision"}
      BY <3>1 DEF Job
    <3> QED
      BY <3>1, <3>2, RankIs DEF Stretch
  <2> HIDE DEF packet, reviews, ends
  <2> DEFINE first == packet \o reviews
  <2>4. Stretch(first, 2, 3, id) /\ ToSet(first) = ToSet(packet) \cup ToSet(reviews)
    BY <2>1, <2>2, StretchJoined
  <2>5. trace = first \o ends
    BY DEF packet, reviews, ends
  <2> HIDE DEF first
  <2>6. Stretch(first \o ends, 2, 5, id) /\ ToSet(first \o ends) = ToSet(first) \cup ToSet(ends)
    BY <2>3, <2>4, StretchJoined
  <2> HIDE DEF trace
  <2> QED
    BY <2>2, <2>3, <2>4, <2>6, <2>5
<1> HIDE DEF log, trace, risk, open, votes, last
<1>9. Stretch(a, 1, 1, id) /\ (ToSet(a) = IF backtest /\ "log" \in session.wired THEN ToSet(log) ELSE {})
  BY <1>3, WhenStretch
<1>10. Stretch(b, 2, 5, id) /\ (ToSet(b) = IF "panel" \in session.wired THEN ToSet(trace) ELSE {})
  BY <1>8, WhenWired
<1>11. Stretch(c, 6, 6, id)
  BY <1>4, WhenStretch
<1>12. Stretch(d, 7, 7, id) /\ (ToSet(d) = IF verdict = "enter" THEN ToSet(open) ELSE {})
  BY <1>5, WhenStretch
<1>13. Stretch(e, 8, 8, id)
  BY <1>6, WhenStretch
<1>14. EvaluationJobs(id, verdict) = a \o b \o c \o d \o e \o last
  BY DEF EvaluationJobs, log, trace, risk, open, votes, last
<1> HIDE DEF a, b, c, d, e
<1>15. Stretch(a \o b, 1, 5, id) /\ ToSet(a \o b) = ToSet(a) \cup ToSet(b)
  BY <1>9, <1>10, StretchJoined
<1> DEFINE ab == a \o b
           abc == ab \o c
           abcd == abc \o d
           abcde == abcd \o e
           q == abcde \o last
<1> HIDE DEF ab
<1>16. Stretch(abc, 1, 6, id) /\ ToSet(abc) = ToSet(ab) \cup ToSet(c)
  BY <1>11, <1>15, StretchJoined DEF ab
<1> HIDE DEF abc
<1>17. Stretch(abcd, 1, 7, id) /\ ToSet(abcd) = ToSet(abc) \cup ToSet(d)
  BY <1>12, <1>16, StretchJoined
<1> HIDE DEF abcd
<1>18. Stretch(abcde, 1, 8, id) /\ ToSet(abcde) = ToSet(abcd) \cup ToSet(e)
  BY <1>13, <1>17, StretchJoined
<1> HIDE DEF abcde
<1>19. Stretch(q, 1, 9, id) /\ ToSet(q) = ToSet(abcde) \cup ToSet(last)
  BY <1>7, <1>18, StretchJoined
<1>20. EvaluationJobs(id, verdict) = q
  BY <1>14 DEF ab, abc, abcd, abcde
<1> HIDE DEF q
<1>21. ToSet(q) = ToSet(a) \cup ToSet(b) \cup ToSet(c) \cup ToSet(d) \cup ToSet(e) \cup ToSet(last)
  BY <1>15, <1>16, <1>17, <1>18, <1>19 DEF ab
<1>22. ASSUME NEW j \in ToSet(q), j.op = "log_transition" PROVE backtest /\ "log" \in session.wired
  <2>1. Rank[j.op] = 1
    BY <1>22, RankIs
  <2>2. j \in ToSet(a)
    BY <1>7, <1>10, <1>11, <1>12, <1>13, <1>21, <2>1 DEF Stretch
  <2> QED
    BY <1>9, <2>2
<1>23. ASSUME NEW j \in ToSet(q), j.op = "insert_trade_open" PROVE verdict = "enter"
  <2>1. Rank[j.op] = 7
    BY <1>23, RankIs
  <2>2. j \in ToSet(d)
    BY <1>7, <1>9, <1>10, <1>11, <1>13, <1>21, <2>1 DEF Stretch
  <2> QED
    BY <1>12, <2>2
<1>24. ASSUME "panel" \in session.wired
       PROVE  /\ Job("insert_panel_summary", id) \in ToSet(q)
              /\ \A t \in Traders : Each("insert_trader_review", id, t) \in ToSet(q)
  BY <1>8, <1>10, <1>21, <1>24
<1> QED
  BY <1>19, <1>20, <1>22, <1>23, <1>24

\* The jobs of a close.
LEMMA CloseQueue ==
    ASSUME NEW position, position.id \in Nat, position.snap \in Nat,
           backtest \in BOOLEAN, session.wired \in Stages
    PROVE  LET q == CloseJobs(position)
           IN  /\ Stretch(q, 11, 19, position.id)
               /\ Job("update_trade_close", position.id) \in ToSet(q)
               /\ position.snap # 0 => Job("update_reward", position.id) \in ToSet(q)
               /\ \A j \in ToSet(q) : /\ j.op \in Learning => Needs(j.op) \in session.wired
                                      /\ j.op \notin Repeated
               /\ \A op \in Learning \ {"calibrate"} : Needs(op) \in session.wired =>
                      Job(op, position.id) \in ToSet(q)
<1> DEFINE id == position.id
           reward == Jobs(<<"update_reward">>, id)
           panel == Jobs(<<"panel_attribution", "backfill_trade_id">>, id)
           close == Jobs(<<"update_trade_close">>, id)
           learn == Jobs(<<"query_reviews", "journal_attribution", "family">>, id)
           votes == Jobs(<<"update_evaluator_outcomes">>, id)
           a == When(position.snap # 0, reward)
           b == When("panel" \in session.wired, panel)
           d == When("journal" \in session.wired, learn)
           e == When(backtest, votes)
<1>1. /\ "update_reward" \in Ops \ Repeated /\ "panel_attribution" \in Ops \ Repeated
      /\ "backfill_trade_id" \in Ops \ Repeated /\ "update_trade_close" \in Ops \ Repeated
      /\ "query_reviews" \in Ops \ Repeated /\ "journal_attribution" \in Ops \ Repeated
      /\ "family" \in Ops \ Repeated /\ "update_evaluator_outcomes" \in Ops \ Repeated
  BY RankIs DEF Repeated
<1>2. ASSUME NEW op \in Ops \ Repeated, NEW n \in Nat, Rank[op] = n
      PROVE  Stretch(Jobs(<<op>>, id), n, n, id) /\ ToSet(Jobs(<<op>>, id)) = {Job(op, id)}
  <2>1. Job(op, id).op = op /\ Job(op, id).id = id
    BY DEF Job
  <2> QED
    BY <1>2, <2>1, OneJob DEF Stretch
<1>3. \A op : Job(op, id).op = op
  BY DEF Job
<1>4. Stretch(reward, 11, 11, id) /\ ToSet(reward) = {Job("update_reward", id)}
  BY <1>1, <1>2, RankIs
<1>5. Stretch(close, 14, 14, id) /\ ToSet(close) = {Job("update_trade_close", id)}
  BY <1>1, <1>2, RankIs
<1>6. Stretch(votes, 19, 19, id)
  BY <1>1, <1>2, RankIs
<1>7. /\ Stretch(panel, 12, 13, id)
      /\ ToSet(panel) = {Job("panel_attribution", id), Job("backfill_trade_id", id)}
  <2>1. /\ Sorted(panel)
        /\ ToSet(panel) = {Job("panel_attribution", id), Job("backfill_trade_id", id)}
    BY <1>1, RankIs, TwoJobs
  <2> HIDE DEF panel
  <2>2. \A j \in ToSet(panel) : j.id = id /\ j.op \in {"panel_attribution", "backfill_trade_id"}
    BY <2>1 DEF Job
  <2> QED
    BY <2>1, <2>2, RankIs DEF Stretch
<1>8. /\ Stretch(learn, 15, 18, id)
      /\ ToSet(learn) = {Job("query_reviews", id), Job("journal_attribution", id), Job("family", id)}
  <2>1. /\ Sorted(learn)
        /\ ToSet(learn) = {Job("query_reviews", id), Job("journal_attribution", id),
                           Job("family", id)}
    BY <1>1, RankIs, ThreeJobs
  <2> HIDE DEF learn
  <2>2. \A j \in ToSet(learn) :
            j.id = id /\ j.op \in {"query_reviews", "journal_attribution", "family"}
    BY <2>1 DEF Job
  <2> QED
    BY <2>1, <2>2, RankIs DEF Stretch
<1> HIDE DEF reward, panel, close, learn, votes
<1>9. Stretch(a, 11, 11, id) /\ (ToSet(a) = IF position.snap # 0 THEN ToSet(reward) ELSE {})
  BY <1>4, WhenStretch
<1>10. Stretch(b, 12, 13, id) /\ (ToSet(b) = IF "panel" \in session.wired THEN ToSet(panel) ELSE {})
  <2>1. Stretch(panel, 12, 13, id) /\ 12 \in Nat /\ 13 \in Nat
    BY <1>7
  <2>2. /\ Stretch(When("panel" \in session.wired, panel), 12, 13, id)
        /\ ToSet(When("panel" \in session.wired, panel))
              = IF "panel" \in session.wired THEN ToSet(panel) ELSE {}
    BY <2>1, WhenWired
  <2> QED
    BY <2>2
<1>11. Stretch(d, 15, 18, id) /\ (ToSet(d) = IF "journal" \in session.wired THEN ToSet(learn) ELSE {})
  <2>1. Stretch(learn, 15, 18, id) /\ 15 \in Nat /\ 18 \in Nat
    BY <1>8
  <2>2. /\ Stretch(When("journal" \in session.wired, learn), 15, 18, id)
        /\ ToSet(When("journal" \in session.wired, learn))
              = IF "journal" \in session.wired THEN ToSet(learn) ELSE {}
    BY <2>1, WhenWired
  <2> QED
    BY <2>2
<1>12. Stretch(e, 19, 19, id)
  BY <1>6, WhenStretch
<1>13. CloseJobs(position) = a \o b \o close \o d \o e
  BY DEF CloseJobs, reward, panel, close, learn, votes
<1> HIDE DEF a, b, d, e
<1> DEFINE ab == a \o b
           abc == ab \o close
           abcd == abc \o d
           q == abcd \o e
<1>14. Stretch(ab, 11, 13, id) /\ ToSet(ab) = ToSet(a) \cup ToSet(b)
  BY <1>9, <1>10, StretchJoined
<1> HIDE DEF ab
<1>15. Stretch(abc, 11, 14, id) /\ ToSet(abc) = ToSet(ab) \cup ToSet(close)
  BY <1>5, <1>14, StretchJoined
<1> HIDE DEF abc
<1>16. Stretch(abcd, 11, 18, id) /\ ToSet(abcd) = ToSet(abc) \cup ToSet(d)
  BY <1>11, <1>15, StretchJoined
<1> HIDE DEF abcd
<1>17. Stretch(q, 11, 19, id) /\ ToSet(q) = ToSet(abcd) \cup ToSet(e)
  BY <1>12, <1>16, StretchJoined
<1>18. CloseJobs(position) = q
  BY <1>13 DEF ab, abc, abcd
<1> HIDE DEF q
<1>19. ToSet(q) = ToSet(a) \cup ToSet(b) \cup ToSet(close) \cup ToSet(d) \cup ToSet(e)
  BY <1>14, <1>15, <1>16, <1>17
<1>20. ASSUME NEW j \in ToSet(q)
       PROVE  (j.op \in Learning => Needs(j.op) \in session.wired) /\ j.op \notin Repeated
  <2>1. CASE j \in ToSet(b)
    <3>1. /\ "panel" \in session.wired
          /\ j \in {Job("panel_attribution", id), Job("backfill_trade_id", id)}
      BY <1>7, <1>10, <2>1
    <3> QED
      BY <1>3, <3>1 DEF Repeated, Needs
  <2>2. CASE j \in ToSet(d)
    <3>1. /\ "journal" \in session.wired
          /\ j \in {Job("query_reviews", id), Job("journal_attribution", id), Job("family", id)}
      BY <1>8, <1>11, <2>2
    <3> QED
      BY <1>3, <3>1 DEF Repeated, Needs
  <2>3. CASE j \in ToSet(a) \cup ToSet(close) \cup ToSet(e)
    <3>1. Rank[j.op] \in {11, 14, 19}
      BY <1>5, <1>9, <1>12, <2>3 DEF Stretch
    <3>2. j.op \notin Learning
      BY <3>1, RankLearning
    <3>3. Rank["insert_trader_review"] = 3 /\ Rank["calibrate"] = 17
      BY RankIs
    <3> QED
      BY <3>1, <3>2, <3>3 DEF Repeated
  <2> QED
    BY <1>19, <2>1, <2>3, <2>2
<1>21. ASSUME NEW op \in Learning \ {"calibrate"}, Needs(op) \in session.wired
       PROVE  Job(op, id) \in ToSet(q)
  <2>1. CASE op \in {"panel_attribution", "backfill_trade_id"}
    BY <1>7, <1>10, <1>19, <1>21, <2>1 DEF Needs
  <2>2. CASE op \in {"query_reviews", "journal_attribution", "family"}
    BY <1>8, <1>11, <1>19, <1>21, <2>2 DEF Needs
  <2> QED
    BY <2>1, <2>2 DEF Learning
<1> QED
  BY <1>4, <1>5, <1>9, <1>17, <1>18, <1>19, <1>20, <1>21

LEMMA BarEndsIs == Sorted(BarEnds) /\ ToSet(BarEnds) = {Job("exit", 0), Job("on_bar", 0)}
<1>1. "exit" \in Ops \ Repeated /\ "on_bar" \in Ops \ Repeated /\ Rank["exit"] < Rank["on_bar"]
  BY RankIs DEF Repeated
<1> QED
  BY <1>1, TwoJobs DEF BarEnds

\* A sound queue stays sound when its head is taken, and no job but a repeated one
\* comes twice.
LEMMA Taken ==
    ASSUME NEW q, NEW f, NEW s, SoundQueue(q, f, s), q # <<>>
    PROVE  /\ SoundQueue(Tail(q), f, s)
           /\ Head(q) \in JobRec /\ Head(q) \in ToSet(q)
           /\ ToSet(q) = {Head(q)} \cup ToSet(Tail(q))
           /\ Head(q).op \notin Repeated => \A j \in ToSet(Tail(q)) : j.op # Head(q).op
           /\ \A j \in ToSet(Tail(q)) : Rank[Head(q).op] <= Rank[j.op]
           /\ Head(q) \notin ToSet(Tail(q))
<1> DEFINE u == ToSet(Tail(q))
           h == Head(q)
<1>1. /\ h \in JobRec /\ Sorted(Tail(q)) /\ ToSet(q) = {h} \cup u
      /\ \A j \in u : Before(h, j)
  BY TailOf DEF SoundQueue
<1> HIDE DEF u, h
<1>2. h.op \in Ops /\ \A j \in u : j.op \in Ops
  <2>1. \A j \in ToSet(q) : j \in JobRec
    BY DEF SoundQueue, Sorted, ToSet
  <2> QED
    BY <1>1, <2>1 DEF JobRec
<1>3. Rank[h.op] \in Nat /\ \A j \in u : Rank[j.op] \in Nat
  BY <1>2, RankType
<1>4. \A j \in u : Rank[h.op] <= Rank[j.op]
  BY <1>1, <1>3 DEF Before
<1>5. h.op \notin Repeated => \A j \in u : j.op # h.op
  BY <1>1, <1>3 DEF Before
<1>6. ASSUME NEW j \in u, j.op = "query_reviews"
      PROVE  In(u, "journal_attribution", j.id) /\ \A k \in u : k.op # "calibrate"
  <2>1. PICK k \in {h} \cup u : k.op = "journal_attribution" /\ k.id = j.id
    <3>1. j \in ToSet(q)
      BY <1>1
    <3>2. In(ToSet(q), "journal_attribution", j.id)
      BY <1>6, <3>1 DEF SoundQueue
    <3> QED
      BY <1>1, <3>2 DEF In
  <2>2. ASSUME k = h PROVE FALSE
    <3>1. Rank[h.op] = 16 /\ Rank[j.op] = 15 /\ h.op # j.op
      BY <1>6, <2>1, <2>2, RankIs
    <3> QED
      BY <1>1, <3>1 DEF Before
  <2>3. \A i \in u : i.op # "calibrate"
    BY <1>1, <1>6 DEF SoundQueue
  <2> QED
    BY <2>1, <2>2, <2>3 DEF In
<1>7. SoundQueue(Tail(q), f, s)
  <2>1. \A j \in u :
          /\ j.id <= Len(f)
          /\ Rank[j.op] < 10 => j.id # 0
          /\ Rank[j.op] \in 11 .. 19 => Is(f, j.id, "closed") /\ f[j.id].wired = s
          /\ j.op \in Learning => Needs(j.op) \in s
          /\ Rank[j.op] <= 7 => Is(f, j.id, "none")
          /\ j.op = "insert_trade_open" => f[j.id].verdict = "enter" /\ f[j.id].wired = s
          /\ j.op = "exit" => \A k \in u : Rank[k.op] <= 10 \/ k.op = "on_bar"
    BY <1>1 DEF SoundQueue
  <2> QED
    BY <1>1, <1>6, <2>1 DEF SoundQueue, u
<1>8. h \notin u
  BY <1>1, <1>3 DEF Before
<1> QED
  BY <1>1, <1>4, <1>5, <1>7, <1>8 DEF u, h

-----------------------------------------------------------------------------
(* One job done or failed: h the job, q and r the jobs to do before and    *)
(* after, l and m the lost ones.                                           *)

Consumed(h, q, r, l, m) == q = {h} \cup r /\ (m = l \/ m = l \cup {h})

LEMMA OtherJobs ==
    ASSUME NEW h, NEW q, NEW r, NEW l, NEW m, Consumed(h, q, r, l, m), NEW op, op # h.op
    PROVE  \A id : (In(m, op, id) <=> In(l, op, id)) /\ (In(r, op, id) <=> In(q, op, id))
  BY DEF Consumed, In

LEMMA TradesKeep ==
    ASSUME NEW h, NEW q, NEW r, NEW l, NEW m, Consumed(h, q, r, l, m),
           h.op # "update_trade_close", NEW t, NEW f, SoundTrades(t, f, l, q)
    PROVE  SoundTrades(t, f, m, r)
<1>1. \A id : /\ In(m, "update_trade_close", id) <=> In(l, "update_trade_close", id)
              /\ In(r, "update_trade_close", id) <=> In(q, "update_trade_close", id)
  BY OtherJobs
<1>2. \A j \in m : j.op = "update_trade_close" => j \in l
  BY DEF Consumed
<1> QED
  BY <1>1, <1>2 DEF SoundTrades

LEMMA TransitionsKeep ==
    ASSUME NEW h, NEW q, NEW r, NEW l, NEW m, Consumed(h, q, r, l, m),
           h.op \notin {"update_reward", "log_transition"},
           NEW t, NEW f, NEW b, SoundTransitions(t, f, l, q, b)
    PROVE  SoundTransitions(t, f, m, r, b)
<1>1. \A id : /\ In(m, "update_reward", id) <=> In(l, "update_reward", id)
              /\ In(r, "update_reward", id) <=> In(q, "update_reward", id)
  BY OtherJobs
<1>2. \A id : /\ In(m, "log_transition", id) <=> In(l, "log_transition", id)
              /\ In(r, "log_transition", id) <=> In(q, "log_transition", id)
  BY OtherJobs
<1>3. \A j \in m : j.op = "update_reward" => j \in l
  BY DEF Consumed
<1>4. r \subseteq q
  BY DEF Consumed
<1>5. \A id : RewardNow(f, m, r, id) = RewardNow(f, l, q, id)
  BY <1>1 DEF RewardNow
<1> QED
  BY <1>1, <1>2, <1>3, <1>4, <1>5 DEF SoundTransitions

LEMMA DiagnosesKeep ==
    ASSUME NEW h, NEW q, NEW r, NEW l, NEW m, Consumed(h, q, r, l, m),
           h.op \notin {"update_trade_close", "diagnosis"},
           NEW c, NEW w, NEW f, SoundDiagnoses(c, w, f, l, q)
    PROVE  SoundDiagnoses(c, w, f, m, r)
<1>1. \A id : /\ In(m, "diagnosis", id) <=> In(l, "diagnosis", id)
              /\ In(r, "update_trade_close", id) <=> In(q, "update_trade_close", id)
  BY OtherJobs
<1>2. \A j \in m : j.op = "diagnosis" => j \in l
  BY DEF Consumed
<1> QED
  BY <1>1, <1>2 DEF SoundDiagnoses

\* What is lost later is no matter to a position.
LEMMA PositionsKeep ==
    ASSUME NEW l, NEW m, l \subseteq m, NEW o, NEW f, NEW b, NEW s, SoundPositions(o, f, l, b, s)
    PROVE  SoundPositions(o, f, m, b, s)
<1>1. \A id : In(l, "log_transition", id) => In(m, "log_transition", id)
  BY DEF In
<1> QED
  BY <1>1 DEF SoundPositions

\* The jobs that touch neither rows nor memory the invariant speaks of.
Telling == {"log_transition", "insert_trade_open", "update_reward", "update_trade_close",
            "exit", "on_bar", "query_reviews", "diagnosis"}

PlainStep ==
    /\ work # <<>> /\ Head(work).op \notin Telling
    /\ work' = Tail(work)
    /\ lost' = lost \/ lost' = lost \cup {Head(work)}
    /\ Has(tables', TableNames)
    /\ tables'.trades = tables.trades /\ tables'.transitions = tables.transitions
    /\ tables'.trace \subseteq TraceRec \cup ReviewRec
    /\ Has(memory', MemoryNames)
    /\ memory'.open = memory.open /\ memory'.pending = memory.pending
    /\ UNCHANGED ground

LEMMA PlainKeeps == IInv /\ PlainStep => IInv'
<1> SUFFICES ASSUME IInv, PlainStep PROVE IInv'
  OBVIOUS
<1> DEFINE h == Head(work)
           q == ToSet(work)
           r == ToSet(Tail(work))
<1>1. /\ SoundQueue(Tail(work), fate, session.wired)
      /\ h \in JobRec /\ h \in q /\ q = {h} \cup r
  BY Taken DEF IInv, PlainStep
<1>2. h.id \in Nat /\ h.id <= Len(fate)
  BY <1>1 DEF IInv, SoundQueue, JobRec
<1> HIDE DEF h, q, r
<1>3. Consumed(h, q, r, lost, lost')
  BY <1>1 DEF PlainStep, Consumed, h
<1>4. h.op \notin Telling
  BY DEF PlainStep, h
<1>5. UNCHANGED <<backtest, session, fate, csv, bars>>
  BY DEF PlainStep, ground, counters
<1>6. SoundTrades(tables'.trades, fate', lost', r)
  BY <1>3, <1>4, <1>5, TradesKeep DEF IInv, Telling, PlainStep, q
<1>7. SoundTransitions(tables'.transitions, fate', lost', r, backtest')
  BY <1>3, <1>4, <1>5, TransitionsKeep DEF IInv, Telling, PlainStep, q
<1>8. SoundDiagnoses(csv', memory'.pending, fate', lost', r)
  BY <1>3, <1>4, <1>5, DiagnosesKeep DEF IInv, Telling, PlainStep, q
<1>9. SoundPositions(memory'.open, fate', lost', backtest', session'.wired)
  <2>1. lost \subseteq lost'
    BY DEF PlainStep
  <2> QED
    BY <1>5, <2>1, PositionsKeep DEF IInv, PlainStep
<1>10. RecordsType'
  <2>1. \A j \in lost' : j.id \in Nat /\ j.id <= Len(fate')
    BY <1>2, <1>5 DEF IInv, RecordsType, PlainStep, h
  <2> QED
    BY <1>5, <2>1 DEF IInv, RecordsType, PlainStep
<1>11. session'.up
  BY <1>5 DEF IInv, PlainStep
<1>12. SoundQueue(work', fate', session'.wired) /\ ToSet(work') = r
  BY <1>1, <1>5 DEF PlainStep, r
<1> QED
  BY <1>6, <1>7, <1>8, <1>9, <1>10, <1>11, <1>12 DEF IInv

-----------------------------------------------------------------------------
(* The statements.                                                         *)

LEMMA StatementIs ==
    ASSUME Has(tables, TableNames), NEW table \in TableNames, NEW contents,
           Statement(table, contents)
    PROVE  /\ work' = Tail(work)
           /\ Has(tables', TableNames)
           /\ \A n \in TableNames : n # table => tables'[n] = tables[n]
           /\ \/ tables'[table] = contents /\ lost' = lost
              \/ tables' = tables /\ lost' = lost \cup {Head(work)}
  BY DEF Has, Statement, Succeeds, Fails

LEMMA MemoryHas ==
    ASSUME Has(memory, MemoryNames), NEW name \in MemoryNames, NEW x
    PROVE  LET m == [memory EXCEPT ![name] = x]
           IN  /\ Has(m, MemoryNames) /\ m[name] = x
               /\ \A n \in MemoryNames : n # name => m[n] = memory[n]
  BY DEF Has

\* The head of a sound queue, and the proposal it is for.
LEMMA HeadIs ==
    ASSUME IInv, work # <<>>
    PROVE  /\ Head(work) \in JobRec /\ Head(work) \in ToSet(work)
           /\ Id \in Nat /\ Id <= Len(fate)
           /\ Head(work).op \notin {"exit", "on_bar"} =>
                 Id \in 1 .. Len(fate) /\ fate[Id] \in FateRec
<1>1. Head(work) \in JobRec /\ Head(work) \in ToSet(work)
  BY Taken DEF IInv
<1>2. Id \in Nat /\ Id <= Len(fate)
  BY <1>1 DEF IInv, SoundQueue, JobRec, Id
<1>3. fate \in Seq(FateRec)
  BY DEF IInv, RecordsType
<1>4. ASSUME Head(work).op \notin {"exit", "on_bar"} PROVE Id \in 1 .. Len(fate)
  <2>1. Rank[Head(work).op] < 10 \/ Rank[Head(work).op] \in 11 .. 19
    <3>1. Head(work).op \in Ops
      BY <1>1 DEF JobRec
    <3> QED
      BY <1>4, <3>1, RankSplit
  <2>2. Rank[Head(work).op] < 10 => Id # 0
    BY <1>1 DEF IInv, SoundQueue, Id
  <2>3. Rank[Head(work).op] \in 11 .. 19 => Is(fate, Id, "closed")
    BY <1>1 DEF IInv, SoundQueue, Id
  <2> QED
    BY <1>2, <1>3, <2>1, <2>2, <2>3 DEF Is
<1> QED
  BY <1>1, <1>2, <1>3, <1>4

\* A statement on a table the invariant does not read.
LEMMA PlainStatement ==
    ASSUME IInv, work # <<>>, Head(work).op \notin Telling,
           NEW table \in TableNames \ {"trades", "transitions"}, NEW contents,
           Statement(table, contents),
           table = "trace" => contents \subseteq TraceRec \cup ReviewRec,
           UNCHANGED ground, Has(memory', MemoryNames),
           memory'.open = memory.open, memory'.pending = memory.pending
    PROVE  PlainStep
<1>1. Has(tables, TableNames) /\ tables.trace \subseteq TraceRec \cup ReviewRec
  BY DEF IInv, RecordsType
<1>2. /\ work' = Tail(work)
      /\ Has(tables', TableNames)
      /\ \A n \in TableNames : n # table => tables'[n] = tables[n]
      /\ \/ tables'[table] = contents /\ lost' = lost
         \/ tables' = tables /\ lost' = lost \cup {Head(work)}
  BY <1>1, StatementIs
<1>3. tables'.trades = tables.trades /\ tables'.transitions = tables.transitions
  BY <1>2 DEF TableNames
<1>4. tables'.trace \subseteq TraceRec \cup ReviewRec
  BY <1>1, <1>2 DEF TableNames
<1> QED
  BY <1>2, <1>3, <1>4 DEF PlainStep

LEMMA TraceKeeps ==
    ASSUME NEW trace, trace \subseteq TraceRec \cup ReviewRec, NEW id \in Nat
    PROVE  /\ InsertSetupPacket(trace, id) \subseteq TraceRec \cup ReviewRec
           /\ InsertPanelSummary(trace, id) \subseteq TraceRec \cup ReviewRec
           /\ InsertFinalDecision(trace, id) \subseteq TraceRec \cup ReviewRec
           /\ \A t \in Traders, v \in Verdicts :
                 InsertTraderReview(trace, t, id, v) \subseteq TraceRec \cup ReviewRec
           /\ BackfillTradeId(trace, id, id) \subseteq TraceRec \cup ReviewRec
<1>1. ASSUME NEW table \in TraceTables PROVE TraceRow(table, id) \in TraceRec
  BY DEF TraceRow, TraceRec
<1>2. ASSUME NEW t \in Traders, NEW v \in Verdicts PROVE ReviewRow(t, id, v) \in ReviewRec
  BY DEF ReviewRow, ReviewRec
<1>3. ASSUME NEW r \in trace PROVE [r EXCEPT !.trade = id] \in TraceRec \cup ReviewRec
  <2>1. CASE r \in TraceRec
    BY <2>1 DEF TraceRec
  <2>2. CASE r \in ReviewRec
    BY <2>2 DEF ReviewRec
  <2> QED
    BY <2>1, <2>2
<1>4. BackfillTradeId(trace, id, id) \subseteq TraceRec \cup ReviewRec
  BY <1>3 DEF BackfillTradeId
<1>5. /\ InsertSetupPacket(trace, id) \subseteq TraceRec \cup ReviewRec
      /\ InsertPanelSummary(trace, id) \subseteq TraceRec \cup ReviewRec
      /\ InsertFinalDecision(trace, id) \subseteq TraceRec \cup ReviewRec
  BY <1>1 DEF InsertSetupPacket, InsertPanelSummary, InsertFinalDecision, TraceTables
<1>6. \A t \in Traders, v \in Verdicts :
          InsertTraderReview(trace, t, id, v) \subseteq TraceRec \cup ReviewRec
  BY <1>2 DEF InsertTraderReview
<1> QED
  BY <1>4, <1>5, <1>6

LEMMA PlainJobs ==
    ASSUME IInv,
           \/ InsertSetupPacketJob \/ InsertTraderReviewJob \/ InsertPanelSummaryJob
           \/ InsertFinalDecisionJob \/ JournalEventJob \/ InsertEvaluatorVerdictsJob
           \/ PanelAttributionJob \/ BackfillTradeIdJob \/ JournalAttributionJob
           \/ CalibrateJob \/ FamilyJob \/ UpdateEvaluatorOutcomesJob
    PROVE  PlainStep
<1>1. /\ Has(tables, TableNames) /\ tables.trace \subseteq TraceRec \cup ReviewRec
      /\ Has(memory, MemoryNames)
  BY DEF IInv, RecordsType
<1>2. {"events", "trace", "attributions", "evaluators"} \subseteq TableNames \ {"trades", "transitions"}
  BY DEF TableNames
<1>3. CASE InsertSetupPacketJob
  <2>1. work # <<>> /\ Head(work).op = "insert_setup_packet"
    BY <1>3 DEF InsertSetupPacketJob, At
  <2>2. InsertSetupPacket(tables.trace, Id) \subseteq TraceRec \cup ReviewRec
    BY <1>1, <2>1, HeadIs, TraceKeeps
  <2> QED
    BY <1>1, <1>2, <1>3, <2>1, <2>2, PlainStatement DEF InsertSetupPacketJob, Telling
<1>4. CASE InsertTraderReviewJob
  <2> DEFINE t == Head(work).trader
  <2>1. work # <<>> /\ Head(work).op = "insert_trader_review"
    BY <1>4 DEF InsertTraderReviewJob, At
  <2>2. t \in Traders /\ Id \in Nat /\ fate[Id].votes \in Panels
    <3>1. Head(work) \in JobRec /\ Id \in Nat /\ fate[Id] \in FateRec
      BY <2>1, HeadIs
    <3>2. fate[Id].votes \in Panels
      BY <3>1 DEF FateRec
    <3> QED
      BY <2>1, <3>1, <3>2 DEF JobRec, Repeated
  <2>3. fate[Id].votes[t] \in Verdicts
    BY <2>2 DEF Verdicts
  <2>4. InsertTraderReview(tables.trace, t, Id, fate[Id].votes[t]) \subseteq TraceRec \cup ReviewRec
    BY <1>1, <2>2, <2>3, TraceKeeps
  <2> QED
    BY <1>1, <1>2, <1>4, <2>1, <2>4, PlainStatement DEF InsertTraderReviewJob, Telling
<1>5. CASE InsertPanelSummaryJob
  <2>1. work # <<>> /\ Head(work).op = "insert_panel_summary"
    BY <1>5 DEF InsertPanelSummaryJob, At
  <2>2. InsertPanelSummary(tables.trace, Id) \subseteq TraceRec \cup ReviewRec
    BY <1>1, <2>1, HeadIs, TraceKeeps
  <2> QED
    BY <1>1, <1>2, <1>5, <2>1, <2>2, PlainStatement DEF InsertPanelSummaryJob, Telling
<1>6. CASE InsertFinalDecisionJob
  <2>1. work # <<>> /\ Head(work).op = "insert_final_decision"
    BY <1>6 DEF InsertFinalDecisionJob, At
  <2>2. InsertFinalDecision(tables.trace, Id) \subseteq TraceRec \cup ReviewRec
    BY <1>1, <2>1, HeadIs, TraceKeeps
  <2>3. /\ Has(memory', MemoryNames)
        /\ memory'.open = memory.open /\ memory'.pending = memory.pending
    BY <1>1, <1>6, MemoryHas DEF InsertFinalDecisionJob, MemoryNames
  <2> QED
    BY <1>2, <1>6, <2>1, <2>2, <2>3, PlainStatement DEF InsertFinalDecisionJob, Telling
<1>7. CASE JournalEventJob
  <2>1. work # <<>> /\ Head(work).op \in {"risk_decision", "candidate_trade"}
    BY <1>7 DEF JournalEventJob, At
  <2> QED
    BY <1>1, <1>2, <1>7, <2>1, PlainStatement DEF JournalEventJob, Telling
<1>8. CASE InsertEvaluatorVerdictsJob
  <2>1. work # <<>> /\ Head(work).op = "insert_evaluator_verdicts"
    BY <1>8 DEF InsertEvaluatorVerdictsJob, At
  <2>2. /\ Has(memory', MemoryNames)
        /\ memory'.open = memory.open /\ memory'.pending = memory.pending
    BY <1>1, <1>8, MemoryHas DEF InsertEvaluatorVerdictsJob, MemoryNames
  <2> QED
    BY <1>2, <1>8, <2>1, <2>2, PlainStatement DEF InsertEvaluatorVerdictsJob, Telling
<1>9. CASE PanelAttributionJob
  <2>1. work # <<>> /\ Head(work).op = "panel_attribution"
    BY <1>9 DEF PanelAttributionJob, At
  <2> QED
    BY <1>1, <1>2, <1>9, <2>1, PlainStatement DEF PanelAttributionJob, Telling
<1>10. CASE BackfillTradeIdJob
  <2>1. work # <<>> /\ Head(work).op = "backfill_trade_id"
    BY <1>10 DEF BackfillTradeIdJob, At
  <2>2. BackfillTradeId(tables.trace, Id, Id) \subseteq TraceRec \cup ReviewRec
    BY <1>1, <2>1, HeadIs, TraceKeeps
  <2> QED
    BY <1>1, <1>2, <1>10, <2>1, <2>2, PlainStatement DEF BackfillTradeIdJob, Telling
<1>11. CASE JournalAttributionJob
  <2>1. work # <<>> /\ Head(work).op = "journal_attribution"
    BY <1>11 DEF JournalAttributionJob, At
  <2> QED
    BY <1>1, <1>2, <1>11, <2>1, PlainStatement DEF JournalAttributionJob, Telling
<1>12. ASSUME NEW table \in {"calibration", "families"}, NEW key, NEW rec, NEW fresh,
              UpsertAfterRead(table, key, rec, fresh), UNCHANGED <<memory, ground>>,
              work # <<>>, Head(work).op \notin Telling
       PROVE  PlainStep
  <2>1. \/ \E x : tables' = [tables EXCEPT ![table] = [tables[table] EXCEPT ![key] = x]]
        \/ tables' = tables
    BY <1>12 DEF UpsertAfterRead, Upserted
  <2>2. \/ \E x : tables' = [tables EXCEPT ![table] = x]
        \/ tables' = tables
    BY <2>1
  <2>3. /\ Has(tables', TableNames)
        /\ tables'.trades = tables.trades /\ tables'.transitions = tables.transitions
        /\ tables'.trace = tables.trace
    BY <1>1, <2>2 DEF Has, TableNames
  <2>4. work' = Tail(work) /\ (lost' = lost \/ lost' = lost \cup {Head(work)})
    BY <1>12 DEF UpsertAfterRead, Succeeds, Fails
  <2> QED
    BY <1>1, <1>12, <2>3, <2>4 DEF PlainStep
<1>13. CASE CalibrateJob
  BY <1>12, <1>13 DEF CalibrateJob, At, Telling
<1>14. CASE FamilyJob
  BY <1>12, <1>14 DEF FamilyJob, At, Telling
<1>15. CASE UpdateEvaluatorOutcomesJob
  <2>1. work # <<>> /\ Head(work).op = "update_evaluator_outcomes"
    BY <1>15 DEF UpdateEvaluatorOutcomesJob, At
  <2> QED
    BY <1>1, <1>2, <1>15, <2>1, PlainStatement DEF UpdateEvaluatorOutcomesJob, Telling
<1> QED
  BY <1>3, <1>4, <1>5, <1>6, <1>7, <1>8, <1>9, <1>10, <1>11, <1>13, <1>14, <1>15

-----------------------------------------------------------------------------
(* The statements on the transitions.                                      *)

\* h is the only job of its kind among those to do, and r are the others.
Only(h, q, r) == q = {h} \cup r /\ \A j \in r : j.op # h.op

LEMMA TransitionsLog ==
    ASSUME NEW h, NEW q, NEW r, Only(h, q, r), h.op = "log_transition", h.id \in Nat,
           NEW t, NEW f, NEW l, NEW b, SoundTransitions(t, f, l, q, b), Is(f, h.id, "none")
    PROVE  /\ SoundTransitions(LogTransition(t, h.id, f[h.id].action), f, l, r, b)
           /\ SoundTransitions(t, f, l \cup {h}, r, b)
<1>1. Consumed(h, q, r, l, l) /\ Consumed(h, q, r, l, l \cup {h})
  BY DEF Consumed, Only
<1>2. \A id : /\ In(r, "update_reward", id) <=> In(q, "update_reward", id)
              /\ In(l \cup {h}, "update_reward", id) <=> In(l, "update_reward", id)
  BY <1>1, OtherJobs
<1>3. \A id : /\ In(q, "log_transition", id) <=> id = h.id
              /\ ~In(r, "log_transition", id)
  BY DEF Only, In
<1>4. \A id : In(l \cup {h}, "log_transition", id) <=> In(l, "log_transition", id) \/ id = h.id
  BY DEF In
<1>5. h \in q /\ r \subseteq q
  BY DEF Only
<1>6. b /\ "log" \in f[h.id].wired /\ ~In(l, "log_transition", h.id)
  BY <1>5 DEF SoundTransitions
<1> DEFINE new == [id |-> h.id, trade |-> 0,
                   reward |-> IF f[h.id].action \in EnterActions THEN "null" ELSE "zero"]
<1>7. /\ new \in TransitionRec /\ new.id = h.id
      /\ new.reward = Unpaid(f[h.id].action)
  BY DEF TransitionRec, Unpaid, EnterActions
<1>8. LogTransition(t, h.id, f[h.id].action) = t \cup {new}
  BY DEF LogTransition
<1> HIDE DEF new
<1>9. h.id \in 1 .. Len(f) /\ f[h.id].status # "closed"
  BY DEF Is
<1>10. \A j \in r : j.op # "log_transition"
  BY DEF Only
<1>11. /\ \A id : /\ RewardNow(f, l, r, id) = RewardNow(f, l, q, id)
                  /\ RewardNow(f, l \cup {h}, r, id) = RewardNow(f, l, q, id)
       /\ RewardNow(f, l, r, h.id) = Unpaid(f[h.id].action)
  BY <1>2, <1>9 DEF RewardNow
<1>12. SoundTransitions(t \cup {new}, f, l, r, b)
  BY <1>2, <1>3, <1>6, <1>7, <1>9, <1>10, <1>11 DEF SoundTransitions
<1>13. SoundTransitions(t, f, l \cup {h}, r, b)
  <2>1. \A x \in t : x.id # h.id
    BY <1>3 DEF SoundTransitions
  <2>2. \A j \in l \cup {h} : j.op = "update_reward" => j \in l
    OBVIOUS
  <2> QED
    BY <1>2, <1>3, <1>4, <1>10, <1>11, <2>1, <2>2 DEF SoundTransitions
<1> QED
  BY <1>8, <1>12, <1>13

LEMMA TransitionsReward ==
    ASSUME NEW h, NEW q, NEW r, Only(h, q, r), h.op = "update_reward", h.id \in Nat,
           NEW t, NEW f, NEW l, NEW b, SoundTransitions(t, f, l, q, b), Is(f, h.id, "closed")
    PROVE  /\ SoundTransitions(UpdateReward(t, h.id, h.id), f, l, r, b)
           /\ SoundTransitions(t, f, l \cup {h}, r, b)
<1>1. Consumed(h, q, r, l, l) /\ Consumed(h, q, r, l, l \cup {h})
  BY DEF Consumed, Only
<1>2. \A id : /\ In(r, "log_transition", id) <=> In(q, "log_transition", id)
              /\ In(l \cup {h}, "log_transition", id) <=> In(l, "log_transition", id)
  BY <1>1, OtherJobs
<1>3. \A id : /\ In(q, "update_reward", id) <=> id = h.id
              /\ ~In(r, "update_reward", id)
  BY DEF Only, In
<1>4. \A id : In(l \cup {h}, "update_reward", id) <=> In(l, "update_reward", id) \/ id = h.id
  BY DEF In
<1>5. h \in q /\ r \subseteq q
  BY DEF Only
<1>6. ~In(l, "update_reward", h.id)
  BY <1>3 DEF SoundTransitions, In
<1>7. f[h.id].status = "closed"
  BY DEF Is
<1>8. \A id : /\ RewardNow(f, l \cup {h}, r, id) = RewardNow(f, l, q, id)
              /\ id # h.id => RewardNow(f, l, r, id) = RewardNow(f, l, q, id)
  BY <1>3, <1>4 DEF RewardNow
<1>9. RewardNow(f, l, r, h.id) = "paid"
  BY <1>3, <1>6, <1>7 DEF RewardNow
<1>10. SoundTransitions(t, f, l \cup {h}, r, b)
  BY <1>2, <1>3, <1>4, <1>5, <1>7, <1>8 DEF SoundTransitions
<1> DEFINE Paid(x) == IF x.id = h.id THEN [x EXCEPT !.reward = "paid", !.trade = h.id] ELSE x
           u == UpdateReward(t, h.id, h.id)
<1>11. u = {Paid(x) : x \in t}
  BY DEF UpdateReward
<1>12. ASSUME NEW y \in u
       PROVE  /\ y \in TransitionRec
              /\ \E x \in t : /\ x.id = y.id
                              /\ IF y.id = h.id THEN y.reward = "paid" ELSE y = x
  <2>1. PICK x \in t : y = Paid(x)
    BY <1>11, <1>12
  <2>2. x \in TransitionRec
    BY DEF SoundTransitions
  <2>3. CASE x.id = h.id
    <3>1. y = [x EXCEPT !.reward = "paid", !.trade = h.id]
      BY <2>1, <2>3
    <3>2. y \in TransitionRec /\ y.id = x.id /\ y.reward = "paid"
      BY <2>2, <3>1 DEF TransitionRec
    <3> QED
      BY <2>3, <3>2
  <2>4. CASE x.id # h.id
    BY <2>1, <2>2, <2>4
  <2> QED
    BY <2>3, <2>4
<1> HIDE DEF u
<1>13. ASSUME NEW y \in u
       PROVE  /\ y.id \in 1 .. Len(f) /\ b /\ "log" \in f[y.id].wired
              /\ ~In(l, "log_transition", y.id) /\ ~In(r, "log_transition", y.id)
              /\ y.reward = RewardNow(f, l, r, y.id)
  <2>1. PICK x \in t : /\ x.id = y.id
                       /\ IF y.id = h.id THEN y.reward = "paid" ELSE y = x
    BY <1>12
  <2>2. /\ y.id \in 1 .. Len(f) /\ b /\ "log" \in f[y.id].wired
        /\ ~In(l, "log_transition", y.id) /\ ~In(r, "log_transition", y.id)
        /\ x.reward = RewardNow(f, l, q, y.id)
    BY <1>2, <2>1 DEF SoundTransitions
  <2>3. CASE y.id = h.id
    BY <1>9, <2>1, <2>2, <2>3
  <2>4. CASE y.id # h.id
    BY <1>8, <2>1, <2>2, <2>4
  <2> QED
    BY <2>3, <2>4
<1>14. SoundTransitions(u, f, l, r, b)
  <2>1. u \subseteq TransitionRec
    BY <1>12
  <2>2. \A j \in l : j.op = "update_reward" =>
            Is(f, j.id, "closed") /\ ~In(r, "update_reward", j.id)
    BY <1>3 DEF SoundTransitions
  <2>3. \A j \in r : j.op = "log_transition" => b /\ j.id \in 1 .. Len(f)
              /\ "log" \in f[j.id].wired /\ ~In(l, "log_transition", j.id)
    BY <1>5 DEF SoundTransitions
  <2> QED
    BY <1>13, <2>1, <2>2, <2>3 DEF SoundTransitions
<1> QED
  BY <1>10, <1>14 DEF u

-----------------------------------------------------------------------------
(* A position opened or closed: f and g what became of the proposals.      *)

Became(f, g, i, status) ==
    /\ Len(g) = Len(f) /\ i \in 1 .. Len(f)
    /\ g[i].status = status /\ g[i].verdict = f[i].verdict /\ g[i].wired = f[i].wired
    /\ g[i].votes = f[i].votes /\ g[i].family = f[i].family /\ g[i].action = f[i].action
    /\ \A k \in 1 .. Len(f) : k # i => g[k] = f[k]

LEMMA BecameOpen ==
    ASSUME NEW f \in Seq(FateRec), NEW i \in 1 .. Len(f)
    PROVE  LET g == [f EXCEPT ![i].status = "open"]
           IN  g \in Seq(FateRec) /\ Became(f, g, i, "open")
<1> DEFINE x == [f[i] EXCEPT !.status = "open"]
           g == [f EXCEPT ![i] = x]
<1>1. f[i] \in FateRec
  OBVIOUS
<1>2. /\ x \in FateRec /\ x.status = "open" /\ x.verdict = f[i].verdict
      /\ x.wired = f[i].wired /\ x.votes = f[i].votes /\ x.family = f[i].family
      /\ x.action = f[i].action
  BY <1>1 DEF FateRec
<1> HIDE DEF x
<1>3. /\ g \in Seq(FateRec) /\ Len(g) = Len(f) /\ g[i] = x
      /\ \A k \in 1 .. Len(f) : k # i => g[k] = f[k]
  BY <1>2
<1>4. g \in Seq(FateRec) /\ Became(f, g, i, "open")
  <2> HIDE DEF g
  <2> QED
    BY <1>2, <1>3 DEF Became
<1> QED
  BY <1>4 DEF x

LEMMA BecameClosed ==
    ASSUME NEW f \in Seq(FateRec), NEW i \in 1 .. Len(f), NEW result \in Results
    PROVE  LET g == [f EXCEPT ![i].status = "closed", ![i].result = result]
           IN  g \in Seq(FateRec) /\ Became(f, g, i, "closed")
<1> DEFINE y == [f[i] EXCEPT !.status = "closed"]
           x == [y EXCEPT !.result = result]
           g == [f EXCEPT ![i] = x]
<1>1. f[i] \in FateRec
  OBVIOUS
<1>2. /\ y \in FateRec /\ y.status = "closed" /\ y.verdict = f[i].verdict
      /\ y.wired = f[i].wired /\ y.votes = f[i].votes /\ y.family = f[i].family
      /\ y.action = f[i].action
  BY <1>1 DEF FateRec
<1> HIDE DEF y
<1>3. /\ x \in FateRec /\ x.status = "closed" /\ x.verdict = f[i].verdict
      /\ x.wired = f[i].wired /\ x.votes = f[i].votes /\ x.family = f[i].family
      /\ x.action = f[i].action
  BY <1>2 DEF FateRec
<1> HIDE DEF x
<1>4. /\ g \in Seq(FateRec) /\ Len(g) = Len(f) /\ g[i] = x
      /\ \A k \in 1 .. Len(f) : k # i => g[k] = f[k]
  BY <1>3
<1>5. g \in Seq(FateRec) /\ Became(f, g, i, "closed")
  <2> HIDE DEF g
  <2> QED
    BY <1>3, <1>4 DEF Became
<1>6. [f EXCEPT ![i].status = "closed", ![i].result = result] = g
  BY DEF x, y
<1> QED
  BY <1>5, <1>6

LEMMA TradesOpen ==
    ASSUME NEW h, NEW q, NEW r, NEW l, Consumed(h, q, r, l, l), h.op = "insert_trade_open",
           h.id \in Nat, NEW t, NEW f, SoundTrades(t, f, l, q), Is(f, h.id, "none"),
           NEW g, Became(f, g, h.id, "open")
    PROVE  /\ SoundTrades(InsertTradeOpen(t, h.id), g, l, r)
           /\ SoundTrades(t, g, l \cup {h}, r)
<1>1. \A x \in t : x.id # h.id
  BY DEF SoundTrades, Is
<1>2. \A j \in l \cup {h} : j.op = "update_trade_close" => j \in l /\ j.id # h.id
  BY DEF SoundTrades, Is
<1>3. ~In(l, "update_trade_close", h.id)
  BY <1>2 DEF In
<1>4. \A id : /\ In(l \cup {h}, "update_trade_close", id) <=> In(l, "update_trade_close", id)
              /\ In(r, "update_trade_close", id) <=> In(q, "update_trade_close", id)
  BY DEF Consumed, In
<1>5. \A i \in 1 .. Len(f) : i # h.id => g[i] = f[i]
  BY DEF Became
<1>6. Len(g) = Len(f) /\ h.id \in 1 .. Len(g) /\ g[h.id].status = "open"
  BY DEF Became
<1> DEFINE new == [id |-> h.id, outcome |-> "open", result |-> 0]
<1>7. new \in TradeRec /\ new.id = h.id /\ new.outcome = "open"
  BY DEF TradeRec
<1>8. InsertTradeOpen(t, h.id) = t \cup {new}
  BY <1>1 DEF InsertTradeOpen
<1> HIDE DEF new
<1>9. SoundTrades(t, g, l, r) /\ SoundTrades(t, g, l \cup {h}, r)
  BY <1>1, <1>2, <1>4, <1>5, <1>6 DEF SoundTrades, Is
<1>10. SoundTrades(t \cup {new}, g, l, r)
  BY <1>1, <1>6, <1>7, <1>9 DEF SoundTrades
<1> QED
  BY <1>8, <1>9, <1>10

LEMMA TradesClose ==
    ASSUME NEW h, NEW q, NEW r, Only(h, q, r), h.op = "update_trade_close", h.id \in Nat,
           NEW t, NEW f \in Seq(FateRec), NEW l, SoundTrades(t, f, l, q), Is(f, h.id, "closed")
    PROVE  /\ SoundTrades(UpdateTradeClose(t, h.id, f[h.id].result), f, l, r)
           /\ SoundTrades(t, f, l \cup {h}, r)
<1>1. \A id : /\ In(q, "update_trade_close", id) <=> id = h.id
              /\ ~In(r, "update_trade_close", id)
  BY DEF Only, In
<1>2. \A id : In(l \cup {h}, "update_trade_close", id) <=>
                 In(l, "update_trade_close", id) \/ id = h.id
  BY DEF In
<1>3. ~In(l, "update_trade_close", h.id)
  BY <1>1 DEF SoundTrades, In
<1>4. h.id \in 1 .. Len(f) /\ f[h.id].status = "closed"
  BY DEF Is
<1>5. SoundTrades(t, f, l \cup {h}, r)
  BY <1>1, <1>2, <1>4 DEF SoundTrades, Is
<1> DEFINE res == f[h.id].result
           Closed(x) == IF x.id = h.id
                        THEN [x EXCEPT !.outcome = SignOutcome(res), !.result = res] ELSE x
           u == UpdateTradeClose(t, h.id, res)
<1>6. u = {Closed(x) : x \in t}
  BY DEF UpdateTradeClose
<1>7. res \in Results \cup {0}
  <2>1. f[h.id] \in FateRec
    BY <1>4
  <2> QED
    BY <2>1 DEF FateRec
<1>8. SignOutcome(res) \in Outcomes
  BY DEF SignOutcome, Outcomes
<1> HIDE DEF res
<1>9. ASSUME NEW x \in t
      PROVE  /\ Closed(x) \in TradeRec /\ Closed(x).id = x.id
             /\ IF x.id = h.id THEN Closed(x).outcome = SignOutcome(res) ELSE Closed(x) = x
  <2>1. x \in TradeRec
    BY DEF SoundTrades
  <2> DEFINE y == [x EXCEPT !.outcome = SignOutcome(res), !.result = res]
  <2>2. y \in TradeRec /\ y.id = x.id /\ y.outcome = SignOutcome(res)
    BY <1>7, <1>8, <2>1 DEF TradeRec
  <2>3. Closed(x) = IF x.id = h.id THEN y ELSE x
    OBVIOUS
  <2> HIDE DEF y, Closed
  <2> QED
    BY <2>1, <2>2, <2>3
<1> HIDE DEF Closed, u
<1>10. \A y \in u : \E x \in t :
          y = Closed(x) /\ y \in TradeRec /\ y.id = x.id
          /\ IF x.id = h.id THEN y.outcome = SignOutcome(res) ELSE y = x
  BY <1>6, <1>9
<1>11. u \subseteq TradeRec
  BY <1>10
<1>12. \A y, z \in u : y.id = z.id => y = z
  <2> SUFFICES ASSUME NEW y \in u, NEW z \in u, y.id = z.id PROVE y = z
    OBVIOUS
  <2>1. PICK x \in t : y = Closed(x) /\ y.id = x.id
    BY <1>10
  <2>2. PICK w \in t : z = Closed(w) /\ z.id = w.id
    BY <1>10
  <2>3. x = w
    BY <2>1, <2>2 DEF SoundTrades
  <2> QED
    BY <2>1, <2>2, <2>3
<1>13. ASSUME NEW y \in u
       PROVE  /\ y.id \in 1 .. Len(f) /\ f[y.id].status # "none"
              /\ y.outcome = IF \/ f[y.id].status = "open"
                                \/ In(l, "update_trade_close", y.id)
                                \/ In(r, "update_trade_close", y.id)
                             THEN "open" ELSE SignOutcome(f[y.id].result)
  <2>1. PICK x \in t : /\ y.id = x.id
                       /\ IF x.id = h.id THEN y.outcome = SignOutcome(res) ELSE y = x
    BY <1>10
  <2>2. /\ y.id \in 1 .. Len(f) /\ f[y.id].status # "none"
        /\ x.outcome = IF \/ f[y.id].status = "open"
                          \/ In(l, "update_trade_close", y.id)
                          \/ In(q, "update_trade_close", y.id)
                       THEN "open" ELSE SignOutcome(f[y.id].result)
    BY <2>1 DEF SoundTrades
  <2>3. CASE y.id = h.id
    BY <1>1, <1>3, <1>4, <2>1, <2>2, <2>3 DEF res
  <2>4. CASE y.id # h.id
    BY <1>1, <2>1, <2>2, <2>4
  <2> QED
    BY <2>3, <2>4
<1>14. \A j \in l : j.op = "update_trade_close" =>
          Is(f, j.id, "closed") /\ ~In(r, "update_trade_close", j.id)
  BY <1>1 DEF SoundTrades
<1>15. SoundTrades(u, f, l, r)
  BY <1>11, <1>12, <1>13, <1>14 DEF SoundTrades
<1> QED
  BY <1>5, <1>15 DEF u, res

\* What the opening of a position leaves alone.
LEMMA OpenKeeps ==
    ASSUME NEW f, NEW g, NEW i, Became(f, g, i, "open"), Is(f, i, "none"),
           NEW l, NEW q, NEW b, NEW t, SoundTransitions(t, f, l, q, b),
           NEW c, NEW w, SoundDiagnoses(c, w, f, l, q)
    PROVE  SoundTransitions(t, g, l, q, b) /\ SoundDiagnoses(c, w, g, l, q)
<1>1. Len(g) = Len(f) /\ i \in 1 .. Len(f) /\ f[i].status = "none" /\ g[i].status = "open"
  BY DEF Became, Is
<1>2. \A k \in 1 .. Len(f) : /\ g[k].status = "closed" <=> f[k].status = "closed"
                             /\ g[k].action = f[k].action /\ g[k].wired = f[k].wired
  BY <1>1 DEF Became
<1>3. \A k : Is(g, k, "closed") <=> Is(f, k, "closed")
  BY <1>1, <1>2 DEF Is
<1>4. SoundTransitions(t, g, l, q, b)
  <2>1. \A k \in 1 .. Len(f) : RewardNow(g, l, q, k) = RewardNow(f, l, q, k)
    BY <1>2 DEF RewardNow
  <2>2. \A j \in q : j.op = "log_transition" =>
            j.id \in 1 .. Len(g) /\ "log" \in g[j.id].wired
    BY <1>1, <1>2 DEF SoundTransitions
  <2> QED
    BY <1>1, <1>2, <1>3, <2>1, <2>2 DEF SoundTransitions
<1>5. SoundDiagnoses(c, w, g, l, q)
  <2>1. \A id \in 1 .. Len(g) :
          Written(c, id) \/ Waits(w, id) <=>
              /\ g[id].status = "closed" /\ "diagnostics" \in g[id].wired
              /\ ~In(l, "diagnosis", id) /\ ~In(q, "update_trade_close", id)
    BY <1>1, <1>2 DEF SoundDiagnoses
  <2>2. \A j \in l : j.op = "diagnosis" =>
          Is(g, j.id, "closed") /\ ~In(q, "update_trade_close", j.id)
    BY <1>3 DEF SoundDiagnoses
  <2>3. /\ c \in Seq(DiagnosisRec) /\ w \subseteq DiagnosisRec
        /\ \A j, k \in 1 .. Len(c) : c[j].trade = c[k].trade => j = k
        /\ \A p, v \in w : p.trade = v.trade => p = v
        /\ \A p \in w : p.trade \in 1 .. Len(g) /\ ~Written(c, p.trade)
        /\ \A j \in 1 .. Len(c) : c[j].trade \in 1 .. Len(g)
    BY <1>1 DEF SoundDiagnoses
  <2> QED
    BY <2>1, <2>2, <2>3 DEF SoundDiagnoses
<1> QED
  BY <1>4, <1>5

LEMMA PositionsOpen ==
    ASSUME NEW o, NEW f, NEW l, NEW m, NEW b \in BOOLEAN, NEW s, SoundPositions(o, f, l, b, s),
           l \subseteq m, NEW g, NEW i \in Nat, Became(f, g, i, "open"), Is(f, i, "none"),
           f[i].wired = s, NEW n \in Nat
    PROVE  SoundPositions(o \cup {[id |-> i, bar |-> n,
                                   snap |-> IF b /\ "log" \in s /\ ~In(l, "log_transition", i)
                                            THEN i ELSE 0]},
                          g, m, b, s)
<1> DEFINE snap == IF b /\ "log" \in s /\ ~In(l, "log_transition", i) THEN i ELSE 0
           new == [id |-> i, bar |-> n, snap |-> snap]
<1>1. \A id : In(l, "log_transition", id) => In(m, "log_transition", id)
  BY DEF In
<1>2. new \in PositionRec /\ new.id = i /\ new.snap = snap
  BY DEF PositionRec
<1>3. b /\ "log" \in s /\ ~In(m, "log_transition", i) => snap = i
  BY <1>1
<1> HIDE DEF new, snap
<1>4. \A p \in o : p.id # i
  BY DEF SoundPositions, Is
<1>5. Is(g, i, "open") /\ g[i].wired = s
  BY DEF Became, Is
<1>6. \A p \in o : Is(g, p.id, "open") /\ g[p.id].wired = s
  BY <1>4 DEF SoundPositions, Is, Became
<1>7. SoundPositions(o \cup {new}, g, m, b, s)
  BY <1>1, <1>2, <1>3, <1>4, <1>5, <1>6 DEF SoundPositions
<1> QED
  BY <1>7 DEF new, snap

\* A queue with no position to open and no transition to log.
LEMMA QueueOpen ==
    ASSUME NEW q, NEW f, NEW s, SoundQueue(q, f, s), NEW g, NEW i, Became(f, g, i, "open"),
           Is(f, i, "none"),
           \A j \in ToSet(q) : j.op # "insert_trade_open" /\ ~(Rank[j.op] <= 7)
    PROVE  SoundQueue(q, g, s)
<1>1. \A k : Is(f, k, "closed") => Is(g, k, "closed") /\ g[k].wired = f[k].wired
  BY DEF Is, Became
<1>2. Len(g) = Len(f)
  BY DEF Became
<1> QED
  BY <1>1, <1>2 DEF SoundQueue

-----------------------------------------------------------------------------
(* A close: q and r the jobs to do before and after, i the proposal.       *)

CloseIs(q, r, i, reward) ==
    /\ \A j \in q : j.op \in {"exit", "on_bar"}
    /\ \A j \in r : j.op = "on_bar" \/ (Rank[j.op] \in 11 .. 19 /\ j.id = i)
    /\ In(r, "update_trade_close", i)
    /\ reward => In(r, "update_reward", i)

LEMMA CloseIn ==
    ASSUME NEW q, NEW r, NEW i, NEW reward, CloseIs(q, r, i, reward)
    PROVE  /\ \A id : /\ In(r, "update_trade_close", id) <=> id = i
                      /\ ~In(q, "update_trade_close", id) /\ ~In(q, "update_reward", id)
                      /\ ~In(q, "log_transition", id) /\ ~In(r, "log_transition", id)
                      /\ In(r, "update_reward", id) => id = i
           /\ \A j \in r : j.op # "log_transition"
<1>1. \A j \in r : j.op # "log_transition"
  BY RankIs DEF CloseIs
<1> QED
  BY <1>1 DEF CloseIs, In

LEMMA CloseKeeps ==
    ASSUME NEW q, NEW r, NEW i, NEW reward \in BOOLEAN, CloseIs(q, r, i, reward),
           NEW f, NEW g, Became(f, g, i, "closed"), Is(f, i, "open"),
           NEW l, NEW b, NEW t, SoundTrades(t, f, l, q),
           NEW u, SoundTransitions(u, f, l, q, b),
           b /\ "log" \in f[i].wired /\ ~In(l, "log_transition", i) => reward,
           NEW c, NEW w, SoundDiagnoses(c, w, f, l, q)
    PROVE  /\ SoundTrades(t, g, l, r) /\ SoundTransitions(u, g, l, r, b)
           /\ SoundDiagnoses(c, w, g, l, r)
<1>1. /\ \A id : /\ In(r, "update_trade_close", id) <=> id = i
                 /\ ~In(q, "update_trade_close", id) /\ ~In(q, "update_reward", id)
                 /\ ~In(q, "log_transition", id) /\ ~In(r, "log_transition", id)
                 /\ In(r, "update_reward", id) => id = i
      /\ \A j \in r : j.op # "log_transition"
  BY CloseIn
<1>2. Len(g) = Len(f) /\ i \in 1 .. Len(f) /\ f[i].status = "open" /\ g[i].status = "closed"
  BY DEF Became, Is
<1>3. \A k \in 1 .. Len(f) : k # i => g[k] = f[k]
  BY DEF Became
<1>4. g[i].action = f[i].action /\ g[i].wired = f[i].wired
  BY DEF Became
<1>5. \A k : Is(f, k, "closed") => Is(g, k, "closed") /\ k # i
  BY <1>2, <1>3 DEF Is
<1>6. SoundTrades(t, g, l, r)
  <2>1. ASSUME NEW x \in t
        PROVE  /\ x.id \in 1 .. Len(g) /\ g[x.id].status # "none"
               /\ x.outcome = IF \/ g[x.id].status = "open"
                                 \/ In(l, "update_trade_close", x.id)
                                 \/ In(r, "update_trade_close", x.id)
                              THEN "open" ELSE SignOutcome(g[x.id].result)
    <3>1. CASE x.id = i
      BY <1>1, <1>2, <3>1 DEF SoundTrades
    <3>2. CASE x.id # i
      BY <1>1, <1>2, <1>3, <3>2 DEF SoundTrades
    <3> QED
      BY <3>1, <3>2
  <2>2. \A j \in l : j.op = "update_trade_close" =>
            Is(g, j.id, "closed") /\ ~In(r, "update_trade_close", j.id)
    BY <1>1, <1>5 DEF SoundTrades
  <2>3. t \subseteq TradeRec /\ \A x, y \in t : x.id = y.id => x = y
    BY DEF SoundTrades
  <2> QED
    BY <2>1, <2>2, <2>3 DEF SoundTrades
<1>7. SoundTransitions(u, g, l, r, b)
  <2>1. ASSUME NEW x \in u
        PROVE  /\ x.id \in 1 .. Len(g) /\ b /\ "log" \in g[x.id].wired
               /\ ~In(l, "log_transition", x.id) /\ ~In(r, "log_transition", x.id)
               /\ x.reward = RewardNow(g, l, r, x.id)
    <3>1. /\ x.id \in 1 .. Len(f) /\ b /\ "log" \in f[x.id].wired
          /\ ~In(l, "log_transition", x.id)
          /\ x.reward = RewardNow(f, l, q, x.id)
      BY DEF SoundTransitions
    <3>2. CASE x.id = i
      <4>1. In(r, "update_reward", i)
        BY <3>1, <3>2 DEF CloseIs
      <4>2. x.reward = Unpaid(f[i].action)
        BY <1>2, <3>1, <3>2 DEF RewardNow
      <4> QED
        BY <1>1, <1>2, <1>4, <3>1, <3>2, <4>1, <4>2 DEF RewardNow
    <3>3. CASE x.id # i
      <4>1. g[x.id] = f[x.id]
        BY <1>3, <3>1, <3>3
      <4>2. ~In(q, "update_reward", x.id) /\ ~In(r, "update_reward", x.id)
        BY <1>1, <3>3
      <4> QED
        BY <1>1, <1>2, <3>1, <4>1, <4>2 DEF RewardNow
    <3> QED
      BY <3>2, <3>3
  <2>2. \A j \in l : j.op = "update_reward" =>
            Is(g, j.id, "closed") /\ ~In(r, "update_reward", j.id)
    BY <1>1, <1>5 DEF SoundTransitions
  <2>3. u \subseteq TransitionRec
    BY DEF SoundTransitions
  <2> QED
    BY <1>1, <2>1, <2>2, <2>3 DEF SoundTransitions
<1>8. SoundDiagnoses(c, w, g, l, r)
  <2>1. ASSUME NEW id \in 1 .. Len(g)
        PROVE  Written(c, id) \/ Waits(w, id) <=>
                  /\ g[id].status = "closed" /\ "diagnostics" \in g[id].wired
                  /\ ~In(l, "diagnosis", id) /\ ~In(r, "update_trade_close", id)
    <3>1. id \in 1 .. Len(f)
      BY <1>2
    <3>2. Written(c, id) \/ Waits(w, id) <=>
             /\ f[id].status = "closed" /\ "diagnostics" \in f[id].wired
             /\ ~In(l, "diagnosis", id) /\ ~In(q, "update_trade_close", id)
      BY <3>1 DEF SoundDiagnoses
    <3>3. CASE id = i
      BY <1>1, <1>2, <3>2, <3>3
    <3>4. CASE id # i
      BY <1>1, <1>3, <3>1, <3>2, <3>4
    <3> QED
      BY <3>3, <3>4
  <2>2. \A j \in l : j.op = "diagnosis" =>
            Is(g, j.id, "closed") /\ ~In(r, "update_trade_close", j.id)
    BY <1>1, <1>5 DEF SoundDiagnoses
  <2>3. /\ c \in Seq(DiagnosisRec) /\ w \subseteq DiagnosisRec
        /\ \A j, k \in 1 .. Len(c) : c[j].trade = c[k].trade => j = k
        /\ \A p, v \in w : p.trade = v.trade => p = v
        /\ \A p \in w : p.trade \in 1 .. Len(g) /\ ~Written(c, p.trade)
        /\ \A j \in 1 .. Len(c) : c[j].trade \in 1 .. Len(g)
    BY <1>2 DEF SoundDiagnoses
  <2> QED
    BY <2>1, <2>2, <2>3 DEF SoundDiagnoses
<1> QED
  BY <1>6, <1>7, <1>8

LEMMA PositionsClose ==
    ASSUME NEW o, NEW f, NEW l, NEW b, NEW s, SoundPositions(o, f, l, b, s),
           NEW p \in o, NEW g, Became(f, g, p.id, "closed")
    PROVE  SoundPositions(o \ {p}, g, l, b, s)
<1>1. \A x \in o \ {p} : x.id # p.id
  BY DEF SoundPositions
<1>2. \A x \in o \ {p} : Is(g, x.id, "open") /\ g[x.id].wired = s
  BY <1>1 DEF SoundPositions, Is, Became
<1> QED
  BY <1>1, <1>2 DEF SoundPositions

-----------------------------------------------------------------------------
(* The diagnoses.                                                          *)

WiredAt(f, i, s) == f[i].wired = s

LEMMA DiagnosesClose ==
    ASSUME NEW h, NEW q, NEW r, Only(h, q, r), h.op = "update_trade_close", h.id \in Nat,
           NEW l, NEW m, m = l \/ m = l \cup {h}, NEW f, Is(f, h.id, "closed"),
           NEW c, NEW w, SoundDiagnoses(c, w, f, l, q),
           NEW s, WiredAt(f, h.id, s)
    PROVE  SoundDiagnoses(c, IF "diagnostics" \in s THEN OnTradeClose(w, h.id) ELSE w, f, m, r)
<1> DEFINE new == [trade |-> h.id, bars |-> 0]
           v == IF "diagnostics" \in s THEN OnTradeClose(w, h.id) ELSE w
<1>1. \A id : /\ In(q, "update_trade_close", id) <=> id = h.id
              /\ ~In(r, "update_trade_close", id)
  BY DEF Only, In
<1>2. \A id : In(m, "diagnosis", id) <=> In(l, "diagnosis", id)
  BY DEF In
<1>3. ~In(l, "diagnosis", h.id)
  BY <1>1 DEF SoundDiagnoses, In
<1>4. h.id \in 1 .. Len(f) /\ f[h.id].status = "closed"
  BY DEF Is
<1>5. ~Written(c, h.id) /\ ~Waits(w, h.id)
  BY <1>1, <1>4 DEF SoundDiagnoses
<1>6. new \in DiagnosisRec /\ new.trade = h.id
  BY DEF DiagnosisRec
<1>7. v = IF "diagnostics" \in s THEN w \cup {new} ELSE w
  <2>1. {p \in w : p.trade # h.id} = w
    BY <1>5 DEF Waits
  <2> QED
    BY <2>1 DEF OnTradeClose
<1> HIDE DEF new, v
<1>8. \A id : Waits(v, id) <=> Waits(w, id) \/ ("diagnostics" \in s /\ id = h.id)
  BY <1>6, <1>7 DEF Waits
<1>9. ASSUME NEW id \in 1 .. Len(f)
      PROVE  Written(c, id) \/ Waits(v, id) <=>
                /\ f[id].status = "closed" /\ "diagnostics" \in f[id].wired
                /\ ~In(m, "diagnosis", id) /\ ~In(r, "update_trade_close", id)
  <2>1. Written(c, id) \/ Waits(w, id) <=>
           /\ f[id].status = "closed" /\ "diagnostics" \in f[id].wired
           /\ ~In(l, "diagnosis", id) /\ ~In(q, "update_trade_close", id)
    BY DEF SoundDiagnoses
  <2>2. CASE id = h.id
    BY <1>1, <1>2, <1>3, <1>4, <1>5, <1>8, <2>2 DEF WiredAt
  <2>3. CASE id # h.id
    BY <1>1, <1>2, <1>8, <2>1, <2>3
  <2> QED
    BY <2>2, <2>3
<1>10. /\ v \subseteq DiagnosisRec
       /\ \A p, x \in v : p.trade = x.trade => p = x
       /\ \A p \in v : p.trade \in 1 .. Len(f) /\ ~Written(c, p.trade)
  BY <1>4, <1>5, <1>6, <1>7 DEF SoundDiagnoses, Waits
<1>11. \A j \in m : j.op = "diagnosis" =>
          Is(f, j.id, "closed") /\ ~In(r, "update_trade_close", j.id)
  BY <1>1 DEF SoundDiagnoses
<1>12. /\ c \in Seq(DiagnosisRec)
       /\ \A j, k \in 1 .. Len(c) : c[j].trade = c[k].trade => j = k
       /\ \A j \in 1 .. Len(c) : c[j].trade \in 1 .. Len(f)
  BY DEF SoundDiagnoses
<1>13. SoundDiagnoses(c, v, f, m, r)
  BY <1>9, <1>10, <1>11, <1>12 DEF SoundDiagnoses
<1> QED
  BY <1>13 DEF v

\* A set whose elements have each their own number up to n is finite, and has as many
\* elements as there are such numbers.
LEMMA KeyedSet ==
    ASSUME NEW S, NEW n \in Nat, NEW k \in [S -> 1 .. n],
           \A x, y \in S : k[x] = k[y] => x = y
    PROVE  IsFiniteSet(S) /\ Cardinality(S) = Cardinality({k[x] : x \in S})
<1> DEFINE T == {k[x] : x \in S}
<1>1. T \subseteq 1 .. n /\ IsFiniteSet(1 .. n)
  BY FS_Interval
<1>2. IsFiniteSet(T)
  BY <1>1, FS_Subset
<1>3. k \in [S -> T] /\ \A y \in T : \E x \in S : k[x] = y
  OBVIOUS
<1>4. k \in Injection(S, T) /\ k \in Surjection(S, T)
  BY <1>3 DEF Injection, IsInjective, Surjection
<1> QED
  BY <1>2, <1>4, FS_Injection

\* The jobs that stand for records which could not be written, and those written instead.
Unwritten(x) == {Job("diagnosis", p.trade) : p \in x}
Left(d, x) == d \ x

LEMMA UnwrittenIs ==
    ASSUME NEW x, NEW l
    PROVE  /\ \A id : In(l \cup Unwritten(x), "diagnosis", id)
                         <=> In(l, "diagnosis", id) \/ Waits(x, id)
           /\ \A op : op # "diagnosis" =>
                 \A id : In(l \cup Unwritten(x), op, id) <=> In(l, op, id)
           /\ \A j \in Unwritten(x) : j.op = "diagnosis" /\ Waits(x, j.id)
<1>1. \A j : j \in Unwritten(x) <=> \E p \in x : j = Job("diagnosis", p.trade)
  BY DEF Unwritten
<1>2. \A id : Job("diagnosis", id).op = "diagnosis" /\ Job("diagnosis", id).id = id
  BY DEF Job
<1>3. \A j \in Unwritten(x) : j.op = "diagnosis" /\ Waits(x, j.id)
  BY <1>1, <1>2 DEF Waits
<1>4. \A id : Waits(x, id) => In(Unwritten(x), "diagnosis", id)
  BY <1>1, <1>2 DEF Waits, In
<1> QED
  BY <1>3, <1>4 DEF In

\* Nothing but the diagnoses minds them.
LEMMA UnwrittenKeeps ==
    ASSUME NEW x, NEW l
    PROVE  /\ \A t, f, q : SoundTrades(t, f, l, q) => SoundTrades(t, f, l \cup Unwritten(x), q)
           /\ \A t, f, q, bt : SoundTransitions(t, f, l, q, bt)
                                 => SoundTransitions(t, f, l \cup Unwritten(x), q, bt)
<1> DEFINE m == l \cup Unwritten(x)
<1>1. \A op : op # "diagnosis" => \A id : In(m, op, id) <=> In(l, op, id)
  BY UnwrittenIs
<1>2. \A j \in m : j.op # "diagnosis" => j \in l
  BY UnwrittenIs
<1> HIDE DEF m
<1>3. /\ \A id : In(m, "update_trade_close", id) <=> In(l, "update_trade_close", id)
      /\ \A id : In(m, "log_transition", id) <=> In(l, "log_transition", id)
      /\ \A id : In(m, "update_reward", id) <=> In(l, "update_reward", id)
  BY <1>1
<1>4. \A t, f, q : SoundTrades(t, f, l, q) => SoundTrades(t, f, m, q)
  <2> SUFFICES ASSUME NEW t, NEW f, NEW q, SoundTrades(t, f, l, q) PROVE SoundTrades(t, f, m, q)
    OBVIOUS
  <2>1. \A j \in m : j.op = "update_trade_close" => j \in l
    BY <1>2
  <2> QED
    BY <1>3, <2>1 DEF SoundTrades
<1>5. \A t, f, q, bt : SoundTransitions(t, f, l, q, bt) => SoundTransitions(t, f, m, q, bt)
  <2> SUFFICES ASSUME NEW t, NEW f, NEW q, NEW bt, SoundTransitions(t, f, l, q, bt)
               PROVE  SoundTransitions(t, f, m, q, bt)
    OBVIOUS
  <2>1. \A j \in m : j.op = "update_reward" => j \in l
    BY <1>2
  <2>2. \A id : RewardNow(f, m, q, id) = RewardNow(f, l, q, id)
    BY <1>3 DEF RewardNow
  <2> QED
    BY <1>3, <2>1, <2>2 DEF SoundTransitions
<1> QED
  BY <1>4, <1>5 DEF m

\* The records d of a leave memory: those of x are lost, the others written.
LEMMA DiagnosesWritten ==
    ASSUME NEW c, NEW w, NEW f, NEW l, NEW q, SoundDiagnoses(c, w, f, l, q), Len(f) \in Nat,
           NEW a \in SUBSET DiagnosisRec, \A id : Waits(a, id) <=> Waits(w, id),
           \A p, r \in a : p.trade = r.trade => p = r,
           NEW d \in SUBSET a, NEW x \in SUBSET d
    PROVE  SoundDiagnoses(Appended(c, d, x), Left(a, d), f, l \cup Unwritten(x), q)
<1> DEFINE y == Left(d, x)
           v == Left(a, d)
           g == l \cup Unwritten(x)
           z == SetToSeq(y)
           n == Cardinality(y)
           m == Len(c)
           e == c \o z
<1>1. \A p \in a : p.trade \in 1 .. Len(f) /\ ~Written(c, p.trade)
  BY DEF SoundDiagnoses, Waits
<1>2. /\ y \subseteq d /\ \A id : Waits(d, id) <=> Waits(y, id) \/ Waits(x, id)
      /\ v \subseteq a /\ \A id : Waits(a, id) <=> Waits(d, id) \/ Waits(v, id)
      /\ y \cap x = {} /\ v \cap d = {}
  BY DEF Waits, Left
<1> HIDE DEF y, v
<1>3. IsFiniteSet(y)
  <2> DEFINE k == [p \in y |-> p.trade]
  <2>1. k \in [y -> 1 .. Len(f)] /\ \A p, r \in y : k[p] = k[r] => p = r
    BY <1>2, <1>1
  <2> HIDE DEF k
  <2> QED
    BY <2>1, KeyedSet
<1>4. /\ n \in Nat /\ z \in [1 .. n -> y]
      /\ \A i, k \in 1 .. n : z[i] = z[k] => i = k
      /\ \A p \in y : \E i \in 1 .. n : z[i] = p
  BY <1>3, SetToSeqIs, FS_CardinalityType
<1> HIDE DEF z, n
<1>5. z \in Seq(DiagnosisRec) /\ Len(z) = n
  BY <1>2, <1>4
<1>6. c \in Seq(DiagnosisRec)
  BY DEF SoundDiagnoses
<1>7. /\ e \in Seq(DiagnosisRec) /\ Len(e) = m + n /\ m \in Nat
      /\ \A i \in 1 .. m + n : e[i] = IF i <= m THEN c[i] ELSE z[i - m]
  BY <1>4, <1>5, <1>6
<1> HIDE DEF e, m
<1>8. \A i \in 1 .. m + n : \/ i \in 1 .. m /\ e[i] = c[i]
                            \/ i - m \in 1 .. n /\ e[i] = z[i - m] /\ e[i] \in y
  BY <1>4, <1>7
<1>9. \A id : Written(e, id) <=> Written(c, id) \/ Waits(y, id)
  <2> SUFFICES ASSUME NEW id PROVE Written(e, id) <=> Written(c, id) \/ Waits(y, id)
    OBVIOUS
  <2>1. ASSUME Written(e, id) PROVE Written(c, id) \/ Waits(y, id)
    <3>1. PICK i \in 1 .. m + n : e[i].trade = id
      BY <1>7, <2>1 DEF Written
    <3> QED
      BY <1>8, <3>1 DEF Written, Waits, m
  <2>2. ASSUME Written(c, id) PROVE Written(e, id)
    <3>1. PICK i \in 1 .. m : c[i].trade = id
      BY <2>2 DEF Written, m
    <3>2. i \in 1 .. m + n /\ e[i] = c[i]
      BY <1>4, <1>7, <3>1
    <3> QED
      BY <1>7, <3>1, <3>2 DEF Written
  <2>3. ASSUME Waits(y, id) PROVE Written(e, id)
    <3>1. PICK i \in 1 .. n : z[i].trade = id
      BY <1>4, <2>3 DEF Waits
    <3>2. m + i \in 1 .. m + n /\ e[m + i] = z[i]
      BY <1>4, <1>7, <3>1
    <3> QED
      BY <1>7, <3>1, <3>2 DEF Written
  <2> QED
    BY <2>1, <2>2, <2>3
<1>10. \A i, k \in 1 .. Len(e) : e[i].trade = e[k].trade => i = k
  <2> SUFFICES ASSUME NEW i \in 1 .. m + n, NEW k \in 1 .. m + n, e[i].trade = e[k].trade
               PROVE  i = k
    BY <1>7
  <2>1. CASE i \in 1 .. m /\ e[i] = c[i] /\ k \in 1 .. m /\ e[k] = c[k]
    BY <2>1 DEF SoundDiagnoses, m
  <2>2. CASE i \in 1 .. m /\ e[i] = c[i] /\ e[k] \in y
    BY <1>2, <1>1, <2>2 DEF Written, m
  <2>3. CASE e[i] \in y /\ k \in 1 .. m /\ e[k] = c[k]
    BY <1>2, <1>1, <2>3 DEF Written, m
  <2>4. CASE /\ i - m \in 1 .. n /\ e[i] = z[i - m] /\ e[i] \in y
             /\ k - m \in 1 .. n /\ e[k] = z[k - m] /\ e[k] \in y
    <3>1. e[i] = e[k]
      BY <1>2, <2>4
    <3>2. i - m = k - m
      BY <1>4, <2>4, <3>1
    <3> QED
      BY <1>7, <3>2
  <2> QED
    BY <1>8, <2>1, <2>2, <2>3, <2>4
<1>11. /\ v \subseteq DiagnosisRec
       /\ \A p \in v : p.trade \in 1 .. Len(f) /\ ~Written(e, p.trade)
       /\ \A p, r \in v : p.trade = r.trade => p = r
  <2>1. \A p \in v : ~Waits(y, p.trade)
    BY <1>2 DEF Waits
  <2> QED
    BY <1>2, <1>1, <1>9, <2>1
<1>12. \A i \in 1 .. Len(e) : e[i].trade \in 1 .. Len(f)
  BY <1>2, <1>1, <1>7, <1>8 DEF SoundDiagnoses, m
<1>13. /\ \A id : Written(e, id) \/ Waits(v, id)
                     <=> (Written(c, id) \/ Waits(w, id)) /\ ~Waits(x, id)
       /\ \A id : In(g, "diagnosis", id) <=> In(l, "diagnosis", id) \/ Waits(x, id)
  <2>1. \A id : Waits(x, id) => ~Written(c, id) /\ ~Waits(y, id) /\ ~Waits(v, id)
    BY <1>2, <1>1 DEF Waits
  <2> QED
    BY <1>2, <1>9, <2>1, UnwrittenIs
<1>14. \A id \in 1 .. Len(f) :
          Written(e, id) \/ Waits(v, id) <=>
              /\ f[id].status = "closed" /\ "diagnostics" \in f[id].wired
              /\ ~In(g, "diagnosis", id) /\ ~In(q, "update_trade_close", id)
  BY <1>13 DEF SoundDiagnoses
<1>15. \A j \in g : j.op = "diagnosis" =>
          Is(f, j.id, "closed") /\ ~In(q, "update_trade_close", j.id)
  <2>1. \A j \in l : j.op = "diagnosis" =>
           Is(f, j.id, "closed") /\ ~In(q, "update_trade_close", j.id)
    BY DEF SoundDiagnoses
  <2>2. ASSUME NEW j \in Unwritten(x)
        PROVE  Is(f, j.id, "closed") /\ ~In(q, "update_trade_close", j.id)
    <3>1. Waits(x, j.id)
      BY <2>2, UnwrittenIs
    <3>2. Waits(w, j.id) /\ j.id \in 1 .. Len(f)
      BY <1>2, <1>1, <3>1 DEF Waits
    <3> QED
      BY <3>2 DEF SoundDiagnoses, Is
  <2> QED
    BY <2>1, <2>2
<1>16. SoundDiagnoses(e, v, f, g, q)
  BY <1>7, <1>10, <1>11, <1>12, <1>14, <1>15 DEF SoundDiagnoses
<1> QED
  BY <1>16 DEF e, z, v, y, Appended, Left

-----------------------------------------------------------------------------
(* The steps.                                                              *)

\* The head h of the queue, q and r the jobs to do before and after it.
LEMMA HeadTaken ==
    ASSUME IInv, work # <<>>
    PROVE  LET h == Head(work)
               q == ToSet(work)
               r == ToSet(Tail(work))
           IN  /\ SoundQueue(Tail(work), fate, session.wired)
               /\ h \in JobRec /\ h \in q /\ q = {h} \cup r
               /\ h.op \notin Repeated => Only(h, q, r)
               /\ \A j \in r : Rank[h.op] <= Rank[j.op]
               /\ h \notin r
               /\ Consumed(h, q, r, lost, lost) /\ Consumed(h, q, r, lost, lost \cup {h})
               /\ \A j \in lost \cup {h} : j.id \in Nat /\ j.id <= Len(fate)
<1> DEFINE h == Head(work)
           q == ToSet(work)
           r == ToSet(Tail(work))
<1>1. /\ SoundQueue(Tail(work), fate, session.wired)
      /\ h \in JobRec /\ h \in q /\ q = {h} \cup r
      /\ h.op \notin Repeated => \A j \in r : j.op # h.op
      /\ \A j \in r : Rank[h.op] <= Rank[j.op]
      /\ h \notin r
  BY Taken DEF IInv
<1>2. h.id \in Nat /\ h.id <= Len(fate)
  BY HeadIs DEF Id
<1>3. \A j \in lost : j.id \in Nat /\ j.id <= Len(fate)
  BY DEF IInv, RecordsType
<1> HIDE DEF h, q, r
<1> QED
  BY <1>1, <1>2, <1>3 DEF Only, Consumed, h, q, r

LEMMA LogTransitionKeeps == IInv /\ LogTransitionJob => IInv'
<1> SUFFICES ASSUME IInv, LogTransitionJob PROVE IInv'
  OBVIOUS
<1> DEFINE h == Head(work)
           q == ToSet(work)
           r == ToSet(Tail(work))
           new == LogTransition(tables.transitions, Id, fate[Id].action)
<1>1. work # <<>> /\ h.op = "log_transition"
  BY DEF LogTransitionJob, At
<1>2. /\ SoundQueue(Tail(work), fate, session.wired)
      /\ h \in JobRec /\ h \in q
      /\ h.op \notin Repeated => Only(h, q, r)
      /\ Consumed(h, q, r, lost, lost) /\ Consumed(h, q, r, lost, lost \cup {h})
      /\ \A j \in lost \cup {h} : j.id \in Nat /\ j.id <= Len(fate)
  BY <1>1, HeadTaken
<1>3. Only(h, q, r) /\ h.id \in Nat /\ Id = h.id
  BY <1>1, <1>2 DEF Repeated, JobRec, Id
<1>4. Is(fate, h.id, "none")
  <2>1. Rank["log_transition"] = 1
    BY RankIs
  <2> QED
    BY <1>1, <1>2, <2>1 DEF IInv, SoundQueue
<1>5. UNCHANGED <<backtest, session, fate, csv, bars, memory>>
  BY DEF LogTransitionJob, ground, counters
<1>6. /\ work' = Tail(work)
      /\ Has(tables', TableNames)
      /\ tables'.trades = tables.trades /\ tables'.trace = tables.trace
      /\ \/ tables'.transitions = new /\ lost' = lost
         \/ tables'.transitions = tables.transitions /\ lost' = lost \cup {h}
  <2>1. Has(tables, TableNames) /\ Statement("transitions", new)
    BY DEF IInv, RecordsType, LogTransitionJob
  <2> HIDE DEF new
  <2>2. "transitions" \in TableNames /\ "trades" \in TableNames /\ "trace" \in TableNames
    BY DEF TableNames
  <2> QED
    BY <2>1, <2>2, StatementIs
<1> HIDE DEF h, q, r
<1>7. /\ SoundTransitions(new, fate, lost, r, backtest)
      /\ SoundTransitions(tables.transitions, fate, lost \cup {h}, r, backtest)
  BY <1>1, <1>3, <1>4, TransitionsLog DEF IInv, q
<1> HIDE DEF new
<1>8. Consumed(h, q, r, lost, lost') /\ lost \subseteq lost'
  BY <1>2, <1>6
<1>9. SoundTransitions(tables'.transitions, fate', lost', r, backtest')
  BY <1>5, <1>6, <1>7
<1>10. SoundTrades(tables'.trades, fate', lost', r)
  BY <1>1, <1>5, <1>6, <1>8, TradesKeep DEF IInv, q
<1>11. SoundDiagnoses(csv', memory'.pending, fate', lost', r)
  BY <1>1, <1>5, <1>8, DiagnosesKeep DEF IInv, q
<1>12. SoundPositions(memory'.open, fate', lost', backtest', session'.wired)
  BY <1>5, <1>8, PositionsKeep DEF IInv
<1>13. RecordsType'
  BY <1>2, <1>5, <1>6 DEF IInv, RecordsType
<1>14. session'.up
  BY <1>1, <1>5 DEF IInv
<1>15. SoundQueue(work', fate', session'.wired) /\ ToSet(work') = r
  BY <1>2, <1>5, <1>6 DEF r
<1> QED
  BY <1>9, <1>10, <1>11, <1>12, <1>13, <1>14, <1>15 DEF IInv

LEMMA UpdateRewardKeeps == IInv /\ UpdateRewardJob => IInv'
<1> SUFFICES ASSUME IInv, UpdateRewardJob PROVE IInv'
  OBVIOUS
<1> DEFINE h == Head(work)
           q == ToSet(work)
           r == ToSet(Tail(work))
           new == UpdateReward(tables.transitions, Id, Id)
<1>1. work # <<>> /\ h.op = "update_reward"
  BY DEF UpdateRewardJob, At
<1>2. /\ SoundQueue(Tail(work), fate, session.wired)
      /\ h \in JobRec /\ h \in q
      /\ h.op \notin Repeated => Only(h, q, r)
      /\ Consumed(h, q, r, lost, lost) /\ Consumed(h, q, r, lost, lost \cup {h})
      /\ \A j \in lost \cup {h} : j.id \in Nat /\ j.id <= Len(fate)
  BY <1>1, HeadTaken
<1>3. Only(h, q, r) /\ h.id \in Nat /\ Id = h.id
  BY <1>1, <1>2 DEF Repeated, JobRec, Id
<1>4. Is(fate, h.id, "closed")
  <2>1. Rank[h.op] \in 11 .. 19
    BY <1>1, RankIs
  <2> QED
    BY <1>2, <2>1 DEF IInv, SoundQueue
<1>5. UNCHANGED <<backtest, session, fate, csv, bars, memory>>
  BY DEF UpdateRewardJob, ground, counters
<1>6. /\ work' = Tail(work)
      /\ Has(tables', TableNames)
      /\ tables'.trades = tables.trades /\ tables'.trace = tables.trace
      /\ \/ tables'.transitions = new /\ lost' = lost
         \/ tables'.transitions = tables.transitions /\ lost' = lost \cup {h}
  <2>1. Has(tables, TableNames) /\ Statement("transitions", new)
    BY DEF IInv, RecordsType, UpdateRewardJob
  <2> HIDE DEF new
  <2>2. "transitions" \in TableNames /\ "trades" \in TableNames /\ "trace" \in TableNames
    BY DEF TableNames
  <2> QED
    BY <2>1, <2>2, StatementIs
<1> HIDE DEF h, q, r
<1>7. /\ SoundTransitions(new, fate, lost, r, backtest)
      /\ SoundTransitions(tables.transitions, fate, lost \cup {h}, r, backtest)
  BY <1>1, <1>3, <1>4, TransitionsReward DEF IInv, q
<1> HIDE DEF new
<1>8. Consumed(h, q, r, lost, lost') /\ lost \subseteq lost'
  BY <1>2, <1>6
<1>9. SoundTransitions(tables'.transitions, fate', lost', r, backtest')
  BY <1>5, <1>6, <1>7
<1>10. SoundTrades(tables'.trades, fate', lost', r)
  BY <1>1, <1>5, <1>6, <1>8, TradesKeep DEF IInv, q
<1>11. SoundDiagnoses(csv', memory'.pending, fate', lost', r)
  BY <1>1, <1>5, <1>8, DiagnosesKeep DEF IInv, q
<1>12. SoundPositions(memory'.open, fate', lost', backtest', session'.wired)
  BY <1>5, <1>8, PositionsKeep DEF IInv
<1>13. RecordsType'
  BY <1>2, <1>5, <1>6 DEF IInv, RecordsType
<1>14. session'.up
  BY <1>1, <1>5 DEF IInv
<1>15. SoundQueue(work', fate', session'.wired) /\ ToSet(work') = r
  BY <1>2, <1>5, <1>6 DEF r
<1> QED
  BY <1>9, <1>10, <1>11, <1>12, <1>13, <1>14, <1>15 DEF IInv

LEMMA InsertTradeOpenKeeps == IInv /\ InsertTradeOpenJob => IInv'
<1> SUFFICES ASSUME IInv, InsertTradeOpenJob PROVE IInv'
  OBVIOUS
<1> DEFINE h == Head(work)
           q == ToSet(work)
           r == ToSet(Tail(work))
           new == InsertTradeOpen(tables.trades, Id)
           position == [id |-> Id, bar |-> bars,
                        snap |-> IF /\ backtest /\ "log" \in session.wired
                                    /\ ~In(lost, "log_transition", Id) THEN Id ELSE 0]
<1>1. work # <<>> /\ h.op = "insert_trade_open"
  BY DEF InsertTradeOpenJob, At
<1>2. /\ SoundQueue(Tail(work), fate, session.wired)
      /\ h \in JobRec /\ h \in q
      /\ h.op \notin Repeated => Only(h, q, r)
      /\ \A j \in r : Rank[h.op] <= Rank[j.op]
      /\ Consumed(h, q, r, lost, lost) /\ Consumed(h, q, r, lost, lost \cup {h})
      /\ \A j \in lost \cup {h} : j.id \in Nat /\ j.id <= Len(fate)
  BY <1>1, HeadTaken
<1>3. Only(h, q, r) /\ h.id \in Nat /\ Id = h.id
  BY <1>1, <1>2 DEF Repeated, JobRec, Id
<1>4. Is(fate, h.id, "none") /\ fate[h.id].wired = session.wired
  <2>1. Rank["insert_trade_open"] = 7
    BY RankIs
  <2> QED
    BY <1>1, <1>2, <2>1 DEF IInv, SoundQueue
<1>5. UNCHANGED <<backtest, session, csv, bars>>
  BY DEF InsertTradeOpenJob, counters
<1>6. /\ work' = Tail(work)
      /\ Has(tables', TableNames)
      /\ tables'.transitions = tables.transitions /\ tables'.trace = tables.trace
      /\ \/ tables'.trades = new /\ lost' = lost
         \/ tables'.trades = tables.trades /\ lost' = lost \cup {h}
  <2>1. Has(tables, TableNames) /\ Statement("trades", new)
    BY DEF IInv, RecordsType, InsertTradeOpenJob
  <2> HIDE DEF new
  <2>2. "transitions" \in TableNames /\ "trades" \in TableNames /\ "trace" \in TableNames
    BY DEF TableNames
  <2> QED
    BY <2>1, <2>2, StatementIs
<1>7. fate' \in Seq(FateRec) /\ Became(fate, fate', Id, "open")
  <2>1. fate \in Seq(FateRec) /\ Id \in 1 .. Len(fate)
    BY <1>3, <1>4 DEF IInv, RecordsType, Is
  <2>2. fate' = [fate EXCEPT ![Id].status = "open"]
    BY DEF InsertTradeOpenJob
  <2> QED
    BY <2>1, <2>2, BecameOpen
<1>8. /\ Has(memory', MemoryNames) /\ memory'.pending = memory.pending
      /\ memory'.open = memory.open \cup {position}
  <2>1. Has(memory, MemoryNames) /\ "open" \in MemoryNames /\ "pending" \in MemoryNames
    BY DEF IInv, RecordsType, MemoryNames
  <2>2. memory' = [memory EXCEPT !.open = memory.open \cup {position}]
    BY DEF InsertTradeOpenJob, Snapshot, Lost, In
  <2> HIDE DEF position
  <2> QED
    BY <2>1, <2>2, MemoryHas
<1> HIDE DEF h, q, r
<1>9. /\ SoundTrades(new, fate', lost, r) /\ SoundTrades(tables.trades, fate', lost \cup {h}, r)
  BY <1>1, <1>2, <1>3, <1>4, <1>7, TradesOpen DEF IInv, q
<1> HIDE DEF new
<1>10. Consumed(h, q, r, lost, lost') /\ lost \subseteq lost'
  BY <1>2, <1>6
<1>11. SoundTrades(tables'.trades, fate', lost', r)
  BY <1>6, <1>9
<1>12. /\ SoundTransitions(tables.transitions, fate, lost', r, backtest)
       /\ SoundDiagnoses(csv, memory.pending, fate, lost', r)
  BY <1>1, <1>10, TransitionsKeep, DiagnosesKeep DEF IInv, q
<1>13. /\ SoundTransitions(tables'.transitions, fate', lost', r, backtest')
       /\ SoundDiagnoses(csv', memory'.pending, fate', lost', r)
  BY <1>3, <1>4, <1>5, <1>6, <1>7, <1>8, <1>12, OpenKeeps
<1>14. SoundPositions(memory'.open, fate', lost', backtest', session'.wired)
  <2>1. /\ SoundPositions(memory.open, fate, lost, backtest, session.wired)
        /\ bars \in Nat /\ backtest \in BOOLEAN
    BY DEF IInv, RecordsType
  <2> QED
    BY <1>3, <1>4, <1>5, <1>7, <1>8, <1>10, <2>1, PositionsOpen
<1>15. RecordsType'
  <2>1. Len(fate') = Len(fate)
    BY <1>7 DEF Became
  <2> QED
    BY <1>2, <1>5, <1>6, <1>7, <1>8, <2>1 DEF IInv, RecordsType
<1>16. session'.up
  BY <1>1, <1>5 DEF IInv
<1>17. SoundQueue(work', fate', session'.wired) /\ ToSet(work') = r
  <2>1. \A j \in r : j.op # "insert_trade_open" /\ ~(Rank[j.op] <= 7)
    <3> SUFFICES ASSUME NEW j \in r PROVE j.op # "insert_trade_open" /\ ~(Rank[j.op] <= 7)
      OBVIOUS
    <3>1. Rank["insert_trade_open"] = 7 /\ "insert_trade_open" \in Ops
      BY RankIs
    <3>2. j.op \in Ops /\ Rank[j.op] \in Nat
      <4>1. j \in JobRec
        BY <1>2 DEF SoundQueue, Sorted, ToSet, r
      <4> QED
        BY <4>1, RankType DEF JobRec
    <3>3. j.op # "insert_trade_open" /\ Rank[j.op] >= 7
      BY <1>1, <1>2, <1>3, <3>1 DEF Only
    <3> QED
      BY <3>1, <3>2, <3>3, RankTells
  <2> QED
    BY <1>2, <1>3, <1>4, <1>5, <1>6, <1>7, <2>1, QueueOpen DEF r
<1> QED
  BY <1>11, <1>13, <1>14, <1>15, <1>16, <1>17 DEF IInv

LEMMA UpdateTradeCloseKeeps == IInv /\ UpdateTradeCloseJob => IInv'
<1> SUFFICES ASSUME IInv, UpdateTradeCloseJob PROVE IInv'
  OBVIOUS
<1> DEFINE h == Head(work)
           q == ToSet(work)
           r == ToSet(Tail(work))
           new == UpdateTradeClose(tables.trades, Id, fate[Id].result)
           waiting == IF "diagnostics" \in session.wired THEN OnTradeClose(memory.pending, Id)
                      ELSE memory.pending
<1>1. work # <<>> /\ h.op = "update_trade_close"
  BY DEF UpdateTradeCloseJob, At
<1>2. /\ SoundQueue(Tail(work), fate, session.wired)
      /\ h \in JobRec /\ h \in q
      /\ h.op \notin Repeated => Only(h, q, r)
      /\ Consumed(h, q, r, lost, lost) /\ Consumed(h, q, r, lost, lost \cup {h})
      /\ \A j \in lost \cup {h} : j.id \in Nat /\ j.id <= Len(fate)
  BY <1>1, HeadTaken
<1>3. Only(h, q, r) /\ h.id \in Nat /\ Id = h.id
  BY <1>1, <1>2 DEF Repeated, JobRec, Id
<1>4. Is(fate, h.id, "closed") /\ fate[h.id].wired = session.wired
  <2>1. Rank[h.op] \in 11 .. 19
    BY <1>1, RankIs
  <2> QED
    BY <1>2, <2>1 DEF IInv, SoundQueue
<1>5. UNCHANGED <<backtest, session, fate, csv, bars>>
  BY DEF UpdateTradeCloseJob, ground, counters
<1>6. /\ work' = Tail(work)
      /\ Has(tables', TableNames)
      /\ tables'.transitions = tables.transitions /\ tables'.trace = tables.trace
      /\ \/ tables'.trades = new /\ lost' = lost
         \/ tables'.trades = tables.trades /\ lost' = lost \cup {h}
  <2>1. Has(tables, TableNames) /\ Statement("trades", new)
    BY DEF IInv, RecordsType, UpdateTradeCloseJob
  <2> HIDE DEF new
  <2>2. "transitions" \in TableNames /\ "trades" \in TableNames /\ "trace" \in TableNames
    BY DEF TableNames
  <2> QED
    BY <2>1, <2>2, StatementIs
<1>7. /\ Has(memory', MemoryNames) /\ memory'.open = memory.open
      /\ memory'.pending = waiting
  <2>1. Has(memory, MemoryNames) /\ "open" \in MemoryNames /\ "pending" \in MemoryNames
    BY DEF IInv, RecordsType, MemoryNames
  <2>2. memory' = [memory EXCEPT !.pending = waiting]
    BY DEF UpdateTradeCloseJob
  <2> HIDE DEF waiting
  <2> QED
    BY <2>1, <2>2, MemoryHas
<1> HIDE DEF h, q, r
<1>8. /\ SoundTrades(new, fate, lost, r) /\ SoundTrades(tables.trades, fate, lost \cup {h}, r)
  <2>1. fate \in Seq(FateRec) /\ SoundTrades(tables.trades, fate, lost, q)
    BY DEF IInv, RecordsType, q
  <2> QED
    BY <1>1, <1>3, <1>4, <2>1, TradesClose
<1> HIDE DEF new
<1>9. Consumed(h, q, r, lost, lost') /\ lost \subseteq lost'
  BY <1>2, <1>6
<1>10. SoundTrades(tables'.trades, fate', lost', r)
  BY <1>5, <1>6, <1>8
<1>11. SoundTransitions(tables'.transitions, fate', lost', r, backtest')
  BY <1>1, <1>5, <1>6, <1>9, TransitionsKeep DEF IInv, q
<1>12. SoundDiagnoses(csv', memory'.pending, fate', lost', r)
  <2>1. /\ SoundDiagnoses(csv, memory.pending, fate, lost, q)
        /\ session.wired \in Stages
    BY DEF IInv, RecordsType, q
  <2>2. lost' = lost \/ lost' = lost \cup {h}
    BY <1>6
  <2> QED
    <3>1. WiredAt(fate, h.id, session.wired)
      BY <1>4 DEF WiredAt
    <3>2. SoundDiagnoses(csv, IF "diagnostics" \in session.wired THEN OnTradeClose(memory.pending, h.id)
                              ELSE memory.pending, fate, lost', r)
      BY <1>1, <1>3, <1>4, <2>1, <2>2, <3>1, DiagnosesClose
    <3> QED
      BY <1>3, <1>5, <1>7, <3>2
<1>13. SoundPositions(memory'.open, fate', lost', backtest', session'.wired)
  BY <1>5, <1>7, <1>9, PositionsKeep DEF IInv
<1>14. RecordsType'
  BY <1>2, <1>5, <1>6, <1>7 DEF IInv, RecordsType
<1>15. session'.up
  BY <1>1, <1>5 DEF IInv
<1>16. SoundQueue(work', fate', session'.wired) /\ ToSet(work') = r
  BY <1>2, <1>5, <1>6 DEF r
<1> QED
  BY <1>10, <1>11, <1>12, <1>13, <1>14, <1>15, <1>16 DEF IInv

\* Both jobs of the exit monitor and of the journal's bar leave the queue without a trace.
LEMMA BarJobTaken ==
    ASSUME IInv, work # <<>>, Head(work).op \in {"exit", "on_bar"}
    PROVE  LET r == ToSet(Tail(work))
           IN  /\ SoundQueue(Tail(work), fate, session.wired)
               /\ SoundTrades(tables.trades, fate, lost, r)
               /\ SoundTransitions(tables.transitions, fate, lost, r, backtest)
               /\ SoundDiagnoses(csv, memory.pending, fate, lost, r)
<1> DEFINE h == Head(work)
           q == ToSet(work)
           r == ToSet(Tail(work))
<1>1. SoundQueue(Tail(work), fate, session.wired) /\ Consumed(h, q, r, lost, lost)
  BY HeadTaken
<1> HIDE DEF h, q, r
<1>2. h.op \in {"exit", "on_bar"}
  BY DEF h
<1>3. /\ SoundTrades(tables.trades, fate, lost, r)
      /\ SoundTransitions(tables.transitions, fate, lost, r, backtest)
  BY <1>1, <1>2, TradesKeep, TransitionsKeep DEF IInv, q
<1>4. SoundDiagnoses(csv, memory.pending, fate, lost, r)
  BY <1>1, <1>2, DiagnosesKeep DEF IInv, q
<1> QED
  BY <1>1, <1>3, <1>4 DEF r

LEMMA KeepsPositionsKeeps == IInv /\ KeepsPositions => IInv'
<1> SUFFICES ASSUME IInv, KeepsPositions PROVE IInv'
  OBVIOUS
<1>1. work # <<>> /\ Head(work).op = "exit"
  BY DEF KeepsPositions, At
<1>2. work' = Tail(work)
      /\ UNCHANGED <<tables, memory, lost, backtest, session, fate, csv, bars>>
  BY DEF KeepsPositions, ground, counters
<1>3. session.up
  BY <1>1 DEF IInv
<1> QED
  BY <1>1, <1>2, <1>3, BarJobTaken DEF IInv, RecordsType

LEMMA OnBarKeeps ==
    ASSUME IInv, NEW failed \in SUBSET Finished(Aged(memory.pending)), OnBarJob(failed)
    PROVE  IInv'
<1> DEFINE a == Aged(memory.pending)
           d == Finished(a)
           r == ToSet(Tail(work))
<1>1. work # <<>> /\ Head(work).op = "on_bar"
  BY DEF OnBarJob, At
<1>2. /\ work' = Tail(work) /\ csv' = Appended(csv, d, failed)
      /\ lost' = lost \cup Unwritten(failed)
      /\ UNCHANGED <<tables, backtest, session, fate, bars>>
  BY DEF OnBarJob, counters, CsvAfterBar, WritesFail, Unwritten
<1>3. /\ Has(memory', MemoryNames) /\ memory'.open = memory.open
      /\ memory'.pending = Left(a, d)
  <2>1. Has(memory, MemoryNames) /\ "open" \in MemoryNames /\ "pending" \in MemoryNames
    BY DEF IInv, RecordsType, MemoryNames
  <2>2. memory' = [memory EXCEPT !.pending = Left(a, d)]
    BY DEF OnBarJob, AfterBar, Left
  <2> HIDE DEF a, d
  <2> QED
    BY <2>1, <2>2, MemoryHas
<1>4. session.up
  BY <1>1 DEF IInv
<1>5. memory.pending \subseteq DiagnosisRec /\ Len(fate) \in Nat
      /\ \A p, x \in memory.pending : p.trade = x.trade => p = x
  BY DEF IInv, RecordsType, SoundDiagnoses
<1> DEFINE Older(x) == [x EXCEPT !.bars = @ + 1]
<1>6. a = {Older(x) : x \in memory.pending} /\ d \subseteq a
      /\ \A x \in memory.pending : Older(x) \in DiagnosisRec /\ Older(x).trade = x.trade
  BY <1>5 DEF DiagnosisRec, Aged, Finished
<1>7. failed \in SUBSET d
  OBVIOUS
<1> HIDE DEF a, d, Older
<1>8. /\ a \subseteq DiagnosisRec /\ d \subseteq a
      /\ \A id : Waits(a, id) <=> Waits(memory.pending, id)
      /\ \A x, y \in a : x.trade = y.trade => x = y
  BY <1>5, <1>6 DEF Waits
<1>9. SoundDiagnoses(csv', memory'.pending, fate', lost', r)
  <2>1. SoundDiagnoses(csv, memory.pending, fate, lost, r)
    BY <1>1, BarJobTaken
  <2> HIDE DEF r
  <2>2. SoundDiagnoses(Appended(csv, d, failed), Left(a, d), fate,
                        lost \cup Unwritten(failed), r)
    BY <1>5, <1>8, <1>7, <2>1, DiagnosesWritten
  <2> QED
    BY <1>2, <1>3, <2>2
<1>10. RecordsType'
  <2>1. \A x \in a : x.trade \in 1 .. Len(fate)
    BY <1>8 DEF IInv, SoundDiagnoses, Waits
  <2>2. ASSUME NEW j \in Unwritten(failed) PROVE j.id \in 1 .. Len(fate)
    <3>1. Waits(failed, j.id)
      BY <2>2, UnwrittenIs
    <3> QED
      BY <1>8, <1>7, <2>1, <3>1 DEF Waits
  <2> QED
    BY <1>2, <1>3, <1>5, <2>2 DEF IInv, RecordsType
<1>11. /\ SoundTrades(tables'.trades, fate', lost', r)
       /\ SoundTransitions(tables'.transitions, fate', lost', r, backtest')
  BY <1>1, <1>2, BarJobTaken, UnwrittenKeeps
<1>12. SoundPositions(memory'.open, fate', lost', backtest', session'.wired)
  BY <1>2, <1>3, PositionsKeep DEF IInv
<1>13. SoundQueue(work', fate', session'.wired) /\ ToSet(work') = r
  BY <1>1, <1>2, BarJobTaken
<1>14. session'.up
  BY <1>2, <1>4
<1> QED
  BY <1>9, <1>10, <1>11, <1>12, <1>13, <1>14 DEF IInv

LEMMA ClosePositionKeeps ==
    ASSUME NEW p \in memory.open, NEW result \in Results, IInv, ClosePosition(p, result)
    PROVE  IInv'
<1> DEFINE h == Head(work)
           q == ToSet(work)
           k == ToSet(CloseJobs(p))
           u == ToSet(Tail(work))
<1>1. work # <<>> /\ h.op = "exit"
  BY DEF ClosePosition, At
<1>2. /\ SoundQueue(Tail(work), fate, session.wired)
      /\ h \in JobRec /\ h \in q /\ q = {h} \cup u
      /\ h.op \notin Repeated => Only(h, q, u)
      /\ \A j \in u : Rank[h.op] <= Rank[j.op]
  BY <1>1, HeadTaken
<1>3. /\ p \in PositionRec /\ Is(fate, p.id, "open") /\ fate[p.id].wired = session.wired
      /\ backtest /\ "log" \in session.wired /\ ~In(lost, "log_transition", p.id) =>
            p.snap = p.id
      /\ backtest \in BOOLEAN /\ session.wired \in Stages /\ fate \in Seq(FateRec)
  BY DEF IInv, RecordsType, SoundPositions
<1>4. p.id \in Nat /\ p.snap \in Nat /\ p.id \in 1 .. Len(fate)
  BY <1>3 DEF PositionRec, Is
<1>5. /\ Stretch(CloseJobs(p), 11, 19, p.id)
      /\ Job("update_trade_close", p.id) \in k
      /\ p.snap # 0 => Job("update_reward", p.id) \in k
      /\ \A j \in k : /\ j.op \in Learning => Needs(j.op) \in session.wired
                      /\ j.op \notin Repeated
      /\ \A op \in Learning \ {"calibrate"} : Needs(op) \in session.wired => Job(op, p.id) \in k
  BY <1>3, <1>4, CloseQueue
<1> HIDE DEF h, q, k, u
<1>6. \A j \in u : j.op = "on_bar"
  <2> SUFFICES ASSUME NEW j \in u PROVE j.op = "on_bar"
    OBVIOUS
  <2>1. Rank[j.op] <= 10 \/ j.op = "on_bar"
    BY <1>1, <1>2 DEF IInv, SoundQueue, q
  <2>2. j.op # "exit" /\ Rank[h.op] <= Rank[j.op] /\ Rank[h.op] = 10
    BY <1>1, <1>2, RankIs DEF Repeated, Only
  <2>3. j.op \in Ops
    <3>1. Tail(work) \in Seq(JobRec)
      BY <1>2 DEF SoundQueue, Sorted
    <3>2. j \in JobRec
      BY <3>1 DEF u, ToSet
    <3> QED
      BY <3>2 DEF JobRec
  <2>4. Rank[j.op] = 10 => j.op = "exit"
    BY <2>3, RankIs, RankTells
  <2>5. Rank[j.op] \in Nat
    BY <2>3, RankType
  <2> QED
    BY <2>1, <2>2, <2>4, <2>5
<1>7. \A j \in k : Rank[j.op] \in 11 .. 19 /\ j.id = p.id
  BY <1>5 DEF Stretch, k
<1>8. UNCHANGED <<backtest, session, tables, csv, lost, bars>>
  BY DEF ClosePosition, counters
<1>9. /\ work' = CloseJobs(p) \o Tail(work)
      /\ Sorted(work') /\ ToSet(work') = k \cup u
  <2>1. work' = CloseJobs(p) \o Tail(work)
    BY DEF ClosePosition
  <2>2. Sorted(CloseJobs(p)) /\ Sorted(Tail(work))
    BY <1>2, <1>5 DEF Stretch, SoundQueue
  <2>3. \A i \in k, j \in u : Before(i, j)
    BY <1>6, <1>7, RankIs DEF Before
  <2> QED
    BY <2>1, <2>2, <2>3, Joined DEF k, u
<1>10. fate' \in Seq(FateRec) /\ Became(fate, fate', p.id, "closed")
  <2>1. fate' = [fate EXCEPT ![p.id].status = "closed", ![p.id].result = result]
    BY DEF ClosePosition
  <2> QED
    BY <1>3, <1>4, <2>1, BecameClosed
<1>11. /\ Has(memory', MemoryNames) /\ memory'.pending = memory.pending
       /\ memory'.open = memory.open \ {p}
  <2> DEFINE x == RecordClosedTrade(memory.hist, result)
             o == memory.open \ {p}
             m == [memory EXCEPT !.open = o]
  <2>1. memory' = [m EXCEPT !.hist = x]
    BY DEF ClosePosition
  <2>2. Has(memory, MemoryNames)
    BY DEF IInv, RecordsType
  <2> HIDE DEF x, o
  <2>3. Has(m, MemoryNames) /\ m.pending = memory.pending /\ m.open = o
    BY <2>2, MemoryHas DEF MemoryNames
  <2> HIDE DEF m
  <2>4. Has(memory', MemoryNames) /\ memory'.pending = m.pending /\ memory'.open = m.open
    BY <2>1, <2>3 DEF Has, MemoryNames
  <2> QED
    BY <2>3, <2>4 DEF o
<1> DEFINE r == k \cup u
           reward == p.snap # 0
<1>12. CloseIs(q, r, p.id, reward)
  <2>1. \A j \in q : j.op \in {"exit", "on_bar"}
    BY <1>1, <1>2, <1>6
  <2>2. \A j \in r : j.op = "on_bar" \/ (Rank[j.op] \in 11 .. 19 /\ j.id = p.id)
    BY <1>6, <1>7
  <2>3. In(r, "update_trade_close", p.id) /\ (p.snap # 0 => In(r, "update_reward", p.id))
    BY <1>5 DEF In, Job
  <2> QED
    BY <2>1, <2>2, <2>3 DEF CloseIs
<1>13. /\ backtest /\ "log" \in fate[p.id].wired /\ ~In(lost, "log_transition", p.id) => reward
       /\ reward \in BOOLEAN
  BY <1>3, <1>4
<1> HIDE DEF r, reward
<1>14. /\ SoundTrades(tables.trades, fate', lost, r)
       /\ SoundTransitions(tables.transitions, fate', lost, r, backtest)
       /\ SoundDiagnoses(csv, memory.pending, fate', lost, r)
  <2>1. /\ SoundTrades(tables.trades, fate, lost, q)
        /\ SoundTransitions(tables.transitions, fate, lost, q, backtest)
        /\ SoundDiagnoses(csv, memory.pending, fate, lost, q)
    BY DEF IInv, q
  <2> QED
    BY <1>3, <1>10, <1>12, <1>13, <2>1, CloseKeeps
<1>15. SoundPositions(memory.open \ {p}, fate', lost, backtest, session.wired)
  BY <1>10, PositionsClose DEF IInv
<1>16. SoundQueue(work', fate', session.wired)
  <2>1. Is(fate', p.id, "closed") /\ fate'[p.id].wired = session.wired /\ Len(fate') = Len(fate)
    BY <1>3, <1>4, <1>10 DEF Is, Became
  <2>2. \A j \in u : j.id <= Len(fate)
    BY <1>2 DEF SoundQueue, u
  <2>3. ASSUME NEW j \in k \cup u
        PROVE  /\ j.id <= Len(fate')
               /\ Rank[j.op] < 10 => j.id # 0
               /\ Rank[j.op] \in 11 .. 19 => Is(fate', j.id, "closed")
                                             /\ fate'[j.id].wired = session.wired
               /\ j.op \in Learning => Needs(j.op) \in session.wired
               /\ ~(Rank[j.op] <= 7)
               /\ j.op \notin {"insert_trade_open", "exit", "calibrate"}
    <3>1. CASE j \in k
      <4>1. Rank[j.op] \in 11 .. 19 /\ j.id = p.id
        BY <1>7, <3>1
      <4>2. j.op \notin {"insert_trade_open", "exit", "calibrate"}
        BY <1>5, <3>1, <4>1, RankIs DEF Repeated
      <4> QED
        BY <1>4, <1>5, <2>1, <3>1, <4>1, <4>2
    <3>2. CASE j \in u
      <4>1. j.op = "on_bar" /\ j.id <= Len(fate')
        BY <1>6, <2>1, <2>2, <3>2
      <4>2. Rank["on_bar"] = 20 /\ "on_bar" \notin Learning
        BY RankIs DEF Learning
      <4> QED
        BY <4>1, <4>2
    <3> QED
      BY <3>1, <3>2
  <2>4. ASSUME NEW j \in k \cup u, j.op = "query_reviews"
        PROVE  In(k \cup u, "journal_attribution", j.id)
    <3>1. j \in k /\ j.id = p.id
      BY <1>6, <1>7, <2>4
    <3>2. Job("journal_attribution", p.id) \in k
      BY <1>5, <2>4, <3>1 DEF Learning, Needs
    <3> QED
      BY <3>1, <3>2 DEF In, Job
  <2> QED
    BY <1>9, <2>3, <2>4 DEF SoundQueue
<1>17. RecordsType'
  <2>1. Len(fate') = Len(fate)
    BY <1>10 DEF Became
  <2> QED
    BY <1>8, <1>10, <1>11, <2>1 DEF IInv, RecordsType
<1>18. session'.up
  BY <1>1, <1>8 DEF IInv
<1> QED
  BY <1>8, <1>9, <1>11, <1>14, <1>15, <1>16, <1>17, <1>18 DEF IInv, r

\* Jobs of other kinds leave the rows as sound as they were.
LEMMA MoreJobs ==
    ASSUME NEW q, NEW c,
           \A j \in c : j.op \notin {"update_trade_close", "update_reward", "log_transition"},
           NEW t, NEW x, NEW d, NEW w, NEW f, NEW l, NEW b,
           SoundTrades(t, f, l, q), SoundTransitions(x, f, l, q, b), SoundDiagnoses(d, w, f, l, q)
    PROVE  /\ SoundTrades(t, f, l, q \cup c)
           /\ SoundTransitions(x, f, l, q \cup c, b)
           /\ SoundDiagnoses(d, w, f, l, q \cup c)
<1>1. \A id : /\ In(q \cup c, "update_trade_close", id) <=> In(q, "update_trade_close", id)
              /\ In(q \cup c, "update_reward", id) <=> In(q, "update_reward", id)
              /\ In(q \cup c, "log_transition", id) <=> In(q, "log_transition", id)
  BY DEF In
<1>2. \A j \in q \cup c : j.op = "log_transition" => j \in q
  OBVIOUS
<1>3. SoundTrades(t, f, l, q \cup c)
  BY <1>1 DEF SoundTrades
<1>4. SoundTransitions(x, f, l, q \cup c, b)
  <2>1. \A id : RewardNow(f, l, q \cup c, id) = RewardNow(f, l, q, id)
    BY <1>1 DEF RewardNow
  <2> QED
    BY <1>1, <1>2, <2>1 DEF SoundTransitions
<1>5. SoundDiagnoses(d, w, f, l, q \cup c)
  BY <1>1 DEF SoundDiagnoses
<1> QED
  BY <1>3, <1>4, <1>5

LEMMA SingleJob ==
    ASSUME NEW g \in JobRec PROVE Sorted(<<g>>) /\ ToSet(<<g>>) = {g}
<1> DEFINE e == <<g>>
<1>1. e \in Seq(JobRec) /\ Len(e) = 1 /\ DOMAIN e = 1 .. 1 /\ e[1] = g
  OBVIOUS
<1> HIDE DEF e
<1>2. Sorted(e)
  BY <1>1 DEF Sorted
<1>3. ToSet(e) = {g}
  BY <1>1 DEF ToSet
<1> QED
  BY <1>2, <1>3 DEF e

\* The reviews found become updates that wait behind the attribution.
LEMMA ReviewsQueued ==
    ASSUME IInv, work # <<>>, Head(work).op = "query_reviews",
           work' = <<work[2]>> \o ForEachTrader("calibrate", Id, {x.trader : x \in ReviewsOf(tables.trace, Id)})
                   \o Tail(Tail(work))
    PROVE  /\ Sorted(work')
           /\ ToSet(work') = ToSet(Tail(work)) \cup
                  {Each("calibrate", Id, t) : t \in {x.trader : x \in ReviewsOf(tables.trace, Id)}}
           /\ \A j \in ToSet(Tail(work)) : j.op # "query_reviews" /\ j.op # "calibrate"
<1> DEFINE h == Head(work)
           v == Tail(work)
           g == Head(v)
           u == Tail(v)
           found == {x.trader : x \in ReviewsOf(tables.trace, Id)}
           c == ForEachTrader("calibrate", Id, found)
           calls == {Each("calibrate", Id, t) : t \in found}
<1>1. work # <<>> /\ h.op = "query_reviews" /\ work' = <<work[2]>> \o c \o u
  OBVIOUS
<1>2. /\ SoundQueue(v, fate, session.wired)
      /\ h \in JobRec /\ h \in ToSet(work) /\ ToSet(work) = {h} \cup ToSet(v)
      /\ h.op \notin Repeated => Only(h, ToSet(work), ToSet(v))
      /\ \A j \in ToSet(v) : Rank[h.op] <= Rank[j.op]
  BY <1>1, HeadTaken
<1>3. Id = h.id /\ Id \in Nat
  BY <1>2 DEF JobRec, Id
<1>4. Only(h, ToSet(work), ToSet(v))
  BY <1>1, <1>2 DEF Repeated
<1>5. PICK k \in ToSet(v) : k.op = "journal_attribution"
  <2>1. In(ToSet(work), "journal_attribution", h.id)
    BY <1>1, <1>2 DEF IInv, SoundQueue
  <2>2. PICK k \in ToSet(work) : k.op = "journal_attribution"
    BY <2>1 DEF In
  <2> QED
    BY <1>1, <1>2, <2>2
<1>6. v # <<>>
  BY <1>5, NoJobs
<1>7. /\ SoundQueue(u, fate, session.wired)
     /\ g \in JobRec /\ g \in ToSet(v) /\ ToSet(v) = {g} \cup ToSet(u)
     /\ \A j \in ToSet(u) : Rank[g.op] <= Rank[j.op] /\ Before(g, j)
  <2>1. SoundQueue(v, fate, session.wired) /\ Sorted(v)
    BY <1>2 DEF SoundQueue
  <2> HIDE DEF v
  <2>2. \A j \in ToSet(u) : Before(g, j)
    BY <1>6, <2>1, TailOf
  <2> QED
    BY <1>6, <2>1, <2>2, Taken
<1>8. work[2] = g
  <2>1. work \in Seq(JobRec) /\ v \in Seq(JobRec)
    BY <1>2 DEF IInv, SoundQueue, Sorted
  <2> QED
    BY <1>1, <1>6, <2>1
<1>9. g.op = "journal_attribution"
  <2>1. g.op \in Ops /\ h.op \in Ops /\ Rank["journal_attribution"] = 16
        /\ Rank["query_reviews"] = 15 /\ "journal_attribution" \in Ops
    BY <1>2, <1>7, RankIs DEF JobRec
  <2>2. Rank[g.op] \in Nat
    BY <2>1, RankType
  <2> HIDE DEF h, g, u, v
  <2>3. 15 <= Rank[g.op] /\ Rank[g.op] <= 16
    <3>1. Rank[h.op] <= Rank[g.op]
      BY <1>2, <1>7
    <3>2. k = g \/ k \in ToSet(u)
      BY <1>5, <1>7
    <3>3. Rank[g.op] <= Rank[k.op]
      BY <1>7, <2>2, <3>2
    <3> QED
      BY <1>1, <1>5, <2>1, <3>1, <3>3
  <2>4. Rank[g.op] # 15
    <3>1. g.op # h.op
      BY <1>4, <1>7 DEF Only
    <3> QED
      BY <1>1, <2>1, <3>1, RankTells
  <2>5. Rank[g.op] = 16
    BY <2>2, <2>3, <2>4
  <2> QED
    BY <2>1, <2>5, RankTells
<1>10. found \in SUBSET Traders
  <2>1. ASSUME NEW x \in ReviewsOf(tables.trace, Id) PROVE x.trader \in Traders
    <3>1. x \in TraceRec \cup ReviewRec /\ x.table = "trader_reviews"
      BY <2>1 DEF IInv, RecordsType, ReviewsOf
    <3>2. x \notin TraceRec
      BY <3>1 DEF TraceRec, TraceTables
    <3> QED
      BY <3>1, <3>2 DEF ReviewRec
  <2> QED
    BY <2>1
<1>11. Sorted(c) /\ ToSet(c) = calls
  <2>1. "calibrate" \in Repeated
    BY DEF Repeated
  <2> HIDE DEF found
  <2> QED
    BY <1>3, <1>10, <2>1, ForEachIs
<1>12. \A j \in ToSet(c) : j.op = "calibrate" /\ j.id = h.id
  <2>1. \A t : Each("calibrate", Id, t).op = "calibrate" /\ Each("calibrate", Id, t).id = Id
    BY DEF Each
  <2> HIDE DEF c, found
  <2> QED
    BY <1>3, <1>11, <2>1
<1> HIDE DEF h, v, g, u, c, calls, found
<1>13. \A j \in ToSet(u) : j.op \in Ops /\ Rank[j.op] \in Nat
  <2>1. u \in Seq(JobRec)
    BY <1>7 DEF SoundQueue, Sorted
  <2>2. \A j \in ToSet(u) : j \in JobRec
    BY <2>1 DEF ToSet
  <2> QED
    BY <2>2, RankType DEF JobRec
<1>14. /\ Sorted(<<g>> \o c) /\ ToSet(<<g>> \o c) = {g} \cup ToSet(c)
  <2>1. Sorted(<<g>>) /\ ToSet(<<g>>) = {g}
    BY <1>7, SingleJob
  <2>2. \A j \in ToSet(c) : Before(g, j)
    <3>1. Rank["journal_attribution"] < Rank["calibrate"]
      BY RankIs
    <3> QED
      BY <1>9, <1>12, <3>1 DEF Before
  <2> QED
    BY <1>11, <2>1, <2>2, Joined
<1>15. \A j \in ToSet(v) : j.op # "query_reviews" /\ j.op # "calibrate"
  BY <1>1, <1>2 DEF IInv, SoundQueue, Only, Repeated
<1>16. \A i \in ToSet(c), j \in ToSet(u) : Before(i, j)
  <2> SUFFICES ASSUME NEW i \in ToSet(c), NEW j \in ToSet(u) PROVE Before(i, j)
    OBVIOUS
  <2>1. i.op = "calibrate" /\ "calibrate" \in Ops /\ Rank["calibrate"] = 17 /\ Rank["journal_attribution"] = 16
    BY <1>12, RankIs
  <2>2. Rank[j.op] > 16
    BY <1>7, <1>9, <1>13, <2>1 DEF Before, Repeated
  <2>3. CASE Rank[j.op] = 17
    <3>1. j.op = "calibrate"
      BY <1>13, <2>1, <2>3, RankTells
    <3> QED
      BY <1>7, <1>15, <3>1
  <2>4. CASE Rank[j.op] # 17
    BY <1>13, <2>1, <2>2, <2>4 DEF Before
  <2> QED
    BY <2>3, <2>4
<1>17. Sorted(work') /\ ToSet(work') = ToSet(v) \cup ToSet(c)
  <2>1. Sorted(u)
    BY <1>7 DEF SoundQueue
  <2> DEFINE gc == <<g>> \o c
  <2>2. Sorted(gc) /\ ToSet(gc) = {g} \cup ToSet(c)
    BY <1>14
  <2>3. \A i \in ToSet(gc), j \in ToSet(u) : Before(i, j)
    BY <1>7, <1>16, <2>2
  <2> HIDE DEF gc
  <2>4. Sorted(gc \o u) /\ ToSet(gc \o u) = ToSet(gc) \cup ToSet(u)
    BY <2>1, <2>2, <2>3, Joined
  <2>5. work' = gc \o u
    BY <1>1, <1>8 DEF gc
  <2> QED
    BY <1>7, <2>2, <2>4, <2>5
<1> QED
  BY <1>11, <1>17, <1>15 DEF v, calls, found

\* The reviews found become updates that wait behind the attribution.
LEMMA QueryReviewsKeeps == IInv /\ QueryReviewsJob => IInv'
<1> SUFFICES ASSUME IInv, QueryReviewsJob PROVE IInv'
  OBVIOUS
<1> DEFINE h == Head(work)
           v == Tail(work)
           g == Head(v)
           u == Tail(v)
           found == {x.trader : x \in ReviewsOf(tables.trace, Id)}
           c == ForEachTrader("calibrate", Id, found)
           calls == {Each("calibrate", Id, t) : t \in found}
<1>1. work # <<>> /\ h.op = "query_reviews"
  BY DEF QueryReviewsJob, At
<1>2. /\ SoundQueue(v, fate, session.wired)
      /\ h \in JobRec /\ h \in ToSet(work) /\ ToSet(work) = {h} \cup ToSet(v)
      /\ h.op \notin Repeated => Only(h, ToSet(work), ToSet(v))
      /\ \A j \in ToSet(v) : Rank[h.op] <= Rank[j.op]
      /\ Consumed(h, ToSet(work), ToSet(v), lost, lost)
      /\ Consumed(h, ToSet(work), ToSet(v), lost, lost \cup {h})
      /\ \A j \in lost \cup {h} : j.id \in Nat /\ j.id <= Len(fate)
  BY <1>1, HeadTaken
<1>3. Id = h.id /\ Id \in Nat /\ Id <= Len(fate) /\ Is(fate, Id, "closed")
      /\ fate[Id].wired = session.wired
  <2>1. Rank[h.op] \in 11 .. 19
    BY <1>1, RankIs
  <2>2. h.id \in Nat /\ h.id <= Len(fate)
    BY <1>2
  <2> QED
    BY <1>2, <2>1, <2>2 DEF IInv, SoundQueue, Id
<1>4. UNCHANGED <<backtest, session, fate, csv, bars, memory, tables>>
  BY DEF QueryReviewsJob, ground, counters
<1>5. session.up
  BY <1>1 DEF IInv
<1>6. ASSUME NEW m, Consumed(h, ToSet(work), ToSet(v), lost, m)
      PROVE  /\ SoundTrades(tables.trades, fate, m, ToSet(v))
             /\ SoundTransitions(tables.transitions, fate, m, ToSet(v), backtest)
             /\ SoundDiagnoses(csv, memory.pending, fate, m, ToSet(v))
  <2> DEFINE q == ToSet(work)
             r == ToSet(v)
  <2>1. /\ SoundTrades(tables.trades, fate, lost, q)
        /\ SoundTransitions(tables.transitions, fate, lost, q, backtest)
        /\ SoundDiagnoses(csv, memory.pending, fate, lost, q)
    BY DEF IInv
  <2>2. Consumed(h, q, r, lost, m)
    BY <1>6
  <2> HIDE DEF q, r, h
  <2>3. SoundTrades(tables.trades, fate, m, r)
    BY <1>1, <2>1, <2>2, TradesKeep
  <2>4. SoundTransitions(tables.transitions, fate, m, r, backtest)
    BY <1>1, <2>1, <2>2, TransitionsKeep
  <2>5. SoundDiagnoses(csv, memory.pending, fate, m, r)
    BY <1>1, <2>1, <2>2, DiagnosesKeep
  <2> QED
    BY <2>3, <2>4, <2>5 DEF q, r
<1>7. CASE work' = v /\ lost' = lost \cup {h}
  <2>1. SoundPositions(memory.open, fate, lost \cup {h}, backtest, session.wired)
    BY PositionsKeep DEF IInv
  <2>2. RecordsType'
    BY <1>2, <1>4, <1>7 DEF IInv, RecordsType
  <2> QED
    BY <1>2, <1>4, <1>5, <1>6, <1>7, <2>1, <2>2 DEF IInv
<1>8. CASE work' = <<work[2]>> \o c \o u /\ lost' = lost
  <2>1. Sorted(work') /\ ToSet(work') = ToSet(v) \cup calls
    BY <1>1, <1>8, ReviewsQueued
  <2>2. \A j \in ToSet(v) : j.op # "query_reviews" /\ j.op # "calibrate"
    BY <1>1, <1>8, ReviewsQueued
  <2>3. \A j \in calls : j.op = "calibrate" /\ j.id = h.id
    BY <1>3 DEF Each
  <2> HIDE DEF h, v, g, u, c, calls, found
  <2>4. SoundQueue(work', fate, session.wired)
    <3>1. ASSUME NEW j \in calls
          PROVE  /\ j.id <= Len(fate) /\ j.id # 0
                 /\ Is(fate, j.id, "closed") /\ fate[j.id].wired = session.wired
                 /\ j.op = "calibrate" /\ ~(Rank[j.op] <= 7)
                 /\ Needs(j.op) \in session.wired
      <4>1. Rank["calibrate"] = 17
        BY RankIs
      <4>2. Needs("calibrate") \in session.wired
        BY <1>1, <1>2 DEF IInv, SoundQueue, Learning, Needs
      <4>3. j.op = "calibrate" /\ j.id = Id
        BY <1>3, <2>3
      <4>4. ~(Rank[j.op] <= 7)
        BY <4>1, <4>3
      <4>5. Is(fate, j.id, "closed") /\ fate[j.id].wired = session.wired
        BY <1>3, <4>3
      <4>6. j.id <= Len(fate) /\ j.id # 0
        BY <4>5 DEF Is
      <4> QED
        BY <4>2, <4>3, <4>4, <4>5, <4>6
    <3>2. \A j \in ToSet(v) \cup calls : j.op # "query_reviews"
      BY <2>3, <2>2
    <3>3. \A j \in ToSet(v) \cup calls : j.op # "exit"
      BY <1>1, <1>2, <2>3, RankIs
    <3> QED
      BY <1>2, <2>1, <3>1, <3>2, <3>3 DEF SoundQueue
  <2>5. /\ SoundTrades(tables.trades, fate, lost, ToSet(work'))
        /\ SoundTransitions(tables.transitions, fate, lost, ToSet(work'), backtest)
        /\ SoundDiagnoses(csv, memory.pending, fate, lost, ToSet(work'))
    <3>1. /\ SoundTrades(tables.trades, fate, lost, ToSet(v))
          /\ SoundTransitions(tables.transitions, fate, lost, ToSet(v), backtest)
          /\ SoundDiagnoses(csv, memory.pending, fate, lost, ToSet(v))
      BY <1>2, <1>6
    <3>2. \A j \in calls :
              j.op \notin {"update_trade_close", "update_reward", "log_transition"}
      BY <2>3
    <3>3. /\ SoundTrades(tables.trades, fate, lost, ToSet(v) \cup calls)
          /\ SoundTransitions(tables.transitions, fate, lost, ToSet(v) \cup calls, backtest)
          /\ SoundDiagnoses(csv, memory.pending, fate, lost, ToSet(v) \cup calls)
      BY <3>1, <3>2, MoreJobs
    <3> QED
      BY <2>1, <3>3
  <2>6. RecordsType'
    BY <1>4, <1>8 DEF IInv, RecordsType
  <2> QED
    BY <1>4, <1>5, <1>8, <2>4, <2>5, <2>6 DEF IInv
<1> QED
  BY <1>7, <1>8 DEF QueryReviewsJob, Fails, Succeeds

LEMMA EmptyQueue ==
    /\ \A f, s : SoundQueue(<<>>, f, s)
    /\ ToSet(<<>>) = {}
    /\ \A f, l, b, s : SoundPositions({}, f, l, b, s)
  BY NoJobs DEF SoundQueue, SoundPositions

LEMMA ForgottenIs ==
    Has(NoMemory, MemoryNames) /\ NoMemory.open = {} /\ NoMemory.pending = {}
  BY DEF NoMemory, Has, MemoryNames

LEMMA StartKeeps ==
    ASSUME NEW wired \in Stages, IInv, Start(wired) PROVE IInv'
<1>1. /\ session' = [up |-> TRUE, wired |-> wired]
      /\ UNCHANGED <<backtest, work, tables, csv, memory, fate, lost, bars>>
  BY DEF Start
<1>2. work = <<>> /\ memory.open = {}
  BY DEF Start, IInv
<1>3. session' \in [up : BOOLEAN, wired : Stages] /\ session'.up
  BY <1>1
<1>4. RecordsType'
  BY <1>1, <1>3 DEF IInv, RecordsType
<1>5. /\ SoundQueue(work', fate', session'.wired)
      /\ SoundPositions(memory'.open, fate', lost', backtest', session'.wired)
  BY <1>1, <1>2, EmptyQueue
<1> QED
  BY <1>1, <1>3, <1>4, <1>5 DEF IInv

LEMMA StopKeeps ==
    ASSUME IInv, NEW failed \in SUBSET memory.pending, Stop(failed) PROVE IInv'
<1> DEFINE w == memory.pending
<1>1. /\ work = <<>> /\ session' = [up |-> FALSE, wired |-> {}]
      /\ csv' = Appended(csv, w, failed) /\ memory' = NoMemory
      /\ lost' = lost \cup Unwritten(failed)
      /\ UNCHANGED <<backtest, work, tables, fate, bars>>
  BY DEF Stop, Flushed, WritesFail, Unwritten
<1>2. SoundDiagnoses(csv', {}, fate', lost', ToSet(work'))
  <2>1. SoundDiagnoses(csv, w, fate, lost, {}) /\ Len(fate) \in Nat
    <3>1. Len(fate) \in Nat
      BY DEF IInv, RecordsType
    <3>2. SoundDiagnoses(csv, w, fate, lost, ToSet(work))
      BY DEF IInv
    <3> QED
      BY <1>1, <3>1, <3>2, EmptyQueue
  <2>2. w \in SUBSET DiagnosisRec /\ \A x, y \in w : x.trade = y.trade => x = y
    BY <2>1 DEF SoundDiagnoses
  <2>3. failed \in SUBSET w
    OBVIOUS
  <2> HIDE DEF w
  <2>4. SoundDiagnoses(Appended(csv, w, failed), Left(w, w), fate, lost \cup Unwritten(failed), {})
    BY <2>1, <2>2, <2>3, DiagnosesWritten
  <2>5. Left(w, w) = {}
    BY DEF Left
  <2> QED
    BY <1>1, <2>4, <2>5, EmptyQueue
<1>3. session' \in [up : BOOLEAN, wired : Stages]
  BY <1>1 DEF Stages
<1>4. RecordsType'
  <2>1. \A x \in w : x.trade \in 1 .. Len(fate)
    BY DEF IInv, SoundDiagnoses
  <2>2. ASSUME NEW j \in Unwritten(failed) PROVE j.id \in 1 .. Len(fate)
    <3>1. Waits(failed, j.id)
      BY <2>2, UnwrittenIs
    <3> QED
      BY <2>1, <3>1 DEF Waits
  <2>3. Len(fate) \in Nat
    BY DEF IInv, RecordsType
  <2> QED
    BY <1>1, <1>3, <2>2, <2>3, ForgottenIs DEF IInv, RecordsType
<1>5. /\ SoundQueue(work', fate', session'.wired)
      /\ SoundPositions(memory'.open, fate', lost', backtest', session'.wired)
  BY <1>1, EmptyQueue, ForgottenIs
<1>6. /\ SoundTrades(tables'.trades, fate', lost', ToSet(work'))
      /\ SoundTransitions(tables'.transitions, fate', lost', ToSet(work'), backtest')
  BY <1>1, UnwrittenKeeps DEF IInv
<1> QED
  BY <1>1, <1>2, <1>4, <1>5, <1>6, ForgottenIs DEF IInv

LEMMA GenerateAllRecommendationsKeeps == IInv /\ GenerateAllRecommendations => IInv'
<1> SUFFICES ASSUME IInv, GenerateAllRecommendations PROVE IInv'
  OBVIOUS
<1>1. UNCHANGED <<work, memory, lost, backtest, session, fate, csv, bars>>
  BY DEF GenerateAllRecommendations, ground, counters
<1>2. \E x : tables' = [tables EXCEPT !.advice = x]
  BY DEF GenerateAllRecommendations
<1>3. /\ Has(tables', TableNames)
      /\ tables'.trades = tables.trades /\ tables'.transitions = tables.transitions
      /\ tables'.trace = tables.trace
  BY <1>2 DEF IInv, RecordsType, Has, TableNames
<1> QED
  BY <1>1, <1>3 DEF IInv, RecordsType

LEMMA QuietBarKeeps == IInv /\ QuietBar => IInv'
<1> SUFFICES ASSUME IInv, QuietBar PROVE IInv'
  OBVIOUS
<1>1. /\ work = <<>> /\ work' = BarEnds /\ bars' = bars + 1 /\ session.up
      /\ UNCHANGED <<backtest, session, tables, csv, memory, fate, lost>>
  BY DEF QuietBar
<1>2. Sorted(BarEnds) /\ ToSet(BarEnds) = {Job("exit", 0), Job("on_bar", 0)}
  BY BarEndsIs
<1>3. \A j \in ToSet(BarEnds) : j.op \in {"exit", "on_bar"} /\ j.id = 0
  BY <1>2 DEF Job
<1>4. SoundQueue(BarEnds, fate, session.wired)
  <2>1. Len(fate) \in Nat
    BY DEF IInv, RecordsType
  <2>2. Rank["exit"] = 10 /\ Rank["on_bar"] = 20
    BY RankIs
  <2>3. \A j \in ToSet(BarEnds) :
          /\ j.id <= Len(fate) /\ ~(Rank[j.op] < 10) /\ Rank[j.op] \notin 11 .. 19
          /\ ~(Rank[j.op] <= 7) /\ j.op \notin Learning
          /\ j.op \notin {"insert_trade_open", "query_reviews"}
          /\ Rank[j.op] <= 10 \/ j.op = "on_bar"
    BY <1>3, <2>1, <2>2 DEF Learning
  <2> QED
    BY <1>2, <2>3 DEF SoundQueue
<1>5. /\ SoundTrades(tables.trades, fate, lost, ToSet(BarEnds))
      /\ SoundTransitions(tables.transitions, fate, lost, ToSet(BarEnds), backtest)
      /\ SoundDiagnoses(csv, memory.pending, fate, lost, ToSet(BarEnds))
  <2> DEFINE c == ToSet(BarEnds)
  <2>1. /\ SoundTrades(tables.trades, fate, lost, {})
        /\ SoundTransitions(tables.transitions, fate, lost, {}, backtest)
        /\ SoundDiagnoses(csv, memory.pending, fate, lost, {})
    BY <1>1, EmptyQueue DEF IInv
  <2>2. \A j \in c : j.op \notin {"update_trade_close", "update_reward", "log_transition"}
    BY <1>3
  <2> HIDE DEF c
  <2>3. /\ SoundTrades(tables.trades, fate, lost, {} \cup c)
        /\ SoundTransitions(tables.transitions, fate, lost, {} \cup c, backtest)
        /\ SoundDiagnoses(csv, memory.pending, fate, lost, {} \cup c)
    BY <2>1, <2>2, MoreJobs
  <2>4. {} \cup c = c
    OBVIOUS
  <2> QED
    BY <2>3, <2>4 DEF c
<1>6. RecordsType'
  BY <1>1 DEF IInv, RecordsType
<1> QED
  BY <1>1, <1>4, <1>5, <1>6 DEF IInv

\* A crash: q the jobs left, w the diagnoses that wait, m what is lost with them.
LEMMA RowsAfterCrash ==
    ASSUME NEW q, NEW f, NEW l, NEW w, NEW t, NEW x, NEW b, NEW c,
           SoundTrades(t, f, l, q), SoundTransitions(x, f, l, q, b), SoundDiagnoses(c, w, f, l, q),
           \A j \in q : j.op # "diagnosis" /\ (j.op \in {"update_trade_close", "update_reward"}
                                               => Is(f, j.id, "closed")),
           NEW m, NEW d,
           \A j \in d : j.op = "diagnosis" /\ (In(q, "update_trade_close", j.id) \/ Waits(w, j.id)),
           \A id : In(q, "update_trade_close", id) \/ Waits(w, id) => In(d, "diagnosis", id),
           m = (l \cup q) \cup d
    PROVE  SoundTrades(t, f, m, {}) /\ SoundTransitions(x, f, m, {}, b) /\ SoundDiagnoses(c, {}, f, m, {})
<1>1. \A op, id : op # "diagnosis" => (In(m, op, id) <=> In(l, op, id) \/ In(q, op, id))
  BY DEF In
<1>2. \A op, id : ~In({}, op, id)
  BY DEF In
<1>3. \A id : In(m, "diagnosis", id) <=>
                 In(l, "diagnosis", id) \/ In(q, "update_trade_close", id) \/ Waits(w, id)
  BY DEF In
<1>4. \A j \in m : j.op # "diagnosis" => j \in l \/ j \in q
  OBVIOUS
<1>5. SoundTrades(t, f, m, {})
  <2>1. \A id : /\ In(m, "update_trade_close", id)
                      <=> In(l, "update_trade_close", id) \/ In(q, "update_trade_close", id)
                /\ ~In({}, "update_trade_close", id)
    BY <1>1, <1>2
  <2>2. \A j \in m : j.op = "update_trade_close" => Is(f, j.id, "closed")
    BY <1>4 DEF SoundTrades
  <2> QED
    BY <2>1, <2>2 DEF SoundTrades
<1>6. SoundTransitions(x, f, m, {}, b)
  <2>1. \A id : /\ In(m, "update_reward", id)
                      <=> In(l, "update_reward", id) \/ In(q, "update_reward", id)
                /\ ~In({}, "update_reward", id)
                /\ In(m, "log_transition", id)
                      <=> In(l, "log_transition", id) \/ In(q, "log_transition", id)
                /\ ~In({}, "log_transition", id)
    BY <1>1, <1>2
  <2>2. \A j \in m : j.op = "update_reward" => Is(f, j.id, "closed")
    BY <1>4 DEF SoundTransitions
  <2>3. \A id : RewardNow(f, m, {}, id) = RewardNow(f, l, q, id)
    BY <2>1 DEF RewardNow
  <2> QED
    BY <2>1, <2>2, <2>3 DEF SoundTransitions
<1>7. SoundDiagnoses(c, {}, f, m, {})
  <2>1. \A id \in 1 .. Len(f) : Waits(w, id) => ~Written(c, id) /\ f[id].status = "closed"
    BY DEF SoundDiagnoses, Waits
  <2>2. \A id \in 1 .. Len(f) :
          Written(c, id) \/ Waits({}, id) <=>
              /\ f[id].status = "closed" /\ "diagnostics" \in f[id].wired
              /\ ~In(m, "diagnosis", id) /\ ~In({}, "update_trade_close", id)
    <3>1. \A id : ~Waits({}, id)
      BY DEF Waits
    <3> QED
      BY <1>2, <1>3, <2>1, <3>1 DEF SoundDiagnoses
  <2>3. \A id : Waits(w, id) => id \in 1 .. Len(f)
    BY DEF SoundDiagnoses, Waits
  <2>4. \A id : In(q, "update_trade_close", id) => Is(f, id, "closed")
    BY DEF In
  <2>5. \A j \in m : j.op = "diagnosis" => Is(f, j.id, "closed")
    <3> SUFFICES ASSUME NEW j \in m, j.op = "diagnosis" PROVE Is(f, j.id, "closed")
      OBVIOUS
    <3>1. CASE j \in l
      BY <3>1 DEF SoundDiagnoses
    <3>2. CASE j \in d
      BY <2>1, <2>3, <2>4, <3>2 DEF Is
    <3> QED
      BY <3>1, <3>2
  <2>6. /\ c \in Seq(DiagnosisRec)
        /\ \A i, k \in 1 .. Len(c) : c[i].trade = c[k].trade => i = k
        /\ \A i \in 1 .. Len(c) : c[i].trade \in 1 .. Len(f)
    BY DEF SoundDiagnoses
  <2> QED
    BY <1>2, <2>2, <2>5, <2>6 DEF SoundDiagnoses
<1> QED
  BY <1>5, <1>6, <1>7

LEMMA CrashKeeps == IInv /\ Crash => IInv'
<1> SUFFICES ASSUME IInv, Crash PROVE IInv'
  OBVIOUS
<1> DEFINE q == ToSet(work)
           w == memory.pending
           due == {j.id : j \in {k \in q : k.op = "update_trade_close"}}
           d == {Job("diagnosis", id) : id \in due \cup {p.trade : p \in w}}
<1>1. /\ lost' = (lost \cup q) \cup d
      /\ session' = [up |-> FALSE, wired |-> {}]
      /\ work' = <<>> /\ memory' = NoMemory
      /\ UNCHANGED <<backtest, tables, csv, fate, bars>>
  BY DEF Crash, ToSet
<1>2. \A id : id \in due <=> In(q, "update_trade_close", id)
  BY DEF In
<1>3. \A id : id \in {p.trade : p \in w} <=> Waits(w, id)
  BY DEF Waits
<1>4. /\ \A j \in d : j.op = "diagnosis" /\ (In(q, "update_trade_close", j.id) \/ Waits(w, j.id))
      /\ \A id : In(q, "update_trade_close", id) \/ Waits(w, id) => In(d, "diagnosis", id)
  <2>1. \A id : Job("diagnosis", id).op = "diagnosis" /\ Job("diagnosis", id).id = id
    BY DEF Job
  <2> DEFINE ids == due \cup {p.trade : p \in w}
  <2>2. \A id : id \in ids <=> In(q, "update_trade_close", id) \/ Waits(w, id)
    BY <1>2, <1>3
  <2>3. d = {Job("diagnosis", id) : id \in ids}
    OBVIOUS
  <2> HIDE DEF d, ids
  <2>4. \A j \in d : j.op = "diagnosis" /\ j.id \in ids
    BY <2>1, <2>3
  <2>5. \A id \in ids : In(d, "diagnosis", id)
    BY <2>1, <2>3 DEF In
  <2> QED
    BY <2>2, <2>4, <2>5
<1> HIDE DEF due, d
<1>5. \A j \in q : /\ j.op \in Ops /\ j.id \in Nat /\ j.id <= Len(fate)
                   /\ (j.op \in {"update_trade_close", "update_reward"} => Is(fate, j.id, "closed"))
  <2>1. \A j \in q : j \in JobRec
    BY DEF IInv, SoundQueue, Sorted, ToSet
  <2>2. \A j \in q : j.op \in {"update_trade_close", "update_reward"} => Rank[j.op] \in 11 .. 19
    BY RankIs
  <2> QED
    BY <2>1, <2>2 DEF IInv, SoundQueue, JobRec
<1>6. \A j \in q : j.op # "diagnosis"
  BY <1>5, RankIs
<1> HIDE DEF q, w
<1>7. /\ SoundTrades(tables.trades, fate, lost, q)
      /\ SoundTransitions(tables.transitions, fate, lost, q, backtest)
      /\ SoundDiagnoses(csv, w, fate, lost, q)
  BY DEF IInv, q, w
<1>8. /\ SoundTrades(tables.trades, fate, lost', {})
      /\ SoundTransitions(tables.transitions, fate, lost', {}, backtest)
      /\ SoundDiagnoses(csv, {}, fate, lost', {})
  <2> DEFINE m == (lost \cup q) \cup d
  <2>1. m = (lost \cup q) \cup d
    OBVIOUS
  <2> HIDE DEF m
  <2>2. /\ SoundTrades(tables.trades, fate, m, {})
        /\ SoundTransitions(tables.transitions, fate, m, {}, backtest)
        /\ SoundDiagnoses(csv, {}, fate, m, {})
    BY <1>4, <1>5, <1>6, <1>7, <2>1, RowsAfterCrash
  <2> QED
    BY <1>1, <2>1, <2>2
<1>9. \A j \in lost' : j.id \in Nat /\ j.id <= Len(fate)
  <2>1. \A j \in lost : j.id \in Nat /\ j.id <= Len(fate)
    BY DEF IInv, RecordsType
  <2>2. ASSUME NEW j \in d PROVE j.id \in Nat /\ j.id <= Len(fate)
    <3>1. CASE In(q, "update_trade_close", j.id)
      BY <1>5, <3>1 DEF In
    <3>2. CASE Waits(w, j.id)
      BY <1>7, <3>2 DEF SoundDiagnoses, Waits, IInv, RecordsType
    <3> QED
      BY <1>4, <2>2, <3>1, <3>2
  <2> QED
    BY <1>1, <1>5, <2>1, <2>2
<1>10. session' \in [up : BOOLEAN, wired : Stages]
  BY <1>1 DEF Stages
<1>11. RecordsType'
  BY <1>1, <1>9, <1>10, ForgottenIs DEF IInv, RecordsType
<1>12. /\ SoundQueue(work', fate', session'.wired) /\ ToSet(work') = {}
       /\ SoundPositions(memory'.open, fate', lost', backtest', session'.wired)
  BY <1>1, EmptyQueue, ForgottenIs
<1>13. memory'.open = {} /\ memory'.pending = {}
  BY <1>1, ForgottenIs
<1> QED
  BY <1>1, <1>8, <1>11, <1>12, <1>13 DEF IInv

\* A proposal is made, of which nothing has become: c its jobs.
LEMMA RowsOfProposal ==
    ASSUME NEW f \in Seq(FateRec), NEW x \in FateRec, x.status = "none",
           NEW g, g = Append(f, x), NEW c, NEW l, NEW b,
           \A j \in l : j.id <= Len(f) /\ j.id \in Nat,
           \A j \in c : /\ j.op \notin {"update_trade_close", "update_reward"}
                        /\ j.op = "log_transition" => b /\ j.id = Len(f) + 1 /\ "log" \in x.wired,
           NEW t, NEW y, NEW d, NEW w,
           SoundTrades(t, f, l, {}), SoundTransitions(y, f, l, {}, b), SoundDiagnoses(d, w, f, l, {})
    PROVE  SoundTrades(t, g, l, c) /\ SoundTransitions(y, g, l, c, b) /\ SoundDiagnoses(d, w, g, l, c)
<1> DEFINE n == Len(f)
<1>1. /\ n \in Nat /\ Len(g) = n + 1 /\ g[n + 1].status = "none" /\ g[n + 1] = x
      /\ \A i \in 1 .. n : g[i] = f[i] /\ i \in 1 .. n + 1 /\ i # n + 1
      /\ \A i \in 1 .. n + 1 : i \in 1 .. n \/ i = n + 1
  OBVIOUS
<1> HIDE DEF n
<1>2. /\ \A id : ~In({}, "update_trade_close", id) /\ ~In(c, "update_trade_close", id)
      /\ \A id : ~In({}, "update_reward", id) /\ ~In(c, "update_reward", id)
      /\ \A id : ~In({}, "log_transition", id) /\ (In(c, "log_transition", id) => id = n + 1)
  BY DEF In, n
<1>3. \A id, status : Is(f, id, status) => Is(g, id, status)
  BY <1>1 DEF Is, n
<1>4. \A op : ~In(l, op, n + 1)
  <2>1. \A j \in l : j.id # n + 1
    BY <1>1 DEF n
  <2> QED
    BY <2>1 DEF In
<1>5. SoundTrades(t, g, l, c)
  <2>1. \A r \in t : r.id \in 1 .. n
    BY DEF SoundTrades, n
  <2> QED
    BY <1>1, <1>2, <1>3, <2>1 DEF SoundTrades
<1>6. SoundTransitions(y, g, l, c, b)
  <2>1. \A r \in y : r.id \in 1 .. n
    BY DEF SoundTransitions, n
  <2>2. ASSUME NEW j \in c, j.op = "log_transition"
        PROVE  /\ b /\ j.id \in 1 .. Len(g) /\ "log" \in g[j.id].wired
               /\ ~In(l, "log_transition", j.id)
    <3>1. b /\ j.id = n + 1 /\ "log" \in x.wired
      BY <2>2 DEF n
    <3> QED
      BY <1>1, <1>4, <3>1
  <2>3. \A id \in 1 .. n : RewardNow(g, l, c, id) = RewardNow(f, l, {}, id)
    BY <1>1, <1>2 DEF RewardNow
  <2> QED
    BY <1>1, <1>2, <1>3, <2>1, <2>2, <2>3 DEF SoundTransitions
<1>7. SoundDiagnoses(d, w, g, l, c)
  <2>1. /\ \A i \in 1 .. Len(d) : d[i].trade \in 1 .. n
        /\ \A p \in w : p.trade \in 1 .. n
    BY DEF SoundDiagnoses, n
  <2>2. ~Written(d, n + 1) /\ ~Waits(w, n + 1)
    BY <1>1, <2>1 DEF Written, Waits
  <2>3. ASSUME NEW id \in 1 .. n + 1
        PROVE  Written(d, id) \/ Waits(w, id) <=>
                  /\ g[id].status = "closed" /\ "diagnostics" \in g[id].wired
                  /\ ~In(l, "diagnosis", id) /\ ~In(c, "update_trade_close", id)
    <3>1. CASE id = n + 1
      BY <1>1, <2>2, <3>1
    <3>2. CASE id \in 1 .. n
      BY <1>1, <1>2, <3>2 DEF SoundDiagnoses, n
    <3> QED
      BY <1>1, <3>1, <3>2
  <2> QED
    BY <1>1, <1>2, <1>3, <2>1, <2>3 DEF SoundDiagnoses
<1> QED
  BY <1>5, <1>6, <1>7

LEMMA ProposalBarKeeps ==
    ASSUME NEW action \in Actions, NEW verdict \in {"hold", "reject", "enter"},
           NEW votes \in Panels, NEW family \in Families, IInv,
           ProposalBar(action, verdict, votes, family)
    PROVE  IInv'
<1> DEFINE x == [action |-> action, verdict |-> verdict, status |-> "none", result |-> 0,
                 votes |-> votes, family |-> family, wired |-> session.wired]
           n == Len(fate) + 1
           a == EvaluationJobs(n, verdict)
           c == ToSet(a)
           e == ToSet(BarEnds)
<1>1. /\ work = <<>> /\ work' = a \o BarEnds /\ fate' = Append(fate, x) /\ session.up
      /\ bars' = bars + 1
      /\ UNCHANGED <<backtest, session, tables, csv, memory, lost>>
  BY DEF ProposalBar
<1>2. fate \in Seq(FateRec) /\ backtest \in BOOLEAN /\ session.wired \in Stages
  BY DEF IInv, RecordsType
<1>3. x \in FateRec /\ x.status = "none" /\ x.verdict = verdict /\ x.wired = session.wired
  BY <1>2 DEF FateRec
<1>4. n \in Nat
  BY <1>2
<1>5. /\ Stretch(a, 1, 9, n)
      /\ \A j \in c : /\ j.op = "log_transition" => backtest /\ "log" \in session.wired
                      /\ j.op = "insert_trade_open" => verdict = "enter"
  BY <1>2, <1>4, EvaluationQueue
<1>6. Sorted(BarEnds) /\ e = {Job("exit", 0), Job("on_bar", 0)}
  BY BarEndsIs
<1>7. \A j \in e : j.op \in {"exit", "on_bar"} /\ j.id = 0
  BY <1>6 DEF Job
<1>8. Rank["exit"] = 10 /\ Rank["on_bar"] = 20
  BY RankIs
<1> HIDE DEF x, a, c, e
<1>9. /\ fate' \in Seq(FateRec) /\ Len(fate') = n /\ fate'[n] = x
      /\ \A i \in 1 .. Len(fate) : fate'[i] = fate[i]
  BY <1>1, <1>2, <1>3
<1>10. Sorted(a) /\ \A j \in c : Rank[j.op] \in 1 .. 9 /\ j.id = n
  BY <1>5 DEF Stretch, c
<1>11. Sorted(work') /\ ToSet(work') = c \cup e
  <2>1. \A i \in c, j \in e : Before(i, j)
    BY <1>7, <1>8, <1>10 DEF Before
  <2> QED
    BY <1>1, <1>6, <1>10, <2>1, Joined DEF c, e
<1>12. ASSUME NEW j \in c
       PROVE  /\ j.op \notin {"update_trade_close", "update_reward", "query_reviews", "exit", "on_bar"}
              /\ j.op \notin Learning
  <2>1. /\ Rank["update_trade_close"] = 14 /\ Rank["update_reward"] = 11
        /\ Rank["query_reviews"] = 15
    BY RankIs
  <2>2. Rank[j.op] \in 1 .. 9
    BY <1>10, <1>12
  <2> QED
    BY <1>8, <2>1, <2>2, RankLearning
<1>13. SoundQueue(work', fate', session'.wired)
  <2>1. Is(fate', n, "none") /\ fate'[n].verdict = verdict /\ fate'[n].wired = session.wired
    BY <1>2, <1>3, <1>9 DEF Is
  <2>2. \A j \in c : /\ j.id = n /\ n # 0 /\ n <= Len(fate') /\ Rank[j.op] \notin 11 .. 19
                     /\ Rank[j.op] <= 10
                     /\ j.op = "insert_trade_open" => fate'[n].verdict = "enter"
    <3>1. n # 0 /\ n <= Len(fate')
      BY <1>2, <1>9
    <3> HIDE DEF n
    <3>2. \A j \in c : Rank[j.op] \notin 11 .. 19 /\ Rank[j.op] <= 10
      BY <1>10
    <3> QED
      BY <1>5, <1>10, <2>1, <3>1, <3>2
  <2>3. \A j \in e : /\ j.id <= Len(fate') /\ ~(Rank[j.op] < 10) /\ Rank[j.op] \notin 11 .. 19
                     /\ ~(Rank[j.op] <= 7) /\ j.op \notin Learning
                     /\ j.op \notin {"insert_trade_open", "query_reviews"}
                     /\ Rank[j.op] <= 10 \/ j.op = "on_bar"
    BY <1>2, <1>7, <1>8, <1>9 DEF Learning
  <2> QED
    BY <1>1, <1>11, <1>12, <2>1, <2>2, <2>3 DEF SoundQueue
<1>14. /\ SoundTrades(tables.trades, fate', lost, c \cup e)
       /\ SoundTransitions(tables.transitions, fate', lost, c \cup e, backtest)
       /\ SoundDiagnoses(csv, memory.pending, fate', lost, c \cup e)
  <2>1. /\ SoundTrades(tables.trades, fate, lost, {})
        /\ SoundTransitions(tables.transitions, fate, lost, {}, backtest)
        /\ SoundDiagnoses(csv, memory.pending, fate, lost, {})
    BY <1>1, EmptyQueue DEF IInv
  <2>2. \A j \in lost : j.id <= Len(fate) /\ j.id \in Nat
    BY DEF IInv, RecordsType
  <2>3. \A j \in c \cup e : /\ j.op \notin {"update_trade_close", "update_reward"}
                            /\ j.op = "log_transition" =>
                                  backtest /\ j.id = n /\ "log" \in x.wired
    BY <1>3, <1>5, <1>7, <1>10, <1>12
  <2> DEFINE ce == c \cup e
  <2> HIDE DEF ce
  <2>4. \A j \in ce : /\ j.op \notin {"update_trade_close", "update_reward"}
                      /\ j.op = "log_transition" =>
                            backtest /\ j.id = Len(fate) + 1 /\ "log" \in x.wired
    BY <2>3 DEF ce
  <2>5. /\ SoundTrades(tables.trades, fate', lost, ce)
        /\ SoundTransitions(tables.transitions, fate', lost, ce, backtest)
        /\ SoundDiagnoses(csv, memory.pending, fate', lost, ce)
    BY <1>1, <1>2, <1>3, <2>1, <2>2, <2>4, RowsOfProposal
  <2> QED
    BY <2>5 DEF ce
<1>15. SoundPositions(memory.open, fate', lost, backtest, session.wired)
  <2>1. \A p \in memory.open : p.id \in 1 .. Len(fate)
    BY DEF IInv, SoundPositions, Is
  <2>2. \A i \in 1 .. Len(fate) : i \in 1 .. Len(fate') /\ fate'[i] = fate[i]
    BY <1>2, <1>9
  <2> QED
    BY <2>1, <2>2 DEF IInv, SoundPositions, Is
<1>16. RecordsType'
  <2>1. \A j \in lost' : j.id \in Nat /\ j.id <= Len(fate')
    BY <1>1, <1>2, <1>9 DEF IInv, RecordsType
  <2> QED
    BY <1>1, <1>9, <2>1 DEF IInv, RecordsType
<1> QED
  BY <1>1, <1>11, <1>13, <1>14, <1>15, <1>16 DEF IInv

LEMMA RecordsInit == Init => IInv
<1> SUFFICES ASSUME Init PROVE IInv
  OBVIOUS
<1>1. /\ backtest \in BOOLEAN /\ session = [up |-> FALSE, wired |-> {}]
      /\ work = <<>> /\ csv = <<>> /\ memory = NoMemory /\ fate = <<>> /\ lost = {} /\ bars = 0
      /\ tables = [trades |-> {}, events |-> {}, trace |-> {}, transitions |-> {},
                   attributions |-> <<>>, evaluators |-> {}, advice |-> {},
                   calibration |-> [t \in Traders |-> FreshCalibration],
                   families |-> [f \in Families |-> FreshFamily]]
  BY DEF Init
<1>2. /\ Has(tables, TableNames) /\ tables.trades = {} /\ tables.transitions = {}
      /\ tables.trace = {}
  BY <1>1 DEF Has, TableNames
<1>3. session \in [up : BOOLEAN, wired : Stages]
  BY <1>1 DEF Stages
<1> DEFINE e == <<>>
<1>4. csv = e /\ fate = e /\ e \in Seq(DiagnosisRec) /\ e \in Seq(FateRec) /\ Len(e) = 0
  BY <1>1
<1> HIDE DEF e
<1>5. RecordsType
  BY <1>1, <1>2, <1>3, <1>4, ForgottenIs DEF RecordsType
<1>6. /\ SoundQueue(work, fate, session.wired) /\ ToSet(work) = {}
      /\ SoundPositions(memory.open, fate, lost, backtest, session.wired)
  BY <1>1, EmptyQueue, ForgottenIs
<1>7. SoundTrades({}, fate, {}, {})
  BY DEF SoundTrades
<1>8. SoundTransitions({}, fate, {}, {}, backtest)
  BY DEF SoundTransitions
<1>9. SoundDiagnoses(csv, {}, fate, {}, {})
  BY <1>4 DEF SoundDiagnoses
<1> QED
  BY <1>1, <1>2, <1>5, <1>6, <1>7, <1>8, <1>9, ForgottenIs DEF IInv

LEMMA RecordsStep == IInv /\ [Next]_vars => IInv'
<1> SUFFICES ASSUME IInv, [Next]_vars PROVE IInv'
  OBVIOUS
<1>1. CASE \E wired \in Stages : Start(wired)
  BY <1>1, StartKeeps
<1>2. CASE \E failed \in SUBSET memory.pending : Stop(failed)
  BY <1>2, StopKeeps
<1>3. CASE Crash
  BY <1>3, CrashKeeps
<1>4. CASE QuietBar
  BY <1>4, QuietBarKeeps
<1>5. CASE \E action \in Actions, verdict \in {"hold", "reject", "enter"},
              votes \in Panels, family \in Families : ProposalBar(action, verdict, votes, family)
  BY <1>5, ProposalBarKeeps
<1>6. CASE \/ InsertSetupPacketJob \/ InsertTraderReviewJob \/ InsertPanelSummaryJob
           \/ InsertFinalDecisionJob \/ JournalEventJob \/ InsertEvaluatorVerdictsJob
           \/ PanelAttributionJob \/ BackfillTradeIdJob \/ JournalAttributionJob
           \/ CalibrateJob \/ FamilyJob \/ UpdateEvaluatorOutcomesJob
  BY <1>6, PlainJobs, PlainKeeps
<1>7. CASE LogTransitionJob
  BY <1>7, LogTransitionKeeps
<1>8. CASE InsertTradeOpenJob
  BY <1>8, InsertTradeOpenKeeps
<1>9. CASE KeepsPositions
  BY <1>9, KeepsPositionsKeeps
<1>10. CASE \E position \in memory.open, result \in Results : ClosePosition(position, result)
  BY <1>10, ClosePositionKeeps
<1>11. CASE UpdateRewardJob
  BY <1>11, UpdateRewardKeeps
<1>12. CASE UpdateTradeCloseJob
  BY <1>12, UpdateTradeCloseKeeps
<1>13. CASE QueryReviewsJob
  BY <1>13, QueryReviewsKeeps
<1>14. CASE \E failed \in SUBSET Finished(Aged(memory.pending)) : OnBarJob(failed)
  BY <1>14, OnBarKeeps
<1>15. CASE GenerateAllRecommendations
  BY <1>15, GenerateAllRecommendationsKeeps
<1>16. CASE UNCHANGED vars
  BY <1>16 DEF vars, counters, IInv, RecordsType
<1> QED
  BY <1>1, <1>2, <1>3, <1>4, <1>5, <1>6, <1>7, <1>8, <1>9, <1>10, <1>11, <1>12, <1>13,
     <1>14, <1>15, <1>16 DEF Next

\* In every reachable state the queue is in the order of the bar and each of its jobs
\* speaks of a proposal it can speak of; every row of a trade, every position, every
\* transition and every diagnosis is what became of its proposal says it is, but for the
\* jobs that still wait and those that were lost.
THEOREM RecordsInvariant == Spec => []IInv
<1>1. Init => IInv
  BY RecordsInit
<1>2. IInv /\ [Next]_vars => IInv'
  BY RecordsStep
<1> QED
  BY <1>1, <1>2, PTL DEF Spec

-----------------------------------------------------------------------------
(* What the invariant says between two bars.                               *)

\* Rows, open positions and orphans have each their own proposal.
LEMMA OpenRowsCounted ==
    ASSUME IInv, AtRest
    PROVE  Overview(tables.trades).open =
               Cardinality({p \in memory.open : Recorded(p.id)})
               + Cardinality({id \in Proposals : Orphaned(id)})
<1> DEFINE n == Len(fate)
           rows == {r \in tables.trades : r.outcome = "open"}
           held == {p \in memory.open : Recorded(p.id)}
           orphans == {id \in Proposals : Orphaned(id)}
           rowOf == [r \in rows |-> r.id]
           heldOf == [p \in held |-> p.id]
           rowIds == {rowOf[r] : r \in rows}
           heldIds == {heldOf[p] : p \in held}
<1>1. n \in Nat /\ fate \in Seq(FateRec)
  BY DEF IInv, RecordsType
<1>2. /\ SoundTrades(tables.trades, fate, lost, {})
      /\ SoundPositions(memory.open, fate, lost, backtest, session.wired)
  BY EmptyQueue DEF IInv, AtRest
<1>3. \A r \in tables.trades :
          /\ r.id \in 1 .. n /\ (\A s \in tables.trades : r.id = s.id => r = s)
          /\ r.outcome = "open" <=> fate[r.id].status = "open" \/ Lost("update_trade_close", r.id)
  <2>1. \A r \in tables.trades :
          r.outcome = IF fate[r.id].status = "open" \/ In(lost, "update_trade_close", r.id)
                      THEN "open" ELSE SignOutcome(fate[r.id].result)
    BY <1>2 DEF SoundTrades, In
  <2>2. \A x : SignOutcome(x) # "open"
    BY DEF SignOutcome
  <2>3. \A id : Lost("update_trade_close", id) <=> In(lost, "update_trade_close", id)
    BY DEF Lost, In
  <2>4. \A r \in tables.trades :
          r.id \in 1 .. n /\ (\A s \in tables.trades : r.id = s.id => r = s)
    BY <1>2 DEF SoundTrades
  <2> QED
    BY <2>1, <2>2, <2>3, <2>4
<1>4. \A p \in memory.open :
          /\ p.id \in 1 .. n /\ (\A s \in memory.open : p.id = s.id => p = s)
          /\ fate[p.id].status = "open"
  BY <1>2 DEF SoundPositions, Is
<1>5. \A id : Lost("update_trade_close", id) => id \in 1 .. n /\ fate[id].status = "closed"
  BY <1>2 DEF SoundTrades, Lost, Is
<1>6. rowOf \in [rows -> 1 .. n] /\ \A r, s \in rows : rowOf[r] = rowOf[s] => r = s
  BY <1>3
<1>7. heldOf \in [held -> 1 .. n] /\ \A p, s \in held : heldOf[p] = heldOf[s] => p = s
  BY <1>4
<1>8. /\ \A id : id \in rowIds <=> \E r \in tables.trades : r.id = id /\ r.outcome = "open"
      /\ \A id : id \in heldIds <=> \E p \in memory.open : p.id = id /\ Recorded(id)
  OBVIOUS
<1> HIDE DEF n, rows, held, rowOf, heldOf, rowIds, heldIds
<1>9. Cardinality(rows) = Cardinality(rowIds) /\ Cardinality(held) = Cardinality(heldIds)
  BY <1>1, <1>6, <1>7, KeyedSet DEF rowIds, heldIds
<1>10. rowIds = heldIds \cup orphans /\ heldIds \cap orphans = {}
  <2>1. ASSUME NEW id
        PROVE  id \in rowIds <=> Recorded(id) /\ (fate[id].status = "open"
                                                  \/ Lost("update_trade_close", id))
    BY <1>3, <1>8 DEF Recorded
  <2>2. ASSUME NEW id, Recorded(id) PROVE id \in Proposals
    BY <1>3, <2>2 DEF Recorded, Proposals, n
  <2>3. ASSUME NEW id
        PROVE  id \in heldIds <=> Recorded(id) /\ fate[id].status = "open"
                                  /\ \E p \in memory.open : p.id = id
    BY <1>4, <1>8
  <2>4. ASSUME NEW id
        PROVE  id \in orphans <=>
                  /\ Recorded(id)
                  /\ \/ fate[id].status = "open" /\ ~ \E p \in memory.open : p.id = id
                     \/ Lost("update_trade_close", id)
    BY <2>2 DEF Orphaned
  <2>5. ASSUME NEW id PROVE ~(id \in heldIds /\ id \in orphans)
    BY <1>5, <2>3, <2>4
  <2> HIDE DEF orphans
  <2> QED
    BY <2>1, <2>3, <2>4, <2>5
<1>11. IsFiniteSet(heldIds) /\ IsFiniteSet(orphans)
  <2>1. IsFiniteSet(1 .. n)
    BY <1>1, FS_Interval
  <2>2. heldIds \subseteq 1 .. n
    BY <1>4, <1>8
  <2>3. orphans \subseteq 1 .. n
    BY DEF Proposals, n
  <2> QED
    BY <2>1, <2>2, <2>3, FS_Subset
<1> HIDE DEF orphans
<1>12. /\ Cardinality(heldIds \cup orphans)
            = Cardinality(heldIds) + Cardinality(orphans) - Cardinality(heldIds \cap orphans)
       /\ Cardinality(heldIds \cap orphans) = 0
       /\ Cardinality(heldIds) \in Nat /\ Cardinality(orphans) \in Nat
  BY <1>10, <1>11, FS_Union, FS_EmptySet, FS_CardinalityType
<1>13. Cardinality(rowIds) = Cardinality(heldIds) + Cardinality(orphans)
  BY <1>10, <1>12
<1>14. Overview(tables.trades).open = Cardinality(rows)
  BY DEF Overview, rows
<1> QED
  BY <1>9, <1>13, <1>14 DEF held, orphans

LEMMA RowsTold == IInv => RowsTellWhy
<1> SUFFICES ASSUME IInv, AtRest
             PROVE  /\ \A r \in tables.trades : r.outcome # "open" =>
                           /\ fate[r.id].status = "closed"
                           /\ r.outcome = SignOutcome(fate[r.id].result)
                    /\ \A t \in tables.transitions :
                           /\ t.reward = "paid" <=>
                                 fate[t.id].status = "closed" /\ ~Lost("update_reward", t.id)
                           /\ t.reward = "null" <=>
                                 t.reward # "paid" /\ fate[t.id].action = "enter"
  BY OpenRowsCounted DEF RowsTellWhy
<1>1. /\ SoundTrades(tables.trades, fate, lost, {})
      /\ SoundTransitions(tables.transitions, fate, lost, {}, backtest)
  BY EmptyQueue DEF IInv, AtRest
<1>2. ASSUME NEW r \in tables.trades, r.outcome # "open"
      PROVE  fate[r.id].status = "closed" /\ r.outcome = SignOutcome(fate[r.id].result)
  <2>1. /\ r.id \in 1 .. Len(fate) /\ fate[r.id].status \notin {"none", "open"}
        /\ r.outcome = SignOutcome(fate[r.id].result)
    BY <1>1, <1>2 DEF SoundTrades
  <2>2. fate[r.id] \in FateRec
    BY <2>1 DEF IInv, RecordsType
  <2> QED
    BY <2>1, <2>2 DEF FateRec
<1>3. ASSUME NEW t \in tables.transitions
      PROVE  /\ t.reward = "paid" <=>
                   fate[t.id].status = "closed" /\ ~Lost("update_reward", t.id)
             /\ t.reward = "null" <=> t.reward # "paid" /\ fate[t.id].action = "enter"
  <2>1. t.reward = RewardNow(fate, lost, {}, t.id)
    BY <1>1 DEF SoundTransitions
  <2>2. ~In({}, "update_reward", t.id)
    BY DEF In
  <2>3. In(lost, "update_reward", t.id) <=> Lost("update_reward", t.id)
    BY DEF In, Lost
  <2> QED
    BY <2>1, <2>2, <2>3 DEF RewardNow, Unpaid
<1> QED
  BY <1>2, <1>3

\* Between two bars the rows that say "open" are those of the positions held, plus the
\* orphans; every other row carries the sign of its result; and a transition has its reward
\* paid just when its trade closed and the update was not lost, and is left at NULL
\* otherwise if it logged an action of ENTER_ACTIONS, at 0.0 if not, however sessions end
\* and statements fail (journal/db.py, mdp/transition_logger.py).
THEOREM RowsAreExplained == Spec => []RowsTellWhy
  BY RecordsInvariant, RowsTold, PTL

LEMMA DiagnosesTold == IInv => DiagnosedOnce
<1> SUFFICES ASSUME IInv, AtRest, NEW id \in Proposals
             PROVE  Cardinality(RowsOf(id)) + (IF Waiting(id) THEN 1 ELSE 0)
                        = IF id \in WiredTrades("diagnostics") /\ ~Lost("diagnosis", id) THEN 1 ELSE 0
  BY DEF DiagnosedOnce
<1>1. SoundDiagnoses(csv, memory.pending, fate, lost, {})
  BY EmptyQueue DEF IInv, AtRest
<1>2. /\ Waiting(id) <=> Waits(memory.pending, id)
      /\ Lost("diagnosis", id) <=> In(lost, "diagnosis", id)
      /\ ~In({}, "update_trade_close", id)
  BY DEF Waiting, Waits, Lost, In
<1>3. id \in 1 .. Len(fate)
  BY DEF Proposals
<1>4. /\ Written(csv, id) \/ Waiting(id) <=> id \in WiredTrades("diagnostics") /\ ~Lost("diagnosis", id)
      /\ ~(Written(csv, id) /\ Waiting(id))
  BY <1>1, <1>2, <1>3 DEF SoundDiagnoses, WiredTrades, Waits, Proposals
<1>5. RowsOf(id) = {i \in 1 .. Len(csv) : csv[i].trade = id}
  <2>1. DOMAIN csv = 1 .. Len(csv)
    BY <1>1 DEF SoundDiagnoses
  <2> QED
    BY <2>1 DEF RowsOf
<1>6. CASE Written(csv, id)
  <2>1. PICK i \in 1 .. Len(csv) : csv[i].trade = id
    BY <1>6 DEF Written
  <2>2. RowsOf(id) = {i}
    BY <1>1, <1>5, <2>1 DEF SoundDiagnoses
  <2>3. Cardinality(RowsOf(id)) = 1
    BY <2>2, FS_Singleton
  <2> QED
    BY <1>4, <1>6, <2>3
<1>7. CASE ~Written(csv, id)
  <2>1. RowsOf(id) = {}
    BY <1>5, <1>7 DEF Written
  <2>2. Cardinality(RowsOf(id)) = 0
    BY <2>1, FS_EmptySet
  <2> QED
    BY <1>4, <1>7, <2>2
<1> QED
  BY <1>6, <1>7

\* Every trade closed with the diagnostics wired is in the file once or waits for its last
\* snapshot, never both, unless its write failed or a crash took its diagnosis; a trade
\* closed without them leaves no row (analysis/exit_diagnosis.py, runtime/runner.py).
THEOREM EveryCloseIsDiagnosed == Spec => []DiagnosedOnce
  BY RecordsInvariant, DiagnosesTold, PTL

-----------------------------------------------------------------------------
(* The second half of the invariant: what the learning layer has made of   *)
(* each trade closed in one of its sessions, and what it still will.       *)

ClosedOf(f) == {id \in 1 .. Len(f) : f[id].status = "closed"}
\* The trades closed with this part of the layer wired; the journal learns from its own.
WiredOf(f, part) == {id \in 1 .. Len(f) : f[id].status = "closed" /\ part \in f[id].wired}
LearnedOf(f) == WiredOf(f, "journal")

\* x the trace: only a closed trade's rows are linked, and to that trade; a session with
\* the trace logger has a summary and a review of each seat for every proposal, and links
\* the rows of every close, unless a job for it waits or was lost.
SoundTrace(x, f, l, q) ==
    /\ \A r \in x :
          /\ r.packet \in 1 .. Len(f)
          /\ r.trade # 0 => r.trade = r.packet /\ f[r.packet].status = "closed"
          /\ r.table = "trader_reviews" => r.verdict = f[r.packet].votes[r.trader]
          /\ r.packet \in WiredOf(f, "panel") =>
                \/ r.trade = r.packet
                \/ In(l, "backfill_trade_id", r.packet) \/ In(q, "backfill_trade_id", r.packet)
    /\ \A id \in 1 .. Len(f) : "panel" \in f[id].wired =>
          /\ \/ In(l, "insert_panel_summary", id) \/ In(q, "insert_panel_summary", id)
             \/ \E r \in x : r.table = "panel_summaries" /\ r.packet = id
          /\ \A t \in Traders :
                \/ Each("insert_trader_review", id, t) \in l \cup q
                \/ \E r \in x : r.table = "trader_reviews" /\ r.packet = id /\ r.trader = t

AttributionRec == [trade : Nat, packet : Nat, outcome : Outcomes, result : Results \cup {0},
                   writer : {"panel", "journal"}]

OutcomeFor(writer, result) ==
    IF writer = "panel" THEN SignOutcome(result) ELSE BandOutcome(result)

Attributed(a, id, w) == \E i \in 1 .. Len(a) : a[i].trade = id /\ a[i].writer = w

\* a the attributions: one row of each writer for every close it was wired for, unless its
\* job waits or was lost.
SoundVerdicts(a, f, l, q) ==
    /\ a \in Seq(AttributionRec)
    /\ \A i, k \in 1 .. Len(a) : a[i].trade = a[k].trade /\ a[i].writer = a[k].writer => i = k
    /\ \A i \in 1 .. Len(a) :
          /\ a[i].trade \in WiredOf(f, a[i].writer)
          /\ a[i].outcome = OutcomeFor(a[i].writer, f[a[i].trade].result)
    /\ \A w \in {"panel", "journal"} : \A id \in WiredOf(f, w) :
          Attributed(a, id, w) <=>
              ~In(l, AttributionJob[w], id) /\ ~In(q, AttributionJob[w], id)
    /\ \A j \in l : j.op \in {"panel_attribution", "journal_attribution"} =>
          j = Job(j.op, j.id) /\ j.id \in WiredOf(f, Needs(j.op)) /\ ~In(q, j.op, j.id)

CalibrationRec == [reviews : Nat, approvals : Nat, approvalsWon : Nat, rejections : Nat, wrong : Nat]

\* The trades whose review by t has been counted, or will never be.
Reviewed(f, q, t) ==
    {id \in LearnedOf(f) : ~In(q, "query_reviews", id) /\ Each("calibrate", id, t) \notin q}
Won(f, t) == {id \in 1 .. Len(f) : f[id].votes[t][1] = "approve" /\ f[id].result > 5}
Disturbed(l, t) ==
    \E j \in l : /\ j.op \in {"insert_trader_review", "query_reviews", "calibrate"}
                 /\ j.trader \in {None, t}

SoundCalibration(c, f, l, q) ==
    /\ c \in [Traders -> CalibrationRec]
    /\ \A t \in Traders :
          /\ c[t].reviews <= Cardinality(Reviewed(f, q, t))
          /\ ~Disturbed(l, t) =>
                /\ c[t].reviews = Cardinality(Reviewed(f, q, t))
                /\ c[t].approvalsWon = Cardinality(Reviewed(f, q, t) \cap Won(f, t))

FamilyRec == [total : Nat, wins : Nat, losses : Nat, breakevens : Nat, result : Int]

\* The trades of family x that have been counted, or will never be.
Filed(f, q, x) == {id \in LearnedOf(f) : f[id].family = x /\ ~In(q, "family", id)}
Gains(f) == {id \in 1 .. Len(f) : f[id].result > 5}

SoundFamilies(c, f, l, q) ==
    /\ c \in [Families -> FamilyRec]
    /\ \A x \in Families :
          /\ c[x].total = c[x].wins + c[x].losses + c[x].breakevens
          /\ c[x].total <= Cardinality(Filed(f, q, x))
          /\ (\A id \in LearnedOf(f) : f[id].family = x => ~In(l, "family", id))
                => /\ c[x].total = Cardinality(Filed(f, q, x))
                   /\ c[x].wins = Cardinality(Filed(f, q, x) \cap Gains(f))

SoundHistory(h, f) == h.total \in Nat /\ h.total <= Cardinality(ClosedOf(f))

SoundAdvice(v, f) ==
    \A a \in v : /\ a.samples \in Nat /\ MinSamples <= a.samples
                 /\ a.samples <= Cardinality(LearnedOf(f))

Reckoning ==
    /\ SoundTrace(tables.trace, fate, lost, ToSet(work))
    /\ SoundVerdicts(tables.attributions, fate, lost, ToSet(work))
    /\ SoundCalibration(tables.calibration, fate, lost, ToSet(work))
    /\ SoundFamilies(tables.families, fate, lost, ToSet(work))
    /\ SoundHistory(memory.hist, fate)
    /\ SoundAdvice(tables.advice, fate)

-----------------------------------------------------------------------------
(* Steps that attribute, count and close nothing.                          *)

AttributionOps == {"panel_attribution", "journal_attribution"}
TraceOps == {"insert_panel_summary", "insert_trader_review", "backfill_trade_id"}
ReviewOps == {"query_reviews", "calibrate"}

\* g is f, with proposals added and positions opened.
Alike(f, g) ==
    /\ Len(f) \in Nat /\ Len(g) \in Nat /\ Len(f) <= Len(g)
    /\ \A id \in 1 .. Len(f) :
          /\ g[id].votes = f[id].votes /\ g[id].family = f[id].family
          /\ g[id].wired = f[id].wired
          /\ g[id].status = "closed" <=> f[id].status = "closed"
          /\ f[id].status = "closed" => g[id].result = f[id].result
    /\ \A id \in 1 .. Len(g) : id \notin 1 .. Len(f) => g[id].status # "closed"

\* Of the jobs that do one of ops, those to do, q, or lost, l, become those to do, r, or
\* lost, m: none is done, none is new, and none comes to be lost and to do at once.
Drops(ops, q, r, l, m) ==
    \A j : j.op \in ops =>
        /\ j \in l => j \in m
        /\ j \in r => j \in q
        /\ j \in q => j \in r \/ j \in m
        /\ j \in m => j \in l \/ (j \in q /\ ~In(r, j.op, j.id)) \/ (j \in q /\ j.op \in Repeated)

LEMMA DropsHead ==
    ASSUME NEW h, NEW q, NEW r, NEW l, NEW m, Consumed(h, q, r, l, m),
           h.op \notin Repeated => Only(h, q, r),
           NEW ops, h.op \notin ops \/ h \in m
    PROVE  Drops(ops, q, r, l, m)
<1> SUFFICES ASSUME NEW j, j.op \in ops
             PROVE  /\ j \in l => j \in m
                    /\ j \in r => j \in q
                    /\ j \in q => j \in r \/ j \in m
                    /\ j \in m => \/ j \in l \/ (j \in q /\ ~In(r, j.op, j.id))
                                  \/ (j \in q /\ j.op \in Repeated)
  BY DEF Drops
<1>1. q = {h} \cup r /\ (m = l \/ m = l \cup {h})
  BY DEF Consumed
<1>2. h.op \notin Repeated => ~In(r, h.op, h.id)
  BY DEF Only, In
<1> QED
  BY <1>1, <1>2

\* The jobs of these kinds are as they were.
LEMMA DropsNone ==
    ASSUME NEW ops, NEW q, NEW r, NEW l, NEW m,
           \A j : j.op \in ops => (j \in r <=> j \in q) /\ (j \in m <=> j \in l)
    PROVE  Drops(ops, q, r, l, m)
  BY DEF Drops

\* Nothing is left to do.
LEMMA DropsAll ==
    ASSUME NEW ops, NEW q, NEW l, NEW m, l \cup q \subseteq m,
           \A j \in m : j.op \in ops => j \in l \cup q
    PROVE  Drops(ops, q, {}, l, m)
<1>1. \A op, id : ~In({}, op, id)
  BY DEF In
<1> QED
  BY <1>1 DEF Drops

LEMMA DropsFewer ==
    ASSUME NEW a, NEW b, a \subseteq b, NEW q, NEW r, NEW l, NEW m, Drops(b, q, r, l, m)
    PROVE  Drops(a, q, r, l, m)
  BY DEF Drops

LEMMA LearnedFinite ==
    ASSUME NEW f, Len(f) \in Nat
    PROVE  /\ IsFiniteSet(LearnedOf(f)) /\ IsFiniteSet(ClosedOf(f))
           /\ \A part : IsFiniteSet(WiredOf(f, part))
           /\ \A S : S \subseteq LearnedOf(f) =>
                 /\ IsFiniteSet(S) /\ Cardinality(S) \in Nat
                 /\ Cardinality(S) <= Cardinality(LearnedOf(f))
<1>1. /\ IsFiniteSet(1 .. Len(f)) /\ ClosedOf(f) \subseteq 1 .. Len(f)
      /\ \A part : WiredOf(f, part) \subseteq 1 .. Len(f)
  <2>1. IsFiniteSet(1 .. Len(f))
    BY FS_Interval
  <2>2. ClosedOf(f) \subseteq 1 .. Len(f) /\ \A part : WiredOf(f, part) \subseteq 1 .. Len(f)
    BY DEF WiredOf, ClosedOf
  <2> QED
    BY <2>1, <2>2
<1>2. IsFiniteSet(ClosedOf(f)) /\ \A part : IsFiniteSet(WiredOf(f, part))
  BY <1>1, FS_Subset
<1>3. IsFiniteSet(LearnedOf(f))
  BY <1>2 DEF LearnedOf
<1> QED
  BY <1>2, <1>3, FS_Subset, FS_CardinalityType

LEMMA AlikeIs ==
    ASSUME NEW f, NEW g, Alike(f, g)
    PROVE  /\ LearnedOf(g) = LearnedOf(f) /\ ClosedOf(g) = ClosedOf(f)
           /\ \A part : WiredOf(g, part) = WiredOf(f, part) /\ WiredOf(f, part) \subseteq ClosedOf(f)
           /\ LearnedOf(f) \subseteq ClosedOf(f)
           /\ \A id \in ClosedOf(f) :
                 /\ id \in 1 .. Len(f)
                 /\ g[id].votes = f[id].votes /\ g[id].family = f[id].family
                 /\ g[id].result = f[id].result
<1>1. 1 .. Len(f) \subseteq 1 .. Len(g)
  BY DEF Alike
<1>2. ClosedOf(g) = ClosedOf(f)
  BY <1>1 DEF Alike, ClosedOf
<1>3. \A part : WiredOf(g, part) = WiredOf(f, part) /\ WiredOf(f, part) \subseteq ClosedOf(f)
  BY <1>1 DEF Alike, WiredOf, ClosedOf
<1>4. \A id \in ClosedOf(f) :
          /\ id \in 1 .. Len(f)
          /\ g[id].votes = f[id].votes /\ g[id].family = f[id].family
          /\ g[id].result = f[id].result
  BY DEF Alike, ClosedOf
<1> QED
  BY <1>2, <1>3, <1>4 DEF LearnedOf

LEMMA TraceQuiet ==
    ASSUME NEW f, NEW g, Alike(f, g), NEW q, NEW r, NEW l, NEW m,
           \A j \in l \cup q : j.op \in TraceOps => j \in m \cup r,
           \A id \in 1 .. Len(g) : id \notin 1 .. Len(f) /\ "panel" \in g[id].wired =>
               /\ In(r, "insert_panel_summary", id)
               /\ \A t \in Traders : Each("insert_trader_review", id, t) \in r,
           NEW x, SoundTrace(x, f, l, q)
    PROVE  SoundTrace(x, g, m, r)
<1>1. \A op \in TraceOps : \A id : In(l, op, id) \/ In(q, op, id) => In(m, op, id) \/ In(r, op, id)
  BY DEF In
<1>2. WiredOf(g, "panel") = WiredOf(f, "panel") /\ 1 .. Len(f) \subseteq 1 .. Len(g)
  BY AlikeIs DEF Alike
<1>3. ASSUME NEW y \in x
      PROVE  /\ y.packet \in 1 .. Len(g)
             /\ y.trade # 0 => y.trade = y.packet /\ g[y.packet].status = "closed"
             /\ y.table = "trader_reviews" => y.verdict = g[y.packet].votes[y.trader]
             /\ y.packet \in WiredOf(g, "panel") =>
                   \/ y.trade = y.packet
                   \/ In(m, "backfill_trade_id", y.packet) \/ In(r, "backfill_trade_id", y.packet)
  BY <1>1, <1>2 DEF SoundTrace, Alike, TraceOps
<1>4. ASSUME NEW id \in 1 .. Len(g), "panel" \in g[id].wired
      PROVE  /\ \/ In(m, "insert_panel_summary", id) \/ In(r, "insert_panel_summary", id)
                \/ \E y \in x : y.table = "panel_summaries" /\ y.packet = id
             /\ \A t \in Traders :
                   \/ Each("insert_trader_review", id, t) \in m \cup r
                   \/ \E y \in x : y.table = "trader_reviews" /\ y.packet = id /\ y.trader = t
  <2>1. CASE id \notin 1 .. Len(f)
    BY <1>4, <2>1
  <2>2. CASE id \in 1 .. Len(f)
    <3>1. "panel" \in f[id].wired
      BY <1>4, <2>2 DEF Alike
    <3>2. \/ In(m, "insert_panel_summary", id) \/ In(r, "insert_panel_summary", id)
          \/ \E y \in x : y.table = "panel_summaries" /\ y.packet = id
      BY <1>1, <2>2, <3>1 DEF SoundTrace, TraceOps
    <3>3. ASSUME NEW t \in Traders
          PROVE  \/ Each("insert_trader_review", id, t) \in m \cup r
                 \/ \E y \in x : y.table = "trader_reviews" /\ y.packet = id /\ y.trader = t
      <4>1. Each("insert_trader_review", id, t).op \in TraceOps
        BY DEF Each, TraceOps
      <4>2. \/ Each("insert_trader_review", id, t) \in l \cup q
            \/ \E y \in x : y.table = "trader_reviews" /\ y.packet = id /\ y.trader = t
        BY <2>2, <3>1 DEF SoundTrace
      <4> QED
        BY <4>1, <4>2
    <3> QED
      BY <3>2, <3>3
  <2> QED
    BY <2>1, <2>2
<1> QED
  BY <1>3, <1>4 DEF SoundTrace

\* What a drop makes of the jobs of a kind.
LEMMA DropsIn ==
    ASSUME NEW ops, NEW q, NEW r, NEW l, NEW m, Drops(ops, q, r, l, m), NEW op \in ops, NEW id
    PROVE  /\ In(r, op, id) => In(q, op, id)
           /\ In(l, op, id) \/ In(q, op, id) <=> In(m, op, id) \/ In(r, op, id)
  BY DEF Drops, In

LEMMA VerdictsQuiet ==
    ASSUME NEW f, NEW g, Alike(f, g), NEW q, NEW r, NEW l, NEW m,
           Drops(AttributionOps, q, r, l, m),
           \A j \in q : j.op \in AttributionOps =>
               j = Job(j.op, j.id) /\ j.id \in WiredOf(f, Needs(j.op)),
           NEW a, SoundVerdicts(a, f, l, q)
    PROVE  SoundVerdicts(a, g, m, r)
<1>1. \A part : /\ WiredOf(g, part) = WiredOf(f, part)
                 /\ \A id \in WiredOf(f, part) : g[id].result = f[id].result
  BY AlikeIs
<1>2. \A w \in {"panel", "journal"} : AttributionJob[w] \in AttributionOps
  BY DEF AttributionJob, AttributionOps
<1>3. \A w \in {"panel", "journal"} : \A id \in WiredOf(g, w) :
          Attributed(a, id, w) <=>
              ~In(m, AttributionJob[w], id) /\ ~In(r, AttributionJob[w], id)
  BY <1>1, <1>2, DropsIn DEF SoundVerdicts
<1>4. ASSUME NEW j \in m, j.op \in AttributionOps
      PROVE  j = Job(j.op, j.id) /\ j.id \in WiredOf(g, Needs(j.op)) /\ ~In(r, j.op, j.id)
  <2>1. j.op \notin Repeated
    BY <1>4 DEF AttributionOps, Repeated
  <2>2. j \in l \/ (j \in q /\ ~In(r, j.op, j.id))
    BY <1>4, <2>1 DEF Drops
  <2>3. CASE j \in l
    <3>1. j = Job(j.op, j.id) /\ j.id \in WiredOf(f, Needs(j.op)) /\ ~In(q, j.op, j.id)
      BY <1>4, <2>3 DEF SoundVerdicts, AttributionOps
    <3> QED
      BY <1>1, <1>4, <3>1, DropsIn
  <2> QED
    BY <1>1, <1>4, <2>2, <2>3
<1>5. \A i \in 1 .. Len(a) :
          /\ a[i].trade \in WiredOf(g, a[i].writer)
          /\ a[i].outcome = OutcomeFor(a[i].writer, g[a[i].trade].result)
  <2> SUFFICES ASSUME NEW i \in 1 .. Len(a)
               PROVE  /\ a[i].trade \in WiredOf(g, a[i].writer)
                      /\ a[i].outcome = OutcomeFor(a[i].writer, g[a[i].trade].result)
    OBVIOUS
  <2>1. /\ a[i].trade \in WiredOf(f, a[i].writer)
        /\ a[i].outcome = OutcomeFor(a[i].writer, f[a[i].trade].result)
    BY DEF SoundVerdicts
  <2> QED
    BY <1>1, <2>1
<1>6. /\ a \in Seq(AttributionRec)
      /\ \A i, k \in 1 .. Len(a) : a[i].trade = a[k].trade /\ a[i].writer = a[k].writer => i = k
  BY DEF SoundVerdicts
<1> QED
  BY <1>3, <1>4, <1>5, <1>6 DEF SoundVerdicts, AttributionOps

LEMMA ReviewedIs ==
    ASSUME NEW f, NEW q, NEW t, Len(f) \in Nat
    PROVE  /\ Reviewed(f, q, t) \subseteq LearnedOf(f)
           /\ IsFiniteSet(Reviewed(f, q, t)) /\ Cardinality(Reviewed(f, q, t)) \in Nat
           /\ Cardinality(Reviewed(f, q, t)) <= Cardinality(LearnedOf(f))
<1>1. Reviewed(f, q, t) \subseteq LearnedOf(f)
  BY DEF Reviewed
<1> QED
  BY <1>1, LearnedFinite

LEMMA FiledIs ==
    ASSUME NEW f, NEW q, NEW x, Len(f) \in Nat
    PROVE  /\ Filed(f, q, x) \subseteq LearnedOf(f)
           /\ IsFiniteSet(Filed(f, q, x)) /\ Cardinality(Filed(f, q, x)) \in Nat
           /\ Cardinality(Filed(f, q, x)) <= Cardinality(LearnedOf(f))
<1>1. Filed(f, q, x) \subseteq LearnedOf(f)
  BY DEF Filed
<1> QED
  BY <1>1, LearnedFinite

\* A record stays sound if what it counts grows only when the trader's counting is
\* disturbed.
LEMMA CalibrationKeeps ==
    ASSUME NEW f, NEW g, Len(f) \in Nat, Len(g) \in Nat, NEW q, NEW r, NEW l, NEW m,
           \A t \in Traders : Reviewed(f, q, t) \subseteq Reviewed(g, r, t),
           \A t \in Traders : ~Disturbed(m, t) =>
               /\ ~Disturbed(l, t)
               /\ Reviewed(g, r, t) = Reviewed(f, q, t)
               /\ Reviewed(f, q, t) \cap Won(g, t) = Reviewed(f, q, t) \cap Won(f, t),
           NEW c, SoundCalibration(c, f, l, q)
    PROVE  SoundCalibration(c, g, m, r)
<1>1. c \in [Traders -> CalibrationRec]
  BY DEF SoundCalibration
<1>2. ASSUME NEW t \in Traders
      PROVE  /\ c[t].reviews <= Cardinality(Reviewed(g, r, t))
             /\ ~Disturbed(m, t) =>
                   /\ c[t].reviews = Cardinality(Reviewed(g, r, t))
                   /\ c[t].approvalsWon = Cardinality(Reviewed(g, r, t) \cap Won(g, t))
  <2>1. /\ c[t].reviews \in Nat /\ c[t].reviews <= Cardinality(Reviewed(f, q, t))
        /\ ~Disturbed(l, t) =>
              /\ c[t].reviews = Cardinality(Reviewed(f, q, t))
              /\ c[t].approvalsWon = Cardinality(Reviewed(f, q, t) \cap Won(f, t))
    BY <1>1 DEF SoundCalibration, CalibrationRec
  <2>2. /\ IsFiniteSet(Reviewed(g, r, t)) /\ Cardinality(Reviewed(f, q, t)) \in Nat
        /\ Cardinality(Reviewed(g, r, t)) \in Nat
    BY ReviewedIs
  <2>3. Cardinality(Reviewed(f, q, t)) <= Cardinality(Reviewed(g, r, t))
    BY <2>2, FS_Subset
  <2>4. c[t].reviews <= Cardinality(Reviewed(g, r, t))
    BY <2>1, <2>2, <2>3
  <2> QED
    BY <2>1, <2>4
<1> QED
  BY <1>1, <1>2 DEF SoundCalibration

LEMMA CalibrationQuiet ==
    ASSUME NEW f, NEW g, Alike(f, g), NEW q, NEW r, NEW l, NEW m, Drops(ReviewOps, q, r, l, m),
           \A j \in l : j.op = "insert_trader_review" => j \in m,
           \A j \in q : j.op = "query_reviews" => j.trader = None,
           NEW c, SoundCalibration(c, f, l, q)
    PROVE  SoundCalibration(c, g, m, r)
<1>1. /\ LearnedOf(g) = LearnedOf(f)
      /\ \A id \in LearnedOf(f) : id \in 1 .. Len(f) /\ g[id].votes = f[id].votes /\ g[id].result = f[id].result
  BY AlikeIs
<1>2. "query_reviews" \in ReviewOps /\ "calibrate" \in ReviewOps
  BY DEF ReviewOps
<1>3. \A id, t : Each("calibrate", id, t).op = "calibrate" /\ Each("calibrate", id, t).trader = t
  BY DEF Each
<1>4. ASSUME NEW t \in Traders PROVE Reviewed(f, q, t) \subseteq Reviewed(g, r, t)
  <2>1. \A id : In(r, "query_reviews", id) => In(q, "query_reviews", id)
    BY <1>2, DropsIn
  <2>2. \A id : Each("calibrate", id, t) \in r => Each("calibrate", id, t) \in q
    BY <1>2, <1>3 DEF Drops
  <2> QED
    BY <1>1, <2>1, <2>2 DEF Reviewed
<1>5. ASSUME NEW t \in Traders, ~Disturbed(m, t)
      PROVE  /\ ~Disturbed(l, t)
             /\ Reviewed(g, r, t) = Reviewed(f, q, t)
             /\ Reviewed(f, q, t) \cap Won(g, t) = Reviewed(f, q, t) \cap Won(f, t)
  <2>1. ~Disturbed(l, t)
    BY <1>2, <1>5 DEF Disturbed, Drops
  <2>2. ASSUME NEW j \in q, j.op \in ReviewOps, j.trader \in {None, t} PROVE j \in r
    <3>1. j \notin m
      BY <1>5, <2>2 DEF Disturbed, ReviewOps
    <3> QED
      BY <2>2, <3>1 DEF Drops
  <2>3. \A id : In(q, "query_reviews", id) => In(r, "query_reviews", id)
    BY <1>2, <2>2 DEF In
  <2>4. \A id : Each("calibrate", id, t) \in q => Each("calibrate", id, t) \in r
    BY <1>2, <1>3, <2>2
  <2>5. Reviewed(g, r, t) \subseteq Reviewed(f, q, t)
    BY <1>1, <2>3, <2>4 DEF Reviewed
  <2>6. Reviewed(g, r, t) = Reviewed(f, q, t)
    BY <1>4, <2>5
  <2>7. \A id \in Reviewed(f, q, t) : id \in Won(g, t) <=> id \in Won(f, t)
    <3>1. \A id \in Reviewed(f, q, t) : /\ id \in 1 .. Len(f) /\ id \in 1 .. Len(g)
                                         /\ g[id].votes = f[id].votes /\ g[id].result = f[id].result
      BY <1>1 DEF Reviewed, Alike
    <3> QED
      BY <3>1 DEF Won
  <2> QED
    BY <2>1, <2>6, <2>7
<1>6. Len(f) \in Nat /\ Len(g) \in Nat
  BY DEF Alike
<1> QED
  BY <1>4, <1>5, <1>6, CalibrationKeeps

\* No update of family x was lost with its trade.
Unlost(f, l, x) == \A id \in LearnedOf(f) : f[id].family = x => ~In(l, "family", id)

LEMMA FamiliesKeep ==
    ASSUME NEW f, NEW g, Len(f) \in Nat, Len(g) \in Nat, NEW q, NEW r, NEW l, NEW m,
           \A x \in Families : Filed(f, q, x) \subseteq Filed(g, r, x),
           \A x \in Families : Unlost(g, m, x) =>
               /\ Unlost(f, l, x) /\ Filed(g, r, x) = Filed(f, q, x)
               /\ Filed(f, q, x) \cap Gains(g) = Filed(f, q, x) \cap Gains(f),
           NEW c, SoundFamilies(c, f, l, q)
    PROVE  SoundFamilies(c, g, m, r)
<1>1. c \in [Families -> FamilyRec]
  BY DEF SoundFamilies
<1>2. ASSUME NEW x \in Families
      PROVE  /\ c[x].total = c[x].wins + c[x].losses + c[x].breakevens
             /\ c[x].total <= Cardinality(Filed(g, r, x))
             /\ Unlost(g, m, x) =>
                   /\ c[x].total = Cardinality(Filed(g, r, x))
                   /\ c[x].wins = Cardinality(Filed(g, r, x) \cap Gains(g))
  <2>1. /\ c[x].total \in Nat /\ c[x].total <= Cardinality(Filed(f, q, x))
        /\ c[x].total = c[x].wins + c[x].losses + c[x].breakevens
        /\ Unlost(f, l, x) =>
              /\ c[x].total = Cardinality(Filed(f, q, x))
              /\ c[x].wins = Cardinality(Filed(f, q, x) \cap Gains(f))
    BY <1>1 DEF SoundFamilies, FamilyRec, Unlost
  <2>2. /\ IsFiniteSet(Filed(g, r, x)) /\ Cardinality(Filed(f, q, x)) \in Nat
        /\ Cardinality(Filed(g, r, x)) \in Nat
    BY FiledIs
  <2>3. Cardinality(Filed(f, q, x)) <= Cardinality(Filed(g, r, x))
    BY <2>2, FS_Subset
  <2>4. c[x].total <= Cardinality(Filed(g, r, x))
    BY <2>1, <2>2, <2>3
  <2> QED
    BY <2>1, <2>4
<1> QED
  BY <1>1, <1>2 DEF SoundFamilies, Unlost

LEMMA FamiliesQuiet ==
    ASSUME NEW f, NEW g, Alike(f, g), NEW q, NEW r, NEW l, NEW m, Drops({"family"}, q, r, l, m),
           NEW c, SoundFamilies(c, f, l, q)
    PROVE  SoundFamilies(c, g, m, r)
<1>1. /\ LearnedOf(g) = LearnedOf(f)
      /\ \A id \in LearnedOf(f) : /\ id \in 1 .. Len(f) /\ g[id].family = f[id].family
                                  /\ g[id].result = f[id].result
  BY AlikeIs
<1>2. \A id : /\ In(r, "family", id) => In(q, "family", id)
              /\ In(l, "family", id) \/ In(q, "family", id) <=> In(m, "family", id) \/ In(r, "family", id)
  BY DropsIn
<1>3. \A id : In(l, "family", id) => In(m, "family", id)
  BY DEF In, Drops
<1>4. ASSUME NEW x \in Families PROVE Filed(f, q, x) \subseteq Filed(g, r, x)
  BY <1>1, <1>2 DEF Filed
<1>5. ASSUME NEW x \in Families, Unlost(g, m, x)
      PROVE  /\ Unlost(f, l, x) /\ Filed(g, r, x) = Filed(f, q, x)
             /\ Filed(f, q, x) \cap Gains(g) = Filed(f, q, x) \cap Gains(f)
  <2>1. Unlost(f, l, x)
    BY <1>1, <1>3, <1>5 DEF Unlost
  <2>2. Filed(g, r, x) \subseteq Filed(f, q, x)
    BY <1>1, <1>2, <1>5 DEF Filed, Unlost
  <2>3. \A id \in Filed(f, q, x) : id \in Gains(g) <=> id \in Gains(f)
    <3>1. \A id \in Filed(f, q, x) : /\ id \in 1 .. Len(f) /\ id \in 1 .. Len(g)
                                      /\ g[id].result = f[id].result
      BY <1>1 DEF Filed, Alike
    <3> QED
      BY <3>1 DEF Gains
  <2> QED
    BY <1>4, <2>1, <2>2, <2>3
<1>6. Len(f) \in Nat /\ Len(g) \in Nat
  BY DEF Alike
<1> QED
  BY <1>4, <1>5, <1>6, FamiliesKeep

LEMMA MoreClosed ==
    ASSUME NEW f, NEW g, Len(f) \in Nat, Len(g) \in Nat,
           LearnedOf(f) \subseteq LearnedOf(g), ClosedOf(f) \subseteq ClosedOf(g)
    PROVE  /\ \A h : SoundHistory(h, f) => SoundHistory(h, g)
           /\ \A v : SoundAdvice(v, f) => SoundAdvice(v, g)
<1>1. /\ IsFiniteSet(LearnedOf(f)) /\ IsFiniteSet(ClosedOf(f))
      /\ IsFiniteSet(LearnedOf(g)) /\ IsFiniteSet(ClosedOf(g))
  BY LearnedFinite
<1>2. /\ Cardinality(LearnedOf(f)) <= Cardinality(LearnedOf(g))
      /\ Cardinality(ClosedOf(f)) <= Cardinality(ClosedOf(g))
  BY <1>1, FS_Subset
<1>3. /\ Cardinality(LearnedOf(f)) \in Nat /\ Cardinality(LearnedOf(g)) \in Nat
      /\ Cardinality(ClosedOf(f)) \in Nat /\ Cardinality(ClosedOf(g)) \in Nat
  BY <1>1, FS_CardinalityType
<1>4. \A h : SoundHistory(h, f) => SoundHistory(h, g)
  BY <1>2, <1>3 DEF SoundHistory
<1>5. \A v : SoundAdvice(v, f) => SoundAdvice(v, g)
  BY <1>2, <1>3, MinSamplesAssumption DEF SoundAdvice
<1> QED
  BY <1>4, <1>5

-----------------------------------------------------------------------------
(* Statements that succeed.  h is the job done, q and r those to do before *)
(* and after it.                                                           *)

LEMMA VerdictsAppend ==
    ASSUME NEW h, NEW q, NEW r, Only(h, q, r), NEW w \in {"panel", "journal"}, h.op = AttributionJob[w],
           NEW f, h.id \in WiredOf(f, w), h.id \in Nat, f[h.id].result \in Results \cup {0},
           NEW a, NEW l, SoundVerdicts(a, f, l, q)
    PROVE  SoundVerdicts(InsertAttribution(a, h.id, h.id, OutcomeFor(w, f[h.id].result),
                                           f[h.id].result, w), f, l, r)
<1> DEFINE id == h.id
           e == [trade |-> id, packet |-> id, outcome |-> OutcomeFor(w, f[id].result),
                 result |-> f[id].result, writer |-> w]
           b == Append(a, e)
           n == Len(a)
<1>1. OutcomeFor(w, f[id].result) \in Outcomes
  BY DEF OutcomeFor, SignOutcome, BandOutcome, Outcomes
<1>2. /\ e \in AttributionRec /\ e.trade = id /\ e.writer = w
      /\ e.outcome = OutcomeFor(w, f[id].result)
  BY <1>1 DEF AttributionRec
<1> HIDE DEF e
<1>3. a \in Seq(AttributionRec) /\ n \in Nat
  BY DEF SoundVerdicts
<1>4. b \in Seq(AttributionRec) /\ Len(b) = n + 1 /\ b[n + 1] = e /\ \A i \in 1 .. n : b[i] = a[i]
  BY <1>2, <1>3
<1> HIDE DEF b, n
<1>5. In(q, h.op, id) /\ ~In(l, h.op, id) /\ \A k : ~In(r, h.op, k)
  <2>1. In(q, h.op, id) /\ \A k : ~In(r, h.op, k)
    BY DEF Only, In
  <2>2. \A j \in l : j.op = h.op => ~In(q, j.op, j.id)
    BY DEF SoundVerdicts, AttributionJob
  <2> QED
    BY <2>1, <2>2 DEF In
<1>6. \A k, op : op # h.op \/ k # id => (In(r, op, k) <=> In(q, op, k))
  BY DEF Only, In
<1>7. ~Attributed(a, id, w)
  BY <1>5 DEF SoundVerdicts
<1>8. \A k, v : Attributed(b, k, v) <=> Attributed(a, k, v) \/ (k = id /\ v = w)
  BY <1>2, <1>3, <1>4 DEF Attributed, n
<1>9. \A i, k \in 1 .. Len(b) : b[i].trade = b[k].trade /\ b[i].writer = b[k].writer => i = k
  <2>1. \A i \in 1 .. n : ~(a[i].trade = id /\ a[i].writer = w)
    BY <1>7 DEF Attributed, n
  <2>2. \A i, k \in 1 .. n : a[i].trade = a[k].trade /\ a[i].writer = a[k].writer => i = k
    BY DEF SoundVerdicts, n
  <2>3. 1 .. Len(b) = 1 .. n \cup {n + 1}
    BY <1>3, <1>4
  <2> QED
    BY <1>2, <1>4, <2>1, <2>2, <2>3
<1>10. \A i \in 1 .. Len(b) :
          /\ b[i].trade \in WiredOf(f, b[i].writer)
          /\ b[i].outcome = OutcomeFor(b[i].writer, f[b[i].trade].result)
  <2>1. \A i \in 1 .. n : /\ a[i].trade \in WiredOf(f, a[i].writer)
                          /\ a[i].outcome = OutcomeFor(a[i].writer, f[a[i].trade].result)
    BY DEF SoundVerdicts, n
  <2>2. 1 .. Len(b) = 1 .. n \cup {n + 1}
    BY <1>3, <1>4
  <2> QED
    BY <1>2, <1>4, <2>1, <2>2
<1>11. \A v \in {"panel", "journal"} : \A k \in WiredOf(f, v) :
          Attributed(b, k, v) <=> ~In(l, AttributionJob[v], k) /\ ~In(r, AttributionJob[v], k)
  <2> SUFFICES ASSUME NEW v \in {"panel", "journal"}, NEW k \in WiredOf(f, v)
               PROVE  Attributed(b, k, v) <=>
                          ~In(l, AttributionJob[v], k) /\ ~In(r, AttributionJob[v], k)
    OBVIOUS
  <2>1. CASE k = id /\ v = w
    BY <1>5, <1>8, <2>1
  <2>2. CASE k # id \/ v # w
    <3>1. AttributionJob[v] # h.op \/ k # id
      BY <2>2 DEF AttributionJob
    <3>2. Attributed(a, k, v) <=> ~In(l, AttributionJob[v], k) /\ ~In(q, AttributionJob[v], k)
      BY DEF SoundVerdicts
    <3> QED
      BY <1>6, <1>8, <2>2, <3>1, <3>2
  <2> QED
    BY <2>1, <2>2
<1>12. \A j \in l : j.op \in {"panel_attribution", "journal_attribution"} =>
          j = Job(j.op, j.id) /\ j.id \in WiredOf(f, Needs(j.op)) /\ ~In(r, j.op, j.id)
  <2>1. \A k, op : In(r, op, k) => In(q, op, k)
    BY DEF Only, In
  <2> QED
    BY <2>1 DEF SoundVerdicts
<1>13. SoundVerdicts(b, f, l, r)
  BY <1>4, <1>9, <1>10, <1>11, <1>12 DEF SoundVerdicts
<1> QED
  BY <1>13 DEF InsertAttribution, b, e

LEMMA TraceInsert ==
    ASSUME NEW h, NEW q, NEW r, q = {h} \cup r, h.op # "backfill_trade_id",
           NEW f, NEW y, y.packet \in 1 .. Len(f), y.packet \notin WiredOf(f, "panel"), y.trade = 0,
           y.table = "trader_reviews" => y.verdict = f[y.packet].votes[y.trader],
           h.op = "insert_panel_summary" => y.table = "panel_summaries" /\ y.packet = h.id,
           h.op = "insert_trader_review" =>
               y.table = "trader_reviews" /\ y.packet = h.id /\ y.trader = h.trader,
           NEW x, NEW l, SoundTrace(x, f, l, q)
    PROVE  SoundTrace(x \cup {y}, f, l, r)
<1>1. \A op, id : op # h.op => (In(r, op, id) <=> In(q, op, id))
  BY DEF In
<1>2. \A z \in x :
          /\ z.packet \in 1 .. Len(f)
          /\ z.trade # 0 => z.trade = z.packet /\ f[z.packet].status = "closed"
          /\ z.table = "trader_reviews" => z.verdict = f[z.packet].votes[z.trader]
          /\ z.packet \in WiredOf(f, "panel") =>
                \/ z.trade = z.packet
                \/ In(l, "backfill_trade_id", z.packet) \/ In(r, "backfill_trade_id", z.packet)
  BY <1>1 DEF SoundTrace
<1>3. ASSUME NEW id \in 1 .. Len(f), "panel" \in f[id].wired
      PROVE  /\ \/ In(l, "insert_panel_summary", id) \/ In(r, "insert_panel_summary", id)
                \/ \E z \in x \cup {y} : z.table = "panel_summaries" /\ z.packet = id
             /\ \A t \in Traders :
                   \/ Each("insert_trader_review", id, t) \in l \cup r
                   \/ \E z \in x \cup {y} : z.table = "trader_reviews" /\ z.packet = id /\ z.trader = t
  <2>1. \/ In(l, "insert_panel_summary", id) \/ In(q, "insert_panel_summary", id)
        \/ \E z \in x : z.table = "panel_summaries" /\ z.packet = id
    BY <1>3 DEF SoundTrace
  <2>2. In(q, "insert_panel_summary", id) => \/ In(r, "insert_panel_summary", id)
                                             \/ h.op = "insert_panel_summary" /\ h.id = id
    BY DEF In
  <2>3. ASSUME NEW t \in Traders
        PROVE  \/ Each("insert_trader_review", id, t) \in l \cup r
               \/ \E z \in x \cup {y} : z.table = "trader_reviews" /\ z.packet = id /\ z.trader = t
    <3>1. \/ Each("insert_trader_review", id, t) \in l \cup q
          \/ \E z \in x : z.table = "trader_reviews" /\ z.packet = id /\ z.trader = t
      BY <1>3 DEF SoundTrace
    <3>2. CASE h = Each("insert_trader_review", id, t)
      <4>1. h.op = "insert_trader_review" /\ h.id = id /\ h.trader = t
        BY <3>2 DEF Each
      <4> QED
        BY <4>1
    <3>3. CASE h # Each("insert_trader_review", id, t)
      BY <3>1, <3>3
    <3> QED
      BY <3>2, <3>3
  <2> QED
    BY <2>1, <2>2, <2>3
<1> QED
  BY <1>2, <1>3 DEF SoundTrace

LEMMA TraceBackfill ==
    ASSUME NEW h, NEW q, NEW r, Only(h, q, r), h.op = "backfill_trade_id",
           NEW f, h.id \in WiredOf(f, "panel"), h.id \in Nat,
           NEW x, x \subseteq TraceRec \cup ReviewRec, NEW l, SoundTrace(x, f, l, q)
    PROVE  SoundTrace(BackfillTradeId(x, h.id, h.id), f, l, r)
<1> DEFINE id == h.id
           Linked(z) == IF z.packet = id /\ z.trade = 0 THEN [z EXCEPT !.trade = id] ELSE z
           u == BackfillTradeId(x, id, id)
<1>1. u = {Linked(z) : z \in x}
  BY DEF BackfillTradeId
<1>2. ASSUME NEW z \in x
      PROVE  /\ Linked(z).table = z.table /\ Linked(z).packet = z.packet
             /\ z.table = "trader_reviews" =>
                   Linked(z).trader = z.trader /\ Linked(z).verdict = z.verdict
             /\ Linked(z).trade = IF z.packet = id /\ z.trade = 0 THEN id ELSE z.trade
  <2>1. CASE z \in TraceRec
    BY <2>1 DEF TraceRec, TraceTables
  <2>2. CASE z \in ReviewRec
    BY <2>2 DEF ReviewRec
  <2> QED
    BY <2>1, <2>2
<1> HIDE DEF Linked, u
<1>3. id \in 1 .. Len(f) /\ f[id].status = "closed" /\ id # 0
  <2>1. id \in 1 .. Len(f) /\ f[id].status = "closed"
    BY DEF WiredOf
  <2> QED
    BY <2>1
<1>4. \A k, op : op # h.op \/ k # id => (In(r, op, k) <=> In(q, op, k))
  BY DEF Only, In
<1>5. ASSUME NEW z \in x
      PROVE  /\ Linked(z).packet \in 1 .. Len(f)
             /\ Linked(z).trade # 0 => /\ Linked(z).trade = Linked(z).packet
                                       /\ f[Linked(z).packet].status = "closed"
             /\ Linked(z).table = "trader_reviews" =>
                   Linked(z).verdict = f[Linked(z).packet].votes[Linked(z).trader]
             /\ Linked(z).packet \in WiredOf(f, "panel") =>
                   \/ Linked(z).trade = Linked(z).packet
                   \/ In(l, "backfill_trade_id", Linked(z).packet)
                   \/ In(r, "backfill_trade_id", Linked(z).packet)
  <2>1. /\ z.packet \in 1 .. Len(f)
        /\ z.trade # 0 => z.trade = z.packet /\ f[z.packet].status = "closed"
        /\ z.table = "trader_reviews" => z.verdict = f[z.packet].votes[z.trader]
        /\ z.packet \in WiredOf(f, "panel") =>
              \/ z.trade = z.packet
              \/ In(l, "backfill_trade_id", z.packet) \/ In(q, "backfill_trade_id", z.packet)
    BY DEF SoundTrace
  <2>2. CASE z.packet = id
    BY <1>2, <1>3, <2>1, <2>2
  <2>3. CASE z.packet # id
    BY <1>2, <1>4, <2>1, <2>3
  <2> QED
    BY <2>2, <2>3
<1>6. ASSUME NEW k \in 1 .. Len(f), "panel" \in f[k].wired
      PROVE  /\ \/ In(l, "insert_panel_summary", k) \/ In(r, "insert_panel_summary", k)
                \/ \E y \in u : y.table = "panel_summaries" /\ y.packet = k
             /\ \A t \in Traders :
                   \/ Each("insert_trader_review", k, t) \in l \cup r
                   \/ \E y \in u : y.table = "trader_reviews" /\ y.packet = k /\ y.trader = t
  <2>1. \/ In(l, "insert_panel_summary", k) \/ In(q, "insert_panel_summary", k)
        \/ \E z \in x : z.table = "panel_summaries" /\ z.packet = k
    BY <1>6 DEF SoundTrace
  <2>2. ASSUME NEW t \in Traders
        PROVE  \/ Each("insert_trader_review", k, t) \in l \cup r
               \/ \E y \in u : y.table = "trader_reviews" /\ y.packet = k /\ y.trader = t
    <3>1. \/ Each("insert_trader_review", k, t) \in l \cup q
          \/ \E z \in x : z.table = "trader_reviews" /\ z.packet = k /\ z.trader = t
      BY <1>6 DEF SoundTrace
    <3>2. h # Each("insert_trader_review", k, t)
      BY DEF Each
    <3> QED
      BY <1>1, <1>2, <3>1, <3>2 DEF Only
  <2> QED
    BY <1>1, <1>2, <1>4, <2>1, <2>2
<1>7. \A y \in u : \E z \in x : y = Linked(z)
  BY <1>1
<1>8. SoundTrace(u, f, l, r)
  BY <1>5, <1>6, <1>7 DEF SoundTrace
<1> QED
  BY <1>8 DEF u

\* The reviews of one more trade of t are counted: e is the new record.
LEMMA CalibrationCounts ==
    ASSUME NEW t \in Traders, NEW id, NEW h, h = Each("calibrate", id, t),
           NEW q, NEW r, q = {h} \cup r, h \notin r,
           NEW f, Len(f) \in Nat, id \in LearnedOf(f), ~In(q, "query_reviews", id),
           NEW l, NEW m, m = l \/ m = l \cup {h},
           NEW c, SoundCalibration(c, f, l, q), NEW e \in CalibrationRec,
           e.reviews = c[t].reviews + 1 \/ e.reviews = 1,
           ~Disturbed(m, t) =>
               /\ e.reviews = c[t].reviews + 1
               /\ e.approvalsWon = c[t].approvalsWon + (IF id \in Won(f, t) THEN 1 ELSE 0)
    PROVE  SoundCalibration([c EXCEPT ![t] = e], f, m, r)
<1> DEFINE d == [c EXCEPT ![t] = e]
<1>1. c \in [Traders -> CalibrationRec]
  BY DEF SoundCalibration
<1>2. /\ d \in [Traders -> CalibrationRec] /\ d[t] = e
      /\ \A u \in Traders : u # t => d[u] = c[u]
  BY <1>1
<1> HIDE DEF d
<1>3. h.op = "calibrate" /\ h.trader = t /\ t # None
  BY RecordsAssumption DEF Each
<1>4. \A k : In(r, "query_reviews", k) <=> In(q, "query_reviews", k)
  BY <1>3 DEF In
<1>5. ASSUME NEW u \in Traders, u # t
      PROVE  Reviewed(f, r, u) = Reviewed(f, q, u) /\ (Disturbed(m, u) <=> Disturbed(l, u))
  <2>1. \A k : Each("calibrate", k, u) # h
    BY <1>3, <1>5 DEF Each
  <2>2. Reviewed(f, r, u) = Reviewed(f, q, u)
    BY <1>4, <2>1 DEF Reviewed
  <2>3. Disturbed(m, u) <=> Disturbed(l, u)
    BY <1>3, <1>5 DEF Disturbed
  <2> QED
    BY <2>2, <2>3
<1>6. Reviewed(f, r, t) = Reviewed(f, q, t) \cup {id} /\ id \notin Reviewed(f, q, t)
  <2>1. \A k : Each("calibrate", k, t) \in q <=> Each("calibrate", k, t) \in r \/ k = id
    BY DEF Each
  <2>2. Each("calibrate", id, t) \notin r
    OBVIOUS
  <2> QED
    BY <1>4, <2>1, <2>2 DEF Reviewed
<1>7. ASSUME NEW u \in Traders
      PROVE  /\ d[u].reviews <= Cardinality(Reviewed(f, r, u))
             /\ ~Disturbed(m, u) =>
                   /\ d[u].reviews = Cardinality(Reviewed(f, r, u))
                   /\ d[u].approvalsWon = Cardinality(Reviewed(f, r, u) \cap Won(f, u))
  <2>1. CASE u # t
    BY <1>2, <1>5, <2>1 DEF SoundCalibration
  <2>2. CASE u = t
    <3> DEFINE R == Reviewed(f, q, t)
               W == Won(f, t)
    <3>1. /\ c[t].reviews \in Nat /\ c[t].approvalsWon \in Nat
          /\ c[t].reviews <= Cardinality(R)
          /\ ~Disturbed(l, t) =>
                c[t].reviews = Cardinality(R) /\ c[t].approvalsWon = Cardinality(R \cap W)
      BY <1>1 DEF SoundCalibration, CalibrationRec
    <3>2. IsFiniteSet(R) /\ Cardinality(R) \in Nat
      BY ReviewedIs
    <3> HIDE DEF R, W
    <3>3. Cardinality(R \cup {id}) = Cardinality(R) + 1
      BY <1>6, <3>2, FS_AddElement DEF R
    <3>4. IsFiniteSet(R \cap W)
      BY <3>2, FS_Subset
    <3>5. Cardinality((R \cup {id}) \cap W) = Cardinality(R \cap W) + (IF id \in W THEN 1 ELSE 0)
      <4>1. CASE id \in W
        <5>1. (R \cup {id}) \cap W = (R \cap W) \cup {id} /\ id \notin R \cap W
          BY <1>6, <4>1 DEF R
        <5> QED
          BY <3>4, <4>1, <5>1, FS_AddElement
      <4>2. CASE id \notin W
        <5>1. (R \cup {id}) \cap W = R \cap W
          BY <4>2
        <5>2. Cardinality(R \cap W) \in Nat
          BY <3>4, FS_CardinalityType
        <5>3. Cardinality((R \cup {id}) \cap W) = Cardinality(R \cap W)
          BY <5>1
        <5>4. (IF id \in W THEN 1 ELSE 0) = 0
          BY <4>2
        <5> QED
          BY <5>2, <5>3, <5>4
      <4> QED
        BY <4>1, <4>2
    <3>6. ~Disturbed(m, t) => ~Disturbed(l, t)
      BY DEF Disturbed
    <3>7. e.reviews <= Cardinality(R) + 1
      BY <3>1, <3>2
    <3>8. ASSUME ~Disturbed(m, t)
          PROVE  e.reviews = Cardinality(R) + 1 /\ e.approvalsWon = Cardinality((R \cup {id}) \cap W)
      <4>1. c[t].reviews = Cardinality(R) /\ c[t].approvalsWon = Cardinality(R \cap W)
        BY <3>1, <3>6, <3>8
      <4>2. /\ e.reviews = c[t].reviews + 1
            /\ e.approvalsWon = c[t].approvalsWon + (IF id \in W THEN 1 ELSE 0)
        BY <3>8 DEF W
      <4> QED
        BY <3>5, <4>1, <4>2
    <3> QED
      BY <1>2, <1>6, <2>2, <3>3, <3>7, <3>8 DEF R, W
  <2> QED
    BY <2>1, <2>2
<1> QED
  BY <1>2, <1>7 DEF SoundCalibration, d

LEMMA CalibrationQueries ==
    ASSUME NEW h, NEW q, NEW r, Only(h, q, r), h.op = "query_reviews",
           NEW f, Len(f) \in Nat, h.id \in 1 .. Len(f), "panel" \in f[h.id].wired,
           NEW found, NEW z, \A j : j \in z <=> j \in r \/ \E t \in found : j = Each("calibrate", h.id, t),
           NEW x, NEW l, SoundTrace(x, f, l, q), \A j \in q : j.op # "insert_trader_review",
           \A t : t \in found <=> \E y \in ReviewsOf(x, h.id) : y.trader = t,
           NEW c, SoundCalibration(c, f, l, q)
    PROVE  SoundCalibration(c, f, l, z)
<1>1. \A id : In(z, "query_reviews", id) <=> In(r, "query_reviews", id)
  BY DEF In, Each
<1>2. \A id : In(r, "query_reviews", id) => In(q, "query_reviews", id)
  BY DEF Only, In
<1>3. \A id : In(q, "query_reviews", id) => In(r, "query_reviews", id) \/ id = h.id
  BY DEF Only, In
<1>4. In(q, "query_reviews", h.id)
  BY DEF Only, In
<1>5. ASSUME NEW t, NEW id
      PROVE  Each("calibrate", id, t) \in z <=>
                 Each("calibrate", id, t) \in q \/ (id = h.id /\ t \in found)
  <2>1. Each("calibrate", id, t) # h
    BY DEF Each
  <2>2. \A u : Each("calibrate", id, t) = Each("calibrate", h.id, u) <=> id = h.id /\ t = u
    BY DEF Each
  <2> QED
    BY <2>1, <2>2 DEF Only
<1>6. ASSUME NEW t \in Traders PROVE Reviewed(f, q, t) \subseteq Reviewed(f, z, t)
  BY <1>1, <1>2, <1>4, <1>5 DEF Reviewed
<1>7. ASSUME NEW t \in Traders, ~Disturbed(l, t) PROVE Reviewed(f, z, t) = Reviewed(f, q, t)
  <2>1. Each("insert_trader_review", h.id, t) \notin l \cup q
    <3> DEFINE j == Each("insert_trader_review", h.id, t)
    <3>1. j.op = "insert_trader_review" /\ j.trader = t
      BY DEF Each
    <3> HIDE DEF j
    <3>2. j \notin l /\ j \notin q
      BY <1>7, <3>1 DEF Disturbed
    <3> QED
      BY <3>2 DEF j
  <2>2. \E y \in x : y.table = "trader_reviews" /\ y.packet = h.id /\ y.trader = t
    BY <2>1 DEF SoundTrace
  <2>3. t \in found
    BY <2>2 DEF ReviewsOf
  <2>4. Reviewed(f, z, t) \subseteq Reviewed(f, q, t)
    BY <1>1, <1>3, <1>5, <2>3 DEF Reviewed
  <2> QED
    BY <1>6, <2>4
<1> QED
  BY <1>6, <1>7, CalibrationKeeps

\* One more trade of a family is counted: e is the new record.
LEMMA FamiliesCount ==
    ASSUME NEW h, NEW q, NEW r, Only(h, q, r), h.op = "family",
           NEW f, Len(f) \in Nat, h.id \in LearnedOf(f), f[h.id].family \in Families,
           NEW l, NEW m, NEW c, SoundFamilies(c, f, l, q), NEW e \in FamilyRec,
           e.total = e.wins + e.losses + e.breakevens,
           \/ /\ e.total = c[f[h.id].family].total + 1 /\ m = l
              /\ e.wins = c[f[h.id].family].wins + (IF h.id \in Gains(f) THEN 1 ELSE 0)
           \/ e.total = 1 /\ m = l \cup {h}
    PROVE  SoundFamilies([c EXCEPT ![f[h.id].family] = e], f, m, r)
<1> DEFINE x == f[h.id].family
           d == [c EXCEPT ![x] = e]
<1>1. c \in [Families -> FamilyRec]
  BY DEF SoundFamilies
<1>2. /\ d \in [Families -> FamilyRec] /\ d[x] = e
      /\ \A y \in Families : y # x => d[y] = c[y]
  BY <1>1
<1> HIDE DEF d
<1>3. \A id : /\ In(r, "family", id) => In(q, "family", id)
              /\ In(q, "family", id) => In(r, "family", id) \/ id = h.id
  BY DEF Only, In
<1>4. In(q, "family", h.id) /\ ~In(r, "family", h.id)
  BY DEF Only, In
<1>5. \A id : id # h.id => (In(m, "family", id) <=> In(l, "family", id))
  BY DEF In
<1>6. ASSUME NEW y \in Families, y # x
      PROVE  Filed(f, r, y) = Filed(f, q, y) /\ (Unlost(f, m, y) <=> Unlost(f, l, y))
  BY <1>3, <1>5, <1>6 DEF Filed, Unlost
<1>7. Filed(f, r, x) = Filed(f, q, x) \cup {h.id} /\ h.id \notin Filed(f, q, x)
  BY <1>3, <1>4 DEF Filed
<1>8. ASSUME NEW y \in Families
      PROVE  /\ d[y].total = d[y].wins + d[y].losses + d[y].breakevens
             /\ d[y].total <= Cardinality(Filed(f, r, y))
             /\ Unlost(f, m, y) => /\ d[y].total = Cardinality(Filed(f, r, y))
                                    /\ d[y].wins = Cardinality(Filed(f, r, y) \cap Gains(f))
  <2>1. CASE y # x
    BY <1>2, <1>6, <2>1 DEF SoundFamilies, Unlost
  <2>2. CASE y = x
    <3> DEFINE F == Filed(f, q, x)
               G == Gains(f)
    <3>1. /\ c[x].total \in Nat /\ c[x].total <= Cardinality(F) /\ c[x].wins \in Nat
          /\ Unlost(f, l, x) => c[x].total = Cardinality(F) /\ c[x].wins = Cardinality(F \cap G)
      BY <1>1 DEF SoundFamilies, FamilyRec, Unlost
    <3>2. IsFiniteSet(F) /\ Cardinality(F) \in Nat
      BY FiledIs
    <3> HIDE DEF F, G
    <3>3. Cardinality(F \cup {h.id}) = Cardinality(F) + 1
      BY <1>7, <3>2, FS_AddElement DEF F
    <3>4. m = l \cup {h} => ~Unlost(f, m, x)
      BY DEF Unlost, In
    <3>5. e.total = c[x].total + 1 \/ e.total = 1
      OBVIOUS
    <3>6. e.total <= Cardinality(F) + 1
      BY <3>1, <3>2, <3>5
    <3>7. Unlost(f, m, x) => e.total = Cardinality(F) + 1
      BY <3>1, <3>2, <3>4
    <3>8. /\ h.id \in G => Cardinality((F \cup {h.id}) \cap G) = Cardinality(F \cap G) + 1
          /\ h.id \notin G => Cardinality((F \cup {h.id}) \cap G) = Cardinality(F \cap G)
      <4>1. IsFiniteSet(F \cap G) /\ Cardinality(F \cap G) \in Nat
        BY <3>2, FS_Subset, FS_CardinalityType
      <4>2. CASE h.id \in G
        <5>1. (F \cup {h.id}) \cap G = (F \cap G) \cup {h.id} /\ h.id \notin F \cap G
          BY <1>7, <4>2 DEF F
        <5> QED
          BY <4>1, <4>2, <5>1, FS_AddElement
      <4>3. CASE h.id \notin G
        <5>1. (F \cup {h.id}) \cap G = F \cap G
          BY <4>3
        <5> QED
          BY <4>1, <4>3, <5>1
      <4> QED
        BY <4>2, <4>3
    <3>9. Unlost(f, m, x) => e.wins = Cardinality((F \cup {h.id}) \cap G)
      <4> SUFFICES ASSUME Unlost(f, m, x) PROVE e.wins = Cardinality((F \cup {h.id}) \cap G)
        OBVIOUS
      <4>1. /\ h.id \in G => e.wins = c[x].wins + 1
            /\ h.id \notin G => e.wins = c[x].wins + 0
            /\ m = l
        BY <3>4 DEF G
      <4> QED
        BY <3>1, <3>8, <4>1
    <3> QED
      BY <1>2, <1>7, <2>2, <3>3, <3>6, <3>7, <3>9 DEF F, G
  <2> QED
    BY <2>1, <2>2
<1> QED
  BY <1>2, <1>8 DEF SoundFamilies, Unlost, d, x

-----------------------------------------------------------------------------
(* A close: q and r the jobs to do before and after, i the trade, s what   *)
(* the session has wired.                                                  *)

Closing(f, g, i, s) ==
    /\ Len(f) \in Nat /\ Len(g) = Len(f) /\ i \in 1 .. Len(f)
    /\ f[i].status # "closed" /\ g[i].status = "closed"
    /\ f[i].wired = s /\ g[i].wired = s
    /\ g[i].votes = f[i].votes /\ g[i].family = f[i].family
    /\ \A k \in 1 .. Len(f) : k # i => g[k] = f[k]

CloseLearns(q, r, i, s) ==
    /\ \A j \in q : j.op \notin Learning \cup TraceOps
    /\ \A j \in r : /\ j.op \notin {"insert_panel_summary", "insert_trader_review", "calibrate"}
                    /\ j.op \in Learning => Needs(j.op) \in s /\ j.id = i
    /\ \A op \in Learning \ {"calibrate"} : Needs(op) \in s => In(r, op, i)

LEMMA ClosingIs ==
    ASSUME NEW f, NEW g, NEW i, NEW s, Closing(f, g, i, s)
    PROVE  /\ \A part : /\ i \notin WiredOf(f, part)
                        /\ \A id \in WiredOf(f, part) : id # i /\ g[id] = f[id]
                        /\ \A id : id \in WiredOf(g, part) <=>
                               id \in WiredOf(f, part) \/ (id = i /\ part \in s)
           /\ \A id \in LearnedOf(f) : id # i /\ g[id] = f[id]
           /\ \A id : id \in LearnedOf(g) <=> id \in LearnedOf(f) \/ (id = i /\ "journal" \in s)
           /\ ClosedOf(g) = ClosedOf(f) \cup {i} /\ i \notin ClosedOf(f)
<1>1. i \notin ClosedOf(f) /\ \A part : i \notin WiredOf(f, part)
  BY DEF Closing, WiredOf, ClosedOf
<1>2. \A part : \A id \in WiredOf(f, part) : id # i /\ g[id] = f[id]
  BY DEF Closing, WiredOf
<1>3. \A part, id : id \in WiredOf(g, part) <=>
                        id \in WiredOf(f, part) \/ (id = i /\ part \in s)
  BY DEF Closing, WiredOf
<1>4. ClosedOf(g) = ClosedOf(f) \cup {i}
  BY DEF Closing, ClosedOf
<1> QED
  BY <1>1, <1>2, <1>3, <1>4 DEF LearnedOf

LEMMA CloseLearnsIn ==
    ASSUME NEW q, NEW r, NEW i, NEW s, CloseLearns(q, r, i, s), NEW op \in Learning, NEW id
    PROVE  /\ ~In(q, op, id)
           /\ In(r, op, id) => Needs(op) \in s /\ id = i
           /\ Needs(op) \in s /\ op # "calibrate" => In(r, op, i)
  BY DEF CloseLearns, In

LEMMA TraceClose ==
    ASSUME NEW f, NEW g, NEW i, NEW s, Closing(f, g, i, s), NEW q, NEW r, CloseLearns(q, r, i, s),
           NEW x, NEW l, SoundTrace(x, f, l, q)
    PROVE  SoundTrace(x, g, l, r)
<1>1. \A id : ~In(q, "insert_panel_summary", id) /\ ~In(q, "backfill_trade_id", id)
  BY DEF CloseLearns, TraceOps, In
<1>2. ASSUME NEW z \in x
      PROVE  /\ z.packet \in 1 .. Len(g)
             /\ z.trade # 0 => z.trade = z.packet /\ g[z.packet].status = "closed"
             /\ z.table = "trader_reviews" => z.verdict = g[z.packet].votes[z.trader]
             /\ z.packet \in WiredOf(g, "panel") =>
                   \/ z.trade = z.packet
                   \/ In(l, "backfill_trade_id", z.packet) \/ In(r, "backfill_trade_id", z.packet)
  <2>1. /\ z.packet \in 1 .. Len(f)
        /\ z.trade # 0 => z.trade = z.packet /\ f[z.packet].status = "closed"
        /\ z.table = "trader_reviews" => z.verdict = f[z.packet].votes[z.trader]
        /\ z.packet \in WiredOf(f, "panel") =>
              z.trade = z.packet \/ In(l, "backfill_trade_id", z.packet)
    BY <1>1 DEF SoundTrace
  <2>2. z.packet = i /\ "panel" \in s => In(r, "backfill_trade_id", z.packet)
    BY DEF CloseLearns, Learning, Needs
  <2>3. z.packet \in WiredOf(g, "panel") <=>
            z.packet \in WiredOf(f, "panel") \/ (z.packet = i /\ "panel" \in s)
    BY ClosingIs
  <2>4. CASE z.packet = i
    BY <2>1, <2>2, <2>3, <2>4 DEF Closing
  <2>5. CASE z.packet # i
    BY <2>1, <2>3, <2>5 DEF Closing
  <2> QED
    BY <2>4, <2>5
<1>3. ASSUME NEW id \in 1 .. Len(g), "panel" \in g[id].wired
      PROVE  /\ \/ In(l, "insert_panel_summary", id) \/ In(r, "insert_panel_summary", id)
                \/ \E z \in x : z.table = "panel_summaries" /\ z.packet = id
             /\ \A t \in Traders :
                   \/ Each("insert_trader_review", id, t) \in l \cup r
                   \/ \E z \in x : z.table = "trader_reviews" /\ z.packet = id /\ z.trader = t
  <2>1. id \in 1 .. Len(f) /\ "panel" \in f[id].wired
    BY <1>3 DEF Closing
  <2>2. \A t : Each("insert_trader_review", id, t) \notin q
    BY DEF CloseLearns, TraceOps, Each
  <2> QED
    BY <1>1, <2>1, <2>2 DEF SoundTrace
<1> QED
  BY <1>2, <1>3 DEF SoundTrace

LEMMA VerdictsClose ==
    ASSUME NEW f, NEW g, NEW i, NEW s, Closing(f, g, i, s), NEW q, NEW r, CloseLearns(q, r, i, s),
           NEW a, NEW l, SoundVerdicts(a, f, l, q)
    PROVE  SoundVerdicts(a, g, l, r)
<1>1. \A w \in {"panel", "journal"} :
          AttributionJob[w] \in Learning \ {"calibrate"} /\ Needs(AttributionJob[w]) = w
  BY DEF AttributionJob, Learning, Needs
<1>2. \A part : /\ \A id \in WiredOf(f, part) : id # i /\ g[id] = f[id]
                /\ \A id : id \in WiredOf(g, part) <=>
                       id \in WiredOf(f, part) \/ (id = i /\ part \in s)
                /\ i \notin WiredOf(f, part)
  BY ClosingIs
<1>3. ASSUME NEW w \in {"panel", "journal"}, NEW id \in WiredOf(g, w)
      PROVE  Attributed(a, id, w) <=>
                 ~In(l, AttributionJob[w], id) /\ ~In(r, AttributionJob[w], id)
  <2>1. ~In(q, AttributionJob[w], id) /\ (In(r, AttributionJob[w], id) => id = i)
    BY <1>1, CloseLearnsIn
  <2>2. CASE id \in WiredOf(f, w)
    <3>1. Attributed(a, id, w) <=>
              ~In(l, AttributionJob[w], id) /\ ~In(q, AttributionJob[w], id)
      BY <2>2 DEF SoundVerdicts
    <3> QED
      BY <1>2, <2>1, <2>2, <3>1
  <2>3. CASE id = i /\ w \in s
    <3>1. In(r, AttributionJob[w], i)
      BY <1>1, <2>3 DEF CloseLearns
    <3>2. ~Attributed(a, id, w)
      BY <1>2, <2>3 DEF SoundVerdicts, Attributed
    <3> QED
      BY <2>3, <3>1, <3>2
  <2> QED
    BY <1>2, <2>2, <2>3
<1>4. \A k \in 1 .. Len(a) :
          /\ a[k].trade \in WiredOf(g, a[k].writer)
          /\ a[k].outcome = OutcomeFor(a[k].writer, g[a[k].trade].result)
  <2> SUFFICES ASSUME NEW k \in 1 .. Len(a)
               PROVE  /\ a[k].trade \in WiredOf(g, a[k].writer)
                      /\ a[k].outcome = OutcomeFor(a[k].writer, g[a[k].trade].result)
    OBVIOUS
  <2>1. /\ a[k].trade \in WiredOf(f, a[k].writer)
        /\ a[k].outcome = OutcomeFor(a[k].writer, f[a[k].trade].result)
    BY DEF SoundVerdicts
  <2> QED
    BY <1>2, <2>1
<1>5. ASSUME NEW j \in l, j.op \in AttributionOps
      PROVE  j = Job(j.op, j.id) /\ j.id \in WiredOf(g, Needs(j.op)) /\ ~In(r, j.op, j.id)
  <2>1. j = Job(j.op, j.id) /\ j.id \in WiredOf(f, Needs(j.op))
    BY <1>5 DEF SoundVerdicts, AttributionOps
  <2>2. j.op \in Learning
    BY <1>5 DEF Learning, AttributionOps
  <2> QED
    BY <1>2, <2>1, <2>2, CloseLearnsIn
<1>6. /\ a \in Seq(AttributionRec)
      /\ \A k, n \in 1 .. Len(a) : a[k].trade = a[n].trade /\ a[k].writer = a[n].writer => k = n
  BY DEF SoundVerdicts
<1> QED
  BY <1>3, <1>4, <1>5, <1>6 DEF SoundVerdicts, AttributionOps

LEMMA CalibrationClose ==
    ASSUME NEW f, NEW g, NEW i, NEW s, Closing(f, g, i, s), NEW q, NEW r, CloseLearns(q, r, i, s),
           NEW c, NEW l, SoundCalibration(c, f, l, q)
    PROVE  SoundCalibration(c, g, l, r)
<1>1. /\ \A id \in LearnedOf(f) : id # i /\ g[id] = f[id]
      /\ \A id : id \in LearnedOf(g) <=> id \in LearnedOf(f) \/ (id = i /\ "journal" \in s)
  BY ClosingIs
<1>2. \A id : /\ ~In(q, "query_reviews", id)
              /\ In(r, "query_reviews", id) => id = i
              /\ "journal" \in s => In(r, "query_reviews", i)
  BY CloseLearnsIn DEF Learning, Needs
<1>3. \A id, t : Each("calibrate", id, t) \notin q /\ Each("calibrate", id, t) \notin r
  BY DEF CloseLearns, Learning, Each
<1>4. ASSUME NEW t \in Traders
      PROVE  /\ Reviewed(g, r, t) = Reviewed(f, q, t)
             /\ Reviewed(f, q, t) \cap Won(g, t) = Reviewed(f, q, t) \cap Won(f, t)
  <2>1. Reviewed(g, r, t) = Reviewed(f, q, t)
    BY <1>1, <1>2, <1>3 DEF Reviewed
  <2>2. \A id \in Reviewed(f, q, t) : id \in Won(g, t) <=> id \in Won(f, t)
    <3>1. Len(g) = Len(f)
      BY DEF Closing
    <3> QED
      BY <1>1, <3>1 DEF Reviewed, Won
  <2> QED
    BY <2>1, <2>2
<1>5. Len(f) \in Nat /\ Len(g) \in Nat
  BY DEF Closing
<1> QED
  BY <1>4, <1>5, CalibrationKeeps

LEMMA FamiliesClose ==
    ASSUME NEW f, NEW g, NEW i, NEW s, Closing(f, g, i, s), NEW q, NEW r, CloseLearns(q, r, i, s),
           NEW c, NEW l, SoundFamilies(c, f, l, q)
    PROVE  SoundFamilies(c, g, l, r)
<1>1. /\ \A id \in LearnedOf(f) : id # i /\ g[id] = f[id]
      /\ \A id : id \in LearnedOf(g) <=> id \in LearnedOf(f) \/ (id = i /\ "journal" \in s)
  BY ClosingIs
<1>2. \A id : /\ ~In(q, "family", id)
              /\ In(r, "family", id) => id = i
              /\ "journal" \in s => In(r, "family", i)
  BY CloseLearnsIn DEF Learning, Needs
<1>3. \A x \in Families : Filed(g, r, x) = Filed(f, q, x)
  BY <1>1, <1>2 DEF Filed
<1>4. \A x \in Families : Unlost(g, l, x) => Unlost(f, l, x)
  BY <1>1 DEF Unlost
<1>5. ASSUME NEW x \in Families
      PROVE  Filed(f, q, x) \cap Gains(g) = Filed(f, q, x) \cap Gains(f)
  <2>1. Len(g) = Len(f)
    BY DEF Closing
  <2>2. \A id \in Filed(f, q, x) : id \in Gains(g) <=> id \in Gains(f)
    BY <1>1, <2>1 DEF Filed, Gains
  <2> QED
    BY <2>2
<1>6. Len(f) \in Nat /\ Len(g) \in Nat
  BY DEF Closing
<1> QED
  BY <1>3, <1>4, <1>6, <1>5, FamiliesKeep

\* The historian counts one more close.
LEMMA HistoryClose ==
    ASSUME NEW f, NEW g, NEW i, NEW s, Closing(f, g, i, s), NEW h, SoundHistory(h, f), NEW result
    PROVE  SoundHistory(RecordClosedTrade(h, result), g)
<1>1. IsFiniteSet(ClosedOf(f))
  BY LearnedFinite DEF Closing
<1>2. Cardinality(ClosedOf(g)) = Cardinality(ClosedOf(f)) + 1 /\ Cardinality(ClosedOf(f)) \in Nat
  BY <1>1, ClosingIs, FS_AddElement, FS_CardinalityType
<1>3. RecordClosedTrade(h, result).total = h.total + 1
  BY DEF RecordClosedTrade
<1> QED
  BY <1>2, <1>3 DEF SoundHistory

LEMMA HistoryForgotten ==
    ASSUME NEW f, Len(f) \in Nat PROVE SoundHistory(NoHistory, f)
<1>1. Cardinality(ClosedOf(f)) \in Nat
  BY LearnedFinite, FS_CardinalityType
<1>2. NoHistory.total = 0
  BY DEF NoHistory
<1> QED
  BY <1>1, <1>2 DEF SoundHistory

-----------------------------------------------------------------------------
(* Every step keeps the reckoning.                                         *)

LEMMA QueueIs ==
    ASSUME IInv
    PROVE  /\ ToSet(work) \subseteq JobRec
           /\ \A j \in ToSet(work) : j.op \in Learning =>
                 /\ j.id \in WiredOf(fate, Needs(j.op)) /\ j.id \in Nat
                 /\ j.op # "calibrate" => j = Job(j.op, j.id) /\ j.trader = None
<1>1. ToSet(work) \subseteq JobRec
  BY DEF IInv, SoundQueue, Sorted, ToSet
<1> SUFFICES ASSUME NEW j \in ToSet(work), j.op \in Learning
             PROVE  /\ j.id \in WiredOf(fate, Needs(j.op)) /\ j.id \in Nat
                    /\ j.op # "calibrate" => j = Job(j.op, j.id) /\ j.trader = None
  BY <1>1
<1>2. Needs(j.op) \in session.wired /\ Rank[j.op] \in 11 .. 19
  BY RankLearning DEF IInv, SoundQueue
<1>3. Is(fate, j.id, "closed") /\ fate[j.id].wired = session.wired
  BY <1>2 DEF IInv, SoundQueue
<1>4. j.id \in WiredOf(fate, Needs(j.op)) /\ j.id \in Nat
  BY <1>1, <1>2, <1>3 DEF WiredOf, Is, JobRec
<1>5. ASSUME j.op # "calibrate" PROVE j = Job(j.op, j.id) /\ j.trader = None
  <2>1. j \in [op : Ops, id : Nat, trader : Traders \cup {None}] /\ j.trader = None
    BY <1>1, <1>5 DEF JobRec, Repeated, Learning
  <2> QED
    BY <2>1 DEF Job
<1> QED
  BY <1>4, <1>5

LEMMA AlikeItself == ASSUME NEW f, Len(f) \in Nat PROVE Alike(f, f)
  BY DEF Alike

LEMMA FateLength == ASSUME IInv PROVE fate \in Seq(FateRec) /\ Len(fate) \in Nat
  BY DEF IInv, RecordsType

\* A step that attributes, counts and closes nothing.
LEMMA QuietReckons ==
    ASSUME IInv, Reckoning, Alike(fate, fate'),
           Drops(AttributionOps \cup ReviewOps \cup {"family"}, ToSet(work), ToSet(work'), lost, lost'),
           lost \subseteq lost',
           \A j \in ToSet(work) : j.op \in TraceOps => j \in lost' \cup ToSet(work'),
           \A id \in 1 .. Len(fate') : id \notin 1 .. Len(fate) /\ "panel" \in fate'[id].wired =>
               /\ In(ToSet(work'), "insert_panel_summary", id)
               /\ \A t \in Traders : Each("insert_trader_review", id, t) \in ToSet(work'),
           tables'.trace = tables.trace, tables'.attributions = tables.attributions,
           tables'.calibration = tables.calibration, tables'.families = tables.families,
           SoundHistory(memory'.hist, fate'), SoundAdvice(tables'.advice, fate')
    PROVE  Reckoning'
<1> DEFINE q == ToSet(work)
           r == ToSet(work')
           l == lost
           m == lost'
           all == AttributionOps \cup ReviewOps \cup {"family"}
<1>1. \A j \in q : /\ j.op \in AttributionOps => j = Job(j.op, j.id) /\ j.id \in WiredOf(fate, Needs(j.op))
                   /\ j.op = "query_reviews" => j.trader = None
  BY QueueIs DEF AttributionOps, Learning
<1>2. /\ SoundTrace(tables.trace, fate, l, q)
      /\ SoundVerdicts(tables.attributions, fate, l, q)
      /\ SoundCalibration(tables.calibration, fate, l, q)
      /\ SoundFamilies(tables.families, fate, l, q)
  BY DEF Reckoning
<1>3. Drops(AttributionOps, q, r, l, m) /\ Drops(ReviewOps, q, r, l, m) /\ Drops({"family"}, q, r, l, m)
  <2>1. Drops(all, q, r, l, m)
    OBVIOUS
  <2>2. AttributionOps \subseteq all /\ ReviewOps \subseteq all /\ {"family"} \subseteq all
    OBVIOUS
  <2> HIDE DEF q, r, l, m, all
  <2> QED
    BY <2>1, <2>2, DropsFewer
<1>4. l \subseteq m /\ \A j \in l \cup q : j.op \in TraceOps => j \in m \cup r
  OBVIOUS
<1> HIDE DEF q, r, l, m
<1>5. SoundTrace(tables.trace, fate', m, r)
  BY <1>2, <1>4, TraceQuiet DEF q, r, l, m
<1>6. SoundVerdicts(tables.attributions, fate', m, r)
  BY <1>1, <1>2, <1>3, VerdictsQuiet
<1>7. SoundCalibration(tables.calibration, fate', m, r)
  BY <1>1, <1>2, <1>3, <1>4, CalibrationQuiet
<1>8. SoundFamilies(tables.families, fate', m, r)
  BY <1>2, <1>3, FamiliesQuiet
<1> QED
  BY <1>5, <1>6, <1>7, <1>8 DEF Reckoning, r, m

\* A job done or failed: what its kind does not concern is as it was.
LEMMA JobReckons ==
    ASSUME IInv, Reckoning, work # <<>>, work' = Tail(work),
           Alike(fate, fate'), Len(fate') = Len(fate),
           lost' = lost \/ lost' = lost \cup {Head(work)},
           memory'.hist = memory.hist, tables'.advice = tables.advice,
           \/ tables'.trace = tables.trace /\ (Head(work).op \notin TraceOps \/ Head(work) \in lost')
           \/ SoundTrace(tables'.trace, fate', lost', ToSet(Tail(work))),
           \/ /\ tables'.attributions = tables.attributions
              /\ Head(work).op \notin AttributionOps \/ Head(work) \in lost'
           \/ SoundVerdicts(tables'.attributions, fate', lost', ToSet(Tail(work))),
           \/ /\ tables'.calibration = tables.calibration
              /\ Head(work).op \notin ReviewOps \/ Head(work) \in lost'
           \/ SoundCalibration(tables'.calibration, fate', lost', ToSet(Tail(work))),
           \/ tables'.families = tables.families /\ (Head(work).op # "family" \/ Head(work) \in lost')
           \/ SoundFamilies(tables'.families, fate', lost', ToSet(Tail(work)))
    PROVE  Reckoning'
<1> DEFINE h == Head(work)
           q == ToSet(work)
           r == ToSet(Tail(work))
           l == lost
           m == lost'
<1>1. \A j \in q : /\ j.op \in AttributionOps => j = Job(j.op, j.id) /\ j.id \in WiredOf(fate, Needs(j.op))
                   /\ j.op = "query_reviews" => j.trader = None
  BY QueueIs DEF AttributionOps, Learning
<1>2. /\ SoundTrace(tables.trace, fate, l, q)
      /\ SoundVerdicts(tables.attributions, fate, l, q)
      /\ SoundCalibration(tables.calibration, fate, l, q)
      /\ SoundFamilies(tables.families, fate, l, q)
      /\ SoundHistory(memory.hist, fate) /\ SoundAdvice(tables.advice, fate)
  BY DEF Reckoning
<1>3. Consumed(h, q, r, l, m) /\ (h.op \notin Repeated => Only(h, q, r))
  BY HeadTaken
<1>4. \A ops : h.op \notin ops \/ h \in m => Drops(ops, q, r, l, m)
  <2> HIDE DEF h, q, r, l, m
  <2> QED
    BY <1>3, DropsHead
<1>5. l \subseteq m
  OBVIOUS
<1> HIDE DEF h, q, r, l, m
<1>6. SoundTrace(tables'.trace, fate', m, r)
  <2>1. CASE tables'.trace = tables.trace /\ (h.op \notin TraceOps \/ h \in m)
    <3>1. \A j \in l \cup q : j.op \in TraceOps => j \in m \cup r
      BY <1>3, <1>5, <2>1 DEF Consumed
    <3> QED
      BY <1>2, <2>1, <3>1, TraceQuiet
  <2> QED
    BY <2>1 DEF h, r, m
<1>7. SoundVerdicts(tables'.attributions, fate', m, r)
  <2>1. CASE tables'.attributions = tables.attributions /\ (h.op \notin AttributionOps \/ h \in m)
    <3>1. Drops(AttributionOps, q, r, l, m)
      BY <1>4, <2>1
    <3> QED
      BY <1>1, <1>2, <2>1, <3>1, VerdictsQuiet
  <2> QED
    BY <2>1 DEF h, r, m
<1>8. SoundCalibration(tables'.calibration, fate', m, r)
  <2>1. CASE tables'.calibration = tables.calibration /\ (h.op \notin ReviewOps \/ h \in m)
    <3>1. Drops(ReviewOps, q, r, l, m)
      BY <1>4, <2>1
    <3> QED
      BY <1>1, <1>2, <1>5, <2>1, <3>1, CalibrationQuiet
  <2> QED
    BY <2>1 DEF h, r, m
<1>9. SoundFamilies(tables'.families, fate', m, r)
  <2>1. CASE tables'.families = tables.families /\ (h.op # "family" \/ h \in m)
    <3>1. Drops({"family"}, q, r, l, m)
      BY <1>4, <2>1
    <3> QED
      BY <1>2, <2>1, <3>1, FamiliesQuiet
  <2> QED
    BY <2>1 DEF h, r, m
<1>10. SoundHistory(memory'.hist, fate') /\ SoundAdvice(tables'.advice, fate')
  <2>1. LearnedOf(fate') = LearnedOf(fate) /\ ClosedOf(fate') = ClosedOf(fate)
    BY AlikeIs
  <2>2. SoundHistory(memory.hist, fate') /\ SoundAdvice(tables.advice, fate')
    BY <1>2, <2>1, MoreClosed DEF Alike
  <2> QED
    BY <2>2
<1>11. ToSet(work') = r
  BY DEF r
<1> QED
  BY <1>6, <1>7, <1>8, <1>9, <1>10, <1>11 DEF Reckoning, m

\* A statement on a table that holds rows.
LEMMA StatementReckons ==
    ASSUME IInv, Reckoning, work # <<>>,
           NEW table \in TableNames \ {"calibration", "families", "advice"}, NEW contents,
           Statement(table, contents),
           Alike(fate, fate'), Len(fate') = Len(fate), memory'.hist = memory.hist,
           Head(work).op \notin ReviewOps \cup {"family"},
           Head(work).op \in TraceOps => table = "trace",
           Head(work).op \in AttributionOps => table = "attributions",
           table = "trace" => SoundTrace(contents, fate', lost, ToSet(Tail(work))),
           table = "attributions" => SoundVerdicts(contents, fate', lost, ToSet(Tail(work)))
    PROVE  Reckoning'
<1>1. Has(tables, TableNames)
  BY DEF IInv, RecordsType
<1>2. /\ work' = Tail(work)
      /\ \A n \in TableNames : n # table => tables'[n] = tables[n]
      /\ \/ tables'[table] = contents /\ lost' = lost
         \/ tables' = tables /\ lost' = lost \cup {Head(work)}
  BY <1>1, StatementIs
<1>3. /\ tables'.advice = tables.advice /\ tables'.calibration = tables.calibration
      /\ tables'.families = tables.families
  BY <1>2 DEF TableNames
<1>4. \/ tables'.trace = tables.trace /\ (Head(work).op \notin TraceOps \/ Head(work) \in lost')
      \/ SoundTrace(tables'.trace, fate', lost', ToSet(Tail(work)))
  <2>1. CASE table = "trace"
    BY <1>2, <2>1
  <2>2. CASE table # "trace"
    BY <1>2, <2>2 DEF TableNames
  <2> QED
    BY <2>1, <2>2
<1>5. \/ /\ tables'.attributions = tables.attributions
         /\ Head(work).op \notin AttributionOps \/ Head(work) \in lost'
      \/ SoundVerdicts(tables'.attributions, fate', lost', ToSet(Tail(work)))
  <2>1. CASE table = "attributions"
    BY <1>2, <2>1
  <2>2. CASE table # "attributions"
    BY <1>2, <2>2 DEF TableNames
  <2> QED
    BY <2>1, <2>2
<1>6. Head(work).op \notin ReviewOps /\ Head(work).op # "family"
  OBVIOUS
<1>7. lost' = lost \/ lost' = lost \cup {Head(work)}
  BY <1>2
<1> QED
  BY <1>2, <1>3, <1>4, <1>5, <1>6, <1>7, JobReckons

\* Statements on tables the learning layer does not read.
LEMMA OtherRowsReckon ==
    ASSUME IInv, Reckoning,
           \/ LogTransitionJob \/ JournalEventJob \/ InsertTradeOpenJob \/ InsertEvaluatorVerdictsJob
           \/ UpdateRewardJob \/ UpdateTradeCloseJob \/ UpdateEvaluatorOutcomesJob
    PROVE  Reckoning'
<1> DEFINE other == {"transitions", "events", "trades", "evaluators"}
           done == {"log_transition", "risk_decision", "candidate_trade", "insert_trade_open",
                    "insert_evaluator_verdicts", "update_reward", "update_trade_close",
                    "update_evaluator_outcomes"}
<1>1. other \subseteq TableNames \ {"calibration", "families", "advice", "trace", "attributions"}
  BY DEF TableNames
<1>2. \A op \in done : op \notin ReviewOps \cup {"family"} \cup TraceOps \cup AttributionOps
  BY DEF ReviewOps, TraceOps, AttributionOps
<1>3. fate \in Seq(FateRec) /\ Has(memory, MemoryNames) /\ Alike(fate, fate)
  BY FateLength, AlikeItself DEF IInv, RecordsType
<1>4. ASSUME NEW table \in other, NEW contents, Statement(table, contents),
             work # <<>>, Head(work).op \in done,
             Alike(fate, fate'), Len(fate') = Len(fate), memory'.hist = memory.hist
      PROVE  Reckoning'
  <2>1. table # "trace" /\ table # "attributions"
    BY <1>1
  <2>2. table \in TableNames \ {"calibration", "families", "advice"}
    BY <1>1
  <2>3. /\ Head(work).op \notin ReviewOps \cup {"family"}
        /\ Head(work).op \notin TraceOps /\ Head(work).op \notin AttributionOps
    BY <1>2, <1>4
  <2> HIDE DEF other, done
  <2> QED
    BY <1>4, <2>1, <2>2, <2>3, StatementReckons
<1>5. ASSUME NEW table \in other, NEW contents, Statement(table, contents),
             work # <<>>, Head(work).op \in done, UNCHANGED <<memory, fate>>
      PROVE  Reckoning'
  <2>1. Alike(fate, fate') /\ Len(fate') = Len(fate) /\ memory'.hist = memory.hist
    BY <1>3, <1>5
  <2> HIDE DEF other, done
  <2> QED
    BY <1>4, <1>5, <2>1
<1>6. CASE LogTransitionJob
  BY <1>5, <1>6 DEF LogTransitionJob, At, ground
<1>7. CASE JournalEventJob
  BY <1>5, <1>7 DEF JournalEventJob, At, ground
<1>8. CASE UpdateRewardJob
  BY <1>5, <1>8 DEF UpdateRewardJob, At, ground
<1>9. CASE UpdateEvaluatorOutcomesJob
  BY <1>5, <1>9 DEF UpdateEvaluatorOutcomesJob, At, ground
<1>10. CASE InsertEvaluatorVerdictsJob
  <2>1. memory'.hist = memory.hist
    BY <1>3, <1>10, MemoryHas DEF InsertEvaluatorVerdictsJob, MemoryNames
  <2>2. fate' = fate /\ work # <<>> /\ Head(work).op = "insert_evaluator_verdicts"
    BY <1>10 DEF InsertEvaluatorVerdictsJob, ground, At
  <2>3. Alike(fate, fate') /\ Len(fate') = Len(fate)
    BY <1>3, <2>2
  <2> QED
    BY <1>4, <1>10, <2>1, <2>2, <2>3 DEF InsertEvaluatorVerdictsJob
<1>11. CASE UpdateTradeCloseJob
  <2>1. memory'.hist = memory.hist
    BY <1>3, <1>11, MemoryHas DEF UpdateTradeCloseJob, MemoryNames
  <2>2. fate' = fate /\ work # <<>> /\ Head(work).op = "update_trade_close"
    BY <1>11 DEF UpdateTradeCloseJob, ground, At
  <2>3. Alike(fate, fate') /\ Len(fate') = Len(fate)
    BY <1>3, <2>2
  <2> QED
    BY <1>4, <1>11, <2>1, <2>2, <2>3 DEF UpdateTradeCloseJob
<1>12. CASE InsertTradeOpenJob
  <2>1. memory'.hist = memory.hist
    BY <1>3, <1>12, MemoryHas DEF InsertTradeOpenJob, MemoryNames
  <2>2. work # <<>> /\ Head(work).op = "insert_trade_open"
    BY <1>12 DEF InsertTradeOpenJob, At
  <2>3. Is(fate, Id, "none")
    <3>1. Rank["insert_trade_open"] = 7 /\ Head(work) \in ToSet(work)
      BY <2>2, HeadIs, RankIs
    <3> QED
      BY <2>2, <3>1 DEF IInv, SoundQueue, Id
  <2>4. Became(fate, fate', Id, "open")
    <3>1. fate' = [fate EXCEPT ![Id].status = "open"]
      BY <1>12 DEF InsertTradeOpenJob
    <3> QED
      BY <1>3, <2>3, <3>1, BecameOpen DEF Is
  <2>5. Alike(fate, fate') /\ Len(fate') = Len(fate)
    <3>1. Len(fate) \in Nat
      BY FateLength
    <3> QED
      BY <2>3, <2>4, <3>1 DEF Became, Is, Alike
  <2> QED
    BY <1>4, <1>12, <2>1, <2>2, <2>5 DEF InsertTradeOpenJob
<1> QED
  BY <1>6, <1>7, <1>8, <1>9, <1>10, <1>11, <1>12

\* The attributor is wired after the trace logger.
LEMMA StagesIs == \A s \in Stages : "journal" \in s => "panel" \in s
  BY DEF Stages, Everything

\* The rows of a proposal: its trade is not closed yet, so nothing is to be linked.
LEMMA TraceReckons ==
    ASSUME IInv, Reckoning,
           \/ InsertSetupPacketJob \/ InsertTraderReviewJob
           \/ InsertPanelSummaryJob \/ InsertFinalDecisionJob
    PROVE  Reckoning'
<1> DEFINE h == Head(work)
           q == ToSet(work)
           r == ToSet(Tail(work))
           ops == {"insert_setup_packet", "insert_trader_review", "insert_panel_summary",
                   "insert_final_decision"}
<1>1. work # <<>> /\ h.op \in ops /\ fate' = fate
  BY DEF InsertSetupPacketJob, InsertTraderReviewJob, InsertPanelSummaryJob,
         InsertFinalDecisionJob, At, ground
<1>2. memory'.hist = memory.hist
  <2>1. Has(memory, MemoryNames)
    BY DEF IInv, RecordsType
  <2>2. CASE InsertFinalDecisionJob
    BY <2>1, <2>2, MemoryHas DEF InsertFinalDecisionJob, MemoryNames
  <2> QED
    BY <2>2 DEF InsertSetupPacketJob, InsertTraderReviewJob, InsertPanelSummaryJob
<1>3. /\ Alike(fate, fate') /\ Len(fate') = Len(fate)
  <2>1. Alike(fate, fate)
    BY FateLength, AlikeItself
  <2> QED
    BY <1>1, <2>1
<1>4. Id = h.id /\ Id \in 1 .. Len(fate) /\ Id \notin WiredOf(fate, "panel")
  <2>1. \A op \in ops : Rank[op] <= 7
    BY RankIs
  <2>2. Rank[h.op] <= 7 /\ h \in q
    BY <1>1, <2>1, HeadIs
  <2>3. Is(fate, h.id, "none")
    BY <2>2 DEF IInv, SoundQueue
  <2> QED
    BY <2>3 DEF Is, WiredOf, Id
<1>5. q = {h} \cup r /\ SoundTrace(tables.trace, fate, lost, q)
  BY <1>1, HeadTaken DEF Reckoning
<1>6. ASSUME NEW y, y.packet = Id, y.trade = 0,
             y.table = "trader_reviews" => y.verdict = fate[Id].votes[y.trader],
             h.op = "insert_panel_summary" => y.table = "panel_summaries",
             h.op = "insert_trader_review" => y.table = "trader_reviews" /\ y.trader = h.trader,
             Statement("trace", tables.trace \cup {y})
      PROVE  Reckoning'
  <2>1. h.op # "backfill_trade_id"
    BY <1>1
  <2> HIDE DEF h, q, r, ops
  <2>2. SoundTrace(tables.trace \cup {y}, fate, lost, r)
    BY <1>4, <1>5, <1>6, <2>1, TraceInsert
  <2>3. SoundTrace(tables.trace \cup {y}, fate', lost, r)
    BY <1>1, <2>2
  <2>4. /\ h.op \notin ReviewOps \cup {"family"} /\ h.op \notin AttributionOps
        /\ "trace" \in TableNames \ {"calibration", "families", "advice"}
    BY <1>1 DEF ops, ReviewOps, AttributionOps, TableNames
  <2> QED
    BY <1>1, <1>2, <1>3, <1>6, <2>3, <2>4, StatementReckons DEF h, r
<1> HIDE DEF q, r, ops
<1>7. CASE InsertSetupPacketJob
  <2> DEFINE y == TraceRow("setup_packets", Id)
  <2>1. Statement("trace", tables.trace \cup {y}) /\ h.op = "insert_setup_packet"
    BY <1>7 DEF InsertSetupPacketJob, InsertSetupPacket, At
  <2>2. y.packet = Id /\ y.trade = 0 /\ y.table = "setup_packets"
    BY DEF TraceRow
  <2> HIDE DEF y, h
  <2> QED
    BY <1>6, <2>1, <2>2
<1>8. CASE InsertTraderReviewJob
  <2> DEFINE t == h.trader
             y == ReviewRow(t, Id, fate[Id].votes[t])
  <2>1. Statement("trace", tables.trace \cup {y}) /\ h.op = "insert_trader_review"
    BY <1>8 DEF InsertTraderReviewJob, InsertTraderReview, At
  <2>2. /\ y.packet = Id /\ y.trade = 0 /\ y.table = "trader_reviews" /\ y.trader = t
        /\ y.verdict = fate[Id].votes[y.trader]
    BY DEF ReviewRow
  <2> HIDE DEF y, h
  <2> QED
    BY <1>6, <2>1, <2>2
<1>9. CASE InsertPanelSummaryJob
  <2> DEFINE y == TraceRow("panel_summaries", Id)
  <2>1. Statement("trace", tables.trace \cup {y}) /\ h.op = "insert_panel_summary"
    BY <1>9 DEF InsertPanelSummaryJob, InsertPanelSummary, At
  <2>2. y.packet = Id /\ y.trade = 0 /\ y.table = "panel_summaries"
    BY DEF TraceRow
  <2> HIDE DEF y, h
  <2> QED
    BY <1>6, <2>1, <2>2
<1>10. CASE InsertFinalDecisionJob
  <2> DEFINE y == TraceRow("final_decisions", Id)
  <2>1. Statement("trace", tables.trace \cup {y}) /\ h.op = "insert_final_decision"
    BY <1>10 DEF InsertFinalDecisionJob, InsertFinalDecision, At
  <2>2. y.packet = Id /\ y.trade = 0 /\ y.table = "final_decisions"
    BY DEF TraceRow
  <2> HIDE DEF y, h
  <2> QED
    BY <1>6, <2>1, <2>2
<1> QED
  BY <1>7, <1>8, <1>9, <1>10

\* The job of a close of the learning layer, and its trade.
LEMMA LearningHead ==
    ASSUME IInv, work # <<>>, Head(work).op \in Learning
    PROVE  /\ Id = Head(work).id /\ Id \in Nat /\ Id \in 1 .. Len(fate)
           /\ Id \in WiredOf(fate, Needs(Head(work).op)) /\ fate[Id] \in FateRec
           /\ Head(work).op # "calibrate" => Only(Head(work), ToSet(work), ToSet(Tail(work)))
<1> DEFINE h == Head(work)
<1>1. h \in ToSet(work) /\ (h.op \notin Repeated => Only(h, ToSet(work), ToSet(Tail(work))))
  BY HeadTaken
<1>2. h.id \in WiredOf(fate, Needs(h.op)) /\ h.id \in Nat
  BY <1>1, QueueIs
<1>3. h.op # "calibrate" => h.op \notin Repeated
  BY DEF Learning, Repeated
<1>4. h.id \in 1 .. Len(fate)
  BY <1>2 DEF WiredOf
<1>5. fate[h.id] \in FateRec
  BY <1>4, FateLength
<1> QED
  BY <1>1, <1>2, <1>3, <1>4, <1>5 DEF Id

LEMMA AttributionReckons ==
    ASSUME IInv, Reckoning, PanelAttributionJob \/ JournalAttributionJob
    PROVE  Reckoning'
<1> DEFINE h == Head(work)
           q == ToSet(work)
           r == ToSet(Tail(work))
<1>1. work # <<>> /\ h.op \in AttributionOps /\ fate' = fate /\ memory'.hist = memory.hist
  BY DEF PanelAttributionJob, JournalAttributionJob, At, ground, AttributionOps
<1>2. Alike(fate, fate') /\ Len(fate') = Len(fate)
  <2>1. Alike(fate, fate)
    BY FateLength, AlikeItself
  <2> QED
    BY <1>1, <2>1
<1>3. h.op \in Learning /\ h.op # "calibrate"
  BY <1>1 DEF AttributionOps, Learning
<1>4. /\ Id = h.id /\ Id \in Nat /\ Id \in WiredOf(fate, Needs(h.op)) /\ fate[Id] \in FateRec
      /\ Only(h, q, r)
  BY <1>1, <1>3, LearningHead
<1>5. fate[Id].result \in Results \cup {0}
  BY <1>4 DEF FateRec
<1>6. SoundVerdicts(tables.attributions, fate, lost, q)
  BY DEF Reckoning
<1>7. ASSUME NEW w \in {"panel", "journal"}, h.op = AttributionJob[w],
             Statement("attributions", InsertAttribution(tables.attributions, Id, Id,
                           OutcomeFor(w, fate[Id].result), fate[Id].result, w))
      PROVE  Reckoning'
  <2> DEFINE a == InsertAttribution(tables.attributions, Id, Id,
                           OutcomeFor(w, fate[Id].result), fate[Id].result, w)
  <2> HIDE DEF h, q, r
  <2>1. Id \in WiredOf(fate, w)
    BY <1>4, <1>7 DEF Needs, AttributionJob
  <2>2. SoundVerdicts(a, fate, lost, r)
    BY <1>4, <1>5, <1>6, <1>7, <2>1, VerdictsAppend
  <2>3. Statement("attributions", a)
    BY <1>7
  <2> HIDE DEF a
  <2>4. SoundVerdicts(a, fate', lost, r)
    BY <1>1, <2>2
  <2>5. /\ h.op \notin ReviewOps \cup {"family"} /\ h.op \notin TraceOps
        /\ "attributions" \in TableNames \ {"calibration", "families", "advice"}
    BY <1>1 DEF ReviewOps, AttributionOps, TraceOps, TableNames
  <2> QED
    BY <1>1, <1>2, <2>3, <2>4, <2>5, StatementReckons DEF h, r
<1>8. CASE PanelAttributionJob
  <2>1. h.op = AttributionJob["panel"] /\ OutcomeFor("panel", fate[Id].result) = SignOutcome(fate[Id].result)
    BY <1>8 DEF PanelAttributionJob, At, AttributionJob, OutcomeFor
  <2> HIDE DEF h
  <2> QED
    BY <1>7, <1>8, <2>1 DEF PanelAttributionJob
<1>9. CASE JournalAttributionJob
  <2>1. h.op = AttributionJob["journal"] /\ OutcomeFor("journal", fate[Id].result) = BandOutcome(fate[Id].result)
    BY <1>9 DEF JournalAttributionJob, At, AttributionJob, OutcomeFor
  <2> HIDE DEF h
  <2> QED
    BY <1>7, <1>9, <2>1 DEF JournalAttributionJob
<1> QED
  BY <1>8, <1>9

LEMMA BackfillReckons ==
    ASSUME IInv, Reckoning, BackfillTradeIdJob
    PROVE  Reckoning'
<1> DEFINE h == Head(work)
           q == ToSet(work)
           r == ToSet(Tail(work))
           x == BackfillTradeId(tables.trace, Id, Id)
<1>1. /\ work # <<>> /\ h.op = "backfill_trade_id" /\ fate' = fate /\ memory'.hist = memory.hist
      /\ Statement("trace", x)
  BY DEF BackfillTradeIdJob, At, ground
<1>2. Alike(fate, fate') /\ Len(fate') = Len(fate)
  <2>1. Alike(fate, fate)
    BY FateLength, AlikeItself
  <2> QED
    BY <1>1, <2>1
<1>3. Id = h.id /\ Id \in Nat /\ Id \in WiredOf(fate, "panel") /\ Only(h, q, r)
  <2>1. h.op \in Learning /\ h.op # "calibrate" /\ Needs(h.op) = "panel"
    BY <1>1 DEF Learning, Needs
  <2> QED
    BY <1>1, <2>1, LearningHead
<1>4. /\ SoundTrace(tables.trace, fate, lost, q)
      /\ tables.trace \subseteq TraceRec \cup ReviewRec
  BY DEF Reckoning, IInv, RecordsType
<1> HIDE DEF h, q, r
<1>5. SoundTrace(x, fate, lost, r)
  BY <1>1, <1>3, <1>4, TraceBackfill
<1> HIDE DEF x
<1>6. SoundTrace(x, fate', lost, r)
  BY <1>1, <1>5
<1>7. /\ h.op \notin ReviewOps \cup {"family"} /\ h.op \notin AttributionOps
      /\ "trace" \in TableNames \ {"calibration", "families", "advice"}
  BY <1>1 DEF ReviewOps, AttributionOps, TableNames
<1> QED
  BY <1>1, <1>2, <1>6, <1>7, StatementReckons DEF h, r

LEMMA KeepsPositionsReckons ==
    ASSUME IInv, Reckoning, KeepsPositions
    PROVE  Reckoning'
<1>1. /\ work # <<>> /\ Head(work).op = "exit" /\ work' = Tail(work)
      /\ fate' = fate /\ tables' = tables /\ lost' = lost /\ memory' = memory
  BY DEF KeepsPositions, At, ground
<1>2. Alike(fate, fate') /\ Len(fate') = Len(fate)
  <2>1. Alike(fate, fate)
    BY FateLength, AlikeItself
  <2> QED
    BY <1>1, <2>1
<1>3. /\ Head(work).op \notin TraceOps /\ Head(work).op \notin AttributionOps
      /\ Head(work).op \notin ReviewOps /\ Head(work).op # "family"
  BY <1>1 DEF TraceOps, AttributionOps, ReviewOps
<1> QED
  BY <1>1, <1>2, <1>3, JobReckons

\* The jobs that the tables of the learning layer are about.
Tallied == AttributionOps \cup ReviewOps \cup TraceOps \cup {"family"}

\* A step that closes and learns nothing, between two bars or sessions.
LEMMA IdleReckons ==
    ASSUME IInv, Reckoning, fate' = fate, lost \subseteq lost',
           \A j : j.op \in Tallied =>
               /\ j \in ToSet(work') <=> j \in ToSet(work)
               /\ j \in lost' <=> j \in lost,
           tables'.trace = tables.trace, tables'.attributions = tables.attributions,
           tables'.calibration = tables.calibration, tables'.families = tables.families,
           memory'.hist = memory.hist \/ memory'.hist = NoHistory,
           SoundAdvice(tables'.advice, fate)
    PROVE  Reckoning'
<1>1. Len(fate) \in Nat /\ Alike(fate, fate)
  BY FateLength, AlikeItself
<1>2. SoundHistory(memory'.hist, fate)
  BY <1>1, HistoryForgotten DEF Reckoning
<1> DEFINE q == ToSet(work)
           r == ToSet(work')
           all == AttributionOps \cup ReviewOps \cup {"family"}
<1>3. Drops(all, q, r, lost, lost')
  <2>1. \A j : j.op \in all => (j \in r <=> j \in q) /\ (j \in lost' <=> j \in lost)
    BY DEF Tallied
  <2> HIDE DEF q, r, all
  <2> QED
    BY <2>1, DropsNone
<1>4. /\ lost \subseteq lost'
      /\ \A j \in q : j.op \in TraceOps => j \in lost' \cup r
  BY DEF Tallied
<1>5. \A id \in 1 .. Len(fate') : id \notin 1 .. Len(fate) /\ "panel" \in fate'[id].wired =>
          /\ In(r, "insert_panel_summary", id)
          /\ \A t \in Traders : Each("insert_trader_review", id, t) \in r
  OBVIOUS
<1>6. Alike(fate, fate') /\ SoundHistory(memory'.hist, fate') /\ SoundAdvice(tables'.advice, fate')
  BY <1>1, <1>2
<1> QED
  BY <1>3, <1>4, <1>5, <1>6, QuietReckons

\* Rows of the diagnostics that were not written are not the tables'.
LEMMA UnwrittenTallied ==
    ASSUME NEW x, NEW l, NEW j, j.op \in Tallied
    PROVE  j \in l \cup Unwritten(x) <=> j \in l
<1>1. j \in Unwritten(x) => j.op = "diagnosis"
  BY UnwrittenIs
<1> QED
  BY <1>1 DEF Tallied, AttributionOps, ReviewOps, TraceOps

\* The journal's bar tells the diagnostics alone.
LEMMA OnBarReckons ==
    ASSUME IInv, Reckoning, NEW failed, OnBarJob(failed)
    PROVE  Reckoning'
<1>1. /\ work # <<>> /\ Head(work).op = "on_bar" /\ work' = Tail(work)
      /\ fate' = fate /\ tables' = tables /\ lost' = lost \cup Unwritten(failed)
  BY DEF OnBarJob, At, WritesFail, Unwritten
<1>2. memory'.hist = memory.hist
  <2> DEFINE y == AfterBar(memory.pending)
  <2>1. Has(memory, MemoryNames)
    BY DEF IInv, RecordsType
  <2>2. memory' = [memory EXCEPT !.pending = y]
    BY DEF OnBarJob
  <2> HIDE DEF y
  <2> QED
    BY <2>1, <2>2, MemoryHas DEF MemoryNames
<1>3. ASSUME NEW j, j.op \in Tallied
      PROVE  /\ j \in ToSet(work') <=> j \in ToSet(work)
             /\ j \in lost' <=> j \in lost
  <2>1. ToSet(work) = {Head(work)} \cup ToSet(Tail(work))
    BY <1>1, HeadTaken
  <2>2. j # Head(work)
    BY <1>1, <1>3 DEF Tallied, AttributionOps, ReviewOps, TraceOps
  <2>3. j \in lost' <=> j \in lost
    BY <1>1, <1>3, UnwrittenTallied
  <2> QED
    BY <1>1, <2>1, <2>2, <2>3
<1>4. lost \subseteq lost' /\ SoundAdvice(tables'.advice, fate)
  BY <1>1 DEF Reckoning
<1> QED
  BY <1>1, <1>2, <1>3, <1>4, IdleReckons

LEMMA SessionReckons ==
    ASSUME IInv, Reckoning,
           \/ \E wired \in Stages : Start(wired)
           \/ \E failed \in SUBSET memory.pending : Stop(failed)
           \/ QuietBar
    PROVE  Reckoning'
<1>1. /\ fate' = fate /\ tables' = tables
      /\ memory' = memory \/ memory' = NoMemory
      /\ work' = work \/ (work = <<>> /\ work' = BarEnds)
      /\ \E failed : lost' = lost \cup Unwritten(failed)
  <2>1. CASE \E wired \in Stages : Start(wired)
    <3>1. lost' = lost \cup Unwritten({})
      BY <2>1 DEF Start, Unwritten
    <3> QED
      BY <2>1, <3>1 DEF Start
  <2>2. CASE \E failed \in SUBSET memory.pending : Stop(failed)
    BY <2>2 DEF Stop, WritesFail, Unwritten
  <2>3. CASE QuietBar
    <3>1. lost' = lost \cup Unwritten({})
      BY <2>3 DEF QuietBar, Unwritten
    <3> QED
      BY <2>3, <3>1 DEF QuietBar
  <2> QED
    BY <2>1, <2>2, <2>3
<1>2. memory'.hist = memory.hist \/ memory'.hist = NoHistory
  BY <1>1 DEF NoMemory
<1>3. SoundAdvice(tables'.advice, fate) /\ lost \subseteq lost'
  BY <1>1 DEF Reckoning
<1>4. ASSUME NEW j, j.op \in Tallied
      PROVE  j \in ToSet(work') <=> j \in ToSet(work)
  <2>1. CASE work = <<>> /\ work' = BarEnds
    <3>1. ToSet(work) = {} /\ ToSet(work') = {Job("exit", 0), Job("on_bar", 0)}
      BY <2>1, NoJobs, BarEndsIs
    <3> QED
      BY <1>4, <3>1 DEF Job, Tallied, AttributionOps, ReviewOps, TraceOps
  <2>2. CASE work' = work
    BY <2>2
  <2> QED
    BY <1>1, <2>1, <2>2
<1>5. ASSUME NEW j, j.op \in Tallied
      PROVE  j \in lost' <=> j \in lost
  BY <1>1, <1>5, UnwrittenTallied
<1> QED
  BY <1>1, <1>2, <1>3, <1>4, <1>5, IdleReckons

\* A crash loses the jobs that waited; the diagnoses it adds are not for the tables.
LEMMA CrashReckons ==
    ASSUME IInv, Reckoning, Crash
    PROVE  Reckoning'
<1> DEFINE q == ToSet(work)
           due == {j.id : j \in {k \in q : k.op = "update_trade_close"}}
           d == {Job("diagnosis", id) : id \in due \cup {p.trade : p \in memory.pending}}
           all == AttributionOps \cup ReviewOps \cup {"family"}
<1>1. /\ lost' = (lost \cup q) \cup d /\ work' = <<>> /\ memory' = NoMemory
      /\ fate' = fate /\ tables' = tables
  BY DEF Crash, ToSet
<1>2. \A j \in d : j.op = "diagnosis"
  BY DEF Job
<1>3. ToSet(work') = {}
  BY <1>1, NoJobs
<1> HIDE DEF q, d
<1>4. Drops(all, q, {}, lost, lost')
  <2>1. \A j \in lost' : j.op \in all => j \in lost \cup q
    BY <1>1, <1>2 DEF AttributionOps, ReviewOps
  <2>2. lost \cup q \subseteq lost'
    BY <1>1
  <2> HIDE DEF all
  <2> QED
    BY <2>1, <2>2, DropsAll
<1>5. Len(fate) \in Nat /\ Alike(fate, fate') /\ fate' = fate
  BY <1>1, FateLength, AlikeItself
<1>6. SoundHistory(memory'.hist, fate') /\ SoundAdvice(tables'.advice, fate')
  <2>1. memory'.hist = NoHistory
    BY <1>1 DEF NoMemory
  <2> QED
    BY <1>1, <1>5, <2>1, HistoryForgotten DEF Reckoning
<1>7. /\ Drops(AttributionOps \cup ReviewOps \cup {"family"}, ToSet(work), ToSet(work'), lost, lost')
      /\ lost \subseteq lost'
      /\ \A j \in ToSet(work) : j.op \in TraceOps => j \in lost' \cup ToSet(work')
  BY <1>1, <1>3, <1>4 DEF q
<1>8. \A id \in 1 .. Len(fate') : id \in 1 .. Len(fate)
  BY <1>5
<1> QED
  BY <1>1, <1>5, <1>6, <1>7, <1>8, QuietReckons

\* A proposal: what its jobs will write is what the trace has to have of it.
LEMMA ProposalBarReckons ==
    ASSUME NEW action \in Actions, NEW verdict \in {"hold", "reject", "enter"}, NEW votes \in Panels,
           NEW family \in Families, IInv, Reckoning, ProposalBar(action, verdict, votes, family)
    PROVE  Reckoning'
<1> DEFINE x == [action |-> action, verdict |-> verdict, status |-> "none", result |-> 0,
                 votes |-> votes, family |-> family, wired |-> session.wired]
           n == Len(fate) + 1
           a == EvaluationJobs(n, verdict)
           c == ToSet(a)
           e == ToSet(BarEnds)
<1>1. /\ work = <<>> /\ work' = a \o BarEnds /\ fate' = Append(fate, x)
      /\ UNCHANGED <<tables, memory, lost>>
  BY DEF ProposalBar
<1>2. fate \in Seq(FateRec) /\ backtest \in BOOLEAN /\ session.wired \in Stages
  BY DEF IInv, RecordsType
<1>3. x.status = "none" /\ x.wired = session.wired /\ n \in Nat
  BY <1>2
<1>4. /\ Stretch(a, 1, 9, n)
      /\ "panel" \in session.wired =>
            /\ Job("insert_panel_summary", n) \in c
            /\ \A t \in Traders : Each("insert_trader_review", n, t) \in c
  BY <1>2, <1>3, EvaluationQueue
<1>5. Sorted(BarEnds) /\ e = {Job("exit", 0), Job("on_bar", 0)} /\ ToSet(work) = {}
  BY <1>1, BarEndsIs, NoJobs
<1>6. \A j \in e : j.op \in {"exit", "on_bar"}
  BY <1>5 DEF Job
<1>7. Rank["exit"] = 10 /\ Rank["on_bar"] = 20
  BY RankIs
<1> HIDE DEF x, a, c, e
<1>8. /\ Len(fate) \in Nat /\ Len(fate') = n /\ fate'[n] = x
      /\ \A i \in 1 .. Len(fate) : fate'[i] = fate[i]
  BY <1>1, <1>2, <1>3
<1>9. Sorted(a) /\ \A j \in c : Rank[j.op] \in 1 .. 9 /\ j.id = n
  BY <1>4 DEF Stretch, c
<1>10. ToSet(work') = c \cup e
  <2>1. \A i \in c, j \in e : Before(i, j)
    BY <1>6, <1>7, <1>9 DEF Before
  <2> QED
    BY <1>1, <1>5, <1>9, <2>1, Joined DEF c, e
<1>11. Alike(fate, fate')
  BY <1>3, <1>8 DEF Alike
<1>12. \A j \in c \cup e : j.op \notin Learning
  <2>1. \A j \in c : Rank[j.op] \in 1 .. 9
    BY <1>9
  <2>2. \A op : Rank[op] \in 1 .. 9 => op \notin Learning
    BY RankLearning
  <2> QED
    BY <1>6, <2>1, <2>2 DEF Learning
<1>13. Drops(AttributionOps \cup ReviewOps \cup {"family"}, ToSet(work), ToSet(work'), lost, lost')
  <2> DEFINE all == AttributionOps \cup ReviewOps \cup {"family"}
             r == ToSet(work')
  <2>1. all \subseteq Learning
    BY DEF AttributionOps, ReviewOps, Learning
  <2>2. \A j : j.op \in all => (j \in r <=> j \in {}) /\ (j \in lost' <=> j \in lost)
    BY <1>1, <1>10, <1>12, <2>1
  <2> HIDE DEF all, r
  <2>3. Drops(all, {}, r, lost, lost')
    BY <2>2, DropsNone
  <2> QED
    BY <1>5, <2>3 DEF all, r
<1>14. \A id \in 1 .. Len(fate') : id \notin 1 .. Len(fate) /\ "panel" \in fate'[id].wired =>
           /\ In(ToSet(work'), "insert_panel_summary", id)
           /\ \A t \in Traders : Each("insert_trader_review", id, t) \in ToSet(work')
  <2> SUFFICES ASSUME NEW id \in 1 .. Len(fate'), id \notin 1 .. Len(fate), "panel" \in fate'[id].wired
               PROVE  /\ In(ToSet(work'), "insert_panel_summary", id)
                      /\ \A t \in Traders : Each("insert_trader_review", id, t) \in ToSet(work')
    OBVIOUS
  <2>1. id = n
    BY <1>8
  <2>2. "panel" \in session.wired
    BY <1>3, <1>8, <2>1
  <2>3. Job("insert_panel_summary", n) \in c
        /\ \A t \in Traders : Each("insert_trader_review", n, t) \in c
    BY <1>4, <2>2
  <2> HIDE DEF n
  <2>4. In(c \cup e, "insert_panel_summary", n)
    BY <2>3 DEF In, Job
  <2> QED
    BY <1>10, <2>1, <2>3, <2>4
<1>15. SoundHistory(memory'.hist, fate') /\ SoundAdvice(tables'.advice, fate')
  <2>1. LearnedOf(fate') = LearnedOf(fate) /\ ClosedOf(fate') = ClosedOf(fate)
    BY <1>11, AlikeIs
  <2>2. SoundHistory(memory.hist, fate') /\ SoundAdvice(tables.advice, fate')
    BY <1>8, <2>1, MoreClosed DEF Reckoning
  <2> QED
    BY <1>1, <2>2
<1>16. lost \subseteq lost' /\ \A j \in ToSet(work) : j.op \in TraceOps => j \in lost' \cup ToSet(work')
  BY <1>1, <1>5
<1> QED
  BY <1>1, <1>11, <1>13, <1>14, <1>15, <1>16, QuietReckons

\* Advice rests on enough samples, and on no more than were counted.
LEMMA RecommendationsReckon ==
    ASSUME IInv, Reckoning, GenerateAllRecommendations
    PROVE  Reckoning'
<1> DEFINE traders == UNION {Advice(t, TraderAdvice(tables.calibration[t]), tables.calibration[t].reviews) :
                                t \in Traders}
           families == UNION {Advice(f, FamilyAdvice(tables.families[f]), tables.families[f].total) :
                                f \in Families}
<1>1. /\ work' = work /\ memory' = memory /\ lost' = lost /\ fate' = fate
      /\ tables' = [tables EXCEPT !.advice = (tables.advice \cup traders) \cup families]
  <2>1. work' = work /\ memory' = memory /\ lost' = lost /\ fate' = fate
    BY DEF GenerateAllRecommendations, ground
  <2>2. tables' = [tables EXCEPT !.advice = (tables.advice \cup traders) \cup families]
    BY DEF GenerateAllRecommendations
  <2> QED
    BY <2>1, <2>2
<1>2. Has(tables, TableNames) /\ Len(fate) \in Nat
  BY FateLength DEF IInv, RecordsType
<1>3. ASSUME NEW a \in traders
      PROVE  a.samples \in Nat /\ MinSamples <= a.samples /\ a.samples <= Cardinality(LearnedOf(fate))
  <2>1. PICK t \in Traders : a \in Advice(t, TraderAdvice(tables.calibration[t]), tables.calibration[t].reviews)
    BY <1>3
  <2> DEFINE c == tables.calibration[t]
  <2>2. TraderAdvice(c) # "none" /\ a.samples = c.reviews
    BY <2>1 DEF Advice
  <2>3. c.reviews \in Nat /\ c.reviews <= Cardinality(Reviewed(fate, ToSet(work), t))
    BY DEF Reckoning, SoundCalibration, CalibrationRec
  <2> HIDE DEF c
  <2>4. ~(c.reviews < MinSamples)
    BY <2>2 DEF TraderAdvice
  <2>5. /\ Cardinality(Reviewed(fate, ToSet(work), t)) <= Cardinality(LearnedOf(fate))
        /\ Cardinality(Reviewed(fate, ToSet(work), t)) \in Nat
    BY <1>2, ReviewedIs
  <2>6. Cardinality(LearnedOf(fate)) \in Nat
    BY <1>2, LearnedFinite, FS_CardinalityType
  <2> QED
    BY <2>2, <2>3, <2>4, <2>5, <2>6, MinSamplesAssumption
<1>4. ASSUME NEW a \in families
      PROVE  a.samples \in Nat /\ MinSamples <= a.samples /\ a.samples <= Cardinality(LearnedOf(fate))
  <2>1. PICK f \in Families : a \in Advice(f, FamilyAdvice(tables.families[f]), tables.families[f].total)
    BY <1>4
  <2> DEFINE c == tables.families[f]
  <2>2. FamilyAdvice(c) # "none" /\ a.samples = c.total
    BY <2>1 DEF Advice
  <2>3. c.total \in Nat /\ c.total <= Cardinality(Filed(fate, ToSet(work), f))
    BY DEF Reckoning, SoundFamilies, FamilyRec
  <2> HIDE DEF c
  <2>4. ~(c.total < MinSamples)
    BY <2>2 DEF FamilyAdvice
  <2>5. /\ Cardinality(Filed(fate, ToSet(work), f)) <= Cardinality(LearnedOf(fate))
        /\ Cardinality(Filed(fate, ToSet(work), f)) \in Nat
    BY <1>2, FiledIs
  <2>6. Cardinality(LearnedOf(fate)) \in Nat
    BY <1>2, LearnedFinite, FS_CardinalityType
  <2> QED
    BY <2>2, <2>3, <2>4, <2>5, <2>6, MinSamplesAssumption
<1> HIDE DEF traders, families
<1>5. SoundAdvice((tables.advice \cup traders) \cup families, fate)
  BY <1>3, <1>4 DEF SoundAdvice, Reckoning
<1>6. /\ tables'.advice = (tables.advice \cup traders) \cup families
      /\ tables'.trace = tables.trace /\ tables'.attributions = tables.attributions
      /\ tables'.calibration = tables.calibration /\ tables'.families = tables.families
  BY <1>1, <1>2 DEF Has, TableNames
<1>7. SoundAdvice(tables'.advice, fate)
  BY <1>5, <1>6
<1>8. /\ lost \subseteq lost'
      /\ \A j : (j \in ToSet(work') <=> j \in ToSet(work)) /\ (j \in lost' <=> j \in lost)
  BY <1>1
<1> QED
  BY <1>1, <1>6, <1>7, <1>8, IdleReckons

\* The reviews found become the updates to do.
LEMMA QueryReviewsReckons ==
    ASSUME IInv, Reckoning, QueryReviewsJob
    PROVE  Reckoning'
<1> DEFINE h == Head(work)
           q == ToSet(work)
           r == ToSet(Tail(work))
           found == {x.trader : x \in ReviewsOf(tables.trace, Id)}
           calls == {Each("calibrate", Id, t) : t \in found}
           z == r \cup calls
<1>1. work # <<>> /\ h.op = "query_reviews" /\ tables' = tables /\ memory' = memory /\ fate' = fate
  BY DEF QueryReviewsJob, At, ground
<1>2. Alike(fate, fate') /\ Len(fate') = Len(fate) /\ Len(fate) \in Nat
  BY <1>1, FateLength, AlikeItself
<1>3. /\ h.op \notin TraceOps /\ h.op \notin AttributionOps /\ h.op # "family"
      /\ h.op \in Learning /\ h.op # "calibrate"
  BY <1>1 DEF TraceOps, AttributionOps, Learning
<1>4. CASE work' = Tail(work) /\ Fails
  <2>1. lost' = lost \cup {h} /\ work' = Tail(work)
    BY <1>4 DEF Fails
  <2> QED
    BY <1>1, <1>2, <1>3, <2>1, JobReckons
<1>5. CASE /\ work' = <<work[2]>> \o ForEachTrader("calibrate", Id, found) \o Tail(Tail(work))
           /\ Succeeds
  <2>1. ToSet(work') = z /\ lost' = lost
    BY <1>1, <1>5, ReviewsQueued DEF Succeeds
  <2>2. /\ Id = h.id /\ Id \in 1 .. Len(fate) /\ Id \in LearnedOf(fate) /\ Only(h, q, r)
        /\ fate[Id].wired \in Stages
    <3>1. Needs(h.op) = "journal"
      BY <1>1 DEF Needs
    <3> QED
      BY <1>1, <1>3, <3>1, LearningHead DEF LearnedOf, FateRec
  <2>3. /\ SoundTrace(tables.trace, fate, lost, q)
        /\ SoundVerdicts(tables.attributions, fate, lost, q)
        /\ SoundCalibration(tables.calibration, fate, lost, q)
        /\ SoundFamilies(tables.families, fate, lost, q)
        /\ SoundHistory(memory.hist, fate) /\ SoundAdvice(tables.advice, fate)
    BY DEF Reckoning
  <2>4. \A j \in calls : j.op = "calibrate"
    BY DEF Each
  <2>5. \A j \in q : /\ j.op \in AttributionOps =>
                          j = Job(j.op, j.id) /\ j.id \in WiredOf(fate, Needs(j.op))
                     /\ j.op # "insert_trader_review"
    <3>1. \A j \in r : Rank[h.op] <= Rank[j.op]
      BY <1>1, HeadTaken
    <3>2. Rank["query_reviews"] = 15 /\ Rank["insert_trader_review"] = 3
      BY RankIs
    <3>3. \A j \in q : j.op # "insert_trader_review"
      BY <1>1, <2>2, <3>1, <3>2 DEF Only
    <3>4. \A j \in q : j.op \in AttributionOps =>
              j = Job(j.op, j.id) /\ j.id \in WiredOf(fate, Needs(j.op))
      BY QueueIs DEF AttributionOps, Learning
    <3> QED
      BY <3>3, <3>4
  <2>6. /\ \A j : j \in z <=> j \in r \/ \E t \in found : j = Each("calibrate", h.id, t)
        /\ \A t : t \in found <=> \E y \in ReviewsOf(tables.trace, h.id) : y.trader = t
    BY <2>2
  <2>7. "panel" \in fate[Id].wired
    BY <2>2, StagesIs DEF LearnedOf, WiredOf
  <2>8. Alike(fate, fate)
    BY <1>1, <1>2
  <2>9. q = {h} \cup r
    BY <2>2 DEF Only
  <2>10. z = r \cup calls
    OBVIOUS
  <2> HIDE DEF h, q, r, z, found, calls
  <2>11. SoundCalibration(tables.calibration, fate, lost, z)
    <3>1. h.id \in 1 .. Len(fate) /\ "panel" \in fate[h.id].wired
      BY <2>2, <2>7
    <3>2. \A j \in q : j.op # "insert_trader_review"
      BY <2>5
    <3>3. Only(h, q, r) /\ h.op = "query_reviews" /\ Len(fate) \in Nat
      BY <1>1, <1>2, <2>2
    <3>4. SoundTrace(tables.trace, fate, lost, q) /\ SoundCalibration(tables.calibration, fate, lost, q)
      BY <2>3
    <3> QED
      BY <2>6, <3>1, <3>2, <3>3, <3>4, CalibrationQueries
  <2>12. \A op : op # "query_reviews" /\ op # "calibrate" =>
             \A j : j.op = op => (j \in z <=> j \in q)
    BY <1>1, <2>4, <2>9, <2>10
  <2>13. Drops(AttributionOps, q, z, lost, lost) /\ Drops({"family"}, q, z, lost, lost)
    <3>1. \A j : j.op \in AttributionOps => (j \in z <=> j \in q) /\ (j \in lost <=> j \in lost)
      BY <2>12 DEF AttributionOps
    <3>2. \A j : j.op \in {"family"} => (j \in z <=> j \in q) /\ (j \in lost <=> j \in lost)
      BY <2>12
    <3> QED
      BY <3>1, <3>2, DropsNone
  <2>14. SoundVerdicts(tables.attributions, fate, lost, z)
    BY <2>3, <2>5, <2>8, <2>13, VerdictsQuiet
  <2>15. SoundFamilies(tables.families, fate, lost, z)
    BY <2>3, <2>8, <2>13, FamiliesQuiet
  <2>16. SoundTrace(tables.trace, fate, lost, z)
    <3>1. \A j \in lost \cup q : j.op \in TraceOps => j \in lost \cup z
      BY <2>12 DEF TraceOps
    <3> QED
      BY <2>3, <2>8, <3>1, TraceQuiet
  <2> QED
    BY <1>1, <2>1, <2>3, <2>11, <2>14, <2>15, <2>16 DEF Reckoning
<1>6. \/ /\ work' = <<work[2]>> \o ForEachTrader("calibrate", Id, found) \o Tail(Tail(work))
         /\ Succeeds
      \/ work' = Tail(work) /\ Fails
  BY DEF QueryReviewsJob
<1> QED
  BY <1>4, <1>5, <1>6

\* What an UPSERT does to the tables.
LEMMA UpsertIs ==
    ASSUME Has(tables, TableNames), NEW table \in {"calibration", "families"}, NEW key,
           NEW rec, NEW fresh, UpsertAfterRead(table, key, rec, fresh)
    PROVE  /\ work' = Tail(work)
           /\ \A n \in TableNames : n # table => tables'[n] = tables[n]
           /\ \/ tables'[table] = [tables[table] EXCEPT ![key] = rec] /\ lost' = lost
              \/ /\ tables'[table] = [tables[table] EXCEPT ![key] = fresh]
                 /\ lost' = lost \cup {Head(work)}
              \/ tables' = tables /\ lost' = lost \cup {Head(work)}
<1>1. \/ tables' = [tables EXCEPT ![table] = [tables[table] EXCEPT ![key] = rec]] /\ lost' = lost
      \/ /\ tables' = [tables EXCEPT ![table] = [tables[table] EXCEPT ![key] = fresh]]
         /\ lost' = lost \cup {Head(work)}
      \/ tables' = tables /\ lost' = lost \cup {Head(work)}
  BY DEF UpsertAfterRead, Upserted, Succeeds, Fails
<1>2. work' = Tail(work) /\ table \in TableNames
  BY DEF UpsertAfterRead, TableNames
<1>3. \A x : LET s == [tables EXCEPT ![table] = x]
             IN  s[table] = x /\ \A n \in TableNames : n # table => s[n] = tables[n]
  BY <1>2 DEF Has
<1> DEFINE x == [tables[table] EXCEPT ![key] = rec]
           y == [tables[table] EXCEPT ![key] = fresh]
<1>4. \/ tables' = [tables EXCEPT ![table] = x] /\ lost' = lost
      \/ tables' = [tables EXCEPT ![table] = y] /\ lost' = lost \cup {Head(work)}
      \/ tables' = tables /\ lost' = lost \cup {Head(work)}
  BY <1>1
<1> HIDE DEF x, y
<1>5. \/ tables'[table] = x /\ lost' = lost
      \/ tables'[table] = y /\ lost' = lost \cup {Head(work)}
      \/ tables' = tables /\ lost' = lost \cup {Head(work)}
  BY <1>3, <1>4
<1>6. \A n \in TableNames : n # table => tables'[n] = tables[n]
  BY <1>3, <1>4
<1> QED
  BY <1>2, <1>5, <1>6 DEF x, y

\* An undisturbed trader's review is the one it wrote of the proposal.
LEMMA ReviewRead ==
    ASSUME NEW x, NEW f, NEW l, NEW q, SoundTrace(x, f, l, q), NEW id \in 1 .. Len(f), "panel" \in f[id].wired,
           NEW t \in Traders, ~Disturbed(l, t), Each("insert_trader_review", id, t) \notin q
    PROVE  (CHOOSE y \in ReviewsOf(x, id) : y.trader = t).verdict = f[id].votes[t]
<1>1. Each("insert_trader_review", id, t) \notin l
  BY DEF Disturbed, Each
<1>2. \E y \in x : y.table = "trader_reviews" /\ y.packet = id /\ y.trader = t
  BY <1>1 DEF SoundTrace
<1>3. \E y \in ReviewsOf(x, id) : y.trader = t
  BY <1>2 DEF ReviewsOf
<1> DEFINE y == CHOOSE y \in ReviewsOf(x, id) : y.trader = t
<1>4. y \in ReviewsOf(x, id) /\ y.trader = t
  BY <1>3
<1> HIDE DEF y
<1>5. y \in x /\ y.table = "trader_reviews" /\ y.packet = id
  BY <1>4 DEF ReviewsOf
<1>6. y.verdict = f[id].votes[t]
  BY <1>4, <1>5 DEF SoundTrace
<1> QED
  BY <1>6 DEF y

LEMMA CalibratedIs ==
    ASSUME NEW rec \in CalibrationRec, NEW v, NEW o
    PROVE  LET e == Calibrated(rec, v, o)
           IN  /\ e \in CalibrationRec /\ e.reviews = rec.reviews + 1
               /\ v[1] = "approve" /\ o = "win" => e.approvalsWon = rec.approvalsWon + 1
               /\ ~(v[1] = "approve" /\ o = "win") => e.approvalsWon = rec.approvalsWon + 0
<1>1. \A condition : One(condition) \in Nat
  BY DEF One
<1>2. Calibrated(rec, v, o) \in CalibrationRec
  BY <1>1 DEF Calibrated, CalibrationRec
<1>3. /\ Calibrated(rec, v, o).reviews = rec.reviews + 1
      /\ Calibrated(rec, v, o).approvalsWon = rec.approvalsWon + One(v[1] = "approve" /\ o = "win")
  BY DEF Calibrated
<1>4. /\ v[1] = "approve" /\ o = "win" => One(v[1] = "approve" /\ o = "win") = 1
      /\ ~(v[1] = "approve" /\ o = "win") => One(v[1] = "approve" /\ o = "win") = 0
  BY DEF One
<1> QED
  BY <1>2, <1>3, <1>4

LEMMA CalibrateReckons ==
    ASSUME IInv, Reckoning, CalibrateJob
    PROVE  Reckoning'
<1> DEFINE h == Head(work)
           q == ToSet(work)
           r == ToSet(Tail(work))
           t == h.trader
           c == tables.calibration
           v == (CHOOSE y \in ReviewsOf(tables.trace, Id) : y.trader = t).verdict
           o == BandOutcome(fate[Id].result)
           After(rec) == Calibrated(rec, v, o)
<1>1. /\ work # <<>> /\ h.op = "calibrate" /\ fate' = fate /\ memory' = memory
      /\ UpsertAfterRead("calibration", t, After(c[t]), After(FreshCalibration))
  BY DEF CalibrateJob, At, ground
<1>2. /\ h \in JobRec /\ h \in q /\ q = {h} \cup r /\ h \notin r
      /\ \A j \in r : Rank[h.op] <= Rank[j.op]
  BY <1>1, HeadTaken
<1>3. Id = h.id /\ Id \in 1 .. Len(fate) /\ Id \in LearnedOf(fate) /\ fate[Id] \in FateRec
  <2>1. h.op \in Learning /\ Needs(h.op) = "journal"
    BY <1>1 DEF Learning, Needs
  <2> QED
    BY <1>1, <2>1, LearningHead DEF LearnedOf
<1>4. t \in Traders /\ h = Each("calibrate", Id, t)
  <2>1. t \in Traders
    BY <1>1, <1>2 DEF JobRec, Repeated
  <2>2. h = [op |-> h.op, id |-> h.id, trader |-> h.trader]
    BY <1>2 DEF JobRec
  <2> QED
    BY <1>1, <1>3, <2>1, <2>2 DEF Each
<1>5. ~In(q, "query_reviews", Id)
  BY <1>1, <1>2 DEF IInv, SoundQueue, In
<1>6. Each("insert_trader_review", Id, t) \notin q
  <2>1. Rank["calibrate"] = 17 /\ Rank["insert_trader_review"] = 3
    BY RankIs
  <2>2. \A j \in q : j.op # "insert_trader_review"
    BY <1>1, <1>2, <2>1
  <2> QED
    BY <2>2 DEF Each
<1>7. /\ SoundTrace(tables.trace, fate, lost, q) /\ SoundCalibration(c, fate, lost, q)
      /\ Len(fate) \in Nat /\ Has(tables, TableNames)
  BY FateLength DEF Reckoning, IInv, RecordsType
<1>8. c[t] \in CalibrationRec /\ FreshCalibration \in CalibrationRec /\ FreshCalibration.reviews = 0
  BY <1>4, <1>7 DEF SoundCalibration, FreshCalibration, CalibrationRec
<1>9. ~Disturbed(lost, t) => (v[1] = "approve" /\ o = "win" <=> Id \in Won(fate, t))
  <2> SUFFICES ASSUME ~Disturbed(lost, t) PROVE v[1] = "approve" /\ o = "win" <=> Id \in Won(fate, t)
    OBVIOUS
  <2>1. "panel" \in fate[Id].wired
    BY <1>3, StagesIs DEF LearnedOf, WiredOf, FateRec
  <2>2. v = fate[Id].votes[t]
    BY <1>3, <1>4, <1>6, <1>7, <2>1, ReviewRead
  <2>3. o = "win" <=> fate[Id].result > 5
    BY DEF BandOutcome
  <2> HIDE DEF v, o
  <2> QED
    BY <1>3, <2>2, <2>3 DEF Won
<1> DEFINE e == After(c[t])
           d == After(FreshCalibration)
<1>10. /\ e \in CalibrationRec /\ e.reviews = c[t].reviews + 1
       /\ v[1] = "approve" /\ o = "win" => e.approvalsWon = c[t].approvalsWon + 1
       /\ ~(v[1] = "approve" /\ o = "win") => e.approvalsWon = c[t].approvalsWon + 0
  BY <1>8, CalibratedIs
<1>11. d \in CalibrationRec /\ d.reviews = 1
  <2>1. d \in CalibrationRec /\ d.reviews = FreshCalibration.reviews + 1
    BY <1>8, CalibratedIs
  <2> QED
    BY <1>8, <2>1
<1>12. /\ work' = Tail(work) /\ tables'.trace = tables.trace /\ tables'.advice = tables.advice
       /\ tables'.attributions = tables.attributions /\ tables'.families = tables.families
       /\ \/ tables'.calibration = [c EXCEPT ![t] = e] /\ lost' = lost
          \/ tables'.calibration = [c EXCEPT ![t] = d] /\ lost' = lost \cup {h}
          \/ tables'.calibration = c /\ lost' = lost \cup {h}
  <2> HIDE DEF e, d, t
  <2>1. UpsertAfterRead("calibration", t, e, d)
    BY <1>1 DEF e, d
  <2> HIDE DEF After
  <2>2. /\ work' = Tail(work)
        /\ \A n \in TableNames : n # "calibration" => tables'[n] = tables[n]
        /\ \/ tables'["calibration"] = [tables["calibration"] EXCEPT ![t] = e] /\ lost' = lost
           \/ /\ tables'["calibration"] = [tables["calibration"] EXCEPT ![t] = d]
              /\ lost' = lost \cup {Head(work)}
           \/ tables' = tables /\ lost' = lost \cup {Head(work)}
    BY <1>7, <2>1, UpsertIs
  <2>3. /\ tables'.trace = tables.trace /\ tables'.advice = tables.advice
        /\ tables'.attributions = tables.attributions /\ tables'.families = tables.families
    BY <2>2 DEF TableNames
  <2> QED
    BY <2>2, <2>3
<1> HIDE DEF h, q, r, t, c, v, o, After, e, d
<1>13. h = Each("calibrate", Id, t) /\ h.op = "calibrate" /\ h.trader = t
  BY <1>1, <1>4 DEF h, t
<1>14. q = {h} \cup r /\ h \notin r /\ Id \in LearnedOf(fate) /\ t \in Traders
  BY <1>2, <1>3, <1>4
<1>15. SoundCalibration([c EXCEPT ![t] = e], fate, lost, r)
  <2>1. ~Disturbed(lost, t) =>
            /\ e.reviews = c[t].reviews + 1
            /\ e.approvalsWon = c[t].approvalsWon + (IF Id \in Won(fate, t) THEN 1 ELSE 0)
    BY <1>9, <1>10
  <2>2. e \in CalibrationRec /\ (e.reviews = c[t].reviews + 1 \/ e.reviews = 1)
    BY <1>10
  <2>3. SoundCalibration(c, fate, lost, q) /\ Len(fate) \in Nat
    BY <1>7
  <2> QED
    BY <1>5, <1>13, <1>14, <2>1, <2>2, <2>3, CalibrationCounts
<1>16. SoundCalibration([c EXCEPT ![t] = d], fate, lost \cup {h}, r)
  <2>1. Disturbed(lost \cup {h}, t)
    BY <1>13 DEF Disturbed
  <2>2. d \in CalibrationRec /\ (d.reviews = c[t].reviews + 1 \/ d.reviews = 1)
    BY <1>11
  <2>3. SoundCalibration(c, fate, lost, q) /\ Len(fate) \in Nat
    BY <1>7
  <2> DEFINE m == lost \cup {h}
  <2>4. m = lost \cup {h}
    OBVIOUS
  <2> HIDE DEF m
  <2>5. SoundCalibration([c EXCEPT ![t] = d], fate, m, r)
    <3>1. ~Disturbed(m, t) =>
              /\ d.reviews = c[t].reviews + 1
              /\ d.approvalsWon = c[t].approvalsWon + (IF Id \in Won(fate, t) THEN 1 ELSE 0)
      BY <2>1, <2>4
    <3>2. m = lost \/ m = lost \cup {h}
      BY <2>4
    <3> QED
      BY <1>5, <1>13, <1>14, <2>2, <2>3, <3>1, <3>2, CalibrationCounts
  <2> QED
    BY <2>4, <2>5
<1>17. \/ tables'.calibration = c /\ h \in lost'
       \/ SoundCalibration(tables'.calibration, fate', lost', r)
  BY <1>1, <1>12, <1>15, <1>16
<1>18. /\ Alike(fate, fate') /\ Len(fate') = Len(fate) /\ memory'.hist = memory.hist
       /\ h.op \notin TraceOps /\ h.op \notin AttributionOps /\ h.op # "family"
       /\ lost' = lost \/ lost' = lost \cup {h}
  <2>1. Alike(fate, fate)
    BY <1>7, AlikeItself
  <2> QED
    BY <1>1, <1>12, <1>13, <2>1 DEF TraceOps, AttributionOps
<1> QED
  BY <1>1, <1>12, <1>17, <1>18, JobReckons DEF h, r, c

LEMMA FamilyReckons ==
    ASSUME IInv, Reckoning, FamilyJob
    PROVE  Reckoning'
<1> DEFINE h == Head(work)
           q == ToSet(work)
           r == ToSet(Tail(work))
           c == tables.families
           x == fate[Id].family
           o == BandOutcome(fate[Id].result)
           e == FamilyUpdated(c[x], o, fate[Id].result)
           d == FamilyUpdated(FreshFamily, o, fate[Id].result)
<1>1. /\ work # <<>> /\ h.op = "family" /\ fate' = fate /\ memory' = memory
      /\ UpsertAfterRead("families", x, e, d)
  BY DEF FamilyJob, At, ground
<1>2. /\ Id = h.id /\ Id \in LearnedOf(fate) /\ fate[Id] \in FateRec /\ Only(h, q, r)
  <2>1. h.op \in Learning /\ h.op # "calibrate" /\ Needs(h.op) = "journal"
    BY <1>1 DEF Learning, Needs
  <2> QED
    BY <1>1, <2>1, LearningHead DEF LearnedOf
<1>3. /\ SoundFamilies(c, fate, lost, q) /\ Len(fate) \in Nat /\ Has(tables, TableNames)
  BY FateLength DEF Reckoning, IInv, RecordsType
<1>4. x \in Families /\ fate[Id].result \in Int
  <2>1. fate[Id].family \in Families /\ fate[Id].result \in Results \cup {0}
    BY <1>2 DEF FateRec
  <2>2. \A n \in Results : n \in Int
    BY RecordsAssumption
  <2> QED
    BY <2>1, <2>2
<1>5. ASSUME NEW rec \in FamilyRec, rec.total = rec.wins + rec.losses + rec.breakevens
      PROVE  LET n == FamilyUpdated(rec, o, fate[Id].result)
             IN  /\ n \in FamilyRec /\ n.total = rec.total + 1
                 /\ n.total = n.wins + n.losses + n.breakevens
                 /\ n.wins = rec.wins + One(o = "win")
  <2>1. o \in {"win", "loss", "breakeven"}
    BY DEF BandOutcome
  <2> HIDE DEF o, x
  <2>2. /\ One(o = "win") \in Nat /\ One(o = "loss") \in Nat /\ One(o \notin {"win", "loss"}) \in Nat
        /\ One(o = "win") + One(o = "loss") + One(o \notin {"win", "loss"}) = 1
    BY <2>1 DEF One
  <2> DEFINE n == FamilyUpdated(rec, o, fate[Id].result)
             i == One(o = "win")
             k == One(o = "loss")
             m == One(o \notin {"win", "loss"})
  <2>3. n = [total |-> rec.total + 1, wins |-> rec.wins + i, losses |-> rec.losses + k,
             breakevens |-> rec.breakevens + m, result |-> rec.result + fate[Id].result]
    BY DEF FamilyUpdated
  <2>4. i \in Nat /\ k \in Nat /\ m \in Nat /\ i + k + m = 1
    BY <2>2
  <2> HIDE DEF n, i, k, m
  <2>5. n \in FamilyRec /\ n.total = rec.total + 1
    BY <1>4, <2>3, <2>4 DEF FamilyRec
  <2>6. n.total = n.wins + n.losses + n.breakevens
    BY <1>5, <2>3, <2>4 DEF FamilyRec
  <2>7. n.wins = rec.wins + i
    BY <2>3
  <2> QED
    BY <2>5, <2>6, <2>7 DEF n, i
<1>6. /\ c[x] \in FamilyRec /\ c[x].total = c[x].wins + c[x].losses + c[x].breakevens
      /\ FreshFamily \in FamilyRec /\ FreshFamily.total = 0
      /\ FreshFamily.total = FreshFamily.wins + FreshFamily.losses + FreshFamily.breakevens
  <2>1. /\ FreshFamily \in FamilyRec /\ FreshFamily.total = 0
        /\ FreshFamily.total = FreshFamily.wins + FreshFamily.losses + FreshFamily.breakevens
    BY DEF FreshFamily, FamilyRec
  <2>2. c \in [Families -> FamilyRec] /\ \A y \in Families : c[y].total = c[y].wins + c[y].losses + c[y].breakevens
    BY <1>3 DEF SoundFamilies
  <2> HIDE DEF c, x
  <2> QED
    BY <1>4, <2>1, <2>2
<1>7. /\ e \in FamilyRec /\ e.total = c[x].total + 1 /\ e.total = e.wins + e.losses + e.breakevens
      /\ e.wins = c[x].wins + (IF Id \in Gains(fate) THEN 1 ELSE 0)
  <2>1. /\ e \in FamilyRec /\ e.total = c[x].total + 1 /\ e.total = e.wins + e.losses + e.breakevens
        /\ e.wins = c[x].wins + One(o = "win")
    BY <1>5, <1>6
  <2>2. One(o = "win") = IF Id \in Gains(fate) THEN 1 ELSE 0
    <3>1. Id \in 1 .. Len(fate)
      BY <1>2 DEF LearnedOf, WiredOf
    <3>2. o = "win" <=> fate[Id].result > 5
      BY DEF BandOutcome
    <3>3. o = "win" <=> Id \in Gains(fate)
      BY <3>1, <3>2 DEF Gains
    <3> HIDE DEF o
    <3> QED
      BY <3>3 DEF One
  <2> QED
    BY <2>1, <2>2
<1>8. d \in FamilyRec /\ d.total = 1 /\ d.total = d.wins + d.losses + d.breakevens
  <2>1. /\ d \in FamilyRec /\ d.total = FreshFamily.total + 1
        /\ d.total = d.wins + d.losses + d.breakevens
    BY <1>5, <1>6
  <2> QED
    BY <1>6, <2>1
<1>9. /\ work' = Tail(work) /\ tables'.trace = tables.trace /\ tables'.advice = tables.advice
      /\ tables'.attributions = tables.attributions /\ tables'.calibration = tables.calibration
      /\ \/ tables'.families = [c EXCEPT ![x] = e] /\ lost' = lost
         \/ tables'.families = [c EXCEPT ![x] = d] /\ lost' = lost \cup {h}
         \/ tables'.families = c /\ lost' = lost \cup {h}
  <2> HIDE DEF e, d, x
  <2>1. /\ work' = Tail(work)
        /\ \A n \in TableNames : n # "families" => tables'[n] = tables[n]
        /\ \/ tables'["families"] = [tables["families"] EXCEPT ![x] = e] /\ lost' = lost
           \/ /\ tables'["families"] = [tables["families"] EXCEPT ![x] = d]
              /\ lost' = lost \cup {Head(work)}
           \/ tables' = tables /\ lost' = lost \cup {Head(work)}
    BY <1>1, <1>3, UpsertIs
  <2>2. /\ tables'.trace = tables.trace /\ tables'.advice = tables.advice
        /\ tables'.attributions = tables.attributions /\ tables'.calibration = tables.calibration
    BY <2>1 DEF TableNames
  <2> QED
    BY <2>1, <2>2
<1>10. x = fate[h.id].family /\ Id = h.id
  BY <1>2
<1> HIDE DEF h, q, r, c, x, o, e, d
<1>11. Only(h, q, r) /\ h.op = "family" /\ h.id \in LearnedOf(fate) /\ fate[h.id].family \in Families
  BY <1>1, <1>2, <1>4, <1>10
<1>12. SoundFamilies([c EXCEPT ![x] = e], fate, lost, r)
  <2>1. SoundFamilies([c EXCEPT ![fate[h.id].family] = e], fate, lost, r)
    BY <1>3, <1>7, <1>10, <1>11, FamiliesCount
  <2> QED
    BY <1>10, <2>1
<1>13. SoundFamilies([c EXCEPT ![x] = d], fate, lost \cup {h}, r)
  <2> DEFINE m == lost \cup {h}
  <2>1. m = lost \cup {h}
    OBVIOUS
  <2> HIDE DEF m
  <2>2. SoundFamilies([c EXCEPT ![fate[h.id].family] = d], fate, m, r)
    BY <1>3, <1>8, <1>11, <2>1, FamiliesCount
  <2> QED
    BY <1>10, <2>1, <2>2
<1>14. \/ tables'.families = c /\ h \in lost'
       \/ SoundFamilies(tables'.families, fate', lost', r)
  BY <1>1, <1>9, <1>12, <1>13
<1>15. /\ Alike(fate, fate') /\ Len(fate') = Len(fate) /\ memory'.hist = memory.hist
       /\ h.op \notin TraceOps /\ h.op \notin AttributionOps /\ h.op \notin ReviewOps
       /\ lost' = lost \/ lost' = lost \cup {h}
  <2>1. Alike(fate, fate)
    BY <1>3, AlikeItself
  <2> QED
    BY <1>1, <1>9, <2>1 DEF TraceOps, AttributionOps, ReviewOps
<1> QED
  BY <1>1, <1>9, <1>14, <1>15, JobReckons DEF h, r, c

\* A close: the trade is learned of, and the jobs that will learn of it wait.
LEMMA ClosePositionReckons ==
    ASSUME NEW p \in memory.open, NEW result \in Results, IInv, Reckoning, ClosePosition(p, result)
    PROVE  Reckoning'
<1> DEFINE h == Head(work)
           q == ToSet(work)
           k == ToSet(CloseJobs(p))
           u == ToSet(Tail(work))
           i == p.id
           s == session.wired
<1>1. work # <<>> /\ h.op = "exit" /\ UNCHANGED <<tables, lost>>
  BY DEF ClosePosition, At
<1>2. /\ SoundQueue(Tail(work), fate, session.wired)
      /\ h \in JobRec /\ h \in q /\ q = {h} \cup u
      /\ h.op \notin Repeated => Only(h, q, u)
      /\ \A j \in u : Rank[h.op] <= Rank[j.op]
  BY <1>1, HeadTaken
<1>3. /\ p \in PositionRec /\ Is(fate, i, "open") /\ fate[i].wired = s
      /\ backtest \in BOOLEAN /\ s \in Stages /\ fate \in Seq(FateRec)
  BY DEF IInv, RecordsType, SoundPositions
<1>4. i \in Nat /\ p.snap \in Nat /\ i \in 1 .. Len(fate) /\ Len(fate) \in Nat
  BY <1>3 DEF PositionRec, Is
<1>5. /\ Stretch(CloseJobs(p), 11, 19, i)
      /\ \A j \in k : (j.op \in Learning => Needs(j.op) \in s) /\ j.op \notin Repeated
      /\ \A op \in Learning \ {"calibrate"} : Needs(op) \in s => Job(op, i) \in k
  BY <1>3, <1>4, CloseQueue
<1> HIDE DEF h, q, k, u
<1>6. \A j \in u : j.op = "on_bar"
  <2> SUFFICES ASSUME NEW j \in u PROVE j.op = "on_bar"
    OBVIOUS
  <2>1. Rank[j.op] <= 10 \/ j.op = "on_bar"
    BY <1>1, <1>2 DEF IInv, SoundQueue, q
  <2>2. j.op # "exit" /\ Rank[h.op] <= Rank[j.op] /\ Rank[h.op] = 10
    BY <1>1, <1>2, RankIs DEF Repeated, Only
  <2>3. j.op \in Ops
    <3>1. Tail(work) \in Seq(JobRec)
      BY <1>2 DEF SoundQueue, Sorted
    <3>2. j \in JobRec
      BY <3>1 DEF u, ToSet
    <3> QED
      BY <3>2 DEF JobRec
  <2>4. Rank[j.op] = 10 => j.op = "exit"
    BY <2>3, RankIs, RankTells
  <2>5. Rank[j.op] \in Nat
    BY <2>3, RankType
  <2> QED
    BY <2>1, <2>2, <2>4, <2>5
<1>7. \A j \in k : Rank[j.op] \in 11 .. 19 /\ j.id = i
  BY <1>5 DEF Stretch, k
<1>8. ToSet(work') = k \cup u
  <2>1. work' = CloseJobs(p) \o Tail(work)
    BY DEF ClosePosition
  <2>2. Sorted(CloseJobs(p)) /\ Sorted(Tail(work))
    BY <1>2, <1>5 DEF Stretch, SoundQueue
  <2>3. \A m \in k, j \in u : Before(m, j)
    BY <1>6, <1>7, RankIs DEF Before
  <2> QED
    BY <2>1, <2>2, <2>3, Joined DEF k, u
<1>9. fate' \in Seq(FateRec) /\ Became(fate, fate', i, "closed")
  <2>1. fate' = [fate EXCEPT ![p.id].status = "closed", ![p.id].result = result]
    BY DEF ClosePosition
  <2> QED
    BY <1>3, <1>4, <2>1, BecameClosed
<1>10. memory'.hist = RecordClosedTrade(memory.hist, result)
  <2> DEFINE y == RecordClosedTrade(memory.hist, result)
             o == memory.open \ {p}
             m == [memory EXCEPT !.open = o]
  <2>1. memory' = [m EXCEPT !.hist = y]
    BY DEF ClosePosition
  <2>2. Has(memory, MemoryNames)
    BY DEF IInv, RecordsType
  <2> HIDE DEF y, o
  <2>3. Has(m, MemoryNames)
    BY <2>2, MemoryHas DEF MemoryNames
  <2> HIDE DEF m
  <2>4. memory'.hist = y
    BY <2>1, <2>3 DEF Has, MemoryNames
  <2> QED
    BY <2>4 DEF y
<1> DEFINE r == k \cup u
<1>11. CloseLearns(q, r, i, s)
  <2>1. \A j \in q : j.op \in {"exit", "on_bar"}
    BY <1>1, <1>2, <1>6
  <2>2. \A j \in q : j.op \notin Learning \cup TraceOps
    BY <2>1 DEF Learning, TraceOps
  <2>3. ASSUME NEW j \in k
        PROVE  /\ j.op \notin {"insert_panel_summary", "insert_trader_review", "calibrate"}
               /\ j.op \in Learning => Needs(j.op) \in s /\ j.id = i
    <3>1. Rank["insert_panel_summary"] = 4
      BY RankIs
    <3>2. /\ j.op \notin Repeated /\ Rank[j.op] \in 11 .. 19 /\ j.id = i
          /\ (j.op \in Learning => Needs(j.op) \in s)
      BY <1>5, <1>7, <2>3
    <3>3. j.op # "insert_panel_summary"
      BY <3>1, <3>2
    <3> QED
      BY <3>2, <3>3 DEF Repeated
  <2>4. \A j \in u : /\ j.op \notin {"insert_panel_summary", "insert_trader_review", "calibrate"}
                     /\ j.op \notin Learning
    BY <1>6 DEF Learning
  <2>5. ASSUME NEW op \in Learning \ {"calibrate"}, Needs(op) \in s PROVE In(r, op, i)
    <3>1. Job(op, i) \in k
      BY <1>5, <2>5
    <3> QED
      BY <3>1 DEF In, Job
  <2> QED
    BY <2>2, <2>3, <2>4, <2>5 DEF CloseLearns
<1>12. Closing(fate, fate', i, s)
  <2>1. /\ Len(fate') = Len(fate) /\ fate'[i].status = "closed"
        /\ fate'[i].wired = fate[i].wired /\ fate'[i].votes = fate[i].votes
        /\ fate'[i].family = fate[i].family
        /\ \A n \in 1 .. Len(fate) : n # i => fate'[n] = fate[n]
    BY <1>4, <1>9 DEF Became
  <2>2. fate[i].status # "closed"
    BY <1>3 DEF Is
  <2> QED
    BY <1>3, <1>4, <2>1, <2>2 DEF Closing
<1>13. /\ SoundTrace(tables.trace, fate, lost, q)
       /\ SoundVerdicts(tables.attributions, fate, lost, q)
       /\ SoundCalibration(tables.calibration, fate, lost, q)
       /\ SoundFamilies(tables.families, fate, lost, q)
       /\ SoundHistory(memory.hist, fate) /\ SoundAdvice(tables.advice, fate)
  BY DEF Reckoning, q
<1> HIDE DEF r, i, s
<1>14. /\ SoundTrace(tables.trace, fate', lost, r)
       /\ SoundVerdicts(tables.attributions, fate', lost, r)
       /\ SoundCalibration(tables.calibration, fate', lost, r)
       /\ SoundFamilies(tables.families, fate', lost, r)
  BY <1>11, <1>12, <1>13, TraceClose, VerdictsClose, CalibrationClose, FamiliesClose
<1>15. SoundHistory(memory'.hist, fate')
  <2>1. SoundHistory(RecordClosedTrade(memory.hist, result), fate')
    BY <1>12, <1>13, HistoryClose
  <2> QED
    BY <1>10, <2>1
<1>16. SoundAdvice(tables.advice, fate')
  <2>1. /\ Len(fate) \in Nat /\ Len(fate') \in Nat
        /\ LearnedOf(fate) \subseteq LearnedOf(fate') /\ ClosedOf(fate) \subseteq ClosedOf(fate')
    BY <1>12, ClosingIs DEF Closing
  <2> QED
    BY <1>13, <2>1, MoreClosed
<1> QED
  BY <1>1, <1>8, <1>14, <1>15, <1>16 DEF Reckoning, r

LEMMA ReckoningInit == Init => Reckoning
<1> SUFFICES ASSUME Init PROVE Reckoning
  OBVIOUS
<1>1. /\ work = <<>> /\ memory = NoMemory /\ fate = <<>> /\ lost = {}
      /\ tables = [trades |-> {}, events |-> {}, trace |-> {}, transitions |-> {},
                   attributions |-> <<>>, evaluators |-> {}, advice |-> {},
                   calibration |-> [t \in Traders |-> FreshCalibration],
                   families |-> [f \in Families |-> FreshFamily]]
  BY DEF Init
<1>2. /\ tables.trace = {} /\ tables.attributions = <<>> /\ tables.advice = {}
      /\ tables.calibration = [t \in Traders |-> FreshCalibration]
      /\ tables.families = [f \in Families |-> FreshFamily]
      /\ memory.hist = NoHistory
  BY <1>1 DEF NoMemory
<1>3. /\ Len(fate) = 0 /\ LearnedOf(fate) = {} /\ ToSet(work) = {}
      /\ \A part : WiredOf(fate, part) = {}
  BY <1>1, NoJobs DEF LearnedOf, WiredOf
<1>4. SoundTrace({}, fate, {}, {})
  BY <1>3 DEF SoundTrace
<1>5. SoundVerdicts(tables.attributions, fate, {}, {})
  <2> DEFINE e == <<>>
  <2>1. tables.attributions = e /\ e \in Seq(AttributionRec) /\ Len(e) = 0
    BY <1>2
  <2> HIDE DEF e
  <2> QED
    BY <1>3, <2>1 DEF SoundVerdicts
<1>6. Cardinality({}) = 0
  BY FS_EmptySet
<1>7. SoundCalibration(tables.calibration, fate, {}, {})
  <2>1. tables.calibration \in [Traders -> CalibrationRec]
    BY <1>2 DEF FreshCalibration, CalibrationRec
  <2>2. \A t \in Traders : tables.calibration[t].reviews = 0 /\ tables.calibration[t].approvalsWon = 0
    BY <1>2 DEF FreshCalibration
  <2>3. \A t \in Traders : Reviewed(fate, {}, t) = {} /\ Reviewed(fate, {}, t) \cap Won(fate, t) = {}
    BY <1>3 DEF Reviewed
  <2>4. \A t \in Traders : /\ Cardinality(Reviewed(fate, {}, t)) = 0
                            /\ Cardinality(Reviewed(fate, {}, t) \cap Won(fate, t)) = 0
    BY <1>6, <2>3
  <2> QED
    BY <2>1, <2>2, <2>4 DEF SoundCalibration
<1>8. SoundFamilies(tables.families, fate, {}, {})
  <2>1. tables.families \in [Families -> FamilyRec]
    BY <1>2 DEF FreshFamily, FamilyRec
  <2>2. \A x \in Families : /\ tables.families[x].total = 0 /\ tables.families[x].wins = 0
                            /\ tables.families[x].losses = 0 /\ tables.families[x].breakevens = 0
    BY <1>2 DEF FreshFamily
  <2>3. \A x \in Families : Filed(fate, {}, x) = {}
    BY <1>3 DEF Filed
  <2>4. \A x \in Families : /\ Cardinality(Filed(fate, {}, x)) = 0
                            /\ Cardinality(Filed(fate, {}, x) \cap Gains(fate)) = 0
    BY <1>6, <2>3
  <2> QED
    BY <2>1, <2>2, <2>4 DEF SoundFamilies
<1>9. SoundHistory(memory.hist, fate) /\ SoundAdvice(tables.advice, fate)
  BY <1>2, <1>3, HistoryForgotten DEF SoundAdvice
<1> QED
  BY <1>1, <1>2, <1>3, <1>4, <1>5, <1>7, <1>8, <1>9 DEF Reckoning

LEMMA ReckoningStep == IInv /\ Reckoning /\ [Next]_vars => Reckoning'
<1> SUFFICES ASSUME IInv, Reckoning, [Next]_vars PROVE Reckoning'
  OBVIOUS
<1>1. CASE \/ \E wired \in Stages : Start(wired)
           \/ \E failed \in SUBSET memory.pending : Stop(failed)
           \/ QuietBar
  BY <1>1, SessionReckons
<1>2. CASE Crash
  BY <1>2, CrashReckons
<1>3. CASE \E action \in Actions, verdict \in {"hold", "reject", "enter"}, votes \in Panels,
              family \in Families : ProposalBar(action, verdict, votes, family)
  BY <1>3, ProposalBarReckons
<1>4. CASE \/ LogTransitionJob \/ JournalEventJob \/ InsertTradeOpenJob \/ InsertEvaluatorVerdictsJob
           \/ UpdateRewardJob \/ UpdateTradeCloseJob \/ UpdateEvaluatorOutcomesJob
  BY <1>4, OtherRowsReckon
<1>5. CASE \/ InsertSetupPacketJob \/ InsertTraderReviewJob
           \/ InsertPanelSummaryJob \/ InsertFinalDecisionJob
  BY <1>5, TraceReckons
<1>6. CASE KeepsPositions
  BY <1>6, KeepsPositionsReckons
<1>7. CASE \E failed \in SUBSET Finished(Aged(memory.pending)) : OnBarJob(failed)
  BY <1>7, OnBarReckons
<1>8. CASE \E position \in memory.open, result \in Results : ClosePosition(position, result)
  BY <1>8, ClosePositionReckons
<1>9. CASE PanelAttributionJob \/ JournalAttributionJob
  BY <1>9, AttributionReckons
<1>10. CASE BackfillTradeIdJob
  BY <1>10, BackfillReckons
<1>11. CASE QueryReviewsJob
  BY <1>11, QueryReviewsReckons
<1>12. CASE CalibrateJob
  BY <1>12, CalibrateReckons
<1>13. CASE FamilyJob
  BY <1>13, FamilyReckons
<1>14. CASE GenerateAllRecommendations
  BY <1>14, RecommendationsReckon
<1>15. CASE UNCHANGED vars
  BY <1>15 DEF vars, Reckoning
<1> QED
  BY <1>1, <1>2, <1>3, <1>4, <1>5, <1>6, <1>8, <1>9, <1>10, <1>11, <1>12, <1>13, <1>14, <1>15, <1>7
     DEF Next

\* In every reachable state each learned trade has its review rows, its linked trace, its
\* two attributions and its place in the running records, but for the jobs that wait for it
\* and those that were lost; the running records count no trade twice and none that is not
\* closed (journal_extension.py, calibration.py, tracking.py, performance_journal/group.py).
THEOREM RecordsReckoning == Spec => []Reckoning
<1>1. Init => IInv /\ Reckoning
  BY RecordsInit, ReckoningInit
<1>2. (IInv /\ Reckoning) /\ [Next]_vars => (IInv /\ Reckoning)'
  BY RecordsStep, ReckoningStep
<1> QED
  BY <1>1, <1>2, PTL DEF Spec

-----------------------------------------------------------------------------
(* What the reckoning says between two bars.                               *)

LEMMA AtRestIs ==
    ASSUME IInv, Reckoning, AtRest
    PROVE  /\ Len(fate) \in Nat /\ LearnedTrades = LearnedOf(fate)
           /\ \A part : WiredTrades(part) = WiredOf(fate, part)
           /\ SoundTrace(tables.trace, fate, lost, {})
           /\ SoundVerdicts(tables.attributions, fate, lost, {})
           /\ SoundCalibration(tables.calibration, fate, lost, {})
           /\ SoundFamilies(tables.families, fate, lost, {})
           /\ SoundHistory(memory.hist, fate) /\ SoundAdvice(tables.advice, fate)
<1>1. ToSet(work) = {}
  BY NoJobs DEF AtRest
<1>2. \A part : WiredTrades(part) = WiredOf(fate, part)
  BY DEF WiredTrades, WiredOf, Proposals
<1>3. LearnedTrades = LearnedOf(fate)
  BY <1>2 DEF LearnedTrades, LearnedOf
<1> QED
  BY <1>1, <1>2, <1>3, FateLength DEF Reckoning

LEMMA CountersTold == IInv /\ Reckoning => CountersFollowTrades
<1> SUFFICES ASSUME IInv, Reckoning, AtRest
             PROVE  /\ \A t \in Traders :
                          LET rec == tables.calibration[t] IN
                          /\ rec.reviews <= Cardinality(LearnedTrades)
                          /\ ~CountersDisturbed({"insert_trader_review", "query_reviews", "calibrate"}, t) =>
                                /\ rec.reviews = Cardinality(LearnedTrades)
                                /\ rec.approvalsWon = Cardinality({id \in LearnedTrades :
                                                          Approved(t, id) /\ fate[id].result > 5})
                    /\ \A f \in Families :
                          LET rec == tables.families[f]
                              ofFamily == {id \in LearnedTrades : fate[id].family = f} IN
                          /\ rec.total = rec.wins + rec.losses + rec.breakevens
                          /\ rec.total <= Cardinality(ofFamily)
                          /\ (\A id \in ofFamily : ~Lost("family", id)) =>
                                /\ rec.total = Cardinality(ofFamily)
                                /\ rec.wins = Cardinality({id \in ofFamily : fate[id].result > 5})
                    /\ Query(memory.hist).similar
                           <= Cardinality({id \in Proposals : fate[id].status = "closed"})
                    /\ \A a \in tables.advice :
                          MinSamples <= a.samples /\ a.samples <= Cardinality(LearnedTrades)
  BY DEF CountersFollowTrades
<1> DEFINE L == LearnedOf(fate)
<1>1. /\ LearnedTrades = L
      /\ SoundCalibration(tables.calibration, fate, lost, {})
      /\ SoundFamilies(tables.families, fate, lost, {})
      /\ SoundHistory(memory.hist, fate) /\ SoundAdvice(tables.advice, fate)
  BY AtRestIs
<1>2. ASSUME NEW t \in Traders
      PROVE  /\ tables.calibration[t].reviews <= Cardinality(LearnedTrades)
             /\ ~CountersDisturbed({"insert_trader_review", "query_reviews", "calibrate"}, t) =>
                   /\ tables.calibration[t].reviews = Cardinality(LearnedTrades)
                   /\ tables.calibration[t].approvalsWon =
                          Cardinality({id \in LearnedTrades : Approved(t, id) /\ fate[id].result > 5})
  <2>1. Reviewed(fate, {}, t) = L
    BY DEF Reviewed, In
  <2>2. {id \in LearnedTrades : Approved(t, id) /\ fate[id].result > 5} = L \cap Won(fate, t)
    BY <1>1 DEF Approved, Won, LearnedOf, WiredOf
  <2>3. CountersDisturbed({"insert_trader_review", "query_reviews", "calibrate"}, t) <=> Disturbed(lost, t)
    BY DEF CountersDisturbed, Disturbed
  <2> HIDE DEF L
  <2> QED
    BY <1>1, <2>1, <2>2, <2>3 DEF SoundCalibration
<1>3. ASSUME NEW f \in Families
      PROVE  /\ tables.families[f].total =
                    tables.families[f].wins + tables.families[f].losses + tables.families[f].breakevens
             /\ tables.families[f].total <= Cardinality({id \in LearnedTrades : fate[id].family = f})
             /\ (\A id \in {k \in LearnedTrades : fate[k].family = f} : ~Lost("family", id)) =>
                   /\ tables.families[f].total = Cardinality({id \in LearnedTrades : fate[id].family = f})
                   /\ tables.families[f].wins =
                          Cardinality({id \in {k \in LearnedTrades : fate[k].family = f} :
                                          fate[id].result > 5})
  <2>1. Filed(fate, {}, f) = {id \in LearnedTrades : fate[id].family = f}
    BY <1>1 DEF Filed, In
  <2>2. {id \in {k \in LearnedTrades : fate[k].family = f} : fate[id].result > 5}
            = Filed(fate, {}, f) \cap Gains(fate)
    BY <1>1, <2>1 DEF Gains, LearnedOf, WiredOf
  <2>3. (\A id \in {k \in LearnedTrades : fate[k].family = f} : ~Lost("family", id)) =>
            \A id \in LearnedOf(fate) : fate[id].family = f => ~In(lost, "family", id)
    BY <1>1 DEF Lost, In
  <2> HIDE DEF L
  <2> QED
    BY <1>1, <2>1, <2>3, <2>2 DEF SoundFamilies
<1>4. Query(memory.hist).similar <= Cardinality({id \in Proposals : fate[id].status = "closed"})
  BY <1>1 DEF Query, SoundHistory, ClosedOf, Proposals
<1>5. \A a \in tables.advice : MinSamples <= a.samples /\ a.samples <= Cardinality(LearnedTrades)
  BY <1>1 DEF SoundAdvice
<1> QED
  BY <1>2, <1>3, <1>4, <1>5

\* The running records count every learned trade once, unless what they count was lost,
\* and nothing concluded from them rests on more trades than were closed (calibration.py,
\* tracking.py, recommendation_engine.py, historian/group.py).
THEOREM RecordsFollowTrades == Spec => []CountersFollowTrades
  BY RecordsInvariant, RecordsReckoning, CountersTold, PTL

\* The attributions of writer w, the jobs lost for them, and the trades of both.
RowsBy(a, w) == {i \in 1 .. Len(a) : a[i].writer = w}
GoneOf(l, w) == {j \in l : j.op = AttributionJob[w]}

LEMMA WriterCounted ==
    ASSUME NEW a, NEW f, NEW l, Len(f) \in Nat, SoundVerdicts(a, f, l, {}),
           NEW w \in {"panel", "journal"}
    PROVE  LET rows == RowsBy(a, w)
               gone == GoneOf(l, w)
           IN  /\ IsFiniteSet(rows) /\ IsFiniteSet(gone)
               /\ Cardinality(rows) \in Nat /\ Cardinality(gone) \in Nat
               /\ Cardinality(rows) + Cardinality(gone) = Cardinality(WiredOf(f, w))
<1> DEFINE n == Len(f)
           L == WiredOf(f, w)
           rows == RowsBy(a, w)
           gone == GoneOf(l, w)
           tradeOf == [i \in rows |-> a[i].trade]
           idOf == [j \in gone |-> j.id]
           told == {tradeOf[i] : i \in rows}
           untold == {idOf[j] : j \in gone}
<1>1. L \subseteq 1 .. n /\ IsFiniteSet(L)
  BY LearnedFinite DEF WiredOf
<1>2. /\ AttributionJob[w] \in {"panel_attribution", "journal_attribution"}
      /\ Needs(AttributionJob[w]) = w
  BY DEF AttributionJob, Needs
<1>3. \A i \in rows : a[i].trade \in L
  BY DEF SoundVerdicts, RowsBy
<1>4. \A j \in gone : j = Job(AttributionJob[w], j.id) /\ j.id \in L
  BY <1>2 DEF SoundVerdicts, GoneOf
<1>5. \A id : id \in told <=> Attributed(a, id, w)
  BY DEF Attributed, RowsBy
<1>6. \A id : id \in untold <=> In(l, AttributionJob[w], id)
  BY DEF In, GoneOf
<1>7. \A id \in L : Attributed(a, id, w) <=> ~In(l, AttributionJob[w], id)
  BY DEF SoundVerdicts, In
<1>8. tradeOf \in [rows -> 1 .. n] /\ \A i, k \in rows : tradeOf[i] = tradeOf[k] => i = k
  BY <1>1, <1>3 DEF SoundVerdicts, RowsBy
<1>9. idOf \in [gone -> 1 .. n] /\ \A j, k \in gone : idOf[j] = idOf[k] => j = k
  BY <1>1, <1>4
<1>10. told \subseteq L /\ untold \subseteq L
  BY <1>3, <1>4
<1> HIDE DEF n, L, rows, gone, tradeOf, idOf
<1>11. IsFiniteSet(rows) /\ Cardinality(rows) = Cardinality(told)
  BY <1>8, KeyedSet DEF n
<1>12. IsFiniteSet(gone) /\ Cardinality(gone) = Cardinality(untold)
  BY <1>9, KeyedSet DEF n
<1> HIDE DEF told, untold
<1>13. told \cup untold = L /\ told \cap untold = {}
  BY <1>5, <1>6, <1>7, <1>10
<1>14. IsFiniteSet(told) /\ IsFiniteSet(untold)
  BY <1>1, <1>10, FS_Subset
<1>15. Cardinality(L) = Cardinality(told) + Cardinality(untold) - 0
  BY <1>13, <1>14, FS_Union, FS_EmptySet
<1>16. Cardinality(told) \in Nat /\ Cardinality(untold) \in Nat
  BY <1>14, FS_CardinalityType
<1>17. Cardinality(rows) + Cardinality(gone) = Cardinality(L)
  BY <1>11, <1>12, <1>15, <1>16
<1> QED
  BY <1>11, <1>12, <1>16, <1>17 DEF L, rows, gone

LEMMA SplitCount ==
    ASSUME NEW S, NEW T, NEW U, IsFiniteSet(S), IsFiniteSet(T), U = S \cup T, S \cap T = {}
    PROVE  IsFiniteSet(U) /\ Cardinality(U) = Cardinality(S) + Cardinality(T)
<1>1. Cardinality(S) \in Nat /\ Cardinality(T) \in Nat
  BY FS_CardinalityType
<1>2. IsFiniteSet(U) /\ Cardinality(U) = Cardinality(S) + Cardinality(T) - 0
  BY FS_Union, FS_EmptySet
<1> QED
  BY <1>1, <1>2

LEMMA RowsFinite ==
    ASSUME NEW n \in Nat PROVE IsFiniteSet(1 .. n) /\ Cardinality(1 .. n) = n
  BY FS_Interval

\* The rows of the report: one in three kinds of outcome.
LEMMA OutcomesCounted ==
    ASSUME NEW a \in Seq(AttributionRec)
    PROVE  TradeStats(a).total = Len(a)
<1> DEFINE Of3(o) == {i \in 1 .. Len(a) : a[i].outcome = o}
<1>1. Len(a) \in Nat /\ DOMAIN a = 1 .. Len(a)
  BY DEF AttributionRec
<1>2. IsFiniteSet(1 .. Len(a)) /\ Cardinality(1 .. Len(a)) = Len(a)
  BY <1>1, RowsFinite
<1>3. \A o : CountOutcome(a, o) = Cardinality(Of3(o))
  BY <1>1 DEF CountOutcome
<1>4. \A o : IsFiniteSet(Of3(o))
  BY <1>2, FS_Subset
<1>5. \A i \in 1 .. Len(a) : a[i].outcome \in {"win", "loss", "breakeven"}
  <2>1. \A i \in 1 .. Len(a) : a[i] \in AttributionRec
    OBVIOUS
  <2>2. \A y \in AttributionRec : y.outcome \in {"win", "loss", "breakeven"}
    BY DEF AttributionRec, Outcomes
  <2> QED
    BY <2>1, <2>2
<1> DEFINE wins == Of3("win")
           losses == Of3("loss")
           evens == Of3("breakeven")
           both == wins \cup losses
           rows == 1 .. Len(a)
<1>6. rows = both \cup evens /\ both = wins \cup losses /\ wins \cap losses = {} /\ both \cap evens = {}
  BY <1>5
<1>7. IsFiniteSet(wins) /\ IsFiniteSet(losses) /\ IsFiniteSet(evens)
  BY <1>4
<1>8. TradeStats(a).total = Cardinality(wins) + Cardinality(losses) + Cardinality(evens)
  BY <1>3 DEF TradeStats
<1> HIDE DEF wins, losses, evens
<1>9. IsFiniteSet(both) /\ Cardinality(both) = Cardinality(wins) + Cardinality(losses)
  BY <1>6, <1>7, SplitCount
<1> HIDE DEF both, rows
<1>10. Cardinality(rows) = Cardinality(both) + Cardinality(evens)
  BY <1>6, <1>7, <1>9, SplitCount
<1> QED
  BY <1>2, <1>8, <1>9, <1>10 DEF rows

LEMMA AttributionsCounted ==
    ASSUME IInv, Reckoning, AtRest
    PROVE  /\ tables.attributions \in Seq(AttributionRec) /\ Len(tables.attributions) \in Nat
           /\ VerdictsDue \in Nat
           /\ Len(tables.attributions) =
                 VerdictsDue - Cardinality({j \in lost : \E w \in Writers :
                                               j.op = AttributionJob[w] /\ j.id \in WiredTrades(w)})
<1> DEFINE a == tables.attributions
           n == Len(a)
           gone == {j \in lost : \E w \in Writers : j.op = AttributionJob[w] /\ j.id \in WiredTrades(w)}
           rp == RowsBy(a, "panel")
           rj == RowsBy(a, "journal")
           gp == GoneOf(lost, "panel")
           gj == GoneOf(lost, "journal")
           all == 1 .. n
           cp == Cardinality(WiredTrades("panel"))
           cj == Cardinality(WiredTrades("journal"))
<1>1. /\ Len(fate) \in Nat /\ \A part : WiredTrades(part) = WiredOf(fate, part)
      /\ SoundVerdicts(a, fate, lost, {})
  BY AtRestIs
<1>2. a \in Seq(AttributionRec)
  BY <1>1 DEF SoundVerdicts
<1>3. n \in Nat
  BY <1>2
<1>4. ASSUME NEW w \in {"panel", "journal"}
      PROVE  /\ IsFiniteSet(RowsBy(a, w)) /\ IsFiniteSet(GoneOf(lost, w))
             /\ Cardinality(RowsBy(a, w)) \in Nat /\ Cardinality(GoneOf(lost, w)) \in Nat
             /\ Cardinality(RowsBy(a, w)) + Cardinality(GoneOf(lost, w)) = Cardinality(WiredTrades(w))
  BY <1>1, WriterCounted
<1>5. /\ IsFiniteSet(rp) /\ IsFiniteSet(gp) /\ IsFiniteSet(rj) /\ IsFiniteSet(gj)
      /\ Cardinality(rp) \in Nat /\ Cardinality(gp) \in Nat
      /\ Cardinality(rj) \in Nat /\ Cardinality(gj) \in Nat
      /\ Cardinality(rp) + Cardinality(gp) = cp /\ Cardinality(rj) + Cardinality(gj) = cj
  BY <1>4
<1>6. all = rp \cup rj /\ rp \cap rj = {}
  <2>1. \A i \in 1 .. n : a[i] \in AttributionRec
    BY <1>2
  <2>2. \A y \in AttributionRec : y.writer \in {"panel", "journal"}
    BY DEF AttributionRec
  <2>3. \A i \in 1 .. n : a[i].writer \in {"panel", "journal"}
    BY <2>1, <2>2
  <2> QED
    BY <2>3 DEF RowsBy
<1>7. gone = gp \cup gj /\ gp \cap gj = {}
  <2>1. /\ Writers = {"panel", "journal"}
        /\ AttributionJob["panel"] = "panel_attribution"
        /\ AttributionJob["journal"] = "journal_attribution"
    BY DEF Writers, AttributionJob
  <2>2. /\ \A j \in gp : j.id \in WiredTrades("panel")
        /\ \A j \in gj : j.id \in WiredTrades("journal")
    BY <1>1, <2>1 DEF SoundVerdicts, GoneOf, Needs
  <2> QED
    BY <2>1, <2>2 DEF GoneOf
<1>8. Cardinality(all) = n
  BY <1>3, FS_Interval
<1>9. VerdictsDue = cp + cj
  BY DEF VerdictsDue
<1> HIDE DEF rp, rj, gp, gj, all, gone, cp, cj
<1>10. Cardinality(all) = Cardinality(rp) + Cardinality(rj)
  BY <1>5, <1>6, SplitCount
<1>11. Cardinality(gone) = Cardinality(gp) + Cardinality(gj)
  BY <1>5, <1>7, SplitCount
<1> DEFINE nn == n
<1>12. nn = VerdictsDue - Cardinality(gone) /\ VerdictsDue \in Nat
  BY <1>5, <1>8, <1>10, <1>11, <1>9
<1> QED
  BY <1>2, <1>3, <1>12 DEF gone

LEMMA VerdictsTold == IInv /\ Reckoning => TwoVerdictsPerTrade
<1> SUFFICES ASSUME IInv, Reckoning PROVE TwoVerdictsPerTrade
  OBVIOUS
<1> DEFINE a == tables.attributions
<1>1. \A r \in tables.trace : r.trade # 0 =>
          r.trade = r.packet /\ fate[r.packet].status = "closed"
  BY DEF Reckoning, SoundTrace
<1>2. ASSUME AtRest, NEW id \in Proposals
      PROVE  /\ \A w \in Writers : Cardinality(Of(id, w)) =
                    IF id \in WiredTrades(w) /\ ~Lost(AttributionJob[w], id) THEN 1 ELSE 0
             /\ \A i \in Of(id, "panel"), k \in Of(id, "journal") :
                    a[i].outcome = a[k].outcome <=> fate[id].result \notin (-5..5) \ {0}
  <2>1. /\ \A part : WiredTrades(part) = WiredOf(fate, part)
        /\ SoundVerdicts(a, fate, lost, {})
    BY <1>2, AtRestIs
  <2>2. \A w : Of(id, w) = {i \in 1 .. Len(a) : a[i].trade = id /\ a[i].writer = w}
    <3>1. DOMAIN a = 1 .. Len(a)
      BY <2>1 DEF SoundVerdicts
    <3> QED
      BY <3>1 DEF Of
  <2>3. ASSUME NEW w \in Writers
        PROVE  Cardinality(Of(id, w)) =
                   IF id \in WiredTrades(w) /\ ~Lost(AttributionJob[w], id) THEN 1 ELSE 0
    <3>1. w \in {"panel", "journal"}
      BY DEF Writers, AttributionJob
    <3>2. Attributed(a, id, w) <=> id \in WiredTrades(w) /\ ~Lost(AttributionJob[w], id)
      <4>1. Attributed(a, id, w) => id \in WiredTrades(w)
        BY <2>1 DEF SoundVerdicts, Attributed
      <4>2. id \in WiredTrades(w) => (Attributed(a, id, w) <=> ~Lost(AttributionJob[w], id))
        BY <2>1, <3>1 DEF SoundVerdicts, In, Lost
      <4> QED
        BY <4>1, <4>2
    <3>3. CASE Attributed(a, id, w)
      <4>1. PICK i \in 1 .. Len(a) : a[i].trade = id /\ a[i].writer = w
        BY <3>3 DEF Attributed
      <4>2. Of(id, w) = {i}
        BY <2>1, <2>2, <4>1 DEF SoundVerdicts
      <4> QED
        BY <3>2, <3>3, <4>2, FS_Singleton
    <3>4. CASE ~Attributed(a, id, w)
      <4>1. Of(id, w) = {}
        BY <2>2, <3>4 DEF Attributed
      <4> QED
        BY <3>2, <3>4, <4>1, FS_EmptySet
    <3> QED
      BY <3>3, <3>4
  <2>4. ASSUME NEW i \in Of(id, "panel"), NEW k \in Of(id, "journal")
        PROVE  a[i].outcome = a[k].outcome <=> fate[id].result \notin (-5..5) \ {0}
    <3>1. /\ a[i].outcome = SignOutcome(fate[id].result)
          /\ a[k].outcome = BandOutcome(fate[id].result)
      BY <2>1, <2>2, <2>4 DEF SoundVerdicts, OutcomeFor
    <3>2. fate[id].result \in Int
      <4>1. id \in 1 .. Len(fate)
        BY DEF Proposals
      <4>2. fate[id] \in FateRec
        BY <4>1, FateLength
      <4>3. fate[id].result \in Results \cup {0}
        BY <4>2 DEF FateRec
      <4>4. \A x \in Results : x \in Int
        BY RecordsAssumption
      <4> QED
        BY <4>3, <4>4
    <3> DEFINE x == fate[id].result
    <3> HIDE DEF x
    <3>3. SignOutcome(x) = BandOutcome(x) <=> x \notin (-5..5) \ {0}
      BY <3>2 DEF SignOutcome, BandOutcome, x
    <3> QED
      BY <3>1, <3>3 DEF x
  <2> QED
    BY <2>3, <2>4
<1> DEFINE gone == {j \in lost : \E w \in Writers : j.op = AttributionJob[w] /\ j.id \in WiredTrades(w)}
<1>3. ASSUME AtRest
      PROVE  TradeStats(a).total = VerdictsDue - Cardinality(gone)
  <2>1. a \in Seq(AttributionRec) /\ Len(a) = VerdictsDue - Cardinality(gone)
    BY <1>3, AttributionsCounted
  <2> HIDE DEF a, gone
  <2> QED
    BY <2>1, OutcomesCounted
<1>4. ASSUME AtRest, lost = {}
      PROVE  PanelStats({r \in tables.trace : r.table = "panel_summaries"}, a)
                 = [total |-> VerdictsDue, concludes |-> VerdictsDue >= MinSamples]
  <2> DEFINE summaries == {r \in tables.trace : r.table = "panel_summaries"}
             joined == {i \in DOMAIN a :
                           \E s \in summaries : s.trade # 0 /\ s.trade = a[i].trade}
  <2>1. /\ Len(fate) \in Nat /\ SoundTrace(tables.trace, fate, lost, {})
        /\ SoundVerdicts(a, fate, lost, {})
    BY <1>4, AtRestIs
  <2>2. a \in Seq(AttributionRec) /\ Len(a) \in Nat /\ DOMAIN a = 1 .. Len(a)
    BY <1>4, AttributionsCounted
  <2>3. ASSUME NEW i \in 1 .. Len(a)
        PROVE  \E s \in summaries : s.trade # 0 /\ s.trade = a[i].trade
    <3> DEFINE id == a[i].trade
    <3>1. id \in WiredOf(fate, "panel")
      <4>1. id \in WiredOf(fate, a[i].writer)
        BY <2>1 DEF SoundVerdicts
      <4>2. a[i].writer \in {"panel", "journal"}
        <5>1. a[i] \in AttributionRec
          BY <2>2
        <5> QED
          BY <5>1 DEF AttributionRec
      <4> HIDE DEF id
      <4>3. id \in 1 .. Len(fate) /\ fate[id].status = "closed" /\ a[i].writer \in fate[id].wired
        BY <4>1 DEF WiredOf
      <4>4. fate[id].wired \in Stages
        <5>1. fate[id] \in FateRec
          BY <4>3, FateLength
        <5> QED
          BY <5>1 DEF FateRec
      <4>5. "panel" \in fate[id].wired
        BY <4>2, <4>3, <4>4, StagesIs
      <4> QED
        BY <4>3, <4>5 DEF WiredOf
    <3> HIDE DEF id
    <3>2. id \in 1 .. Len(fate) /\ "panel" \in fate[id].wired /\ id # 0
      BY <2>1, <3>1 DEF WiredOf
    <3>3. \A op : ~In(lost, op, id) /\ ~In({}, op, id)
      BY <1>4 DEF In
    <3>4. PICK s \in tables.trace : s.table = "panel_summaries" /\ s.packet = id
      BY <2>1, <3>2, <3>3 DEF SoundTrace
    <3>5. s.trade = id
      BY <2>1, <3>1, <3>3, <3>4 DEF SoundTrace
    <3> QED
      BY <3>2, <3>4, <3>5 DEF id
  <2>4. joined = 1 .. Len(a)
    BY <2>2, <2>3
  <2>5. Cardinality(joined) = Len(a)
    <3>1. Cardinality(1 .. Len(a)) = Len(a)
      BY <2>2, FS_Interval
    <3> QED
      BY <2>4, <3>1
  <2>6. Len(a) = VerdictsDue
    <3>1. Len(a) = VerdictsDue - Cardinality(gone) /\ VerdictsDue \in Nat
      BY <1>4, AttributionsCounted
    <3>2. gone = {}
      BY <1>4
    <3>3. Cardinality(gone) = 0
      BY <3>2, FS_EmptySet
    <3> HIDE DEF a, gone
    <3> QED
      BY <3>1, <3>3
  <2>7. PanelStats(summaries, a) = [total |-> Cardinality(joined), concludes |-> Cardinality(joined) >= MinSamples]
    BY DEF PanelStats
  <2> HIDE DEF joined
  <2> QED
    BY <2>5, <2>6, <2>7
<1> QED
  BY <1>1, <1>2, <1>3, <1>4 DEF TwoVerdictsPerTrade

\* Between two bars a closed trade has one attribution of each writer wired when it closed,
\* unless that writer's was lost, and none of any other; the two agree on the outcome
\* exactly for a result outside 0.05 R or of zero; the report's total is the number of
\* those attributions, and the panel's the same if nothing was lost.  In every state a row
\* of the trace is linked to no trade but its own, closed (panel_decision/group.py,
\* performance_journal/group.py, journal_extension.py, reports.py).
THEOREM TradesAreAttributedTwice == Spec => []TwoVerdictsPerTrade
  BY RecordsInvariant, RecordsReckoning, VerdictsTold, PTL

=============================================================================
