--------------------------- MODULE ChartBarsProofs ---------------------------
(***************************************************************************)
(* Proofs about the pattern machines and the levels of ChartBars for every *)
(* market: any set of paths, of any lengths and slopes.                    *)
(*                                                                         *)
(* What a machine computes of its window does not matter here, only when   *)
(* it may move: its records are therefore typed by their shape (Shaped)    *)
(* and not by the values of their levels.                                  *)
(***************************************************************************)
EXTENDS ChartBars, FiniteSetTheorems, WellFoundedInduction, NaturalsInduction, TLAPS

Resting3 == {"INACTIVE", "FORMING", "BREAKOUT_PENDING"}
States == Resting3 \cup {"CONFIRMED", "EXPIRED"}

\* The detectors that form before they wait, and of these the diamonds.
Formers == {"H1-003", "H1-016", "H1-017"}
Diamonds == {"H1-016", "H1-017"}

\* A record with the fields of a machine, whatever its levels are.
Machines(V) == [state : States, age : Nat, seen : Nat, hi : V, lo : V, level : V, move : V]
Shaped(m) == \E V : m \in Machines(V)

FeatureBars == [high : Int, low : Int, close : Int, adx : Nat, ema : {-1, 0, 1}]

-----------------------------------------------------------------------------
(* Small sets and windows.                                                 *)

\* The larger of two integers.
LEMMA MaxOfTwo ==
  ASSUME NEW a \in Int, NEW b \in Int
  PROVE  /\ Max({a, b}) \in {a, b}
         /\ Max({a, b}) >= a /\ Max({a, b}) >= b
<1>1. \E x \in {a, b} : \A y \in {a, b} : x >= y
  <2>1. CASE a >= b
    BY <2>1
  <2>2. CASE b >= a
    BY <2>2
  <2> QED
    BY <2>1, <2>2
<1>2. Max({a, b}) \in {a, b} /\ \A y \in {a, b} : Max({a, b}) >= y
  BY <1>1, Zenon DEF Max
<1> QED
  BY <1>2

\* The smaller of two integers.
LEMMA MinOfTwo ==
  ASSUME NEW a \in Int, NEW b \in Int
  PROVE  /\ Min({a, b}) \in {a, b}
         /\ Min({a, b}) <= a /\ Min({a, b}) <= b
<1>1. \E x \in {a, b} : \A y \in {a, b} : x =< y
  <2>1. CASE a =< b
    BY <2>1
  <2>2. CASE b =< a
    BY <2>2
  <2> QED
    BY <2>1, <2>2
<1>2. Min({a, b}) \in {a, b} /\ \A y \in {a, b} : Min({a, b}) =< y
  BY <1>1, Zenon DEF Min
<1> QED
  BY <1>2

\* The history with one bar more: at most eighty bars, the new one last, and
\* those before it where they were, seen from the end.
LEMMA Kept ==
  ASSUME NEW s \in Seq(FeatureBars), Len(s) <= 80, NEW x \in FeatureBars
  PROVE  LET k == Keep(Append(s, x)) IN
           /\ k \in Seq(FeatureBars)
           /\ Len(k) <= 80 /\ Len(k) >= 1
           /\ Len(k) = Len(s) + 1 \/ Len(k) = 80
           /\ k[Len(k)] = x
           /\ \A d \in 1..(Len(k) - 1) : k[Len(k) - d] = s[Len(s) - (d - 1)]
<1> DEFINE a == Append(s, x)
           from == Max({1, Len(a) - 79})
           k == Keep(a)
<1>1. a \in Seq(FeatureBars) /\ Len(a) = Len(s) + 1 /\ Len(s) \in Nat
  OBVIOUS
<1>2. from \in {1, Len(a) - 79} /\ from >= 1 /\ from >= Len(a) - 79
  <2> HIDE DEF a
  <2>1. 1 \in Int /\ Len(a) - 79 \in Int
    BY <1>1
  <2> QED
    BY <2>1, MaxOfTwo, Zenon
<1>3. from \in 1..Len(a) /\ (from = 1 \/ (Len(a) = 81 /\ from = 2))
  BY <1>1, <1>2
<1>4. k = SubSeq(a, from, Len(a))
  BY DEF Keep
<1> HIDE DEF from
<1>5. /\ k \in Seq(FeatureBars) /\ Len(k) = Len(a) - from + 1
      /\ \A i \in 1..Len(k) : k[i] = a[from + i - 1]
  BY <1>1, <1>3, <1>4
<1>6. a[Len(a)] = x /\ \A i \in 1..Len(s) : a[i] = s[i]
  OBVIOUS
<1> HIDE DEF a, k
<1>7. Len(k) \in Nat /\ Len(k) <= 80 /\ Len(k) >= 1 /\ (Len(k) = Len(s) + 1 \/ Len(k) = 80)
  BY <1>1, <1>2, <1>3, <1>5
<1>8. k[Len(k)] = x
  BY <1>1, <1>3, <1>5, <1>6, <1>7
<1>9. ASSUME NEW d \in 1..(Len(k) - 1)
      PROVE  k[Len(k) - d] = s[Len(s) - (d - 1)]
  <2>1. k[Len(k) - d] = a[from + (Len(k) - d) - 1]
    BY <1>5, <1>7
  <2>2. from + (Len(k) - d) - 1 = Len(s) - (d - 1)
    BY <1>1, <1>3, <1>5
  <2>3. Len(s) - (d - 1) \in 1..Len(s)
    BY <1>1, <1>3, <1>5
  <2> QED
    BY <2>1, <2>2, <2>3, <1>6
<1> QED
  BY <1>5, <1>7, <1>8, <1>9 DEF a, k

\* No machine starts with fewer than ten bars, or keeps more than eighty.
LEMMA Warmups ==
  \A h \in Detectors : /\ Warmup[h] \in Nat /\ Warmup[h] >= 10
                       /\ WindowSize[h] \in Nat /\ WindowSize[h] >= 10 /\ WindowSize[h] <= 80
  BY DEF Detectors, Warmup, WindowSize

-----------------------------------------------------------------------------
(* One machine.                                                            *)

\* What the assignments of the machines make of a machine.
LEMMA FormedShape ==
  ASSUME NEW m, Shaped(m), NEW hi, NEW lo
  PROVE  LET n == Formed(m, hi, lo)
         IN Shaped(n) /\ n.state = "FORMING" /\ n.age = 0 /\ n.seen = m.seen /\ n.hi = hi
<1>1. PICK V : m \in Machines(V)
  BY DEF Shaped
<1>2. m \in Machines(V \cup {hi, lo})
  BY <1>1 DEF Machines
<1> QED
  BY <1>2 DEF Machines, Shaped, States, Resting3, Formed

LEMMA PendingShape ==
  ASSUME NEW m, Shaped(m), NEW level, NEW move
  PROVE  LET n == Pending(m, level, move)
         IN /\ Shaped(n) /\ n.state = "BREAKOUT_PENDING" /\ n.age = m.age /\ n.seen = m.seen
            /\ n.level = level
<1>1. PICK V : m \in Machines(V)
  BY DEF Shaped
<1>2. m \in Machines(V \cup {level, move})
  BY <1>1 DEF Machines
<1> QED
  BY <1>2 DEF Machines, Shaped, States, Resting3, Pending

LEMMA StartedShape ==
  ASSUME NEW m, Shaped(m), NEW level, NEW move
  PROVE  LET n == Started(m, level, move)
         IN Shaped(n) /\ n.state = "BREAKOUT_PENDING" /\ n.age = 0 /\ n.seen = m.seen
<1>1. PICK V : m \in Machines(V)
  BY DEF Shaped
<1>2. m \in Machines(V \cup {level, move})
  BY <1>1 DEF Machines
<1> QED
  BY <1>2 DEF Machines, Shaped, States, Resting3, Pending, Started

\* The neckline of a formation may move.
LEMMA NecklineShape ==
  ASSUME NEW m, Shaped(m), NEW hi
  PROVE  LET n == [m EXCEPT !.hi = hi]
         IN Shaped(n) /\ n.state = m.state /\ n.age = m.age /\ n.seen = m.seen /\ n.hi = hi
<1>1. PICK V : m \in Machines(V)
  BY DEF Shaped
<1>2. m \in Machines(V \cup {hi})
  BY <1>1 DEF Machines
<1> QED
  BY <1>2 DEF Machines, Shaped

LEMMA CounterShape ==
  ASSUME NEW m, Shaped(m), NEW a \in Nat
  PROVE  /\ m.age \in Nat /\ m.seen \in Nat /\ m.state \in States
         /\ LET n == [m EXCEPT !.seen = a]
            IN Shaped(n) /\ n.state = m.state /\ n.age = m.age /\ n.seen = a
         /\ LET n == [m EXCEPT !.age = a]
            IN /\ Shaped(n) /\ n.state = m.state /\ n.age = a /\ n.seen = m.seen
               /\ n.level = m.level /\ n.hi = m.hi
<1>1. PICK V : m \in Machines(V)
  BY DEF Shaped
<1>2. m.age \in Nat /\ m.seen \in Nat /\ m.state \in States
  BY <1>1 DEF Machines
<1>3. LET n == [m EXCEPT !.seen = a]
      IN n \in Machines(V) /\ n.state = m.state /\ n.age = m.age /\ n.seen = a
  BY <1>1 DEF Machines
<1>4. LET n == [m EXCEPT !.age = a]
      IN /\ n \in Machines(V) /\ n.state = m.state /\ n.age = a /\ n.seen = m.seen
         /\ n.level = m.level /\ n.hi = m.hi
  BY <1>1 DEF Machines
<1> QED
  BY <1>2, <1>3, <1>4 DEF Shaped

\* A start leaves the machine idle as it is, or lets it form or wait from this
\* bar on.
Begins(m, n) ==
  \/ n = m
  \/ Shaped(n) /\ n.state \in {"FORMING", "BREAKOUT_PENDING"} /\ n.age = 0 /\ n.seen = m.seen

LEMMA StartOf ==
  ASSUME NEW h \in Detectors, NEW m, Shaped(m), NEW w \in Seq(FeatureBars), Len(w) >= 1
  PROVE  LET n == Start(h, m, w) IN
           /\ Begins(m, n)
           /\ h \notin Formers => n = m \/ n.state = "BREAKOUT_PENDING"
           /\ h = "H1-003" => n = m \/ (n.state = "FORMING" /\ n.hi = w[Len(w)].close)
           /\ h \in Diamonds => n = m \/ n.state = "FORMING"
<1> DEFINE n == Start(h, m, w)
<1>1. CASE h = "H1-003"
  <2>1. Closes(w)[Len(w)] = w[Len(w)].close
    BY DEF Closes
  <2>2. n = m \/ n = Formed(m, Closes(w)[Len(w)], Closes(w)[Len(w)])
    BY <1>1, ZenonT(40) DEF Start, DoubleBottomStart
  <2> HIDE DEF n
  <2>3. n = m \/ (/\ Shaped(n) /\ n.state = "FORMING" /\ n.age = 0 /\ n.seen = m.seen
                  /\ n.hi = w[Len(w)].close)
    BY <2>1, <2>2, FormedShape
  <2>4. Begins(m, n) /\ (n = m \/ (n.state = "FORMING" /\ n.hi = w[Len(w)].close))
    BY <2>3 DEF Begins
  <2> QED
    BY <1>1, <2>4 DEF n, Formers, Diamonds
<1>2. CASE h \in Diamonds
  <2>1. \E hi, lo : n = m \/ n = Formed(m, hi, lo)
    <3>1. CASE h = "H1-016"
      BY <3>1, Zenon DEF Start, DiamondTopStart, DiamondStart
    <3>2. CASE h = "H1-017"
      BY <3>2, Zenon DEF Start, DiamondBottomStart, DiamondStart
    <3> QED
      BY <1>2, <3>1, <3>2 DEF Diamonds
  <2> HIDE DEF n
  <2>2. n = m \/ (Shaped(n) /\ n.state = "FORMING" /\ n.age = 0 /\ n.seen = m.seen)
    BY <2>1, FormedShape
  <2>3. Begins(m, n) /\ (n = m \/ n.state = "FORMING")
    BY <2>2 DEF Begins
  <2> QED
    BY <1>2, <2>3 DEF n, Formers, Diamonds
<1>3. CASE h \notin Formers
  <2>1. \E level, move : n = m \/ n = Started(m, level, move)
    <3>1. CASE h = "H1-018"
      BY <3>1, Zenon DEF Start, AscendingChannelStart, ChannelStart
    <3>2. CASE h = "H1-019"
      BY <3>2, Zenon DEF Start, DescendingChannelStart, ChannelStart
    <3>3. CASE h = "H1-020"
      BY <3>3, Zenon DEF Start, RoundingStart
    <3>4. CASE h = "H1-021"
      BY <3>4, Zenon DEF Start, BumpStart
    <3>5. CASE h = "H1-022"
      BY <3>5, Zenon DEF Start, BroadeningStart
    <3>6. CASE h = "H1-023"
      BY <3>6, Zenon DEF Start, TripleTopStart
    <3> QED
      BY <1>3, <3>1, <3>2, <3>3, <3>4, <3>5, <3>6 DEF Detectors, Formers
  <2> HIDE DEF n
  <2>2. n = m \/ (Shaped(n) /\ n.state = "BREAKOUT_PENDING" /\ n.age = 0 /\ n.seen = m.seen)
    BY <2>1, StartedShape
  <2>3. Begins(m, n) /\ (n = m \/ n.state = "BREAKOUT_PENDING")
    BY <2>2 DEF Begins
  <2> QED
    BY <1>3, <2>3 DEF n, Formers, Diamonds
<1> QED
  BY <1>1, <1>2, <1>3 DEF Formers, Diamonds

\* A formation goes on, or completes and waits.
LEMMA DoubleBottomOf ==
  ASSUME NEW m, Shaped(m), m.state = "FORMING", NEW b
  PROVE  LET n == DoubleBottomForm(m, b)
             neck == Max({m.hi, b.close})
         IN /\ Shaped(n) /\ n.age = m.age /\ n.seen = m.seen
            /\ \/ n.state = "FORMING" /\ n.hi = neck
               \/ n.state = "BREAKOUT_PENDING" /\ n.level = 20 * neck
<1> DEFINE n == DoubleBottomForm(m, b)
           neck == Max({m.hi, b.close})
           g == [m EXCEPT !.hi = neck]
<1>1. n = g \/ n = Pending(g, 20 * neck, 20 * (neck - m.lo))
  BY ZenonT(40) DEF DoubleBottomForm
<1> HIDE DEF neck
<1>2. Shaped(g) /\ g.state = "FORMING" /\ g.age = m.age /\ g.seen = m.seen /\ g.hi = neck
  BY NecklineShape
<1> HIDE DEF g, n
<1>3. /\ Shaped(n) /\ n.age = m.age /\ n.seen = m.seen
      /\ \/ n.state = "FORMING" /\ n.hi = neck
         \/ n.state = "BREAKOUT_PENDING" /\ n.level = 20 * neck
  BY <1>1, <1>2, PendingShape
<1> QED
  BY <1>3 DEF n, neck

LEMMA DiamondOf ==
  ASSUME NEW m, Shaped(m), m.state = "FORMING", NEW b, NEW bearish
  PROVE  LET n == DiamondForm(m, b, bearish)
         IN /\ Shaped(n) /\ n.age = m.age /\ n.seen = m.seen
            /\ n.state \in {"FORMING", "BREAKOUT_PENDING"}
<1> DEFINE n == DiamondForm(m, b, bearish)
           hi == Max({m.hi, b.high})
           lo == Min({m.lo, b.low})
           g == [m EXCEPT !.hi = hi, !.lo = lo]
<1>1. \E level, move : n = g \/ n = Pending(g, level, move)
  BY ZenonT(40) DEF DiamondForm
<1> HIDE DEF hi, lo
<1>2. Shaped(g) /\ g.state = "FORMING" /\ g.age = m.age /\ g.seen = m.seen
  <2>1. PICK V : m \in Machines(V)
    BY DEF Shaped
  <2>2. m \in Machines(V \cup {hi, lo})
    BY <2>1 DEF Machines
  <2> QED
    BY <2>2 DEF Machines, Shaped
<1> HIDE DEF g, n
<1>3. /\ Shaped(n) /\ n.age = m.age /\ n.seen = m.seen
      /\ n.state \in {"FORMING", "BREAKOUT_PENDING"}
  BY <1>1, <1>2, PendingShape
<1> QED
  BY <1>3 DEF n

-----------------------------------------------------------------------------
(* What one bar b may do to a machine m of h: n is the machine after it.   *)

Expires(m, n) == m.state # "INACTIVE" /\ n.state = "EXPIRED"
Waits(m, n, limit) ==
  m.state = "INACTIVE" /\ n.state = "INACTIVE" /\ n.age = m.age /\ n.seen <= m.seen + 1
    /\ n.seen <= limit
BeginsNow(h, m, n, b, limit) ==
  /\ m.state = "INACTIVE" /\ n.state \in {"FORMING", "BREAKOUT_PENDING"} /\ n.age = 0
  /\ m.seen + 1 >= 10 /\ n.seen <= limit
  /\ n.state = "FORMING" => h \in Formers
  /\ h = "H1-003" => n.state = "FORMING" /\ n.hi = b.close
GoesOn(h, m, n, b) ==
  /\ m.state = "FORMING" /\ n.state = "FORMING"
  /\ m.age < MaxFormation /\ n.age = m.age + 1 /\ n.seen = m.seen
  /\ h = "H1-003" => n.hi = Max({m.hi, b.close})
Completes(h, m, n, b) ==
  /\ m.state = "FORMING" /\ n.state = "BREAKOUT_PENDING"
  /\ m.age < MaxFormation /\ n.age = m.age + 1 /\ n.seen = m.seen
  /\ h = "H1-003" => n.level = 20 * Max({m.hi, b.close})
Holds(h, m, n, b) ==
  /\ m.state = "BREAKOUT_PENDING" /\ n.state = "BREAKOUT_PENDING"
  /\ m.age < MaxFormation /\ n.age = m.age + 1 /\ n.seen = m.seen
  /\ n.level = m.level /\ ~Beyond(h, m.level, b.close)
BreaksOut(h, m, n, b) ==
  /\ m.state = "BREAKOUT_PENDING" /\ n.state = "CONFIRMED"
  /\ n.level = m.level /\ Beyond(h, m.level, b.close)

Moves(h, m, n, b, limit) ==
  \/ Expires(m, n) \/ Waits(m, n, limit) \/ BeginsNow(h, m, n, b, limit)
  \/ GoesOn(h, m, n, b) \/ Completes(h, m, n, b)
  \/ Holds(h, m, n, b) \/ BreaksOut(h, m, n, b)

\* advance() does one of these, for every machine and any window.
LEMMA AdvanceOf ==
  ASSUME NEW h \in Detectors, NEW m, Shaped(m), m.state \in Resting3,
         m.state = "FORMING" => h \in Formers,
         NEW k \in Seq(FeatureBars), Len(k) >= 1,
         m.seen < Len(k) \/ WindowSize[h] <= Len(k)
  PROVE  LET n == Advance(h, m, k)
         IN Shaped(n) /\ Moves(h, m, n, k[Len(k)], Len(k))
<1> DEFINE n == Advance(h, m, k)
           b == k[Len(k)]
           seen == Min({m.seen + 1, WindowSize[h]})
           older == [m EXCEPT !.age = @ + 1]
           tracked == [m EXCEPT !.seen = seen]
           window == SubSeq(k, Len(k) - seen + 1, Len(k))
<1>1. m.age \in Nat /\ m.seen \in Nat
  BY CounterShape, 0 \in Nat
<1>2. WindowSize[h] \in Nat /\ WindowSize[h] >= 10 /\ Warmup[h] >= 10 /\ Warmup[h] \in Nat
  BY Warmups
<1>3. seen \in Nat /\ seen <= m.seen + 1 /\ seen <= Len(k) /\ seen >= 1
  <2>1. m.seen + 1 \in Int /\ WindowSize[h] \in Int
    BY <1>1, <1>2
  <2>2. seen \in {m.seen + 1, WindowSize[h]} /\ seen <= m.seen + 1 /\ seen <= WindowSize[h]
    BY <2>1, MinOfTwo, Zenon
  <2> HIDE DEF seen
  <2> QED
    BY <1>1, <1>2, <2>2
<1>4. older = [m EXCEPT !.age = m.age + 1]
  OBVIOUS
<1>5. Shaped(older) /\ older.state = m.state /\ older.age = m.age + 1 /\ older.seen = m.seen
        /\ older.level = m.level /\ older.hi = m.hi
  <2> DEFINE a == m.age + 1
  <2>1. a \in Nat
    BY <1>1
  <2> HIDE DEF a
  <2>2. LET o == [m EXCEPT !.age = a]
        IN Shaped(o) /\ o.state = m.state /\ o.age = a /\ o.seen = m.seen
             /\ o.level = m.level /\ o.hi = m.hi
    BY <2>1, CounterShape
  <2> QED
    BY <1>4, <2>2 DEF a
<1> HIDE DEF older
<1>6. Shaped(tracked) /\ tracked.state = m.state /\ tracked.age = m.age /\ tracked.seen = seen
  <2> HIDE DEF seen
  <2> QED
    BY <1>3, CounterShape
<1>7. window \in Seq(FeatureBars) /\ Len(window) = seen /\ window[Len(window)] = b
  <2> HIDE DEF seen
  <2>1. Len(k) - seen + 1 \in 1..Len(k)
    BY <1>3
  <2> QED
    BY <1>3, <2>1
<1> HIDE DEF seen, tracked, window
<1>8. CASE Expired(m)
  <2>1. n = [m EXCEPT !.state = "EXPIRED"] /\ m.state # "INACTIVE"
    BY <1>8, Zenon DEF Advance, Expired
  <2> HIDE DEF n
  <2>2. PICK V : m \in Machines(V)
    BY DEF Shaped
  <2>3. n \in Machines(V) /\ n.state = "EXPIRED"
    BY <2>1, <2>2 DEF Machines, States
  <2> QED
    BY <2>1, <2>3 DEF Moves, Expires, Shaped, n
<1>9. CASE m.state = "INACTIVE"
  <2>1. n = IF seen < Warmup[h] THEN tracked ELSE Start(h, tracked, window)
    BY <1>9, Zenon DEF Advance, Expired, seen, tracked, window
  <2> HIDE DEF n
  <2>2. CASE n = tracked
    BY <1>3, <1>6, <1>9, <2>2 DEF Moves, Waits, n
  <2>3. CASE n = Start(h, tracked, window) /\ n # tracked /\ ~(seen < Warmup[h])
    <3>1. /\ Begins(tracked, n)
          /\ h \notin Formers => n = tracked \/ n.state = "BREAKOUT_PENDING"
          /\ h = "H1-003" => n = tracked \/ (n.state = "FORMING" /\ n.hi = window[Len(window)].close)
      BY <1>3, <1>6, <1>7, <2>3, StartOf
    <3>2. m.seen + 1 >= 10
      BY <1>1, <1>2, <1>3, <2>3
    <3>3. Shaped(n) /\ BeginsNow(h, m, n, b, Len(k))
      BY <1>3, <1>6, <1>7, <1>9, <2>3, <3>1, <3>2 DEF Begins, BeginsNow
    <3> QED
      BY <3>3 DEF Moves, n
  <2> QED
    BY <2>1, <2>2, <2>3 DEF n
<1>10. CASE ~Expired(m) /\ m.state = "FORMING"
  <2>1. m.age < MaxFormation
    BY <1>1, <1>10 DEF Expired, MaxFormation
  <2>2. h \in Formers
    BY <1>10
  <2>3. CASE h = "H1-003"
    <3>1. n = DoubleBottomForm(older, b)
      BY <1>10, <2>3, Zenon DEF Advance, older
    <3> HIDE DEF n, b
    <3>2. /\ Shaped(n) /\ n.age = m.age + 1 /\ n.seen = m.seen
          /\ \/ n.state = "FORMING" /\ n.hi = Max({m.hi, b.close})
             \/ n.state = "BREAKOUT_PENDING" /\ n.level = 20 * Max({m.hi, b.close})
      <4>1. /\ Shaped(older) /\ older.state = "FORMING" /\ older.hi = m.hi
            /\ older.age = m.age + 1 /\ older.seen = m.seen
        BY <1>5, <1>10
      <4>2. LET d == DoubleBottomForm(older, b)
                neck == Max({older.hi, b.close})
            IN /\ Shaped(d) /\ d.age = older.age /\ d.seen = older.seen
               /\ \/ d.state = "FORMING" /\ d.hi = neck
                  \/ d.state = "BREAKOUT_PENDING" /\ d.level = 20 * neck
        BY <4>1, DoubleBottomOf
      <4> QED
        BY <3>1, <4>1, <4>2
    <3>3. GoesOn(h, m, n, b) \/ Completes(h, m, n, b)
      BY <1>10, <2>1, <3>2 DEF GoesOn, Completes
    <3> QED
      BY <3>2, <3>3 DEF Moves, n, b
  <2>4. CASE h \in Diamonds
    <3>1. \E bearish : n = DiamondForm(older, b, bearish)
      <4>1. CASE h = "H1-016"
        BY <1>10, <4>1, Zenon DEF Advance, older, DiamondTopForm
      <4>2. CASE h = "H1-017"
        BY <1>10, <4>2, Zenon DEF Advance, older, DiamondBottomForm
      <4> QED
        BY <2>4, <4>1, <4>2 DEF Diamonds
    <3> HIDE DEF n, b
    <3>2. /\ Shaped(n) /\ n.age = m.age + 1 /\ n.seen = m.seen
          /\ n.state \in {"FORMING", "BREAKOUT_PENDING"}
      BY <1>5, <1>10, <3>1, DiamondOf
    <3>3. GoesOn(h, m, n, b) \/ Completes(h, m, n, b)
      BY <1>10, <2>1, <2>4, <3>2 DEF GoesOn, Completes, Diamonds
    <3> QED
      BY <3>2, <3>3 DEF Moves, n, b
  <2> QED
    BY <2>2, <2>3, <2>4 DEF Formers, Diamonds
<1>11. CASE ~Expired(m) /\ m.state = "BREAKOUT_PENDING"
  <2>1. m.age < MaxFormation
    BY <1>1, <1>11 DEF Expired, MaxFormation
  <2>2. n = IF Beyond(h, m.level, b.close) THEN [older EXCEPT !.state = "CONFIRMED"] ELSE older
    BY <1>11, Zenon DEF Advance, older
  <2> HIDE DEF n, b
  <2>3. CASE Beyond(h, m.level, b.close)
    <3>1. PICK V : older \in Machines(V)
      BY <1>5 DEF Shaped
    <3>2. n \in Machines(V) /\ n.state = "CONFIRMED" /\ n.level = m.level
      BY <1>5, <2>2, <2>3, <3>1 DEF Machines, States
    <3> QED
      BY <1>11, <2>3, <3>2 DEF Moves, BreaksOut, Shaped, n, b
  <2>4. CASE ~Beyond(h, m.level, b.close)
    BY <1>5, <1>11, <2>1, <2>2, <2>4 DEF Moves, Holds, n, b
  <2> QED
    BY <2>3, <2>4
<1> QED
  BY <1>8, <1>9, <1>10, <1>11 DEF Resting3

-----------------------------------------------------------------------------
(* The inductive invariant.  d counts the bars back from the latest.       *)

\* The close d bars before the latest.
Ago(past, d) == past[Len(past) - d].close

\* The formation of a machine lies within the history, a double bottom's
\* neckline is above its closes, and what waits has not broken out.
Remembered(h, m, past) ==
  /\ Shaped(m) /\ m.state \in Resting3
  /\ m.state = "FORMING" => h \in Formers
  /\ h \in Stubs => m.state = "INACTIVE"
  /\ m.age <= MaxFormation /\ m.age <= Len(past) /\ m.seen <= Len(past)
  /\ h = "H1-003" /\ m.state = "FORMING" =>
       /\ m.hi \in Int
       /\ \A d \in 0..(m.age - 1) : Ago(past, d) <= m.hi
  /\ h \notin Diamonds /\ m.state = "BREAKOUT_PENDING" =>
       \A d \in 0..(m.age - 1) : ~Beyond(h, m.level, Ago(past, d))

\* A cooldown ends before the machine has the bars to start again.
Rests(m, c) == c \in Nat /\ (c > 0 => m.state = "INACTIVE" /\ m.seen + c <= CooldownBars)

MarketInv ==
  /\ path \in Paths /\ leg \in Nat /\ leg >= 1
  /\ price \in [mid : Int, half : Nat \ {0}]

IInv ==
  /\ MarketInv
  /\ history \in Seq(FeatureBars) /\ Len(history) <= 80
  /\ \A h \in Hypotheses : Remembered(h, machine[h], history) /\ Rests(machine[h], cooldown[h])

\* A machine that was reset has nothing to remember.
LEMMA IdleRemembered ==
  ASSUME NEW h \in Hypotheses, NEW past \in Seq(FeatureBars)
  PROVE  /\ Remembered(h, Idle, past)
         /\ Idle.state = "INACTIVE" /\ Idle.seen = 0
<1>1. Idle \in Machines(Int)
  BY DEF Idle, Machines, States, Resting3
<1>2. Idle.state = "INACTIVE" /\ Idle.age = 0 /\ Idle.seen = 0
  BY DEF Idle
<1>3. Len(past) \in Nat
  OBVIOUS
<1> QED
  BY <1>1, <1>2, <1>3 DEF Remembered, Shaped, Resting3, MaxFormation

\* A close up to the neckline is not beyond it.
LEMMA BreakoutHolds ==
  ASSUME NEW close \in Int, NEW neck \in Int, close <= neck
  PROVE  ~Beyond("H1-003", 20 * neck, close)
<1>1. Bias["H1-003"] = "long"
  BY DEF Bias, Detectors
<1> QED
  BY <1>1 DEF Beyond

\* A count that the old window holds, p bars long, the new one of l bars holds.
LEMMA Fits ==
  ASSUME NEW p \in Nat, p <= 80, NEW l \in Nat, l <= 80, l = p + 1 \/ l = 80,
         NEW a \in Nat, a <= p
  PROVE  /\ a <= l /\ (a < l \/ 80 <= l)
         /\ a < MaxFormation => a + 1 <= MaxFormation /\ a + 1 <= l
  BY DEF MaxFormation

\* Every bar moves the closes one further back.
LEMMA AgoAfter ==
  ASSUME NEW past \in Seq(FeatureBars), Len(past) <= 80, NEW x \in FeatureBars
  PROVE  LET k == Keep(Append(past, x)) IN
           \A d \in 0..(Len(k) - 1) :
             /\ Ago(k, d) \in Int
             /\ Ago(k, d) = IF d = 0 THEN x.close ELSE Ago(past, d - 1)
<1> DEFINE k == Keep(Append(past, x))
<1>1. k \in Seq(FeatureBars) /\ Len(k) \in Nat /\ Len(k) >= 1
  BY Kept
<1>2. /\ k[Len(k)] = x
      /\ \A d \in 1..(Len(k) - 1) : k[Len(k) - d] = past[Len(past) - (d - 1)]
  BY Kept
<1> HIDE DEF k
<1>3. ASSUME NEW d \in 0..(Len(k) - 1)
      PROVE  /\ Ago(k, d) \in Int
             /\ Ago(k, d) = IF d = 0 THEN x.close ELSE Ago(past, d - 1)
  <2>1. Len(k) - d \in 1..Len(k)
    BY <1>1
  <2>2. k[Len(k) - d] \in FeatureBars
    BY <1>1, <2>1
  <2>3. Ago(k, d) \in Int
    BY <2>2 DEF Ago, FeatureBars
  <2>4. CASE d = 0
    <3>1. Len(k) - d = Len(k)
      BY <1>1, <2>4
    <3> QED
      BY <1>2, <2>3, <2>4, <3>1, Zenon DEF Ago
  <2>5. CASE d # 0
    <3>1. d \in 1..(Len(k) - 1)
      BY <1>1, <2>5
    <3> QED
      BY <1>2, <2>3, <2>5, <3>1, Zenon DEF Ago
  <2> QED
    BY <2>4, <2>5
<1> QED
  BY <1>3 DEF k

\* What a machine remembers, it still remembers after a bar that leaves it at
\* rest, in formation or waiting.
LEMMA RememberedAfter ==
  ASSUME NEW h \in Detectors, NEW m,
         NEW past \in Seq(FeatureBars), Len(past) <= 80, Remembered(h, m, past),
         NEW x \in FeatureBars
  PROVE  LET k == Keep(Append(past, x))
             n == Advance(h, m, k)
         IN /\ Shaped(n) /\ Moves(h, m, n, x, Len(k))
            /\ n.state \in Resting3 => Remembered(h, n, k)
<1> DEFINE k == Keep(Append(past, x))
           n == Advance(h, m, k)
           p == Len(past)
           l == Len(k)
<1>1. k \in Seq(FeatureBars) /\ k[l] = x
  BY Kept
<1>2. l <= 80 /\ l >= 1 /\ (l = p + 1 \/ l = 80)
  BY Kept
<1>3. \A d \in 0..(l - 1) : /\ Ago(k, d) \in Int
                            /\ Ago(k, d) = IF d = 0 THEN x.close ELSE Ago(past, d - 1)
  BY AgoAfter
<1> HIDE DEF k
<1>4. p \in Nat /\ p <= 80 /\ l \in Nat
  BY <1>1
<1>5. /\ Shaped(m) /\ m.state \in Resting3 /\ (m.state = "FORMING" => h \in Formers)
      /\ m.age <= MaxFormation /\ m.age <= p /\ m.seen <= p
  BY DEF Remembered
<1>6. m.age \in Nat /\ m.seen \in Nat
  BY <1>5, CounterShape, 0 \in Nat
<1>7. m.seen < l \/ WindowSize[h] <= l
  <2> HIDE DEF p, l
  <2>1. m.seen < l \/ 80 <= l
    BY <1>2, <1>4, <1>5, <1>6, Fits
  <2>2. WindowSize[h] \in Nat /\ WindowSize[h] <= 80
    BY Warmups
  <2> QED
    BY <1>4, <2>1, <2>2
<1>8. Shaped(n) /\ Moves(h, m, n, x, l)
  BY <1>1, <1>2, <1>5, <1>7, AdvanceOf
<1> HIDE DEF n, p, l
<1>9. h \notin Stubs /\ n.age \in Nat /\ n.seen \in Nat
  BY <1>8, CounterShape, 0 \in Nat DEF Detectors, Stubs
<1>10. /\ m.age <= l /\ m.seen <= l
       /\ m.age < MaxFormation => m.age + 1 <= MaxFormation /\ m.age + 1 <= l
  <2>1. m.seen <= l
    BY <1>2, <1>4, <1>5, <1>6, Fits
  <2> DEFINE a == m.age
  <2>2. a \in Nat /\ a <= p
    BY <1>5, <1>6
  <2> HIDE DEF a
  <2>3. a <= l /\ (a < MaxFormation => a + 1 <= MaxFormation /\ a + 1 <= l)
    BY <1>2, <1>4, <2>2, Fits
  <2> QED
    BY <2>1, <2>3 DEF a
<1>11. x.close \in Int
  BY DEF FeatureBars
\* What holds of the closes of the formation so far and of the new one holds of
\* those of the formation from now on.
<1>12. ASSUME m.age < MaxFormation, NEW d \in 0..m.age
       PROVE  /\ Ago(k, d) \in Int
              /\ \/ Ago(k, d) = x.close
                 \/ d - 1 \in 0..(m.age - 1) /\ Ago(k, d) = Ago(past, d - 1)
  <2>1. d \in 0..(l - 1)
    BY <1>4, <1>6, <1>10, <1>12
  <2>2. d = 0 \/ d - 1 \in 0..(m.age - 1)
    BY <1>6
  <2> QED
    BY <1>3, <2>1, <2>2
<1> DEFINE neck == Max({m.hi, x.close})
<1>13. ASSUME h = "H1-003", m.state = "FORMING", m.age < MaxFormation
       PROVE  /\ neck \in Int
              /\ \A d \in 0..m.age : Ago(k, d) \in Int /\ Ago(k, d) <= neck
  <2>1. m.hi \in Int /\ \A d \in 0..(m.age - 1) : Ago(past, d) <= m.hi
    BY <1>13 DEF Remembered
  <2>2. neck \in Int /\ neck >= m.hi /\ neck >= x.close
    BY <1>11, <2>1, MaxOfTwo
  <2> HIDE DEF neck
  <2>3. ASSUME NEW d \in 0..m.age
        PROVE  Ago(k, d) \in Int /\ Ago(k, d) <= neck
    <3>1. Ago(k, d) \in Int
      BY <1>12, <1>13
    <3>2. Ago(k, d) <= m.hi \/ Ago(k, d) = x.close
      BY <1>12, <1>13, <2>1
    <3> QED
      BY <1>11, <2>1, <2>2, <3>1, <3>2
  <2> QED
    BY <2>2, <2>3
<1> HIDE DEF neck
<1>14. CASE Expires(m, n) \/ BreaksOut(h, m, n, x)
  BY <1>8, <1>14 DEF Expires, BreaksOut, Resting3, n, k, l
<1>15. CASE Waits(m, n, l)
  <2>1. Remembered(h, n, k)
    BY <1>5, <1>8, <1>9, <1>10, <1>15 DEF Waits, Remembered, Resting3, l
  <2> QED
    BY <1>8, <2>1 DEF n, k, l
<1>16. CASE BeginsNow(h, m, n, x, l)
  <2>1. Remembered(h, n, k)
    BY <1>2, <1>4, <1>8, <1>9, <1>11, <1>16
       DEF BeginsNow, Remembered, Resting3, MaxFormation, l
  <2> QED
    BY <1>8, <2>1 DEF n, k, l
<1>17. CASE GoesOn(h, m, n, x)
  <2>1. ASSUME h = "H1-003"
        PROVE  n.hi \in Int /\ \A d \in 0..(n.age - 1) : Ago(k, d) <= n.hi
    <3>1. n.hi = neck
      BY <1>17, <2>1 DEF GoesOn, neck
    <3>2. m.age < MaxFormation /\ n.age - 1 = m.age
      BY <1>6, <1>17 DEF GoesOn
    <3> QED
      BY <1>13, <1>17, <2>1, <3>1, <3>2 DEF GoesOn
  <2>2. Remembered(h, n, k)
    BY <1>5, <1>8, <1>9, <1>10, <1>17, <2>1 DEF GoesOn, Remembered, Resting3, l
  <2> QED
    BY <1>8, <2>2 DEF n, k, l
<1>18. CASE Completes(h, m, n, x)
  <2>1. ASSUME h = "H1-003", NEW d \in 0..(n.age - 1)
        PROVE  ~Beyond(h, n.level, Ago(k, d))
    <3>1. d \in 0..m.age
      BY <1>6, <1>18 DEF Completes
    <3>2. neck \in Int /\ Ago(k, d) \in Int /\ Ago(k, d) <= neck
      BY <1>13, <1>18, <2>1, <3>1 DEF Completes
    <3>3. n.level = 20 * neck
      BY <1>18, <2>1 DEF Completes, neck
    <3> QED
      BY <2>1, <3>2, <3>3, BreakoutHolds
  <2>2. h \in Formers
    BY <1>5, <1>18 DEF Completes
  <2>3. Remembered(h, n, k)
    BY <1>8, <1>9, <1>10, <1>18, <2>1, <2>2
       DEF Completes, Remembered, Resting3, Formers, Diamonds, l
  <2> QED
    BY <1>8, <2>3 DEF n, k, l
<1>19. CASE Holds(h, m, n, x)
  <2>1. ASSUME h \notin Diamonds, NEW d \in 0..(n.age - 1)
        PROVE  ~Beyond(h, n.level, Ago(k, d))
    <3>1. \A e \in 0..(m.age - 1) : ~Beyond(h, m.level, Ago(past, e))
      BY <1>19, <2>1 DEF Remembered, Holds
    <3>2. d \in 0..m.age /\ m.age < MaxFormation
      BY <1>6, <1>19 DEF Holds
    <3>3. n.level = m.level /\ ~Beyond(h, m.level, x.close)
      BY <1>19 DEF Holds
    <3> QED
      BY <1>12, <3>1, <3>2, <3>3
  <2>2. Remembered(h, n, k)
    BY <1>5, <1>8, <1>9, <1>10, <1>19, <2>1 DEF Holds, Remembered, Resting3, l
  <2> QED
    BY <1>8, <2>2 DEF n, k, l
<1> QED
  BY <1>8, <1>14, <1>15, <1>16, <1>17, <1>18, <1>19 DEF Moves

-----------------------------------------------------------------------------
(* The market and the group.                                               *)

\* Whatever leg the market is on, its next bar is a bar of the features.
LEMMA MarketBar ==
  ASSUME MarketInv
  PROVE  /\ NextPrice \in [mid : Int, half : Nat \ {0}]
         /\ Bar(NextPrice) \in FeatureBars
<1>1. path \in Seq(Legs) /\ path # <<>> /\ leg \in Nat /\ leg >= 1
  BY MarketAssumption DEF MarketInv
<1>2. Leg \in [bars : Nat \ {0}, slope : Int, widen : Int, adx : Nat, ema : {-1, 0, 1}]
  <2>1. Len(path) \in Nat /\ Len(path) >= 1
    BY <1>1
  <2>2. CASE leg <= Len(path)
    <3>1. path[leg] \in Legs
      BY <1>1, <2>1, <2>2
    <3> QED
      BY <2>2, <3>1 DEF Leg, Legs
  <2>3. CASE ~(leg <= Len(path))
    <3> DEFINE last == path[Len(path)]
    <3>1. last \in Legs
      BY <1>1, <2>1
    <3>2. Leg = Resting(last)
      BY <2>3, Zenon DEF Leg
    <3> HIDE DEF last
    <3>3. [last EXCEPT !.slope = 0, !.widen = 0] \in Legs
      <4> DEFINE B == Nat \ {0}  E == {-1, 0, 1}  I == Int
      <4>1. Legs = [bars : B, slope : I, widen : I, adx : Nat, ema : E] /\ 0 \in I
        BY DEF Legs
      <4> HIDE DEF B, E, I
      <4>2. last \in [bars : B, slope : I, widen : I, adx : Nat, ema : E]
        BY <3>1, <4>1
      <4>3. [last EXCEPT !.slope = 0, !.widen = 0]
              \in [bars : B, slope : I, widen : I, adx : Nat, ema : E]
        BY <4>1, <4>2
      <4> QED
        BY <4>1, <4>3, Zenon
    <3> QED
      BY <3>2, <3>3, Zenon DEF Resting, Legs
  <2> QED
    BY <2>2, <2>3
<1>3. price.mid \in Int /\ price.half \in Nat
  BY DEF MarketInv
<1>4. Leg.slope \in Int /\ Leg.widen \in Int /\ Leg.adx \in Nat /\ Leg.ema \in {-1, 0, 1}
  BY <1>2
<1> DEFINE half == Max({1, price.half + Leg.widen})
<1>5. half \in Nat \ {0}
  <2> DEFINE r == price.half + Leg.widen
  <2>1. r \in Int /\ 1 \in Int
    BY <1>3, <1>4
  <2> HIDE DEF r
  <2>2. Max({1, r}) \in {1, r} /\ Max({1, r}) >= 1
    BY <2>1, MaxOfTwo, Zenon
  <2> QED
    BY <2>1, <2>2 DEF r
<1> HIDE DEF half
<1>6. NextPrice = [mid |-> price.mid + Leg.slope, half |-> half]
  BY DEF NextPrice, half
<1>7. NextPrice \in [mid : Int, half : Nat \ {0}]
  BY <1>3, <1>4, <1>5, <1>6
<1>8. Bar(NextPrice) \in FeatureBars
  BY <1>4, <1>7 DEF Bar, FeatureBars
<1> QED
  BY <1>7, <1>8

\* What the machine of h is after its advance, before the group resets it.
Advanced(h, k) == IF h \in Stubs THEN machine[h] ELSE Advance(h, machine[h], k)

\* What the group makes of it.
LEMMA GroupStep ==
  ASSUME NEW b, PatternBar(b), NEW h \in Hypotheses
  PROVE  LET k == Keep(Append(history, b))
             n == Advanced(h, k)
         IN /\ history' = k
            /\ n.state \in {"CONFIRMED", "EXPIRED"} => machine'[h] = Idle
            /\ n.state \notin {"CONFIRMED", "EXPIRED"} => machine'[h] = n
            /\ \/ cooldown'[h] = Max({0, cooldown[h] - 1})
               \/ cooldown'[h] = CooldownBars /\ machine'[h] = Idle
<1> DEFINE k == Keep(Append(history, b))
           next == [g \in Hypotheses |-> Advanced(g, k)]
           confirmed == {g \in Hypotheses : next[g].state = "CONFIRMED"}
           failed == {g \in Hypotheses : next[g].state = "EXPIRED"}
                       \cup {g \in confirmed : Blocked(g, b)}
           ticked == [g \in Hypotheses |-> Max({0, cooldown[g] - 1})]
<1>1. /\ history' = k
      /\ machine' = [g \in Hypotheses |-> IF g \in confirmed \cup failed THEN Idle ELSE next[g]]
      /\ cooldown' = [g \in Hypotheses |-> IF g \in failed THEN CooldownBars ELSE ticked[g]]
  BY Zenon DEF PatternBar, Advanced
<1>2. next[h] = Advanced(h, k) /\ ticked[h] = Max({0, cooldown[h] - 1})
  OBVIOUS
<1> HIDE DEF next, ticked, k
<1>3. /\ machine'[h] = IF h \in confirmed \cup failed THEN Idle ELSE next[h]
      /\ cooldown'[h] = IF h \in failed THEN CooldownBars ELSE ticked[h]
  BY <1>1, Zenon
<1>4. /\ h \in failed => next[h].state \in {"CONFIRMED", "EXPIRED"}
      /\ h \in confirmed \cup failed <=> next[h].state \in {"CONFIRMED", "EXPIRED"}
  OBVIOUS
<1> HIDE DEF confirmed, failed
<1> QED
  BY <1>1, <1>2, <1>3, <1>4, Zenon DEF k

\* A signal comes from a machine that has just broken out and is not blocked.
LEMMA GroupSignals ==
  ASSUME NEW b, PatternBar(b), NEW s \in signals'
  PROVE  LET k == Keep(Append(history, b)) IN
         \E h \in Hypotheses : /\ s.hypothesis = h /\ s.level = Advanced(h, k).level
                               /\ Advanced(h, k).state = "CONFIRMED"
                               /\ ~Blocked(h, b)
<1> DEFINE k == Keep(Append(history, b))
           next == [g \in Hypotheses |-> Advanced(g, k)]
           confirmed == {g \in Hypotheses : next[g].state = "CONFIRMED"}
           failed == {g \in Hypotheses : next[g].state = "EXPIRED"}
                       \cup {g \in confirmed : Blocked(g, b)}
<1>1. signals' = {Signal(g, next[g]) : g \in confirmed \ failed}
  BY Zenon DEF PatternBar, Advanced
<1>2. PICK h \in confirmed \ failed : s = Signal(h, next[h])
  BY <1>1, Zenon
<1>3. s.hypothesis = h /\ s.level = next[h].level
  BY <1>2 DEF Signal
<1>4. h \in Hypotheses /\ next[h].state = "CONFIRMED" /\ ~Blocked(h, b)
  BY <1>2, Zenon
<1>5. next[h] = Advanced(h, k)
  BY <1>4
<1> QED
  BY <1>3, <1>4, <1>5, Zenon

-----------------------------------------------------------------------------
(* Every step.                                                             *)

\* An empty history, every machine idle.
LEMMA PatternsInit == Init => IInv
<1> SUFFICES ASSUME Init PROVE IInv
  OBVIOUS
<1>1. MarketInv
  BY MarketAssumption DEF Init, MarketInv
<1>2. history = <<>> /\ history \in Seq(FeatureBars) /\ Len(history) <= 80
  BY DEF Init, InitPatterns
<1>3. ASSUME NEW h \in Hypotheses
      PROVE  Remembered(h, machine[h], history) /\ Rests(machine[h], cooldown[h])
  <2>1. machine[h] = Idle /\ cooldown[h] = 0
    BY DEF Init, InitPatterns
  <2>2. Remembered(h, Idle, history)
    BY <1>2, IdleRemembered
  <2>3. Rests(Idle, 0)
    BY DEF Rests
  <2> QED
    BY <2>1, <2>2, <2>3
<1> QED
  BY <1>1, <1>2, <1>3 DEF IInv

\* The market goes on within its paths.
LEMMA MarketStep == IInv /\ Next => MarketInv'
<1> SUFFICES ASSUME IInv, Next PROVE MarketInv'
  OBVIOUS
<1>1. MarketInv /\ MarketMoves
  BY DEF IInv, Next, FeatureReady
<1>2. NextPrice \in [mid : Int, half : Nat \ {0}]
  BY <1>1, MarketBar
<1>3. path' \in Paths /\ price' \in [mid : Int, half : Nat \ {0}]
  BY <1>1, <1>2 DEF MarketMoves, MarketInv
<1>4. leg' \in Nat /\ leg' >= 1
  BY <1>1 DEF MarketMoves, MarketInv
<1> QED
  BY <1>3, <1>4 DEF MarketInv

\* The machine of h before and after a bar.
LEMMA MachineStep ==
  ASSUME IInv, Next, NEW h \in Hypotheses
  PROVE  Remembered(h, machine[h], history)' /\ Rests(machine[h], cooldown[h])'
<1> DEFINE b == Bar(NextPrice)
           k == Keep(Append(history, b))
           m == machine[h]
           n == Advanced(h, k)
           c == cooldown[h]
           t == Max({0, c - 1})
<1>1. PatternBar(b) /\ b \in FeatureBars
  BY MarketBar DEF IInv, Next, FeatureReady
<1>2. /\ history \in Seq(FeatureBars) /\ Len(history) <= 80
      /\ Remembered(h, m, history) /\ Rests(m, c)
  BY DEF IInv
<1> HIDE DEF b
<1>3. /\ history' = k
      /\ n.state \in {"CONFIRMED", "EXPIRED"} => machine'[h] = Idle
      /\ n.state \notin {"CONFIRMED", "EXPIRED"} => machine'[h] = n
      /\ cooldown'[h] = t \/ (cooldown'[h] = CooldownBars /\ machine'[h] = Idle)
  BY <1>1, GroupStep
<1>4. k \in Seq(FeatureBars) /\ Len(k) <= 80 /\ (Len(k) = Len(history) + 1 \/ Len(k) = 80)
  BY <1>1, <1>2, Kept
<1>5. h \in Detectors =>
        /\ Shaped(n) /\ Moves(h, m, n, b, Len(k))
        /\ n.state \in Resting3 => Remembered(h, n, k)
  <2>1. ASSUME h \in Detectors PROVE n = Advance(h, m, k)
    BY <2>1 DEF Advanced, Detectors, Stubs
  <2> HIDE DEF n
  <2> QED
    BY <1>1, <1>2, <2>1, RememberedAfter
<1>6. h \in Stubs => n = m /\ m.state = "INACTIVE"
  BY <1>2 DEF Advanced, Remembered
<1>7. h \in Detectors \/ h \in Stubs
  BY DEF Hypotheses
<1> HIDE DEF n, k, m, c
<1>8. m.seen \in Nat /\ m.age \in Nat /\ Shaped(m) /\ m.state \in Resting3
  BY <1>2, CounterShape, 0 \in Nat DEF Remembered
<1>9. Idle.state = "INACTIVE" /\ Idle.seen = 0 /\ Remembered(h, Idle, k)
  BY <1>4, IdleRemembered
<1>10. Remembered(h, machine'[h], k)
  <2>1. CASE n.state \in {"CONFIRMED", "EXPIRED"}
    BY <1>3, <1>9, <2>1
  <2>2. CASE n.state \notin {"CONFIRMED", "EXPIRED"} /\ h \in Detectors
    <3>1. n.state \in States
      BY <1>5, <2>2, CounterShape, 0 \in Nat
    <3> QED
      BY <1>3, <1>5, <2>2, <3>1 DEF States
  <2>3. CASE n.state \notin {"CONFIRMED", "EXPIRED"} /\ h \in Stubs
    <3> DEFINE p == Len(history)  l == Len(k)  a == m.age  s == m.seen
    <3>1. p \in Nat /\ p <= 80 /\ l \in Nat /\ l <= 80 /\ (l = p + 1 \/ l = 80)
      BY <1>2, <1>4
    <3>2. a \in Nat /\ a <= p /\ s \in Nat /\ s <= p /\ a <= MaxFormation
      BY <1>2, <1>8 DEF Remembered
    <3> HIDE DEF p, l, a, s
    <3>3. a <= l
      BY <3>1, <3>2, Fits
    <3>4. s <= l
      BY <3>1, <3>2, Fits
    <3>5. Remembered(h, m, k)
      BY <1>6, <1>8, <2>3, <3>2, <3>3, <3>4 DEF Remembered, a, s, l
    <3> QED
      BY <1>3, <1>6, <2>3, <3>5
  <2> QED
    BY <1>7, <2>1, <2>2, <2>3
<1>11. c \in Nat /\ (c > 0 => m.state = "INACTIVE" /\ m.seen + c <= CooldownBars)
  BY <1>2 DEF Rests
<1>12. t \in Nat /\ (t > 0 => t = c - 1)
  <2>1. 0 \in Int /\ c - 1 \in Int
    BY <1>11
  <2>2. t \in {0, c - 1} /\ t >= 0
    BY <2>1, MaxOfTwo, Zenon
  <2> HIDE DEF t
  <2> QED
    BY <1>11, <2>2
<1> HIDE DEF t
<1>13. Rests(machine'[h], cooldown'[h])
  <2>1. CASE cooldown'[h] = CooldownBars /\ machine'[h] = Idle
    BY <1>9, <2>1 DEF Rests, CooldownBars
  <2>2. CASE cooldown'[h] = t /\ ~(t > 0)
    BY <1>12, <2>2 DEF Rests
  <2>3. CASE cooldown'[h] = t /\ t > 0
    <3>1. m.state = "INACTIVE" /\ m.seen + c <= 5 /\ t = c - 1
      BY <1>11, <1>12, <2>3 DEF CooldownBars
    <3>2. CASE h \in Stubs
      <4>1. machine'[h] = m
        BY <1>3, <1>6, <3>1, <3>2
      <4> QED
        BY <1>8, <1>11, <1>12, <2>3, <3>1, <4>1 DEF Rests, CooldownBars
    <3>3. CASE h \in Detectors
      <4>1. Waits(m, n, Len(k)) \/ BeginsNow(h, m, n, b, Len(k))
        BY <1>5, <3>1, <3>3 DEF Moves, Expires, GoesOn, Completes, Holds, BreaksOut
      <4>2. ~BeginsNow(h, m, n, b, Len(k))
        BY <1>8, <1>11, <1>12, <2>3, <3>1 DEF BeginsNow
      <4>3. n.state = "INACTIVE" /\ n.seen <= m.seen + 1
        BY <4>1, <4>2 DEF Waits
      <4>4. n.seen \in Nat
        BY <1>5, <3>3, CounterShape, 0 \in Nat
      <4>5. machine'[h] = n
        BY <1>3, <4>3
      <4> QED
        BY <1>8, <1>11, <1>12, <2>3, <3>1, <4>3, <4>4, <4>5 DEF Rests, CooldownBars
    <3> QED
      BY <1>7, <3>2, <3>3
  <2> QED
    BY <1>3, <1>12, <2>1, <2>2, <2>3
<1> QED
  BY <1>3, <1>10, <1>13

\* One step of the whole.
LEMMA PatternsStep == IInv /\ [Next]_vars => IInv'
<1> SUFFICES ASSUME IInv, [Next]_vars PROVE IInv'
  OBVIOUS
<1>1. CASE Next
  <2>1. MarketInv'
    BY <1>1, MarketStep
  <2>2. \A h \in Hypotheses : (Remembered(h, machine[h], history) /\ Rests(machine[h], cooldown[h]))'
    BY <1>1, MachineStep
  <2>3. history' \in Seq(FeatureBars) /\ Len(history') <= 80
    <3>1. PatternBar(Bar(NextPrice)) /\ Bar(NextPrice) \in FeatureBars
      BY <1>1, MarketBar DEF IInv, Next, FeatureReady
    <3>2. history' = Keep(Append(history, Bar(NextPrice)))
      BY <3>1, Zenon DEF PatternBar
    <3> QED
      BY <3>1, <3>2, Kept DEF IInv
  <2> QED
    BY <2>1, <2>2, <2>3 DEF IInv
<1>2. CASE UNCHANGED vars
  BY <1>2 DEF vars, patternVars, marketVars, IInv, MarketInv
<1> QED
  BY <1>1, <1>2

-----------------------------------------------------------------------------
(* The levels.                                                             *)

Levels == [price : Int, touches : Int, tested : Int]

\* A bar of the market closes inside its range.
PriceBars == {x \in FeatureBars : x.low < x.close /\ x.close < x.high}

\* The price of a level that stands for the pivot p.
NearBy(x, p) == 2 * Distance(x, p) <= Tolerance + 2

\* The first index is one of the indices.
LEMMA FirstOf ==
  ASSUME NEW S \in SUBSET Nat, S # {}
  PROVE  Min(S) \in S
<1>1. \E x \in S : \A y \in S : x <= y
  <2> DEFINE R == {ss \in Nat \X Nat : ss[1] < ss[2]}
  <2>1. IsWellFoundedOn(R, Nat)
    <3>1. R = OpToRel(<, Nat)
      BY Zenon DEF OpToRel
    <3> QED
      BY <3>1, NatLessThanWellFounded, Zenon
  <2>2. PICK x \in S : \A y \in S : <<y, x>> \notin R
    BY <2>1, WFMin
  <2>3. ASSUME NEW y \in S PROVE x <= y
    <3>1. x \in Nat /\ y \in Nat /\ ~(y < x)
      BY <2>2
    <3> QED
      BY <3>1
  <2> QED
    BY <2>3
<1> QED
  BY <1>1 DEF Min

LEMMA ToleranceIs ==
  Tolerance \in Nat /\ 2 * Tolerance <= Atr /\ Atr \in Nat /\ Atr >= 1
BY StructureAssumption DEF Tolerance

LEMMA TouchesCount ==
  ASSUME NEW x, NEW b \in Seq(PriceBars)
  PROVE  Touches(x, b) \in Nat
<1> DEFINE T == {i \in DOMAIN b : b[i].high >= x - Tolerance /\ b[i].low <= x + Tolerance}
<1>1. DOMAIN b = 1..Len(b) /\ Len(b) \in Nat
  OBVIOUS
<1>2. IsFiniteSet(DOMAIN b)
  BY <1>1, FS_Interval
<1>3. IsFiniteSet(T)
  BY <1>2, FS_Subset
<1> QED
  BY <1>3, FS_CardinalityType DEF Touches

\* A level that takes a pivot within the tolerance in stays near it.
LEMMA MergedNear ==
  ASSUME NEW l \in Levels, NEW p \in Int, NEW b \in Seq(PriceBars),
         Distance(l.price, p) <= Tolerance
  PROVE  Merged(l, p, b) \in Levels /\ NearBy(Merged(l, p, b).price, p)
<1> DEFINE middle == (l.price + p) \div 2
           t == Max({Touches(middle, b), l.touches + 1})
<1>1. l.price \in Int /\ l.touches \in Int /\ l.tested \in Int
  BY DEF Levels
<1>2. middle \in Int /\ 2 * middle <= l.price + p /\ 2 * middle >= l.price + p - 1
  BY <1>1
<1>3. t \in Int
  <2>1. Touches(middle, b) \in Int /\ l.touches + 1 \in Int
    BY <1>1, TouchesCount
  <2> HIDE DEF middle
  <2> DEFINE a == Touches(middle, b)  c == l.touches + 1
  <2> HIDE DEF a, c
  <2>2. a \in Int /\ c \in Int
    BY <2>1 DEF a, c
  <2>3. Max({a, c}) \in {a, c}
    BY <2>2, MaxOfTwo, Zenon
  <2> QED
    BY <2>2, <2>3 DEF a, c
<1> HIDE DEF middle, t
<1>4. Merged(l, p, b) = [price |-> middle, touches |-> t, tested |-> l.tested + 1]
  BY DEF Merged, middle, t
<1>5. NearBy(middle, p)
  BY <1>1, <1>2, ToleranceIs DEF NearBy, Distance
<1> QED
  BY <1>1, <1>2, <1>3, <1>4, <1>5 DEF Levels

\* Clustering leaves a level near the pivot.
LEMMA ClusterHolds ==
  ASSUME NEW levels \in Seq(Levels), NEW p \in Int, NEW b \in Seq(PriceBars)
  PROVE  /\ Cluster(levels, p, b) \in Seq(Levels)
         /\ \E i \in DOMAIN Cluster(levels, p, b) : NearBy(Cluster(levels, p, b)[i].price, p)
<1>1. CASE Near(levels, p) # {}
  <2> DEFINE k == Min(Near(levels, p))
             m == Merged(levels[k], p, b)
  <2>1. Near(levels, p) \in SUBSET Nat
    BY DEF Near
  <2>2. k \in Near(levels, p)
    BY <1>1, <2>1, FirstOf
  <2>3. k \in 1..Len(levels) /\ levels[k] \in Levels /\ Distance(levels[k].price, p) <= Tolerance
    BY <2>2 DEF Near
  <2>4. m \in Levels /\ NearBy(m.price, p)
    BY <2>3, MergedNear
  <2>5. Cluster(levels, p, b) = [levels EXCEPT ![k] = m]
    BY <1>1 DEF Cluster
  <2> HIDE DEF k, m
  <2> QED
    BY <2>3, <2>4, <2>5
<1>2. CASE Near(levels, p) = {}
  <2> DEFINE l == [price |-> p, touches |-> Touches(p, b), tested |-> 1]
  <2>1. l \in Levels
    BY TouchesCount DEF Levels
  <2>2. NearBy(l.price, p)
    BY ToleranceIs DEF NearBy, Distance
  <2>3. Cluster(levels, p, b) = Append(levels, l)
    BY <1>2 DEF Cluster
  <2> HIDE DEF l
  <2> QED
    BY <2>1, <2>2, <2>3
<1> QED
  BY <1>1, <1>2

\* The close of the bar that confirms a pivot does not break a level near it.
LEMMA NearIsUnbroken ==
  ASSUME NEW l \in Levels, NEW p \in Int, NEW close \in Int, NEW above \in BOOLEAN,
         NearBy(l.price, p), IF above THEN close < p ELSE p < close
  PROVE  ~Broken(l, close, above)
<1>1. l.price \in Int
  BY DEF Levels
<1>2. CASE above
  <2>1. close - l.price <= Atr
    BY <1>1, <1>2, ToleranceIs DEF NearBy, Distance
  <2> QED
    BY <1>1, <1>2, <2>1, ToleranceIs DEF Broken
<1>3. CASE ~above
  <2>1. l.price - close <= Atr
    BY <1>1, <1>3, ToleranceIs DEF NearBy, Distance
  <2> QED
    BY <1>1, <1>3, <2>1, ToleranceIs DEF Broken
<1> QED
  BY <1>2, <1>3

\* Levels are ranked without gaps or ties.
LEMMA RanksDiffer ==
  ASSUME NEW levels \in Seq(Levels), NEW kept \in SUBSET DOMAIN levels
  PROVE  /\ Cardinality(kept) \in Nat /\ IsFiniteSet(kept)
         /\ \A i \in kept : Rank(levels, kept, i) \in 1..Cardinality(kept)
         /\ \A i, j \in kept : Rank(levels, kept, i) = Rank(levels, kept, j) => i = j
<1> DEFINE n == Cardinality(kept)
           Beats(j, i) == \/ levels[j].touches > levels[i].touches
                          \/ levels[j].touches = levels[i].touches /\ j <= i
           Above(i) == {j \in kept : Beats(j, i)}
<1>1. DOMAIN levels = 1..Len(levels) /\ Len(levels) \in Nat
  OBVIOUS
<1>2. IsFiniteSet(kept) /\ n \in Nat
  <2>1. IsFiniteSet(DOMAIN levels)
    BY <1>1, FS_Interval
  <2>2. IsFiniteSet(kept)
    BY <2>1, FS_Subset
  <2> QED
    BY <2>2, FS_CardinalityType
<1>3. ASSUME NEW i \in kept PROVE levels[i].touches \in Int /\ i \in Nat
  <2>1. i \in 1..Len(levels) /\ levels[i] \in Levels
    BY <1>1
  <2> QED
    BY <1>1, <2>1 DEF Levels
<1>4. /\ \A i \in kept : Beats(i, i)
      /\ \A i, j \in kept : Beats(i, j) \/ Beats(j, i)
      /\ \A i, j \in kept : Beats(i, j) /\ Beats(j, i) => i = j
      /\ \A i, j, k \in kept : Beats(i, j) /\ Beats(j, k) => Beats(i, k)
  BY <1>3
<1>5. \A i : Rank(levels, kept, i) = Cardinality(Above(i))
  BY DEF Rank
<1> HIDE DEF Beats
<1>6. ASSUME NEW i \in kept
      PROVE  /\ IsFiniteSet(Above(i)) /\ Rank(levels, kept, i) \in 1..n
             /\ Cardinality(Above(i)) \in Nat
  <2>1. IsFiniteSet(Above(i)) /\ Cardinality(Above(i)) <= n
    BY <1>2, FS_Subset
  <2>2. Cardinality(Above(i)) \in Nat
    BY <2>1, FS_CardinalityType
  <2>3. i \in Above(i)
    BY <1>4
  <2>4. Cardinality(Above(i)) # 0
    BY <2>1, <2>3, FS_EmptySet
  <2> QED
    BY <1>2, <1>5, <2>1, <2>2, <2>4
<1>7. ASSUME NEW i \in kept, NEW j \in kept, Beats(i, j), i # j
      PROVE  Rank(levels, kept, i) # Rank(levels, kept, j)
  <2>1. Above(i) \in SUBSET Above(j)
    BY <1>4, <1>7
  <2>2. j \in Above(j) /\ j \notin Above(i)
    BY <1>4, <1>7
  <2>3. Cardinality(Above(i)) # Cardinality(Above(j))
    BY <1>6, <2>1, <2>2, FS_Subset
  <2> QED
    BY <1>5, <2>3
<1>8. \A i, j \in kept : Rank(levels, kept, i) = Rank(levels, kept, j) => i = j
  BY <1>4, <1>7
<1> QED
  BY <1>2, <1>6, <1>8

\* Sorting and cutting lose a level only from a full side.
LEMMA StrongestKeeps ==
  ASSUME NEW levels \in Seq(Levels), NEW kept \in SUBSET DOMAIN levels
  PROVE  LET s == Strongest(levels, kept) IN
           /\ s \in Seq(Levels)
           /\ \A i \in kept : (\E r \in DOMAIN s : s[r] = levels[i]) \/ Len(s) = MaxLevels
<1> DEFINE n == Cardinality(kept)
           R(i) == Rank(levels, kept, i)
           f == [i \in kept |-> R(i)]
           top == Min({MaxLevels, n})
           s == Strongest(levels, kept)
<1>1. /\ n \in Nat /\ IsFiniteSet(kept)
      /\ \A i \in kept : R(i) \in 1..n
      /\ \A i, j \in kept : R(i) = R(j) => i = j
  BY RanksDiffer
<1>2. f \in Surjection(kept, 1..n)
  <2>1. f \in Injection(kept, 1..n)
    <3>1. f \in [kept -> 1..n]
      BY <1>1
    <3>2. IsInjective(f)
      BY <1>1 DEF IsInjective
    <3> QED
      BY <3>1, <3>2 DEF Injection
  <2>2. IsFiniteSet(1..n) /\ Cardinality(1..n) = n
    BY <1>1, FS_Interval
  <2> QED
    BY <2>1, <2>2, FS_Injection
<1>3. \A r \in 1..n : \E i \in kept : R(i) = r
  BY <1>2 DEF Surjection
<1>4. top \in {MaxLevels, n} /\ top <= MaxLevels /\ top <= n /\ MaxLevels \in Nat
  <2>1. MaxLevels \in Int /\ n \in Int
    BY <1>1, StructureAssumption
  <2> HIDE DEF n
  <2> QED
    BY <2>1, MinOfTwo, StructureAssumption
<1>5. s = [r \in 1..top |-> levels[CHOOSE i \in kept : R(i) = r]]
  BY DEF Strongest
<1> HIDE DEF n, R, top, s
<1>6. ASSUME NEW r \in 1..top PROVE \E i \in kept : R(i) = r /\ s[r] = levels[i]
  <2> DEFINE c == CHOOSE i \in kept : R(i) = r
  <2>1. \E i \in kept : R(i) = r
    BY <1>1, <1>3, <1>4
  <2>2. c \in kept /\ R(c) = r
    BY <2>1
  <2>3. s[r] = levels[c]
    BY <1>5
  <2> QED
    BY <2>2, <2>3
<1>7. top \in Nat /\ DOMAIN s = 1..top
  BY <1>1, <1>4, <1>5
<1>8. s \in Seq(Levels) /\ Len(s) = top
  <2>1. \A r \in 1..top : s[r] \in Levels
    BY <1>6
  <2>2. s \in [1..top -> Levels]
    BY <1>5, <2>1
  <2> QED
    BY <1>7, <2>2
<1>9. ASSUME NEW i \in kept, Len(s) # MaxLevels PROVE \E r \in DOMAIN s : s[r] = levels[i]
  <2>1. R(i) \in 1..top
    BY <1>1, <1>4, <1>8, <1>9
  <2>2. PICK j \in kept : R(j) = R(i) /\ s[R(i)] = levels[j]
    BY <1>6, <2>1
  <2>3. j = i
    BY <1>1, <2>2
  <2> QED
    BY <1>7, <2>1, <2>2, <2>3
<1>10. s \in Seq(Levels) /\ \A i \in kept : (\E r \in DOMAIN s : s[r] = levels[i]) \/ Len(s) = MaxLevels
  BY <1>8, <1>9
<1> QED
  BY <1>10 DEF s

\* A side after a bar: a pivot it confirmed is there, or the side is full.
LEMMA SideKeeps ==
  ASSUME NEW levels \in Seq(Levels), NEW swing \in BOOLEAN, NEW p \in Int,
         NEW b \in Seq(PriceBars), NEW close \in Int, NEW above \in BOOLEAN
  PROVE  LET s == Side(levels, swing, p, b, close, above) IN
           /\ s \in Seq(Levels)
           /\ swing /\ (IF above THEN close < p ELSE p < close) =>
                \/ \E i \in DOMAIN s : NearBy(s[i].price, p)
                \/ Len(s) = MaxLevels
<1> DEFINE c == IF swing THEN Cluster(levels, p, b) ELSE levels
           kept == Prune(c, close, above)
           s == Side(levels, swing, p, b, close, above)
<1>1. c \in Seq(Levels)
  BY ClusterHolds
<1>2. swing => \E i \in DOMAIN c : NearBy(c[i].price, p)
  BY ClusterHolds
<1>3. s = Strongest(c, kept)
  BY DEF Side
<1> HIDE DEF c
<1>4. kept \in SUBSET DOMAIN c
  BY DEF Prune
<1>5. ASSUME swing, IF above THEN close < p ELSE p < close
      PROVE  \E i \in kept : NearBy(c[i].price, p)
  <2>1. PICK i \in DOMAIN c : NearBy(c[i].price, p)
    BY <1>2, <1>5
  <2>2. c[i] \in Levels
    BY <1>1
  <2>3. ~Broken(c[i], close, above)
    BY <1>5, <2>1, <2>2, NearIsUnbroken
  <2> QED
    BY <2>1, <2>3 DEF Prune
<1> HIDE DEF kept, s
<1>6. /\ s \in Seq(Levels)
      /\ \A i \in kept : (\E r \in DOMAIN s : s[r] = c[i]) \/ Len(s) = MaxLevels
  BY <1>1, <1>3, <1>4, StrongestKeeps
<1>7. ASSUME swing, IF above THEN close < p ELSE p < close
      PROVE (\E i \in DOMAIN s : NearBy(s[i].price, p)) \/ Len(s) = MaxLevels
  BY <1>5, <1>6, <1>7
<1> QED
  BY <1>6, <1>7 DEF s

\* The window after a bar: not empty, the bar last.
LEMMA WindowAfter ==
  ASSUME NEW s \in Seq(PriceBars), NEW x \in PriceBars,
         NEW b, b = SubSeq(Append(s, x), Max({1, Len(s) + 2 - HistorySize}), Len(s) + 1)
  PROVE  b \in Seq(PriceBars) /\ Len(b) \in Nat /\ b[Len(b)] = x
<1> DEFINE a == Append(s, x)
           from == Max({1, Len(s) + 2 - HistorySize})
<1>1. /\ a \in Seq(PriceBars) /\ Len(a) = Len(s) + 1 /\ a[Len(a)] = x
      /\ Len(s) \in Nat /\ Len(a) \in Nat
  OBVIOUS
<1>2. from \in 1..Len(a)
  <2> DEFINE r == Len(s) + 2 - HistorySize
  <2>1. r \in Int /\ r <= Len(a) /\ 1 \in Int /\ 1 <= Len(a)
    BY <1>1 DEF HistorySize
  <2> HIDE DEF r, a
  <2>2. Max({1, r}) \in {1, r} /\ Max({1, r}) >= 1
    BY <2>1, MaxOfTwo, Zenon
  <2> QED
    BY <1>1, <2>1, <2>2 DEF r
<1> HIDE DEF from
<1> DEFINE k == SubSeq(a, from, Len(a))
<1>3. b = k
  BY <1>1 DEF from
<1>4. /\ b \in Seq(PriceBars) /\ Len(b) = Len(a) - from + 1
      /\ \A i \in 1..Len(b) : b[i] = a[from + i - 1]
  <2>1. /\ k \in Seq(PriceBars) /\ Len(k) = Len(a) - from + 1
        /\ \A i \in 1..Len(k) : k[i] = a[from + i - 1]
    BY <1>1, <1>2
  <2> HIDE DEF k
  <2> QED
    BY <1>3, <2>1
<1> HIDE DEF a
<1>5. Len(b) \in Nat /\ Len(b) \in 1..Len(b) /\ from + Len(b) - 1 = Len(a)
  <2>1. /\ Len(a) \in Nat /\ from \in 1..Len(a) /\ Len(b) = Len(a) - from + 1
    BY <1>1, <1>2, <1>4
  <2> DEFINE n == Len(b)
             l == Len(a)
  <2>2. l \in Nat /\ from \in 1..l /\ n = l - from + 1
    BY <2>1
  <2> HIDE DEF n, l
  <2>3. n \in Nat /\ n \in 1..n /\ from + n - 1 = l
    BY <2>2
  <2> QED
    BY <2>3 DEF n, l
<1> QED
  BY <1>1, <1>4, <1>5

\* The levels hold one that stands for p, unless they are full.
HasLevel(levels, p) ==
  (\E i \in DOMAIN levels : NearBy(levels[i].price, p)) \/ Len(levels) = MaxLevels

StructureInv ==
  /\ bars \in Seq(PriceBars)
  /\ resistance \in Seq(Levels) /\ support \in Seq(Levels)
  /\ Len(bars) >= 5 =>
       /\ IsSwingHigh(bars) => HasLevel(resistance, bars[Candidate(bars)].high)
       /\ IsSwingLow(bars) => HasLevel(support, bars[Candidate(bars)].low)

\* A bar: what it confirms is remembered.
LEMMA StructureStep ==
  ASSUME StructureInv, NEW x \in PriceBars, StructureBar(x)
  PROVE  StructureInv'
<1> DEFINE b == bars'
           c == Candidate(b)
<1>1. /\ b = SubSeq(Append(bars, x), Max({1, Len(bars) + 2 - HistorySize}), Len(bars) + 1)
      /\ Len(b) < 5 => UNCHANGED <<resistance, support>>
      /\ ~(Len(b) < 5) =>
           /\ resistance' = Side(resistance, IsSwingHigh(b), b[c].high, b, x.close, TRUE)
           /\ support' = Side(support, IsSwingLow(b), b[c].low, b, x.close, FALSE)
  BY Zenon DEF StructureBar
<1>2. bars \in Seq(PriceBars) /\ resistance \in Seq(Levels) /\ support \in Seq(Levels)
  BY DEF StructureInv
<1>3. b \in Seq(PriceBars) /\ Len(b) \in Nat /\ b[Len(b)] = x
  BY <1>1, <1>2, WindowAfter, Zenon
<1> HIDE DEF b
<1>4. CASE Len(b) < 5
  <2>1. ~(Len(b) >= 5) /\ resistance' = resistance /\ support' = support
    BY <1>1, <1>3, <1>4
  <2> QED
    BY <1>2, <1>3, <2>1, Zenon DEF StructureInv, b
<1>5. CASE ~(Len(b) < 5)
  <2>1. c \in 1..Len(b) /\ c + 2 = Len(b)
    BY <1>3, <1>5 DEF Candidate
  <2> HIDE DEF c
  <2>2. /\ b[c] \in PriceBars /\ b[c].high \in Int /\ b[c].low \in Int
        /\ x.close \in Int /\ x.high \in Int /\ x.low \in Int
        /\ x.low < x.close /\ x.close < x.high
    BY <1>3, <2>1 DEF PriceBars, FeatureBars
  <2>3. IsSwingHigh(b) => x.close < b[c].high
    <3>1. IsSwingHigh(b) => b[c].high > b[Len(b)].high
      BY <2>1 DEF IsSwingHigh, Neighbours, c
    <3> QED
      BY <1>3, <2>2, <3>1
  <2>4. IsSwingLow(b) => b[c].low < x.close
    <3>1. IsSwingLow(b) => b[c].low < b[Len(b)].low
      BY <2>1 DEF IsSwingLow, Neighbours, c
    <3> QED
      BY <1>3, <2>2, <3>1
  <2>5. IsSwingHigh(b) \in BOOLEAN /\ IsSwingLow(b) \in BOOLEAN
    BY DEF IsSwingHigh, IsSwingLow
  <2>6. resistance' \in Seq(Levels) /\ (IsSwingHigh(b) => HasLevel(resistance', b[c].high))
    <3> DEFINE swing == IsSwingHigh(b)
               p == b[c].high
    <3>1. /\ swing \in BOOLEAN /\ p \in Int /\ x.close \in Int
          /\ resistance' = Side(resistance, swing, p, b, x.close, TRUE)
          /\ swing => x.close < p
      BY <1>1, <1>5, <2>2, <2>3, <2>5
    <3> HIDE DEF swing, p
    <3>2. LET s == Side(resistance, swing, p, b, x.close, TRUE) IN
            /\ s \in Seq(Levels)
            /\ swing /\ (IF TRUE THEN x.close < p ELSE p < x.close) =>
                 \/ \E i \in DOMAIN s : NearBy(s[i].price, p)
                 \/ Len(s) = MaxLevels
      BY <1>2, <1>3, <3>1, SideKeeps
    <3>3. resistance' \in Seq(Levels) /\ (swing => HasLevel(resistance', p))
      BY <3>1, <3>2 DEF HasLevel
    <3> QED
      BY <3>3 DEF swing, p
  <2>7. support' \in Seq(Levels) /\ (IsSwingLow(b) => HasLevel(support', b[c].low))
    <3> DEFINE swing == IsSwingLow(b)
               p == b[c].low
    <3>1. /\ swing \in BOOLEAN /\ p \in Int /\ x.close \in Int
          /\ support' = Side(support, swing, p, b, x.close, FALSE)
          /\ swing => p < x.close
      BY <1>1, <1>5, <2>2, <2>4, <2>5
    <3> HIDE DEF swing, p
    <3>2. LET s == Side(support, swing, p, b, x.close, FALSE) IN
            /\ s \in Seq(Levels)
            /\ swing /\ (IF FALSE THEN x.close < p ELSE p < x.close) =>
                 \/ \E i \in DOMAIN s : NearBy(s[i].price, p)
                 \/ Len(s) = MaxLevels
      BY <1>2, <1>3, <3>1, SideKeeps
    <3>3. support' \in Seq(Levels) /\ (swing => HasLevel(support', p))
      BY <3>1, <3>2 DEF HasLevel
    <3> QED
      BY <3>3 DEF swing, p
  <2> QED
    BY <1>3, <2>6, <2>7, Zenon DEF StructureInv, b, c, HasLevel, IsSwingHigh, IsSwingLow,
       Neighbours, Candidate, NearBy, Distance, Tolerance
<1> QED
  BY <1>4, <1>5

\* The bars of the market close inside their range.
LEMMA MarketCloses ==
  ASSUME MarketInv
  PROVE  Bar(NextPrice) \in PriceBars
<1>1. NextPrice \in [mid : Int, half : Nat \ {0}] /\ Bar(NextPrice) \in FeatureBars
  BY MarketBar
<1> QED
  BY <1>1 DEF Bar, PriceBars

-----------------------------------------------------------------------------
(* The theorems.                                                           *)

\* The invariant that the others rest on: formations lie within the history,
\* stubs stay idle, and a cooldown ends before its machine can start.
THEOREM PatternInvariant == Spec => []IInv
<1> QED
  BY PatternsInit, PatternsStep, PTL DEF Spec

\* RJ-007 holds on every market although nothing asks the cooldown: a machine
\* that failed is out of formation for the five bars of its cooldown.
THEOREM FailuresRest == Spec => []FailedPatternRests
<1>1. IInv => FailedPatternRests
  BY DEF IInv, Rests, FailedPatternRests, InFormation
<1> QED
  BY <1>1, PatternInvariant, PTL

\* A machine that waits for its breakout has not passed one over, on any market
\* and for any length of the formation.
THEOREM NoBreakoutMissed == Spec => []PendingIsUnbroken
<1>1. IInv => PendingIsUnbroken
  <2> SUFFICES ASSUME IInv, NEW h \in Detectors, h \notin Diamonds,
                      machine[h].state = "BREAKOUT_PENDING",
                      NEW i \in (Len(history) - machine[h].age + 1)..Len(history)
               PROVE  ~Beyond(h, machine[h].level, history[i].close)
    BY DEF PendingIsUnbroken, Diamonds
  <2>1. Remembered(h, machine[h], history) /\ history \in Seq(FeatureBars)
    BY DEF IInv, Hypotheses
  <2>2. machine[h].age \in Nat
    BY <2>1, CounterShape, 0 \in Nat DEF Remembered
  <2> DEFINE d == Len(history) - i
  <2>3. d \in 0..(machine[h].age - 1) /\ Len(history) - d = i
    BY <2>1, <2>2
  <2>4. Ago(history, d) = history[i].close
    BY <2>3 DEF Ago
  <2> HIDE DEF d
  <2> QED
    BY <2>1, <2>3, <2>4 DEF Remembered
<1> QED
  BY <1>1, PatternInvariant, PTL

\* Every signal, on any market, is the breakout of a machine that was waiting.
THEOREM SignalsBreakOut == Spec => SignalsAreBreakouts
<1> DEFINE Act(s) == /\ machine[s.hypothesis].state = "BREAKOUT_PENDING"
                     /\ machine[s.hypothesis].level = s.level
                     /\ Beyond(s.hypothesis, s.level, history'[Len(history')].close)
                     /\ history'[Len(history')].adx >= 20 \/ s.hypothesis \in Exempt
<1>1. ASSUME IInv, Next, NEW s \in signals' PROVE Act(s)
  <2> DEFINE b == Bar(NextPrice)
             k == Keep(Append(history, b))
  <2>1. PatternBar(b) /\ b \in FeatureBars
    BY <1>1, MarketBar DEF IInv, Next, FeatureReady
  <2> HIDE DEF b
  <2>2. PICK h \in Hypotheses : /\ s.hypothesis = h /\ s.level = Advanced(h, k).level
                                /\ Advanced(h, k).state = "CONFIRMED"
                                /\ ~Blocked(h, b)
    BY <2>1, GroupSignals
  <2>3. history' = k
    BY <2>1, Zenon DEF PatternBar
  <2>4. /\ history \in Seq(FeatureBars) /\ Len(history) <= 80
        /\ Remembered(h, machine[h], history)
    BY <1>1 DEF IInv
  <2>5. k[Len(k)] = b
    BY <2>1, <2>4, Kept
  <2>6. h \in Detectors
    <3>1. h \notin Stubs
      BY <2>2, <2>4 DEF Advanced, Remembered
    <3> QED
      BY <3>1 DEF Hypotheses
  <2>7. Advanced(h, k) = Advance(h, machine[h], k)
    BY <2>6 DEF Advanced, Detectors, Stubs
  <2>8. Moves(h, machine[h], Advanced(h, k), b, Len(k))
    BY <2>1, <2>4, <2>6, <2>7, RememberedAfter
  <2> HIDE DEF k
  <2>9. BreaksOut(h, machine[h], Advanced(h, k), b)
    BY <2>2, <2>8 DEF Moves, Expires, Waits, BeginsNow, GoesOn, Completes, Holds
  <2>10. b.adx >= 20 \/ h \in Exempt
    BY <2>1, <2>2 DEF Blocked, FeatureBars
  <2> QED
    BY <2>2, <2>3, <2>5, <2>9, <2>10 DEF BreaksOut
<1>2. IInv /\ [Next]_vars => [\A s \in signals' : Act(s)]_vars
  BY <1>1
<1> QED
  BY <1>2, PatternInvariant, PTL DEF Spec, SignalsAreBreakouts

\* A pivot is not lost on any market, for any ATR and any number of levels: the
\* bar that confirms it leaves a level within half the tolerance of it, or the
\* side is full.
THEOREM PivotsRemembered == Spec => []PivotRemembered
<1>1. Init => StructureInv
  BY DEF Init, InitStructure, StructureInv
<1>2. IInv /\ StructureInv /\ [Next]_vars => StructureInv'
  <2> SUFFICES ASSUME IInv, StructureInv, [Next]_vars PROVE StructureInv'
    OBVIOUS
  <2>1. CASE Next
    BY <2>1, MarketCloses, StructureStep DEF IInv, Next, FeatureReady
  <2>2. CASE UNCHANGED vars
    BY <2>2 DEF vars, structureVars, StructureInv, HasLevel, IsSwingHigh, IsSwingLow,
       Neighbours, Candidate, NearBy, Distance, Tolerance
  <2> QED
    BY <2>1, <2>2
<1>3. StructureInv => PivotRemembered
  BY Zenon DEF StructureInv, HasLevel, NearBy, PivotRemembered
<1> QED
  BY <1>1, <1>2, <1>3, PatternInvariant, PTL DEF Spec
=============================================================================
