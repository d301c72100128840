--------------------------- MODULE MarketFeedProofs ---------------------------
(***************************************************************************)
(* Proofs about MarketFeed for any symbols, any sizes of answer, window    *)
(* and warm-up, and any number of hours, failed requests and lost rows.    *)
(***************************************************************************)
EXTENDS MarketFeed, FiniteSetTheorems, SequenceTheorems, TLAPS

(***************************************************************************)
(* The invariant, for one symbol: h its 1h window, n the mark of its        *)
(* newest bar, f its cached features, a and p the bars announced and        *)
(* processed, x the hours it has lost.                                     *)
(***************************************************************************)
\* Every element is below every later one.
Rising(seq) == \A i, j \in 1 .. Len(seq) : i < j => seq[i] < seq[j]
Upto(seq, n) == \A i \in 1 .. Len(seq) : seq[i] <= n

SoundWindow(h, n) ==
    /\ h \in Seq(Nat) /\ n \in Nat /\ n <= hour
    /\ Rising(h)
    /\ h = <<>> <=> n = 0
    /\ h # <<>> => Last(h) = n

\* Features are published only over a full window, and a window once full
\* stays so: the cached features never fall back to none.
SoundOutput(h, n, f, a, p) ==
    /\ a \in Seq(Nat) /\ Rising(a) /\ Upto(a, n)
    /\ p \in Seq(Nat) /\ Rising(p) /\ Upto(p, n)
    /\ f = IF p = <<>> THEN 0 ELSE Last(p)
    /\ p # <<>> => Len(h) >= WarmUp

\* The holes of a window, and the hours that no answer holds any more and
\* that the next bar taken will leave behind as holes.
HolesIn(h, n) == {k \in 1 .. n : k \notin ToSet(h) /\ k > Head(h)}
OutOfReach(n) == n + 1 .. hour - FetchLimit

HolesPaid(h, n, x) ==
    h # <<>> => Cardinality(HolesIn(h, n)) + Cardinality(OutOfReach(n)) <= x + mishaps

SoundFeed(s) ==
    /\ SoundWindow(history[s]["1h"], newest[s]["1h"])
    /\ SoundOutput(history[s]["1h"], newest[s]["1h"], features[s], announced[s], processed[s])
    /\ HolesPaid(history[s]["1h"], newest[s]["1h"], lost[s])

FeedType ==
    /\ hour \in Nat \ {0} /\ mishaps \in Nat
    /\ history \in [Symbols -> [Timeframes -> Seq(Nat)]]
    /\ newest \in [Symbols -> [Timeframes -> Nat]]
    /\ features \in [Symbols -> Nat] /\ lost \in [Symbols -> Nat]
    /\ announced \in [Symbols -> Seq(Nat)] /\ processed \in [Symbols -> Seq(Nat)]

IInv == FeedType /\ \A s \in Symbols : SoundFeed(s)

-----------------------------------------------------------------------------
(* Rows in order.                                                          *)

\* How many elements of S there are up to k.
Rank(S, k) == Cardinality({j \in S : j <= k})

LEMMA RankIsOrder ==
    ASSUME NEW S \in SUBSET Nat, IsFiniteSet(S)
    PROVE  /\ Cardinality(S) \in Nat
           /\ \A k \in S : Rank(S, k) \in 1 .. Cardinality(S)
           /\ \A j, k \in S : j < k => Rank(S, j) < Rank(S, k)
<1> DEFINE N == Cardinality(S)
           Below(k) == {j \in S : j <= k}
<1>1. N \in Nat
    BY FS_CardinalityType
<1>2. ASSUME NEW k \in S PROVE IsFiniteSet(Below(k)) /\ Rank(S, k) \in 1 .. N
    <2>1. /\ IsFiniteSet(Below(k)) /\ Cardinality(Below(k)) <= N
        BY FS_Subset
    <2>2. Cardinality(Below(k)) \in Nat
        BY <2>1, FS_CardinalityType
    <2>3. k \in Below(k)
        OBVIOUS
    <2>4. Cardinality(Below(k)) # 0
        BY <2>1, <2>3, FS_EmptySet
    <2> QED
        BY <1>1, <2>1, <2>2, <2>4 DEF Rank
<1>3. ASSUME NEW j \in S, NEW k \in S, j < k PROVE Rank(S, j) < Rank(S, k)
    <2>1. Below(j) \in SUBSET Below(k)
        <3> SUFFICES ASSUME NEW x \in S, x <= j PROVE x <= k
            OBVIOUS
        <3>1. x \in Nat /\ j \in Nat /\ k \in Nat
            OBVIOUS
        <3> QED
            BY <1>3, <3>1
    <2>2. Below(j) # Below(k)
        <3>1. k \in Below(k) /\ k \notin Below(j)
            BY <1>3
        <3> QED
            BY <3>1
    <2>3. Cardinality(Below(j)) <= Cardinality(Below(k)) /\ Cardinality(Below(j)) # Cardinality(Below(k))
        BY <1>2, <2>1, <2>2, FS_Subset
    <2>4. Rank(S, j) \in Nat /\ Rank(S, k) \in Nat
        <3> HIDE DEF Below
        <3>1. Rank(S, j) \in 1 .. N /\ Rank(S, k) \in 1 .. N
            BY <1>2
        <3> QED
            BY <1>1, <3>1
    <2> QED
        BY <2>3, <2>4 DEF Rank
<1> QED
    BY <1>1, <1>2, <1>3

\* InOrder lists a finite set of numbers from the lowest to the highest.
LEMMA InOrderSorts ==
    ASSUME NEW S \in SUBSET Nat, IsFiniteSet(S)
    PROVE  /\ InOrder(S) \in Seq(Nat) /\ Len(InOrder(S)) = Cardinality(S)
           /\ Rising(InOrder(S))
           /\ \A i \in 1 .. Len(InOrder(S)) : InOrder(S)[i] \in S
           /\ \A k \in S : \E i \in 1 .. Len(InOrder(S)) : InOrder(S)[i] = k
<1> DEFINE N == Cardinality(S)
           t == [i \in 1 .. N |-> CHOOSE k \in S : Rank(S, k) = i]
           f == [k \in S |-> Rank(S, k)]
<1>1. N \in Nat /\ \A k \in S : Rank(S, k) \in 1 .. N
    BY RankIsOrder
<1>2. \A j, k \in S : j < k => Rank(S, j) < Rank(S, k)
    BY RankIsOrder
<1>3. \A k \in S : k \in Nat /\ Rank(S, k) \in Nat
    BY <1>1
<1>4. \A j, k \in S : Rank(S, j) = Rank(S, k) => j = k
    BY <1>2, <1>3
<1>5. f \in Injection(S, 1 .. N)
    <2>1. f \in [S -> 1 .. N]
        BY <1>1
    <2>2. IsInjective(f)
        BY <1>4 DEF IsInjective
    <2> QED
        BY <2>1, <2>2 DEF Injection
<1>6. f \in Surjection(S, 1 .. N)
    <2>1. IsFiniteSet(1 .. N) /\ Cardinality(1 .. N) = N
        BY <1>1, FS_Interval
    <2> QED
        BY <1>5, <2>1, FS_Injection
<1>7. \A i \in 1 .. N : \E k \in S : Rank(S, k) = i
    BY <1>6 DEF Surjection
<1>8. \A i \in 1 .. N : t[i] \in S /\ Rank(S, t[i]) = i
    BY <1>7
<1>9. InOrder(S) = t
    BY DEF InOrder, Rank
<1>10. t \in Seq(Nat) /\ Len(t) = N
    <2>1. \A i \in 1 .. N : t[i] \in Nat
        BY <1>3, <1>8
    <2>2. t \in [1 .. N -> Nat]
        BY <2>1
    <2> HIDE DEF t
    <2>3. DOMAIN t = 1 .. N /\ t \in Seq(Nat)
        BY <1>1, <2>2
    <2> QED
        BY <1>1, <2>3
<1> HIDE DEF t
<1>11. Rising(t)
    <2> SUFFICES ASSUME NEW i \in 1 .. N, NEW j \in 1 .. N, i < j PROVE t[i] < t[j]
        BY <1>10 DEF Rising
    <2> DEFINE y == t[i]
               z == t[j]
    <2>1. y \in S /\ z \in S /\ Rank(S, y) = i /\ Rank(S, z) = j
        BY <1>8
    <2> HIDE DEF y, z
    <2>2. y \in Nat /\ z \in Nat /\ y # z /\ ~(z < y)
        BY <1>2, <1>3, <2>1
    <2>3. y < z
        BY <2>2
    <2> QED
        BY <2>3 DEF y, z
<1>12. \A k \in S : \E i \in 1 .. N : t[i] = k
    BY <1>1, <1>4, <1>8
<1> QED
    BY <1>8, <1>9, <1>10, <1>11, <1>12

\* The rows that are new are finitely many numbers.
LEMMA RowsAreFinite ==
    ASSUME NEW n \in Nat, NEW R \in SUBSET (1 .. n)
    PROVE  R \in SUBSET Nat /\ IsFiniteSet(R) /\ Cardinality(R) \in Nat
<1>1. IsFiniteSet(1 .. n)
    BY FS_Interval
<1>2. IsFiniteSet(R)
    BY <1>1, FS_Subset
<1> QED
    BY <1>2, FS_CardinalityType

-----------------------------------------------------------------------------
(* The window.                                                             *)

\* MarketDataGroup's deque after the rows w have been appended to h.
Window(all) ==
    IF Len(all) <= WindowSize THEN all
    ELSE SubSeq(all, Len(all) + 1 - WindowSize, Len(all))

\* t is u without its first o elements.
TailFrom(t, u, o) ==
    /\ t \in Seq(Nat) /\ Len(t) = Len(u) - o
    /\ \A i \in 1 .. Len(t) : t[i] = u[o + i]

LEMMA WindowIsTail ==
    ASSUME NEW all \in Seq(Nat), all # <<>>
    PROVE  \E o \in 0 .. Len(all) - 1 :
             /\ TailFrom(Window(all), all, o)
             /\ o = 0 \/ Len(all) - o >= WarmUp
<1>1. Len(all) \in Nat /\ Len(all) >= 1
    OBVIOUS
<1>2. CASE Len(all) <= WindowSize
    <2>1. TailFrom(all, all, 0)
        BY <1>1 DEF TailFrom
    <2> QED
        BY <1>1, <1>2, <2>1 DEF Window
<1>3. CASE ~(Len(all) <= WindowSize)
    <2> DEFINE o == Len(all) - WindowSize
               t == SubSeq(all, o + 1, Len(all))
    <2>1. o \in 0 .. Len(all) - 1 /\ WarmUp <= Len(all) - o /\ WindowSize = Len(all) - o
        BY <1>1, <1>3, FeedAssumption
    <2>2. /\ t \in Seq(Nat) /\ Len(t) = Len(all) - o
          /\ \A i \in 1 .. Len(all) - o : t[i] = all[o + i]
        <3>1. o + 1 \in Int /\ o + 1 >= 1 /\ o + 1 <= Len(all) /\ Len(all) \in Nat /\ o \in Nat
            BY <1>1, <2>1
        <3> HIDE DEF o
        <3>2. t \in Seq(Nat) /\ Len(t) = Len(all) - o
            BY <3>1
        <3>3. \A i \in 1 .. Len(all) - o : t[i] = all[o + i]
            BY <3>1
        <3> QED
            BY <3>2, <3>3
    <2>3. \A i \in 1 .. Len(t) : t[i] = all[o + i]
        BY <2>2
    <2>4. Window(all) = t
        <3>1. Len(all) + 1 - WindowSize = o + 1
            BY <1>1, FeedAssumption
        <3> QED
            BY <1>3, <3>1 DEF Window
    <2> HIDE DEF o, t
    <2>5. TailFrom(Window(all), all, o)
        BY <2>2, <2>3, <2>4 DEF TailFrom
    <2> QED
        BY <2>1, <2>5
<1> QED
    BY <1>2, <1>3

\* Rising sequences of which the second starts above the end of the first.
LEMMA RisingJoin ==
    ASSUME NEW h \in Seq(Nat), NEW w \in Seq(Nat), Rising(h), Rising(w),
           \A i \in 1 .. Len(h), j \in 1 .. Len(w) : h[i] < w[j]
    PROVE  /\ h \o w \in Seq(Nat) /\ Len(h \o w) = Len(h) + Len(w) /\ Rising(h \o w)
           /\ \A i \in 1 .. Len(h) : (h \o w)[i] = h[i]
           /\ \A j \in 1 .. Len(w) : (h \o w)[Len(h) + j] = w[j]
<1> DEFINE u == h \o w
<1>1. Len(h) \in Nat /\ Len(w) \in Nat /\ u \in Seq(Nat) /\ Len(u) = Len(h) + Len(w)
    OBVIOUS
<1>2. \A i \in 1 .. Len(h) : u[i] = h[i]
    BY <1>1
<1>3. \A j \in 1 .. Len(w) : u[Len(h) + j] = w[j]
    <2> TAKE j \in 1 .. Len(w)
    <2>1. Len(h) + j \in 1 .. Len(u) /\ ~(Len(h) + j <= Len(h)) /\ (Len(h) + j) - Len(h) = j
        BY <1>1
    <2> QED
        BY <1>1, <2>1
<1>4. \A i \in 1 .. Len(u) : i \in 1 .. Len(h) \/ \E j \in 1 .. Len(w) : i = Len(h) + j
    <2> SUFFICES ASSUME NEW i \in 1 .. Len(u), i \notin 1 .. Len(h)
                 PROVE  \E j \in 1 .. Len(w) : i = Len(h) + j
        OBVIOUS
    <2>1. i - Len(h) \in 1 .. Len(w) /\ i = Len(h) + (i - Len(h))
        BY <1>1
    <2> QED
        BY <2>1
<1> HIDE DEF u
<1>5. Rising(u)
    <2> SUFFICES ASSUME NEW i \in 1 .. Len(u), NEW j \in 1 .. Len(u), i < j
                 PROVE  u[i] < u[j]
        BY DEF Rising
    <2>1. CASE i \in 1 .. Len(h) /\ j \in 1 .. Len(h)
        BY <1>2, <2>1 DEF Rising
    <2>2. CASE i \in 1 .. Len(h) /\ j \notin 1 .. Len(h)
        BY <1>2, <1>3, <1>4, <2>2
    <2>3. CASE i \notin 1 .. Len(h)
        <3>1. PICK k \in 1 .. Len(w) : i = Len(h) + k
            BY <1>4, <2>3
        <3>2. j \notin 1 .. Len(h)
            BY <1>1, <3>1
        <3>3. PICK l \in 1 .. Len(w) : j = Len(h) + l
            BY <1>4, <3>2
        <3>4. k < l
            BY <1>1, <3>1, <3>3
        <3>5. w[k] < w[l]
            BY <3>4 DEF Rising
        <3> QED
            BY <1>3, <3>1, <3>3, <3>5
    <2> QED
        BY <2>1, <2>2, <2>3
<1> QED
    BY <1>1, <1>2, <1>3, <1>5 DEF u

LEMMA Storing ==
    ASSUME NEW h \in Seq(Nat), NEW w \in Seq(Nat), Rising(h), Rising(w), w # <<>>,
           \A i \in 1 .. Len(h), j \in 1 .. Len(w) : h[i] < w[j],
           NEW t, t = Window(h \o w)
    PROVE  /\ t \in Seq(Nat) /\ t # <<>> /\ Rising(t) /\ Last(t) = Last(w)
           /\ Len(h) >= WarmUp => Len(t) >= WarmUp
           /\ \A x \in ToSet(h) \cup ToSet(w) : x \in ToSet(t) \/ x < Head(t)
           /\ h # <<>> => Head(h) <= Head(t)
           /\ h = <<>> => Head(t) \in ToSet(w)
           /\ Head(t) \in Nat
<1> DEFINE u == h \o w
<1>1. /\ u \in Seq(Nat) /\ Len(u) = Len(h) + Len(w) /\ Rising(u)
      /\ \A i \in 1 .. Len(h) : u[i] = h[i]
      /\ \A j \in 1 .. Len(w) : u[Len(h) + j] = w[j]
      /\ Len(h) \in Nat /\ Len(w) \in Nat /\ Len(u) \in Nat /\ Len(w) >= 1
    BY RisingJoin
<1> HIDE DEF u
<1>2. u # <<>>
    BY <1>1
<1>3. PICK o \in 0 .. Len(u) - 1 : TailFrom(t, u, o) /\ (o = 0 \/ Len(u) - o >= WarmUp)
    BY <1>1, <1>2, WindowIsTail DEF u
<1>4. /\ t \in Seq(Nat) /\ Len(t) = Len(u) - o /\ Len(t) \in Nat /\ Len(t) >= 1 /\ o \in Nat
      /\ \A i \in 1 .. Len(t) : t[i] = u[o + i] /\ o + i \in 1 .. Len(u)
    BY <1>1, <1>3 DEF TailFrom
<1>5. t # <<>> /\ Head(t) = t[1] /\ t[1] \in Nat /\ Head(t) = u[o + 1] /\ o + 1 \in 1 .. Len(u)
    <2>1. 1 \in 1 .. Len(t) /\ t # <<>>
        BY <1>4
    <2>2. t[1] \in Nat
        BY <1>4, <2>1, ElementOfSeq
    <2> QED
        BY <1>4, <2>1, <2>2
<1>6. Rising(t)
    <2> SUFFICES ASSUME NEW i \in 1 .. Len(t), NEW j \in 1 .. Len(t), i < j
                 PROVE  t[i] < t[j]
        BY DEF Rising
    <2>1. o + i < o + j
        BY <1>4
    <2> QED
        BY <1>1, <1>4, <2>1 DEF Rising
<1>7. Last(t) = Last(w)
    <2>1. Len(t) \in 1 .. Len(t) /\ o + Len(t) = Len(h) + Len(w)
        BY <1>1, <1>4
    <2>2. Len(w) \in 1 .. Len(w)
        BY <1>1
    <2> QED
        BY <1>1, <1>4, <2>1, <2>2 DEF Last
<1>8. Len(h) >= WarmUp => Len(t) >= WarmUp
    <2>1. WarmUp \in Nat
        BY FeedAssumption
    <2> QED
        BY <1>1, <1>3, <1>4, <2>1
<1>9. \A i \in 1 .. Len(u) : u[i] \in ToSet(t) \/ u[i] < Head(t)
    <2> TAKE i \in 1 .. Len(u)
    <2>1. CASE i <= o
        <3>1. i < o + 1
            BY <1>4, <2>1
        <3> QED
            BY <1>1, <1>5, <3>1 DEF Rising
    <2>2. CASE i > o
        <3>1. i - o \in 1 .. Len(t) /\ o + (i - o) = i
            BY <1>1, <1>4, <2>2
        <3>2. t[i - o] = u[i] /\ DOMAIN t = 1 .. Len(t)
            BY <1>4, <3>1
        <3> QED
            BY <3>1, <3>2 DEF ToSet
    <2> QED
        BY <1>4, <2>1, <2>2
<1>10. \A x \in ToSet(h) \cup ToSet(w) : \E i \in 1 .. Len(u) : u[i] = x
    <2>1. DOMAIN h = 1 .. Len(h) /\ DOMAIN w = 1 .. Len(w)
        OBVIOUS
    <2>2. ASSUME NEW x \in ToSet(h) PROVE \E i \in 1 .. Len(u) : u[i] = x
        <3>1. PICK i \in 1 .. Len(h) : h[i] = x
            BY <2>1 DEF ToSet
        <3>2. i \in 1 .. Len(u)
            BY <1>1
        <3> QED
            BY <1>1, <3>1, <3>2
    <2>3. ASSUME NEW x \in ToSet(w) PROVE \E i \in 1 .. Len(u) : u[i] = x
        <3>1. PICK j \in 1 .. Len(w) : w[j] = x
            BY <2>1 DEF ToSet
        <3>2. Len(h) + j \in 1 .. Len(u)
            BY <1>1
        <3> QED
            BY <1>1, <3>1, <3>2
    <2> QED
        BY <2>2, <2>3
<1>11. ASSUME h # <<>> PROVE Head(h) <= Head(t)
    <2>1. Len(h) >= 1 /\ Head(h) = h[1] /\ 1 \in 1 .. Len(h) /\ 1 \in 1 .. Len(u)
        BY <1>1, <1>11
    <2>2. u[1] = Head(h) /\ u[1] \in Nat
        BY <1>1, <2>1, ElementOfSeq
    <2>3. u[1] < u[o + 1] \/ o = 0
        BY <1>1, <1>4, <1>5, <2>1 DEF Rising
    <2> QED
        BY <1>5, <2>2, <2>3
<1>12. ASSUME h = <<>> PROVE Head(t) \in ToSet(w)
    <2>1. Len(h) = 0 /\ o + 1 \in 1 .. Len(w) /\ DOMAIN w = 1 .. Len(w)
        BY <1>1, <1>5, <1>12
    <2>2. Head(t) = w[o + 1]
        <3>1. Len(h) + (o + 1) = o + 1
            BY <1>4, <2>1
        <3> QED
            BY <1>1, <1>5, <2>1, <3>1
    <2> QED
        BY <2>1, <2>2 DEF ToSet
<1> QED
    BY <1>4, <1>5, <1>6, <1>7, <1>8, <1>9, <1>10, <1>11, <1>12

-----------------------------------------------------------------------------
(* An answer is taken.                                                     *)

LEMMA NoMoreThan ==
    ASSUME NEW n \in Nat, NEW S \in SUBSET (1 .. n), NEW T \in SUBSET (1 .. n),
           NEW R \in SUBSET (S \cup T)
    PROVE  /\ Cardinality(R) \in Nat /\ Cardinality(S) \in Nat /\ Cardinality(T) \in Nat
           /\ Cardinality(R) <= Cardinality(S) + Cardinality(T)
<1>1. /\ IsFiniteSet(S) /\ Cardinality(S) \in Nat /\ IsFiniteSet(T) /\ Cardinality(T) \in Nat
      /\ Cardinality(R) \in Nat
    BY RowsAreFinite
<1>2. /\ IsFiniteSet(S \cup T)
      /\ Cardinality(S \cup T) = Cardinality(S) + Cardinality(T) - Cardinality(S \cap T)
    BY <1>1, FS_Union
<1>3. Cardinality(S \cap T) \in Nat
    BY RowsAreFinite
<1>4. Cardinality(R) <= Cardinality(S \cup T)
    BY <1>2, FS_Subset
<1> QED
    BY <1>1, <1>2, <1>3, <1>4

LEMMA AnswerIs ==
    ASSUME hour \in Nat \ {0}
    PROVE  Answer("1h") = {k \in 1 .. hour : k + FetchLimit > hour}
    BY DEF Answer, Kline

\* The new rows of an answer, in order.
LEMMA NewRows ==
    ASSUME hour \in Nat \ {0}, NEW n \in Nat, NEW rows \in SUBSET Answer("1h"),
           NEW w, w = InOrder({k \in rows : k > n}), w # <<>>
    PROVE  /\ w \in Seq(Nat) /\ Rising(w) /\ ToSet(w) = {k \in rows : k > n}
           /\ \A i \in 1 .. Len(w) : n < w[i] /\ w[i] <= Last(w)
           /\ Last(w) \in rows /\ n < Last(w)
           /\ Last(w) \in 1 .. hour /\ Last(w) + FetchLimit > hour
<1> DEFINE S == {k \in rows : k > n}
<1>1. rows \in SUBSET (1 .. hour) /\ \A k \in rows : k + FetchLimit > hour
    BY AnswerIs
<1>2. S \in SUBSET (1 .. hour)
    BY <1>1
<1>3. S \in SUBSET Nat /\ IsFiniteSet(S)
    BY <1>2, RowsAreFinite
<1>4. /\ w \in Seq(Nat) /\ Rising(w) /\ \A i \in 1 .. Len(w) : w[i] \in S
      /\ \A k \in S : \E i \in 1 .. Len(w) : w[i] = k
    BY <1>3, InOrderSorts
<1>5. Len(w) \in Nat /\ Len(w) \in 1 .. Len(w)
    BY <1>4
<1>6. ToSet(w) = S
    <2>1. DOMAIN w = 1 .. Len(w)
        BY <1>4
    <2> QED
        BY <1>4, <2>1 DEF ToSet
<1>7. \A i \in 1 .. Len(w) : i < Len(w) => w[i] < w[Len(w)]
    BY <1>4, <1>5 DEF Rising
<1>8. \A i \in 1 .. Len(w) : w[i] \in Nat
    BY <1>3, <1>4
<1>9. \A i \in 1 .. Len(w) : w[i] <= w[Len(w)]
    <2> SUFFICES ASSUME NEW i \in 1 .. Len(w) PROVE w[i] <= w[Len(w)]
        OBVIOUS
    <2>1. i < Len(w) \/ i = Len(w)
        BY <1>5
    <2> QED
        BY <1>5, <1>7, <1>8, <2>1
<1>10. w[Len(w)] \in S
    BY <1>4, <1>5
<1> QED
    BY <1>1, <1>4, <1>6, <1>9, <1>10 DEF Last

LEMMA WindowTakes ==
    ASSUME hour \in Nat \ {0}, NEW h, NEW n, SoundWindow(h, n),
           NEW rows \in SUBSET Answer("1h"),
           NEW w, w = InOrder({k \in rows : k > n}), w # <<>>,
           NEW t, t = Window(h \o w)
    PROVE  /\ SoundWindow(t, Last(w)) /\ t # <<>>
           /\ Len(h) >= WarmUp => Len(t) >= WarmUp
           /\ \A x \in ToSet(h) \cup ToSet(w) : x \in ToSet(t) \/ x < Head(t)
           /\ h # <<>> => Head(h) <= Head(t)
           /\ h = <<>> => Head(t) \in ToSet(w)
           /\ Head(t) \in Nat
<1>1. h \in Seq(Nat) /\ n \in Nat /\ Rising(h) /\ (h # <<>> => Last(h) = n)
    BY DEF SoundWindow
<1>2. /\ w \in Seq(Nat) /\ Rising(w) /\ \A i \in 1 .. Len(w) : n < w[i]
      /\ Last(w) \in 1 .. hour
    BY <1>1, NewRows
<1>3. \A i \in 1 .. Len(h), j \in 1 .. Len(w) : h[i] < w[j]
    <2> SUFFICES ASSUME NEW i \in 1 .. Len(h), NEW j \in 1 .. Len(w) PROVE h[i] < w[j]
        OBVIOUS
    <2>1. Len(h) \in Nat /\ h # <<>> /\ h[i] \in Nat /\ w[j] \in Nat
        BY <1>1, <1>2
    <2>2. h[i] <= n
        <3>1. i = Len(h) \/ (i < Len(h) /\ Len(h) \in 1 .. Len(h))
            BY <2>1
        <3> QED
            BY <1>1, <2>1, <3>1 DEF Rising, Last
    <2>3. n < w[j]
        BY <1>2
    <2> QED
        BY <1>1, <2>1, <2>2, <2>3
<1>4. /\ t \in Seq(Nat) /\ t # <<>> /\ Rising(t) /\ Last(t) = Last(w)
      /\ Len(h) >= WarmUp => Len(t) >= WarmUp
      /\ \A x \in ToSet(h) \cup ToSet(w) : x \in ToSet(t) \/ x < Head(t)
      /\ h # <<>> => Head(h) <= Head(t)
      /\ h = <<>> => Head(t) \in ToSet(w)
      /\ Head(t) \in Nat
    <2>1. h \in Seq(Nat) /\ w \in Seq(Nat) /\ Rising(h) /\ Rising(w)
        BY <1>1, <1>2
    <2> QED
        BY <2>1, <1>3, Storing, Zenon
<1>5. SoundWindow(t, Last(w))
    BY <1>2, <1>4 DEF SoundWindow
<1> QED
    BY <1>4, <1>5

\* A new hole is an old one, a row that did not parse, or an hour that was
\* already out of reach.
LEMMA HolesArePaid ==
    ASSUME hour \in Nat \ {0}, mishaps \in Nat, NEW h, NEW n, SoundWindow(h, n),
           NEW x \in Nat, HolesPaid(h, n, x),
           NEW rows \in SUBSET Answer("1h"),
           NEW w, w = InOrder({k \in rows : k > n}), w # <<>>,
           NEW t, t = Window(h \o w)
    PROVE  Cardinality(HolesIn(t, Last(w))) + Cardinality(OutOfReach(Last(w)))
             <= x + mishaps + Cardinality(Answer("1h") \ rows)
<1> DEFINE N == Last(w)
           lostRows == Answer("1h") \ rows
           new == HolesIn(t, N)
<1>1. /\ h \in Seq(Nat) /\ n \in Nat /\ n <= hour /\ (h = <<>> <=> n = 0)
      /\ FetchLimit \in Nat /\ FetchLimit >= 1 /\ hour \in Nat
    BY FeedAssumption DEF SoundWindow
<1>2. /\ ToSet(w) = {k \in rows : k > n} /\ N \in 1 .. hour /\ N + FetchLimit > hour
    BY <1>1, NewRows
<1>3. /\ \A k \in ToSet(h) \cup ToSet(w) : k \in ToSet(t) \/ k < Head(t)
      /\ h # <<>> => Head(h) <= Head(t)
      /\ h = <<>> => Head(t) \in ToSet(w)
      /\ Head(t) \in Nat
    BY WindowTakes
<1>4. Answer("1h") = {k \in 1 .. hour : k + FetchLimit > hour}
    BY AnswerIs
<1>5. OutOfReach(N) = {} /\ Cardinality(OutOfReach(N)) = 0
    <2>1. N \in Nat /\ N + FetchLimit > hour
        BY <1>2
    <2>2. \A k \in OutOfReach(N) : FALSE
        BY <1>1, <2>1 DEF OutOfReach
    <2> QED
        BY <2>2, FS_EmptySet
<1>6. lostRows \in SUBSET (1 .. hour)
    BY <1>4
<1>7. \A k \in new :
         /\ k \in 1 .. hour /\ k \in Nat /\ k <= N /\ Head(t) < k /\ k \notin ToSet(h)
         /\ k > n => k \notin rows
    <2> SUFFICES ASSUME NEW k \in new
                 PROVE  /\ k \in 1 .. hour /\ k \in Nat /\ k <= N /\ Head(t) < k
                        /\ k \notin ToSet(h)
                        /\ k > n => k \notin rows
        OBVIOUS
    <2>1. k \in 1 .. N /\ k \notin ToSet(t) /\ k > Head(t)
        BY DEF HolesIn
    <2>2. k \notin ToSet(h) /\ k \notin ToSet(w)
        BY <1>3, <2>1
    <2>3. N \in Nat /\ N <= hour /\ Head(t) \in Nat
        BY <1>1, <1>2, <1>3
    <2>4. k \in 1 .. hour /\ k \in Nat /\ k <= N /\ Head(t) < k
        BY <1>1, <2>1, <2>3
    <2>5. k > n => k \notin rows
        BY <1>2, <2>2
    <2> QED
        BY <2>2, <2>4, <2>5
<1> HIDE DEF N, lostRows, new
<1>8. CASE h = <<>>
    <2>1. new \in SUBSET lostRows
        <3> SUFFICES ASSUME NEW k \in new PROVE k \in lostRows
            OBVIOUS
        <3>1. Head(t) \in rows /\ rows \in SUBSET Answer("1h")
            BY <1>2, <1>3, <1>8
        <3>2. Head(t) + FetchLimit > hour
            BY <1>4, <3>1
        <3>3. k + FetchLimit > hour
            <4>1. k \in Nat /\ Head(t) \in Nat /\ Head(t) < k
                BY <1>3, <1>7
            <4> QED
                BY <1>1, <3>2, <4>1
        <3>4. k > n
            <4>1. n = 0 /\ k \in 1 .. hour /\ hour \in Nat
                BY <1>1, <1>7, <1>8
            <4> QED
                BY <4>1
        <3> QED
            BY <1>4, <1>7, <3>3, <3>4 DEF lostRows
    <2>2. /\ Cardinality(new) \in Nat /\ Cardinality(lostRows) \in Nat
          /\ Cardinality(new) <= Cardinality({}) + Cardinality(lostRows)
        <3>1. {} \in SUBSET (1 .. hour) /\ new \in SUBSET ({} \cup lostRows)
            BY <2>1
        <3> QED
            BY <1>1, <1>6, <3>1, NoMoreThan
    <2>3. Cardinality(new) <= Cardinality(lostRows)
        BY <2>2, FS_EmptySet
    <2> QED
        BY <1>5, <2>2, <2>3 DEF N, lostRows, new
<1>9. CASE h # <<>>
    <2> DEFINE old == HolesIn(h, n)
               gone == OutOfReach(n)
    <2>1. old \in SUBSET (1 .. hour) /\ gone \in SUBSET (1 .. hour)
        BY <1>1 DEF HolesIn, OutOfReach
    <2>2. new \in SUBSET ((old \cup gone) \cup lostRows)
        <3> SUFFICES ASSUME NEW k \in new PROVE k \in old \/ k \in gone \/ k \in lostRows
            OBVIOUS
        <3>1. CASE k <= n
            <4>1. Head(h) \in Nat
                BY <1>1, <1>9
            <4>2. k > Head(h)
                <5>1. /\ k \in Nat /\ Head(t) \in Nat /\ Head(t) < k /\ Head(h) <= Head(t)
                    BY <1>3, <1>7, <1>9
                <5> QED
                    BY <4>1, <5>1
            <4>3. k \in 1 .. n /\ k \notin ToSet(h)
                <5>1. k \in 1 .. hour /\ n \in Nat /\ hour \in Nat /\ k \notin ToSet(h)
                    BY <1>1, <1>7
                <5> QED
                    BY <3>1, <5>1
            <4> QED
                BY <4>2, <4>3 DEF HolesIn
        <3>2. CASE k > n /\ k + FetchLimit > hour
            BY <1>4, <1>7, <3>2 DEF lostRows
        <3>3. CASE k > n /\ ~(k + FetchLimit > hour)
            <4>1. k \in Nat /\ n \in Nat /\ hour \in Nat /\ FetchLimit \in Nat
                BY <1>1, <1>7
            <4> QED
                BY <3>3, <4>1 DEF OutOfReach
        <3>4. k \in Nat /\ n \in Nat
            BY <1>1, <1>7
        <3> QED
            BY <3>1, <3>2, <3>3, <3>4
    <2> HIDE DEF old, gone
    <2>3. /\ Cardinality(old) \in Nat /\ Cardinality(gone) \in Nat
          /\ Cardinality(old \cup gone) \in Nat
          /\ Cardinality(old \cup gone) <= Cardinality(old) + Cardinality(gone)
        <3>1. old \cup gone \in SUBSET (old \cup gone)
            OBVIOUS
        <3> QED
            BY <1>1, <2>1, <3>1, NoMoreThan
    <2>4. /\ Cardinality(new) \in Nat /\ Cardinality(lostRows) \in Nat
          /\ Cardinality(new) <= Cardinality(old \cup gone) + Cardinality(lostRows)
        <3>1. old \cup gone \in SUBSET (1 .. hour)
            BY <2>1
        <3> QED
            BY <1>1, <1>6, <2>2, <3>1, NoMoreThan
    <2>5. Cardinality(old) + Cardinality(gone) <= x + mishaps
        BY <1>9 DEF HolesPaid, old, gone
    <2>6. Cardinality(new) <= x + mishaps + Cardinality(lostRows)
        BY <2>3, <2>4, <2>5
    <2> QED
        BY <1>5, <2>4, <2>6 DEF N, lostRows, new
<1> QED
    BY <1>8, <1>9

\* What is published afterwards.
LEMMA OutputTakes ==
    ASSUME hour \in Nat \ {0}, NEW h, NEW n, SoundWindow(h, n),
           NEW f, NEW a, NEW p, SoundOutput(h, n, f, a, p),
           NEW rows \in SUBSET Answer("1h"),
           NEW w, w = InOrder({k \in rows : k > n}), w # <<>>,
           NEW t, t = Window(h \o w),
           NEW a1, a1 = a \/ a1 = a \o w,
           NEW p1, p1 = IF Computed(t) = 0 THEN p ELSE Append(p, Computed(t))
    PROVE  SoundOutput(t, Last(w), Computed(t), a1, p1) /\ Computed(t) \in Nat
<1> DEFINE N == Last(w)
<1>1. /\ n \in Nat /\ a \in Seq(Nat) /\ Rising(a) /\ Upto(a, n)
      /\ p \in Seq(Nat) /\ Rising(p) /\ Upto(p, n)
      /\ f = (IF p = <<>> THEN 0 ELSE Last(p)) /\ (p # <<>> => Len(h) >= WarmUp)
    BY DEF SoundWindow, SoundOutput
<1>2. /\ w \in Seq(Nat) /\ Rising(w) /\ \A i \in 1 .. Len(w) : n < w[i] /\ w[i] <= N
      /\ n < N /\ N \in Nat /\ N >= 1
    <2>1. /\ w \in Seq(Nat) /\ Rising(w)
          /\ \A i \in 1 .. Len(w) : n < w[i] /\ w[i] <= Last(w)
          /\ n < Last(w) /\ Last(w) \in 1 .. hour
        BY <1>1, NewRows
    <2> QED
        BY <2>1
<1>3. /\ t \in Seq(Nat) /\ t # <<>> /\ Last(t) = N /\ (Len(h) >= WarmUp => Len(t) >= WarmUp)
    <2>1. SoundWindow(t, Last(w)) /\ t # <<>> /\ (Len(h) >= WarmUp => Len(t) >= WarmUp)
        BY WindowTakes
    <2> QED
        BY <2>1 DEF SoundWindow
<1> HIDE DEF N
<1>4. a1 \in Seq(Nat) /\ Rising(a1) /\ Upto(a1, N)
    <2>0. /\ \A i \in 1 .. Len(a) : a[i] \in Nat /\ a[i] <= n /\ a[i] <= N
          /\ \A j \in 1 .. Len(w) : w[j] \in Nat
          /\ Len(a) \in Nat /\ Len(w) \in Nat
        <3>1. \A i \in 1 .. Len(a) : a[i] <= n
            BY <1>1 DEF Upto
        <3>2. \A i \in 1 .. Len(a) : a[i] \in Nat
            BY <1>1, ElementOfSeq
        <3>3. \A j \in 1 .. Len(w) : w[j] \in Nat
            BY <1>2, ElementOfSeq
        <3>4. n \in Nat /\ n < N /\ N \in Nat
            BY <1>1, <1>2
        <3>5. \A i \in 1 .. Len(a) : a[i] <= N
            BY <3>1, <3>2, <3>4
        <3>6. Len(a) \in Nat /\ Len(w) \in Nat
            BY <1>1, <1>2
        <3> QED
            BY <3>1, <3>2, <3>3, <3>5, <3>6
    <2>1. CASE a1 = a
        BY <1>1, <2>0, <2>1 DEF Upto
    <2>2. CASE a1 = a \o w
        <3>1. ASSUME NEW i \in 1 .. Len(a), NEW j \in 1 .. Len(w) PROVE a[i] < w[j]
            <4>1. a[i] \in Nat /\ a[i] <= n /\ w[j] \in Nat /\ n < w[j] /\ n \in Nat
                BY <1>1, <1>2, <2>0
            <4> QED
                BY <4>1
        <3>2. /\ a1 \in Seq(Nat) /\ Len(a1) = Len(a) + Len(w) /\ Rising(a1)
              /\ \A i \in 1 .. Len(a) : a1[i] = a[i]
              /\ \A j \in 1 .. Len(w) : a1[Len(a) + j] = w[j]
            BY <1>1, <1>2, <2>2, <3>1, RisingJoin
        <3>3. Upto(a1, N)
            <4> SUFFICES ASSUME NEW i \in 1 .. Len(a1) PROVE a1[i] <= N
                BY DEF Upto
            <4>1. CASE i <= Len(a)
                <5>1. i \in 1 .. Len(a)
                    BY <2>0, <4>1
                <5> QED
                    BY <2>0, <3>2, <5>1
            <4>2. CASE i > Len(a)
                <5>1. i - Len(a) \in 1 .. Len(w) /\ i = Len(a) + (i - Len(a))
                    BY <2>0, <3>2, <4>2
                <5> QED
                    BY <1>2, <3>2, <5>1
            <4> QED
                BY <2>0, <4>1, <4>2
        <3> QED
            BY <3>2, <3>3
    <2> QED
        BY <2>1, <2>2
<1>5. CASE Len(t) < WarmUp
    <2>1. Computed(t) = 0 /\ p1 = p
        BY <1>5 DEF Computed
    <2>2. Len(t) \in Nat /\ WarmUp \in Nat
        BY <1>3, FeedAssumption
    <2>3. p = <<>>
        BY <1>1, <1>3, <1>5, <2>2
    <2> QED
        BY <1>1, <1>4, <2>1, <2>3 DEF SoundOutput, N, Upto, Rising
<1>6. CASE ~(Len(t) < WarmUp)
    <2>1. Computed(t) = N /\ p1 = Append(p, N)
        BY <1>2, <1>3, <1>6 DEF Computed
    <2>2. Len(t) >= WarmUp
        BY <1>3, <1>6, FeedAssumption
    <2>3. /\ p1 \in Seq(Nat) /\ Len(p1) = Len(p) + 1 /\ p1 # <<>> /\ Last(p1) = N
          /\ Len(p) \in Nat /\ p1[Len(p) + 1] = N
          /\ \A i \in 1 .. Len(p) : p1[i] = p[i] /\ p[i] \in Nat /\ p[i] <= n
        <3>1. /\ p1 \in Seq(Nat) /\ Len(p1) = Len(p) + 1 /\ p1 # <<>> /\ Len(p) \in Nat
              /\ p1[Len(p) + 1] = N
            BY <1>1, <1>2, <2>1
        <3>2. Last(p1) = N
            BY <3>1 DEF Last
        <3>3. \A i \in 1 .. Len(p) : p1[i] = p[i]
            BY <1>1, <1>2, <2>1
        <3>4. \A i \in 1 .. Len(p) : p[i] <= n
            BY <1>1 DEF Upto
        <3>5. \A i \in 1 .. Len(p) : p[i] \in Nat
            BY <1>1, ElementOfSeq
        <3> QED
            BY <3>1, <3>2, <3>3, <3>4, <3>5
    <2>4. \A i \in 1 .. Len(p1) : i = Len(p) + 1 \/ i \in 1 .. Len(p)
        BY <2>3
    <2>5. Upto(p1, N)
        BY <1>1, <1>2, <2>3, <2>4 DEF Upto
    <2>6. Rising(p1)
        <3> SUFFICES ASSUME NEW i \in 1 .. Len(p1), NEW j \in 1 .. Len(p1), i < j
                     PROVE  p1[i] < p1[j]
            BY DEF Rising
        <3>1. i \in 1 .. Len(p)
            BY <2>3
        <3>2. CASE j = Len(p) + 1
            BY <1>1, <1>2, <2>3, <3>1, <3>2
        <3>3. CASE j \in 1 .. Len(p)
            BY <1>1, <2>3, <3>1, <3>3 DEF Rising
        <3> QED
            BY <2>4, <3>2, <3>3
    <2> QED
        BY <1>2, <1>4, <2>1, <2>2, <2>3, <2>5, <2>6 DEF SoundOutput, N
<1> QED
    BY <1>3, <1>5, <1>6, FeedAssumption

-----------------------------------------------------------------------------
(* The steps.                                                              *)

LEMMA FeedInit == Init => IInv
<1> SUFFICES ASSUME Init PROVE FeedType /\ \A s \in Symbols : SoundFeed(s)
    BY DEF IInv
<1>1. FeedType
    <2>1. hour \in Nat \ {0}
        BY FeedAssumption DEF Init
    <2>2. /\ history \in [Symbols -> [Timeframes -> Seq(Nat)]]
          /\ newest \in [Symbols -> [Timeframes -> Nat]]
          /\ features \in [Symbols -> Nat] /\ lost \in [Symbols -> Nat]
          /\ announced \in [Symbols -> Seq(Nat)] /\ processed \in [Symbols -> Seq(Nat)]
          /\ mishaps \in Nat
        BY DEF Init
    <2> QED
        BY <2>1, <2>2 DEF FeedType
<1>2. ASSUME NEW s \in Symbols PROVE SoundFeed(s)
    <2>1. /\ history[s]["1h"] = <<>> /\ newest[s]["1h"] = 0 /\ features[s] = 0
          /\ announced[s] = <<>> /\ processed[s] = <<>> /\ lost[s] = 0
        BY DEF Init, Timeframes
    <2>2. <<>> \in Seq(Nat) /\ Rising(<<>>) /\ Upto(<<>>, 0) /\ 0 <= hour
        BY <1>1 DEF Rising, Upto, FeedType
    <2> QED
        BY <2>1, <2>2 DEF SoundFeed, SoundWindow, SoundOutput, HolesPaid
<1> QED
    BY <1>1, <1>2

LEMMA OutOfReachCounts ==
    ASSUME NEW n \in Nat, hour \in Nat
    PROVE  /\ Cardinality(OutOfReach(n)) =
                  IF n + FetchLimit >= hour THEN 0 ELSE hour - FetchLimit - n
           /\ Cardinality(OutOfReach(n)') =
                  IF n + FetchLimit >= hour' THEN 0 ELSE hour' - FetchLimit - n
           \/ hour' \notin Nat
<1>1. FetchLimit \in Nat
    BY FeedAssumption
<1>2. ASSUME NEW k \in Nat
      PROVE  Cardinality(n + 1 .. k - FetchLimit) =
                 IF n + FetchLimit >= k THEN 0 ELSE k - FetchLimit - n
    <2>1. n + 1 \in Int /\ k - FetchLimit \in Int
        BY <1>1
    <2>2. Cardinality(n + 1 .. k - FetchLimit) =
              IF n + 1 > k - FetchLimit THEN 0 ELSE (k - FetchLimit) - (n + 1) + 1
        BY <2>1, FS_Interval
    <2> QED
        BY <1>1, <2>2
<1> QED
    BY <1>2 DEF OutOfReach

LEMMA HourKeeps ==
    ASSUME IInv, HourPasses
    PROVE  IInv'
<1>1. /\ FeedType /\ hour \in Nat /\ hour' = hour + 1
      /\ UNCHANGED <<history, newest, features, announced, processed, mishaps>>
    BY DEF IInv, HourPasses, FeedType
<1>2. FetchLimit \in Nat
    BY FeedAssumption
<1>3. \A s \in Symbols :
         lost'[s] = lost[s] + (IF newest[s]["1h"] # 0
                                  /\ newest[s]["1h"] + FetchLimit < hour + 1
                               THEN 1 ELSE 0)
    BY DEF HourPasses
<1>4. FeedType'
    <2>1. lost' \in [Symbols -> Nat]
        <3>1. \A s \in Symbols : lost[s] \in Nat
            BY <1>1 DEF FeedType
        <3>2. \A s \in Symbols : lost'[s] \in Nat
            BY <1>3, <3>1
        <3> QED
            BY <3>2 DEF HourPasses
    <2> QED
        BY <1>1, <2>1 DEF FeedType
<1>5. ASSUME NEW s \in Symbols PROVE SoundFeed(s)'
    <2> DEFINE h == history[s]["1h"]
               n == newest[s]["1h"]
               x == lost[s]
               y == lost'[s]
    <2>1. SoundWindow(h, n) /\ SoundOutput(h, n, features[s], announced[s], processed[s])
          /\ HolesPaid(h, n, x)
        BY DEF IInv, SoundFeed
    <2>2. n \in Nat /\ n <= hour /\ (h = <<>> <=> n = 0) /\ x \in Nat /\ mishaps \in Nat
        BY <1>1, <2>1 DEF SoundWindow, FeedType
    <2>3. y = x + (IF n # 0 /\ n + FetchLimit < hour + 1 THEN 1 ELSE 0)
        BY <1>3
    <2>4. UNCHANGED <<history[s]["1h"], newest[s]["1h"], features[s], announced[s], processed[s],
                      mishaps>>
        BY <1>1
    <2> HIDE DEF h, n, x, y
    <2>5. SoundWindow(h, n)'
        <3>1. h' = h /\ n' = n
            BY <2>4 DEF h, n
        <3> QED
            BY <1>1, <2>1, <2>2, <3>1 DEF SoundWindow
    <2>6. ASSUME h # <<>>
          PROVE  Cardinality(HolesIn(h, n)) + Cardinality(n + 1 .. hour' - FetchLimit) <= y + mishaps
        <3>1. Cardinality(HolesIn(h, n)) + Cardinality(OutOfReach(n)) <= x + mishaps
            BY <2>1, <2>6 DEF HolesPaid
        <3>2. /\ Cardinality(OutOfReach(n)) =
                     IF n + FetchLimit >= hour THEN 0 ELSE hour - FetchLimit - n
              /\ Cardinality(n + 1 .. hour' - FetchLimit) =
                     IF n + FetchLimit >= hour' THEN 0 ELSE hour' - FetchLimit - n
            BY <1>1, <2>2, OutOfReachCounts DEF OutOfReach
        <3>3. Cardinality(HolesIn(h, n)) \in Nat
            BY <2>2, RowsAreFinite DEF HolesIn
        <3> QED
            BY <1>1, <1>2, <2>2, <2>3, <2>6, <3>1, <3>2, <3>3
    <2>7. HolesPaid(h, n, x)'
        <3>1. h' = h /\ n' = n /\ x' = y
            BY <2>4 DEF h, n, x, y
        <3> QED
            BY <2>4, <2>6, <3>1 DEF HolesPaid, HolesIn, OutOfReach
    <2>8. SoundOutput(h, n, features[s], announced[s], processed[s])'
        <3>1. h' = h /\ n' = n
            BY <2>4 DEF h, n
        <3> QED
            BY <2>1, <2>4, <3>1 DEF SoundOutput, Rising, Upto
    <2> QED
        BY <2>5, <2>7, <2>8 DEF SoundFeed, h, n, x
<1> QED
    BY <1>4, <1>5 DEF IInv

\* A step that takes nothing into a 1h window.
LEMMA NothingTaken ==
    ASSUME IInv, FeedType', mishaps <= mishaps',
           UNCHANGED <<hour, lost, features, announced, processed>>,
           \A s \in Symbols : UNCHANGED <<history[s]["1h"], newest[s]["1h"]>>
    PROVE  IInv'
<1> SUFFICES ASSUME NEW s \in Symbols PROVE SoundFeed(s)'
    BY DEF IInv
<1> DEFINE h == history[s]["1h"]
           n == newest[s]["1h"]
<1>1. SoundWindow(h, n) /\ SoundOutput(h, n, features[s], announced[s], processed[s])
      /\ HolesPaid(h, n, lost[s])
    BY DEF IInv, SoundFeed
<1>2. h' = h /\ n' = n
    OBVIOUS
<1>3. hour \in Nat /\ n \in Nat /\ n <= hour /\ lost[s] \in Nat /\ mishaps \in Nat /\ mishaps' \in Nat
    BY <1>1 DEF IInv, FeedType, SoundWindow
<1> HIDE DEF h, n
<1>4. h # <<>> => Cardinality(HolesIn(h, n)) + Cardinality(OutOfReach(n)) <= lost[s] + mishaps'
    <2>1. Cardinality(HolesIn(h, n)) \in Nat /\ Cardinality(OutOfReach(n)) \in Nat
        <3>1. HolesIn(h, n) \in SUBSET (1 .. n)
            BY DEF HolesIn
        <3>2. OutOfReach(n) \in SUBSET (1 .. hour)
            BY <1>3, FeedAssumption DEF OutOfReach
        <3> QED
            BY <1>3, <3>1, <3>2, RowsAreFinite
    <2> QED
        BY <1>1, <1>3, <2>1 DEF HolesPaid
<1> QED
    BY <1>1, <1>2, <1>4
       DEF SoundFeed, SoundWindow, SoundOutput, Rising, Upto, HolesPaid, HolesIn, OutOfReach, h, n

\* An answer with new rows is taken into the window of tf.
LEMMA TakeTypes ==
    ASSUME FeedType, NEW s \in Symbols, NEW tf \in Timeframes,
           NEW rows \in SUBSET Answer(tf),
           NEW w, w = NewBars(s, tf, rows), w # <<>>, Take(s, tf, w)
    PROVE  /\ history' \in [Symbols -> [Timeframes -> Seq(Nat)]]
           /\ newest' \in [Symbols -> [Timeframes -> Nat]]
           /\ history'[s][tf] = Window(history[s][tf] \o w) /\ newest'[s][tf] = Last(w)
           /\ \A u \in Symbols, k \in Timeframes :
                 u # s \/ k # tf => /\ history'[u][k] = history[u][k]
                                    /\ newest'[u][k] = newest[u][k]
<1> DEFINE S == {k \in rows : k > newest[s][tf]}
           h == history[s][tf]
<1>1. h \in Seq(Nat)
    BY DEF FeedType
<1>2. S \in SUBSET (1 .. Kline(tf, hour)) /\ Kline(tf, hour) \in Nat
    <2>1. Kline(tf, hour) \in Nat
        <3>1. hour \in Nat /\ hour - 1 \in Nat /\ PerFourHours \in Nat /\ PerFourHours > 0
            BY FeedAssumption DEF FeedType
        <3>2. ((hour - 1) \div PerFourHours) + 1 \in Nat
            BY <3>1
        <3> QED
            BY <3>1, <3>2 DEF Kline
    <2> QED
        BY <2>1 DEF Answer
<1>3. S \in SUBSET Nat /\ IsFiniteSet(S)
    BY <1>2, RowsAreFinite
<1> HIDE DEF S
<1>4. w = InOrder(S)
    BY DEF NewBars, S
<1>5. w \in Seq(Nat)
    BY <1>3, <1>4, InOrderSorts
<1>6. Last(w) \in Nat
    <2>1. Len(w) \in 1 .. Len(w)
        BY <1>5
    <2> QED
        BY <1>5, <2>1, ElementOfSeq DEF Last
<1>7. Window(h \o w) \in Seq(Nat)
    <2>1. h \o w \in Seq(Nat) /\ h \o w # <<>>
        BY <1>1, <1>5
    <2> QED
        BY <2>1, WindowIsTail DEF TailFrom
<1> DEFINE t == Window(h \o w)
           N == Last(w)
<1>8. history' = [history EXCEPT ![s][tf] = t] /\ newest' = [newest EXCEPT ![s][tf] = N]
    BY DEF Take, Stored, Window
<1>9. t \in Seq(Nat) /\ N \in Nat
    BY <1>6, <1>7
<1> HIDE DEF t, N
<1>10. /\ history \in [Symbols -> [Timeframes -> Seq(Nat)]]
       /\ newest \in [Symbols -> [Timeframes -> Nat]]
    BY DEF FeedType
<1>11. history'[s][tf] = t /\ newest'[s][tf] = N
    BY <1>8, <1>10
<1>12. \A u \in Symbols, k \in Timeframes :
          u # s \/ k # tf => /\ history'[u][k] = history[u][k]
                             /\ newest'[u][k] = newest[u][k]
    BY <1>8, <1>10
<1>13. history' \in [Symbols -> [Timeframes -> Seq(Nat)]]
    BY <1>8, <1>9, <1>10
<1>14. newest' \in [Symbols -> [Timeframes -> Nat]]
    BY <1>8, <1>9, <1>10
<1> QED
    BY <1>11, <1>12, <1>13, <1>14 DEF t, N

LEMMA MishapsCount ==
    ASSUME FeedType, NEW tf \in Timeframes, NEW rows, Parsed(tf, rows)
    PROVE  /\ mishaps' \in Nat /\ mishaps <= mishaps'
           /\ mishaps' = mishaps + Cardinality(Answer(tf) \ rows)
           /\ Cardinality(Answer(tf) \ rows) \in Nat
<1>1. Kline(tf, hour) \in Nat
    <2>1. hour \in Nat /\ hour - 1 \in Nat /\ PerFourHours \in Nat /\ PerFourHours > 0
        BY FeedAssumption DEF FeedType
    <2>2. ((hour - 1) \div PerFourHours) + 1 \in Nat
        BY <2>1
    <2> QED
        BY <2>1, <2>2 DEF Kline
<1>2. Answer(tf) \ rows \in SUBSET (1 .. Kline(tf, hour))
    BY DEF Answer
<1>3. Cardinality(Answer(tf) \ rows) \in Nat
    BY <1>1, <1>2, RowsAreFinite
<1> QED
    BY <1>3 DEF Parsed, FeedType

\* The 1h window takes new rows, and features and bars are published.
LEMMA HourTaken ==
    ASSUME IInv, NEW s \in Symbols, NEW rows, Parsed("1h", rows),
           NEW w, w = NewBars(s, "1h", rows), w # <<>>, Take(s, "1h", w),
           PublishFeatures(s, Computed(history'[s]["1h"])),
           announced' = announced \/ announced' = [announced EXCEPT ![s] = @ \o w],
           UNCHANGED exchangeVars
    PROVE  IInv'
<1> DEFINE h == history[s]["1h"]
           n == newest[s]["1h"]
           t == Window(h \o w)
           N == Last(w)
           fv == Computed(t)
           f == features[s]
           x == lost[s]
           a == announced[s]
           p == processed[s]
           p1 == IF fv = 0 THEN p ELSE Append(p, fv)
           a1 == announced'[s]
<1>1. /\ FeedType /\ SoundWindow(h, n) /\ SoundOutput(h, n, features[s], a, p)
      /\ HolesPaid(h, n, lost[s]) /\ "1h" \in Timeframes /\ rows \in SUBSET Answer("1h")
      /\ hour \in Nat \ {0} /\ mishaps \in Nat /\ lost[s] \in Nat
    BY DEF IInv, SoundFeed, Timeframes, Parsed, FeedType
<1>2. w = InOrder({k \in rows : k > n})
    BY DEF NewBars
<1>3. /\ history' \in [Symbols -> [Timeframes -> Seq(Nat)]]
      /\ newest' \in [Symbols -> [Timeframes -> Nat]]
      /\ history'[s]["1h"] = t /\ newest'[s]["1h"] = N
      /\ \A u \in Symbols, k \in Timeframes :
             u # s \/ k # "1h" => /\ history'[u][k] = history[u][k]
                                  /\ newest'[u][k] = newest[u][k]
    BY <1>1, TakeTypes
<1>4. /\ mishaps' \in Nat /\ mishaps <= mishaps'
      /\ mishaps' = mishaps + Cardinality(Answer("1h") \ rows)
    BY <1>1, MishapsCount
<1>5. /\ features' = [features EXCEPT ![s] = fv]
      /\ processed' = IF fv = 0 THEN processed ELSE [processed EXCEPT ![s] = Append(p, fv)]
      /\ UNCHANGED <<hour, lost>>
    BY <1>3 DEF PublishFeatures, exchangeVars
<1>6. processed[s] = p /\ announced[s] = a /\ (a1 = a \/ a1 = a \o w)
    BY <1>1 DEF FeedType
<1>7. SoundWindow(t, N)
    BY <1>1, <1>2, WindowTakes
<1>eq. /\ t = Window(h \o w) /\ N = Last(w) /\ fv = Computed(t)
       /\ p1 = (IF Computed(t) = 0 THEN p ELSE Append(p, Computed(t)))
    OBVIOUS
<1>def. /\ SoundOutput(h, n, f, a, p) /\ HolesPaid(h, n, x) /\ SoundWindow(h, n)
       /\ x \in Nat /\ hour \in Nat \ {0} /\ mishaps \in Nat
    BY <1>1
<1>8. SoundOutput(t, N, fv, a1, p1) /\ fv \in Nat
    <2> HIDE DEF h, n, t, N, fv, f, a, p, p1, a1
    <2>1. /\ rows \in SUBSET Answer("1h") /\ w # <<>> /\ w = InOrder({k \in rows : k > n})
          /\ hour \in Nat \ {0} /\ SoundWindow(h, n) /\ SoundOutput(h, n, f, a, p)
          /\ t = Window(h \o w) /\ (a1 = a \/ a1 = a \o w)
          /\ p1 = IF Computed(t) = 0 THEN p ELSE Append(p, Computed(t))
        BY <1>1, <1>2, <1>6, <1>def, <1>eq
    <2>2. SoundOutput(t, Last(w), Computed(t), a1, p1) /\ Computed(t) \in Nat
        BY <2>1, OutputTakes
    <2> QED
        BY <2>2, <1>eq
<1>9. Cardinality(HolesIn(t, N)) + Cardinality(OutOfReach(N)) <= lost[s] + mishaps'
    <2>1. x = lost[s]
        OBVIOUS
    <2> HIDE DEF h, n, t, N, x
    <2>2. Cardinality(HolesIn(t, Last(w))) + Cardinality(OutOfReach(Last(w)))
              <= x + mishaps + Cardinality(Answer("1h") \ rows)
        BY <1>1, <1>2, <1>def, <1>eq, HolesArePaid
    <2>3. x + mishaps + Cardinality(Answer("1h") \ rows) = lost[s] + mishaps'
        <3>1. Cardinality(Answer("1h") \ rows) \in Nat
            BY <1>1, MishapsCount
        <3> QED
            BY <1>4, <1>def, <2>1, <3>1
    <2>4. N = Last(w)
        BY <1>eq
    <2> QED
        BY <2>2, <2>3, <2>4
<1>10. p1 \in Seq(Nat) /\ a1 \in Seq(Nat)
    BY <1>8 DEF SoundOutput
<1> HIDE DEF h, n, t, N, fv, f, x, a, p, a1
<1>11. /\ features'[s] = fv /\ processed'[s] = p1 /\ announced'[s] = a1
       /\ \A u \in Symbols \ {s} : /\ features'[u] = features[u]
                                   /\ processed'[u] = processed[u]
                                   /\ announced'[u] = announced[u]
       /\ features' \in [Symbols -> Nat]
       /\ processed' \in [Symbols -> Seq(Nat)] /\ announced' \in [Symbols -> Seq(Nat)]
    <2>1. /\ features \in [Symbols -> Nat]
          /\ announced \in [Symbols -> Seq(Nat)] /\ processed \in [Symbols -> Seq(Nat)]
        BY <1>1 DEF FeedType
    <2>2. features'[s] = fv /\ features' \in [Symbols -> Nat]
          /\ \A u \in Symbols \ {s} : features'[u] = features[u]
        BY <1>5, <1>8, <2>1
    <2>3. processed'[s] = p1 /\ processed' \in [Symbols -> Seq(Nat)]
          /\ \A u \in Symbols \ {s} : processed'[u] = processed[u]
        <3>1. CASE fv = 0
            BY <1>5, <1>6, <2>1, <3>1
        <3>2. CASE fv # 0
            BY <1>5, <1>10, <2>1, <3>2
        <3> QED
            BY <3>1, <3>2
    <2>4. announced'[s] = a1 /\ announced' \in [Symbols -> Seq(Nat)]
          /\ \A u \in Symbols \ {s} : announced'[u] = announced[u]
        <3>1. CASE announced' = announced
            BY <2>1, <3>1 DEF a1
        <3>2. CASE announced' = [announced EXCEPT ![s] = @ \o w]
            <4>1. announced' = [announced EXCEPT ![s] = a1]
                BY <2>1, <3>2 DEF a1
            <4> QED
                BY <1>10, <2>1, <4>1 DEF a1
        <3> QED
            BY <3>1, <3>2
    <2> QED
        BY <2>2, <2>3, <2>4
<1>12. FeedType'
    BY <1>1, <1>3, <1>4, <1>5, <1>11 DEF FeedType
<1>13. SoundFeed(s)'
    <2>1. SoundWindow(history'[s]["1h"], newest'[s]["1h"])
        BY <1>3, <1>7
    <2>2. SoundOutput(history'[s]["1h"], newest'[s]["1h"], features'[s], announced'[s],
                      processed'[s])
        BY <1>3, <1>8, <1>11
    <2>3. Cardinality(HolesIn(history'[s]["1h"], newest'[s]["1h"]))
            + Cardinality(OutOfReach(newest'[s]["1h"])) <= lost'[s] + mishaps'
        BY <1>3, <1>5, <1>9
    <2>4. SoundWindow(history[s]["1h"], newest[s]["1h"])'
        BY <1>5, <2>1 DEF SoundWindow, Rising
    <2>5. SoundOutput(history[s]["1h"], newest[s]["1h"], features[s], announced[s],
                      processed[s])'
        BY <2>2 DEF SoundOutput, Rising, Upto
    <2>6. HolesPaid(history[s]["1h"], newest[s]["1h"], lost[s])'
        BY <1>5, <2>3 DEF HolesPaid, HolesIn, OutOfReach
    <2> QED
        BY <2>4, <2>5, <2>6 DEF SoundFeed
<1>14. ASSUME NEW u \in Symbols, u # s PROVE SoundFeed(u)'
    <2> DEFINE g == history[u]["1h"]
               m == newest[u]["1h"]
    <2>1. SoundWindow(g, m) /\ SoundOutput(g, m, features[u], announced[u], processed[u])
          /\ HolesPaid(g, m, lost[u])
        BY DEF IInv, SoundFeed
    <2>2. g' = g /\ m' = m /\ UNCHANGED <<features[u], announced[u], processed[u], lost[u], hour>>
        BY <1>1, <1>3, <1>5, <1>11, <1>14
    <2>3. hour \in Nat /\ m \in Nat /\ m <= hour /\ lost[u] \in Nat
        BY <1>1, <2>1 DEF FeedType, SoundWindow
    <2> HIDE DEF g, m
    <2>4. g # <<>> => Cardinality(HolesIn(g, m)) + Cardinality(OutOfReach(m)) <= lost[u] + mishaps'
        <3>1. Cardinality(HolesIn(g, m)) \in Nat /\ Cardinality(OutOfReach(m)) \in Nat
            <4>1. HolesIn(g, m) \in SUBSET (1 .. m)
                BY DEF HolesIn
            <4>2. OutOfReach(m) \in SUBSET (1 .. hour)
                BY <2>3, FeedAssumption DEF OutOfReach
            <4> QED
                BY <2>3, <4>1, <4>2, RowsAreFinite
        <3> QED
            BY <1>1, <1>4, <2>1, <2>3, <3>1 DEF HolesPaid
    <2>5. SoundWindow(g, m)' /\ SoundOutput(g, m, features[u], announced[u], processed[u])'
        BY <2>1, <2>2 DEF SoundWindow, SoundOutput, Rising, Upto
    <2>6. HolesPaid(g, m, lost[u])'
        BY <2>2, <2>4 DEF HolesPaid, HolesIn, OutOfReach
    <2> QED
        BY <2>5, <2>6 DEF SoundFeed, g, m
<1> QED
    BY <1>12, <1>13, <1>14 DEF IInv

LEMMA StartupKeeps ==
    ASSUME IInv, NEW s \in Symbols, NEW tf \in Timeframes, NEW rows,
           StartupLoads(s, tf, rows)
    PROVE  IInv'
<1> DEFINE w == NewBars(s, tf, rows)
<1>1. FeedType /\ Parsed(tf, rows) /\ rows \in SUBSET Answer(tf) /\ UNCHANGED <<hour, lost, announced>>
    BY DEF IInv, StartupLoads, exchangeVars, Parsed
<1>2. mishaps' \in Nat /\ mishaps <= mishaps'
    BY <1>1, MishapsCount
<1>3. CASE w = <<>>
    <2>1. UNCHANGED <<hour, lost, features, announced, processed, history, newest>>
        BY <1>1, <1>3 DEF StartupLoads
    <2>2. FeedType'
        BY <1>1, <1>2, <2>1 DEF FeedType
    <2> QED
        BY <1>2, <2>1, <2>2, NothingTaken
<1>4. CASE w # <<>> /\ tf = "1h"
    BY <1>4, HourTaken DEF StartupLoads
<1>5. CASE w # <<>> /\ tf # "1h"
    <2>1. Take(s, tf, w) /\ UNCHANGED <<features, processed>>
        BY <1>5 DEF StartupLoads
    <2> HIDE DEF w
    <2>2. /\ history' \in [Symbols -> [Timeframes -> Seq(Nat)]]
          /\ newest' \in [Symbols -> [Timeframes -> Nat]]
          /\ \A u \in Symbols, k \in Timeframes :
                 u # s \/ k # tf => /\ history'[u][k] = history[u][k]
                                    /\ newest'[u][k] = newest[u][k]
        BY <1>1, <1>5, <2>1, TakeTypes DEF w
    <2>3. FeedType'
        BY <1>1, <1>2, <2>1, <2>2 DEF FeedType
    <2>4. \A u \in Symbols : UNCHANGED <<history[u]["1h"], newest[u]["1h"]>>
        BY <1>5, <2>2 DEF Timeframes
    <2> QED
        BY <1>1, <1>2, <2>1, <2>3, <2>4, NothingTaken
<1> QED
    BY <1>3, <1>4, <1>5

LEMMA PollKeeps ==
    ASSUME IInv, NEW s \in Symbols, NEW rows, Polls(s, rows)
    PROVE  IInv'
<1> DEFINE w == NewBars(s, "1h", rows)
<1>1. FeedType /\ Parsed("1h", rows) /\ UNCHANGED <<hour, lost>> /\ "1h" \in Timeframes
    BY DEF IInv, Polls, exchangeVars, Timeframes
<1>2. mishaps' \in Nat /\ mishaps <= mishaps'
    BY <1>1, MishapsCount
<1>3. CASE w = <<>>
    <2>1. UNCHANGED <<hour, lost, features, announced, processed, history, newest>>
        BY <1>1, <1>3 DEF Polls
    <2>2. FeedType'
        BY <1>1, <1>2, <2>1 DEF FeedType
    <2> QED
        BY <1>2, <2>1, <2>2, NothingTaken
<1>4. CASE w # <<>>
    BY <1>4, HourTaken DEF Polls
<1> QED
    BY <1>3, <1>4

LEMMA FeedNext == IInv /\ [Next]_vars => IInv'
<1> SUFFICES ASSUME IInv, [Next]_vars PROVE IInv'
    OBVIOUS
<1>1. ASSUME UNCHANGED <<hour, lost, history, newest, features, announced, processed>>,
             mishaps' \in Nat, mishaps <= mishaps'
      PROVE  IInv'
    <2>1. FeedType'
        BY <1>1 DEF IInv, FeedType
    <2> QED
        BY <1>1, <2>1, NothingTaken
<1>2. mishaps \in Nat
    BY DEF IInv, FeedType
<1>3. CASE HourPasses
    BY <1>3, HourKeeps
<1>4. ASSUME NEW s \in Symbols, NEW tf \in Timeframes, NEW rows, StartupLoads(s, tf, rows)
      PROVE  IInv'
    BY <1>4, StartupKeeps
<1>5. ASSUME NEW s \in Symbols, NEW tf \in Timeframes, RequestFails(s, tf)
      PROVE  IInv'
    BY <1>1, <1>2, <1>5 DEF RequestFails, exchangeVars
<1>6. ASSUME NEW s \in Symbols, NEW rows, Polls(s, rows)
      PROVE  IInv'
    BY <1>6, PollKeeps
<1>7. CASE PollsAgain
    BY <1>1, <1>2, <1>7 DEF PollsAgain, exchangeVars
<1>8. CASE UNCHANGED vars
    BY <1>1, <1>2, <1>8 DEF vars
<1> QED
    BY <1>3, <1>4, <1>5, <1>6, <1>7, <1>8 DEF Next, LoopStep

-----------------------------------------------------------------------------
(* The theorems.                                                           *)

LEMMA Invariant == Spec => []IInv
    BY FeedInit, FeedNext, PTL DEF Spec

\* fetch_and_process and startup_load publish every bar at most once and in
\* the order of time, although each answer repeats the bars before; the cached
\* features are those of the bar published last and never fall back to none.
THEOREM EachBarIsPublishedOnce == Spec => []EachBarOnce
<1>1. IInv => EachBarOnce
    <2>1. ASSUME NEW q \in Seq(Nat), Rising(q) PROVE Ascending(q)
        <3> SUFFICES ASSUME NEW i \in 1 .. Len(q) - 1 PROVE q[i] < q[i + 1]
            BY DEF Ascending
        <3>1. i \in 1 .. Len(q) /\ i + 1 \in 1 .. Len(q) /\ i < i + 1
            BY <2>1
        <3> QED
            BY <2>1, <3>1 DEF Rising
    <2> QED
        BY <2>1 DEF IInv, SoundFeed, SoundOutput, EachBarOnce
<1> QED
    BY <1>1, Invariant, PTL

\* A hole in the 1h window is a row the adapter could not parse or an hour the
\* exchange no longer returned: however late a poll is and however often
\* requests fail, the window loses nothing else.
THEOREM HolesAreExplained == Spec => []HolesExplained
<1>1. IInv => HolesExplained
    <2> SUFFICES ASSUME IInv, NEW s \in Symbols, history[s]["1h"] # <<>>
                 PROVE  Cardinality({k \in Holes(s) : k > Head(history[s]["1h"])})
                            <= lost[s] + mishaps
        BY DEF HolesExplained
    <2> DEFINE h == history[s]["1h"]
               n == newest[s]["1h"]
    <2>1. /\ SoundWindow(h, n) /\ hour \in Nat /\ lost[s] \in Nat /\ mishaps \in Nat
          /\ Cardinality(HolesIn(h, n)) + Cardinality(OutOfReach(n)) <= lost[s] + mishaps
        BY DEF IInv, FeedType, SoundFeed, HolesPaid
    <2>2. {k \in Holes(s) : k > Head(history[s]["1h"])} = HolesIn(h, n)
        BY DEF Holes, HolesIn
    <2>3. Cardinality(HolesIn(h, n)) \in Nat /\ Cardinality(OutOfReach(n)) \in Nat
        <3>1. HolesIn(h, n) \in SUBSET (1 .. n) /\ n \in Nat
            BY <2>1 DEF HolesIn, SoundWindow
        <3>2. OutOfReach(n) \in SUBSET (1 .. hour)
            BY <2>1, <3>1, FeedAssumption DEF OutOfReach
        <3> QED
            BY <2>1, <3>1, <3>2, RowsAreFinite
    <2>4. Cardinality(HolesIn(h, n)) <= lost[s] + mishaps
        <3>1. ASSUME NEW u \in Nat, NEW v \in Nat, NEW y \in Nat, u + v <= y
              PROVE  u <= y
            BY <3>1
        <3>2. lost[s] + mishaps \in Nat
            BY <2>1
        <3> HIDE DEF h, n
        <3> QED
            BY <2>1, <2>3, <3>1, <3>2
    <2> QED
        BY <2>2, <2>4
<1> QED
    BY <1>1, Invariant, PTL
=============================================================================
