---------------------------- MODULE TradeProofs ----------------------------
(***************************************************************************)
(* What lets a trade in, and what lets it out again.                       *)
(*                                                                         *)
(* Out: proofs about ExitLadder for every R, every bar and every time      *)
(* stop.  A closed position's result lies between -R and +3R, a position   *)
(* that was at +2R never closes at a loss, and the ladder implements the   *)
(* bracket of PositionLifecycle.  The properties are not inductive: they   *)
(* speak of closed positions.  The inductive invariant adds what an open   *)
(* one has in hand, its partials, its stop and a trail below the target.   *)
(*                                                                         *)
(* In: proofs about SignalChain for every set of bars and contexts.  A     *)
(* failing evaluator never opens a trade, more volume never costs one, and *)
(* no trade survives two weaknesses.  The inductive invariant says that    *)
(* every packet is one the builder makes from a proposal; what a seat      *)
(* gives such a packet is one lemma for each of the twenty.                *)
(*                                                                         *)
(* Both sides: the signals of the bars remembered, seen upside down, are   *)
(* the counterparts of their signals, detector by detector and pattern by  *)
(* pattern.  All that has to be invariant is that the memory is of bars.   *)
(***************************************************************************)
EXTENDS ExitLadder, SignalChain, FiniteSetTheorems, SequenceTheorems, TLAPS

-----------------------------------------------------------------------------
(* The way out.                                                            *)

Typed ==
  /\ status \in Reasons \cup {"open"}
  /\ sized \in BOOLEAN
  /\ stop \in {-R, 0}
  /\ trail \in Int \cup {NoTrail}
  /\ barsHeld \in 0..MaxBars
  /\ taken \subseteq {"1R", "2R"}
  /\ best \in Int
  /\ pnl \in Int

\* What an open position has in hand.
InHand ==
  status = "open" =>
    /\ pnl = 0
    /\ trail # NoTrail => trail < Target
    /\ sized /\ best >= 2 * R => "2R" \in taken \/ stop = 0

\* What a closed one came to.
Settled ==
  status # "open" =>
    /\ pnl >= -100 * R /\ pnl <= 300 * R
    /\ sized /\ best >= 2 * R => pnl >= 0

Ladder == Typed /\ BookedOnce /\ InHand /\ Settled

\* A bar's prices are ordered integers.
LEMMA BarTyped ==
  ASSUME NEW b \in Bars
  PROVE  /\ b.adv \in Int /\ b.close \in Int /\ b.fav \in Int /\ b.atr \in Nat
         /\ b.adv <= b.close /\ b.close <= b.fav
<1>1. b \in [adv : Ticks, close : Ticks, fav : Ticks, atr : Atrs]
  BY DEF Bars
<1>2. b.adv <= b.close /\ b.close <= b.fav
  BY DEF Bars
<1> QED
  BY <1>1, <1>2, PriceAssumption

-----------------------------------------------------------------------------
(* The partials and the stop.                                              *)

\* The three states of the ladder, as numbers.
LEMMA Rungs ==
  ASSUME BookedOnce, taken \subseteq {"1R", "2R"}
  PROVE  \/ locked = 0 /\ remaining = 100 /\ "1R" \notin taken /\ "2R" \notin taken
         \/ locked = 30 * R /\ remaining = 70 /\ "1R" \in taken /\ "2R" \notin taken
         \/ locked = 70 * R /\ remaining = 50 /\ "1R" \in taken /\ "2R" \in taken
  BY RiskAssumption DEF BookedOnce

\* Partials are taken only while the stop is where it was set, so each is
\* booked at its level of the initial risk.
LEMMA PartialsBooked ==
  ASSUME Typed, BookedOnce, NEW b \in Bars, PartialExits(b)
  PROVE  /\ taken' \subseteq {"1R", "2R"}
         /\ BookedOnce'
         /\ taken \subseteq taken'
         /\ sized /\ stop = -R /\ b.fav >= 2 * R => "2R" \in taken'
         /\ stop = 0 \/ ~sized => taken' = taken /\ locked' = locked /\ remaining' = remaining
<1> DEFINE one == "1R" \in Partials(b)
           two == "2R" \in Partials(b)
<1>1. /\ b.fav \in Int /\ R \in Nat \ {0}
      /\ (stop = -R /\ RDist = R) \/ (stop = 0 /\ RDist = 0)
  <2>1. b.fav \in Int
    BY BarTyped
  <2>2. stop = -R \/ stop = 0
    BY DEF Typed
  <2> QED
    BY <2>1, <2>2, RiskAssumption DEF RDist
<1>2. /\ one <=> sized /\ stop = -R /\ b.fav >= R /\ "1R" \notin taken
      /\ two <=> sized /\ stop = -R /\ b.fav >= 2 * R /\ "2R" \notin taken
  BY <1>1 DEF Partials, AtLeastR, Level, Typed
<1>3. taken' = taken \cup Partials(b) /\ Partials(b) \subseteq {"1R", "2R"}
  BY DEF PartialExits, Recorded, Partials
<1>4. /\ locked' = locked + (IF one THEN 30 * RDist ELSE 0) + (IF two THEN 40 * RDist ELSE 0)
      /\ remaining' = remaining - (IF one THEN 30 ELSE 0) - (IF two THEN 20 ELSE 0)
  BY <1>1 DEF PartialExits, Fraction, Level
<1>5. taken' \subseteq {"1R", "2R"} /\ taken \subseteq taken'
  BY <1>3 DEF Typed
<1>6. /\ "1R" \in taken' <=> "1R" \in taken \/ one
      /\ "2R" \in taken' <=> "2R" \in taken \/ two
  BY <1>3
<1> HIDE DEF one, two
<1>7. BookedOnce'
  <2>1. "2R" \in taken' => "1R" \in taken'
    BY <1>1, <1>2, <1>6 DEF BookedOnce
  <2>2. one => "1R" \notin taken /\ RDist = R
    BY <1>1, <1>2
  <2>3. two => "2R" \notin taken /\ RDist = R
    BY <1>1, <1>2
  <2> QED
    BY <1>1, <1>4, <1>6, <2>1, <2>2, <2>3 DEF BookedOnce
<1>8. sized /\ stop = -R /\ b.fav >= 2 * R => "2R" \in taken'
  BY <1>2, <1>6
<1>9. ASSUME stop = 0 \/ ~sized
      PROVE  taken' = taken /\ locked' = locked /\ remaining' = remaining
  <2>1. ~one /\ ~two
    BY <1>1, <1>2, <1>9
  <2>2. locked \in Int /\ remaining \in Int
    BY <1>1, Rungs DEF Typed
  <2>3. locked' = locked /\ remaining' = remaining
    BY <1>4, <2>1, <2>2
  <2> QED
    BY <1>3, <1>5, <1>6, <2>1, <2>3 DEF Typed
<1> QED
  BY <1>5, <1>7, <1>8, <1>9

-----------------------------------------------------------------------------
(* The checks.                                                             *)

\* The trail after a bar is a price, and below the target unless the bar
\* reaches it.
LEMMA TrailBelowTarget ==
  ASSUME Typed, InHand, status = "open", NEW b \in Bars, UpdateTrailingStop(b)
  PROVE  /\ trail' \in Int \cup {NoTrail}
         /\ ~TargetHit(b) /\ trail' # NoTrail => trail' < Target
<1>1. R \in Nat \ {0} /\ Target \in Int /\ R \div 2 \in Int /\ R \div 2 < Target
  BY RiskAssumption DEF Target
<1>2. \A k \in {8, 10, 15} : (k * b.atr) \div 10 \in Nat
  BY BarTyped
<1>3. TrailAtrs(b.close) \in {8, 10, 15}
  BY DEF TrailAtrs
<1>4. Candidate(b) \in Int /\ (Candidate(b) <= b.close \/ Candidate(b) = R \div 2)
  <2> DEFINE distance == (TrailAtrs(b.close) * b.atr) \div 10
  <2>1. distance \in Nat
    BY <1>2, <1>3
  <2>2. Candidate(b) = IF AtLeastR(b.close, 30) /\ b.close - distance < R \div 2
                       THEN R \div 2 ELSE b.close - distance
    BY DEF Candidate
  <2> HIDE DEF distance
  <2> QED
    BY <1>1, <2>1, <2>2, BarTyped
<1>5. ~TargetHit(b) => b.close < Target
  BY <1>1, BarTyped DEF TargetHit
<1>6. ~TargetHit(b) => Candidate(b) < Target
  BY <1>1, <1>4, <1>5, BarTyped
<1> QED
  BY <1>4, <1>6, TrailAssumption DEF UpdateTrailingStop, Ratchet, Typed, InHand

\* An exit's price lies between the stop and the target; the reasons are
\* distinct and none means the position stays open.
LEMMA ExitPriceBracketed ==
  ASSUME Typed, InHand, status = "open", NEW b \in Bars, stop' \in {-R, 0},
         UpdateTrailingStop(b), ExitReason(b) # "open"
  PROVE  /\ ExitReason(b) \in Reasons
         /\ ExitPrice(b) \in Int /\ ExitPrice(b) >= stop' /\ ExitPrice(b) <= Target
<1>1. /\ b.adv \in Int /\ b.close \in Int /\ b.fav \in Int /\ R \in Nat \ {0}
      /\ b.adv <= b.close /\ b.close <= b.fav /\ stop' \in Int /\ stop' <= Target
  <2>1. R \in Nat \ {0} /\ stop' \in Int /\ stop' <= Target
    BY RiskAssumption DEF Target
  <2> QED
    BY <2>1, BarTyped
<1>2. CASE StopHit(b)
  <2>1. ExitReason(b) = "STOP_LOSS"
    BY <1>2 DEF ExitReason
  <2> QED
    BY <1>1, <2>1 DEF ExitPrice, Reasons
<1>3. CASE ~StopHit(b) /\ TargetHit(b)
  <2>1. ExitReason(b) = "TARGET_REACHED"
    BY <1>3 DEF ExitReason
  <2>2. Target \in Int
    BY <1>1 DEF Target
  <2> QED
    BY <1>1, <2>1, <2>2 DEF ExitPrice, Reasons
<1>4. CASE ~StopHit(b) /\ ~TargetHit(b) /\ TrailHit(b)
  <2>1. ExitReason(b) = "TRAILING_STOP"
    BY <1>4 DEF ExitReason
  <2>2. trail' \in Int /\ trail' < Target /\ b.adv <= trail' /\ ~(b.adv <= stop')
    BY <1>4, TrailBelowTarget DEF TrailHit, StopHit
  <2>3. ExitPrice(b) = trail'
    BY <2>1 DEF ExitPrice
  <2>4. Target \in Int
    BY <1>1 DEF Target
  <2> QED
    BY <1>1, <2>1, <2>2, <2>3, <2>4 DEF Reasons
<1>5. CASE ~StopHit(b) /\ ~TargetHit(b) /\ ~TrailHit(b)
  <2>1. ExitReason(b) = "TIME_STOP"
    BY <1>5 DEF ExitReason
  <2>2. ~(b.adv <= stop') /\ ~(b.fav >= Target)
    BY <1>5 DEF StopHit, TargetHit
  <2>3. ExitPrice(b) = b.close
    BY <2>1 DEF ExitPrice
  <2>4. Target \in Int
    BY <1>1 DEF Target
  <2> QED
    BY <1>1, <2>1, <2>2, <2>3, <2>4 DEF Reasons
<1> QED
  BY <1>2, <1>3, <1>4, <1>5

-----------------------------------------------------------------------------
(* The bracket.                                                            *)

\* A result of a position that has m percent left and l locked, at price x,
\* for the three rungs.
LEMMA RungValues ==
  ASSUME NEW l, NEW m, NEW x \in Int, NEW s \in {-R, 0}, s <= x, x <= Target,
         \/ l = 0 /\ m = 100
         \/ l = 30 * R /\ m = 70
         \/ l = 70 * R /\ m = 50
  PROVE  /\ l + m * s \in Int /\ l + m * x \in Int /\ l + m * Target \in Int
         /\ -100 * R <= l + m * s
         /\ l + m * s <= l + m * x
         /\ l + m * x <= l + m * Target
         /\ l + m * Target <= 300 * R
         /\ l = 70 * R => l + m * s >= 0
         /\ s = 0 => l + m * s >= 0
<1>1. R \in Nat \ {0} /\ Target = 3 * R /\ (s = -R \/ s = 0)
  BY RiskAssumption DEF Target
<1>2. CASE l = 0 /\ m = 100
  BY <1>1, <1>2
<1>3. CASE l = 30 * R /\ m = 70
  BY <1>1, <1>3
<1>4. CASE l = 70 * R /\ m = 50
  BY <1>1, <1>4
<1> QED
  BY <1>2, <1>3, <1>4

\* The bracket is where PositionLifecycle wants it.
LEMMA BracketOrdered ==
  ASSUME Typed, BookedOnce
  PROVE  /\ Floor \in Int /\ Ceiling \in Int
         /\ -100 * R <= Floor /\ Floor <= Ceiling /\ Ceiling <= 300 * R
<1>1. R \in Nat \ {0} /\ stop \in {-R, 0} /\ stop \in Int /\ stop <= Target /\ Target \in Int
  BY RiskAssumption DEF Typed, Target
<1>2. \/ locked = 0 /\ remaining = 100
      \/ locked = 30 * R /\ remaining = 70
      \/ locked = 70 * R /\ remaining = 50
  BY Rungs DEF Typed
<1>3. /\ locked + remaining * stop \in Int /\ locked + remaining * Target \in Int
      /\ -100 * R <= locked + remaining * stop
      /\ locked + remaining * stop <= locked + remaining * Target
      /\ locked + remaining * Target <= 300 * R
  BY ONLY <1>1, <1>2, RungValues
<1> QED
  BY <1>1, <1>3 DEF Floor, Ceiling

\* Every evaluated bar narrows the bracket, and a bar that closes the
\* position closes it inside the narrowed one.
LEMMA BarNarrows ==
  ASSUME Ladder, NEW b \in Bars, EvaluateBar(b)
  PROVE  /\ BookedOnce' /\ Typed'
         /\ Floor <= Floor' /\ Floor' <= Ceiling' /\ Ceiling' <= Ceiling
         /\ Floor' \in Int /\ Ceiling' \in Int
         /\ status' # "open" => Floor' <= pnl' /\ pnl' <= Ceiling'
         /\ sized /\ "2R" \in taken' => Floor' >= 0
         /\ sized /\ stop' = 0 => Floor' >= 0
<1>1. /\ status = "open" /\ Typed /\ BookedOnce /\ InHand /\ sized' = sized
      /\ PartialExits(b) /\ UpdateTrailingStop(b) /\ status' = ExitReason(b)
  BY DEF EvaluateBar, Ladder
<1>2. R \in Nat \ {0} /\ Target = 3 * R /\ Target \in Int
  BY RiskAssumption DEF Target
<1>3. stop' \in {-R, 0} /\ (stop = 0 => stop' = 0) /\ (stop' # stop => sized)
  BY <1>1, <1>2 DEF EvaluateBar, Breakeven, Stalled, Typed
<1>4. /\ taken' \subseteq {"1R", "2R"} /\ BookedOnce' /\ taken \subseteq taken'
      /\ stop = 0 \/ ~sized => taken' = taken /\ locked' = locked /\ remaining' = remaining
  BY <1>1, PartialsBooked
<1>5. \/ locked = 0 /\ remaining = 100 /\ "1R" \notin taken /\ "2R" \notin taken
      \/ locked = 30 * R /\ remaining = 70 /\ "1R" \in taken /\ "2R" \notin taken
      \/ locked = 70 * R /\ remaining = 50 /\ "1R" \in taken /\ "2R" \in taken
  BY <1>1, Rungs DEF Typed
<1>6. \/ locked' = 0 /\ remaining' = 100 /\ "1R" \notin taken' /\ "2R" \notin taken'
      \/ locked' = 30 * R /\ remaining' = 70 /\ "1R" \in taken' /\ "2R" \notin taken'
      \/ locked' = 70 * R /\ remaining' = 50 /\ "1R" \in taken' /\ "2R" \in taken'
  BY <1>2, <1>4 DEF BookedOnce
<1>7. status' # "open" => /\ ExitReason(b) \in Reasons
                          /\ ExitPrice(b) \in Int
                          /\ ExitPrice(b) >= stop' /\ ExitPrice(b) <= Target
  BY <1>1, <1>3, ExitPriceBracketed
<1>8. ASSUME NEW x \in Int, stop' <= x, x <= Target
      PROVE  /\ locked' + remaining' * stop' \in Int
             /\ locked' + remaining' * x \in Int
             /\ locked' + remaining' * Target \in Int
             /\ locked' + remaining' * stop' <= locked' + remaining' * x
             /\ locked' + remaining' * x <= locked' + remaining' * Target
             /\ locked' = 70 * R => locked' + remaining' * stop' >= 0
             /\ stop' = 0 => locked' + remaining' * stop' >= 0
  <2>1. \A l, m : \A s \in {-R, 0} :
          /\ s <= x
          /\ \/ l = 0 /\ m = 100
             \/ l = 30 * R /\ m = 70
             \/ l = 70 * R /\ m = 50
          => /\ l + m * s \in Int /\ l + m * x \in Int /\ l + m * Target \in Int
             /\ l + m * s <= l + m * x /\ l + m * x <= l + m * Target
             /\ l = 70 * R => l + m * s >= 0
             /\ s = 0 => l + m * s >= 0
    BY <1>8, RungValues
  <2> QED
    BY ONLY <1>3, <1>6, <1>8, <2>1
<1>9. /\ locked + remaining * stop <= locked' + remaining' * stop'
      /\ locked' + remaining' * Target <= locked + remaining * Target
  <2>1. CASE stop = 0
    BY <1>2, <1>3, <1>4, <1>5, <2>1
  <2>2. CASE stop = -R
    <3>1. "1R" \in taken => "1R" \in taken'
      BY <1>4
    <3>2. "2R" \in taken => "2R" \in taken'
      BY <1>4
    <3>3. stop' = -R \/ stop' = 0
      BY <1>3
    <3> QED
      BY ONLY <1>2, <1>5, <1>6, <2>2, <3>1, <3>2, <3>3
  <2> QED
    BY <1>1, <2>1, <2>2 DEF Typed
<1>10. sized' = sized /\ (sized = TRUE \/ sized = FALSE)
  BY <1>1 DEF Typed
<1>11. stop' <= stop' /\ Target <= Target /\ stop' \in Int /\ stop' <= Target
  BY <1>2, <1>3
<1>12. /\ Floor <= Floor' /\ Floor' <= Ceiling' /\ Ceiling' <= Ceiling
       /\ Floor' \in Int /\ Ceiling' \in Int
  <2>1. CASE sized
    <3>1. /\ Floor = locked + remaining * stop
          /\ Ceiling = locked + remaining * Target
          /\ Floor' = locked' + remaining' * stop'
          /\ Ceiling' = locked' + remaining' * Target
      BY <1>10, <2>1 DEF Floor, Ceiling, Target
    <3>2. /\ Floor' \in Int /\ Ceiling' \in Int /\ Floor' <= Ceiling'
      BY ONLY <1>2, <1>8, <1>11, <3>1
    <3> QED
      BY ONLY <1>9, <3>1, <3>2
  <2>2. CASE ~sized
    BY <1>10, <2>2 DEF Floor, Ceiling
  <2> QED
    BY <2>1, <2>2
<1>13. ASSUME status' # "open"
       PROVE  Floor' <= pnl' /\ pnl' <= Ceiling'
  <2>1. pnl' = Pnl(ExitPrice(b))
    BY <1>13 DEF EvaluateBar
  <2>2. CASE sized
    <3>1. /\ pnl' = locked' + remaining' * ExitPrice(b)
          /\ Floor' = locked' + remaining' * stop'
          /\ Ceiling' = locked' + remaining' * Target
      BY <1>10, <2>1, <2>2 DEF Pnl, Floor, Ceiling, Target
    <3> QED
      BY <1>7, <1>8, <1>13, <3>1
  <2>3. CASE ~sized
    BY <1>10, <2>1, <2>3 DEF Pnl, Floor, Ceiling
  <2> QED
    BY <2>2, <2>3
<1>14. /\ sized /\ "2R" \in taken' => Floor' >= 0
       /\ sized /\ stop' = 0 => Floor' >= 0
  <2>1. sized => Floor' = locked' + remaining' * stop'
    BY <1>10 DEF Floor
  <2>2. /\ locked' = 70 * R => locked' + remaining' * stop' >= 0
        /\ stop' = 0 => locked' + remaining' * stop' >= 0
    BY ONLY <1>8, <1>11
  <2> QED
    BY ONLY <1>6, <2>1, <2>2
<1>15. Typed'
  <2>1. status' \in Reasons \cup {"open"}
    BY <1>1, <1>7
  <2>2. trail' \in Int \cup {NoTrail}
    BY <1>1, TrailBelowTarget
  <2>3. barsHeld' \in 0..MaxBars
    <3>1. ~TimeUp => barsHeld < MaxBars
      BY <1>1, BarsAssumption DEF TimeUp, Typed
    <3>2. status' = "open" => ~TimeUp
      BY <1>1 DEF ExitReason
    <3> QED
      BY <1>1, <3>1, <3>2, BarsAssumption DEF EvaluateBar, Counted, Typed
  <2>4. best' \in Int
    BY <1>1, BarTyped DEF EvaluateBar, Typed
  <2>5. pnl' \in Int
    <3>1. CASE status' = "open"
      BY <1>1, <3>1 DEF EvaluateBar, Typed
    <3>2. CASE status' # "open"
      <4>1. pnl' = Pnl(ExitPrice(b))
        BY <3>2 DEF EvaluateBar
      <4>2. locked' + remaining' * ExitPrice(b) \in Int
        BY <1>7, <1>8, <3>2
      <4> QED
        BY <4>1, <4>2 DEF Pnl
    <3> QED
      BY <3>1, <3>2
  <2> QED
    BY <1>1, <1>3, <1>4, <1>10, <2>1, <2>2, <2>3, <2>4, <2>5 DEF Typed
<1> QED
  BY <1>4, <1>12, <1>13, <1>14, <1>15

-----------------------------------------------------------------------------
(* The invariant.                                                          *)

LEMMA InitLadder == Init => Ladder
<1> SUFFICES ASSUME Init PROVE Ladder
  OBVIOUS
<1>1. R \in Nat \ {0} /\ 0 \in 0..MaxBars
  BY RiskAssumption, BarsAssumption
<1>2. Typed
  BY <1>1 DEF Init, Typed
<1>3. BookedOnce
  BY DEF Init, BookedOnce
<1>4. InHand
  BY <1>1, TrailAssumption DEF Init, InHand
<1>5. Settled
  BY DEF Init, Settled
<1> QED
  BY <1>2, <1>3, <1>4, <1>5 DEF Ladder

LEMMA EntryBarKeepsLadder == Ladder /\ EntryBar => Ladder'
<1> SUFFICES ASSUME Ladder, EntryBar PROVE Ladder'
  OBVIOUS
<1>1. barsHeld' \in 0..MaxBars
  BY BarsAssumption DEF EntryBar, IsEntryBar, Counted
<1>2. Typed' /\ BookedOnce'
  BY <1>1 DEF EntryBar, Ladder, Typed, BookedOnce
<1>3. InHand' /\ Settled'
  BY DEF EntryBar, Ladder, InHand, Settled
<1> QED
  BY <1>2, <1>3 DEF Ladder

LEMMA EvaluateBarKeepsLadder ==
  ASSUME Ladder, NEW b \in Bars, EvaluateBar(b)
  PROVE  Ladder'
<1>1. /\ status = "open" /\ Typed /\ BookedOnce /\ InHand /\ sized' = sized
      /\ PartialExits(b) /\ UpdateTrailingStop(b) /\ Breakeven(b) /\ status' = ExitReason(b)
  BY DEF EvaluateBar, Ladder
<1>2. R \in Nat \ {0}
  BY RiskAssumption
<1>3. BookedOnce' /\ Typed'
  BY BarNarrows
\* The partials at +2R are booked before the checks.
<1>4. sized' /\ best' >= 2 * R => "2R" \in taken' \/ stop' = 0
  <2>1. CASE stop = 0
    BY <1>1, <1>2, <2>1 DEF Breakeven
  <2>2. CASE stop # 0 /\ best >= 2 * R
    <3>1. sized => "2R" \in taken
      BY <1>1, <2>2 DEF InHand
    <3> QED
      BY <1>1, <3>1, PartialsBooked
  <2>3. CASE stop # 0 /\ ~(best >= 2 * R)
    <3>1. best' >= 2 * R => b.fav >= 2 * R
      BY <1>1, <1>2, <2>3, BarTyped DEF EvaluateBar, Typed
    <3>2. stop = -R
      BY <1>1, <2>3 DEF Typed
    <3> QED
      BY <1>1, <3>1, <3>2, PartialsBooked
  <2> QED
    BY <2>1, <2>2, <2>3
<1>5. InHand'
  <2> SUFFICES ASSUME status' = "open"
               PROVE  /\ pnl' = 0
                      /\ trail' # NoTrail => trail' < Target
                      /\ sized' /\ best' >= 2 * R => "2R" \in taken' \/ stop' = 0
    BY DEF InHand, Target
  <2>1. pnl' = 0
    BY <1>1 DEF EvaluateBar, InHand
  <2>2. ~TargetHit(b)
    BY <1>1 DEF ExitReason
  <2> QED
    BY <1>1, <1>4, <2>1, <2>2, TrailBelowTarget
<1>6. Settled'
  <2> SUFFICES ASSUME status' # "open"
               PROVE  /\ pnl' >= -100 * R /\ pnl' <= 300 * R
                      /\ sized' /\ best' >= 2 * R => pnl' >= 0
    BY DEF Settled
  <2>1. /\ Floor' <= pnl' /\ pnl' <= Ceiling' /\ Floor <= Floor' /\ Ceiling' <= Ceiling
        /\ Floor' \in Int /\ Ceiling' \in Int /\ pnl' \in Int
        /\ sized /\ "2R" \in taken' => Floor' >= 0
        /\ sized /\ stop' = 0 => Floor' >= 0
    BY <1>3, BarNarrows DEF Typed
  <2>2. /\ Floor \in Int /\ Ceiling \in Int
        /\ -100 * R <= Floor /\ Ceiling <= 300 * R
    BY <1>1, BracketOrdered
  <2>3. pnl' >= -100 * R /\ pnl' <= 300 * R
    BY ONLY <1>2, <2>1, <2>2
  <2>4. sized' /\ best' >= 2 * R => Floor' >= 0
    BY <1>1, <1>4, <2>1
  <2>5. Floor' >= 0 => pnl' >= 0
    BY ONLY <2>1
  <2> QED
    BY <2>3, <2>4, <2>5
<1> QED
  BY <1>3, <1>5, <1>6 DEF Ladder

\* The exit monitor keeps the invariant for ever.
THEOREM LadderInvariant == Spec => []Ladder
<1>1. Init => Ladder
  BY InitLadder
<1>2. Ladder /\ [Next]_vars => Ladder'
  <2> SUFFICES ASSUME Ladder, [Next]_vars PROVE Ladder'
    OBVIOUS
  <2>1. CASE EntryBar
    BY <2>1, EntryBarKeepsLadder
  <2>2. CASE \E b \in Bars : EvaluateBar(b)
    BY <2>2, EvaluateBarKeepsLadder
  <2>3. CASE UNCHANGED vars
    BY <2>3 DEF vars, Ladder, Typed, BookedOnce, InHand, Settled
  <2> QED
    BY <2>1, <2>2, <2>3 DEF Next, Gone
<1> QED
  BY <1>1, <1>2, PTL DEF Spec

-----------------------------------------------------------------------------
(* What it shows.                                                          *)

\* The result of every position lies between -R and +3R, which is what the
\* risk gate's loss budget assumes of it (_compute_pnl, group.py:484-511).
THEOREM ResultWithinR == Spec => []PnlWithinR
<1>1. Ladder => PnlWithinR
  <2>1. R \in Nat \ {0}
    BY RiskAssumption
  <2>2. 0 >= -100 * R /\ 0 <= 300 * R
    BY <2>1
  <2> QED
    BY <2>2 DEF Ladder, InHand, Settled, PnlWithinR
<1> QED
  BY <1>1, LadderInvariant, PTL

\* A position that has traded at +2R never closes at a loss: partials are
\* booked before the checks (_evaluate_position, group.py:156-244).
THEOREM WinnersStayWinners == Spec => []ReachedTwoRNeverLoses
<1>1. Ladder => ReachedTwoRNeverLoses
  BY DEF Ladder, InHand, Settled, ReachedTwoRNeverLoses
<1> QED
  BY <1>1, LadderInvariant, PTL

\* Every partial is booked once and at its own level (group.py:246-334).
THEOREM PartialsBookedOnce == Spec => []BookedOnce
<1>1. Ladder => BookedOnce
  BY DEF Ladder
<1> QED
  BY <1>1, LadderInvariant, PTL

\* The ladder implements the narrowing bracket: no bar, whatever its prices,
\* lowers the worst or raises the best result the position can still have,
\* and it closes inside the two, within MaxBars bars.
THEOREM LadderImplementsLifecycle == Spec => ImplementsLifecycle
<1>1. Init => Lifecycle!Init
  <2> SUFFICES ASSUME Init PROVE Lifecycle!Init
    OBVIOUS
  <2>1. Typed /\ BookedOnce
    BY InitLadder DEF Ladder
  <2>2. R \in Nat \ {0}
    BY RiskAssumption
  <2>3. /\ Floor \in Int /\ Ceiling \in Int
        /\ -100 * R <= Floor /\ Floor <= Ceiling /\ Ceiling <= 300 * R
    BY <2>1, BracketOrdered
  <2>4. Floor \in (-100 * R)..(300 * R) /\ Ceiling \in Floor..(300 * R)
    BY ONLY <2>2, <2>3
  <2> QED
    BY <2>4 DEF Init, Lifecycle!Init
<1>2. Ladder /\ [Next]_vars => [Lifecycle!Next]_(Lifecycle!vars)
  <2> SUFFICES ASSUME Ladder, [Next]_vars PROVE [Lifecycle!Next]_(Lifecycle!vars)
    OBVIOUS
  <2>1. /\ Floor \in Int /\ Ceiling \in Int /\ Floor <= Ceiling
    BY BracketOrdered DEF Ladder
  <2>2. CASE EntryBar
    <3>1. Floor' = Floor /\ Ceiling' = Ceiling
      BY <2>2 DEF EntryBar, Floor, Ceiling, Target
    <3>2. Lifecycle!Narrows
      BY <2>1, <3>1 DEF Lifecycle!Narrows
    <3>3. status = "open" /\ status' = "open" /\ barsHeld < MaxBars /\ barsHeld' = barsHeld + 1
      BY <2>2, BarsAssumption DEF EntryBar, IsEntryBar, Counted
    <3>4. Lifecycle!Hold
      BY <2>2, <3>2, <3>3 DEF EntryBar, Lifecycle!Hold
    <3> QED
      BY <3>4 DEF Lifecycle!Next
  <2>3. ASSUME NEW b \in Bars, EvaluateBar(b)
        PROVE  Lifecycle!Next
    <3>1. /\ Floor <= Floor' /\ Floor' <= Ceiling' /\ Ceiling' <= Ceiling
          /\ Floor' \in Int /\ Ceiling' \in Int
          /\ status' # "open" => Floor' <= pnl' /\ pnl' <= Ceiling'
          /\ Typed'
      BY <2>3, BarNarrows
    <3>2. Lifecycle!Narrows
      BY <2>1, <3>1 DEF Lifecycle!Narrows
    <3>3. status = "open" /\ status' = ExitReason(b)
      BY <2>3 DEF EvaluateBar
    <3>4. CASE status' = "open"
      <4>1. ~TimeUp
        BY <3>3, <3>4 DEF ExitReason
      <4>2. barsHeld < MaxBars
        BY <4>1, BarsAssumption DEF TimeUp, Ladder, Typed
      <4>3. barsHeld' = barsHeld + 1 /\ pnl' = pnl
        BY <2>3, <3>4 DEF EvaluateBar, Counted
      <4>4. Lifecycle!Hold
        BY <3>2, <3>3, <3>4, <4>2, <4>3 DEF Lifecycle!Hold
      <4> QED
        BY <4>4 DEF Lifecycle!Next
    <3>5. CASE status' # "open"
      <4>1. pnl' \in Floor'..Ceiling'
        BY <3>1, <3>5 DEF Typed
      <4>2. barsHeld' = barsHeld
        BY <2>3, <3>5 DEF EvaluateBar
      <4>3. Lifecycle!Close
        BY <3>2, <3>3, <3>5, <4>1, <4>2 DEF Lifecycle!Close
      <4> QED
        BY <4>3 DEF Lifecycle!Next
    <3> QED
      BY <3>4, <3>5
  <2>4. CASE UNCHANGED vars
    <3>1. UNCHANGED Lifecycle!vars
      BY <2>4 DEF vars, Lifecycle!vars, Floor, Ceiling, Target
    <3> QED
      BY <3>1
  <2> QED
    BY <2>2, <2>3, <2>4 DEF Next, Gone
<1>3. Spec => Lifecycle!Init /\ [][Lifecycle!Next]_(Lifecycle!vars)
  BY <1>1, <1>2, LadderInvariant, PTL DEF Spec
<1> QED
  BY <1>3 DEF ImplementsLifecycle, Lifecycle!Spec

-----------------------------------------------------------------------------
(* The way in.                                                             *)
(*                                                                         *)
(* What every packet has in common, whatever the bar and the caches: the   *)
(* reward is twice the risk or there is neither, a trend is where a short  *)
(* may come from, and a pattern has a level only once it is confirmed.     *)
Measured(p) == p.adx \in Int /\ p.rsi \in Int /\ p.vol \in Int /\ p.bbw \in Int /\ p.terms.stopPct \in Int
               /\ p.atr \in Int /\ p.atrSma \in Int
Termed(p) ==
  /\ p.terms.rr \in {0, 20}
  /\ p.terms.rr = 0 => p.terms.stopPct = 0
  /\ p.terms.quality \in {"A", "B", "C", "invalid"}
  /\ p.terms.leverage \in Int /\ p.terms.leverage <= 30
Aimed(p) ==
  /\ p.dir \in {"long", "short"}
  /\ Long(p) => p.regime.macro # "bear"
  /\ ~Long(p) => p.adx > 30
  /\ p.regime.trending = (p.adx > 25)
  /\ p.regime.macro = "bull" => p.ema \in {"full_bull", "partial_bull"}
Classified(p) ==
  /\ p.volume = VolumeCharacter(p)
  /\ p.volatility = Volatility(p)
  /\ ~(AtrAbove(p, 15) /\ AtrBelow(p, 7))
Charted(p) ==
  /\ p.chart.confirmed \in BOOLEAN
  /\ p.chart.target <=> p.chart.confirmed
  /\ p.chart.contributed <=> p.chart.confirmed \/ p.chart.active
  /\ ~p.chart.confirmed => p.chart.level = 0
  /\ p.levels.quality \in {"none", "weak", "moderate"}
Sound(p) == Measured(p) /\ Termed(p) /\ Aimed(p) /\ Classified(p) /\ Charted(p)

(* The vote of a seat and the score that enters the total.                 *)
Approves(p, t) == Vote(t, Scores(p)[t], p) = "approve"
ScoreIs(p, t, c) == Clamped(Scores(p)[t]) = c

LEMMA MinOf ==
  ASSUME NEW a \in Int, NEW b \in Int
  PROVE  Min({a, b}) = IF a <= b THEN a ELSE b
  BY DEF Min

LEMMA MaxOf ==
  ASSUME NEW a \in Int, NEW b \in Int
  PROVE  Max({a, b}) = IF a >= b THEN a ELSE b
  BY DEF Max

LEMMA ClampedIs ==
  ASSUME NEW s \in Int
  PROVE  Clamped(s) = IF s > 100 THEN 100 ELSE IF s < 10 THEN 10 ELSE s
<1>1. Min({100, s}) = IF s >= 100 THEN 100 ELSE s  BY MinOf
<1> QED  BY <1>1, MaxOf DEF Clamped

LEMMA SeatScore ==
  ASSUME NEW p, NEW t, NEW s \in Int, Scores(p)[t] = s
  PROVE  /\ \E c \in Int : ScoreIs(p, t, c) /\ c = IF s > 100 THEN 100 ELSE IF s < 10 THEN 10 ELSE s
         /\ t \notin {"Candlestick", "RiskParity", "DrawdownRisk", "LeverageSpecialist"}
              => (Approves(p, t) <=> s >= 60)
<1>1. \E c \in Int : ScoreIs(p, t, c) /\ c = IF s > 100 THEN 100 ELSE IF s < 10 THEN 10 ELSE s
  BY ClampedIs DEF ScoreIs
<1>2. t \notin {"Candlestick", "RiskParity", "DrawdownRisk", "LeverageSpecialist"}
       => (Approves(p, t) <=> s >= 60)
  BY DEF Approves, Vote, ByScore
<1> QED  BY <1>1, <1>2

(* The situations the evaluators tell apart.                               *)
Trending(p) == p.adx > 25
Thin(p) == p.vol < 8
Brisk(p) == p.vol > 12
Heavy(p) == p.vol > 15
Stretched(p) == IF Long(p) THEN p.rsi < 40 ELSE p.rsi > 65
Carried(p) == RsiAligned(p) /\ (IF Long(p) THEN p.rsi < 70 ELSE p.rsi > 30)
Exhausted(p) == IF Long(p) THEN p.rsi > 80 ELSE p.rsi < 20
Wild(p) == AtrAbove(p, 15)
Calm(p) == AtrBelow(p, 7)
Paid(p) == p.terms.rr = 20
Invalid(p) == p.terms.quality = "invalid"
Tight(p) == p.terms.stopPct < 50
Wide(p) == p.terms.stopPct > 500

(* What each seat gives: the least its score c can be, and what holds of   *)
(* the packet when it approves.  These are the facts the sum of the scores *)
(* rests on, not all that is true.                                         *)

TrendFollowingGives(p, c) ==
  /\ c >= 15
  /\ Approves(p, "TrendFollowing") =>
       c >= 60 /\ (EmaAligned(p) \/ (Trending(p) /\ TrendAgrees(p))) /\ ~MacroOpposes(p)

LEMMA TrendFollowingSeat ==
  ASSUME NEW p, Sound(p)
  PROVE  \E c \in Int : ScoreIs(p, "TrendFollowing", c) /\ TrendFollowingGives(p, c)
<1>0. p.adx \in Int  BY DEF Sound, Measured
<1> DEFINE s == TrendFollowing(p)
<1>1. Scores(p)["TrendFollowing"] = s  BY DEF Scores
<1> DEFINE aligned == EmaAligned(p)
           ema == CASE EmaFull(p) -> 25
                    [] aligned /\ ~EmaFull(p) -> 15
                    [] p.ema = "mixed" -> -15
                    [] OTHER -> -25
<1>2. ema \in {25, 15, -15, -25} /\ (~aligned => ema <= -15)
  BY DEF EmaFull, EmaAligned
<1>3. MacroOpposes(p) => ~aligned /\ ema = -25 /\ p.adx > 30
  BY DEF Sound, Aimed, MacroOpposes, Long, EmaFull, EmaAligned
<1>4. s = 50 + ema
     + Pts(p.adx > 30, 20) + Pts(p.adx \in 26..30, 15) - Pts(p.adx < 15, 5)
     - Pts(~aligned /\ p.adx > 30, 5)
     + (IF TrendAgrees(p) THEN 10 ELSE -5)
     + Pts(SwingsAgree(p), 5)
  BY DEF TrendFollowing
<1> HIDE DEF aligned, ema, s
<1>5. s \in Int /\ s >= 15 /\ (s >= 60 => aligned \/ (Trending(p) /\ TrendAgrees(p)))
     /\ (s >= 60 => ~MacroOpposes(p))
  BY <1>0, <1>2, <1>3, <1>4 DEF Pts, Trending
<1> QED  BY <1>1, <1>5, SeatScore DEF aligned, TrendFollowingGives

MomentumGives(p, c) ==
  /\ c >= 15
  /\ Approves(p, "Momentum") =>
       /\ c >= 60 /\ ~Exhausted(p)
       /\ Long(p) /\ Stretched(p) /\ ~Trending(p) => Brisk(p) /\ (Carried(p) \/ Heavy(p))
       /\ Trending(p) /\ ~Brisk(p) /\ ~Thin(p) /\ ~Carried(p) => c >= 65
  /\ ~Thin(p) => c >= 25

LEMMA MomentumSeat ==
  ASSUME NEW p, Sound(p)
  PROVE  \E c \in Int : ScoreIs(p, "Momentum", c) /\ MomentumGives(p, c)
<1>0. p.adx \in Int /\ p.rsi \in Int /\ p.vol \in Int  BY DEF Sound, Measured
<1> DEFINE s == MomentumTrader(p)
<1>1. Scores(p)["Momentum"] = s  BY DEF Scores
<1>2. s \in Int /\ s >= 15 /\ (~Thin(p) => s >= 25)
  BY <1>0 DEF MomentumTrader, Pts, Sweet, Thin
<1>3. s >= 60 =>
                /\ ~Exhausted(p)
                /\ Long(p) /\ Stretched(p) /\ ~Trending(p) => Brisk(p) /\ (Carried(p) \/ Heavy(p))
                /\ Trending(p) /\ ~Brisk(p) /\ ~Thin(p) /\ ~Carried(p) => s >= 65
  BY <1>0 DEF MomentumTrader, Pts, Sweet, Thin, Exhausted, Stretched, Trending, Brisk, Carried, Heavy,
       RsiAligned
<1> HIDE DEF s
<1> QED  BY <1>1, <1>2, <1>3, SeatScore DEF MomentumGives

MeanReversionGives(p, c) ==
  /\ c >= 30 /\ (Trending(p) => c >= 55)
  /\ Approves(p, "MeanReversion") =>
       c >= 60 /\ ~Trending(p) /\ AtLevel(p) /\ Stretched(p) /\ ~Exhausted(p)

LEMMA MeanReversionSeat ==
  ASSUME NEW p, Sound(p)
  PROVE  \E c \in Int : ScoreIs(p, "MeanReversion", c) /\ MeanReversionGives(p, c)
<1>0. p.adx \in Int /\ p.rsi \in Int  BY DEF Sound, Measured
<1> DEFINE s == MeanReversion(p)
<1>1. Scores(p)["MeanReversion"] = s  BY DEF Scores
<1>2. /\ s \in {55, 80, 60, 30} /\ (Trending(p) => s = 55)
      /\ s >= 60 => ~Trending(p) /\ AtLevel(p) /\ Stretched(p)
  BY <1>0 DEF MeanReversion, Trending, Stretched
<1>3. Stretched(p) => ~Exhausted(p)
  BY <1>0 DEF Stretched, Exhausted
<1> HIDE DEF s
<1> QED  BY <1>1, <1>2, <1>3, SeatScore DEF MeanReversionGives

BreakoutGives(p, c) ==
  /\ c >= 20
  /\ Approves(p, "Breakout") => c >= 60 /\ ~Thin(p)

LEMMA BreakoutSeat ==
  ASSUME NEW p, Sound(p)
  PROVE  \E c \in Int : ScoreIs(p, "Breakout", c) /\ BreakoutGives(p, c)
<1>0. p.vol \in Int /\ p.bbw \in Int  BY DEF Sound, Measured
<1> DEFINE s == Breakout(p)
           confirmed == p.chart.confirmed
           near == p.chart.level > 0 /\ 1000 * Abs(p.entry - p.chart.level) < 5 * p.chart.level
           far == p.chart.level > 0 /\ 1000 * Abs(p.entry - p.chart.level) > 20 * p.chart.level
           reach == CASE confirmed /\ p.vol > 15 -> 80 [] confirmed /\ p.vol \in 12..15 -> 65
                      [] confirmed /\ p.vol < 12 -> 40 [] OTHER -> 50
<1>1. Scores(p)["Breakout"] = s  BY DEF Scores
<1>2. (near \/ far) => confirmed
  BY DEF Sound, Charted
<1>3. s = reach - Pts(p.vol < 12, 10) + Pts(near, 10) - Pts(far, 10) + Pts(p.bbw < 15, 10)
     + Pts(p.bbw \in 15..19, 5)
  BY DEF Breakout
<1>4. /\ reach \in {80, 65, 40, 50} /\ (confirmed <=> reach # 50) /\ (Thin(p) => reach <= 50)
      /\ p.vol >= 12 => reach # 40
  BY <1>0 DEF Sound, Charted, Thin
<1> HIDE DEF s, confirmed, near, far, reach
<1>5. s \in Int /\ s >= 20 /\ (s >= 60 => ~Thin(p))
  BY <1>0, <1>2, <1>3, <1>4 DEF Pts, Thin
<1> QED  BY <1>1, <1>5, SeatScore DEF BreakoutGives

StructureGives(p, c) ==
  /\ c >= 35
  /\ Approves(p, "Structure") => c >= 65

LEMMA StructureSeat ==
  ASSUME NEW p, Sound(p)
  PROVE  \E c \in Int : ScoreIs(p, "Structure", c) /\ StructureGives(p, c)
<1> DEFINE s == Structure(p)
<1>1. Scores(p)["Structure"] = s  BY DEF Scores
<1>2. s \in Int /\ s >= 35 /\ (s >= 60 => s >= 65)
  BY DEF Sound, Charted, Structure, Pts
<1> HIDE DEF s
<1> QED  BY <1>1, <1>2, SeatScore DEF StructureGives

CandlestickGives(p, c) ==
  /\ c >= 35
  /\ Approves(p, "Candlestick") => c >= 70

LEMMA CandlestickSeat ==
  ASSUME NEW p, Sound(p)
  PROVE  \E c \in Int : ScoreIs(p, "Candlestick", c) /\ CandlestickGives(p, c)
<1> DEFINE s == Candlestick(p)
<1>1. Scores(p)["Candlestick"] = s  BY DEF Scores
<1>2. s \in Int /\ s >= 35 /\ (s >= 60 => s >= 70)
  BY DEF Candlestick, Pts
<1> HIDE DEF s
<1>3. Approves(p, "Candlestick") => s >= 60
  BY <1>1, <1>2 DEF Approves, Vote, ByScore
<1> QED  BY <1>1, <1>2, <1>3, SeatScore DEF CandlestickGives

RiskParityGives(p, c) ==
  /\ c >= 20 /\ (Paid(p) => c >= 55) /\ (Paid(p) /\ ~Wide(p) /\ ~Tight(p) => c >= 70)
  /\ Approves(p, "RiskParity") => Paid(p)

LEMMA RiskParitySeat ==
  ASSUME NEW p, Sound(p)
  PROVE  \E c \in Int : ScoreIs(p, "RiskParity", c) /\ RiskParityGives(p, c)
<1>0. p.terms.stopPct \in Int /\ p.terms.rr \in {0, 20} /\ (p.terms.rr = 0 => p.terms.stopPct = 0)
  BY DEF Sound, Measured, Termed
<1> DEFINE s == RiskParity(p)
<1>1. Scores(p)["RiskParity"] = s  BY DEF Scores
<1>2. Min({90, 30 + 2 * p.terms.rr}) = 30 + 2 * p.terms.rr
  BY <1>0, MinOf
<1>3. s \in Int /\ s >= 20 /\ (Paid(p) => s >= 55) /\ (Paid(p) /\ ~Wide(p) /\ ~Tight(p) => s >= 70) /\ s <= 100
  BY <1>0, <1>2 DEF RiskParity, Pts, Paid, Wide, Tight
<1>4. Approves(p, "RiskParity") => Paid(p)
  BY <1>0 DEF Approves, Vote, Paid
<1> HIDE DEF s
<1> QED  BY <1>1, <1>3, <1>4, SeatScore DEF RiskParityGives

VolatilityGives(p, c) ==
  /\ c >= 20
  /\ Approves(p, "Volatility") <=> ~Wild(p) /\ ~Calm(p)
  /\ Approves(p, "Volatility") => c >= 70

LEMMA VolatilitySeat ==
  ASSUME NEW p, Sound(p)
  PROVE  \E c \in Int : ScoreIs(p, "Volatility", c) /\ VolatilityGives(p, c)
<1>0. p.terms.stopPct \in Int /\ p.volatility = Volatility(p) /\ ~(Wild(p) /\ Calm(p))
  BY DEF Sound, Measured, Classified, Wild, Calm
<1> DEFINE s == VolatilityTrader(p)
<1>1. Scores(p)["Volatility"] = s  BY DEF Scores
<1>2. p.volatility = IF Wild(p) THEN "high" ELSE IF Calm(p) THEN "low" ELSE "normal"
  BY <1>0 DEF Volatility, Wild, Calm
<1>3. s = (IF p.volatility = "normal" THEN 70 ELSE 50)
           - Pts(p.volatility = "high", IF p.terms.stopPct < 150 THEN 20 ELSE 10)
           - Pts(p.volatility = "low" /\ Calm(p), 10) - Pts(Wild(p), 10)
  BY DEF VolatilityTrader, Wild, Calm
<1> HIDE DEF s
<1>4. s \in Int /\ s >= 20 /\ (s >= 60 <=> ~Wild(p) /\ ~Calm(p)) /\ (s >= 60 => s >= 70)
  BY <1>0, <1>2, <1>3 DEF Pts
<1> QED  BY <1>1, <1>4, SeatScore DEF VolatilityGives

VolumeProfileGives(p, c) ==
  /\ c >= 10 /\ (Brisk(p) => c >= 70) /\ (Heavy(p) => c >= 80)
  /\ Approves(p, "VolumeProfile") => c >= 60 /\ ~Thin(p)

LEMMA VolumeProfileSeat ==
  ASSUME NEW p, Sound(p)
  PROVE  \E c \in Int : ScoreIs(p, "VolumeProfile", c) /\ VolumeProfileGives(p, c)
<1>0. p.vol \in Int /\ p.volume = VolumeCharacter(p)  BY DEF Sound, Measured, Classified
<1> DEFINE s == VolumeProfile(p)
           sum == 50 + Pts(p.vol > 15, 20) + Pts(p.vol \in 13..15, 10) - Pts(p.vol < 8, 20)
                  + Pts(p.volume = "surge", 30) + Pts(p.volume = "above_avg", 10)
                  - Pts(p.volume = "below_avg", 20)
<1>1. Scores(p)["VolumeProfile"] = s  BY DEF Scores
<1>2. /\ sum \in Int /\ sum >= 10
      /\ (Brisk(p) => sum >= 70) /\ (Heavy(p) => sum >= 80) /\ (Thin(p) => sum = 10)
  BY <1>0 DEF Pts, VolumeCharacter, Brisk, Heavy, Thin
<1>3. s = Min({100, sum})  BY DEF VolumeProfile
<1> HIDE DEF s, sum
<1>4. s = IF sum >= 100 THEN 100 ELSE sum  BY <1>2, <1>3, MinOf
<1> QED  BY <1>1, <1>2, <1>4, SeatScore DEF VolumeProfileGives

MacroRegimeGives(p, c) ==
  /\ (MacroAgrees(p) => c >= 80) /\ (MacroOpposes(p) => c >= 40) /\ (~MacroOpposes(p) => c >= 50)
  /\ Approves(p, "MacroRegime") => c >= 60 /\ ~MacroOpposes(p) /\ (MacroAgrees(p) \/ Trending(p))

LEMMA MacroRegimeSeat ==
  ASSUME NEW p, Sound(p)
  PROVE  \E c \in Int : ScoreIs(p, "MacroRegime", c) /\ MacroRegimeGives(p, c)
<1>0. (Long(p) => p.regime.macro # "bear") /\ p.regime.trending = Trending(p)
  BY DEF Sound, Aimed, Trending
<1> DEFINE s == MacroRegime(p)
<1>1. Scores(p)["MacroRegime"] = s  BY DEF Scores
<1>2. s = 50 + Pts(MacroAgrees(p), 30) - Pts(MacroOpposes(p), IF Long(p) THEN 30 ELSE 20) + Pts(Trending(p), 10)
  BY <1>0 DEF MacroRegime
<1>3. ~(MacroAgrees(p) /\ MacroOpposes(p)) /\ (MacroOpposes(p) => ~Long(p))
  BY <1>0 DEF MacroAgrees, MacroOpposes
<1> HIDE DEF s
<1>4. /\ s \in Int
      /\ (MacroAgrees(p) => s >= 80) /\ (MacroOpposes(p) => s \in 30..40) /\ (~MacroOpposes(p) => s >= 50)
      /\ s >= 60 => MacroAgrees(p) \/ Trending(p)
  BY <1>2, <1>3 DEF Pts
<1>5. MacroOpposes(p) => Trending(p)
  BY <1>3 DEF Sound, Measured, Aimed, Trending
<1>6. MacroOpposes(p) => s = 40
  BY <1>2, <1>3, <1>5 DEF Pts
<1> QED  BY <1>1, <1>4, <1>6, SeatScore DEF MacroRegimeGives

ContraryGives(p, c) ==
  /\ c >= 30 /\ (~Exhausted(p) => c >= 50)
  /\ ~Approves(p, "Contrary")

LEMMA ContrarySeat ==
  ASSUME NEW p, Sound(p)
  PROVE  \E c \in Int : ScoreIs(p, "Contrary", c) /\ ContraryGives(p, c)
<1>0. p.terms.rr \in {0, 20}  BY DEF Sound, Termed
<1> DEFINE s == Contrary(p)
<1>1. Scores(p)["Contrary"] = s  BY DEF Scores
<1>2. s = IF Exhausted(p) THEN 30 ELSE 50
  BY <1>0 DEF Contrary, Exhausted
<1> HIDE DEF s
<1> QED  BY <1>1, <1>2, SeatScore DEF ContraryGives

ProfitTargetGives(p, c) ==
  /\ c >= 30 /\ (Paid(p) => c >= 70) /\ (p.chart.confirmed => c >= 50)
  /\ Paid(p) /\ p.chart.confirmed => c >= 90
  /\ Approves(p, "ProfitTarget") => Paid(p)

LEMMA ProfitTargetSeat ==
  ASSUME NEW p, Sound(p)
  PROVE  \E c \in Int : ScoreIs(p, "ProfitTarget", c) /\ ProfitTargetGives(p, c)
<1>0. p.terms.rr \in {0, 20} /\ (p.chart.target <=> p.chart.confirmed)  BY DEF Sound, Termed, Charted
<1> DEFINE s == ProfitTarget(p)
<1>1. Scores(p)["ProfitTarget"] = s  BY DEF Scores
<1>2. s = (IF Paid(p) THEN 70 ELSE 30) + Pts(p.chart.confirmed, 20)
  BY <1>0 DEF ProfitTarget, Paid, Pts
<1> HIDE DEF s
<1>3. /\ s \in Int /\ s \in 30..90 /\ (Paid(p) => s >= 70) /\ (p.chart.confirmed => s >= 50)
      /\ (Paid(p) /\ p.chart.confirmed => s >= 90) /\ (s >= 60 => Paid(p))
  BY <1>2 DEF Pts
<1> QED  BY <1>1, <1>3, SeatScore DEF ProfitTargetGives

EntryTimingGives(p, c) ==
  /\ c >= 30 /\ (AtLevel(p) => c >= 50) /\ (~Wild(p) => c >= 50) /\ (AtLevel(p) /\ ~Wild(p) => c >= 70)
  /\ Approves(p, "EntryTiming") => c >= 60

LEMMA EntryTimingSeat ==
  ASSUME NEW p, Sound(p)
  PROVE  \E c \in Int : ScoreIs(p, "EntryTiming", c) /\ EntryTimingGives(p, c)
<1> DEFINE s == EntryTiming(p)
           near == p.band \in (IF Long(p) THEN {"near_lower", "below_lower"} ELSE {"near_upper", "above_upper"})
<1>1. Scores(p)["EntryTiming"] = s  BY DEF Scores
<1>2. AtrAbove(p, 20) => Wild(p)
  BY DEF Sound, Measured, AtrAbove, Wild
<1>3. s = 50 - (IF AtrAbove(p, 20) THEN 20 ELSE Pts(Wild(p), 10)) + Pts(AtLevel(p), 20) + Pts(near, 10)
  BY DEF EntryTiming, Wild
<1> HIDE DEF s, near
<1>4. s \in 30..80 /\ (AtLevel(p) => s >= 50) /\ (~Wild(p) => s >= 50) /\ (AtLevel(p) /\ ~Wild(p) => s >= 70)
  BY <1>2, <1>3 DEF Pts
<1> QED  BY <1>1, <1>4, SeatScore DEF EntryTimingGives

DrawdownRiskGives(p, c) ==
  /\ c >= 10 /\ (Paid(p) => c >= 35) /\ (~Wild(p) => c >= 25)
  /\ ~Approves(p, "DrawdownRisk")

LEMMA DrawdownRiskSeat ==
  ASSUME NEW p, Sound(p)
  PROVE  \E c \in Int : ScoreIs(p, "DrawdownRisk", c) /\ DrawdownRiskGives(p, c)
<1>0. /\ p.terms.stopPct \in Int /\ p.terms.rr \in {0, 20} /\ (p.terms.rr = 0 => p.terms.stopPct = 0)
      /\ p.volatility = Volatility(p)
  BY DEF Sound, Measured, Termed, Classified
<1>1. p.volatility = "high" <=> Wild(p)
  BY <1>0 DEF Volatility, Wild
<1> DEFINE s == DrawdownRisk(p)
           wide == p.terms.stopPct > 300
           tight == p.terms.stopPct < 150
           paid == 50 - Pts(wide, 15) - Pts(~Paid(p), 25) - Pts(Wild(p) /\ tight, 20) + Pts(~wide /\ Paid(p), 5)
<1>2. Scores(p)["DrawdownRisk"] = s  BY DEF Scores
<1>3. paid \in Int /\ paid <= 55 /\ (Paid(p) => paid >= 35) /\ (~Wild(p) => paid >= 25)
  BY <1>0 DEF Pts, Paid
<1>4. s = Max({10, paid})
  <2>1. Pts(p.terms.rr < 20, IF p.terms.rr < 15 THEN 25 ELSE 15) = Pts(~Paid(p), 25)
    BY <1>0 DEF Pts, Paid
  <2>2. Pts(~wide, IF p.terms.rr >= 25 THEN 15 ELSE IF p.terms.rr >= 20 THEN 5 ELSE 0) = Pts(~wide
       /\ Paid(p), 5)
    BY <1>0 DEF Pts, Paid
  <2> QED  BY <1>1, <2>1, <2>2 DEF DrawdownRisk
<1> HIDE DEF s, wide, tight, paid
<1>5. s = IF 10 >= paid THEN 10 ELSE paid  BY <1>3, <1>4, MaxOf
<1>6. ~Approves(p, "DrawdownRisk")
  BY <1>2, <1>3, <1>5 DEF Approves, Vote, ByScore
<1> QED  BY <1>2, <1>3, <1>5, <1>6, SeatScore DEF DrawdownRiskGives

LeverageSpecialistGives(p, c) ==
  /\ c >= 10
  /\ Approves(p, "LeverageSpecialist") => c >= 60 /\ ~Invalid(p)

LEMMA LeverageSpecialistSeat ==
  ASSUME NEW p, Sound(p)
  PROVE  \E c \in Int : ScoreIs(p, "LeverageSpecialist", c) /\ LeverageSpecialistGives(p, c)
<1>0. p.terms.leverage \in Int /\ p.terms.leverage <= 30  BY DEF Sound, Termed
<1> DEFINE s == LeverageSpecialist(p)
<1>1. Scores(p)["LeverageSpecialist"] = s  BY DEF Scores
<1>2. s \in Int /\ s >= 10 /\ (Invalid(p) => s = 10)
  BY <1>0 DEF LeverageSpecialist, Pts, Invalid
<1> HIDE DEF s
<1>3. Approves(p, "LeverageSpecialist") => s >= 60
  BY <1>1, <1>2 DEF Approves, Vote, ByScore
<1> QED  BY <1>1, <1>2, <1>3, SeatScore DEF LeverageSpecialistGives

PatternCompletionGives(p, c) ==
  /\ c >= 50 /\ (p.chart.confirmed => c >= 100)
  /\ Approves(p, "PatternCompletion") => p.chart.confirmed

LEMMA PatternCompletionSeat ==
  ASSUME NEW p, Sound(p)
  PROVE  \E c \in Int : ScoreIs(p, "PatternCompletion", c) /\ PatternCompletionGives(p, c)
<1> DEFINE s == PatternCompletion(p)
<1>1. Scores(p)["PatternCompletion"] = s  BY DEF Scores
<1>2. s = IF p.chart.confirmed THEN 100 ELSE 50
  BY DEF Sound, Charted, PatternCompletion, Pts
<1> HIDE DEF s
<1> QED  BY <1>1, <1>2, SeatScore DEF PatternCompletionGives

WickAnalysisGives(p, c) ==
  /\ c >= 30
  /\ Approves(p, "WickAnalysis") => c >= 70 /\ AtLevel(p)

LEMMA WickAnalysisSeat ==
  ASSUME NEW p, Sound(p)
  PROVE  \E c \in Int : ScoreIs(p, "WickAnalysis", c) /\ WickAnalysisGives(p, c)
<1> DEFINE s == WickAnalysis(p)
           bullish == p.candle.patterns \cap BullishWicks # {}
           bearish == p.candle.patterns \cap BearishWicks # {}
           matching == IF Long(p) THEN bullish ELSE bearish
           opposing == IF Long(p) THEN bearish ELSE bullish
<1>1. Scores(p)["WickAnalysis"] = s  BY DEF Scores
<1>2. s = 50 + Pts(AtLevel(p), IF matching THEN 20 ELSE 5) - Pts(opposing, 20)
  BY DEF WickAnalysis
<1> HIDE DEF s, matching, opposing
<1>3. s \in 30..70 /\ (s >= 60 => s >= 70 /\ AtLevel(p))
  BY <1>2 DEF Pts
<1> QED  BY <1>1, <1>3, SeatScore DEF WickAnalysisGives

MarketContextGives(p, c) ==
  /\ c >= 30 /\ (Trending(p) /\ TrendAgrees(p) /\ AtLevel(p) => c >= 70)
  /\ Approves(p, "MarketContext") => c >= 60

LEMMA MarketContextSeat ==
  ASSUME NEW p, Sound(p)
  PROVE  \E c \in Int : ScoreIs(p, "MarketContext", c) /\ MarketContextGives(p, c)
<1>0. p.adx \in Int /\ p.bbw \in Int  BY DEF Sound, Measured
<1> DEFINE s == MarketContext(p)
           drawn == p.chart.dir \in {IF Long(p) THEN "bullish" ELSE "bearish", "none"}
<1>1. Scores(p)["MarketContext"] = s  BY DEF Scores
<1>2. s = 60 - Pts(p.bbw < 30 /\ p.adx < 20, 20) + Pts(TrendAgrees(p) /\ AtLevel(p), 20)
          + Pts(MacroAgrees(p) /\ drawn, 10) - Pts(p.ema = "mixed", 10)
  BY DEF MarketContext
<1> HIDE DEF s, drawn
<1>3. s \in 30..90 /\ (Trending(p) /\ TrendAgrees(p) /\ AtLevel(p) => s >= 70)
  BY <1>0, <1>2 DEF Pts, Trending
<1> QED  BY <1>1, <1>3, SeatScore DEF MarketContextGives

ExecutionQualityGives(p, c) ==
  /\ c >= 10 /\ (Paid(p) /\ ~Invalid(p) => c >= 20)
  /\ Approves(p, "ExecutionQuality") => c >= 60 /\ Paid(p) /\ ~Invalid(p) /\ ~Tight(p) /\ ~Wide(p)

LEMMA ExecutionQualitySeat ==
  ASSUME NEW p, Sound(p)
  PROVE  \E c \in Int : ScoreIs(p, "ExecutionQuality", c) /\ ExecutionQualityGives(p, c)
<1>0. p.terms.stopPct \in Int /\ p.terms.rr \in {0, 20} /\ (p.terms.rr = 0 => p.terms.stopPct = 0)
      /\ p.terms.quality \in {"A", "B", "C", "invalid"}
  BY DEF Sound, Measured, Termed
<1> DEFINE s == ExecutionQuality(p)
<1>1. Scores(p)["ExecutionQuality"] = s  BY DEF Scores
<1>2. Invalid(p) => s = 10
  BY DEF ExecutionQuality, Invalid
<1>3. ~Invalid(p) => /\ s \in Int /\ s >= 0 /\ (Paid(p) => s >= 20)
                     /\ s >= 60 => Paid(p) /\ ~Tight(p) /\ ~Wide(p)
  BY <1>0 DEF ExecutionQuality, Invalid, Pts, Paid, Tight, Wide
<1> HIDE DEF s
<1> QED  BY <1>1, <1>2, <1>3, SeatScore DEF ExecutionQualityGives

(* Counting a set one element at a time.                                   *)
OneFor(x, S) == IF x \in S THEN 1 ELSE 0

LEMMA CountOne ==
  ASSUME NEW S, IsFiniteSet(S), NEW x
  PROVE  /\ IsFiniteSet(S \ {x})
         /\ Cardinality(S) \in Nat /\ Cardinality(S \ {x}) \in Nat
         /\ Cardinality(S) = Cardinality(S \ {x}) + OneFor(x, S)
<1>1. IsFiniteSet(S \ {x}) /\ Cardinality(S) \in Nat /\ Cardinality(S \ {x}) \in Nat
  BY FS_RemoveElement, FS_CardinalityType, FS_Difference, FS_Singleton
<1>2. Cardinality(S \ {x}) = IF x \in S THEN Cardinality(S) - 1 ELSE Cardinality(S)
  BY FS_RemoveElement
<1> QED  BY <1>1, <1>2 DEF OneFor

\* Five elements at once.
LEMMA CountFive ==
  ASSUME NEW S, IsFiniteSet(S), NEW a, NEW b, NEW c, NEW d, NEW e,
         a \notin {b, c, d, e}, b \notin {c, d, e}, c \notin {d, e}, d # e
  PROVE  /\ IsFiniteSet(S \ {a, b, c, d, e})
         /\ Cardinality(S) \in Nat /\ Cardinality(S \ {a, b, c, d, e}) \in Nat
         /\ Cardinality(S) = Cardinality(S \ {a, b, c, d, e})
                             + OneFor(a, S) + OneFor(b, S) + OneFor(c, S) + OneFor(d, S) + OneFor(e, S)
<1>0. \A x : OneFor(x, S) \in Int  BY DEF OneFor
<1>1. /\ IsFiniteSet(S \ {a}) /\ Cardinality(S) \in Nat /\ Cardinality(S \ {a}) \in Nat
      /\ Cardinality(S) = Cardinality(S \ {a}) + OneFor(a, S)
  BY CountOne
<1>2. IsFiniteSet(S \ {a, b}) /\ Cardinality(S \ {a, b}) \in Nat
      /\ Cardinality(S \ {a}) = Cardinality(S \ {a, b}) + OneFor(b, S)
  <2>1. (S \ {a}) \ {b} = S \ {a, b} /\ (b \in S \ {a} <=> b \in S)  OBVIOUS
  <2> QED  BY <1>1, <2>1, CountOne DEF OneFor
<1>3. IsFiniteSet(S \ {a, b, c}) /\ Cardinality(S \ {a, b, c}) \in Nat
      /\ Cardinality(S \ {a, b}) = Cardinality(S \ {a, b, c}) + OneFor(c, S)
  <2>1. (S \ {a, b}) \ {c} = S \ {a, b, c} /\ (c \in S \ {a, b} <=> c \in S)  OBVIOUS
  <2> QED  BY <1>2, <2>1, CountOne DEF OneFor
<1>4. IsFiniteSet(S \ {a, b, c, d}) /\ Cardinality(S \ {a, b, c, d}) \in Nat
      /\ Cardinality(S \ {a, b, c}) = Cardinality(S \ {a, b, c, d}) + OneFor(d, S)
  <2>1. (S \ {a, b, c}) \ {d} = S \ {a, b, c, d} /\ (d \in S \ {a, b, c} <=> d \in S)  OBVIOUS
  <2> QED  BY <1>3, <2>1, CountOne DEF OneFor
<1>5. IsFiniteSet(S \ {a, b, c, d, e}) /\ Cardinality(S \ {a, b, c, d, e}) \in Nat
      /\ Cardinality(S \ {a, b, c, d}) = Cardinality(S \ {a, b, c, d, e}) + OneFor(e, S)
  <2>1. (S \ {a, b, c, d}) \ {e} = S \ {a, b, c, d, e} /\ (e \in S \ {a, b, c, d} <=> e \in S)  OBVIOUS
  <2> QED  BY <1>4, <2>1, CountOne DEF OneFor
<1> QED  BY <1>0, <1>1, <1>2, <1>3, <1>4, <1>5

LEMMA FiniteFive ==
  ASSUME NEW a, NEW b, NEW c, NEW d, NEW e
  PROVE  IsFiniteSet({a, b, c, d, e})
<1>1. IsFiniteSet({a}) /\ IsFiniteSet({b}) /\ IsFiniteSet({c}) /\ IsFiniteSet({d}) /\ IsFiniteSet({e})
  BY FS_Singleton
<1>2. IsFiniteSet({a} \cup {b})  BY <1>1, FS_Union
<1>3. IsFiniteSet(({a} \cup {b}) \cup {c})  BY <1>1, <1>2, FS_Union
<1>4. IsFiniteSet((({a} \cup {b}) \cup {c}) \cup {d})  BY <1>1, <1>3, FS_Union
<1>5. IsFiniteSet(((({a} \cup {b}) \cup {c}) \cup {d}) \cup {e})  BY <1>1, <1>4, FS_Union
<1>6. {a, b, c, d, e} = ((({a} \cup {b}) \cup {c}) \cup {d}) \cup {e}  OBVIOUS
<1> QED  BY <1>5, <1>6

(* The agreements Confluence counts.                                       *)
Agreements(p) ==
  <<EmaAligned(p), RsiAligned(p) /\ (IF Long(p) THEN p.rsi < 70 ELSE p.rsi > 30), CandleAgrees(p),
    p.chart.confirmed /\ p.chart.dir \in {p.dir, "none"}, AtLevel(p), MacroAgrees(p), p.vol > 13>>
Agreed(p) == {i \in DOMAIN Agreements(p) : Agreements(p)[i]}

LEMMA AgreedFinite ==
  ASSUME NEW S, S \subseteq 1..7
  PROVE  IsFiniteSet(S) /\ Cardinality(S) \in Nat
<1>1. IsFiniteSet({1, 2, 5, 6, 7}) /\ IsFiniteSet({3, 4, 5, 6, 7})  BY FiniteFive
<1>2. IsFiniteSet({1, 2, 5, 6, 7} \cup {3, 4, 5, 6, 7})  BY <1>1, FS_Union
<1>3. S \subseteq {1, 2, 5, 6, 7} \cup {3, 4, 5, 6, 7}  OBVIOUS
<1>4. IsFiniteSet(S)  BY <1>2, <1>3, FS_Subset
<1> QED  BY <1>4, FS_CardinalityType

ConfluenceGives(p, c) ==
  /\ c >= 30 + 15 * (Pts(EmaAligned(p), 1) + Pts(AtLevel(p), 1) + Pts(MacroAgrees(p), 1) + Pts(Carried(p), 1))
  /\ Approves(p, "Confluence") => c >= 60

LEMMA ConfluenceSeat ==
  ASSUME NEW p, Sound(p)
  PROVE  \E c \in Int : ScoreIs(p, "Confluence", c) /\ ConfluenceGives(p, c)
<1> DEFINE s == Confluence(p)  S == Agreed(p)
<1>1. Scores(p)["Confluence"] = s  BY DEF Scores
<1>2. s = Min({100, 30 + 15 * Cardinality(S)})  BY DEF Confluence, Agreed, Agreements
<1>3. /\ DOMAIN Agreements(p) = 1..7
      /\ Agreements(p)[1] <=> EmaAligned(p)
      /\ Agreements(p)[2] <=> Carried(p)
      /\ Agreements(p)[5] <=> AtLevel(p)
      /\ Agreements(p)[6] <=> MacroAgrees(p)
  <2>1. DOMAIN Agreements(p) = 1..7  BY DEF Agreements
  <2>2. Agreements(p)[1] <=> EmaAligned(p)  BY DEF Agreements
  <2>3. Agreements(p)[2] <=> Carried(p)  BY DEF Agreements, Carried
  <2>4. Agreements(p)[5] <=> AtLevel(p)  BY DEF Agreements
  <2>5. Agreements(p)[6] <=> MacroAgrees(p)  BY DEF Agreements
  <2> QED  BY <2>1, <2>2, <2>3, <2>4, <2>5
<1>4. /\ S \subseteq 1..7 /\ (1 \in S <=> EmaAligned(p)) /\ (2 \in S <=> Carried(p))
      /\ (5 \in S <=> AtLevel(p)) /\ (6 \in S <=> MacroAgrees(p))
  BY <1>3 DEF Agreed
<1> HIDE DEF s, S
<1>5. /\ Cardinality(S) \in Nat /\ Cardinality(S \ {1, 2, 5, 6, 7}) \in Nat
      /\ Cardinality(S) = Cardinality(S \ {1, 2, 5, 6, 7})
                          + OneFor(1, S) + OneFor(2, S) + OneFor(5, S) + OneFor(6, S) + OneFor(7, S)
  <2>1. IsFiniteSet(S)  BY <1>4, AgreedFinite
  <2> QED  BY <2>1, CountFive
<1> DEFINE n == Pts(EmaAligned(p), 1) + Pts(AtLevel(p), 1) + Pts(MacroAgrees(p), 1) + Pts(Carried(p), 1)
<1>6. Cardinality(S) \in Nat /\ n \in 0..4 /\ Cardinality(S) >= n
  BY <1>4, <1>5 DEF OneFor, Pts
<1> HIDE DEF n
<1>7. s \in Int /\ s >= 30 + 15 * n /\ s <= 100 /\ s >= 30
  <2>1. 30 + 15 * Cardinality(S) \in Int  BY <1>6
  <2>2. s = IF 100 <= 30 + 15 * Cardinality(S) THEN 100 ELSE 30 + 15 * Cardinality(S)
    BY <1>2, <2>1, MinOf
  <2> QED  BY <1>6, <2>2
<1> QED  BY <1>1, <1>7, SeatScore DEF n, Pts, ConfluenceGives

(* The panel's counts, seat by seat.                                       *)
LEMMA TwentySeats ==
  ASSUME NEW S, S \subseteq Traders
  PROVE  /\ IsFiniteSet(S)
         /\ Cardinality(S) =
              (OneFor("TrendFollowing", S) + OneFor("Momentum", S) + OneFor("MeanReversion", S)
                 + OneFor("Breakout", S) + OneFor("Structure", S))
              + (OneFor("Candlestick", S) + OneFor("RiskParity", S) + OneFor("Volatility", S)
                 + OneFor("VolumeProfile", S) + OneFor("MacroRegime", S))
              + (OneFor("Contrary", S) + OneFor("ProfitTarget", S) + OneFor("EntryTiming", S)
                 + OneFor("Confluence", S) + OneFor("DrawdownRisk", S))
              + (OneFor("LeverageSpecialist", S) + OneFor("PatternCompletion", S) + OneFor("WickAnalysis", S)
                 + OneFor("MarketContext", S) + OneFor("ExecutionQuality", S))
<1> DEFINE G1 == {"TrendFollowing", "Momentum", "MeanReversion", "Breakout", "Structure"}
           G2 == {"Candlestick", "RiskParity", "Volatility", "VolumeProfile", "MacroRegime"}
           G3 == {"Contrary", "ProfitTarget", "EntryTiming", "Confluence", "DrawdownRisk"}
           G4 == {"LeverageSpecialist", "PatternCompletion", "WickAnalysis", "MarketContext",
             "ExecutionQuality"}
<1>0. Traders = (G1 \cup G2) \cup (G3 \cup G4)  BY DEF Traders
<1>1. IsFiniteSet(S)
  <2>1. IsFiniteSet(G1) /\ IsFiniteSet(G2) /\ IsFiniteSet(G3) /\ IsFiniteSet(G4)  BY FiniteFive
  <2> HIDE DEF G1, G2, G3, G4
  <2>2. IsFiniteSet(G1 \cup G2) /\ IsFiniteSet(G3 \cup G4)  BY <2>1, FS_Union
  <2>3. IsFiniteSet(Traders)  BY <1>0, <2>2, FS_Union
  <2> QED  BY <2>3, FS_Subset
<1> DEFINE S1 == S \ G1  S2 == S1 \ G2  S3 == S2 \ G3  S4 == S3 \ G4
<1>2. IsFiniteSet(S1) /\ Cardinality(S1) \in Nat
      /\ Cardinality(S) = Cardinality(S1) + (OneFor("TrendFollowing", S) + OneFor("Momentum", S)
        + OneFor("MeanReversion", S) + OneFor("Breakout", S) + OneFor("Structure", S))
  <2>1. \A t : OneFor(t, S) \in Int  BY DEF OneFor
  <2> QED  BY <1>1, <2>1, CountFive
<1>3. IsFiniteSet(S2) /\ Cardinality(S2) \in Nat
      /\ Cardinality(S1) = Cardinality(S2) + (OneFor("Candlestick", S) + OneFor("RiskParity", S)
        + OneFor("Volatility", S) + OneFor("VolumeProfile", S) + OneFor("MacroRegime", S))
  <2>1. \A t : OneFor(t, S1) \in Int  BY DEF OneFor
  <2>2. \A t \in G2 : OneFor(t, S1) = OneFor(t, S)  BY DEF OneFor
  <2> HIDE DEF S1
  <2>3. IsFiniteSet(S2) /\ Cardinality(S2) \in Nat
        /\ Cardinality(S1) = Cardinality(S2) + OneFor("Candlestick", S1) + OneFor("RiskParity", S1)
          + OneFor("Volatility", S1) + OneFor("VolumeProfile", S1) + OneFor("MacroRegime", S1)
    <3>1. IsFiniteSet(S1)  BY <1>2
    <3> QED  BY <3>1, CountFive
  <2> HIDE DEF S2
  <2> QED  BY <2>1, <2>2, <2>3
<1>4. IsFiniteSet(S3) /\ Cardinality(S3) \in Nat
      /\ Cardinality(S2) = Cardinality(S3) + (OneFor("Contrary", S) + OneFor("ProfitTarget", S)
        + OneFor("EntryTiming", S) + OneFor("Confluence", S) + OneFor("DrawdownRisk", S))
  <2>1. \A t : OneFor(t, S2) \in Int  BY DEF OneFor
  <2>2. \A t \in G3 : OneFor(t, S2) = OneFor(t, S)  BY DEF OneFor
  <2> HIDE DEF S2
  <2>3. IsFiniteSet(S3) /\ Cardinality(S3) \in Nat
        /\ Cardinality(S2) = Cardinality(S3) + OneFor("Contrary", S2) + OneFor("ProfitTarget", S2)
          + OneFor("EntryTiming", S2) + OneFor("Confluence", S2) + OneFor("DrawdownRisk", S2)
    <3>1. IsFiniteSet(S2)  BY <1>3
    <3> QED  BY <3>1, CountFive
  <2> HIDE DEF S3
  <2> QED  BY <2>1, <2>2, <2>3
<1>5. IsFiniteSet(S4) /\ Cardinality(S4) \in Nat
      /\ Cardinality(S3) = Cardinality(S4) + (OneFor("LeverageSpecialist", S) + OneFor("PatternCompletion", S)
        + OneFor("WickAnalysis", S) + OneFor("MarketContext", S) + OneFor("ExecutionQuality", S))
  <2>1. \A t : OneFor(t, S3) \in Int  BY DEF OneFor
  <2>2. \A t \in G4 : OneFor(t, S3) = OneFor(t, S)  BY DEF OneFor
  <2> HIDE DEF S3
  <2>3. IsFiniteSet(S4) /\ Cardinality(S4) \in Nat
        /\ Cardinality(S3) = Cardinality(S4) + OneFor("LeverageSpecialist", S3)
          + OneFor("PatternCompletion", S3) + OneFor("WickAnalysis", S3) + OneFor("MarketContext", S3)
            + OneFor("ExecutionQuality", S3)
    <3>1. IsFiniteSet(S3)  BY <1>4
    <3> QED  BY <3>1, CountFive
  <2> HIDE DEF S4
  <2> QED  BY <2>1, <2>2, <2>3
<1>6. S4 = {}  BY <1>0
<1> HIDE DEF G1, G2, G3, G4, S1, S2, S3, S4
<1>7. Cardinality(S4) = 0  BY <1>6, FS_EmptySet
<1> DEFINE n1 == OneFor("TrendFollowing", S) + OneFor("Momentum", S) + OneFor("MeanReversion", S)
     + OneFor("Breakout", S) + OneFor("Structure", S)
           n2 == OneFor("Candlestick", S) + OneFor("RiskParity", S) + OneFor("Volatility", S)
             + OneFor("VolumeProfile", S) + OneFor("MacroRegime", S)
           n3 == OneFor("Contrary", S) + OneFor("ProfitTarget", S) + OneFor("EntryTiming", S)
             + OneFor("Confluence", S) + OneFor("DrawdownRisk", S)
           n4 == OneFor("LeverageSpecialist", S) + OneFor("PatternCompletion", S) + OneFor("WickAnalysis", S)
             + OneFor("MarketContext", S) + OneFor("ExecutionQuality", S)
<1>8. n1 \in Int /\ n2 \in Int /\ n3 \in Int /\ n4 \in Int  BY DEF OneFor
<1>9. SUFFICES Cardinality(S) = n1 + n2 + n3 + n4  BY <1>1
<1> HIDE DEF n1, n2, n3, n4
<1> QED  BY <1>2, <1>3, <1>4, <1>5, <1>7, <1>8 DEF n1, n2, n3, n4

Approvers(p) == {t \in Traders : Approves(p, t)}

(* The votes of a packet, one seat after the other.                        *)
Aye(p, t) == Pts(Approves(p, t), 1)
Ayes(p) ==
  (Aye(p, "TrendFollowing") + Aye(p, "Momentum") + Aye(p, "MeanReversion") + Aye(p, "Breakout")
     + Aye(p, "Structure"))
  + (Aye(p, "Candlestick") + Aye(p, "RiskParity") + Aye(p, "Volatility") + Aye(p, "VolumeProfile")
       + Aye(p, "MacroRegime"))
  + (Aye(p, "Contrary") + Aye(p, "ProfitTarget") + Aye(p, "EntryTiming") + Aye(p, "Confluence")
       + Aye(p, "DrawdownRisk"))
  + (Aye(p, "LeverageSpecialist") + Aye(p, "PatternCompletion") + Aye(p, "WickAnalysis")
       + Aye(p, "MarketContext") + Aye(p, "ExecutionQuality"))

(* The approvals of a packet are counted seat by seat.                     *)
LEMMA ApprovalsAdd ==
  ASSUME NEW p
  PROVE  /\ IsFiniteSet(Approvers(p))
         /\ Cardinality(Approvers(p)) = Ayes(p)
<1> DEFINE S == Approvers(p)
<1>1. \A t \in Traders : OneFor(t, S) = Aye(p, t)
  BY DEF Approvers, OneFor, Aye, Pts
<1>2. Traders = {"TrendFollowing", "Momentum", "MeanReversion", "Breakout", "Structure", "Candlestick",
     "RiskParity", "Volatility", "VolumeProfile", "MacroRegime", "Contrary", "ProfitTarget", "EntryTiming",
       "Confluence", "DrawdownRisk", "LeverageSpecialist", "PatternCompletion", "WickAnalysis",
         "MarketContext", "ExecutionQuality"}
  BY DEF Traders
<1>3. S \subseteq Traders  BY DEF Approvers
<1> HIDE DEF S
<1>4. IsFiniteSet(S)  BY <1>3, TwentySeats
<1>5. Cardinality(S) = Ayes(p)
  BY <1>1, <1>2, <1>3, TwentySeats DEF Ayes
<1> QED  BY <1>4, <1>5 DEF S

(* Fifteen approvals are worth an average of 5.8: the second condition of  *)
(* the panel never decides.                                                *)
LEMMA FloorNeverBinds ==
  ASSUME NEW p, Sound(p), Cardinality(Approvers(p)) >= 15
  PROVE  Total(Scores(p), {}) \in Int /\ Total(Scores(p), {}) >= 58 * 20
<1>1. /\ ~Long(p) => Trending(p)
      /\ MacroAgrees(p) /\ Long(p) => EmaAligned(p)
  BY DEF Sound, Measured, Aimed, Trending, MacroAgrees, EmaAligned
<1>2. PICK c1 \in Int : ScoreIs(p, "TrendFollowing", c1) /\ TrendFollowingGives(p, c1)  BY TrendFollowingSeat
<1>3. PICK c2 \in Int : ScoreIs(p, "Momentum", c2) /\ MomentumGives(p, c2)  BY MomentumSeat
<1>4. PICK c3 \in Int : ScoreIs(p, "MeanReversion", c3) /\ MeanReversionGives(p, c3)  BY MeanReversionSeat
<1>5. PICK c4 \in Int : ScoreIs(p, "Breakout", c4) /\ BreakoutGives(p, c4)  BY BreakoutSeat
<1>6. PICK c5 \in Int : ScoreIs(p, "Structure", c5) /\ StructureGives(p, c5)  BY StructureSeat
<1>7. PICK c6 \in Int : ScoreIs(p, "Candlestick", c6) /\ CandlestickGives(p, c6)  BY CandlestickSeat
<1>8. PICK c7 \in Int : ScoreIs(p, "RiskParity", c7) /\ RiskParityGives(p, c7)  BY RiskParitySeat
<1>9. PICK c8 \in Int : ScoreIs(p, "Volatility", c8) /\ VolatilityGives(p, c8)  BY VolatilitySeat
<1>10. PICK c9 \in Int : ScoreIs(p, "VolumeProfile", c9) /\ VolumeProfileGives(p, c9)  BY VolumeProfileSeat
<1>11. PICK c10 \in Int : ScoreIs(p, "MacroRegime", c10) /\ MacroRegimeGives(p, c10)  BY MacroRegimeSeat
<1>12. PICK c11 \in Int : ScoreIs(p, "Contrary", c11) /\ ContraryGives(p, c11)  BY ContrarySeat
<1>13. PICK c12 \in Int : ScoreIs(p, "ProfitTarget", c12) /\ ProfitTargetGives(p, c12)  BY ProfitTargetSeat
<1>14. PICK c13 \in Int : ScoreIs(p, "EntryTiming", c13) /\ EntryTimingGives(p, c13)  BY EntryTimingSeat
<1>15. PICK c14 \in Int : ScoreIs(p, "Confluence", c14) /\ ConfluenceGives(p, c14)  BY ConfluenceSeat
<1>16. PICK c15 \in Int : ScoreIs(p, "DrawdownRisk", c15) /\ DrawdownRiskGives(p, c15)  BY DrawdownRiskSeat
<1>17. PICK c16 \in Int : ScoreIs(p, "LeverageSpecialist", c16) /\ LeverageSpecialistGives(p, c16)
  BY LeverageSpecialistSeat
<1>18. PICK c17 \in Int : ScoreIs(p, "PatternCompletion", c17) /\ PatternCompletionGives(p, c17)
  BY PatternCompletionSeat
<1>19. PICK c18 \in Int : ScoreIs(p, "WickAnalysis", c18) /\ WickAnalysisGives(p, c18)  BY WickAnalysisSeat
<1>20. PICK c19 \in Int : ScoreIs(p, "MarketContext", c19) /\ MarketContextGives(p, c19)  BY MarketContextSeat
<1>21. PICK c20 \in Int : ScoreIs(p, "ExecutionQuality", c20) /\ ExecutionQualityGives(p, c20)
  BY ExecutionQualitySeat
<1>22. Total(Scores(p), {}) = c1 + c2 + c3 + c4 + c5 + c6 + c7 + c8 + c9 + c10 + c11 + c12 + c13 + c14
     + c15 + c16 + c17 + c18 + c19 + c20
  BY <1>2, <1>3, <1>4, <1>5, <1>6, <1>7, <1>8, <1>9, <1>10, <1>11, <1>12, <1>13, <1>14, <1>15, <1>16, <1>17,
       <1>18, <1>19, <1>20, <1>21 DEF Total, ScoreIs
<1>23. Ayes(p) >= 15  BY ApprovalsAdd
<1> QED  BY <1>1, <1>2, <1>3, <1>4, <1>5, <1>6, <1>7, <1>8, <1>9, <1>10, <1>11, <1>12, <1>13, <1>14, <1>15,
     <1>16, <1>17, <1>18, <1>19, <1>20, <1>21, <1>22, <1>23, SMTT(60)
   DEF Ayes, Aye, Pts, TrendFollowingGives, MomentumGives, MeanReversionGives, BreakoutGives, StructureGives,
     CandlestickGives, RiskParityGives, VolatilityGives, VolumeProfileGives, MacroRegimeGives, ContraryGives,
       ProfitTargetGives, EntryTimingGives, ConfluenceGives, DrawdownRiskGives, LeverageSpecialistGives,
         PatternCompletionGives, WickAnalysisGives, MarketContextGives, ExecutionQualityGives

-----------------------------------------------------------------------------
(* More volume.                                                            *)

\* Packet q is p but for the volume, of which it has more.
MoreVolume(p, q) ==
  /\ p.vol \in Int /\ q.vol \in Int /\ q.vol > p.vol
  /\ p.volume = VolumeCharacter(p) /\ q.volume = VolumeCharacter(q)
SameProposal(p, q) == p.dir = q.dir /\ p.entry = q.entry /\ p.regime = q.regime /\ p.terms = q.terms
SameIndicators(p, q) ==
  /\ p.ema = q.ema /\ p.rsi = q.rsi /\ p.rsiDir = q.rsiDir /\ p.adx = q.adx /\ p.volatility = q.volatility
  /\ p.atr = q.atr /\ p.atrSma = q.atrSma /\ p.bbw = q.bbw /\ p.band = q.band
SameStructure(p, q) == p.levels = q.levels /\ p.candle = q.candle /\ p.chart = q.chart
SameElse(p, q) == SameProposal(p, q) /\ SameIndicators(p, q) /\ SameStructure(p, q)

DeafToVolume == Traders \ {"Momentum", "Breakout", "VolumeProfile", "Confluence"}

LEMMA SameReadings ==
  ASSUME NEW p, NEW q, SameElse(p, q)
  PROVE  /\ Long(p) <=> Long(q)
         /\ EmaAligned(p) <=> EmaAligned(q)
         /\ EmaFull(p) <=> EmaFull(q)
         /\ RsiAligned(p) <=> RsiAligned(q)
         /\ AtLevel(p) <=> AtLevel(q)
         /\ SwingsAgree(p) <=> SwingsAgree(q)
         /\ TrendAgrees(p) <=> TrendAgrees(q)
         /\ CandleAgrees(p) <=> CandleAgrees(q)
         /\ MacroAgrees(p) <=> MacroAgrees(q)
         /\ MacroOpposes(p) <=> MacroOpposes(q)
         /\ \A n : (AtrAbove(p, n) <=> AtrAbove(q, n)) /\ (AtrBelow(p, n) <=> AtrBelow(q, n))
  BY DEF SameElse, SameProposal, SameIndicators, SameStructure, Long, EmaAligned, EmaFull, RsiAligned,
       AtLevel, SwingsAgree,
         TrendAgrees, CandleAgrees, MacroAgrees, MacroOpposes, AtrAbove, AtrBelow

LEMMA SameScores ==
  ASSUME NEW p, NEW q, SameElse(p, q)
  PROVE  \A t \in DeafToVolume : Scores(p)[t] = Scores(q)[t]
<1>1. TrendFollowing(p) = TrendFollowing(q)
  BY SameReadings DEF TrendFollowing, Pts, SameElse, SameIndicators
<1>2. MeanReversion(p) = MeanReversion(q)
  BY SameReadings DEF MeanReversion, SameElse, SameIndicators
<1>3. Structure(p) = Structure(q)
  BY SameReadings DEF Structure, Pts, SameElse, SameStructure
<1>4. Candlestick(p) = Candlestick(q)
  BY SameReadings DEF Candlestick, SameElse, SameStructure
<1>5. RiskParity(p) = RiskParity(q)
  BY DEF RiskParity, SameElse, SameProposal
<1>6. VolatilityTrader(p) = VolatilityTrader(q)
  BY SameReadings DEF VolatilityTrader, Pts, SameElse, SameProposal, SameIndicators
<1>7. MacroRegime(p) = MacroRegime(q)
  BY SameReadings DEF MacroRegime, Pts, SameElse, SameProposal
<1>8. Contrary(p) = Contrary(q)
  BY SameReadings DEF Contrary, SameElse, SameProposal, SameIndicators, SameStructure
<1>9. ProfitTarget(p) = ProfitTarget(q)
  BY DEF ProfitTarget, SameElse, SameProposal, SameStructure
<1>10. EntryTiming(p) = EntryTiming(q)
  BY SameReadings DEF EntryTiming, Pts, SameElse, SameIndicators
<1>11. DrawdownRisk(p) = DrawdownRisk(q)
  BY DEF DrawdownRisk, SameElse, SameProposal, SameIndicators
<1>12. LeverageSpecialist(p) = LeverageSpecialist(q)
  BY DEF LeverageSpecialist, SameElse, SameProposal
<1>13. PatternCompletion(p) = PatternCompletion(q)
  BY DEF PatternCompletion, SameElse, SameStructure
<1>14. WickAnalysis(p) = WickAnalysis(q)
  <2>1. p.candle = q.candle  BY DEF SameElse, SameStructure
  <2> QED  BY <2>1, SameReadings DEF WickAnalysis, Pts
<1>15. MarketContext(p) = MarketContext(q)
  BY SameReadings DEF MarketContext, SameElse, SameIndicators, SameStructure
<1>16. ExecutionQuality(p) = ExecutionQuality(q)
  <2>1. p.terms = q.terms  BY DEF SameElse, SameProposal
  <2> QED  BY <2>1 DEF ExecutionQuality
<1> QED  BY <1>1, <1>2, <1>3, <1>4, <1>5, <1>6, <1>7, <1>8, <1>9, <1>10, <1>11, <1>12, <1>13, <1>14, <1>15,
     <1>16
         DEF DeafToVolume, Traders, Scores

LEMMA SameVotes ==
  ASSUME NEW p, NEW q, SameElse(p, q), NEW t \in DeafToVolume
  PROVE  Approves(p, t) <=> Approves(q, t)
<1>1. Scores(p)[t] = Scores(q)[t]  BY SameScores
<1>2. p.terms = q.terms /\ p.candle = q.candle  BY DEF SameElse, SameProposal, SameStructure
<1> QED  BY <1>1, <1>2 DEF Approves, Vote

LEMMA MomentumMonotone ==
  ASSUME NEW p, NEW q, SameElse(p, q), MoreVolume(p, q), Measured(p), Approves(p, "Momentum")
  PROVE  Approves(q, "Momentum")
<1> DEFINE rest == 50 + Pts(Sweet(p), 20)
             + (IF Long(p) THEN Pts(p.rsi \in 66..75, 5) - Pts(p.rsi > 75, 25) - Pts(p.rsi < 30, 10)
                           ELSE Pts(p.rsi \in 25..34, 5) - Pts(p.rsi < 25, 25) - Pts(p.rsi > 70, 5))
             + Pts(RsiAligned(p), IF Sweet(p) THEN 15 ELSE 5)
           trend == Pts(p.adx > 25 /\ RsiAligned(p), 5)
           heard(x) == Pts(x.vol > 20, 15) + Pts(x.vol \in 16..20, 10) + Pts(x.vol \in 13..15,
             5) - Pts(x.vol < 8, 10)
<1>1. rest \in Int /\ trend \in Int /\ heard(p) \in Int /\ heard(q) \in Int /\ heard(p) <= heard(q)
  BY DEF Pts, MoreVolume
<1>2. MomentumTrader(p) = rest + heard(p) + trend
  BY <1>1 DEF MomentumTrader, Pts
<1>3. MomentumTrader(q) = rest + heard(q) + trend
  <2>1. p.rsi = q.rsi /\ p.adx = q.adx /\ (Sweet(p) <=> Sweet(q))
    BY SameReadings DEF SameElse, SameIndicators, Sweet
  <2> QED  BY <1>1, <2>1, SameReadings DEF MomentumTrader, Pts
<1>4. Scores(p)["Momentum"] = MomentumTrader(p) /\ Scores(q)["Momentum"] = MomentumTrader(q)  BY DEF Scores
<1> HIDE DEF rest, trend, heard
<1>5. MomentumTrader(p) \in Int /\ MomentumTrader(q) \in Int /\ MomentumTrader(p) <= MomentumTrader(q)
  BY <1>1, <1>2, <1>3
<1> QED  BY <1>4, <1>5, SeatScore

LEMMA BreakoutMonotone ==
  ASSUME NEW p, NEW q, SameElse(p, q), MoreVolume(p, q), Charted(p), Approves(p, "Breakout")
  PROVE  Approves(q, "Breakout")
<1> DEFINE reach(x) == (CASE p.chart.confirmed /\ x.vol > 15 -> 80
                          [] p.chart.confirmed /\ x.vol \in 12..15 -> 65
                          [] p.chart.confirmed /\ x.vol < 12 -> 40
                          [] OTHER -> 50)
           thin(x) == Pts(x.vol < 12, 10)
           off == 1000 * Abs(p.entry - p.chart.level)
           near == Pts(p.chart.level > 0 /\ off < 5 * p.chart.level, 10)
           far == Pts(p.chart.level > 0 /\ off > 20 * p.chart.level, 10)
           narrow == Pts(p.bbw < 15, 10)
           narrower == Pts(p.bbw \in 15..19, 5)
<1>1. reach(p) \in Int /\ reach(q) \in Int /\ reach(p) <= reach(q)
  BY DEF MoreVolume, Charted
<1>2. thin(p) \in Int /\ thin(q) \in Int /\ thin(q) <= thin(p)
  BY DEF MoreVolume, Pts
<1>3. near \in Int /\ far \in Int /\ narrow \in Int /\ narrower \in Int
  BY DEF Pts
<1>4. Scores(p)["Breakout"] = reach(p) - thin(p) + near - far + narrow + narrower
  BY DEF Scores, Breakout
<1>5. Scores(q)["Breakout"] = reach(q) - thin(q) + near - far + narrow + narrower
  <2>1. p.chart = q.chart /\ p.entry = q.entry /\ p.bbw = q.bbw
    BY DEF SameElse, SameProposal, SameIndicators, SameStructure
  <2> QED  BY <2>1 DEF Scores, Breakout
<1> HIDE DEF reach, thin, off, near, far, narrow, narrower
<1>6. Scores(p)["Breakout"] \in Int /\ Scores(q)["Breakout"] \in Int
     /\ Scores(p)["Breakout"] <= Scores(q)["Breakout"]
  BY <1>1, <1>2, <1>3, <1>4, <1>5
<1> QED  BY <1>6, SeatScore

LEMMA VolumeProfileMonotone ==
  ASSUME NEW p, NEW q, MoreVolume(p, q), Approves(p, "VolumeProfile")
  PROVE  Approves(q, "VolumeProfile")
<1> DEFINE sum(x) == 50 + Pts(x.vol > 15, 20) + Pts(x.vol \in 13..15, 10) - Pts(x.vol < 8, 20)
                  + Pts(x.volume = "surge", 30) + Pts(x.volume = "above_avg", 10)
                  - Pts(x.volume = "below_avg", 20)
<1>1. sum(p) \in Int /\ sum(q) \in Int /\ sum(p) <= sum(q)
  BY DEF Pts, MoreVolume, VolumeCharacter
<1>2. Scores(p)["VolumeProfile"] = Min({100, sum(p)}) /\ Scores(q)["VolumeProfile"] = Min({100, sum(q)})
  BY DEF Scores, VolumeProfile
<1> HIDE DEF sum
<1>3. /\ Min({100, sum(p)}) = IF 100 <= sum(p) THEN 100 ELSE sum(p)
      /\ Min({100, sum(q)}) = IF 100 <= sum(q) THEN 100 ELSE sum(q)
  BY <1>1, MinOf
<1>4. /\ Scores(p)["VolumeProfile"] \in Int /\ Scores(q)["VolumeProfile"] \in Int
      /\ Scores(p)["VolumeProfile"] <= Scores(q)["VolumeProfile"]
  BY <1>1, <1>2, <1>3
<1> QED  BY <1>4, SeatScore

LEMMA ConfluenceMonotone ==
  ASSUME NEW p, NEW q, SameElse(p, q), MoreVolume(p, q), Approves(p, "Confluence")
  PROVE  Approves(q, "Confluence")
<1>1. DOMAIN Agreements(p) = 1..7 /\ DOMAIN Agreements(q) = 1..7
  BY DEF Agreements
<1>2. \A i \in 1..7 : Agreements(p)[i] => Agreements(q)[i]
  <2>1. Agreements(p)[1] => Agreements(q)[1]  BY SameReadings DEF Agreements
  <2>2. Agreements(p)[2] => Agreements(q)[2]
    BY SameReadings DEF Agreements, SameElse, SameIndicators
  <2>3. Agreements(p)[3] => Agreements(q)[3]  BY SameReadings DEF Agreements
  <2>4. Agreements(p)[4] => Agreements(q)[4]
    BY DEF Agreements, SameElse, SameProposal, SameStructure
  <2>5. Agreements(p)[5] => Agreements(q)[5]  BY SameReadings DEF Agreements
  <2>6. Agreements(p)[6] => Agreements(q)[6]  BY SameReadings DEF Agreements
  <2>7. Agreements(p)[7] => Agreements(q)[7]
    <3>1. (Agreements(p)[7] <=> p.vol > 13) /\ (Agreements(q)[7] <=> q.vol > 13)  BY DEF Agreements
    <3>2. p.vol > 13 => q.vol > 13  BY DEF MoreVolume
    <3> QED  BY <3>1, <3>2
  <2>8. \A i \in 1..7 : i \in {1, 2, 3, 4, 5, 6, 7}  OBVIOUS
  <2> QED  BY <2>1, <2>2, <2>3, <2>4, <2>5, <2>6, <2>7, <2>8
<1>3. Agreed(p) \subseteq Agreed(q) /\ Agreed(p) \subseteq 1..7 /\ Agreed(q) \subseteq 1..7
  BY <1>1, <1>2 DEF Agreed
<1>4. Cardinality(Agreed(p)) \in Nat /\ Cardinality(Agreed(q)) \in Nat
     /\ Cardinality(Agreed(p)) <= Cardinality(Agreed(q))
  BY <1>3, AgreedFinite, FS_Subset
<1>5. /\ Scores(p)["Confluence"] = Min({100, 30 + 15 * Cardinality(Agreed(p))})
      /\ Scores(q)["Confluence"] = Min({100, 30 + 15 * Cardinality(Agreed(q))})
  BY DEF Scores, Confluence, Agreed, Agreements
<1> DEFINE m == Cardinality(Agreed(p))  n == Cardinality(Agreed(q))
<1>6. m \in Nat /\ n \in Nat /\ m <= n  BY <1>4
<1>7. Scores(p)["Confluence"] = Min({100, 30 + 15 * m}) /\ Scores(q)["Confluence"] = Min({100, 30
     + 15 * n})  BY <1>5
<1> HIDE DEF m, n
<1>8. /\ Min({100, 30 + 15 * m}) = IF 100 <= 30 + 15 * m THEN 100 ELSE 30 + 15 * m
      /\ Min({100, 30 + 15 * n}) = IF 100 <= 30 + 15 * n THEN 100 ELSE 30 + 15 * n
  BY <1>6, MinOf
<1>9. /\ Scores(p)["Confluence"] \in Int /\ Scores(q)["Confluence"] \in Int
      /\ Scores(p)["Confluence"] <= Scores(q)["Confluence"]
  BY <1>6, <1>7, <1>8
<1> QED  BY <1>9, SeatScore

LEMMA ApprovalsGrow ==
  ASSUME NEW p, NEW q, SameElse(p, q), MoreVolume(p, q), Sound(p)
  PROVE  Approvers(p) \subseteq Approvers(q)
<1> SUFFICES ASSUME NEW t \in Traders, Approves(p, t)
             PROVE  Approves(q, t)
  BY DEF Approvers
<1>1. CASE t \in DeafToVolume  BY <1>1, SameVotes
<1>2. CASE t = "Momentum"  BY <1>2, MomentumMonotone DEF Sound
<1>3. CASE t = "Breakout"  BY <1>3, BreakoutMonotone DEF Sound
<1>4. CASE t = "VolumeProfile"  BY <1>4, VolumeProfileMonotone
<1>5. CASE t = "Confluence"  BY <1>5, ConfluenceMonotone
<1> QED  BY <1>1, <1>2, <1>3, <1>4, <1>5 DEF DeafToVolume

-----------------------------------------------------------------------------
(* The packets a bar can come to.                                          *)

\* A packet the builder has made, and the votes on it.
Built ==
  packet # None =>
    /\ \E prop, f, st, names, chart : packet = Packet(prop, f, st, names, chart)
    /\ Sound(packet)
    /\ \E c \in Contexts : tally = Tally(packet, c.failing)

LEMMA BarFields ==
  ASSUME NEW f \in FeatureBars
  PROVE  /\ f \in FeatureVector
         /\ f.c \in Nat \ {0} /\ f.atr \in Nat /\ f.atrSma \in Int /\ f.adx \in Int
         /\ f.rsi \in Int /\ f.vol \in Int /\ f.bbw \in Int
<1>1. f \in FeatureVector /\ f.c > 0  BY ChainAssumption
<1> QED  BY <1>1 DEF FeatureVector

LEMMA DirectedProposal ==
  ASSUME NEW signals, NEW f \in FeatureBars, NEW h4, NEW atLevel, NEW winRate,
         Proposal(signals, Regime(f), f, h4, atLevel, winRate) # None
  PROVE  LET prop == Proposal(signals, Regime(f), f, h4, atLevel, winRate)
         IN /\ prop.dir \in {"long", "short"}
            /\ prop.dir = "long" => Regime(f).macro # "bear"
            /\ prop.dir = "short" => f.adx > 30
            /\ prop.entry = f.c
            /\ prop.regime = Regime(f)
<1> DEFINE dir == Majority(signals)
           composite == Composite(Toward(signals, dir), dir, Regime(f), f, atLevel, winRate)
<1>1. dir \in {"long", "short"}  BY DEF Majority
<1> HIDE DEF dir, composite
<1>2. /\ Proposal(signals, Regime(f), f, h4, atLevel, winRate)
           = [dir |-> dir, entry |-> f.c, composite |-> composite, regime |-> Regime(f)]
      /\ ~Filtered(dir, Regime(f), f, h4)
  BY DEF Proposal, dir, composite
<1>3. (dir = "long" => Regime(f).macro # "bear") /\ (dir = "short" => f.adx > 30)
  <2>1. Regime(f).adx = f.adx  BY DEF Regime
  <2>2. f.adx \in Int  BY BarFields
  <2> QED  BY <1>2, <2>1, <2>2 DEF Filtered
<1> QED  BY <1>1, <1>2, <1>3

LEMMA TermsSound ==
  ASSUME NEW f \in FeatureBars, NEW prop, prop.entry = f.c
  PROVE  LET terms == Terms(prop, f)
         IN /\ terms.stopPct \in Int
            /\ terms.rr \in {0, 20}
            /\ terms.rr = 0 => terms.stopPct = 0
            /\ terms.quality \in {"A", "B", "C", "invalid"}
            /\ terms.leverage \in Int /\ terms.leverage <= 30
<1>1. f.c \in Nat \ {0} /\ f.atr \in Nat  BY BarFields
<1> DEFINE d == StopDistance(f)  pct == (10000 * d) \div f.c  lev == (10 * f.c) \div d
<1>2. d \in Nat /\ d = 2 * f.atr  BY <1>1 DEF StopDistance
<1>3. pct \in Int /\ (d = 0 => pct = 0)
  <2> HIDE DEF d
  <2>1. \A a \in Nat, b \in Nat \ {0} : (10000 * a) \div b \in Int /\ (10000 * 0) \div b = 0  OBVIOUS
  <2> QED  BY <1>1, <1>2, <2>1
<1>4. d > 0 => lev \in Int
  <2> HIDE DEF d
  <2>1. \A a \in Nat, b \in Nat \ {0} : (10 * a) \div b \in Int  OBVIOUS
  <2> QED  BY <1>1, <1>2, <2>1
<1>5. SetupQuality(prop.composite) \in {"A", "B", "C", "invalid"}  BY DEF SetupQuality
<1>6. Terms(prop, f) = [stopPct |-> pct, rr |-> IF d > 0 THEN 20 ELSE 0,
                        leverage |-> IF d > 0 THEN Min({lev, 30}) ELSE 10,
                        quality |-> SetupQuality(prop.composite)]
  BY DEF Terms
<1> HIDE DEF d, pct, lev
<1>7. d > 0 => Min({lev, 30}) = IF lev <= 30 THEN lev ELSE 30  BY <1>4, MinOf
<1> QED  BY <1>2, <1>3, <1>4, <1>5, <1>6, <1>7

LEMMA PacketSound ==
  ASSUME NEW f \in FeatureBars, NEW c \in Contexts, NEW names, NEW prop,
         prop.dir \in {"long", "short"},
         prop.dir = "long" => Regime(f).macro # "bear",
         prop.dir = "short" => f.adx > 30,
         prop.entry = f.c,
         prop.regime = Regime(f)
  PROVE  Sound(Packet(prop, f, c.st, names, c.chart))
<1> DEFINE p == Packet(prop, f, c.st, names, c.chart)
           levels == IF c.st = None THEN NoLevels ELSE c.st
<1>1. /\ f.c \in Nat \ {0} /\ f.atr \in Nat /\ f.atrSma \in Int /\ f.adx \in Int
      /\ f.rsi \in Int /\ f.vol \in Int /\ f.bbw \in Int
  BY BarFields
<1>2. /\ p.dir = prop.dir /\ p.regime = Regime(f) /\ p.terms = Terms(prop, f) /\ p.ema = Alignment(f)
      /\ p.rsi = f.rsi /\ p.adx = f.adx /\ p.vol = f.vol /\ p.bbw = f.bbw /\ p.atr = f.atr
        /\ p.atrSma = f.atrSma
      /\ p.volume = VolumeCharacter(f) /\ p.volatility = Volatility(f)
      /\ p.levels = levels /\ p.chart = ChartSnapshot(c.chart)
  BY DEF Packet
<1>3. levels.quality \in {"none", "weak", "moderate"}
  BY ChainAssumption DEF NoLevels, StructuralLevels
<1> HIDE DEF p, levels
<1>4. Measured(p)
  BY <1>1, <1>2, TermsSound DEF Measured
<1>5. Termed(p)
  BY <1>2, TermsSound DEF Termed
<1>6. Aimed(p)
  <2>1. Regime(f).trending = (f.adx > 25)  BY DEF Regime
  <2>2. Regime(f).macro = "bull" => Alignment(f) \in {"full_bull", "partial_bull"}
    BY DEF Regime, Alignment
  <2> QED  BY <1>2, <2>1, <2>2 DEF Aimed, Long
<1>7. Classified(p)
  <2>1. VolumeCharacter(p) = VolumeCharacter(f)  BY <1>2 DEF VolumeCharacter
  <2>2. \A n : (AtrAbove(p, n) <=> AtrAbove(f, n)) /\ (AtrBelow(p, n) <=> AtrBelow(f, n))
    BY <1>2 DEF AtrAbove, AtrBelow
  <2>3. Volatility(p) = Volatility(f)  BY <2>2 DEF Volatility
  <2>4. ~(AtrAbove(f, 15) /\ AtrBelow(f, 7))
    BY <1>1 DEF AtrAbove, AtrBelow
  <2> QED  BY <1>2, <2>1, <2>2, <2>3, <2>4 DEF Classified
<1>8. Charted(p)
  BY <1>2, <1>3, ChainAssumption DEF Charted, ChartSnapshot
<1>9. Sound(p)  BY <1>4, <1>5, <1>6, <1>7, <1>8 DEF Sound
<1> QED  BY <1>9 DEF p

(* Every packet is one the builder makes from a bar, so it is sound.       *)
THEOREM PacketsAreBuilt == ChainSpec => []Built
<1>1. ChainInit => Built
  BY DEF ChainInit, Built
<1>2. Built /\ [ChainNext]_chainVars => Built'
  <2> SUFFICES ASSUME Built, [ChainNext]_chainVars
               PROVE  Built'
    OBVIOUS
  <2>1. CASE ChainNext
    <3>1. PICK f \in FeatureBars, c \in Contexts : BarClosed(f, c)  BY <2>1 DEF ChainNext
    <3> SUFFICES ASSUME packet' # None
                 PROVE  /\ \E prop, g, st, names, chart : packet' = Packet(prop, g, st, names, chart)
                        /\ Sound(packet')
                        /\ \E d \in Contexts : tally' = Tally(packet', d.failing)
      BY DEF Built
    <3>2. indicators'.regime = Regime(f)
      BY <3>1 DEF BarClosed, IndicatorsBar
    <3> DEFINE signals == indicators'.signals \cup CandleSignals(candles')
    <3>3. /\ proposal' = Proposal(signals, Regime(f), f, c.h4, AtStructure(c.st), c.winRate)
          /\ packet' = IF proposal' = None THEN None ELSE Packet(proposal', f, c.st, candles', c.chart)
          /\ tally' = IF packet' = None THEN None ELSE Tally(packet', c.failing)
      BY <3>1, <3>2 DEF BarClosed
    <3> HIDE DEF signals
    <3>4. proposal' # None /\ packet' = Packet(proposal', f, c.st, candles', c.chart)
      BY <3>3
    <3>5. /\ proposal'.dir \in {"long", "short"}
          /\ proposal'.dir = "long" => Regime(f).macro # "bear"
          /\ proposal'.dir = "short" => f.adx > 30
          /\ proposal'.entry = f.c
          /\ proposal'.regime = Regime(f)
      BY <3>3, <3>4, DirectedProposal
    <3>6. Sound(packet')
      BY <3>4, <3>5, PacketSound
    <3>7. \E d \in Contexts : tally' = Tally(packet', d.failing)
      BY <3>3
    <3> QED  BY <3>4, <3>6, <3>7
  <2>2. CASE UNCHANGED chainVars
    BY <2>2 DEF chainVars, Built
  <2> QED  BY <2>1, <2>2
<1> QED  BY <1>1, <1>2, PTL DEF ChainSpec

-----------------------------------------------------------------------------
(* The theorems.                                                           *)

LEMMA Counts ==
  ASSUME NEW p, NEW failing
  PROVE  /\ Tally(p, failing).approve = {t \in Traders \ failing : Approves(p, t)}
         /\ Tally(p, failing).voters = Cardinality(Traders \ failing)
         /\ Tally(p, failing).total = Total(Scores(p), failing)
  BY DEF Tally, Approves

LEMMA Threshold ==
  ASSUME NEW p
  PROVE  ApproveThreshold(p, Symbol) \in {15, 16}
  BY DEF ApproveThreshold

LEMMA SurvivorsApprove ==
  ASSUME NEW p, NEW failing, Recommends(p, Tally(p, failing), Symbol)
  PROVE  Cardinality(Approvers(p)) >= ApproveThreshold(p, Symbol)
<1> DEFINE A == Tally(p, failing).approve
<1>1. A = {t \in Traders \ failing : Approves(p, t)}  BY Counts
<1>2. IsFiniteSet(Approvers(p))  BY ApprovalsAdd
<1>3. Cardinality(A) >= ApproveThreshold(p, Symbol)  BY DEF Recommends
<1> HIDE DEF A
<1>4. A \subseteq Approvers(p)  BY <1>1 DEF Approvers
<1>5. IsFiniteSet(A) /\ Cardinality(A) <= Cardinality(Approvers(p))  BY <1>4, <1>2, FS_Subset
<1>6. Cardinality(A) \in Nat /\ Cardinality(Approvers(p)) \in Nat  BY <1>2, <1>5, FS_CardinalityType
<1> QED  BY <1>3, <1>5, <1>6, Threshold

LEMMA TwentyTraders == Cardinality(Traders) = 20
<1>1. Traders = {"TrendFollowing", "Momentum", "MeanReversion", "Breakout", "Structure", "Candlestick",
     "RiskParity", "Volatility", "VolumeProfile", "MacroRegime", "Contrary", "ProfitTarget", "EntryTiming",
       "Confluence", "DrawdownRisk", "LeverageSpecialist", "PatternCompletion", "WickAnalysis",
         "MarketContext", "ExecutionQuality"}
  BY DEF Traders
<1>2. \A t \in Traders : OneFor(t, Traders) = 1  BY DEF OneFor
<1> QED  BY <1>1, <1>2, TwentySeats

(* What the survivors of a failing evaluator recommend, all twenty would   *)
(* have recommended.                                                       *)
THEOREM FailuresOpenNoTrade == ChainSpec => []FailureNeverEnters
<1>1. Built => FailureNeverEnters
  <2> SUFFICES ASSUME Built, Judged, NEW t \in Traders, Recommends(packet, Tally(packet, {t}), Symbol)
               PROVE  Recommends(packet, Tally(packet, {}), Symbol)
    BY DEF FailureNeverEnters
  <2>1. Sound(packet)  BY DEF Built, Judged
  <2>2. Cardinality(Approvers(packet)) >= ApproveThreshold(packet, Symbol)
    BY SurvivorsApprove
  <2>3. Cardinality(Approvers(packet)) \in Nat  BY ApprovalsAdd, FS_CardinalityType
  <2>4. Total(Scores(packet), {}) \in Int /\ Total(Scores(packet), {}) >= 58 * 20
    BY <2>1, <2>2, <2>3, Threshold, FloorNeverBinds
  <2>5. /\ Tally(packet, {}).approve = Approvers(packet)
        /\ Tally(packet, {}).voters = 20
        /\ Tally(packet, {}).total = Total(Scores(packet), {})
    <3>1. Traders \ {} = Traders  OBVIOUS
    <3> QED  BY <3>1, Counts, TwentyTraders DEF Approvers
  <2> QED  BY <2>2, <2>4, <2>5 DEF Recommends, MinAvgScore
<1> QED  BY <1>1, PacketsAreBuilt, PTL

(* A larger volume on the same setup keeps every approval.                 *)
THEOREM VolumeOnlyHelps == ChainSpec => []VolumeNeverCosts
<1>1. Built => VolumeNeverCosts
  <2> SUFFICES ASSUME Built, Judged, NEW v \in {8, 12, 13, 16, 21}, v > packet.vol
               PROVE  LET more == [packet EXCEPT !.vol = v, !.volume = VolumeCharacter([vol |-> v])]
                      IN Tally(packet, {}).approve \subseteq Tally(more, {}).approve
    BY DEF VolumeNeverCosts
  <2> DEFINE volume == VolumeCharacter([vol |-> v])
             more == [packet EXCEPT !.vol = v, !.volume = volume]
  <2>1. Sound(packet)  BY DEF Built, Judged
  <2>2. SameElse(packet, more) /\ more.vol = v /\ more.volume = volume
    <3>1. PICK prop, f, st, names, chart : packet = Packet(prop, f, st, names, chart)  BY DEF Built, Judged
    <3> HIDE DEF volume
    <3>2. SameElse(packet, more)
      BY <3>1 DEF Packet, SameElse, SameProposal, SameIndicators, SameStructure
    <3>3. more.vol = v /\ more.volume = volume  BY <3>1 DEF Packet
    <3> QED  BY <3>2, <3>3
  <2>3. MoreVolume(packet, more)
    <3>1. packet.vol \in Int /\ packet.volume = VolumeCharacter(packet)  BY <2>1 DEF Sound, Measured, Classified
    <3>2. VolumeCharacter([vol |-> v]) = VolumeCharacter([more EXCEPT !.vol = v])  BY DEF VolumeCharacter
    <3> QED  BY <2>2, <3>1 DEF MoreVolume, VolumeCharacter
  <2> HIDE DEF more
  <2>4. Approvers(packet) \subseteq Approvers(more)  BY <2>1, <2>2, <2>3, ApprovalsGrow
  <2> QED  BY <2>4, Counts DEF Approvers, more
<1> QED  BY <1>1, PacketsAreBuilt, PTL

(* Each weakness costs two seats, and two seats never approve.             *)
LEMMA WeakSeats ==
  ASSUME NEW p, Sound(p)
  PROVE  /\ ~Approves(p, "Contrary") /\ ~Approves(p, "DrawdownRisk")
         /\ ~AtLevel(p) => ~Approves(p, "MeanReversion") /\ ~Approves(p, "WickAnalysis")
         /\ Thin(p) => ~Approves(p, "Breakout") /\ ~Approves(p, "VolumeProfile")
         /\ Invalid(p) => ~Approves(p, "LeverageSpecialist") /\ ~Approves(p, "ExecutionQuality")
         /\ MacroOpposes(p) => ~Approves(p, "MacroRegime") /\ ~Approves(p, "TrendFollowing")
<1>1. ~Approves(p, "Contrary") /\ ~Approves(p, "DrawdownRisk")
  BY ContrarySeat, DrawdownRiskSeat DEF ContraryGives, DrawdownRiskGives
<1>2. ~AtLevel(p) => ~Approves(p, "MeanReversion") /\ ~Approves(p, "WickAnalysis")
  BY MeanReversionSeat, WickAnalysisSeat DEF MeanReversionGives, WickAnalysisGives
<1>3. Thin(p) => ~Approves(p, "Breakout") /\ ~Approves(p, "VolumeProfile")
  BY BreakoutSeat, VolumeProfileSeat DEF BreakoutGives, VolumeProfileGives
<1>4. Invalid(p) => ~Approves(p, "LeverageSpecialist") /\ ~Approves(p, "ExecutionQuality")
  BY LeverageSpecialistSeat, ExecutionQualitySeat DEF LeverageSpecialistGives, ExecutionQualityGives
<1>5. MacroOpposes(p) => ~Approves(p, "MacroRegime") /\ ~Approves(p, "TrendFollowing")
  BY MacroRegimeSeat, TrendFollowingSeat DEF MacroRegimeGives, TrendFollowingGives
<1> QED  BY <1>1, <1>2, <1>3, <1>4, <1>5

LEMMA TwoWeaknessesLose ==
  ASSUME NEW p, Sound(p), NEW w \in Weaknesses(p), NEW x \in Weaknesses(p), w # x
  PROVE  Cardinality(Approvers(p)) <= 14
<1>1. w \in {"no level", "thin", "invalid", "against"} /\ x \in {"no level", "thin", "invalid", "against"}
  BY DEF Weaknesses
<1>2. \A y \in Weaknesses(p) :
        /\ y = "no level" => ~AtLevel(p)
        /\ y = "thin" => Thin(p)
        /\ y = "invalid" => Invalid(p)
        /\ y = "against" => MacroOpposes(p)
  <2>1. p.volume = "below_avg" => Thin(p)
    BY DEF Sound, Measured, Classified, VolumeCharacter, Thin
  <2> QED  BY <2>1 DEF Weaknesses, Invalid
<1> DEFINE lost(a, b) == ~Approves(p, a) /\ ~Approves(p, b)
<1>3. /\ lost("Contrary", "DrawdownRisk")
      /\ \/ lost("MeanReversion", "WickAnalysis") /\ lost("Breakout", "VolumeProfile")
         \/ lost("MeanReversion", "WickAnalysis") /\ lost("LeverageSpecialist", "ExecutionQuality")
         \/ lost("MeanReversion", "WickAnalysis") /\ lost("MacroRegime", "TrendFollowing")
         \/ lost("Breakout", "VolumeProfile") /\ lost("LeverageSpecialist", "ExecutionQuality")
         \/ lost("Breakout", "VolumeProfile") /\ lost("MacroRegime", "TrendFollowing")
         \/ lost("LeverageSpecialist", "ExecutionQuality") /\ lost("MacroRegime", "TrendFollowing")
  <2>1. /\ w = "no level" => lost("MeanReversion", "WickAnalysis")
        /\ w = "thin" => lost("Breakout", "VolumeProfile")
        /\ w = "invalid" => lost("LeverageSpecialist", "ExecutionQuality")
        /\ w = "against" => lost("MacroRegime", "TrendFollowing")
    BY <1>2, WeakSeats
  <2>2. /\ x = "no level" => lost("MeanReversion", "WickAnalysis")
        /\ x = "thin" => lost("Breakout", "VolumeProfile")
        /\ x = "invalid" => lost("LeverageSpecialist", "ExecutionQuality")
        /\ x = "against" => lost("MacroRegime", "TrendFollowing")
    BY <1>2, WeakSeats
  <2>3. lost("Contrary", "DrawdownRisk")  BY WeakSeats
  <2> HIDE DEF lost
  <2> QED  BY <1>1, <2>1, <2>2, <2>3
<1> QED  BY <1>3, ApprovalsAdd DEF Ayes, Aye, Pts

LEMMA AtMostOne ==
  ASSUME NEW S, IsFiniteSet(S), \A x \in S, y \in S : x = y
  PROVE  Cardinality(S) <= 1
<1>1. CASE S = {}  BY <1>1, FS_EmptySet
<1>2. CASE S # {}
  <2>1. PICK x : S = {x}  BY <1>2
  <2> QED  BY <2>1, FS_Singleton
<1> QED  BY <1>1, <1>2

(* A recommended trade has at most one of the four weaknesses.             *)
THEOREM WeaknessesAddUp == ChainSpec => []OneWeaknessAtMost
<1>1. Built => OneWeaknessAtMost
  <2> SUFFICES ASSUME Built, Judged, Recommends(packet, tally, Symbol)
               PROVE  Cardinality(Weaknesses(packet)) <= 1
    BY DEF OneWeaknessAtMost
  <2>1. Sound(packet)  BY DEF Built, Judged
  <2>2. PICK c \in Contexts : tally = Tally(packet, c.failing)  BY DEF Built, Judged
  <2>3. Cardinality(Approvers(packet)) >= ApproveThreshold(packet, Symbol)
    BY <2>2, SurvivorsApprove
  <2>4. Cardinality(Approvers(packet)) \in Nat  BY ApprovalsAdd, FS_CardinalityType
  <2>5. ~(Cardinality(Approvers(packet)) <= 14)  BY <2>3, <2>4, Threshold
  <2>6. \A w \in Weaknesses(packet), x \in Weaknesses(packet) : w = x
    BY <2>1, <2>5, TwoWeaknessesLose
  <2>7. IsFiniteSet(Weaknesses(packet))
    <3>1. IsFiniteSet({"no level", "thin", "invalid", "against", "against"})  BY FiniteFive
    <3>2. Weaknesses(packet) \subseteq {"no level", "thin", "invalid", "against", "against"}  BY DEF Weaknesses
    <3> QED  BY <3>1, <3>2, FS_Subset
  <2> QED  BY <2>6, <2>7, AtMostOne
<1> QED  BY <1>1, PacketsAreBuilt, PTL

-----------------------------------------------------------------------------
(* Both sides.                                                             *)

Fields == {"o", "h", "l", "c", "e20", "e50", "e200", "pe20", "pe50", "bbU", "bbM", "bbL", "bbw",
   "rsi", "prsi", "adx", "macd", "vol", "atr", "atrSma"}
LEMMA VectorFields ==
  ASSUME NEW f \in FeatureVector
  PROVE  /\ f = [x \in Fields |-> f[x]]
         /\ \A x \in Fields : f[x] \in Int
         /\ f.atr \in Nat
  BY DEF FeatureVector, Fields

LEMMA Mirrored ==
  ASSUME NEW f \in FeatureVector
  PROVE  LET g == MirrorBar(f)
         IN /\ g = [x \in Fields |-> g[x]]
            /\ g.o = Flip(f.o) /\ g.c = Flip(f.c) /\ g.h = Flip(f.l) /\ g.l = Flip(f.h)
            /\ g.e20 = Flip(f.e20) /\ g.e50 = Flip(f.e50) /\ g.e200 = Flip(f.e200)
            /\ g.pe20 = Flip(f.pe20) /\ g.pe50 = Flip(f.pe50)
            /\ g.bbU = Flip(f.bbL) /\ g.bbM = Flip(f.bbM) /\ g.bbL = Flip(f.bbU)
            /\ g.rsi = 100 - f.rsi /\ g.prsi = 100 - f.prsi /\ g.macd = -f.macd
            /\ g.adx = f.adx /\ g.vol = f.vol /\ g.atr = f.atr /\ g.atrSma = f.atrSma /\ g.bbw = f.bbw
<1> DEFINE g == MirrorBar(f)
<1>1. f = [x \in Fields |-> f[x]]  BY VectorFields
<1>2. /\ g.o = Flip(f.o) /\ g.c = Flip(f.c) /\ g.h = Flip(f.l) /\ g.l = Flip(f.h)
  BY <1>1 DEF MirrorBar, Fields
<1>3.  /\ g.e20 = Flip(f.e20) /\ g.e50 = Flip(f.e50) /\ g.e200 = Flip(f.e200)
  BY <1>1 DEF MirrorBar, Fields
<1>4.       /\ g.pe20 = Flip(f.pe20) /\ g.pe50 = Flip(f.pe50)
  BY <1>1 DEF MirrorBar, Fields
<1>5.       /\ g.bbU = Flip(f.bbL) /\ g.bbM = Flip(f.bbM) /\ g.bbL = Flip(f.bbU)
  BY <1>1 DEF MirrorBar, Fields
<1>6.       /\ g.rsi = 100 - f.rsi /\ g.prsi = 100 - f.prsi /\ g.macd = -f.macd
  BY <1>1 DEF MirrorBar, Fields
<1>7.       /\ g.adx = f.adx /\ g.vol = f.vol /\ g.atr = f.atr /\ g.atrSma = f.atrSma /\ g.bbw = f.bbw
  BY <1>1 DEF MirrorBar, Fields
<1>8. g = [x \in Fields |-> g[x]]
  BY <1>1 DEF MirrorBar
<1> QED  BY <1>2, <1>3, <1>4, <1>5, <1>6, <1>7, <1>8

\* What a bar and its reflection have to do with each other.
Upturned(f, g) ==
  /\ g.o = 2000 - f.o /\ g.c = 2000 - f.c /\ g.h = 2000 - f.l /\ g.l = 2000 - f.h
  /\ g.e20 = 2000 - f.e20 /\ g.e50 = 2000 - f.e50 /\ g.e200 = 2000 - f.e200
  /\ g.pe20 = 2000 - f.pe20 /\ g.pe50 = 2000 - f.pe50
  /\ g.bbU = 2000 - f.bbL /\ g.bbL = 2000 - f.bbU
  /\ g.rsi = 100 - f.rsi /\ g.prsi = 100 - f.prsi /\ g.macd = -f.macd
  /\ g.adx = f.adx /\ g.vol = f.vol /\ g.atr = f.atr /\ g.bbw = f.bbw
Whole(f) ==
  /\ f.o \in Int /\ f.c \in Int /\ f.h \in Int /\ f.l \in Int
  /\ f.e20 \in Int /\ f.e50 \in Int /\ f.e200 \in Int /\ f.pe20 \in Int /\ f.pe50 \in Int
  /\ f.bbU \in Int /\ f.bbL \in Int
  /\ f.rsi \in Int /\ f.prsi \in Int /\ f.macd \in Int
  /\ f.adx \in Int /\ f.vol \in Int /\ f.atr \in Int /\ f.bbw \in Int

LEMMA OneCounterpart ==
  /\ \A p, q \in Pairs : p[1] = q[1] \/ p[2] = q[2] => p = q
  /\ \A p, q \in Pairs : p[1] # q[2]
  BY DEF Pairs

LEMMA Reflections ==
  /\ Reflected({}) = {}
  /\ \A S, T : Reflected(S \cup T) = Reflected(S) \cup Reflected(T)
  BY DEF Reflected

Turned(n, m) == Reflected({n}) = {m} /\ Reflected({m}) = {n}

LEMMA PairsTurn ==
  ASSUME NEW n, NEW m, <<n, m>> \in Pairs
  PROVE  Turned(n, m)
<1> DEFINE p == <<n, m>>
<1>1. p \in Pairs /\ p[1] = n /\ p[2] = m  OBVIOUS
<1> HIDE DEF p
<1>2. {q \in Pairs : q[1] \in {n}} = {p} /\ {q \in Pairs : q[2] \in {m}} = {p}
      /\ {q \in Pairs : q[1] \in {m}} = {} /\ {q \in Pairs : q[2] \in {n}} = {}
  BY <1>1, OneCounterpart
<1> QED  BY <1>1, <1>2 DEF Turned, Reflected

LEMMA IndicatorsTurn ==
  /\ Turned("golden_cross", "death_cross")
  /\ Turned("trend_continuation_long", "trend_continuation_short")
  /\ Turned("rsi_oversold_bounce", "rsi_overbought_fade")
  /\ Turned("rsi_bullish_divergence", "rsi_bearish_divergence")
  /\ Turned("macd_bullish_cross", "macd_bearish_cross")
  /\ Turned("macd_histogram_turn_up", "macd_histogram_turn_down")
  /\ Turned("bb_squeeze_breakout_long", "bb_squeeze_breakout_short")
  /\ Turned("rsi_mean_reversion_long", "rsi_mean_reversion_short")
  /\ Turned("volume_breakout_long", "volume_breakout_short")
  BY PairsTurn DEF Pairs

LEMMA AnatomyTurns ==
  ASSUME NEW f, NEW g, Whole(f), Upturned(f, g)
  PROVE  /\ Body(f) \in Int /\ Body(g) = Body(f)
         /\ CandleRange(f) \in Int /\ CandleRange(g) = CandleRange(f)
         /\ Bullish(g) <=> Bearish(f)
         /\ Bearish(g) <=> Bullish(f)
         /\ Impulse(g) <=> Impulse(f)
         /\ Doji(g) <=> Doji(f)
         /\ FullBull(g) <=> FullBear(f)
         /\ FullBear(g) <=> FullBull(f)
  BY DEF Whole, Upturned, Body, CandleRange, Bullish, Bearish, Impulse, Doji, BodyBelow, FullBull, FullBear, Abs

LEMMA TwoSided ==
  ASSUME NEW n, NEW m, Turned(n, m), NEW a \in BOOLEAN, NEW b \in BOOLEAN
  PROVE  Only(b, n) \cup Only(a, m) = Reflected(Only(a, n) \cup Only(b, m))
<1>1. Reflected(Only(a, n)) = Only(a, m) /\ Reflected(Only(b, m)) = Only(b, n)
  BY Reflections DEF Only, Turned
<1> QED  BY <1>1, Reflections

LEMMA EmaCrossoverTurns ==
  ASSUME NEW f, NEW g, Whole(f), Upturned(f, g)
  PROVE  EmaCrossover(g) = Reflected(EmaCrossover(f))
<1> DEFINE up(x) == x.pe20 < x.pe50 /\ x.e20 > x.e50
           down(x) == x.pe20 > x.pe50 /\ x.e20 < x.e50
           crossed(x) == Only(up(x), "golden_cross") \cup Only(down(x), "death_cross")
<1>1. /\ g.adx = f.adx /\ (up(g) = down(f)) /\ (down(g) = up(f))
      /\ up(f) \in BOOLEAN /\ down(f) \in BOOLEAN
  BY DEF Whole, Upturned
<1>2. /\ EmaCrossover(f) = IF f.adx < EmaCrossAdxMin THEN {} ELSE crossed(f)
      /\ EmaCrossover(g) = IF g.adx < EmaCrossAdxMin THEN {} ELSE crossed(g)
  BY DEF EmaCrossover
<1> HIDE DEF up, down
<1>3. crossed(g) = Reflected(crossed(f))
  BY <1>1, TwoSided, IndicatorsTurn
<1> HIDE DEF crossed
<1> QED  BY <1>1, <1>2, <1>3, Reflections

LEMMA RsiMeanReversionTurns ==
  ASSUME NEW f, NEW g, Whole(f), Upturned(f, g)
  PROVE  RsiMeanReversion(g) = Reflected(RsiMeanReversion(f))
<1> DEFINE up(x) == x.prsi < 35 /\ x.rsi >= 35 /\ x.rsi < 55
           down(x) == x.prsi > 65 /\ x.rsi <= 65 /\ x.rsi > 45
           reverts(x) == Only(up(x), "rsi_mean_reversion_long") \cup Only(down(x), "rsi_mean_reversion_short")
<1>1. /\ Impulse(g) <=> Impulse(f)
      /\ up(g) = down(f) /\ down(g) = up(f)
      /\ up(f) \in BOOLEAN /\ down(f) \in BOOLEAN
  BY AnatomyTurns DEF Whole, Upturned
<1>2. /\ RsiMeanReversion(f) = IF Impulse(f) THEN {} ELSE reverts(f)
      /\ RsiMeanReversion(g) = IF Impulse(g) THEN {} ELSE reverts(g)
  BY DEF RsiMeanReversion
<1> HIDE DEF up, down
<1>3. reverts(g) = Reflected(reverts(f))
  BY <1>1, TwoSided, IndicatorsTurn
<1> HIDE DEF reverts
<1> QED  BY <1>1, <1>2, <1>3, Reflections

LEMMA VolumeBreakoutTurns ==
  ASSUME NEW f, NEW g, Whole(f), Upturned(f, g)
  PROVE  VolumeBreakout(g) = Reflected(VolumeBreakout(f))
<1> DEFINE breaks(x) == Only(Bullish(x), "volume_breakout_long") \cup Only(Bearish(x), "volume_breakout_short")
           weak(x) == x.vol < 20 \/ x.adx < 15 \/ 2 * Body(x) < (IF x.atr > 0 THEN x.atr ELSE 1)
<1>1. /\ weak(g) <=> weak(f)
      /\ Bullish(g) = Bearish(f) /\ Bearish(g) = Bullish(f)
      /\ Bullish(f) \in BOOLEAN /\ Bearish(f) \in BOOLEAN
  <2>1. Body(g) = Body(f) /\ g.vol = f.vol /\ g.adx = f.adx /\ g.atr = f.atr
    BY AnatomyTurns DEF Upturned
  <2>2. weak(g) <=> weak(f)  BY <2>1
  <2>3. Bullish(f) \in BOOLEAN /\ Bearish(f) \in BOOLEAN /\ Bullish(g) \in BOOLEAN /\ Bearish(g) \in BOOLEAN
    BY DEF Bullish, Bearish
  <2> QED  BY <2>2, <2>3, AnatomyTurns
<1>2. /\ VolumeBreakout(f) = IF weak(f) THEN {} ELSE breaks(f)
      /\ VolumeBreakout(g) = IF weak(g) THEN {} ELSE breaks(g)
  BY DEF VolumeBreakout
<1> HIDE DEF weak
<1>3. breaks(g) = Reflected(breaks(f))
  BY <1>1, TwoSided, IndicatorsTurn
<1> HIDE DEF breaks
<1> QED  BY <1>1, <1>2, <1>3, Reflections

LEMMA BandBreakoutTurns ==
  ASSUME NEW f, NEW g, Whole(f), Upturned(f, g), NEW active
  PROVE  BandBreakout(g, active) = Reflected(BandBreakout(f, active))
<1> DEFINE up(x) == x.c > x.bbU
           down(x) == x.c < x.bbL
           breaks(x) == Only(up(x), "bb_squeeze_breakout_long") \cup Only(down(x), "bb_squeeze_breakout_short")
           waits(x) == Squeezed(x) \/ ~active \/ x.vol <= 12
<1>1. /\ waits(g) <=> waits(f)
      /\ up(g) = down(f) /\ down(g) = up(f)
      /\ up(f) \in BOOLEAN /\ down(f) \in BOOLEAN
  BY DEF Whole, Upturned, Squeezed
<1>2. /\ BandBreakout(f, active) = IF waits(f) THEN {} ELSE breaks(f)
      /\ BandBreakout(g, active) = IF waits(g) THEN {} ELSE breaks(g)
  BY DEF BandBreakout
<1> HIDE DEF up, down, waits
<1>3. breaks(g) = Reflected(breaks(f))
  BY <1>1, TwoSided, IndicatorsTurn
<1> HIDE DEF breaks
<1> QED  BY <1>1, <1>2, <1>3, Reflections

LEMMA MacdTurns ==
  ASSUME NEW now \in Int, NEW before \in Int
  PROVE  MacdSignal(-now, -before) = Reflected(MacdSignal(now, before))
<1> DEFINE up(x, y) == y <= 0 /\ x > 0
           down(x, y) == y >= 0 /\ x < 0
           turnsUp(x, y) == y < 0 /\ x > y /\ x < 0
           turnsDown(x, y) == y > 0 /\ x < y /\ x > 0
           turns(x, y) == Only(turnsUp(x, y), "macd_histogram_turn_up")
                            \cup Only(turnsDown(x, y), "macd_histogram_turn_down")
<1>1. /\ up(-now, -before) = down(now, before)
      /\ down(-now, -before) = up(now, before)
      /\ ~(up(now, before) /\ down(now, before))
      /\ turnsUp(-now, -before) = turnsDown(now, before)
      /\ turnsDown(-now, -before) = turnsUp(now, before)
      /\ turnsUp(now, before) \in BOOLEAN /\ turnsDown(now, before) \in BOOLEAN
  OBVIOUS
<1>2. \A x, y : MacdSignal(x, y) = IF up(x, y) THEN {"macd_bullish_cross"}
                                   ELSE IF down(x, y) THEN {"macd_bearish_cross"}
                                   ELSE turns(x, y)
  BY DEF MacdSignal
<1> HIDE DEF up, down, turnsUp, turnsDown
<1>3. turns(-now, -before) = Reflected(turns(now, before))
  BY <1>1, TwoSided, IndicatorsTurn
<1> HIDE DEF turns
<1>4. /\ Reflected({"macd_bullish_cross"}) = {"macd_bearish_cross"}
      /\ Reflected({"macd_bearish_cross"}) = {"macd_bullish_cross"}
  BY IndicatorsTurn DEF Turned
<1> QED  BY <1>1, <1>2, <1>3, <1>4

Continuation == {"trend_continuation_long", "trend_continuation_short"}

LEMMA ContinuationTurns ==
  ASSUME NEW f, Whole(f), NEW g, g = MirrorBar(f), Upturned(f, g)
  PROVE  /\ ByPercentage(f) \in {{}, Continuation}
         /\ TrendContinuation(f) \subseteq Continuation /\ TrendContinuation(g) \subseteq Continuation
         /\ ByPercentage(f) = {} => TrendContinuation(g) = Reflected(TrendContinuation(f))
<1> DEFINE up(x) == FullBull(x) /\ BackAbove(x)
           down(x) == FullBear(x) /\ BackBelow(x)
           continues(x) == Only(up(x), "trend_continuation_long") \cup Only(down(x), "trend_continuation_short")
           weak(x) == x.adx < 20 \/ x.vol < 8 \/ ~Separated(x) \/ x.rsi <= 30 \/ x.rsi >= 70
<1>1. \A x : TrendContinuation(x) = IF weak(x) THEN {} ELSE continues(x)
  BY DEF TrendContinuation
<1>2. ByPercentage(f) \in {{}, Continuation}
  BY DEF ByPercentage, Continuation
<1>3. \A x : continues(x) \subseteq Continuation
  BY DEF Only, Continuation
<1>4. ASSUME ByPercentage(f) = {}
      PROVE  TrendContinuation(g) = Reflected(TrendContinuation(f))
  <2>1. /\ Separated(f) <=> Separated(g)
        /\ BackBelow(f) <=> BackAbove(g)
        /\ BackAbove(f) <=> BackBelow(g)
    BY <1>4 DEF ByPercentage
  <2>2. weak(g) <=> weak(f)
    BY <2>1 DEF Whole, Upturned
  <2>3. (up(g) <=> down(f)) /\ (down(g) <=> up(f))
    BY <2>1, AnatomyTurns
  <2>4. up(f) \in BOOLEAN /\ down(f) \in BOOLEAN /\ up(g) \in BOOLEAN /\ down(g) \in BOOLEAN
    OBVIOUS
  <2>5. up(g) = down(f) /\ down(g) = up(f)
    BY <2>3, <2>4
  <2> HIDE DEF up, down, weak
  <2>6. continues(g) = Reflected(continues(f))
    BY <2>4, <2>5, TwoSided, IndicatorsTurn
  <2> HIDE DEF continues
  <2> QED  BY <1>1, <2>2, <2>6, Reflections
<1> HIDE DEF continues, weak
<1> QED  BY <1>1, <1>2, <1>3, <1>4

\* A history and its reflection.
Overturned(h, u) ==
  /\ Len(h) \in Nat \ {0} /\ Len(u) = Len(h)
  /\ \A i \in 1..Len(h) : Whole(h[i]) /\ u[i] = MirrorBar(h[i]) /\ Upturned(h[i], u[i])

LEMMA DivergenceTurns ==
  ASSUME NEW h, NEW u, Overturned(h, u), NEW f, NEW g, Whole(f), Upturned(f, g), f.rsi # f.prsi
  PROVE  Divergence(g, u) = Reflected(Divergence(f, h))
<1> DEFINE up(x, p) == x.c < p.c /\ x.rsi > p.rsi /\ Rising(x)
           down(x, p) == x.c > p.c /\ x.rsi < p.rsi /\ ~Rising(x)
           diverges(x, p) == Only(up(x, p), "rsi_bullish_divergence") \cup Only(down(x, p), "rsi_bearish_divergence")
           k == Len(h) - DivergenceBack + 1
<1>1. g.adx = f.adx  BY DEF Upturned
<1>2. /\ Divergence(f, h) = IF Len(h) < DivergenceBack \/ f.adx < 18 THEN {} ELSE diverges(f, h[k])
      /\ Divergence(g, u) = IF Len(h) < DivergenceBack \/ g.adx < 18 THEN {} ELSE diverges(g, u[k])
  BY DEF Divergence, Overturned
<1>3. ASSUME ~(Len(h) < DivergenceBack)
      PROVE  diverges(g, u[k]) = Reflected(diverges(f, h[k]))
  <2>1. k \in 1..Len(h)  BY <1>3, IndicatorsAssumption DEF Overturned
  <2> DEFINE p == h[k]  q == u[k]
  <2>2. Whole(p) /\ Upturned(p, q)  BY <2>1 DEF Overturned
  <2> HIDE DEF p, q, k
  <2>3. /\ up(g, q) <=> down(f, p)
        /\ down(g, q) <=> up(f, p)
    BY <2>2 DEF Whole, Upturned, Rising
  <2>4. /\ up(g, q) \in BOOLEAN /\ down(g, q) \in BOOLEAN
        /\ up(f, p) \in BOOLEAN /\ down(f, p) \in BOOLEAN
    OBVIOUS
  <2> HIDE DEF up, down
  <2>5. up(g, q) = down(f, p) /\ down(g, q) = up(f, p)
    BY <2>3, <2>4
  <2>6. diverges(g, q) = Reflected(diverges(f, p))
    BY <2>4, <2>5, TwoSided, IndicatorsTurn
  <2> QED  BY <2>6 DEF p, q
<1> HIDE DEF diverges, k
<1> QED  BY <1>1, <1>2, <1>3, Reflections

LEMMA RsiSignalTurns ==
  ASSUME NEW h, NEW u, Overturned(h, u), NEW f, NEW g, Whole(f), Upturned(f, g), f.rsi # f.prsi
  PROVE  RsiSignal(g, u) = Reflected(RsiSignal(f, h))
<1> DEFINE low(x) == x.rsi < 30 /\ Rising(x) /\ x.adx >= 15
           high(x) == x.rsi > 70 /\ ~Rising(x) /\ x.adx >= 15
<1>1. \A x, b : RsiSignal(x, b) = IF Impulse(x) THEN {}
                                  ELSE IF low(x) THEN {"rsi_oversold_bounce"}
                                  ELSE IF high(x) THEN {"rsi_overbought_fade"}
                                  ELSE Divergence(x, b)
  BY DEF RsiSignal
<1>2. /\ low(g) <=> high(f)
      /\ high(g) <=> low(f)
      /\ ~(low(f) /\ high(f))
  BY DEF Whole, Upturned, Rising
<1>3. Impulse(g) <=> Impulse(f)  BY AnatomyTurns
<1>4. Divergence(g, u) = Reflected(Divergence(f, h))  BY DivergenceTurns
<1>5. Reflected({"rsi_oversold_bounce"}) = {"rsi_overbought_fade"}
      /\ Reflected({"rsi_overbought_fade"}) = {"rsi_oversold_bounce"}
  BY IndicatorsTurn DEF Turned
<1> HIDE DEF low, high
<1> QED  BY <1>1, <1>2, <1>3, <1>4, <1>5, Reflections

\* What the detectors but that of continuations raise.
Others(h, seen, active, before) ==
  LET f == h[Len(h)]
  IN EmaCrossover(f) \cup RsiSignal(f, h) \cup BandBreakout(f, active)
     \cup RsiMeanReversion(f) \cup VolumeBreakout(f)
     \cup (IF seen < MacdWarmUp THEN {}
           ELSE MacdSignal(f.macd, IF before = None THEN f.macd ELSE before))

LEMMA OthersContinueNothing ==
  ASSUME NEW h, NEW seen, NEW active, NEW before
  PROVE  Others(h, seen, active, before) \cap Continuation = {}
<1> SUFFICES ASSUME NEW n \in Continuation PROVE n \notin Others(h, seen, active, before)
  OBVIOUS
<1>1. \A b, m : n \in Only(b, m) => m \in Continuation
  BY DEF Only
<1>2. \A f : n \notin EmaCrossover(f)
  BY <1>1 DEF Continuation, EmaCrossover
<1>3. \A f : n \notin Divergence(f, h)
  BY <1>1 DEF Continuation, Divergence
<1>4. \A f : n \notin RsiSignal(f, h)
  BY <1>3 DEF Continuation, RsiSignal
<1>5. \A f : n \notin BandBreakout(f, active) /\ n \notin RsiMeanReversion(f) /\ n \notin VolumeBreakout(f)
  BY <1>1 DEF Continuation, BandBreakout, RsiMeanReversion, VolumeBreakout
<1>6. \A x, y : n \notin MacdSignal(x, y)
  BY <1>1 DEF Continuation, MacdSignal
<1> QED  BY <1>2, <1>4, <1>5, <1>6 DEF Others

\* A histogram remembered, seen upside down.
Negated(before) == IF before = None THEN None ELSE -before

LEMMA OthersTurn ==
  ASSUME NEW h, NEW u, Overturned(h, u), h[Len(h)].rsi # h[Len(h)].prsi,
         NEW seen, NEW active, NEW before \in {None, -1, 0, 1}
  PROVE  Others(u, seen, active, Negated(before))
           = Reflected(Others(h, seen, active, before))
<1> DEFINE f == h[Len(h)]  g == u[Len(u)]
           after == IF before = None THEN None ELSE -before
           macd(x, b) == IF seen < MacdWarmUp THEN {} ELSE MacdSignal(x.macd, IF b = None THEN x.macd ELSE b)
<1>1. Whole(f) /\ Upturned(f, g) /\ f.rsi # f.prsi
  BY DEF Overturned
<1>2. macd(g, after) = Reflected(macd(f, before))
  <2> DEFINE b == IF before = None THEN f.macd ELSE before
             a == IF after = None THEN g.macd ELSE after
  <2>1. f.macd \in Int /\ g.macd = -f.macd  BY <1>1 DEF Whole, Upturned
  <2>2. b \in Int  BY <2>1
  <2>3. a = -b
    <3>1. CASE before = None  BY <3>1, <2>1
    <3>2. CASE before # None
      <4>1. before \in Int /\ -before \in Int  BY <3>2
      <4>2. after = -before /\ after # None  BY <3>2, <4>1, ChainAssumption
      <4> QED  BY <3>2, <4>2
    <3> QED  BY <3>1, <3>2
  <2> HIDE DEF a, b
  <2>4. MacdSignal(g.macd, a) = Reflected(MacdSignal(f.macd, b))
    BY <2>1, <2>2, <2>3, MacdTurns
  <2> QED  BY <2>4, Reflections DEF a, b
<1> HIDE DEF after, f, g
<1>3. /\ EmaCrossover(g) = Reflected(EmaCrossover(f))
      /\ RsiSignal(g, u) = Reflected(RsiSignal(f, h))
      /\ BandBreakout(g, active) = Reflected(BandBreakout(f, active))
      /\ RsiMeanReversion(g) = Reflected(RsiMeanReversion(f))
      /\ VolumeBreakout(g) = Reflected(VolumeBreakout(f))
  BY <1>1, EmaCrossoverTurns, RsiSignalTurns, BandBreakoutTurns, RsiMeanReversionTurns, VolumeBreakoutTurns
<1>4. /\ Others(h, seen, active, before)
           = EmaCrossover(f) \cup RsiSignal(f, h) \cup BandBreakout(f, active)
             \cup RsiMeanReversion(f) \cup VolumeBreakout(f) \cup macd(f, before)
      /\ Others(u, seen, active, after)
           = EmaCrossover(g) \cup RsiSignal(g, u) \cup BandBreakout(g, active)
             \cup RsiMeanReversion(g) \cup VolumeBreakout(g) \cup macd(g, after)
  BY DEF Others, f, g
<1> HIDE DEF macd
<1>5. Others(u, seen, active, after) = Reflected(Others(h, seen, active, before))
  <2> DEFINE A == EmaCrossover(f)
             B == A \cup RsiSignal(f, h)
             C == B \cup BandBreakout(f, active)
             D == C \cup RsiMeanReversion(f)
             E == D \cup VolumeBreakout(f)
  <2>1. Reflected(E \cup macd(f, before)) = Reflected(E) \cup macd(g, after)
    BY <1>2, Reflections
  <2>2. Reflected(E) = Reflected(D) \cup VolumeBreakout(g)
    BY <1>3, Reflections
  <2>3. Reflected(D) = Reflected(C) \cup RsiMeanReversion(g)
    BY <1>3, Reflections
  <2>4. Reflected(C) = Reflected(B) \cup BandBreakout(g, active)
    BY <1>3, Reflections
  <2>5. Reflected(B) = EmaCrossover(g) \cup RsiSignal(g, u)
    BY <1>3, Reflections
  <2>6. Others(h, seen, active, before) = E \cup macd(f, before)
    BY <1>4
  <2> HIDE DEF B, C, D, E
  <2> QED  BY <1>4, <2>1, <2>2, <2>3, <2>4, <2>5, <2>6
<1> QED  BY <1>5 DEF after, Negated

\* The signals that prices a percentage apart do not tell apart.
Comparable(names, f) == names \ ByPercentage(f)

LEMMA DetectedTurns ==
  ASSUME NEW h, NEW u, Overturned(h, u), NEW f, f = h[Len(h)], f.rsi # f.prsi,
         NEW seen, NEW active, NEW before \in {None, -1, 0, 1}
  PROVE  Comparable(Detected(u, seen, active, Negated(before)), f)
           = Reflected(Comparable(Detected(h, seen, active, before), f))
<1> DEFINE g == u[Len(u)]
           after == Negated(before)
           straight == Others(h, seen, active, before)
           turned == Others(u, seen, active, after)
<1>1. Whole(f) /\ Upturned(f, g) /\ g = MirrorBar(f)
  BY DEF Overturned
<1>2. turned = Reflected(straight)
  BY OthersTurn
<1>3. straight \cap Continuation = {} /\ turned \cap Continuation = {}
  BY OthersContinueNothing
<1>4. /\ Detected(h, seen, active, before) = TrendContinuation(f) \cup straight
      /\ Detected(u, seen, active, after) = TrendContinuation(g) \cup turned
  BY DEF Detected, Others
<1> HIDE DEF g, straight, turned, after
<1>5. Detected(u, seen, active, after) \ ByPercentage(f)
        = Reflected(Detected(h, seen, active, before) \ ByPercentage(f))
  <2>1. /\ ByPercentage(f) \in {{}, Continuation}
        /\ TrendContinuation(f) \subseteq Continuation /\ TrendContinuation(g) \subseteq Continuation
        /\ ByPercentage(f) = {} => TrendContinuation(g) = Reflected(TrendContinuation(f))
    BY <1>1, ContinuationTurns
  <2>2. CASE ByPercentage(f) = {}
    <3>1. \A T : T \ {} = T  OBVIOUS
    <3> QED  BY <1>2, <1>4, <2>1, <2>2, <3>1, Reflections
  <2>3. CASE ByPercentage(f) = Continuation
    <3>1. /\ (TrendContinuation(g) \cup turned) \ Continuation = turned
          /\ (TrendContinuation(f) \cup straight) \ Continuation = straight
      BY <1>3, <2>1
    <3> QED  BY <1>2, <1>4, <2>3, <3>1
  <2> QED  BY <2>1, <2>2, <2>3
<1> QED  BY <1>5 DEF Comparable, after

CandleNames ==
  {"dragonfly_doji", "gravestone_doji", "bullish_engulfing", "bearish_engulfing", "strong_bullish_engulfing",
   "strong_bearish_engulfing", "kicking_bullish", "kicking_bearish", "harami_cross_bullish",
   "harami_cross_bearish", "morning_star", "evening_star", "doji_reversal_long", "doji_reversal_short",
   "tri_star_bullish", "tri_star_bearish", "three_black_crows", "inverted_hammer_bearish", "on_neck",
   "long_lower_shadow"}

Names(s) == {s[i] : i \in DOMAIN s}

\* A one-sided pattern aside, T has the counterparts of S.
Answers(S, T) == T \ OneSided = Reflected(S \ OneSided)

\* Two patterns that are each other's reflection.
Counterparts(n, m) ==
  /\ n \in CandleNames /\ m \in CandleNames
  /\ n \notin OneSided /\ m \notin OneSided
  /\ Turned(n, m)

LEMMA CandlesTurn ==
  /\ Counterparts("dragonfly_doji", "gravestone_doji")
  /\ Counterparts("bullish_engulfing", "bearish_engulfing")
  /\ Counterparts("strong_bullish_engulfing", "strong_bearish_engulfing")
  /\ Counterparts("kicking_bullish", "kicking_bearish")
  /\ Counterparts("harami_cross_bullish", "harami_cross_bearish")
  /\ Counterparts("morning_star", "evening_star")
  /\ Counterparts("tri_star_bullish", "tri_star_bearish")
  /\ Counterparts("doji_reversal_short", "doji_reversal_long")
<1>1. ASSUME NEW n \in CandleNames, NEW m \in CandleNames, <<n, m>> \in Pairs, n \notin OneSided, m \notin OneSided
      PROVE  Counterparts(n, m) /\ Counterparts(m, n)
  BY <1>1, PairsTurn DEF Counterparts, Turned
<1> QED  BY <1>1 DEF CandleNames, Pairs, OneSided

LEMMA AnswersJoin ==
  ASSUME NEW S, NEW T, NEW P, NEW Q, Answers(S, T), Answers(P, Q)
  PROVE  Answers(S \cup P, T \cup Q)
<1>1. (S \cup P) \ OneSided = (S \ OneSided) \cup (P \ OneSided)
      /\ (T \cup Q) \ OneSided = (T \ OneSided) \cup (Q \ OneSided)
  OBVIOUS
<1> QED  BY <1>1, Reflections DEF Answers

LEMMA OneSidedAnswer ==
  ASSUME NEW S, NEW T, S \subseteq OneSided, T \subseteq OneSided
  PROVE  Answers(S, T)
<1>1. S \ OneSided = {} /\ T \ OneSided = {}  OBVIOUS
<1> QED  BY <1>1, Reflections DEF Answers

LEMMA NamesJoin ==
  ASSUME NEW s \in Seq(CandleNames), NEW t \in Seq(CandleNames)
  PROVE  s \o t \in Seq(CandleNames) /\ Names(s \o t) = Names(s) \cup Names(t)
<1>1. s \o t \in Seq(CandleNames)  OBVIOUS
<1>2. Names(s \o t) \subseteq Names(s) \cup Names(t)
  <2> SUFFICES ASSUME NEW i \in 1..Len(s \o t) PROVE (s \o t)[i] \in Names(s) \cup Names(t)
    BY <1>1 DEF Names
  <2>1. CASE i <= Len(s)
    <3>1. i \in DOMAIN s /\ (s \o t)[i] = s[i]  BY <2>1
    <3> QED  BY <3>1 DEF Names
  <2>2. CASE ~(i <= Len(s))
    <3>1. i - Len(s) \in DOMAIN t /\ (s \o t)[i] = t[i - Len(s)]  BY <2>2
    <3> QED  BY <3>1 DEF Names
  <2> QED  BY <2>1, <2>2
<1>3. ASSUME NEW i \in DOMAIN s PROVE s[i] \in Names(s \o t)
  <2>1. i \in 1..Len(s)  OBVIOUS
  <2>2. i \in DOMAIN (s \o t) /\ (s \o t)[i] = s[i]  BY <2>1
  <2> QED  BY <2>2 DEF Names
<1>4. ASSUME NEW i \in DOMAIN t PROVE t[i] \in Names(s \o t)
  <2>1. Len(s) + i \in DOMAIN (s \o t) /\ (s \o t)[Len(s) + i] = t[i]  OBVIOUS
  <2> QED  BY <2>1 DEF Names
<1> QED  BY <1>1, <1>2, <1>3, <1>4 DEF Names

LEMMA NamesOne ==
  /\ <<>> \in Seq(CandleNames) /\ Names(<<>>) = {}
  /\ \A n \in CandleNames : <<n>> \in Seq(CandleNames) /\ Names(<<n>>) = {n}
<1>1. <<>> \in Seq(CandleNames) /\ Names(<<>>) = {}  BY DEF Names
<1>2. ASSUME NEW n \in CandleNames PROVE <<n>> \in Seq(CandleNames) /\ Names(<<n>>) = {n}
  <2> DEFINE s == <<n>>
  <2>1. s \in Seq(CandleNames) /\ Len(s) = 1 /\ s[1] = n  OBVIOUS
  <2> HIDE DEF s
  <2>2. DOMAIN s = {1}  BY <2>1
  <2>3. Names(s) = {n}  BY <2>1, <2>2 DEF Names
  <2> QED  BY <2>1, <2>3 DEF s
<1> QED  BY <1>1, <1>2

LEMMA OneNamed ==
  ASSUME NEW n \in CandleNames, NEW a \in BOOLEAN
  PROVE  One(a, n) \in Seq(CandleNames) /\ Names(One(a, n)) = Only(a, n)
  BY NamesOne DEF One, Only

\* What a pattern and its counterpart find in a bar and its reflection.
Paired(s, t, n, m) ==
  /\ s \in Seq(CandleNames) /\ t \in Seq(CandleNames)
  /\ Names(s) \subseteq {n, m} /\ Names(t) \subseteq {n, m}
  /\ Answers(Names(s), Names(t))

LEMMA PairAnswers ==
  ASSUME NEW n, NEW m, Counterparts(n, m), NEW a \in BOOLEAN, NEW b \in BOOLEAN
  PROVE  Paired(One(a, n) \o One(b, m), One(b, n) \o One(a, m), n, m)
<1> DEFINE s == One(a, n) \o One(b, m)  t == One(b, n) \o One(a, m)
<1>1. /\ s \in Seq(CandleNames) /\ Names(s) = Only(a, n) \cup Only(b, m)
      /\ t \in Seq(CandleNames) /\ Names(t) = Only(b, n) \cup Only(a, m)
  BY OneNamed, NamesJoin DEF Counterparts
<1> HIDE DEF s, t
<1>2. Names(s) \subseteq {n, m} /\ Names(t) \subseteq {n, m}
  BY <1>1 DEF Only
<1>3. Names(t) = Reflected(Names(s))
  <2>1. Only(b, n) \cup Only(a, m) = Reflected(Only(a, n) \cup Only(b, m))  BY TwoSided DEF Counterparts
  <2> QED  BY <1>1, <2>1
<1>4. Names(s) \ OneSided = Names(s) /\ Names(t) \ OneSided = Names(t)
  BY <1>2 DEF Counterparts
<1>5. Answers(Names(s), Names(t))  BY <1>3, <1>4 DEF Answers
<1> QED  BY <1>1, <1>2, <1>5 DEF s, t, Paired

LEMMA EndsTurn ==
  ASSUME NEW f, NEW g, Whole(f), Upturned(f, g)
  PROVE  /\ Max({g.o, g.c}) = 2000 - Min({f.o, f.c}) /\ Min({g.o, g.c}) = 2000 - Max({f.o, f.c})
         /\ Max({f.o, f.c}) \in Int /\ Min({f.o, f.c}) \in Int
<1>1. /\ g.o \in Int /\ g.c \in Int /\ f.o \in Int /\ f.c \in Int
      /\ g.o = 2000 - f.o /\ g.c = 2000 - f.c
  BY DEF Whole, Upturned
<1>2. /\ Max({f.o, f.c}) = IF f.o >= f.c THEN f.o ELSE f.c
      /\ Min({f.o, f.c}) = IF f.o <= f.c THEN f.o ELSE f.c
      /\ Max({g.o, g.c}) = IF g.o >= g.c THEN g.o ELSE g.c
      /\ Min({g.o, g.c}) = IF g.o <= g.c THEN g.o ELSE g.c
  BY <1>1, MinOf, MaxOf
<1> QED  BY <1>1, <1>2

LEMMA ShadowsTurn ==
  ASSUME NEW f, NEW g, Whole(f), Upturned(f, g)
  PROVE  /\ UpperShadow(g) = LowerShadow(f) /\ LowerShadow(g) = UpperShadow(f)
         /\ UpperShadow(f) \in Int /\ LowerShadow(f) \in Int
  BY EndsTurn DEF UpperShadow, LowerShadow, Whole, Upturned

LEMMA SharesTurn ==
  ASSUME NEW f, NEW g, Whole(f), Upturned(f, g), NEW n
  PROVE  (BodyAbove(g, n) <=> BodyAbove(f, n)) /\ (BodyBelow(g, n) <=> BodyBelow(f, n))
  BY AnatomyTurns DEF BodyAbove, BodyBelow

LEMMA DirectedTurns ==
  ASSUME NEW f, NEW g, Upturned(f, g)
  PROVE  Directed(g) <=> Directed(f)
  BY DEF Directed, Upturned

LEMMA NothingPaired ==
  ASSUME NEW n, NEW m
  PROVE  Paired(<<>>, <<>>, n, m)
<1>1. {} \ OneSided = {}  OBVIOUS
<1> QED  BY <1>1, NamesOne, Reflections DEF Paired, Answers

\* The same levels, upside down.
Swapped(st, r) ==
  /\ st.atSupport \in BOOLEAN /\ st.atResistance \in BOOLEAN
  /\ r.atSupport = st.atResistance /\ r.atResistance = st.atSupport

LEMMA DojisTurn ==
  ASSUME NEW f, NEW g, Whole(f), Upturned(f, g), NEW st, NEW r, Swapped(st, r)
  PROVE  Paired(DragonflyDoji(f, st) \o GravestoneDoji(f, st), DragonflyDoji(g, r) \o GravestoneDoji(g, r),
                "dragonfly_doji", "gravestone_doji")
<1> DEFINE up(x, s) == /\ Directed(x) /\ Doji(x) /\ s.atSupport
                       /\ 2 * UpperShadow(x) <= 3 * Body(x) /\ LowerShadow(x) >= 2 * Body(x)
           down(x, s) == /\ Directed(x) /\ Doji(x) /\ s.atResistance
                         /\ 2 * LowerShadow(x) <= 3 * Body(x) /\ UpperShadow(x) >= 2 * Body(x)
<1>1. /\ up(g, r) <=> down(f, st)
      /\ down(g, r) <=> up(f, st)
  <2>1. UpperShadow(g) = LowerShadow(f) /\ LowerShadow(g) = UpperShadow(f)  BY ShadowsTurn
  <2>2. Body(g) = Body(f) /\ (Doji(g) <=> Doji(f))  BY AnatomyTurns
  <2>3. Directed(g) <=> Directed(f)  BY DirectedTurns
  <2> QED  BY <2>1, <2>2, <2>3 DEF Swapped
<1>2. /\ up(g, r) \in BOOLEAN /\ down(g, r) \in BOOLEAN /\ up(f, st) \in BOOLEAN /\ down(f, st) \in BOOLEAN
  OBVIOUS
<1>3. \A x, s : /\ DragonflyDoji(x, s) = One(up(x, s), "dragonfly_doji")
                /\ GravestoneDoji(x, s) = One(down(x, s), "gravestone_doji")
  BY DEF DragonflyDoji, GravestoneDoji
<1> HIDE DEF up, down
<1>4. up(g, r) = down(f, st) /\ down(g, r) = up(f, st)  BY <1>1, <1>2
<1> QED  BY <1>2, <1>3, <1>4, PairAnswers, CandlesTurn

LEMMA EngulfingTurns ==
  ASSUME NEW p, NEW q, Whole(p), Upturned(p, q), NEW f, NEW g, Whole(f), Upturned(f, g),
         NEW st, NEW r, Swapped(st, r)
  PROVE  /\ EngulfsUp(q, g) <=> EngulfsDown(p, f)
         /\ EngulfsDown(q, g) <=> EngulfsUp(p, f)
         /\ Paired(Engulfing(p, f, st), Engulfing(q, g, r), "bullish_engulfing", "bearish_engulfing")
         /\ Paired(StrongEngulfing(p, f), StrongEngulfing(q, g), "strong_bullish_engulfing", "strong_bearish_engulfing")
<1>1. /\ EngulfsUp(q, g) <=> EngulfsDown(p, f)
      /\ EngulfsDown(q, g) <=> EngulfsUp(p, f)
  BY DEF EngulfsUp, EngulfsDown, Bullish, Bearish, Whole, Upturned
<1>2. Paired(Engulfing(p, f, st), Engulfing(q, g, r), "bullish_engulfing", "bearish_engulfing")
  <2> DEFINE up(y, x, s) == EngulfsUp(y, x) /\ s.atSupport
             down(y, x, s) == EngulfsDown(y, x) /\ s.atResistance
  <2>1. /\ up(q, g, r) <=> down(p, f, st)
        /\ down(q, g, r) <=> up(p, f, st)
    BY <1>1 DEF Swapped
  <2>2. /\ up(q, g, r) \in BOOLEAN /\ down(q, g, r) \in BOOLEAN
        /\ up(p, f, st) \in BOOLEAN /\ down(p, f, st) \in BOOLEAN
    OBVIOUS
  <2>3. \A y, x, s : Engulfing(y, x, s) = IF ~Directed(x) THEN <<>>
                         ELSE One(up(y, x, s), "bullish_engulfing") \o One(down(y, x, s), "bearish_engulfing")
    BY DEF Engulfing
  <2> HIDE DEF up, down
  <2>4. up(q, g, r) = down(p, f, st) /\ down(q, g, r) = up(p, f, st)  BY <2>1, <2>2
  <2>5. Paired(One(up(p, f, st), "bullish_engulfing") \o One(down(p, f, st), "bearish_engulfing"),
               One(up(q, g, r), "bullish_engulfing") \o One(down(q, g, r), "bearish_engulfing"),
               "bullish_engulfing", "bearish_engulfing")
    BY <2>2, <2>4, PairAnswers, CandlesTurn
  <2>6. Directed(g) <=> Directed(f)  BY DirectedTurns
  <2> QED  BY <2>3, <2>5, <2>6, NothingPaired
<1>3. Paired(StrongEngulfing(p, f), StrongEngulfing(q, g), "strong_bullish_engulfing", "strong_bearish_engulfing")
  <2> DEFINE weak(x) == ~Directed(x) \/ x.atr <= 0 \/ Body(x) <= 0 \/ 2 * Body(x) < 3 * x.atr
  <2>1. weak(g) <=> weak(f)
    <3>1. Body(g) = Body(f) /\ g.atr = f.atr  BY AnatomyTurns DEF Upturned
    <3>2. Directed(g) <=> Directed(f)  BY DirectedTurns
    <3> QED  BY <3>1, <3>2
  <2>2. /\ EngulfsUp(q, g) \in BOOLEAN /\ EngulfsDown(q, g) \in BOOLEAN
        /\ EngulfsUp(p, f) \in BOOLEAN /\ EngulfsDown(p, f) \in BOOLEAN
    BY DEF EngulfsUp, EngulfsDown
  <2>3. \A y, x : StrongEngulfing(y, x) = IF weak(x) THEN <<>>
                      ELSE One(EngulfsUp(y, x), "strong_bullish_engulfing")
                           \o One(EngulfsDown(y, x), "strong_bearish_engulfing")
    BY DEF StrongEngulfing
  <2> HIDE DEF weak
  <2>4. EngulfsUp(q, g) = EngulfsDown(p, f) /\ EngulfsDown(q, g) = EngulfsUp(p, f)  BY <1>1, <2>2
  <2>5. Paired(One(EngulfsUp(p, f), "strong_bullish_engulfing") \o One(EngulfsDown(p, f), "strong_bearish_engulfing"),
               One(EngulfsUp(q, g), "strong_bullish_engulfing") \o One(EngulfsDown(q, g), "strong_bearish_engulfing"),
               "strong_bullish_engulfing", "strong_bearish_engulfing")
    BY <2>2, <2>4, PairAnswers, CandlesTurn
  <2> QED  BY <2>1, <2>3, <2>5, NothingPaired
<1> QED  BY <1>1, <1>2, <1>3

LEMMA KickingTurns ==
  ASSUME NEW p, NEW q, Whole(p), Upturned(p, q), NEW f, NEW g, Whole(f), Upturned(f, g)
  PROVE  Paired(Kicking(p, f), Kicking(q, g), "kicking_bullish", "kicking_bearish")
<1> DEFINE up(y, x) == Bearish(y) /\ Bullish(x) /\ x.o >= y.c
           down(y, x) == Bullish(y) /\ Bearish(x) /\ x.o <= y.c
           weak(y, x) == ~Directed(x) \/ BodyBelow(y, 85) \/ BodyBelow(x, 85)
<1>1. weak(q, g) <=> weak(p, f)
  BY SharesTurn, DirectedTurns
<1>2. /\ up(q, g) <=> down(p, f)
      /\ down(q, g) <=> up(p, f)
  BY DEF Whole, Upturned, Bullish, Bearish
<1>3. /\ up(q, g) \in BOOLEAN /\ down(q, g) \in BOOLEAN /\ up(p, f) \in BOOLEAN /\ down(p, f) \in BOOLEAN
  OBVIOUS
<1>4. \A y, x : Kicking(y, x) = IF weak(y, x) THEN <<>>
                                ELSE One(up(y, x), "kicking_bullish") \o One(down(y, x), "kicking_bearish")
  BY DEF Kicking
<1> HIDE DEF up, down, weak
<1>5. up(q, g) = down(p, f) /\ down(q, g) = up(p, f)  BY <1>2, <1>3
<1>6. Paired(One(up(p, f), "kicking_bullish") \o One(down(p, f), "kicking_bearish"),
             One(up(q, g), "kicking_bullish") \o One(down(q, g), "kicking_bearish"),
             "kicking_bullish", "kicking_bearish")
  BY <1>3, <1>5, PairAnswers, CandlesTurn
<1> QED  BY <1>1, <1>4, <1>6, NothingPaired

LEMMA HaramiCrossTurns ==
  ASSUME NEW p, NEW q, Whole(p), Upturned(p, q), NEW f, NEW g, Whole(f), Upturned(f, g)
  PROVE  Paired(HaramiCross(p, f), HaramiCross(q, g), "harami_cross_bullish", "harami_cross_bearish")
<1> DEFINE weak(y, x) == \/ ~Directed(x) \/ ~Doji(x) \/ BodyBelow(y, 60)
                         \/ Max({x.o, x.c}) > Max({y.o, y.c}) \/ Min({x.o, x.c}) < Min({y.o, y.c})
<1>1. weak(q, g) <=> weak(p, f)
  <2>1. /\ Directed(g) <=> Directed(f)
        /\ Doji(g) <=> Doji(f)
        /\ BodyBelow(q, 60) <=> BodyBelow(p, 60)
    BY SharesTurn, DirectedTurns, AnatomyTurns
  <2>2. /\ Max({g.o, g.c}) > Max({q.o, q.c}) <=> Min({f.o, f.c}) < Min({p.o, p.c})
        /\ Min({g.o, g.c}) < Min({q.o, q.c}) <=> Max({f.o, f.c}) > Max({p.o, p.c})
    BY EndsTurn
  <2> QED  BY <2>1, <2>2
<1>2. Bearish(q) <=> Bullish(p)  BY AnatomyTurns
<1>3. Bullish(q) <=> Bearish(p)  BY AnatomyTurns
<1>4. /\ Bearish(q) \in BOOLEAN /\ Bullish(q) \in BOOLEAN /\ Bearish(p) \in BOOLEAN /\ Bullish(p) \in BOOLEAN
  BY DEF Bearish, Bullish
<1>5. \A y, x : HaramiCross(y, x) = IF weak(y, x) THEN <<>>
                   ELSE One(Bearish(y), "harami_cross_bullish") \o One(Bullish(y), "harami_cross_bearish")
  BY DEF HaramiCross
<1> HIDE DEF weak
<1>6. Bearish(q) = Bullish(p) /\ Bullish(q) = Bearish(p)  BY <1>2, <1>3, <1>4
<1>7. Paired(One(Bearish(p), "harami_cross_bullish") \o One(Bullish(p), "harami_cross_bearish"),
             One(Bearish(q), "harami_cross_bullish") \o One(Bullish(q), "harami_cross_bearish"),
             "harami_cross_bullish", "harami_cross_bearish")
  BY <1>4, <1>6, PairAnswers, CandlesTurn
<1> QED  BY <1>1, <1>5, <1>7, NothingPaired

LEMMA StarTurns ==
  ASSUME NEW b, NEW a, Whole(b), Upturned(b, a), NEW s, NEW z, Whole(s), Upturned(s, z),
         NEW f, NEW g, Whole(f), Upturned(f, g), NEW st, NEW r, Swapped(st, r)
  PROVE  Paired(Star(b, s, f, st), Star(a, z, g, r), "morning_star", "evening_star")
<1> DEFINE up(y, x, l) == Bearish(y) /\ Bullish(x) /\ l.atSupport /\ 2 * x.c > y.o + y.c
           down(y, x, l) == Bullish(y) /\ Bearish(x) /\ l.atResistance /\ 2 * x.c < y.o + y.c
           weak(y, m, x) == ~Directed(x) \/ ~BodyAbove(y, 60) \/ ~BodyBelow(m, 30) \/ ~BodyAbove(x, 60)
<1>1. weak(a, z, g) <=> weak(b, s, f)
  BY SharesTurn, DirectedTurns
<1>2. /\ up(a, g, r) <=> down(b, f, st)
      /\ down(a, g, r) <=> up(b, f, st)
  BY DEF Whole, Upturned, Bullish, Bearish, Swapped
<1>3. /\ up(a, g, r) \in BOOLEAN /\ down(a, g, r) \in BOOLEAN
      /\ up(b, f, st) \in BOOLEAN /\ down(b, f, st) \in BOOLEAN
  OBVIOUS
<1>4. \A y, m, x, l : Star(y, m, x, l) = IF weak(y, m, x) THEN <<>>
                         ELSE One(up(y, x, l), "morning_star") \o One(down(y, x, l), "evening_star")
  BY DEF Star
<1> HIDE DEF up, down, weak
<1>5. up(a, g, r) = down(b, f, st) /\ down(a, g, r) = up(b, f, st)  BY <1>2, <1>3
<1>6. Paired(One(up(b, f, st), "morning_star") \o One(down(b, f, st), "evening_star"),
             One(up(a, g, r), "morning_star") \o One(down(a, g, r), "evening_star"),
             "morning_star", "evening_star")
  BY <1>3, <1>5, PairAnswers, CandlesTurn
<1> QED  BY <1>1, <1>4, <1>6, NothingPaired

LEMMA DojiReversalTurns ==
  ASSUME NEW b, NEW a, Whole(b), Upturned(b, a), NEW s, NEW z, Whole(s), Upturned(s, z),
         NEW f, NEW g, Whole(f), Upturned(f, g)
  PROVE  Paired(DojiReversal(b, s, f), DojiReversal(a, z, g), "doji_reversal_short", "doji_reversal_long")
<1> DEFINE up(y, m) == Bullish(y) /\ Bullish(m)
           down(y, m) == Bearish(y) /\ Bearish(m)
           weak(x) == ~Doji(x) \/ ~Directed(x)
<1>1. weak(g) <=> weak(f)
  BY AnatomyTurns, DirectedTurns
<1>2. (up(a, z) <=> down(b, s)) /\ (down(a, z) <=> up(b, s))
  BY DEF Whole, Upturned, Bullish, Bearish
<1>3. /\ up(a, z) \in BOOLEAN /\ down(a, z) \in BOOLEAN /\ up(b, s) \in BOOLEAN /\ down(b, s) \in BOOLEAN
  OBVIOUS
<1>4. \A y, m, x : DojiReversal(y, m, x) = IF weak(x) THEN <<>>
                      ELSE One(up(y, m), "doji_reversal_short") \o One(down(y, m), "doji_reversal_long")
  BY DEF DojiReversal
<1> HIDE DEF up, down, weak
<1>5. up(a, z) = down(b, s) /\ down(a, z) = up(b, s)  BY <1>2, <1>3
<1>6. Paired(One(up(b, s), "doji_reversal_short") \o One(down(b, s), "doji_reversal_long"),
             One(up(a, z), "doji_reversal_short") \o One(down(a, z), "doji_reversal_long"),
             "doji_reversal_short", "doji_reversal_long")
  BY <1>3, <1>5, PairAnswers, CandlesTurn
<1> QED  BY <1>1, <1>4, <1>6, NothingPaired

LEMMA TriStarTurns ==
  ASSUME NEW b, NEW a, Whole(b), Upturned(b, a), NEW s, NEW z, Whole(s), Upturned(s, z),
         NEW f, NEW g, Whole(f), Upturned(f, g)
  PROVE  Paired(TriStar(b, s, f), TriStar(a, z, g), "tri_star_bullish", "tri_star_bearish")
<1> DEFINE up(y, m, x) == y.e20 < y.e50 /\ m.c < y.c /\ m.c < x.c
           down(y, m, x) == y.e20 > y.e50 /\ m.c > y.c /\ m.c > x.c
           weak(y, m, x) == ~Doji(y) \/ ~Doji(m) \/ ~Doji(x) \/ ~Directed(x)
<1>1. weak(a, z, g) <=> weak(b, s, f)
  BY AnatomyTurns, DirectedTurns
<1>2. (up(a, z, g) <=> down(b, s, f)) /\ (down(a, z, g) <=> up(b, s, f))
  BY DEF Whole, Upturned
<1>3. /\ up(a, z, g) \in BOOLEAN /\ down(a, z, g) \in BOOLEAN
      /\ up(b, s, f) \in BOOLEAN /\ down(b, s, f) \in BOOLEAN
  OBVIOUS
<1>4. \A y, m, x : TriStar(y, m, x) = IF weak(y, m, x) THEN <<>>
                      ELSE One(up(y, m, x), "tri_star_bullish") \o One(down(y, m, x), "tri_star_bearish")
  BY DEF TriStar
<1> HIDE DEF up, down, weak
<1>5. up(a, z, g) = down(b, s, f) /\ down(a, z, g) = up(b, s, f)  BY <1>2, <1>3
<1>6. Paired(One(up(b, s, f), "tri_star_bullish") \o One(down(b, s, f), "tri_star_bearish"),
             One(up(a, z, g), "tri_star_bullish") \o One(down(a, z, g), "tri_star_bearish"),
             "tri_star_bullish", "tri_star_bearish")
  BY <1>3, <1>5, PairAnswers, CandlesTurn
<1> QED  BY <1>1, <1>4, <1>6, NothingPaired

\* The patterns that exist on one side only.
LEMMA Unpaired ==
  ASSUME NEW b, NEW s, NEW f, NEW st
  PROVE  /\ LongLowerShadow(f, st) \in Seq(CandleNames) /\ Names(LongLowerShadow(f, st)) \subseteq {"long_lower_shadow"}
         /\ InvertedHammer(f, st) \in Seq(CandleNames)
         /\ Names(InvertedHammer(f, st)) \subseteq {"inverted_hammer_bearish"}
         /\ OnNeck(s, f) \in Seq(CandleNames) /\ Names(OnNeck(s, f)) \subseteq {"on_neck"}
         /\ ThreeBlackCrows(b, s, f) \in Seq(CandleNames)
         /\ Names(ThreeBlackCrows(b, s, f)) \subseteq {"three_black_crows"}
<1>1. ASSUME NEW n \in CandleNames, NEW t, t = <<n>> \/ t = <<>>
      PROVE  t \in Seq(CandleNames) /\ Names(t) \subseteq {n}
  BY <1>1, NamesOne
<1>2. LongLowerShadow(f, st) \in Seq(CandleNames) /\ Names(LongLowerShadow(f, st)) \subseteq {"long_lower_shadow"}
  <2>1. "long_lower_shadow" \in CandleNames  BY DEF CandleNames
  <2>2. LongLowerShadow(f, st) = <<"long_lower_shadow">> \/ LongLowerShadow(f, st) = <<>>  BY DEF LongLowerShadow, One
  <2> QED  BY <1>1, <2>1, <2>2
<1>3. InvertedHammer(f, st) \in Seq(CandleNames) /\ Names(InvertedHammer(f, st)) \subseteq {"inverted_hammer_bearish"}
  <2>1. "inverted_hammer_bearish" \in CandleNames  BY DEF CandleNames
  <2>2. InvertedHammer(f, st) = <<"inverted_hammer_bearish">> \/ InvertedHammer(f, st) = <<>>
    BY DEF InvertedHammer, One
  <2> QED  BY <1>1, <2>1, <2>2
<1>4. OnNeck(s, f) \in Seq(CandleNames) /\ Names(OnNeck(s, f)) \subseteq {"on_neck"}
  <2>1. "on_neck" \in CandleNames  BY DEF CandleNames
  <2>2. OnNeck(s, f) = <<"on_neck">> \/ OnNeck(s, f) = <<>>  BY DEF OnNeck, One
  <2> QED  BY <1>1, <2>1, <2>2
<1>5. ThreeBlackCrows(b, s, f) \in Seq(CandleNames) /\ Names(ThreeBlackCrows(b, s, f)) \subseteq {"three_black_crows"}
  <2>1. "three_black_crows" \in CandleNames  BY DEF CandleNames
  <2>2. ThreeBlackCrows(b, s, f) = <<"three_black_crows">> \/ ThreeBlackCrows(b, s, f) = <<>>
    BY DEF ThreeBlackCrows, One
  <2> QED  BY <1>1, <2>1, <2>2
<1> QED  BY <1>2, <1>3, <1>4, <1>5

\* What the candlestick group finds, but for the strong engulfing that stands in.
Alone(h, st) ==
  LET f == h[Len(h)] IN Names(DragonflyDoji(f, st) \o GravestoneDoji(f, st))
Below(h, st) == Names(LongLowerShadow(h[Len(h)], st))
Engulfed(h, st) == Names(Engulfing(h[Len(h) - 1], h[Len(h)], st))
OfTwo(h, st) ==
  LET p == h[Len(h) - 1]  f == h[Len(h)]
  IN Names(InvertedHammer(f, st)) \cup Names(Kicking(p, f)) \cup Names(OnNeck(p, f)) \cup Names(HaramiCross(p, f))
OfThree(h, st) ==
  LET b == h[Len(h) - 2]  s == h[Len(h) - 1]  f == h[Len(h)]
  IN Names(Star(b, s, f, st)) \cup Names(ThreeBlackCrows(b, s, f)) \cup Names(DojiReversal(b, s, f))
     \cup Names(TriStar(b, s, f))
Rest(h, st) ==
  Alone(h, st) \cup Below(h, st)
  \cup (IF Len(h) >= 2 THEN Engulfed(h, st) \cup OfTwo(h, st) ELSE {})
  \cup (IF Len(h) >= 3 THEN OfThree(h, st) ELSE {})
StandsIn(h, st) ==
  IF Len(h) >= 2 /\ Alone(h, st) \cup Below(h, st) \cup Engulfed(h, st) = {}
  THEN Names(StrongEngulfing(h[Len(h) - 1], h[Len(h)])) ELSE {}

LEMMA NamesEmpty ==
  ASSUME NEW s \in Seq(CandleNames)
  PROVE  s = <<>> <=> Names(s) = {}
<1>1. s = <<>> => Names(s) = {}  BY NamesOne
<1>2. ASSUME s # <<>> PROVE Names(s) # {}
  <2>1. Len(s) \in Nat /\ Len(s) # 0 /\ DOMAIN s = 1..Len(s)  BY <1>2
  <2>2. 1 \in DOMAIN s  BY <2>1
  <2> QED  BY <2>2 DEF Names
<1> QED  BY <1>1, <1>2

LEMMA JoinFour ==
  ASSUME NEW a \in Seq(CandleNames), NEW b \in Seq(CandleNames), NEW c \in Seq(CandleNames),
         NEW d \in Seq(CandleNames)
  PROVE  /\ a \o b \o c \o d \in Seq(CandleNames)
         /\ Names(a \o b \o c \o d) = Names(a) \cup Names(b) \cup Names(c) \cup Names(d)
<1>1. a \o b \in Seq(CandleNames) /\ Names(a \o b) = Names(a) \cup Names(b)  BY NamesJoin
<1> DEFINE e == a \o b
<1> HIDE DEF e
<1>2. e \o c \in Seq(CandleNames) /\ Names(e \o c) = Names(e) \cup Names(c)  BY <1>1, NamesJoin DEF e
<1> DEFINE k == e \o c
<1> HIDE DEF k
<1>3. k \o d \in Seq(CandleNames) /\ Names(k \o d) = Names(k) \cup Names(d)  BY <1>2, NamesJoin DEF k
<1>4. Names(k \o d) = Names(a) \cup Names(b) \cup Names(c) \cup Names(d)
  BY <1>1, <1>2, <1>3 DEF e, k
<1> QED  BY <1>3, <1>4 DEF e, k

\* The patterns of the bars at hand are sequences of names.
Listed(h, st) ==
  LET n == Len(h)  f == h[n]
  IN /\ DragonflyDoji(f, st) \o GravestoneDoji(f, st) \in Seq(CandleNames)
     /\ n >= 2 => /\ Engulfing(h[n - 1], f, st) \in Seq(CandleNames)
                  /\ StrongEngulfing(h[n - 1], f) \in Seq(CandleNames)
                  /\ Kicking(h[n - 1], f) \in Seq(CandleNames)
                  /\ HaramiCross(h[n - 1], f) \in Seq(CandleNames)
     /\ n >= 3 => /\ Star(h[n - 2], h[n - 1], f, st) \in Seq(CandleNames)
                  /\ DojiReversal(h[n - 2], h[n - 1], f) \in Seq(CandleNames)
                  /\ TriStar(h[n - 2], h[n - 1], f) \in Seq(CandleNames)

LEMMA Found ==
  ASSUME NEW h, Len(h) \in Nat \ {0}, NEW st, st # None, Listed(h, st)
  PROVE  Names(Candles(h, st)) = Rest(h, st) \cup StandsIn(h, st)
<1> DEFINE n == Len(h)
           f == h[n]  p == h[n - 1]  b == h[n - 2]
           dojis == DragonflyDoji(f, st) \o GravestoneDoji(f, st)
           single == dojis \o LongLowerShadow(f, st)
           engulfing == Engulfing(p, f, st)
           first == single \o engulfing
           strong == IF first = <<>> THEN StrongEngulfing(p, f) ELSE <<>>
           double == engulfing \o strong \o InvertedHammer(f, st) \o Kicking(p, f) \o OnNeck(p, f) \o HaramiCross(p, f)
           triple == Star(b, p, f, st) \o ThreeBlackCrows(b, p, f) \o DojiReversal(b, p, f) \o TriStar(b, p, f)
           two == IF n >= 2 THEN double ELSE <<>>
           three == IF n >= 3 THEN triple ELSE <<>>
<1>1. Candles(h, st) = single \o two \o three
  BY DEF Candles
<1>2. single \in Seq(CandleNames) /\ Names(single) = Alone(h, st) \cup Below(h, st)
  <2>1. dojis \in Seq(CandleNames)  BY DEF Listed
  <2>2. Names(dojis) = Alone(h, st)  BY DEF Alone
  <2>3. LongLowerShadow(f, st) \in Seq(CandleNames) /\ Names(LongLowerShadow(f, st)) = Below(h, st)
    BY Unpaired DEF Below
  <2> HIDE DEF dojis, f
  <2> QED  BY <2>1, <2>2, <2>3, NamesJoin
<1>3. two \in Seq(CandleNames)
      /\ Names(two) = IF n >= 2 THEN Engulfed(h, st) \cup StandsIn(h, st) \cup OfTwo(h, st) ELSE {}
  <2>1. CASE n >= 2
    <3>1. /\ engulfing \in Seq(CandleNames) /\ StrongEngulfing(p, f) \in Seq(CandleNames)
          /\ Kicking(p, f) \in Seq(CandleNames) /\ HaramiCross(p, f) \in Seq(CandleNames)
      BY <2>1 DEF Listed
    <3>2. InvertedHammer(f, st) \in Seq(CandleNames) /\ OnNeck(p, f) \in Seq(CandleNames)
      BY Unpaired
    <3>3. Names(engulfing) = Engulfed(h, st)  BY DEF Engulfed
    <3>4. first \in Seq(CandleNames) /\ Names(first) = Alone(h, st) \cup Below(h, st) \cup Engulfed(h, st)
      <4> HIDE DEF single, engulfing
      <4> QED  BY <1>2, <3>1, <3>3, NamesJoin
    <3>5. strong \in Seq(CandleNames) /\ Names(strong) = StandsIn(h, st)
      <4> HIDE DEF first
      <4>1. first = <<>> <=> Alone(h, st) \cup Below(h, st) \cup Engulfed(h, st) = {}
        BY <3>4, NamesEmpty
      <4> QED  BY <2>1, <3>1, <4>1, NamesOne DEF StandsIn
    <3>6. OfTwo(h, st) = Names(InvertedHammer(f, st)) \cup Names(Kicking(p, f)) \cup Names(OnNeck(p, f))
                         \cup Names(HaramiCross(p, f))
      BY DEF OfTwo
    <3>7. double \in Seq(CandleNames) /\ Names(double) = Engulfed(h, st) \cup StandsIn(h, st) \cup OfTwo(h, st)
      <4> DEFINE lead == engulfing \o strong \o InvertedHammer(f, st) \o Kicking(p, f)
      <4> HIDE DEF engulfing, strong, f, p
      <4>1. lead \in Seq(CandleNames)
            /\ Names(lead) = Names(engulfing) \cup Names(strong) \cup Names(InvertedHammer(f, st))
                             \cup Names(Kicking(p, f))
        BY <3>1, <3>2, <3>5, JoinFour
      <4>2. double = lead \o OnNeck(p, f) \o HaramiCross(p, f)
        OBVIOUS
      <4> HIDE DEF lead, double
      <4>3. /\ lead \o OnNeck(p, f) \in Seq(CandleNames)
            /\ Names(lead \o OnNeck(p, f)) = Names(lead) \cup Names(OnNeck(p, f))
        BY <3>2, <4>1, NamesJoin
      <4>4. double \in Seq(CandleNames) /\ Names(double) = Names(lead \o OnNeck(p, f)) \cup Names(HaramiCross(p, f))
        BY <3>1, <4>2, <4>3, NamesJoin
      <4> QED  BY <3>3, <3>5, <3>6, <4>1, <4>3, <4>4
    <3> HIDE DEF double
    <3> QED  BY <2>1, <3>7
  <2>2. CASE ~(n >= 2)
    BY <2>2, NamesOne
  <2> QED  BY <2>1, <2>2
<1>4. three \in Seq(CandleNames) /\ Names(three) = IF n >= 3 THEN OfThree(h, st) ELSE {}
  <2>1. CASE n >= 3
    <3>1. /\ Star(b, p, f, st) \in Seq(CandleNames) /\ DojiReversal(b, p, f) \in Seq(CandleNames)
          /\ TriStar(b, p, f) \in Seq(CandleNames)
      BY <2>1 DEF Listed
    <3>2. ThreeBlackCrows(b, p, f) \in Seq(CandleNames)  BY Unpaired
    <3>3. OfThree(h, st) = Names(Star(b, p, f, st)) \cup Names(ThreeBlackCrows(b, p, f))
                           \cup Names(DojiReversal(b, p, f)) \cup Names(TriStar(b, p, f))
      BY DEF OfThree
    <3> HIDE DEF b, p, f
    <3> QED  BY <2>1, <3>1, <3>2, <3>3, JoinFour
  <2>2. CASE ~(n >= 3)
    BY <2>2, NamesOne
  <2> QED  BY <2>1, <2>2
<1> HIDE DEF single, two, three
<1>5. Names(single \o two \o three) = Names(single) \cup Names(two) \cup Names(three)
  <2>1. single \o two \in Seq(CandleNames) /\ Names(single \o two) = Names(single) \cup Names(two)
    BY <1>2, <1>3, NamesJoin
  <2> QED  BY <1>4, <2>1, NamesJoin
<1>6. ~(n >= 2) => StandsIn(h, st) = {}  BY DEF StandsIn
<1> QED  BY <1>1, <1>2, <1>3, <1>4, <1>5, <1>6 DEF Rest

LEMMA BarsBefore ==
  ASSUME NEW h, NEW u, Overturned(h, u), NEW k \in Nat, k < Len(h)
  PROVE  Whole(h[Len(h) - k]) /\ Upturned(h[Len(h) - k], u[Len(u) - k])
<1>1. Len(h) - k \in 1..Len(h) /\ Len(u) = Len(h)  BY DEF Overturned
<1> QED  BY <1>1 DEF Overturned

LEMMA NewestBar ==
  ASSUME NEW h, NEW u, Overturned(h, u)
  PROVE  Whole(h[Len(h)]) /\ Upturned(h[Len(h)], u[Len(u)])
<1>1. Len(h) \in 1..Len(h) /\ Len(u) = Len(h)  BY DEF Overturned
<1> QED  BY <1>1 DEF Overturned

LEMMA BothListed ==
  ASSUME NEW h, NEW u, Overturned(h, u), NEW st, NEW r, Swapped(st, r)
  PROVE  Listed(h, st) /\ Listed(u, r)
<1> DEFINE n == Len(h)  f == h[n]  g == u[n]
<1>1. Len(u) = n /\ n \in Nat \ {0}  BY DEF Overturned
<1>2. Whole(f) /\ Upturned(f, g)  BY <1>1, NewestBar
<1>3. /\ DragonflyDoji(f, st) \o GravestoneDoji(f, st) \in Seq(CandleNames)
      /\ DragonflyDoji(g, r) \o GravestoneDoji(g, r) \in Seq(CandleNames)
  <2> HIDE DEF f, g
  <2> QED  BY <1>2, DojisTurn DEF Paired
<1>4. ASSUME n >= 2
      PROVE  /\ Engulfing(h[n - 1], f, st) \in Seq(CandleNames) /\ Engulfing(u[n - 1], g, r) \in Seq(CandleNames)
             /\ StrongEngulfing(h[n - 1], f) \in Seq(CandleNames) /\ StrongEngulfing(u[n - 1], g) \in Seq(CandleNames)
             /\ Kicking(h[n - 1], f) \in Seq(CandleNames) /\ Kicking(u[n - 1], g) \in Seq(CandleNames)
             /\ HaramiCross(h[n - 1], f) \in Seq(CandleNames) /\ HaramiCross(u[n - 1], g) \in Seq(CandleNames)
  <2> DEFINE p == h[n - 1]  q == u[n - 1]
  <2>1. Whole(p) /\ Upturned(p, q)  BY <1>1, <1>4, BarsBefore
  <2> HIDE DEF f, g, p, q
  <2>2. Engulfing(p, f, st) \in Seq(CandleNames) /\ Engulfing(q, g, r) \in Seq(CandleNames)
    BY <1>2, <2>1, EngulfingTurns DEF Paired
  <2>3. StrongEngulfing(p, f) \in Seq(CandleNames) /\ StrongEngulfing(q, g) \in Seq(CandleNames)
    BY <1>2, <2>1, EngulfingTurns DEF Paired
  <2>4. Kicking(p, f) \in Seq(CandleNames) /\ Kicking(q, g) \in Seq(CandleNames)
    BY <1>2, <2>1, KickingTurns DEF Paired
  <2>5. HaramiCross(p, f) \in Seq(CandleNames) /\ HaramiCross(q, g) \in Seq(CandleNames)
    BY <1>2, <2>1, HaramiCrossTurns DEF Paired
  <2> QED  BY <2>2, <2>3, <2>4, <2>5 DEF p, q
<1>5. ASSUME n >= 3
      PROVE  /\ Star(h[n - 2], h[n - 1], f, st) \in Seq(CandleNames)
             /\ Star(u[n - 2], u[n - 1], g, r) \in Seq(CandleNames)
             /\ DojiReversal(h[n - 2], h[n - 1], f) \in Seq(CandleNames)
             /\ DojiReversal(u[n - 2], u[n - 1], g) \in Seq(CandleNames)
             /\ TriStar(h[n - 2], h[n - 1], f) \in Seq(CandleNames)
             /\ TriStar(u[n - 2], u[n - 1], g) \in Seq(CandleNames)
  <2> DEFINE p == h[n - 1]  q == u[n - 1]  b == h[n - 2]  a == u[n - 2]
  <2>1. Whole(p) /\ Upturned(p, q) /\ Whole(b) /\ Upturned(b, a)  BY <1>1, <1>5, BarsBefore
  <2> HIDE DEF f, g, p, q, a, b
  <2>2. Star(b, p, f, st) \in Seq(CandleNames) /\ Star(a, q, g, r) \in Seq(CandleNames)
    <3>1. Paired(Star(b, p, f, st), Star(a, q, g, r), "morning_star", "evening_star")
      BY <1>2, <2>1, StarTurns
    <3> QED  BY <3>1 DEF Paired
  <2>3. DojiReversal(b, p, f) \in Seq(CandleNames) /\ DojiReversal(a, q, g) \in Seq(CandleNames)
    <3>1. Paired(DojiReversal(b, p, f), DojiReversal(a, q, g), "doji_reversal_short", "doji_reversal_long")
      BY <1>2, <2>1, DojiReversalTurns
    <3> QED  BY <3>1 DEF Paired
  <2>4. TriStar(b, p, f) \in Seq(CandleNames) /\ TriStar(a, q, g) \in Seq(CandleNames)
    <3>1. Paired(TriStar(b, p, f), TriStar(a, q, g), "tri_star_bullish", "tri_star_bearish")
      BY <1>2, <2>1, TriStarTurns
    <3> QED  BY <3>1 DEF Paired
  <2> QED  BY <2>2, <2>3, <2>4 DEF p, q, a, b
<1> QED  BY <1>1, <1>3, <1>4, <1>5 DEF Listed

StandIns == {"strong_bullish_engulfing", "strong_bearish_engulfing"}

LEMMA UnpairedAside ==
  /\ \A f, st : Names(LongLowerShadow(f, st)) \subseteq OneSided
  /\ \A f, st : Names(InvertedHammer(f, st)) \subseteq OneSided
  /\ \A s, f : Names(OnNeck(s, f)) \subseteq OneSided
  /\ \A b, s, f : Names(ThreeBlackCrows(b, s, f)) \subseteq OneSided
<1> SUFFICES ASSUME NEW b, NEW s, NEW f, NEW st
             PROVE  /\ Names(LongLowerShadow(f, st)) \subseteq OneSided
                    /\ Names(InvertedHammer(f, st)) \subseteq OneSided
                    /\ Names(OnNeck(s, f)) \subseteq OneSided
                    /\ Names(ThreeBlackCrows(b, s, f)) \subseteq OneSided
  OBVIOUS
<1>1. /\ Names(LongLowerShadow(f, st)) \subseteq {"long_lower_shadow"}
      /\ Names(InvertedHammer(f, st)) \subseteq {"inverted_hammer_bearish"}
      /\ Names(OnNeck(s, f)) \subseteq {"on_neck"}
      /\ Names(ThreeBlackCrows(b, s, f)) \subseteq {"three_black_crows"}
  BY Unpaired
<1> QED  BY <1>1 DEF OneSided

LEMMA PartsAnswer ==
  ASSUME NEW h, NEW u, Overturned(h, u), NEW st, NEW r, Swapped(st, r)
  PROVE  /\ Answers(Alone(h, st), Alone(u, r))
         /\ Answers(Below(h, st), Below(u, r))
         /\ Len(h) >= 2 => /\ Answers(Engulfed(h, st), Engulfed(u, r))
                           /\ Answers(OfTwo(h, st), OfTwo(u, r))
                           /\ Answers(Names(StrongEngulfing(h[Len(h) - 1], h[Len(h)])),
                                      Names(StrongEngulfing(u[Len(u) - 1], u[Len(u)])))
         /\ Len(h) >= 3 => Answers(OfThree(h, st), OfThree(u, r))
<1> DEFINE n == Len(h)  f == h[n]  g == u[n]
<1>1. Len(u) = n /\ n \in Nat \ {0}  BY DEF Overturned
<1>2. Whole(f) /\ Upturned(f, g)  BY <1>1, NewestBar
<1>3. Answers(Alone(h, st), Alone(u, r))
  <2>1. /\ Alone(h, st) = Names(DragonflyDoji(f, st) \o GravestoneDoji(f, st))
        /\ Alone(u, r) = Names(DragonflyDoji(g, r) \o GravestoneDoji(g, r))
    BY <1>1 DEF Alone
  <2> HIDE DEF f, g
  <2> QED  BY <1>2, <2>1, DojisTurn DEF Paired
<1>4. Answers(Below(h, st), Below(u, r))
  BY UnpairedAside, OneSidedAnswer DEF Below
<1>5. ASSUME n >= 2
      PROVE  /\ Answers(Engulfed(h, st), Engulfed(u, r))
             /\ Answers(OfTwo(h, st), OfTwo(u, r))
             /\ Answers(Names(StrongEngulfing(h[n - 1], f)), Names(StrongEngulfing(u[n - 1], g)))
  <2> DEFINE p == h[n - 1]  q == u[n - 1]
  <2>1. Whole(p) /\ Upturned(p, q)  BY <1>1, <1>5, BarsBefore
  <2>2. /\ Engulfed(h, st) = Names(Engulfing(p, f, st)) /\ Engulfed(u, r) = Names(Engulfing(q, g, r))
    BY <1>1 DEF Engulfed
  <2>3. /\ OfTwo(h, st) = Names(InvertedHammer(f, st)) \cup Names(Kicking(p, f)) \cup Names(OnNeck(p, f))
                          \cup Names(HaramiCross(p, f))
        /\ OfTwo(u, r) = Names(InvertedHammer(g, r)) \cup Names(Kicking(q, g)) \cup Names(OnNeck(q, g))
                         \cup Names(HaramiCross(q, g))
    BY <1>1 DEF OfTwo
  <2> HIDE DEF f, g, p, q
  <2>4. /\ Answers(Names(Engulfing(p, f, st)), Names(Engulfing(q, g, r)))
        /\ Answers(Names(StrongEngulfing(p, f)), Names(StrongEngulfing(q, g)))
    BY <1>2, <2>1, EngulfingTurns DEF Paired
  <2>5. Answers(Names(Kicking(p, f)), Names(Kicking(q, g)))
    BY <1>2, <2>1, KickingTurns DEF Paired
  <2>6. Answers(Names(HaramiCross(p, f)), Names(HaramiCross(q, g)))
    BY <1>2, <2>1, HaramiCrossTurns DEF Paired
  <2>7. Answers(Names(InvertedHammer(f, st)), Names(InvertedHammer(g, r)))
    BY UnpairedAside, OneSidedAnswer
  <2>8. Answers(Names(OnNeck(p, f)), Names(OnNeck(q, g)))
    BY UnpairedAside, OneSidedAnswer
  <2>9. Answers(Names(InvertedHammer(f, st)) \cup Names(Kicking(p, f)),
                Names(InvertedHammer(g, r)) \cup Names(Kicking(q, g)))
    BY <2>5, <2>7, AnswersJoin
  <2>10. Answers(Names(InvertedHammer(f, st)) \cup Names(Kicking(p, f)) \cup Names(OnNeck(p, f)),
                 Names(InvertedHammer(g, r)) \cup Names(Kicking(q, g)) \cup Names(OnNeck(q, g)))
    BY <2>8, <2>9, AnswersJoin
  <2>11. Answers(OfTwo(h, st), OfTwo(u, r))
    BY <2>3, <2>6, <2>10, AnswersJoin
  <2> QED  BY <2>2, <2>4, <2>11 DEF p, q
<1>6. ASSUME n >= 3
      PROVE  Answers(OfThree(h, st), OfThree(u, r))
  <2> DEFINE p == h[n - 1]  q == u[n - 1]  b == h[n - 2]  a == u[n - 2]
  <2>1. Whole(p) /\ Upturned(p, q) /\ Whole(b) /\ Upturned(b, a)  BY <1>1, <1>6, BarsBefore
  <2>2. /\ OfThree(h, st) = Names(Star(b, p, f, st)) \cup Names(ThreeBlackCrows(b, p, f))
                            \cup Names(DojiReversal(b, p, f)) \cup Names(TriStar(b, p, f))
        /\ OfThree(u, r) = Names(Star(a, q, g, r)) \cup Names(ThreeBlackCrows(a, q, g))
                           \cup Names(DojiReversal(a, q, g)) \cup Names(TriStar(a, q, g))
    BY <1>1 DEF OfThree
  <2> HIDE DEF f, g, p, q, a, b
  <2>3. Answers(Names(Star(b, p, f, st)), Names(Star(a, q, g, r)))
    <3>1. Paired(Star(b, p, f, st), Star(a, q, g, r), "morning_star", "evening_star")
      BY <1>2, <2>1, StarTurns
    <3> QED  BY <3>1 DEF Paired
  <2>4. Answers(Names(DojiReversal(b, p, f)), Names(DojiReversal(a, q, g)))
    <3>1. Paired(DojiReversal(b, p, f), DojiReversal(a, q, g), "doji_reversal_short", "doji_reversal_long")
      BY <1>2, <2>1, DojiReversalTurns
    <3> QED  BY <3>1 DEF Paired
  <2>5. Answers(Names(TriStar(b, p, f)), Names(TriStar(a, q, g)))
    <3>1. Paired(TriStar(b, p, f), TriStar(a, q, g), "tri_star_bullish", "tri_star_bearish")
      BY <1>2, <2>1, TriStarTurns
    <3> QED  BY <3>1 DEF Paired
  <2>6. Answers(Names(ThreeBlackCrows(b, p, f)), Names(ThreeBlackCrows(a, q, g)))
    BY UnpairedAside, OneSidedAnswer
  <2>7. Answers(Names(Star(b, p, f, st)) \cup Names(ThreeBlackCrows(b, p, f)),
                Names(Star(a, q, g, r)) \cup Names(ThreeBlackCrows(a, q, g)))
    BY <2>3, <2>6, AnswersJoin
  <2>8. Answers(Names(Star(b, p, f, st)) \cup Names(ThreeBlackCrows(b, p, f)) \cup Names(DojiReversal(b, p, f)),
                Names(Star(a, q, g, r)) \cup Names(ThreeBlackCrows(a, q, g)) \cup Names(DojiReversal(a, q, g)))
    BY <2>4, <2>7, AnswersJoin
  <2> QED  BY <2>2, <2>5, <2>8, AnswersJoin
<1> QED  BY <1>1, <1>3, <1>4, <1>5, <1>6

LEMMA RestAnswers ==
  ASSUME NEW h, NEW u, Overturned(h, u), NEW st, NEW r, Swapped(st, r)
  PROVE  Answers(Rest(h, st), Rest(u, r))
<1> DEFINE two(b, s) == IF Len(b) >= 2 THEN Engulfed(b, s) \cup OfTwo(b, s) ELSE {}
           three(b, s) == IF Len(b) >= 3 THEN OfThree(b, s) ELSE {}
<1>1. Len(u) = Len(h)  BY DEF Overturned
<1>2. Answers({}, {})  BY OneSidedAnswer
<1>3. Answers(two(h, st), two(u, r))
  <2>1. Len(h) >= 2 => Answers(Engulfed(h, st) \cup OfTwo(h, st), Engulfed(u, r) \cup OfTwo(u, r))
    BY PartsAnswer, AnswersJoin
  <2> QED  BY <1>1, <1>2, <2>1
<1>4. Answers(three(h, st), three(u, r))
  <2>1. Len(h) >= 3 => Answers(OfThree(h, st), OfThree(u, r))  BY PartsAnswer
  <2> QED  BY <1>1, <1>2, <2>1
<1>5. Answers(Alone(h, st) \cup Below(h, st), Alone(u, r) \cup Below(u, r))
  <2>1. Answers(Alone(h, st), Alone(u, r)) /\ Answers(Below(h, st), Below(u, r))  BY PartsAnswer
  <2> QED  BY <2>1, AnswersJoin
<1>6. /\ Rest(h, st) = Alone(h, st) \cup Below(h, st) \cup two(h, st) \cup three(h, st)
      /\ Rest(u, r) = Alone(u, r) \cup Below(u, r) \cup two(u, r) \cup three(u, r)
  BY DEF Rest
<1> HIDE DEF two, three
<1>7. Answers(Alone(h, st) \cup Below(h, st) \cup two(h, st), Alone(u, r) \cup Below(u, r) \cup two(u, r))
  BY <1>3, <1>5, AnswersJoin
<1> QED  BY <1>4, <1>6, <1>7, AnswersJoin

LEMMA RestKeepsOut ==
  ASSUME NEW h, NEW u, Overturned(h, u), NEW st, NEW r, Swapped(st, r)
  PROVE  /\ Rest(h, st) \cap StandIns = {} /\ Rest(u, r) \cap StandIns = {}
         /\ StandsIn(h, st) \subseteq StandIns /\ StandsIn(u, r) \subseteq StandIns
<1> DEFINE n == Len(h)  f == h[n]  g == u[n]
<1>1. Len(u) = n /\ n \in Nat \ {0}  BY DEF Overturned
<1>2. Whole(f) /\ Upturned(f, g)  BY <1>1, NewestBar
<1>3. Alone(h, st) \cap StandIns = {} /\ Alone(u, r) \cap StandIns = {}
  <2>1. Alone(h, st) \subseteq {"dragonfly_doji", "gravestone_doji"}
        /\ Alone(u, r) \subseteq {"dragonfly_doji", "gravestone_doji"}
    <3>1. /\ Alone(h, st) = Names(DragonflyDoji(f, st) \o GravestoneDoji(f, st))
          /\ Alone(u, r) = Names(DragonflyDoji(g, r) \o GravestoneDoji(g, r))
      BY <1>1 DEF Alone
    <3> HIDE DEF f, g
    <3> QED  BY <1>2, <3>1, DojisTurn DEF Paired
  <2> QED  BY <2>1 DEF StandIns
<1>4. OneSided \cap StandIns = {}  BY DEF OneSided, StandIns
<1>5. Below(h, st) \subseteq OneSided /\ Below(u, r) \subseteq OneSided
  BY UnpairedAside DEF Below
<1>6. ASSUME n >= 2
      PROVE  /\ Engulfed(h, st) \cap StandIns = {} /\ Engulfed(u, r) \cap StandIns = {}
             /\ OfTwo(h, st) \cap StandIns = {} /\ OfTwo(u, r) \cap StandIns = {}
             /\ StandsIn(h, st) \subseteq StandIns /\ StandsIn(u, r) \subseteq StandIns
  <2> DEFINE p == h[n - 1]  q == u[n - 1]
  <2>1. Whole(p) /\ Upturned(p, q)  BY <1>1, <1>6, BarsBefore
  <2>2. /\ Engulfed(h, st) = Names(Engulfing(p, f, st)) /\ Engulfed(u, r) = Names(Engulfing(q, g, r))
    BY <1>1 DEF Engulfed
  <2>3. /\ OfTwo(h, st) = Names(InvertedHammer(f, st)) \cup Names(Kicking(p, f)) \cup Names(OnNeck(p, f))
                          \cup Names(HaramiCross(p, f))
        /\ OfTwo(u, r) = Names(InvertedHammer(g, r)) \cup Names(Kicking(q, g)) \cup Names(OnNeck(q, g))
                         \cup Names(HaramiCross(q, g))
    BY <1>1 DEF OfTwo
  <2>4. /\ StandsIn(h, st) \subseteq Names(StrongEngulfing(p, f))
        /\ StandsIn(u, r) \subseteq Names(StrongEngulfing(q, g))
    BY <1>1 DEF StandsIn
  <2> HIDE DEF f, g, p, q
  <2>5. /\ Names(Engulfing(p, f, st)) \subseteq {"bullish_engulfing", "bearish_engulfing"}
        /\ Names(Engulfing(q, g, r)) \subseteq {"bullish_engulfing", "bearish_engulfing"}
        /\ Names(StrongEngulfing(p, f)) \subseteq StandIns /\ Names(StrongEngulfing(q, g)) \subseteq StandIns
    BY <1>2, <2>1, EngulfingTurns DEF Paired, StandIns
  <2>6. /\ Names(Kicking(p, f)) \subseteq {"kicking_bullish", "kicking_bearish"}
        /\ Names(Kicking(q, g)) \subseteq {"kicking_bullish", "kicking_bearish"}
    BY <1>2, <2>1, KickingTurns DEF Paired
  <2>7. /\ Names(HaramiCross(p, f)) \subseteq {"harami_cross_bullish", "harami_cross_bearish"}
        /\ Names(HaramiCross(q, g)) \subseteq {"harami_cross_bullish", "harami_cross_bearish"}
    BY <1>2, <2>1, HaramiCrossTurns DEF Paired
  <2>8. /\ {"bullish_engulfing", "bearish_engulfing"} \cap StandIns = {}
        /\ {"kicking_bullish", "kicking_bearish"} \cap StandIns = {}
        /\ {"harami_cross_bullish", "harami_cross_bearish"} \cap StandIns = {}
    BY DEF StandIns
  <2>9. Engulfed(h, st) \cap StandIns = {} /\ Engulfed(u, r) \cap StandIns = {}
    BY <2>2, <2>5, <2>8
  <2>10. OfTwo(h, st) \cap StandIns = {}
    <3>1. /\ Names(InvertedHammer(f, st)) \cap StandIns = {} /\ Names(OnNeck(p, f)) \cap StandIns = {}
          /\ Names(Kicking(p, f)) \cap StandIns = {} /\ Names(HaramiCross(p, f)) \cap StandIns = {}
      BY <1>4, <2>6, <2>7, <2>8, UnpairedAside
    <3> QED  BY <2>3, <3>1
  <2>11. OfTwo(u, r) \cap StandIns = {}
    <3>1. /\ Names(InvertedHammer(g, r)) \cap StandIns = {} /\ Names(OnNeck(q, g)) \cap StandIns = {}
          /\ Names(Kicking(q, g)) \cap StandIns = {} /\ Names(HaramiCross(q, g)) \cap StandIns = {}
      BY <1>4, <2>6, <2>7, <2>8, UnpairedAside
    <3> QED  BY <2>3, <3>1
  <2> QED  BY <2>4, <2>5, <2>9, <2>10, <2>11
<1>7. ASSUME n >= 3
      PROVE  OfThree(h, st) \cap StandIns = {} /\ OfThree(u, r) \cap StandIns = {}
  <2> DEFINE p == h[n - 1]  q == u[n - 1]  b == h[n - 2]  a == u[n - 2]
  <2>1. Whole(p) /\ Upturned(p, q) /\ Whole(b) /\ Upturned(b, a)  BY <1>1, <1>7, BarsBefore
  <2>2. /\ OfThree(h, st) = Names(Star(b, p, f, st)) \cup Names(ThreeBlackCrows(b, p, f))
                            \cup Names(DojiReversal(b, p, f)) \cup Names(TriStar(b, p, f))
        /\ OfThree(u, r) = Names(Star(a, q, g, r)) \cup Names(ThreeBlackCrows(a, q, g))
                           \cup Names(DojiReversal(a, q, g)) \cup Names(TriStar(a, q, g))
    BY <1>1 DEF OfThree
  <2> HIDE DEF f, g, p, q, a, b
  <2>3. /\ Names(Star(b, p, f, st)) \subseteq {"morning_star", "evening_star"}
        /\ Names(Star(a, q, g, r)) \subseteq {"morning_star", "evening_star"}
    <3>1. Paired(Star(b, p, f, st), Star(a, q, g, r), "morning_star", "evening_star")
      BY <1>2, <2>1, StarTurns
    <3> QED  BY <3>1 DEF Paired
  <2>4. /\ Names(DojiReversal(b, p, f)) \subseteq {"doji_reversal_short", "doji_reversal_long"}
        /\ Names(DojiReversal(a, q, g)) \subseteq {"doji_reversal_short", "doji_reversal_long"}
    <3>1. Paired(DojiReversal(b, p, f), DojiReversal(a, q, g), "doji_reversal_short", "doji_reversal_long")
      BY <1>2, <2>1, DojiReversalTurns
    <3> QED  BY <3>1 DEF Paired
  <2>5. /\ Names(TriStar(b, p, f)) \subseteq {"tri_star_bullish", "tri_star_bearish"}
        /\ Names(TriStar(a, q, g)) \subseteq {"tri_star_bullish", "tri_star_bearish"}
    <3>1. Paired(TriStar(b, p, f), TriStar(a, q, g), "tri_star_bullish", "tri_star_bearish")
      BY <1>2, <2>1, TriStarTurns
    <3> QED  BY <3>1 DEF Paired
  <2>6. /\ {"morning_star", "evening_star"} \cap StandIns = {}
        /\ {"doji_reversal_short", "doji_reversal_long"} \cap StandIns = {}
        /\ {"tri_star_bullish", "tri_star_bearish"} \cap StandIns = {}
    BY DEF StandIns
  <2>7. Names(ThreeBlackCrows(b, p, f)) \cap StandIns = {} /\ Names(ThreeBlackCrows(a, q, g)) \cap StandIns = {}
    BY <1>4, UnpairedAside
  <2>8. OfThree(h, st) \cap StandIns = {}
    <3>1. /\ Names(Star(b, p, f, st)) \cap StandIns = {} /\ Names(DojiReversal(b, p, f)) \cap StandIns = {}
          /\ Names(TriStar(b, p, f)) \cap StandIns = {}
      BY <2>3, <2>4, <2>5, <2>6
    <3> QED  BY <2>2, <2>7, <3>1
  <2>9. OfThree(u, r) \cap StandIns = {}
    <3>1. /\ Names(Star(a, q, g, r)) \cap StandIns = {} /\ Names(DojiReversal(a, q, g)) \cap StandIns = {}
          /\ Names(TriStar(a, q, g)) \cap StandIns = {}
      BY <2>3, <2>4, <2>5, <2>6
    <3> QED  BY <2>2, <2>7, <3>1
  <2> QED  BY <2>8, <2>9
<1>8. ~(n >= 2) => StandsIn(h, st) = {} /\ StandsIn(u, r) = {}
  BY <1>1 DEF StandsIn
<1>9. Rest(h, st) \cap StandIns = {}
  BY <1>3, <1>4, <1>5, <1>6, <1>7 DEF Rest
<1>10. Rest(u, r) \cap StandIns = {}
  BY <1>1, <1>3, <1>4, <1>5, <1>6, <1>7 DEF Rest
<1> QED  BY <1>6, <1>8, <1>9, <1>10

LEMMA BarTurns ==
  ASSUME NEW f \in FeatureBars
  PROVE  Whole(f) /\ Upturned(f, MirrorBar(f))
<1>1. f \in FeatureVector  BY ChainAssumption
<1>2. Whole(f)
  <2>1. (\A x \in Fields : f[x] \in Int) /\ f.atr \in Int  BY <1>1, VectorFields
  <2> QED  BY <2>1 DEF Whole, Fields
<1>3. \A x : Flip(x) = 2000 - x  BY DEF Flip, Axis
<1>4. Upturned(f, MirrorBar(f))  BY <1>1, <1>3, Mirrored DEF Upturned
<1> QED  BY <1>2, <1>4

LEMMA HistoryTurns ==
  ASSUME NEW h \in Seq(FeatureBars), h # <<>>
  PROVE  Overturned(h, UpsideDown(h)) /\ h[Len(h)] \in FeatureBars
<1> DEFINE u == UpsideDown(h)
<1>1. Len(h) \in Nat \ {0} /\ DOMAIN h = 1..Len(h) /\ \A i \in 1..Len(h) : h[i] \in FeatureBars
  OBVIOUS
<1>2. u = [i \in 1..Len(h) |-> MirrorBar(h[i])]  BY <1>1 DEF UpsideDown
<1>3. Len(u) = Len(h)  BY <1>1, <1>2
<1>4. \A i \in 1..Len(h) : u[i] = MirrorBar(h[i])  BY <1>2
<1> HIDE DEF u
<1>5. Overturned(h, u)  BY <1>1, <1>3, <1>4, BarTurns DEF Overturned
<1> QED  BY <1>1, <1>5 DEF u

LEMMA StandInsAnswer ==
  ASSUME NEW h, NEW u, Overturned(h, u), NEW st, NEW r, Swapped(st, r),
         "long_lower_shadow" \notin Below(h, st), "long_lower_shadow" \notin Below(u, r)
  PROVE  Answers(StandsIn(h, st), StandsIn(u, r))
<1> DEFINE n == Len(h)
           first(b, s) == Alone(b, s) \cup Engulfed(b, s)
           strong(b) == Names(StrongEngulfing(b[n - 1], b[n]))
<1>1. Len(u) = n /\ n \in Nat \ {0}  BY DEF Overturned
<1>2. Below(h, st) = {} /\ Below(u, r) = {}
  <2>1. Below(h, st) \subseteq {"long_lower_shadow"} /\ Below(u, r) \subseteq {"long_lower_shadow"}
    BY Unpaired DEF Below
  <2> QED  BY <2>1
<1>3. CASE n >= 2
  <2> DEFINE early == {"dragonfly_doji", "gravestone_doji", "bullish_engulfing", "bearish_engulfing"}
  <2>1. first(h, st) \subseteq early /\ first(u, r) \subseteq early
    <3> DEFINE p == h[n - 1]  q == u[n - 1]  f == h[n]  g == u[n]
    <3>1. Whole(f) /\ Upturned(f, g) /\ Whole(p) /\ Upturned(p, q)  BY <1>1, <1>3, BarsBefore, NewestBar
    <3>2. /\ Alone(h, st) = Names(DragonflyDoji(f, st) \o GravestoneDoji(f, st))
          /\ Alone(u, r) = Names(DragonflyDoji(g, r) \o GravestoneDoji(g, r))
          /\ Engulfed(h, st) = Names(Engulfing(p, f, st)) /\ Engulfed(u, r) = Names(Engulfing(q, g, r))
      BY <1>1 DEF Alone, Engulfed
    <3> HIDE DEF p, q, f, g
    <3>3. /\ Names(DragonflyDoji(f, st) \o GravestoneDoji(f, st)) \subseteq {"dragonfly_doji", "gravestone_doji"}
          /\ Names(DragonflyDoji(g, r) \o GravestoneDoji(g, r)) \subseteq {"dragonfly_doji", "gravestone_doji"}
      BY <3>1, DojisTurn DEF Paired
    <3>4. /\ Names(Engulfing(p, f, st)) \subseteq {"bullish_engulfing", "bearish_engulfing"}
          /\ Names(Engulfing(q, g, r)) \subseteq {"bullish_engulfing", "bearish_engulfing"}
      BY <3>1, EngulfingTurns DEF Paired
    <3> QED  BY <3>2, <3>3, <3>4
  <2>2. Answers(first(h, st), first(u, r)) /\ Answers(strong(h), strong(u))
    BY <1>1, <1>3, PartsAnswer, AnswersJoin
  <2>3. early \cap OneSided = {}  BY DEF OneSided
  <2>4. \A x \in early : \E y : Reflected({x}) = {y}
    BY CandlesTurn DEF Counterparts, Turned
  <2>5. /\ StandsIn(h, st) = IF first(h, st) = {} THEN strong(h) ELSE {}
        /\ StandsIn(u, r) = IF first(u, r) = {} THEN strong(u) ELSE {}
    BY <1>1, <1>2, <1>3 DEF StandsIn
  <2> HIDE DEF early, first, strong
  <2>6. first(u, r) = Reflected(first(h, st))
    <3>1. first(u, r) \ OneSided = first(u, r) /\ first(h, st) \ OneSided = first(h, st)
      BY <2>1, <2>3
    <3> QED  BY <2>2, <3>1 DEF Answers
  <2>7. first(h, st) = {} => first(u, r) = {}  BY <2>6, Reflections
  <2>8. ASSUME NEW x \in first(h, st) PROVE first(u, r) # {}
    <3>1. PICK y : Reflected({x}) = {y}  BY <2>1, <2>4
    <3>2. first(h, st) = first(h, st) \cup {x}  OBVIOUS
    <3>3. Reflected(first(h, st)) = Reflected(first(h, st)) \cup Reflected({x})  BY <3>2, Reflections
    <3> QED  BY <2>6, <3>1, <3>3
  <2>9. Answers({}, {})  BY OneSidedAnswer
  <2> QED  BY <2>2, <2>5, <2>7, <2>8, <2>9
<1>4. CASE ~(n >= 2)
  <2>1. StandsIn(h, st) = {} /\ StandsIn(u, r) = {}  BY <1>1, <1>4 DEF StandsIn
  <2> QED  BY <2>1, OneSidedAnswer
<1> QED  BY <1>3, <1>4

LEMMA CandlesAnswer ==
  ASSUME NEW h, NEW u, Overturned(h, u), NEW st, NEW r, Swapped(st, r), st # None, r # None
  PROVE  LET V == Names(Candles(h, st))  U == Names(Candles(u, r))
             aside == OneSided \cup HeldBack(V \cup U)
         IN U \ aside = Reflected(V \ aside)
<1> DEFINE V == Names(Candles(h, st))  U == Names(Candles(u, r))
           aside == OneSided \cup HeldBack(V \cup U)
<1>1. V = Rest(h, st) \cup StandsIn(h, st) /\ U = Rest(u, r) \cup StandsIn(u, r)
  <2>1. Len(h) \in Nat \ {0} /\ Len(u) = Len(h)  BY DEF Overturned
  <2> QED  BY <2>1, BothListed, Found
<1>2. Answers(Rest(h, st), Rest(u, r))  BY RestAnswers
<1>3. /\ Rest(h, st) \cap StandIns = {} /\ Rest(u, r) \cap StandIns = {}
      /\ StandsIn(h, st) \subseteq StandIns /\ StandsIn(u, r) \subseteq StandIns
  BY RestKeepsOut
<1>4. Below(h, st) \subseteq Rest(h, st) /\ Below(u, r) \subseteq Rest(u, r)
  BY DEF Rest
<1> HIDE DEF V, U
<1>5. ASSUME "long_lower_shadow" \in V \cup U
      PROVE  U \ aside = Reflected(V \ aside)
  <2>1. HeldBack(V \cup U) = StandIns  BY <1>5 DEF HeldBack, StandIns
  <2>2. V \ aside = Rest(h, st) \ OneSided /\ U \ aside = Rest(u, r) \ OneSided
    BY <1>1, <1>3, <2>1
  <2> QED  BY <1>2, <2>2 DEF Answers
<1>6. ASSUME "long_lower_shadow" \notin V \cup U
      PROVE  U \ aside = Reflected(V \ aside)
  <2>1. aside = OneSided  BY <1>6 DEF HeldBack
  <2>2. "long_lower_shadow" \notin Below(h, st) /\ "long_lower_shadow" \notin Below(u, r)
    BY <1>1, <1>4, <1>6
  <2>3. Answers(V, U)
    BY <1>1, <1>2, <2>2, StandInsAnswer, AnswersJoin
  <2> QED  BY <2>1, <2>3 DEF Answers
<1>7. U \ aside = Reflected(V \ aside)
  BY <1>5, <1>6
<1> QED  BY <1>7 DEF V, U

\* The bars remembered.
Remembers == history \in Seq(FeatureBars)

LEMMA BarsAreRemembered == ChainSpec => []Remembers
<1>1. ChainInit => Remembers
  BY DEF ChainInit, InitIndicators, Remembers
<1>2. Remembers /\ [ChainNext]_chainVars => Remembers'
  <2> SUFFICES ASSUME Remembers, [ChainNext]_chainVars
               PROVE  Remembers'
    OBVIOUS
  <2>1. CASE ChainNext
    <3>1. PICK f \in FeatureBars, c \in Contexts : BarClosed(f, c)  BY <2>1 DEF ChainNext
    <3> DEFINE grown == Append(history, f)
               from == Max({1, Len(history) + 2 - HistorySize})
    <3>2. history' = SubSeq(grown, from, Len(history) + 1)
      BY <3>1 DEF BarClosed, IndicatorsBar
    <3>3. grown \in Seq(FeatureBars) /\ Len(grown) = Len(history) + 1 /\ Len(history) \in Nat
      BY DEF Remembers
    <3>4. from \in Nat \ {0}
      <4>1. HistorySize \in Int
        <5>1. DivergenceBack \in Int  BY IndicatorsAssumption
        <5> QED  BY <5>1, MaxOf DEF HistorySize
      <4> DEFINE k == Len(history) + 2 - HistorySize
      <4>2. k \in Int  BY <3>3, <4>1
      <4> HIDE DEF k
      <4>3. Max({1, k}) = IF 1 >= k THEN 1 ELSE k  BY <4>2, MaxOf
      <4>4. Max({1, k}) \in Nat \ {0}  BY <4>2, <4>3
      <4> QED  BY <4>4 DEF k
    <3> HIDE DEF grown, from
    <3>5. \A i \in from..Len(history) + 1 : grown[i] \in FeatureBars
      BY <3>3, <3>4
    <3>6. SubSeq(grown, from, Len(history) + 1) \in Seq(FeatureBars)
      BY <3>3, <3>4, <3>5
    <3> QED  BY <3>2, <3>6 DEF Remembers
  <2>2. CASE UNCHANGED chainVars
    BY <2>2 DEF chainVars, indicatorVars, Remembers
  <2> QED  BY <2>1, <2>2
<1> QED  BY <1>1, <1>2, PTL DEF ChainSpec

(* The detectors do not favour a side, whatever the bars and the levels.   *)
THEOREM NoSideIsFavoured == ChainSpec => []MirrorSignals
<1>1. Remembers => MirrorSignals
  <2> SUFFICES ASSUME Remembers, history # <<>>, Newest.rsi # Newest.prsi
               PROVE  MirrorSignals
    BY DEF MirrorSignals
  <2> DEFINE u == UpsideDown(history)
  <2>1. Overturned(history, u)
    BY HistoryTurns DEF Remembers
  <2> HIDE DEF u
  <2>2. ASSUME NEW active, NEW before \in {None, -1, 0, 1}
        PROVE  Comparable(Detected(u, closesSeen, active, Negated(before)), Newest)
                 = Reflected(Comparable(Detected(history, closesSeen, active, before), Newest))
    <3>1. Newest = history[Len(history)]  BY DEF Newest
    <3> QED  BY <2>1, <2>2, <3>1, DetectedTurns
  <2>3. ASSUME NEW st \in Structures \ {None}
        PROVE  LET V == Names(Candles(history, st))  U == Names(Candles(u, UpsideDownStructure(st)))
                   aside == OneSided \cup HeldBack(V \cup U)
               IN U \ aside = Reflected(V \ aside)
    <3> DEFINE r == UpsideDownStructure(st)
    <3>1. st \in StructuralLevels  BY ChainAssumption DEF Structures
    <3>2. r \in StructuralLevels /\ Swapped(st, r)
      BY <3>1 DEF UpsideDownStructure, StructuralLevels, Swapped
    <3>3. st # None /\ r # None  BY <3>1, <3>2, ChainAssumption
    <3> HIDE DEF r
    <3>4. LET V == Names(Candles(history, st))  U == Names(Candles(u, r))
              aside == OneSided \cup HeldBack(V \cup U)
          IN U \ aside = Reflected(V \ aside)
      BY <2>1, <3>2, <3>3, CandlesAnswer
    <3> QED  BY <3>4 DEF r
  <2> QED  BY <2>2, <2>3 DEF MirrorSignals, Names, Comparable, Negated, u
<1> QED  BY <1>1, BarsAreRemembered, PTL

=============================================================================
