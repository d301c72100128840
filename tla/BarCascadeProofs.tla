-------------------------- MODULE BarCascadeProofs --------------------------
(***************************************************************************)
(* Proofs about BarCascade for any symbols, any number of bars and any     *)
(* number of handlers that raise: every property its run checks.           *)
(*                                                                         *)
(* Walk is the shape of the stack: the frame at height n holds an event of *)
(* level n, so the type of the innermost event tells the depth, and an     *)
(* approval bears the stamp of the bar under way.                          *)
(*                                                                         *)
(* Books adds what the bar has done so far.  Due(stack, s) is the set of   *)
(* groups whose turn in the bar of s is still to come; the invariant says  *)
(* for every such set how old EntryGroup's bundles, the regime and the     *)
(* chart patterns may be (SoundBundles, SoundRegime, SoundDay) and what    *)
(* may have happened to the position (SoundTrade), each allowance paid for *)
(* by a handler that raised.  Owed(stack) counts the recorders a close has *)
(* still to reach.  A step is proved in two halves: how it moves the walk, *)
(* hence Due, and what that does to the bundles; the frames below the      *)
(* second change neither.                                                  *)
(***************************************************************************)
EXTENDS BarCascade, TLAPS

Level == [FeatureReady |-> 1, GroupSignal |-> 2, PositionClose |-> 2,
          CandidateTrade |-> 3, PanelApproved |-> 4, RiskDecision |-> 5,
          PositionOpen |-> 5]

Types == {"FeatureReady", "GroupSignal", "PositionClose", "CandidateTrade",
          "PanelApproved", "RiskDecision", "PositionOpen"}

WalkEvents == EventsStamped(Nat)
WalkFrames == FramesStamped(Nat)

\* An approval or a decision bears the stamp of its symbol's bar in b.
Stamped(e, b) ==
    e.type \in {"PanelApproved", "RiskDecision"} => e.panel = b[e.symbol]

WellStacked(s, b) ==
    /\ s \in Seq(WalkFrames)
    /\ \A i \in 1 .. Len(s) : Level[s[i].event.type] = Len(s) + 1 - i
    /\ \A i \in 1 .. Len(s) : Stamped(s[i].event, b)

Typed ==
    /\ bars \in [Symbols -> Nat]
    /\ pending \in [Symbols -> [Sources -> Nat]]
    /\ position \in [Symbols -> [opened : Nat, panel : Nat, held : BOOLEAN]]

Walk == Typed /\ WellStacked(stack, bars) /\ OpenedThroughPanel

-----------------------------------------------------------------------------
(* Events and subscribers.                                                 *)

\* What an event of each type carries.
LEMMA EventFields ==
    ASSUME NEW e \in WalkEvents
    PROVE  /\ e.type \in Types
           /\ e.symbol \in Symbols
           /\ e.type = "GroupSignal" => e.group \in Sources /\ e.bar \in Nat
           /\ e.type = "PanelApproved" => e.panel \in Nat
           /\ e.type = "RiskDecision" => e.panel \in Nat /\ e.approved \in BOOLEAN
  BY DEF WalkEvents, EventsStamped, Types

\* Every type has a level, and its subscribers are groups.
LEMMA SubscribersTyped ==
    \A t \in Types : /\ Subscribers[t] \in Seq(Groups)
                     /\ Level[t] \in 1 .. 5
<1>1. BarReaders \in Seq(Groups)
  BY DEF BarReaders, Groups
<1>2. <<"candlestick", "entry", "performance_journal">> \in Seq(Groups)
  BY DEF Groups
<1>3. <<"panel_decision", "risk_leverage", "performance_journal">> \in Seq(Groups)
  BY DEF Groups
<1>4. <<"historian", "panel_decision", "performance_journal">> \in Seq(Groups)
  BY DEF Groups
<1>5. <<"risk_leverage">> \in Seq(Groups) /\ <<"performance_journal">> \in Seq(Groups)
  BY DEF Groups
<1>6. \A t \in Types : Subscribers[t] \in Seq(Groups)
  <2>1. Subscribers["FeatureReady"] = BarReaders
    BY DEF Subscribers
  <2>2. Subscribers["GroupSignal"] = <<"candlestick", "entry", "performance_journal">>
    BY DEF Subscribers
  <2>3. Subscribers["CandidateTrade"]
          = <<"panel_decision", "risk_leverage", "performance_journal">>
    BY DEF Subscribers
  <2>4. Subscribers["PositionClose"]
          = <<"historian", "panel_decision", "performance_journal">>
    BY DEF Subscribers
  <2>5. /\ Subscribers["PanelApproved"] = <<"risk_leverage">>
        /\ Subscribers["RiskDecision"] = <<"performance_journal">>
        /\ Subscribers["PositionOpen"] = <<"performance_journal">>
    BY DEF Subscribers
  <2> QED
    BY <1>1, <1>2, <1>3, <1>4, <1>5, <2>1, <2>2, <2>3, <2>4, <2>5 DEF Types
<1>7. \A t \in Types : Level[t] \in 1 .. 5
  BY DEF Level, Types
<1> QED
  BY <1>6, <1>7

\* The frame of an event is a frame.
LEMMA FrameTyped ==
    ASSUME NEW e \in WalkEvents
    PROVE  Frame(e) \in WalkFrames /\ Frame(e).event = e
<1>1. Subscribers[e.type] \in Seq(Groups)
  BY EventFields, SubscribersTyped
<1> QED
  BY <1>1 DEF Frame, WalkFrames, WalkEvents, FramesStamped

-----------------------------------------------------------------------------
(* The three things that happen to a stack.                                *)

\* The innermost event is at the level of the depth.
LEMMA TopOfStack ==
    ASSUME NEW b, WellStacked(stack, b), stack # <<>>
    PROVE  /\ Event \in WalkEvents
           /\ Head(stack).todo \in Seq(Groups)
           /\ Level[Event.type] = Len(stack)
           /\ Stamped(Event, b)
<1>1. stack \in Seq(WalkFrames) /\ Len(stack) \in Nat /\ Len(stack) >= 1
  BY DEF WellStacked
<1>2. Head(stack) = stack[1] /\ stack[1] \in WalkFrames /\ 1 \in 1 .. Len(stack)
  BY <1>1
<1>3. Level[stack[1].event.type] = Len(stack) + 1 - 1 /\ Stamped(stack[1].event, b)
  BY <1>2 DEF WellStacked
<1> QED
  BY <1>1, <1>2, <1>3 DEF Event, WalkFrames, WalkEvents, FramesStamped

\* A delivery that publishes nothing keeps the shape, and the event on top.
LEMMA DeliveryKeeps ==
    ASSUME NEW b, WellStacked(stack, b), stack # <<>>, Head(stack).todo # <<>>
    PROVE  /\ WellStacked(Delivered, b)
           /\ Len(Delivered) = Len(stack)
<1> DEFINE top == [Head(stack) EXCEPT !.todo = Tail(@)]
<1>1. stack \in Seq(WalkFrames) /\ Len(stack) \in Nat /\ Len(stack) >= 1
  BY DEF WellStacked
<1>2. Head(stack) = stack[1] /\ stack[1] \in WalkFrames
  BY <1>1
<1>3. top \in WalkFrames /\ top.event = stack[1].event
  <2>1. Tail(Head(stack).todo) \in Seq(Groups)
    BY TopOfStack
  <2> QED
    BY <1>2, <2>1 DEF WalkFrames, FramesStamped
<1> HIDE DEF top
<1>4. /\ Delivered \in Seq(WalkFrames)
      /\ Len(Delivered) = Len(stack)
      /\ Delivered[1] = top
      /\ \A i \in 2 .. Len(stack) : Delivered[i] = stack[i]
  <2>1. Delivered = <<top>> \o Tail(stack)
    BY DEF Delivered, top
  <2> QED
    BY <1>1, <1>3, <2>1
<1>5. \A i \in 1 .. Len(stack) : Delivered[i].event = stack[i].event
  BY <1>1, <1>3, <1>4
<1> QED
  BY <1>4, <1>5 DEF WellStacked

\* Publishing an event one level up keeps the shape.
LEMMA PushKeeps ==
    ASSUME NEW b, NEW s, WellStacked(s, b), NEW e \in WalkEvents,
           Level[e.type] = Len(s) + 1, Stamped(e, b)
    PROVE  WellStacked(<<Frame(e)>> \o s, b)
<1> DEFINE f == Frame(e)
<1>1. f \in WalkFrames /\ f.event = e
  BY FrameTyped
<1>2. s \in Seq(WalkFrames) /\ Len(s) \in Nat
  BY DEF WellStacked
<1> HIDE DEF f
<1>3. /\ <<f>> \o s \in Seq(WalkFrames)
      /\ Len(<<f>> \o s) = Len(s) + 1
      /\ (<<f>> \o s)[1] = f
      /\ \A i \in 2 .. Len(s) + 1 : (<<f>> \o s)[i] = s[i - 1]
  BY <1>1, <1>2
<1>4. \A i \in 1 .. Len(s) + 1 :
         /\ Level[(<<f>> \o s)[i].event.type] = Len(s) + 2 - i
         /\ Stamped((<<f>> \o s)[i].event, b)
  <2> SUFFICES ASSUME NEW i \in 1 .. Len(s) + 1
               PROVE  /\ Level[(<<f>> \o s)[i].event.type] = Len(s) + 2 - i
                      /\ Stamped((<<f>> \o s)[i].event, b)
    OBVIOUS
  <2>1. CASE i = 1
    BY <1>1, <1>2, <1>3, <2>1
  <2>2. CASE i # 1
    <3>1. i \in 2 .. Len(s) + 1 /\ i - 1 \in 1 .. Len(s)
      BY <1>2, <2>2
    <3>2. /\ Level[s[i - 1].event.type] = Len(s) + 1 - (i - 1)
          /\ Stamped(s[i - 1].event, b)
      BY <3>1 DEF WellStacked
    <3> QED
      BY <1>2, <1>3, <3>1, <3>2
  <2> QED
    BY <2>1, <2>2
<1>5. WellStacked(<<f>> \o s, b)
  BY <1>2, <1>3, <1>4 DEF WellStacked
<1> QED
  BY <1>5 DEF f

\* Returning from a publish keeps the shape.
LEMMA PopKeeps ==
    ASSUME NEW b, WellStacked(stack, b), stack # <<>>
    PROVE  WellStacked(Tail(stack), b) /\ Len(Tail(stack)) = Len(stack) - 1
<1>1. /\ stack \in Seq(WalkFrames) /\ Len(stack) \in Nat /\ Len(stack) >= 1
      /\ Tail(stack) \in Seq(WalkFrames) /\ Len(Tail(stack)) = Len(stack) - 1
      /\ \A i \in 1 .. Len(stack) - 1 : Tail(stack)[i] = stack[i + 1]
  BY DEF WellStacked
<1>2. \A i \in 1 .. Len(stack) - 1 :
         /\ Level[stack[i + 1].event.type] = Len(stack) + 1 - (i + 1)
         /\ Stamped(stack[i + 1].event, b)
  BY <1>1 DEF WellStacked
<1>3. \A i \in 1 .. Len(stack) - 1 :
         /\ Level[Tail(stack)[i].event.type] = (Len(stack) - 1) + 1 - i
         /\ Stamped(Tail(stack)[i].event, b)
  BY <1>1, <1>2
<1> QED
  BY <1>1, <1>3 DEF WellStacked

-----------------------------------------------------------------------------
(* Steps of a handler.                                                     *)

\* A handler that publishes nothing.
LEMMA ReturnStep ==
    ASSUME Walk, NEW g, NEW t, Delivering(g, t), Return
    PROVE  WellStacked(stack', bars)
  BY DeliveryKeeps DEF Walk, Delivering, Return

\* A handler that publishes an event one level above the one it heard.
LEMMA PublishStep ==
    ASSUME Walk, NEW g, NEW t \in Types, Delivering(g, t), NEW e \in WalkEvents,
           Level[e.type] = Level[t] + 1, Stamped(e, bars), Publish(e)
    PROVE  WellStacked(stack', bars)
<1>1. WellStacked(stack, bars) /\ stack # <<>> /\ Head(stack).todo # <<>> /\ Event.type = t
  BY DEF Walk, Delivering
<1>2. Level[t] = Len(stack)
  BY <1>1, TopOfStack
<1>3. WellStacked(Delivered, bars) /\ Len(Delivered) = Len(stack)
  BY <1>1, DeliveryKeeps
<1>4. stack' = <<Frame(e)>> \o Delivered
  BY DEF Publish
<1>5. Level[e.type] = Len(Delivered) + 1
  BY <1>2, <1>3
<1>6. WellStacked(<<Frame(e)>> \o Delivered, bars)
  BY <1>3, <1>5, PushKeeps
<1> QED
  BY <1>4, <1>6

\* The event a handler hears is of a symbol, whose bar is a number.
LEMMA Heard ==
    ASSUME Walk, stack # <<>>
    PROVE  /\ Event \in WalkEvents /\ Event.symbol \in Symbols /\ Now \in Nat
           /\ Stamped(Event, bars)
<1>1. Event \in WalkEvents /\ Stamped(Event, bars)
  BY TopOfStack DEF Walk
<1>2. Event.symbol \in Symbols
  BY <1>1, EventFields
<1> QED
  BY <1>1, <1>2 DEF Walk, Typed, Now

\* What EntryGroup has collected are stamps.
LEMMA CollectedTyped ==
    ASSUME Walk, Delivering("entry", "GroupSignal")
    PROVE  Collected(Event.symbol) \in [Sources -> Nat]
<1>1. /\ Event.symbol \in Symbols /\ Event.group \in Sources /\ Event.bar \in Nat
  BY Heard, EventFields DEF Delivering
<1> QED
  BY <1>1 DEF Collected, Walk, Typed

-----------------------------------------------------------------------------
(* The events the handlers publish.                                        *)

LEMMA SignalTyped ==
    ASSUME Walk, NEW s \in Symbols, NEW g \in Sources
    PROVE  /\ Signal(g, s) \in WalkEvents
           /\ Level[Signal(g, s).type] = 2
           /\ Stamped(Signal(g, s), bars)
  BY DEF Walk, Typed, Signal, WalkEvents, EventsStamped, Level, Stamped

LEMMA DecisionTyped ==
    ASSUME Walk, stack # <<>>, RiskEvaluates(Event), NEW a \in BOOLEAN
    PROVE  /\ Event.type = "PanelApproved"
           /\ RiskDecision(a) \in WalkEvents
           /\ Level[RiskDecision(a).type] = 5
           /\ Stamped(RiskDecision(a), bars)
<1>1. Event.type = "PanelApproved"
  BY DEF RiskEvaluates
<1>2. Event.symbol \in Symbols /\ Event.panel \in Nat /\ Event.panel = bars[Event.symbol]
  BY <1>1, Heard, EventFields DEF Stamped
<1>3. RiskDecision(a) = [type |-> "RiskDecision", symbol |-> Event.symbol,
                         approved |-> a, panel |-> Event.panel]
  BY <1>1 DEF RiskDecision, PanelLink
<1> QED
  BY <1>1, <1>2, <1>3 DEF WalkEvents, EventsStamped, Level, Stamped

-----------------------------------------------------------------------------
(* The invariant.                                                          *)

LEMMA WalkInit == Init => Walk
<1> SUFFICES ASSUME Init PROVE Walk
  OBVIOUS
<1>1. Typed
  BY DEF Init, Typed, NoBundles, NoPosition
<1>2. WellStacked(stack, bars)
  BY DEF Init, WellStacked
<1>3. OpenedThroughPanel
  BY DEF Init, OpenedThroughPanel, NoPosition
<1> QED
  BY <1>1, <1>2, <1>3 DEF Walk

\* The actions that touch neither the position nor the bars.
LEMMA WalkBooksUnchanged ==
    ASSUME Walk, UNCHANGED <<bars, position>>,
           pending' \in [Symbols -> [Sources -> Nat]], WellStacked(stack', bars)
    PROVE  Walk'
  BY DEF Walk, Typed, WellStacked, Stamped, OpenedThroughPanel

LEMMA WalkNext == Walk /\ [Next]_vars => Walk'
<1> SUFFICES ASSUME Walk, [Next]_vars PROVE Walk'
  OBVIOUS
<1> USE DEF bookVars, inputVars
<1>1. ASSUME NEW s \in Symbols, NewBar(s) PROVE Walk'
  <2> DEFINE e == [type |-> "FeatureReady", symbol |-> s]
  <2>1. e \in WalkEvents /\ Level[e.type] = Len(<<>>) + 1 /\ Stamped(e, bars')
    BY DEF WalkEvents, EventsStamped, Level, Stamped
  <2>2. WellStacked(<<>>, bars')
    BY DEF WellStacked
  <2> HIDE DEF e
  <2>3. WellStacked(<<Frame(e)>> \o <<>>, bars')
    BY <2>1, <2>2, PushKeeps
  <2>4. stack' = <<Frame(e)>> /\ <<Frame(e)>> \o <<>> = <<Frame(e)>>
    BY <1>1, <2>1, FrameTyped DEF NewBar, e
  <2>5. Typed' /\ OpenedThroughPanel'
    BY <1>1 DEF NewBar, Walk, Typed, OpenedThroughPanel
  <2>6. WellStacked(stack', bars')
    BY <2>3, <2>4
  <2> QED
    BY <2>5, <2>6 DEF Walk
<1>2. CASE PollFindsNothing \/ UNCHANGED vars
  BY <1>2 DEF PollFindsNothing, vars, Walk, Typed, WellStacked, Stamped,
              OpenedThroughPanel
<1>3. CASE PublishReturns
  <2>1. WellStacked(Tail(stack), bars)
    BY <1>3, PopKeeps DEF PublishReturns, Walk
  <2> QED
    BY <1>3, <2>1, WalkBooksUnchanged DEF PublishReturns, Walk, Typed
<1>4. CASE HandlerRaises
  <2>1. WellStacked(Delivered, bars)
    BY <1>4, DeliveryKeeps DEF HandlerRaises, Walk
  <2> QED
    BY <1>4, <2>1, WalkBooksUnchanged DEF HandlerRaises, AfterRaise, Walk, Typed
<1>5. CASE JournalLogs
  <2>1. WellStacked(stack', bars)
    BY <1>5, ReturnStep DEF JournalLogs
  <2> QED
    BY <1>5, <2>1, WalkBooksUnchanged DEF JournalLogs, Walk, Typed
<1>6. CASE CandlestickCachesStructure
  <2>1. WellStacked(stack', bars)
    BY <1>6, ReturnStep DEF CandlestickCachesStructure, AfterSignal, Return
  <2> QED
    BY <1>6, <2>1, WalkBooksUnchanged DEF CandlestickCachesStructure, Walk, Typed
<1>7. CASE ChartPatternGroup \/ IndicatorsRaisesAfterRegime
  <2>1. WellStacked(stack', bars)
    BY <1>7, ReturnStep DEF ChartPatternGroup, IndicatorsRaisesAfterRegime
  <2> QED
    BY <1>7, <2>1, WalkBooksUnchanged
       DEF ChartPatternGroup, IndicatorsRaisesAfterRegime, Walk, Typed
<1>8. CASE IndicatorsGroup \/ CandlestickGroup
  <2>1. PICK g \in {"indicators", "candlestick"} :
          /\ Delivering(g, "FeatureReady")
          /\ Publish(Signal(g, Event.symbol))
          /\ UNCHANGED <<bars, position, pending>>
    BY <1>8 DEF IndicatorsGroup, CandlestickGroup
  <2>2. Event.symbol \in Symbols
    BY <2>1, Heard DEF Delivering
  <2>3. /\ Signal(g, Event.symbol) \in WalkEvents
        /\ Level[Signal(g, Event.symbol).type] = Level["FeatureReady"] + 1
        /\ Stamped(Signal(g, Event.symbol), bars)
    BY <2>2, SignalTyped DEF Sources, Level
  <2>4. WellStacked(stack', bars)
    BY <2>1, <2>3, PublishStep DEF Types
  <2> QED
    BY <2>1, <2>4, WalkBooksUnchanged DEF Walk, Typed
<1>9. CASE TechnicalStructureGroup
  <2> DEFINE e == Signal("technical_structure", Event.symbol)
  <2>1. /\ Delivering("technical_structure", "FeatureReady")
        /\ Return \/ Publish(e)
        /\ UNCHANGED <<bars, position, pending>>
    BY <1>9 DEF TechnicalStructureGroup
  <2>2. Event.symbol \in Symbols
    BY <2>1, Heard DEF Delivering
  <2>3. /\ e \in WalkEvents /\ Level[e.type] = Level["FeatureReady"] + 1
        /\ Stamped(e, bars)
    BY <2>2, SignalTyped DEF Sources, Level
  <2> HIDE DEF e
  <2>4. WellStacked(stack', bars)
    <3>1. CASE Return
      BY <2>1, <3>1, ReturnStep
    <3>2. CASE Publish(e)
      BY <2>1, <2>3, <3>2, PublishStep DEF Types
    <3> QED
      BY <2>1, <3>1, <3>2
  <2> QED
    BY <2>1, <2>4, WalkBooksUnchanged DEF Walk, Typed
<1>10. CASE EntryWaits \/ EntryDeclines
  <2>1. /\ Delivering("entry", "GroupSignal") /\ Return /\ UNCHANGED <<bars, position>>
        /\ \/ pending' = [pending EXCEPT ![Event.symbol] = Collected(Event.symbol)]
           \/ pending' = [pending EXCEPT ![Event.symbol] = NoBundles]
    BY <1>10 DEF EntryWaits, EntryDeclines, AfterEvaluation
  <2>2. Collected(Event.symbol) \in [Sources -> Nat] /\ NoBundles \in [Sources -> Nat]
    BY <2>1, CollectedTyped DEF NoBundles
  <2>3. pending' \in [Symbols -> [Sources -> Nat]]
    BY <2>1, <2>2 DEF Walk, Typed
  <2>4. WellStacked(stack', bars)
    BY <2>1, ReturnStep
  <2> QED
    BY <2>1, <2>3, <2>4, WalkBooksUnchanged
<1>11. CASE EntryProposes
  <2> DEFINE e == [type |-> "CandidateTrade", symbol |-> Event.symbol,
                   bundles |-> Collected(Event.symbol)]
  <2>1. /\ Delivering("entry", "GroupSignal") /\ Publish(e)
        /\ UNCHANGED <<bars, position>>
        /\ pending' = [pending EXCEPT ![Event.symbol] = NoBundles]
    BY <1>11 DEF EntryProposes, AfterEvaluation
  <2>2. Collected(Event.symbol) \in [Sources -> Nat] /\ Event.symbol \in Symbols
    BY <2>1, CollectedTyped, Heard DEF Delivering
  <2>3. e \in WalkEvents /\ Level[e.type] = Level["GroupSignal"] + 1 /\ Stamped(e, bars)
    BY <2>2 DEF WalkEvents, EventsStamped, Level, Stamped
  <2>4. pending' \in [Symbols -> [Sources -> Nat]]
    BY <2>1 DEF Walk, Typed, NoBundles
  <2> HIDE DEF e
  <2>5. WellStacked(stack', bars)
    BY <2>1, <2>3, PublishStep DEF Types
  <2> QED
    BY <2>1, <2>4, <2>5, WalkBooksUnchanged
<1>12. CASE PanelHolds \/ RiskIgnores
  <2>1. WellStacked(stack', bars)
    BY <1>12, ReturnStep DEF PanelHolds, RiskIgnores
  <2> QED
    BY <1>12, <2>1, WalkBooksUnchanged DEF PanelHolds, RiskIgnores, Walk, Typed
<1>13. CASE PanelApproves
  <2> DEFINE e == [type |-> "PanelApproved", symbol |-> Event.symbol, panel |-> Now]
  <2>1. /\ Delivering("panel_decision", "CandidateTrade") /\ Publish(e)
        /\ UNCHANGED <<bars, position, pending>>
    BY <1>13 DEF PanelApproves
  <2>2. Event.symbol \in Symbols /\ Now \in Nat
    BY <2>1, Heard DEF Delivering
  <2>3. /\ e \in WalkEvents /\ Level[e.type] = Level["CandidateTrade"] + 1
        /\ Stamped(e, bars)
    BY <2>2 DEF WalkEvents, EventsStamped, Level, Stamped, Now
  <2> HIDE DEF e
  <2>4. WellStacked(stack', bars)
    BY <2>1, <2>3, PublishStep DEF Types
  <2> QED
    BY <2>1, <2>4, WalkBooksUnchanged DEF Walk, Typed
<1>14. ASSUME NEW a \in BOOLEAN, RiskDecides(a) PROVE Walk'
  <2>1. PICK t \in {"PanelApproved", "CandidateTrade"} : Delivering("risk_leverage", t)
    BY <1>14 DEF RiskDecides
  <2>2. /\ RiskEvaluates(Event) /\ Publish(RiskDecision(a))
        /\ UNCHANGED <<bars, position, pending>> /\ stack # <<>> /\ Event.type = t
    BY <1>14, <2>1 DEF RiskDecides, Delivering
  <2>3. /\ t = "PanelApproved" /\ RiskDecision(a) \in WalkEvents
        /\ Level[RiskDecision(a).type] = 5 /\ Stamped(RiskDecision(a), bars)
    BY <2>2, DecisionTyped
  <2>4. Level["PanelApproved"] = 4 /\ t \in Types
    BY <2>3 DEF Level, Types
  <2>5. WellStacked(stack', bars)
    BY <2>1, <2>2, <2>3, <2>4, PublishStep
  <2> QED
    BY <2>2, <2>5, WalkBooksUnchanged DEF Walk, Typed
<1>15. CASE RiskOpensPosition
  <2> DEFINE e == [type |-> "PositionOpen", symbol |-> Event.symbol]
  <2>1. /\ stack # <<>> /\ Event.type = "RiskDecision"
        /\ stack' = <<Frame(e)>> \o Tail(stack)
        /\ position' = [position EXCEPT ![Event.symbol] =
                           [opened |-> Now, panel |-> Event.panel, held |-> FALSE]]
        /\ UNCHANGED <<bars, pending>>
    BY <1>15 DEF RiskOpensPosition
  <2>2. /\ Event.symbol \in Symbols /\ Now \in Nat /\ Event.panel = Now
    BY <2>1, Heard DEF Stamped, Now
  <2>3. Len(stack) = 5
    <3>1. Level[Event.type] = Len(stack)
      BY <2>1, TopOfStack DEF Walk
    <3>2. Level["RiskDecision"] = 5
      BY DEF Level
    <3> QED
      BY <2>1, <3>1, <3>2
  <2>4. WellStacked(Tail(stack), bars) /\ Len(Tail(stack)) = Len(stack) - 1
    BY <2>1, PopKeeps DEF Walk
  <2>5. e \in WalkEvents /\ Level[e.type] = 5 /\ Stamped(e, bars)
    BY <2>2 DEF WalkEvents, EventsStamped, Level, Stamped
  <2> HIDE DEF e
  <2>6. WellStacked(stack', bars')
    <3>1. Level[e.type] = Len(Tail(stack)) + 1
      BY <2>3, <2>4, <2>5
    <3> QED
      BY <2>1, <2>4, <2>5, <3>1, PushKeeps
  <2>7. Typed' /\ OpenedThroughPanel'
    BY <2>1, <2>2 DEF Walk, Typed, OpenedThroughPanel
  <2> QED
    BY <2>6, <2>7 DEF Walk
<1>16. CASE ExitHolds
  <2>1. Delivering("exit", "FeatureReady") /\ Return /\ UNCHANGED <<bars, pending>>
    BY <1>16 DEF ExitHolds
  <2>2. WellStacked(stack', bars')
    BY <2>1, ReturnStep
  <2>3. \/ position' = position
        \/ position' = [position EXCEPT ![Event.symbol].held = TRUE]
    BY <1>16 DEF ExitHolds
  <2>4. Typed' /\ OpenedThroughPanel'
    <3>1. CASE position' = position
      BY <2>1, <3>1 DEF Walk, Typed, OpenedThroughPanel
    <3>2. CASE position' = [position EXCEPT ![Event.symbol].held = TRUE]
      <4> DEFINE s == Event.symbol
                 q == [position[s] EXCEPT !.held = TRUE]
                 P == [opened : Nat, panel : Nat, held : BOOLEAN]
      <4>1. /\ position \in [Symbols -> P] /\ bars \in [Symbols -> Nat]
            /\ pending \in [Symbols -> [Sources -> Nat]]
        BY DEF Walk, Typed
      <4>2. position' = [position EXCEPT ![s] = q]
        BY <3>2
      <4>3. s \in Symbols => q \in P /\ q.panel = position[s].panel /\ q.opened = position[s].opened
        BY <4>1
      <4> HIDE DEF q, P, s
      <4>4. position' \in [Symbols -> P]
        BY <4>1, <4>2, <4>3
      <4>5. ASSUME NEW u \in Symbols PROVE position'[u].panel = position'[u].opened
        <5>1. position[u].panel = position[u].opened
          BY DEF Walk, OpenedThroughPanel
        <5> QED
          BY <4>1, <4>2, <4>3, <5>1
      <4> QED
        BY <2>1, <4>1, <4>4, <4>5 DEF Typed, OpenedThroughPanel, P
    <3> QED
      BY <2>3, <3>1, <3>2
  <2> QED
    BY <2>2, <2>4 DEF Walk
<1>17. CASE ExitCloses \/ ExitRaisesAfterClose
  <2> DEFINE e == [type |-> "PositionClose", symbol |-> Event.symbol]
  <2>1. /\ Delivering("exit", "FeatureReady")
        /\ Return \/ Publish(e)
        /\ UNCHANGED <<bars, pending>>
        /\ position' = [position EXCEPT ![Event.symbol] = NoPosition]
    BY <1>17 DEF ExitCloses, ExitRaisesAfterClose, ClosePosition
  <2>2. Event.symbol \in Symbols
    BY <2>1, Heard DEF Delivering
  <2>3. /\ e \in WalkEvents /\ Level[e.type] = Level["FeatureReady"] + 1
        /\ Stamped(e, bars)
    BY <2>2 DEF WalkEvents, EventsStamped, Level, Stamped
  <2> HIDE DEF e
  <2>4. WellStacked(stack', bars')
    <3>1. CASE Return
      BY <2>1, <3>1, ReturnStep
    <3>2. CASE Publish(e)
      BY <2>1, <2>3, <3>2, PublishStep DEF Types
    <3> QED
      BY <2>1, <3>1, <3>2
  <2>5. Typed' /\ OpenedThroughPanel'
    BY <2>1, <2>2 DEF Walk, Typed, OpenedThroughPanel, NoPosition
  <2> QED
    BY <2>4, <2>5 DEF Walk
<1>18. ASSUME NEW g \in Recorders, Record(g) PROVE Walk'
  <2>1. WellStacked(stack', bars)
    BY <1>18, ReturnStep DEF Record
  <2> QED
    BY <1>18, <2>1, WalkBooksUnchanged DEF Record, Walk, Typed
<1> QED
  BY <1>1, <1>2, <1>3, <1>4, <1>5, <1>6, <1>7, <1>8, <1>9, <1>10, <1>11, <1>12,
     <1>13, <1>14, <1>15, <1>16, <1>17, <1>18 DEF Next

LEMMA WalkAlways == Spec => []Walk
  BY WalkInit, WalkNext, PTL DEF Spec

-----------------------------------------------------------------------------
(* The bar's walk as the books see it.                                     *)

\* The frame of the bar itself, of what one of its readers published, and of
\* the proposal.
Bottom(st) == st[Len(st)]
Second(st) == st[Len(st) - 1]
Third(st)  == st[Len(st) - 2]

\* The subscribers still to reach are the last ones of the list.
IsRest(todo, seq) ==
    /\ Len(todo) <= Len(seq)
    /\ \A i \in 1 .. Len(todo) : todo[i] = seq[Len(seq) - Len(todo) + i]

\* Subscribers of the bar that are left when a group's turn comes.
BarGroups == {"chart_pattern", "indicators", "candlestick", "technical_structure", "exit"}
Turn == [chart_pattern |-> 6, indicators |-> 5, candlestick |-> 4,
         technical_structure |-> 3, exit |-> 2, performance_journal |-> 1]

\* EntryGroup has still to hear the signal of g.
Signalled(st, g) ==
    /\ Len(st) >= 2
    /\ Second(st).event.type = "GroupSignal"
    /\ Second(st).event.group = g
    /\ Len(Second(st).todo) >= 2

\* The groups whose turn in the walk of s, as EntryGroup sees it, is to come.
Due(st, s) ==
    {g \in BarGroups : /\ st # <<>>
                       /\ Bottom(st).event.symbol = s
                       /\ Len(Bottom(st).todo) >= Turn[g] \/ Signalled(st, g)}

\* The recorders that have still to hear of the close under way.
Owed(st) ==
    IF Len(st) >= 2 /\ Second(st).event.type = "PositionClose" THEN Len(Second(st).todo) ELSE 0

\* The stack once the handler reached has published e.
Pushed(e) == <<Frame(e)>> \o Delivered

OneSymbol(st) == \A i \in 1 .. Len(st) : st[i].event.symbol = Bottom(st).event.symbol

\* The walk is of one symbol; its first two frames are these.
Shaped(st, b) ==
    /\ OneSymbol(st)
    /\ st # <<>> => IsRest(Bottom(st).todo, BarReaders)
    /\ Len(st) >= 2 =>
        \/ /\ Second(st).event.type = "GroupSignal"
           /\ Second(st).event.bar = b[Bottom(st).event.symbol]
           /\ Len(Bottom(st).todo) = Turn[Second(st).event.group] - 1
           /\ IsRest(Second(st).todo, Subscribers["GroupSignal"])
           /\ Second(st).event.group = "technical_structure" =>
                  b[Bottom(st).event.symbol] >= StructureBars
        \/ Second(st).event.type = "PositionClose" /\ Len(Bottom(st).todo) = 1
    /\ Len(st) >= 3 =>
           Second(st).event.type = "GroupSignal" /\ Len(Second(st).todo) = 1

\* The last bar in which the turn of g has passed.
Passed(d, g, now) == IF g \in d THEN now - 1 ELSE now

\* EntryGroup's bundles.
SoundBundles(d, p, now, f) ==
    /\ \A g \in Sources : p[g] <= Passed(d, g, now)
    /\ p["indicators"] = 0 \/ p["candlestick"] = 0
    /\ p["indicators"] # 0 => p["indicators"] + f > Passed(d, "candlestick", now)
    /\ p["candlestick"] # 0 => p["candlestick"] + f > Passed(d, "indicators", now)
    /\ "indicators" \notin d /\ "candlestick" \in d /\ p["indicators"] = 0 => f > 0
    /\ p["technical_structure"] # 0 =>
           /\ p["technical_structure"] + f >= Passed(d, "technical_structure", now)
           /\ p["technical_structure"] >= StructureBars
    /\ p["technical_structure"] = 0 =>
           \/ Passed(d, "technical_structure", now) < StructureBars
           \/ f > 0
           \/ /\ "technical_structure" \in d
              /\ "indicators" \notin d
              /\ p["indicators"] = 0

\* What the bar has done to a symbol.
SoundDay(d, now, f, pattern, last, waiting) ==
    /\ d # {} => now > 0
    /\ pattern + f >= Passed(d, "chart_pattern", now)
    /\ last <= now
    /\ d # {} /\ last = now => "indicators" \notin d /\ waiting = 0

\* Whose regime it is once the indicators' turn has passed.
SoundRegime(d, s) ==
    d # {} /\ "indicators" \notin d =>
        \/ regime = OwnRegime(s)
        \/ failures > 0 /\ (pending[s]["indicators"] # 0 => failures > 1)

SoundTrade(d, now, pos, end) ==
    /\ pos.opened <= now
    /\ "exit" \in d /\ pos.opened = now => ~ pos.held
    /\ end <= now
    /\ "exit" \in d => end < now

SoundSymbol(d, s) ==
    /\ SoundBundles(d, pending[s], bars[s], failures)
    /\ SoundDay(d, bars[s], failures, patterns[s], proposed[s], pending[s]["indicators"])
    /\ SoundRegime(d, s)
    /\ SoundTrade(d, bars[s], position[s], closed[s])

\* What a proposal was made from.
Recent(q, now, f) ==
    /\ q["indicators"] + f >= now
    /\ q["candlestick"] + f >= now
    /\ q["technical_structure"] < now
    /\ q["technical_structure"] # 0 => q["technical_structure"] + 1 + f >= now
    /\ q["technical_structure"] = 0 => now <= StructureBars \/ f > 0

SoundCandidate(e) ==
    /\ Recent(e.bundles, bars[e.symbol], failures)
    /\ patterns[e.symbol] + failures >= bars[e.symbol]
    /\ failures <= 1 => regime = OwnRegime(e.symbol)

BooksTyped ==
    /\ patterns \in [Symbols -> Nat]
    /\ proposed \in [Symbols -> Nat]
    /\ closed \in [Symbols -> Nat]
    /\ closes \in Nat
    /\ announced \in Nat
    /\ records \in [Recorders -> Nat]
    /\ failures \in Nat

Books ==
    /\ Walk
    /\ BooksTyped
    /\ Shaped(stack, bars)
    /\ Signalled(stack, "indicators") => regime = OwnRegime(Bottom(stack).event.symbol)
    /\ \A s \in Symbols : SoundSymbol(Due(stack, s), s)
    /\ Len(stack) >= 3 => SoundCandidate(Third(stack).event)
    /\ (closes - announced) + Missed <= failures + Owed(stack)

\* EntryGroup hears the signal of g: the groups before g have had their turn,
\* those after it have not.
HasTurn(d, g, now) ==
    /\ g \in d
    /\ g = "indicators" => "candlestick" \in d /\ "technical_structure" \in d
    /\ g = "candlestick" => "indicators" \notin d /\ "technical_structure" \in d
    /\ g = "technical_structure" =>
           /\ "indicators" \notin d /\ "candlestick" \notin d
           /\ now >= StructureBars

\* EntryGroup's bundles p become q.
Heeds(q, p, g, now) == q = [p EXCEPT ![g] = now]

-----------------------------------------------------------------------------
(* What becomes of EntryGroup's bundles.                                   *)

\* A group of the bar misses its turn because its handler raises.
LEMMA BundlesAfterRaise ==
    ASSUME NEW d, NEW p \in [Sources -> Nat], NEW now \in Nat, now > 0, NEW f \in Nat,
           SoundBundles(d, p, now, f), NEW g \in BarGroups
    PROVE  SoundBundles(d \ {g}, p, now, f + 1)
<1>1. \A h : Passed(d \ {g}, h, now) \in Nat /\ Passed(d, h, now) \in Nat
             /\ Passed(d \ {g}, h, now) <= Passed(d, h, now) + 1
             /\ Passed(d, h, now) <= Passed(d \ {g}, h, now)
  BY DEF Passed
<1> QED
  BY <1>1, StructureBarsAssumption DEF SoundBundles, Sources

\* The chart patterns and the exits publish no bundle.
LEMMA BundlesAfterOthers ==
    ASSUME NEW d, NEW p \in [Sources -> Nat], NEW now \in Nat, NEW f \in Nat,
           SoundBundles(d, p, now, f), NEW g \in {"chart_pattern", "exit"}
    PROVE  SoundBundles(d \ {g}, p, now, f)
<1>1. \A h \in Sources : /\ Passed(d \ {g}, h, now) = Passed(d, h, now)
                         /\ h \in d \ {g} <=> h \in d
  BY DEF Passed, Sources
<1> QED
  BY <1>1 DEF SoundBundles, Sources

\* Too few bars for the technical structure.
LEMMA BundlesAfterShort ==
    ASSUME NEW d, NEW p \in [Sources -> Nat], NEW now \in Nat, now > 0, NEW f \in Nat,
           SoundBundles(d, p, now, f), now < StructureBars, "technical_structure" \in d
    PROVE  SoundBundles(d \ {"technical_structure"}, p, now, f)
<1> DEFINE e == d \ {"technical_structure"}
<1>1. /\ Passed(e, "indicators", now) = Passed(d, "indicators", now)
      /\ Passed(e, "candlestick", now) = Passed(d, "candlestick", now)
      /\ Passed(e, "technical_structure", now) = now
      /\ Passed(d, "technical_structure", now) = now - 1
      /\ "indicators" \in e <=> "indicators" \in d
      /\ "candlestick" \in e <=> "candlestick" \in d
  BY DEF Passed
<1> HIDE DEF e
<1>2. p["technical_structure"] <= now - 1 /\ p["technical_structure"] \in Nat
  BY <1>1 DEF SoundBundles, Sources
<1>3. p["technical_structure"] = 0
  BY <1>2, StructureBarsAssumption DEF SoundBundles
<1>4. SoundBundles(e, p, now, f)
  BY <1>1, <1>2, <1>3 DEF SoundBundles, Sources
<1> QED
  BY <1>4 DEF e

\* A signal is heard and the evaluation waits for the other one.
LEMMA BundlesAfterWait ==
    ASSUME NEW d, NEW p \in [Sources -> Nat], NEW now \in Nat, now > 0, NEW f \in Nat,
           SoundBundles(d, p, now, f), NEW g \in Sources, HasTurn(d, g, now),
           NEW q, Heeds(q, p, g, now),
           q["indicators"] = 0 \/ q["candlestick"] = 0
    PROVE  SoundBundles(d \ {g}, q, now, f)
<1> DEFINE e == d \ {g}
<1> USE DEF HasTurn, Heeds
<1>1. /\ Passed(e, g, now) = now
      /\ \A h \in Sources \ {g} : /\ Passed(e, h, now) = Passed(d, h, now)
                                  /\ h \in e <=> h \in d
                                  /\ q[h] = p[h]
      /\ q[g] = now /\ g \notin e
      /\ \A h \in Sources : p[h] \in Nat /\ Passed(d, h, now) \in Nat
  BY DEF Passed
<1> SUFFICES SoundBundles(e, q, now, f)
  OBVIOUS
<1> HIDE DEF e
<1>2. CASE g = "indicators"
  BY <1>1, <1>2 DEF SoundBundles, Sources, Passed
<1>3. CASE g = "candlestick"
  BY <1>1, <1>3 DEF SoundBundles, Sources, Passed
<1>4. CASE g = "technical_structure"
  BY <1>1, <1>4 DEF SoundBundles, Sources, Passed
<1> QED
  BY <1>2, <1>3, <1>4 DEF Sources

\* A signal is heard and the bundles are evaluated: the structural one never
\* completes a pair.
LEMMA BundlesAfterEvaluation ==
    ASSUME NEW d, NEW p \in [Sources -> Nat], NEW now \in Nat, now > 0, NEW f \in Nat,
           SoundBundles(d, p, now, f), NEW g \in Sources, HasTurn(d, g, now),
           NEW q, Heeds(q, p, g, now),
           q["indicators"] # 0, q["candlestick"] # 0
    PROVE  /\ SoundBundles(d \ {g}, NoBundles, now, f)
           /\ g # "technical_structure"
           /\ Recent(q, now, f)
           /\ "indicators" \notin d => g = "candlestick" /\ p["indicators"] # 0
<1> DEFINE e == d \ {g}
<1> USE DEF HasTurn, Heeds, Recent
<1>1. /\ Passed(e, g, now) = now /\ Passed(d, g, now) = now - 1
      /\ \A h \in Sources \ {g} : /\ Passed(e, h, now) = Passed(d, h, now)
                                  /\ h \in e <=> h \in d
                                  /\ q[h] = p[h]
      /\ q[g] = now /\ g \notin e
      /\ \A h \in Sources : /\ p[h] \in Nat /\ Passed(e, h, now) \in Nat
                            /\ NoBundles[h] = 0
  BY DEF Passed, NoBundles
<1> HIDE DEF e
<1>2. g # "technical_structure"
  BY <1>1 DEF SoundBundles, Sources
<1>3. "technical_structure" \in d /\ q["technical_structure"] = p["technical_structure"]
      /\ Passed(d, "technical_structure", now) = now - 1
  BY <1>1, <1>2 DEF Sources, Passed
<1>4. CASE g = "indicators"
  <2>1. q["candlestick"] = p["candlestick"] /\ Passed(d, "indicators", now) = now - 1
    BY <1>1, <1>4 DEF Sources
  <2>2. p["candlestick"] <= now - 1 /\ p["candlestick"] + f > now - 1
        /\ p["candlestick"] \in Nat
    BY <1>1, <1>4, <2>1 DEF SoundBundles, Sources, Passed
  <2>3. f > 0
    BY <2>2
  <2>4. SoundBundles(e, NoBundles, now, f)
    BY <1>1, <1>4, <2>3 DEF SoundBundles, Sources
  <2> QED
    BY <1>1, <1>2, <1>3, <1>4, <2>1, <2>2, <2>3, <2>4, StructureBarsAssumption
       DEF e, SoundBundles, Sources
<1>5. CASE g = "candlestick"
  <2>1. q["indicators"] = p["indicators"] /\ Passed(d, "candlestick", now) = now - 1
    BY <1>1, <1>5 DEF Sources
  <2>2. SoundBundles(e, NoBundles, now, f)
    BY <1>1, <1>3, <1>5 DEF SoundBundles, Sources
  <2> QED
    BY <1>1, <1>2, <1>3, <1>5, <2>1, <2>2, StructureBarsAssumption
       DEF e, SoundBundles, Sources
<1> QED
  BY <1>2, <1>4, <1>5 DEF Sources

\* The next bar: every group's turn is to come again.
LEMMA BundlesAtNewBar ==
    ASSUME NEW p \in [Sources -> Nat], NEW now \in Nat, NEW f \in Nat,
           SoundBundles({}, p, now, f)
    PROVE  SoundBundles(BarGroups, p, now + 1, f)
<1>1. \A h \in Sources : Passed(BarGroups, h, now + 1) = now /\ Passed({}, h, now) = now
  BY DEF Passed, Sources, BarGroups
<1> QED
  BY <1>1, StructureBarsAssumption DEF SoundBundles, Sources, BarGroups

-----------------------------------------------------------------------------
(* How a step moves the walk.                                              *)

LEMMA FramesOf ==
    ASSUME Walk
    PROVE  /\ stack \in Seq(WalkFrames) /\ Len(stack) \in Nat
           /\ stack = <<>> <=> Len(stack) = 0
           /\ \A i \in 1 .. Len(stack) : /\ stack[i].event \in WalkEvents
                                         /\ stack[i].todo \in Seq(Groups)
                                         /\ Level[stack[i].event.type] = Len(stack) + 1 - i
           /\ stack # <<>> => /\ 1 \in 1 .. Len(stack) /\ Head(stack) = stack[1]
                              /\ Event = stack[1].event /\ Level[Event.type] = Len(stack)
<1>1. stack \in Seq(WalkFrames) /\ Len(stack) \in Nat /\ (stack = <<>> <=> Len(stack) = 0)
  BY DEF Walk, WellStacked
<1>2. \A i \in 1 .. Len(stack) : /\ stack[i] \in WalkFrames
                                 /\ Level[stack[i].event.type] = Len(stack) + 1 - i
  BY <1>1 DEF Walk, WellStacked
<1>3. \A i \in 1 .. Len(stack) : /\ stack[i].event \in WalkEvents
                                 /\ stack[i].todo \in Seq(Groups)
  BY <1>2 DEF WalkFrames, WalkEvents, FramesStamped
<1>4. stack # <<>> => 1 \in 1 .. Len(stack) /\ Head(stack) = stack[1]
  BY <1>1
<1>5. stack # <<>> => Event = stack[1].event /\ Level[Event.type] = Len(stack)
  BY <1>4, TopOfStack DEF Walk, Event
<1> QED
  BY <1>1, <1>2, <1>3, <1>4, <1>5

\* A delivery shortens the innermost todo and changes nothing else.
LEMMA ViewOfDelivered ==
    ASSUME Walk, stack # <<>>, Head(stack).todo # <<>>
    PROVE  /\ Delivered \in Seq(WalkFrames)
           /\ Len(Delivered) = Len(stack)
           /\ \A i \in 1 .. Len(stack) : Delivered[i].event = stack[i].event
           /\ \A i \in 2 .. Len(stack) : Delivered[i] = stack[i]
           /\ Delivered[1].todo = Tail(stack[1].todo)
<1> DEFINE top == [Head(stack) EXCEPT !.todo = Tail(@)]
<1>1. stack \in Seq(WalkFrames) /\ Len(stack) \in Nat /\ Len(stack) >= 1
  BY FramesOf
<1>2. Head(stack) = stack[1] /\ stack[1] \in WalkFrames
  BY <1>1
<1>3. top \in WalkFrames /\ top.event = stack[1].event /\ top.todo = Tail(stack[1].todo)
  <2>1. Tail(Head(stack).todo) \in Seq(Groups)
    BY TopOfStack DEF Walk
  <2> QED
    BY <1>2, <2>1 DEF WalkFrames, FramesStamped
<1> HIDE DEF top
<1>4. Delivered = <<top>> \o Tail(stack)
  BY DEF Delivered, top
<1> QED
  BY <1>1, <1>3, <1>4

\* Publishing puts a frame before the others.
LEMMA ViewOfPublished ==
    ASSUME NEW s \in Seq(WalkFrames), NEW e \in WalkEvents
    PROVE  /\ Len(<<Frame(e)>> \o s) = Len(s) + 1
           /\ (<<Frame(e)>> \o s)[1] = Frame(e)
           /\ \A i \in 2 .. Len(s) + 1 : (<<Frame(e)>> \o s)[i] = s[i - 1]
           /\ Frame(e).event = e /\ Frame(e).todo = Subscribers[e.type]
<1>1. Frame(e) \in WalkFrames /\ Frame(e).event = e
  BY FrameTyped
<1>2. Frame(e).todo = Subscribers[e.type]
  BY DEF Frame
<1> DEFINE f == Frame(e)
<1> HIDE DEF f
<1>3. /\ Len(<<f>> \o s) = Len(s) + 1 /\ (<<f>> \o s)[1] = f
      /\ \A i \in 2 .. Len(s) + 1 : (<<f>> \o s)[i] = s[i - 1]
  BY <1>1 DEF f
<1> QED
  BY <1>1, <1>2, <1>3 DEF f

\* The next subscriber, and those after it.
LEMMA TodoShrinks ==
    ASSUME NEW todo \in Seq(Groups), todo # <<>>, NEW seq, Len(seq) \in Nat, IsRest(todo, seq)
    PROVE  /\ IsRest(Tail(todo), seq) /\ Len(Tail(todo)) = Len(todo) - 1
           /\ Len(todo) \in Nat /\ Len(todo) >= 1 /\ Len(todo) <= Len(seq)
           /\ Head(todo) = seq[Len(seq) - Len(todo) + 1]
<1>1. /\ Len(todo) \in Nat /\ Len(todo) >= 1 /\ Head(todo) = todo[1]
      /\ Len(Tail(todo)) = Len(todo) - 1
      /\ \A i \in 1 .. Len(todo) - 1 : Tail(todo)[i] = todo[i + 1]
  OBVIOUS
<1>2. \A i \in 1 .. Len(todo) : todo[i] = seq[Len(seq) - Len(todo) + i]
  BY DEF IsRest
<1>3. Head(todo) = seq[Len(seq) - Len(todo) + 1] /\ Len(todo) <= Len(seq)
  <2>1. 1 \in 1 .. Len(todo)
    BY <1>1
  <2> QED
    BY <1>1, <1>2, <2>1 DEF IsRest
<1>4. ASSUME NEW i \in 1 .. Len(todo) - 1
      PROVE  Tail(todo)[i] = seq[Len(seq) - (Len(todo) - 1) + i]
  <2>1. i + 1 \in 1 .. Len(todo) /\ Tail(todo)[i] = todo[i + 1]
    BY <1>1
  <2>2. todo[i + 1] = seq[Len(seq) - Len(todo) + (i + 1)]
    BY <1>2, <2>1
  <2>3. Len(seq) - Len(todo) + (i + 1) = Len(seq) - (Len(todo) - 1) + i
    BY <1>1
  <2> QED
    BY <2>1, <2>2, <2>3
<1> QED
  BY <1>1, <1>3, <1>4 DEF IsRest

\* The length of the bar's todo says whose turn it is.
LEMMA WhoseTurn ==
    ASSUME NEW todo \in Seq(Groups), todo # <<>>, IsRest(todo, BarReaders)
    PROVE  /\ Head(todo) \in BarGroups \cup {"performance_journal"}
           /\ Len(todo) = Turn[Head(todo)]
           /\ IsRest(Tail(todo), BarReaders)
           /\ Len(Tail(todo)) = Turn[Head(todo)] - 1
<1> DEFINE seq == BarReaders
<1>1. Len(seq) = 6
  BY DEF BarReaders
<1>2. \A n \in 1 .. 6 : /\ seq[7 - n] \in BarGroups \cup {"performance_journal"}
                        /\ Turn[seq[7 - n]] = n
  BY DEF BarReaders, BarGroups, Turn
<1> HIDE DEF seq
<1>3. /\ IsRest(Tail(todo), seq) /\ Len(Tail(todo)) = Len(todo) - 1
      /\ Len(todo) \in 1 .. 6 /\ Head(todo) = seq[7 - Len(todo)]
  <2>1. IsRest(todo, seq) /\ Len(seq) \in Nat
    BY <1>1 DEF seq
  <2>2. /\ IsRest(Tail(todo), seq) /\ Len(Tail(todo)) = Len(todo) - 1
        /\ Len(todo) \in Nat /\ Len(todo) >= 1 /\ Len(todo) <= Len(seq)
        /\ Head(todo) = seq[Len(seq) - Len(todo) + 1]
    BY <2>1, TodoShrinks
  <2>3. Len(seq) - Len(todo) + 1 = 7 - Len(todo)
    BY <1>1, <2>2
  <2>4. Len(todo) \in 1 .. 6
    <3>1. \A n \in Nat : n >= 1 /\ n <= 6 => n \in 1 .. 6
      OBVIOUS
    <3>2. Len(todo) <= 6
      BY <1>1, <2>2, Zenon
    <3> QED
      BY <2>2, <3>1, <3>2, Zenon
  <2> QED
    BY <2>2, <2>3, <2>4
<1> QED
  <2>1. /\ IsRest(Tail(todo), seq) /\ Len(todo) = Turn[Head(todo)]
        /\ Len(Tail(todo)) = Turn[Head(todo)] - 1
        /\ Head(todo) \in BarGroups \cup {"performance_journal"}
    BY <1>2, <1>3
  <2> QED
    BY <2>1 DEF seq

LEMMA WhoHearsSignal ==
    ASSUME NEW todo \in Seq(Groups), todo # <<>>, IsRest(todo, Subscribers["GroupSignal"])
    PROVE  /\ IsRest(Tail(todo), Subscribers["GroupSignal"])
           /\ Len(todo) \in 1 .. 3 /\ Len(Tail(todo)) = Len(todo) - 1
           /\ Head(todo) = "candlestick" => Len(todo) = 3
           /\ Head(todo) = "entry" => Len(todo) = 2
           /\ Head(todo) = "performance_journal" => Len(todo) = 1
<1> DEFINE seq == <<"candlestick", "entry", "performance_journal">>
<1>1. Subscribers["GroupSignal"] = seq /\ Len(seq) = 3
  BY DEF Subscribers
<1>2. seq[1] = "candlestick" /\ seq[2] = "entry" /\ seq[3] = "performance_journal"
  OBVIOUS
<1> HIDE DEF seq
<1>3. /\ IsRest(Tail(todo), seq) /\ Len(Tail(todo)) = Len(todo) - 1
      /\ Len(todo) \in 1 .. 3 /\ Head(todo) = seq[4 - Len(todo)]
  <2>1. IsRest(todo, seq) /\ Len(seq) \in Nat
    BY <1>1
  <2>2. /\ IsRest(Tail(todo), seq) /\ Len(Tail(todo)) = Len(todo) - 1
        /\ Len(todo) \in Nat /\ Len(todo) >= 1 /\ Len(todo) <= Len(seq)
        /\ Head(todo) = seq[Len(seq) - Len(todo) + 1]
    BY <2>1, TodoShrinks
  <2>3. Len(seq) - Len(todo) + 1 = 4 - Len(todo)
    BY <1>1, <2>2
  <2> QED
    BY <1>1, <2>2, <2>3
<1> QED
  BY <1>1, <1>2, <1>3

\* The books see only the first two frames.
LEMMA SameBase ==
    ASSUME NEW a, NEW b, a # <<>>, b # <<>>, Len(a) >= 2, Len(b) >= 2,
           Bottom(a) = Bottom(b), Second(a) = Second(b)
    PROVE  /\ \A s : Due(a, s) = Due(b, s)
           /\ Owed(a) = Owed(b)
           /\ \A g : Signalled(a, g) <=> Signalled(b, g)
  BY DEF Due, Owed, Signalled

\* Before and after a reader of the bar has had its turn.
LEMMA BarView ==
    ASSUME Books, NEW g, Delivering(g, "FeatureReady")
    PROVE  /\ Len(stack) = 1 /\ Event \in WalkEvents /\ Event.symbol \in Symbols
           /\ g \in BarGroups \cup {"performance_journal"}
           /\ Len(Delivered) = 1 /\ Delivered \in Seq(WalkFrames)
           /\ Delivered[1].event = Event
           /\ Len(Delivered[1].todo) = Turn[g] - 1
           /\ IsRest(Delivered[1].todo, BarReaders)
           /\ Bottom(stack).event = Event /\ Len(Bottom(stack).todo) = Turn[g]
<1>1. Walk /\ stack # <<>> /\ Head(stack).todo # <<>> /\ Reached = g
      /\ Event.type = "FeatureReady"
  BY DEF Books, Delivering
<1>2. Len(stack) = 1
  <2>1. Level["FeatureReady"] = 1
    BY DEF Level
  <2> QED
    BY <1>1, <2>1, FramesOf
<1>3. /\ stack[1].todo \in Seq(Groups) /\ Head(stack) = stack[1] /\ Event = stack[1].event
      /\ Event \in WalkEvents
  BY <1>1, FramesOf
<1>4. Bottom(stack) = stack[1] /\ IsRest(stack[1].todo, BarReaders)
  BY <1>1, <1>2 DEF Books, Shaped, Bottom
<1>5. /\ g \in BarGroups \cup {"performance_journal"} /\ Len(stack[1].todo) = Turn[g]
      /\ IsRest(Tail(stack[1].todo), BarReaders) /\ Len(Tail(stack[1].todo)) = Turn[g] - 1
  BY <1>1, <1>3, <1>4, WhoseTurn DEF Reached
<1>6. /\ Len(Delivered) = 1 /\ Delivered \in Seq(WalkFrames) /\ Delivered[1].event = Event
      /\ Delivered[1].todo = Tail(stack[1].todo)
  BY <1>1, <1>2, <1>3, ViewOfDelivered
<1> QED
  BY <1>2, <1>3, <1>4, <1>5, <1>6, EventFields

\* A reader that publishes nothing has its turn taken.
LEMMA BarDelivered ==
    ASSUME Books, NEW g, Delivering(g, "FeatureReady")
    PROVE  /\ Shaped(Delivered, bars)
           /\ Due(Delivered, Event.symbol) = Due(stack, Event.symbol) \ {g}
           /\ Due(stack, Event.symbol) = {h \in BarGroups : Turn[h] <= Turn[g]}
           /\ \A u : u # Event.symbol => Due(stack, u) = {} /\ Due(Delivered, u) = {}
           /\ Owed(Delivered) = 0 /\ Owed(stack) = 0
           /\ \A h : ~ Signalled(Delivered, h) /\ ~ Signalled(stack, h)
<1>1. /\ Len(stack) = 1 /\ Len(Delivered) = 1 /\ Delivered[1].event = Event
      /\ IsRest(Delivered[1].todo, BarReaders)
      /\ Len(Delivered[1].todo) = Turn[g] - 1 /\ Len(Bottom(stack).todo) = Turn[g]
      /\ Bottom(stack).event = Event /\ g \in BarGroups \cup {"performance_journal"}
      /\ stack # <<>> /\ Delivered # <<>>
  <2>1. Len(<<>>) = 0
    OBVIOUS
  <2> QED
    BY <2>1, BarView
<1>2. Bottom(Delivered) = Delivered[1]
  BY <1>1 DEF Bottom
<1>3. /\ \A h : ~ Signalled(Delivered, h) /\ ~ Signalled(stack, h)
      /\ Owed(Delivered) = 0 /\ Owed(stack) = 0
  BY <1>1 DEF Signalled, Owed
<1>4. Shaped(Delivered, bars)
  BY <1>1, <1>2 DEF Shaped, OneSymbol
<1>5. \A u : Due(stack, u) = {h \in BarGroups : Event.symbol = u /\ Turn[g] >= Turn[h]}
  BY <1>1, <1>3 DEF Due
<1>6. \A u : Due(Delivered, u) = {h \in BarGroups : Event.symbol = u /\ Turn[g] - 1 >= Turn[h]}
  BY <1>1, <1>2, <1>3 DEF Due
<1>7. \A h \in BarGroups : Turn[g] - 1 >= Turn[h] <=> Turn[g] >= Turn[h] /\ h # g
  BY <1>1 DEF Turn, BarGroups
<1>8. \A h \in BarGroups : Turn[g] >= Turn[h] <=> Turn[h] <= Turn[g]
  BY <1>1 DEF Turn, BarGroups
<1>9. Due(Delivered, Event.symbol) = Due(stack, Event.symbol) \ {g}
  BY <1>5, <1>6, <1>7
<1>10. Due(stack, Event.symbol) = {h \in BarGroups : Turn[h] <= Turn[g]}
  BY <1>5, <1>8
<1> QED
  BY <1>3, <1>4, <1>5, <1>6, <1>9, <1>10

-----------------------------------------------------------------------------
(* The walk's second frame.                                                *)

\* A reader publishes an event of its symbol.
LEMMA BarPublished ==
    ASSUME Books, NEW g, Delivering(g, "FeatureReady"),
           NEW e \in WalkEvents, e.symbol = Event.symbol,
           NEW st, st = Pushed(e)
    PROVE  /\ Len(st) = 2 /\ st # <<>>
           /\ Bottom(st) = Delivered[1] /\ Second(st).event = e
           /\ Second(st).todo = Subscribers[e.type]
           /\ Bottom(st).event = Event
           /\ Len(Bottom(st).todo) = Turn[g] - 1
           /\ IsRest(Bottom(st).todo, BarReaders)
           /\ OneSymbol(st)
<1>1. /\ Len(Delivered) = 1 /\ Delivered \in Seq(WalkFrames) /\ Delivered[1].event = Event
      /\ Len(Delivered[1].todo) = Turn[g] - 1 /\ IsRest(Delivered[1].todo, BarReaders)
  BY BarView
<1> DEFINE D == Delivered
           f == Frame(e)
<1>2. /\ Len(<<Frame(e)>> \o D) = Len(D) + 1 /\ (<<Frame(e)>> \o D)[1] = Frame(e)
      /\ \A i \in 2 .. Len(D) + 1 : (<<Frame(e)>> \o D)[i] = D[i - 1]
      /\ Frame(e).event = e /\ Frame(e).todo = Subscribers[e.type]
  BY <1>1, ViewOfPublished
<1> HIDE DEF f
<1>3. Len(st) = 2 /\ st[1] = f /\ f.event = e /\ f.todo = Subscribers[e.type]
  BY <1>1, <1>2 DEF f, Pushed
<1>4. st[2] = Delivered[1]
  <2>1. 2 \in 2 .. Len(D) + 1
    BY <1>1
  <2> QED
    BY <1>2, <2>1 DEF Pushed
<1>5. Bottom(st) = st[2] /\ Second(st) = st[1] /\ st # <<>>
  <2>1. st # <<>>
    <3>1. Len(<<>>) = 0 /\ Len(st) = 2
      BY <1>3
    <3>2. Len(st) # Len(<<>>)
      BY <3>1
    <3> QED
      BY <3>2, Zenon
  <2>2. Bottom(st) = st[2] /\ Second(st) = st[1]
    <3>1. Len(st) = 2 /\ Len(st) - 1 = 1
      BY <1>3
    <3> QED
      BY <3>1 DEF Bottom, Second
  <2> QED
    BY <2>1, <2>2
<1>6. \A i \in 1 .. Len(st) : i = 1 \/ i = 2
  BY <1>3
<1>7. OneSymbol(st)
  BY <1>1, <1>3, <1>4, <1>5, <1>6 DEF OneSymbol
<1> QED
  BY <1>1, <1>3, <1>4, <1>5, <1>7

\* A signal on its way to EntryGroup keeps its group's turn to come.
LEMMA SignalPublished ==
    ASSUME Books, NEW g \in Sources, Delivering(g, "FeatureReady"),
           g = "technical_structure" => bars[Event.symbol] >= StructureBars,
           NEW st, st = Pushed(Signal(g, Event.symbol))
    PROVE  /\ Len(st) = 2 /\ Bottom(st).event = Event /\ Shaped(st, bars)
           /\ \A u : Due(st, u) = Due(stack, u)
           /\ Owed(st) = 0
           /\ \A h : Signalled(st, h) => h = g
<1> DEFINE e == Signal(g, Event.symbol)
<1>1. /\ e \in WalkEvents /\ e.symbol = Event.symbol /\ e.type = "GroupSignal"
      /\ e.group = g /\ e.bar = bars[Event.symbol]
  <2>1. Event.symbol \in Symbols
    BY BarView
  <2> QED
    BY <2>1, SignalTyped DEF Signal, Books
<1> HIDE DEF e
<1>2. st = Pushed(e)
  BY DEF e
<1>3. /\ Len(st) = 2 /\ st # <<>>
      /\ Bottom(st).event = Event /\ Second(st).event = e
      /\ Second(st).todo = Subscribers[e.type]
      /\ Len(Bottom(st).todo) = Turn[g] - 1 /\ IsRest(Bottom(st).todo, BarReaders)
      /\ OneSymbol(st)
  BY <1>1, <1>2, BarPublished
<1>4. Len(Subscribers["GroupSignal"]) = 3
      /\ IsRest(Subscribers["GroupSignal"], Subscribers["GroupSignal"])
  <2> DEFINE seq == <<"candlestick", "entry", "performance_journal">>
  <2>1. Subscribers["GroupSignal"] = seq /\ Len(seq) = 3
    BY DEF Subscribers
  <2> HIDE DEF seq
  <2>2. \A i \in 1 .. Len(seq) : seq[i] = seq[Len(seq) - Len(seq) + i]
    BY <2>1
  <2> QED
    BY <2>1, <2>2 DEF IsRest
<1>5. \A h : Signalled(st, h) <=> h = g
  <2>1. Len(Second(st).todo) = 3 /\ Len(st) = 2
    BY <1>1, <1>3, <1>4
  <2>2. Second(st).event.type = "GroupSignal" /\ Second(st).event.group = g
    BY <1>1, <1>3
  <2> QED
    BY <2>1, <2>2 DEF Signalled
<1>6. Owed(st) = 0
  BY <1>1, <1>3 DEF Owed
<1>7. Shaped(st, bars)
  <2>1. /\ Second(st).event.type = "GroupSignal" /\ Second(st).event.group = g
        /\ Second(st).event.bar = bars[Bottom(st).event.symbol]
        /\ IsRest(Second(st).todo, Subscribers["GroupSignal"])
        /\ bars[Bottom(st).event.symbol] = bars[Event.symbol]
    BY <1>1, <1>3, <1>4
  <2> QED
    BY <1>3, <2>1 DEF Shaped
<1>8. \A u : Due(st, u)
               = {h \in BarGroups : Event.symbol = u /\ (Turn[g] - 1 >= Turn[h] \/ h = g)}
  BY <1>3, <1>5 DEF Due
<1>9. \A u : Due(stack, u) = {h \in BarGroups : Event.symbol = u /\ Turn[h] <= Turn[g]}
  BY BarDelivered
<1>10. \A h \in BarGroups : (Turn[g] - 1 >= Turn[h] \/ h = g) <=> Turn[h] <= Turn[g]
  BY DEF Turn, BarGroups, Sources
<1> QED
  BY <1>3, <1>5, <1>6, <1>7, <1>8, <1>9, <1>10

\* A close is owed to the three recorders.
LEMMA ClosePublished ==
    ASSUME Books, Delivering("exit", "FeatureReady"),
           NEW st, st = Pushed([type |-> "PositionClose", symbol |-> Event.symbol])
    PROVE  /\ Len(st) = 2 /\ Shaped(st, bars) /\ Owed(st) = 3
           /\ \A u : Due(st, u) = Due(Delivered, u)
           /\ \A h : ~ Signalled(st, h)
<1> DEFINE e == [type |-> "PositionClose", symbol |-> Event.symbol]
<1>1. e \in WalkEvents /\ e.symbol = Event.symbol /\ e.type = "PositionClose"
  <2>1. Event.symbol \in Symbols
    BY BarView
  <2> QED
    BY <2>1 DEF WalkEvents, EventsStamped
<1> HIDE DEF e
<1>2. st = Pushed(e)
  BY DEF e
<1>3. /\ Len(st) = 2 /\ st # <<>> /\ Bottom(st) = Delivered[1]
      /\ Bottom(st).event = Event /\ Second(st).event = e
      /\ Second(st).todo = Subscribers[e.type]
      /\ Len(Bottom(st).todo) = Turn["exit"] - 1 /\ IsRest(Bottom(st).todo, BarReaders)
      /\ OneSymbol(st)
  BY <1>1, <1>2, BarPublished
<1>4. Len(Subscribers["PositionClose"]) = 3 /\ Turn["exit"] - 1 = 1
  BY DEF Subscribers, Turn
<1>5. /\ Second(st).event.type = "PositionClose" /\ Len(Second(st).todo) = 3
       /\ Len(Bottom(st).todo) = 1 /\ Len(st) = 2
  BY <1>1, <1>3, <1>4
<1>6. Owed(st) = 3 /\ \A h : ~ Signalled(st, h)
  BY <1>5 DEF Owed, Signalled
<1>7. Shaped(st, bars)
  <2>1. OneSymbol(st) /\ IsRest(Bottom(st).todo, BarReaders)
    BY <1>3
  <2>2. ~ (Len(st) >= 3)
    <3>1. ~ (2 >= 3)
      OBVIOUS
    <3> QED
      BY <1>5, <3>1, Zenon
  <2> QED
    BY <1>5, <2>1, <2>2, Zenon DEF Shaped
<1>8. \A u : Due(st, u) = {h \in BarGroups : Event.symbol = u /\ Turn["exit"] - 1 >= Turn[h]}
  BY <1>3, <1>6 DEF Due
<1>9. \A u : Due(Delivered, u)
               = {h \in BarGroups : Event.symbol = u /\ Turn["exit"] - 1 >= Turn[h]}
  <2>1. Len(Delivered) = 1 /\ Delivered # <<>> /\ \A h : ~ Signalled(Delivered, h)
    <3>1. Len(<<>>) = 0
      OBVIOUS
    <3> QED
      BY <3>1, BarView, BarDelivered
  <2>2. Bottom(Delivered) = Delivered[1]
    BY <2>1 DEF Bottom
  <2> QED
    BY <1>3, <2>1, <2>2 DEF Due
<1> QED
  BY <1>3, <1>6, <1>7, <1>8, <1>9

\* Before and after a subscriber of the second frame is reached.
LEMMA PairView ==
    ASSUME Books, stack # <<>>, Head(stack).todo # <<>>, Level[Event.type] = 2
    PROVE  /\ Len(stack) = 2 /\ Event \in WalkEvents /\ Event.symbol \in Symbols
           /\ Second(stack) = stack[1] /\ Event = Second(stack).event
           /\ Head(stack) = Second(stack)
           /\ Bottom(stack).event.symbol = Event.symbol
           /\ Second(stack).todo \in Seq(Groups)
           /\ Len(Delivered) = 2 /\ Delivered # <<>>
           /\ Second(Delivered).event = Event /\ Bottom(Delivered) = Bottom(stack)
           /\ Second(Delivered).todo = Tail(Second(stack).todo)
           /\ OneSymbol(Delivered)
           /\ IsRest(Bottom(stack).todo, BarReaders)
<1>1. Walk /\ Shaped(stack, bars)
  BY DEF Books
<1>2. /\ Len(stack) = 2 /\ Event \in WalkEvents /\ Event = stack[1].event
      /\ Head(stack) = stack[1] /\ stack[1].todo \in Seq(Groups)
  BY <1>1, FramesOf
<1>3. Second(stack) = stack[1] /\ Bottom(stack) = stack[2]
  BY <1>2 DEF Second, Bottom
<1>4. \A i \in 1 .. 2 : stack[i].event.symbol = stack[2].event.symbol
  BY <1>1, <1>2, <1>3 DEF Shaped, OneSymbol
<1>5. Bottom(stack).event.symbol = Event.symbol /\ IsRest(Bottom(stack).todo, BarReaders)
  <2>1. 1 \in 1 .. 2
    OBVIOUS
  <2>2. IsRest(Bottom(stack).todo, BarReaders)
    BY <1>1 DEF Shaped
  <2> QED
    BY <1>2, <1>3, <1>4, <2>1, <2>2
<1>6. /\ Len(Delivered) = 2 /\ Delivered[1].event = stack[1].event
      /\ Delivered[2] = stack[2] /\ Delivered[1].todo = Tail(stack[1].todo)
  <2>1. /\ Len(Delivered) = Len(stack)
        /\ \A i \in 1 .. Len(stack) : Delivered[i].event = stack[i].event
        /\ \A i \in 2 .. Len(stack) : Delivered[i] = stack[i]
        /\ Delivered[1].todo = Tail(stack[1].todo)
    BY <1>1, ViewOfDelivered
  <2>2. 1 \in 1 .. Len(stack) /\ 2 \in 2 .. Len(stack)
    BY <1>2
  <2> QED
    BY <1>2, <2>1, <2>2
<1>7. Second(Delivered) = Delivered[1] /\ Bottom(Delivered) = Delivered[2]
      /\ Delivered # <<>>
  <2>1. Len(<<>>) = 0
    OBVIOUS
  <2> QED
    BY <1>6, <2>1 DEF Second, Bottom
<1>8. \A i \in 1 .. Len(Delivered) : i = 1 \/ i = 2
  BY <1>6
<1>9. OneSymbol(Delivered)
  BY <1>2, <1>3, <1>5, <1>6, <1>7, <1>8 DEF OneSymbol
<1> QED
  BY <1>2, <1>3, <1>5, <1>6, <1>7, <1>9, EventFields

\* A subscriber of a signal.
LEMMA SignalView ==
    ASSUME Books, NEW g \in {"candlestick", "entry", "performance_journal"},
           Delivering(g, "GroupSignal")
    PROVE  /\ Shaped(Delivered, bars) /\ Owed(Delivered) = 0 /\ Owed(stack) = 0
           /\ Event.group \in Sources /\ Event.bar = bars[Event.symbol]
           /\ Len(Bottom(stack).todo) = Turn[Event.group] - 1
           /\ Event.group = "technical_structure" => bars[Event.symbol] >= StructureBars
           /\ \A h : Signalled(stack, h) <=> h = Event.group /\ g # "performance_journal"
           /\ \A h : Signalled(Delivered, h) <=> h = Event.group /\ g = "candlestick"
<1>1. /\ stack # <<>> /\ Head(stack).todo # <<>> /\ Reached = g
      /\ Event.type = "GroupSignal" /\ Shaped(stack, bars) /\ Level["GroupSignal"] = 2
  BY DEF Books, Delivering, Level
<1>2. /\ Len(stack) = 2 /\ Event \in WalkEvents /\ Event = Second(stack).event
      /\ Head(stack) = Second(stack) /\ Bottom(stack).event.symbol = Event.symbol
      /\ Second(stack).todo \in Seq(Groups) /\ Second(stack).todo # <<>>
      /\ Len(Delivered) = 2 /\ Delivered # <<>>
      /\ Second(Delivered).event = Event /\ Bottom(Delivered) = Bottom(stack)
      /\ Second(Delivered).todo = Tail(Second(stack).todo)
      /\ IsRest(Bottom(stack).todo, BarReaders)
  BY <1>1, PairView
<1>3. OneSymbol(Delivered)
  BY <1>1, PairView
<1>4. /\ Event.bar = bars[Event.symbol]
      /\ Len(Bottom(stack).todo) = Turn[Event.group] - 1
      /\ IsRest(Second(stack).todo, Subscribers["GroupSignal"])
      /\ Event.group = "technical_structure" => bars[Event.symbol] >= StructureBars
  BY <1>1, <1>2 DEF Shaped
<1>5. Event.group \in Sources
  BY <1>1, <1>2, EventFields
<1> DEFINE todo == Second(stack).todo
<1>6. Head(todo) = g
  BY <1>1, <1>2 DEF Reached
<1>7. todo \in Seq(Groups) /\ todo # <<>> /\ IsRest(todo, Subscribers["GroupSignal"])
  BY <1>2, <1>4
<1> HIDE DEF todo
<1>8. /\ IsRest(Tail(todo), Subscribers["GroupSignal"])
      /\ Len(todo) \in 1 .. 3 /\ Len(Tail(todo)) = Len(todo) - 1
      /\ g = "candlestick" => Len(todo) = 3
      /\ g = "entry" => Len(todo) = 2
      /\ g = "performance_journal" => Len(todo) = 1
  BY <1>6, <1>7, WhoHearsSignal
<1>9. /\ Len(todo) >= 2 <=> g # "performance_journal"
      /\ Len(Tail(todo)) >= 2 <=> g = "candlestick"
  <2> DEFINE n == Len(todo)
             m == Len(Tail(todo))
  <2>1. /\ n \in 1 .. 3 /\ m = n - 1
        /\ g = "candlestick" => n = 3
        /\ g = "entry" => n = 2
        /\ g = "performance_journal" => n = 1
    BY <1>8
  <2> SUFFICES (n >= 2 <=> g # "performance_journal") /\ (m >= 2 <=> g = "candlestick")
    OBVIOUS
  <2> HIDE DEF n, m
  <2>2. CASE g = "candlestick"
    BY <2>1, <2>2
  <2>3. CASE g = "entry"
    BY <2>1, <2>3
  <2>4. CASE g = "performance_journal"
    BY <2>1, <2>4
  <2> QED
    BY <2>2, <2>3, <2>4
<1>10. /\ \A h : Signalled(stack, h) <=> h = Event.group /\ g # "performance_journal"
       /\ \A h : Signalled(Delivered, h) <=> h = Event.group /\ g = "candlestick"
  BY <1>1, <1>2, <1>9 DEF Signalled, todo
<1>11. Owed(Delivered) = 0 /\ Owed(stack) = 0
  BY <1>1, <1>2 DEF Owed
<1>12. IsRest(Second(Delivered).todo, Subscribers["GroupSignal"])
  BY <1>2, <1>8 DEF todo
<1>13. Shaped(Delivered, bars)
  BY <1>1, <1>2, <1>3, <1>4, <1>12 DEF Shaped
<1> QED
  BY <1>4, <1>5, <1>10, <1>11, <1>13

-----------------------------------------------------------------------------
(* EntryGroup's turn, the recorders' turn, and returning.                  *)

\* The journal and the candlesticks hear a signal: no turn is taken by that.
LEMMA SignalPasses ==
    ASSUME Books, NEW g \in {"candlestick", "performance_journal"},
           Delivering(g, "GroupSignal")
    PROVE  /\ \A u : Due(Delivered, u) = Due(stack, u)
           /\ \A h : Signalled(Delivered, h) <=> Signalled(stack, h)
<1>1. /\ \A h : Signalled(stack, h) <=> h = Event.group /\ g # "performance_journal"
      /\ \A h : Signalled(Delivered, h) <=> h = Event.group /\ g = "candlestick"
  BY SignalView
<1>2. \A h : Signalled(Delivered, h) <=> Signalled(stack, h)
  BY <1>1
<1>3. Bottom(Delivered) = Bottom(stack) /\ Delivered # <<>> /\ stack # <<>>
  BY PairView DEF Delivering, Level
<1> QED
  BY <1>2, <1>3 DEF Due

\* EntryGroup hears the signal of a group, whose turn is then over.
LEMMA EntryView ==
    ASSUME Books, Delivering("entry", "GroupSignal")
    PROVE  /\ Event.group \in Sources /\ Event.group \in Due(stack, Event.symbol)
           /\ Due(Delivered, Event.symbol) = Due(stack, Event.symbol) \ {Event.group}
           /\ \A u : u # Event.symbol => Due(stack, u) = {} /\ Due(Delivered, u) = {}
           /\ "chart_pattern" \notin Due(stack, Event.symbol)
           /\ "exit" \in Due(stack, Event.symbol)
           /\ Event.group = "indicators" =>
                  /\ "candlestick" \in Due(stack, Event.symbol)
                  /\ "technical_structure" \in Due(stack, Event.symbol)
           /\ Event.group = "candlestick" =>
                  /\ "indicators" \notin Due(stack, Event.symbol)
                  /\ "technical_structure" \in Due(stack, Event.symbol)
           /\ Event.group = "technical_structure" =>
                  /\ "indicators" \notin Due(stack, Event.symbol)
                  /\ "candlestick" \notin Due(stack, Event.symbol)
           /\ \A h : ~ Signalled(Delivered, h)
<1> DEFINE g == Event.group
           L == Len(Bottom(stack).todo)
<1>1. /\ g \in Sources /\ L = Turn[g] - 1
      /\ \A h : Signalled(stack, h) <=> h = g
      /\ \A h : ~ Signalled(Delivered, h)
  BY SignalView
<1>2. /\ Bottom(Delivered) = Bottom(stack) /\ Delivered # <<>> /\ stack # <<>>
      /\ Bottom(stack).event.symbol = Event.symbol
  BY PairView DEF Delivering, Level
<1>3. \A u : Due(stack, u) = {h \in BarGroups : Event.symbol = u /\ (L >= Turn[h] \/ h = g)}
  BY <1>1, <1>2 DEF Due
<1>4. \A u : Due(Delivered, u) = {h \in BarGroups : Event.symbol = u /\ L >= Turn[h]}
  BY <1>1, <1>2 DEF Due
<1> HIDE DEF g, L
<1>5. /\ g \in BarGroups /\ ~ (L >= Turn[g])
      /\ ~ (L >= Turn["chart_pattern"]) /\ g # "chart_pattern" /\ (L >= Turn["exit"] \/ g = "exit")
  BY <1>1 DEF Turn, BarGroups, Sources
<1>6. /\ g = "indicators" => L >= Turn["candlestick"] /\ L >= Turn["technical_structure"]
      /\ g = "candlestick" => ~ (L >= Turn["indicators"]) /\ L >= Turn["technical_structure"]
      /\ g = "technical_structure" => ~ (L >= Turn["indicators"]) /\ ~ (L >= Turn["candlestick"])
      /\ L >= Turn["exit"]
  BY <1>1 DEF Turn, Sources
<1>7. {"exit", "candlestick", "technical_structure"} \in SUBSET BarGroups
  BY DEF BarGroups
<1>8. Due(Delivered, Event.symbol) = Due(stack, Event.symbol) \ {g}
  BY <1>3, <1>4, <1>5
<1>9. /\ g \in Due(stack, Event.symbol)
      /\ \A u : u # Event.symbol => Due(stack, u) = {} /\ Due(Delivered, u) = {}
      /\ "chart_pattern" \notin Due(stack, Event.symbol)
      /\ "exit" \in Due(stack, Event.symbol)
  BY <1>3, <1>4, <1>5, <1>6, <1>7
<1>10. /\ g = "indicators" => /\ "candlestick" \in Due(stack, Event.symbol)
                              /\ "technical_structure" \in Due(stack, Event.symbol)
       /\ g = "candlestick" => /\ "indicators" \notin Due(stack, Event.symbol)
                               /\ "technical_structure" \in Due(stack, Event.symbol)
       /\ g = "technical_structure" => /\ "indicators" \notin Due(stack, Event.symbol)
                                       /\ "candlestick" \notin Due(stack, Event.symbol)
  BY <1>3, <1>6, <1>7
<1> QED
  BY <1>1, <1>8, <1>9, <1>10 DEF g

\* A recorder hears of the close: one fewer is owed it.
LEMMA CloseView ==
    ASSUME Books, NEW g, Delivering(g, "PositionClose")
    PROVE  /\ Shaped(Delivered, bars)
           /\ \A u : Due(Delivered, u) = Due(stack, u)
           /\ \A h : ~ Signalled(Delivered, h) /\ ~ Signalled(stack, h)
           /\ Owed(stack) \in Nat /\ Owed(Delivered) = Owed(stack) - 1
           /\ Len(Delivered) = 2
<1>1. /\ stack # <<>> /\ Head(stack).todo # <<>> /\ Event.type = "PositionClose"
      /\ Level[Event.type] = 2 /\ Shaped(stack, bars)
  BY DEF Delivering, Level, Books
<1>2. /\ Len(stack) = 2 /\ Len(Delivered) = 2 /\ Event = Second(stack).event
      /\ Second(Delivered).event = Event /\ Bottom(Delivered) = Bottom(stack)
      /\ Second(Delivered).todo = Tail(Second(stack).todo)
      /\ Second(stack).todo \in Seq(Groups) /\ Second(stack).todo # <<>>
      /\ OneSymbol(Delivered) /\ IsRest(Bottom(stack).todo, BarReaders)
      /\ Delivered # <<>> /\ Head(stack) = Second(stack)
  BY <1>1, PairView
<1>3. Len(Second(Delivered).todo) = Len(Second(stack).todo) - 1
      /\ Len(Second(stack).todo) \in Nat
  BY <1>2
<1>4. \A h : ~ Signalled(Delivered, h) /\ ~ Signalled(stack, h)
  BY <1>1, <1>2 DEF Signalled
<1>5. Owed(stack) = Len(Second(stack).todo) /\ Owed(Delivered) = Len(Second(Delivered).todo)
  BY <1>1, <1>2 DEF Owed
<1>6. Len(Bottom(stack).todo) = 1
  BY <1>1, <1>2 DEF Shaped
<1>7. Shaped(Delivered, bars)
  <2>1. ~ (Len(Delivered) >= 3)
    <3>1. ~ (2 >= 3)
      OBVIOUS
    <3> QED
      BY <1>2, <3>1, Zenon
  <2> QED
    BY <1>1, <1>2, <1>6, <2>1, Zenon DEF Shaped
<1>8. \A u : Due(Delivered, u) = Due(stack, u)
  BY <1>1, <1>2, <1>4 DEF Due
<1> QED
  BY <1>2, <1>3, <1>4, <1>5, <1>7, <1>8

\* The second frame, done, returns to the bar's reader.
LEMMA PairReturns ==
    ASSUME Books, Len(stack) = 2, Head(stack).todo = <<>>
    PROVE  /\ Shaped(Tail(stack), bars)
           /\ \A u : Due(Tail(stack), u) = Due(stack, u)
           /\ \A h : ~ Signalled(Tail(stack), h)
           /\ Owed(stack) = 0 /\ Owed(Tail(stack)) = 0
           /\ Len(Tail(stack)) = 1
<1>1. Walk /\ Shaped(stack, bars)
  BY DEF Books
<1>2. /\ stack \in Seq(WalkFrames) /\ Len(stack) = 2 /\ Head(stack) = stack[1] /\ stack # <<>>
  BY <1>1, FramesOf
<1>3. Len(Tail(stack)) = 1 /\ Tail(stack)[1] = stack[2]
  <2> DEFINE F == WalkFrames
             st == stack
  <2>1. st \in Seq(F) /\ Len(st) = 2
    BY <1>2
  <2> HIDE DEF F, st
  <2>2. st # <<>>
    <3>1. Len(st) # Len(<<>>)
      BY <2>1
    <3> QED
      BY <3>1, Zenon
  <2>3. /\ Len(Tail(st)) = Len(st) - 1
        /\ \A i \in 1 .. Len(st) - 1 : Tail(st)[i] = st[i + 1]
    BY <2>1, <2>2
  <2>4. Len(st) = 2
    BY <2>1
  <2>5. Len(Tail(st)) = 1 /\ Tail(st)[1] = st[2]
    BY <2>3, <2>4
  <2> QED
    BY <2>5 DEF st
<1>4. Tail(stack) # <<>>
  <2>1. Len(<<>>) = 0
    OBVIOUS
  <2>2. Len(Tail(stack)) # Len(<<>>)
    BY <1>3, <2>1
  <2> QED
    BY <2>2, Zenon
<1> DEFINE T == Tail(stack)
<1> HIDE DEF T
<1>5. Len(T) = 1 /\ T # <<>> /\ T[1] = stack[2]
  BY <1>3, <1>4 DEF T
<1>6. Bottom(T) = T[1] /\ Bottom(stack) = stack[2] /\ Second(stack) = stack[1]
  BY <1>2, <1>5 DEF Bottom, Second
<1>7. Len(Second(stack).todo) = 0
  <2>1. Second(stack).todo = <<>>
    BY <1>2, <1>6
  <2> QED
    BY <2>1
<1>8. \A h : ~ Signalled(T, h) /\ ~ Signalled(stack, h)
  <2>1. ~ (Len(T) >= 2) /\ ~ (Len(Second(stack).todo) >= 2)
    BY <1>5, <1>7
  <2> QED
    BY <2>1 DEF Signalled
<1>9. Owed(stack) = 0 /\ Owed(T) = 0
  BY <1>5, <1>7 DEF Owed
<1>10. OneSymbol(T)
  <2>1. \A i \in 1 .. Len(T) : i = 1
    BY <1>5
  <2> QED
    BY <1>6, <2>1 DEF OneSymbol
<1>11. IsRest(Bottom(T).todo, BarReaders)
  BY <1>1, <1>2, <1>5, <1>6 DEF Shaped
<1>12. Shaped(T, bars)
  BY <1>5, <1>10, <1>11 DEF Shaped
<1>13. \A u : Due(T, u) = Due(stack, u)
  BY <1>2, <1>5, <1>6, <1>8 DEF Due
<1> QED
  BY <1>5, <1>8, <1>9, <1>12, <1>13 DEF T

\* The bar's frame, done, returns to the polling loop.
LEMMA BarReturns ==
    ASSUME Books, Len(stack) = 1, Head(stack).todo = <<>>
    PROVE  /\ Tail(stack) = <<>>
           /\ \A u : Due(stack, u) = {}
           /\ Owed(stack) = 0
<1>1. /\ stack \in Seq(WalkFrames) /\ Len(stack) = 1 /\ Head(stack) = stack[1]
      /\ stack # <<>>
  BY FramesOf DEF Books
<1>2. Tail(stack) = <<>>
  <2>1. Tail(stack) \in Seq(WalkFrames) /\ Len(Tail(stack)) = 0
    BY <1>1
  <2>2. \A q \in Seq(WalkFrames) : Len(q) = 0 => q = <<>>
    OBVIOUS
  <2> QED
    BY <2>1, <2>2, Zenon
<1>3. Bottom(stack) = stack[1]
  BY <1>1 DEF Bottom
<1>4. Len(Bottom(stack).todo) = 0
  <2>1. Bottom(stack).todo = <<>>
    BY <1>1, <1>3
  <2> QED
    BY <2>1
<1>5. \A h : ~ Signalled(stack, h)
  BY <1>1 DEF Signalled
<1>6. \A h \in BarGroups : ~ (Len(Bottom(stack).todo) >= Turn[h])
  BY <1>4 DEF Turn, BarGroups
<1>7. Owed(stack) = 0
  BY <1>1 DEF Owed
<1>8. \A u : Due(stack, u) = {}
  BY <1>5, <1>6 DEF Due
<1> QED
  BY <1>2, <1>7, <1>8

\* Nothing is due, and nothing owed, between two bars.
LEMMA AtRest ==
    /\ Shaped(<<>>, bars) /\ Owed(<<>>) = 0
    /\ \A u : Due(<<>>, u) = {}
    /\ \A h : ~ Signalled(<<>>, h)
<1>1. Len(<<>>) = 0
  OBVIOUS
<1>2. \A h : ~ Signalled(<<>>, h)
  BY <1>1 DEF Signalled
<1>3. Owed(<<>>) = 0
  BY <1>1 DEF Owed
<1>4. \A u : Due(<<>>, u) = {}
  BY DEF Due
<1>5. Shaped(<<>>, bars)
  BY <1>1 DEF Shaped, OneSymbol
<1> QED
  BY <1>2, <1>3, <1>4, <1>5

-----------------------------------------------------------------------------
(* Deeper down nothing the books look at moves.                            *)

\* The first two frames stay, and with them the shape.
LEMMA DeepKeeps ==
    ASSUME Books, Len(stack) >= 3, NEW st, st # <<>>, Len(st) >= 2,
           Bottom(st) = Bottom(stack), Second(st) = Second(stack), OneSymbol(st)
    PROVE  /\ Shaped(st, bars)
           /\ \A u : Due(st, u) = Due(stack, u)
           /\ Owed(st) = Owed(stack)
           /\ \A h : Signalled(st, h) <=> Signalled(stack, h)
<1>1. Shaped(stack, bars) /\ stack # <<>> /\ Len(stack) >= 2
  <2>1. Walk /\ Shaped(stack, bars)
    BY DEF Books
  <2> QED
    BY <2>1, FramesOf
<1>2. Shaped(st, bars)
  BY <1>1 DEF Shaped
<1> QED
  BY <1>1, <1>2, SameBase

\* A delivery down there.
LEMMA DeepDelivers ==
    ASSUME Books, Len(stack) >= 3, Head(stack).todo # <<>>
    PROVE  /\ Len(Delivered) = Len(stack) /\ Delivered # <<>>
           /\ Bottom(Delivered) = Bottom(stack) /\ Second(Delivered) = Second(stack)
           /\ Third(Delivered).event = Third(stack).event
           /\ OneSymbol(Delivered) /\ Event.symbol = Bottom(stack).event.symbol
           /\ Delivered \in Seq(WalkFrames)
<1>1. Walk /\ OneSymbol(stack) /\ stack # <<>> /\ Len(stack) \in Nat /\ Event = stack[1].event
  <2>1. Walk /\ OneSymbol(stack) /\ stack # <<>>
    <3>1. Walk /\ Shaped(stack, bars)
      BY DEF Books
    <3> QED
      BY <3>1, FramesOf DEF Shaped
  <2> QED
    BY <2>1, FramesOf
<1>2. /\ Delivered \in Seq(WalkFrames) /\ Len(Delivered) = Len(stack)
      /\ \A i \in 1 .. Len(stack) : Delivered[i].event = stack[i].event
      /\ \A i \in 2 .. Len(stack) : Delivered[i] = stack[i]
  BY <1>1, ViewOfDelivered
<1>3. Delivered # <<>>
  <2>1. Len(<<>>) = 0
    OBVIOUS
  <2>2. Len(Delivered) # Len(<<>>)
    BY <1>1, <1>2, <2>1
  <2> QED
    BY <2>2, Zenon
<1> DEFINE D == Delivered
           n == Len(stack)
<1>4. /\ n \in 2 .. n /\ n - 1 \in 2 .. n /\ n - 2 \in 1 .. n /\ n \in 1 .. n /\ 1 \in 1 .. n
  BY <1>1
<1>5. /\ D[n] = stack[n] /\ D[n - 1] = stack[n - 1] /\ D[n - 2].event = stack[n - 2].event
  BY <1>2, <1>4
<1>6. Bottom(D) = Bottom(stack) /\ Second(D) = Second(stack)
      /\ Third(D).event = Third(stack).event
  BY <1>2, <1>5 DEF Bottom, Second, Third
<1>7. OneSymbol(D)
  BY <1>1, <1>2, <1>6 DEF OneSymbol
<1>8. Event.symbol = Bottom(stack).event.symbol
  BY <1>1, <1>4 DEF OneSymbol
<1> QED
  BY <1>2, <1>3, <1>6, <1>7, <1>8

\* Publishing above a stack keeps its lower frames.
LEMMA PushedAbove ==
    ASSUME NEW s \in Seq(WalkFrames), s # <<>>, Len(s) >= 2, OneSymbol(s),
           NEW e \in WalkEvents, e.symbol = Bottom(s).event.symbol,
           NEW st, st = <<Frame(e)>> \o s
    PROVE  /\ Len(st) = Len(s) + 1 /\ st # <<>>
           /\ Bottom(st) = Bottom(s) /\ Second(st) = Second(s)
           /\ Len(s) = 2 => Third(st).event = e
           /\ Len(s) >= 3 => Third(st) = Third(s)
           /\ OneSymbol(st)
<1>1. /\ Len(<<Frame(e)>> \o s) = Len(s) + 1
      /\ (<<Frame(e)>> \o s)[1] = Frame(e)
      /\ \A i \in 2 .. Len(s) + 1 : (<<Frame(e)>> \o s)[i] = s[i - 1]
      /\ Frame(e).event = e
  BY ViewOfPublished
<1> DEFINE n == Len(s)
<1>2. n \in Nat
  OBVIOUS
<1>3. /\ Len(st) = n + 1 /\ st[1].event = e
      /\ \A i \in 2 .. n + 1 : st[i] = s[i - 1]
  BY <1>1
<1>4. st # <<>>
  <2>1. Len(<<>>) = 0
    OBVIOUS
  <2>2. Len(st) # Len(<<>>)
    BY <1>2, <1>3, <2>1
  <2> QED
    BY <2>2, Zenon
<1>5. Bottom(s) = s[n] /\ Second(s) = s[n - 1] /\ Third(s) = s[n - 2] /\ n >= 2
  BY DEF Bottom, Second, Third
<1>6. /\ Bottom(st) = st[n + 1] /\ Second(st) = st[n] /\ Third(st) = st[n - 1]
  <2>1. Len(st) = n + 1 /\ Len(st) - 1 = n /\ Len(st) - 2 = n - 1
    BY <1>2, <1>3
  <2> QED
    BY <2>1 DEF Bottom, Second, Third
<1>7. \A i \in 1 .. n : s[i].event.symbol = Bottom(s).event.symbol
  BY DEF OneSymbol
<1> HIDE DEF n
<1>8. st[n + 1] = s[n] /\ st[n] = s[n - 1] /\ (n >= 3 => st[n - 1] = s[n - 2])
      /\ (n = 2 => st[n - 1].event = e)
  <2>1. n + 1 \in 2 .. n + 1 /\ n \in 2 .. n + 1 /\ (n >= 3 => n - 1 \in 2 .. n + 1)
        /\ (n + 1) - 1 = n /\ (n - 1) - 1 = n - 2 /\ (n = 2 => n - 1 = 1)
    BY <1>2, <1>5
  <2>2. st[n + 1] = s[(n + 1) - 1] /\ st[n] = s[n - 1]
        /\ (n >= 3 => st[n - 1] = s[(n - 1) - 1])
    BY <1>3, <2>1
  <2>3. n = 2 => st[n - 1].event = e
    BY <1>3, <2>1
  <2> QED
    BY <2>1, <2>2, <2>3
<1>9. ASSUME NEW i \in 1 .. n + 1 PROVE st[i].event.symbol = Bottom(s).event.symbol
  <2>1. CASE i = 1
    BY <1>3, <2>1
  <2>2. CASE i # 1
    <3>1. i \in 2 .. n + 1 /\ i - 1 \in 1 .. n
      BY <1>2, <2>2
    <3> QED
      BY <1>3, <1>7, <3>1
  <2> QED
    BY <2>1, <2>2
<1>10. OneSymbol(st)
  BY <1>3, <1>5, <1>6, <1>8, <1>9 DEF OneSymbol
<1> QED
  BY <1>3, <1>4, <1>5, <1>6, <1>8, <1>10 DEF n

\* A publish down there returns.
LEMMA DeepReturns ==
    ASSUME Books, Len(stack) >= 3
    PROVE  /\ Tail(stack) \in Seq(WalkFrames)
           /\ Len(Tail(stack)) = Len(stack) - 1 /\ Tail(stack) # <<>>
           /\ Bottom(Tail(stack)) = Bottom(stack) /\ Second(Tail(stack)) = Second(stack)
           /\ Len(stack) >= 4 => Third(Tail(stack)) = Third(stack)
           /\ OneSymbol(Tail(stack)) /\ Event.symbol = Bottom(stack).event.symbol
<1> DEFINE n == Len(stack)
           T == Tail(stack)
<1>1. Walk /\ OneSymbol(stack) /\ stack # <<>> /\ n \in Nat /\ Event = stack[1].event
      /\ stack \in Seq(WalkFrames)
  <2>1. Walk /\ OneSymbol(stack) /\ stack # <<>>
    <3>1. Walk /\ Shaped(stack, bars)
      BY DEF Books
    <3> QED
      BY <3>1, FramesOf DEF Shaped
  <2> QED
    BY <2>1, FramesOf
<1>2. /\ T \in Seq(WalkFrames) /\ Len(T) = n - 1
      /\ \A i \in 1 .. n - 1 : T[i] = stack[i + 1]
  BY <1>1
<1>3. T # <<>>
  <2>1. Len(<<>>) = 0
    OBVIOUS
  <2>2. Len(T) # Len(<<>>)
    BY <1>1, <1>2, <2>1
  <2> QED
    BY <2>2, Zenon
<1>4. \A i \in 1 .. n : stack[i].event.symbol = stack[n].event.symbol
  BY <1>1 DEF OneSymbol, Bottom
<1>5. Bottom(stack) = stack[n] /\ Second(stack) = stack[n - 1] /\ Third(stack) = stack[n - 2]
      /\ n >= 3
  BY DEF Bottom, Second, Third
<1> HIDE DEF n, T
<1>6. Bottom(T) = T[n - 1] /\ Second(T) = T[n - 2] /\ Third(T) = T[n - 3]
  <2>1. Len(T) = n - 1 /\ Len(T) - 1 = n - 2 /\ Len(T) - 2 = n - 3
    BY <1>1, <1>2
  <2> QED
    BY <2>1 DEF Bottom, Second, Third
<1>7. T[n - 1] = stack[n] /\ T[n - 2] = stack[n - 1] /\ (n >= 4 => T[n - 3] = stack[n - 2])
  <2>1. n - 1 \in 1 .. n - 1 /\ n - 2 \in 1 .. n - 1 /\ (n >= 4 => n - 3 \in 1 .. n - 1)
        /\ (n - 1) + 1 = n /\ (n - 2) + 1 = n - 1 /\ (n - 3) + 1 = n - 2
    BY <1>1, <1>5
  <2>2. T[n - 1] = stack[(n - 1) + 1] /\ T[n - 2] = stack[(n - 2) + 1]
        /\ (n >= 4 => T[n - 3] = stack[(n - 3) + 1])
    BY <1>2, <2>1
  <2> QED
    BY <2>1, <2>2
<1>8. ASSUME NEW i \in 1 .. Len(T) PROVE T[i].event.symbol = Bottom(T).event.symbol
  <2>1. i \in 1 .. n - 1 /\ i + 1 \in 1 .. n
    BY <1>1, <1>2
  <2>2. T[i] = stack[i + 1] /\ stack[i + 1].event.symbol = stack[n].event.symbol
    BY <1>2, <1>4, <2>1
  <2> QED
    BY <1>6, <1>7, <2>2
<1>9. OneSymbol(T)
  BY <1>8 DEF OneSymbol
<1>10. Event.symbol = Bottom(stack).event.symbol
  <2>1. 1 \in 1 .. n
    BY <1>1, <1>5
  <2> QED
    BY <1>1, <1>4, <1>5, <2>1
<1> QED
  BY <1>2, <1>3, <1>5, <1>6, <1>7, <1>9, <1>10 DEF n, T

-----------------------------------------------------------------------------
(* A step keeps the books of the symbols it does not concern.              *)

SoundNext(u) ==
    /\ SoundBundles(Due(stack', u), pending'[u], bars'[u], failures')
    /\ SoundDay(Due(stack', u), bars'[u], failures', patterns'[u], proposed'[u],
                pending'[u]["indicators"])
    /\ Due(stack', u) # {} /\ "indicators" \notin Due(stack', u) =>
           \/ regime' = [symbol |-> u, bar |-> bars'[u]]
           \/ failures' > 0 /\ (pending'[u]["indicators"] # 0 => failures' > 1)
    /\ SoundTrade(Due(stack', u), bars'[u], position'[u], closed'[u])

LEMMA NextSymbol ==
    ASSUME NEW u \in Symbols, SoundNext(u)
    PROVE  SoundSymbol(Due(stack, u), u)'
<1>1. Due(stack, u)' = Due(stack', u)
  BY DEF Due, Bottom, Second, Signalled
<1>2. SoundBundles(Due(stack, u), pending[u], bars[u], failures)'
  BY <1>1 DEF SoundNext, SoundBundles, Passed
<1>3. SoundDay(Due(stack, u), bars[u], failures, patterns[u], proposed[u],
               pending[u]["indicators"])'
  BY <1>1 DEF SoundNext, SoundDay, Passed
<1>4. SoundRegime(Due(stack, u), u)'
  BY <1>1 DEF SoundNext, SoundRegime, OwnRegime
<1>5. SoundTrade(Due(stack, u), bars[u], position[u], closed[u])'
  BY <1>1 DEF SoundNext, SoundTrade
<1> QED
  BY <1>2, <1>3, <1>4, <1>5 DEF SoundSymbol

LEMMA BooksNext ==
    ASSUME Walk', BooksTyped', Shaped(stack', bars'),
           Signalled(stack', "indicators") =>
               regime' = [symbol |-> Bottom(stack').event.symbol,
                          bar |-> bars'[Bottom(stack').event.symbol]],
           \A u \in Symbols : SoundNext(u),
           Len(stack') >= 3 => /\ SoundCandidate(Third(stack').event)
                               /\ UNCHANGED <<bars, regime, patterns, failures>>,
           (closes' - announced') + Missed' <= failures' + Owed(stack')
    PROVE  Books'
<1>1. Shaped(stack, bars)'
  BY DEF Shaped, OneSymbol, Bottom, Second, IsRest
<1>2. (Signalled(stack, "indicators") => regime = OwnRegime(Bottom(stack).event.symbol))'
  BY DEF Signalled, OwnRegime, Bottom, Second
<1>3. \A s \in Symbols : SoundSymbol(Due(stack, s), s)'
  BY NextSymbol
<1>4. (Len(stack) >= 3 => SoundCandidate(Third(stack).event))'
  BY DEF SoundCandidate, Recent, Third, OwnRegime
<1>5. ((closes - announced) + Missed <= failures + Owed(stack))'
  BY DEF Owed, Second
<1> QED
  BY <1>1, <1>2, <1>3, <1>4, <1>5 DEF Books

\* More failures and fewer open turns excuse no less.
LEMMA SymbolKeeps ==
    ASSUME Books, BooksTyped', NEW u \in Symbols, Due(stack', u) = Due(stack, u),
           failures' >= failures, bars'[u] = bars[u], pending'[u] = pending[u],
           patterns'[u] = patterns[u], proposed'[u] = proposed[u], closed'[u] = closed[u],
           SoundTrade(Due(stack, u), bars[u], position'[u], closed[u]),
           \/ regime' = regime
           \/ Due(stack, u) = {} \/ "indicators" \in Due(stack, u)
    PROVE  SoundNext(u)
<1> DEFINE d == Due(stack, u)
           now == bars[u]
           p == pending[u]
           f == failures
           g == failures'
<1>1. /\ SoundBundles(d, p, now, f)
      /\ SoundDay(d, now, f, patterns[u], proposed[u], p["indicators"])
      /\ SoundRegime(d, u)
      /\ f \in Nat /\ g \in Nat /\ g >= f /\ now \in Nat /\ p \in [Sources -> Nat]
      /\ patterns[u] \in Nat
  BY DEF Books, SoundSymbol, BooksTyped, Walk, Typed
<1>2. \A h : Passed(d, h, now) \in Int
  BY <1>1 DEF Passed
<1>3. SoundNext(u) <=>
         /\ SoundBundles(d, p, now, g)
         /\ SoundDay(d, now, g, patterns[u], proposed[u], p["indicators"])
         /\ d # {} /\ "indicators" \notin d =>
               \/ regime' = [symbol |-> u, bar |-> now]
               \/ g > 0 /\ (p["indicators"] # 0 => g > 1)
  BY DEF SoundNext
<1>4. d # {} /\ "indicators" \notin d =>
         \/ regime' = [symbol |-> u, bar |-> now]
         \/ g > 0 /\ (p["indicators"] # 0 => g > 1)
  BY <1>1 DEF SoundRegime, OwnRegime
<1> HIDE DEF d, now, p, f, g
<1>5. SoundBundles(d, p, now, g)
  <2>1. \A h \in Sources : p[h] \in Nat
    BY <1>1
  <2> QED
    BY <1>1, <1>2, <2>1 DEF SoundBundles, Sources
<1>6. SoundDay(d, now, g, patterns[u], proposed[u], p["indicators"])
  BY <1>1, <1>2 DEF SoundDay
<1> QED
  BY <1>3, <1>4, <1>5, <1>6

\* A step that concerns the symbol walked.
LEMMA StepOfOne ==
    ASSUME Books, Walk', BooksTyped', Shaped(stack', bars'), NEW s \in Symbols,
           \A u \in Symbols \ {s} :
               /\ Due(stack, u) = {} /\ Due(stack', u) = {}
               /\ bars'[u] = bars[u] /\ pending'[u] = pending[u]
               /\ patterns'[u] = patterns[u] /\ proposed'[u] = proposed[u]
               /\ position'[u] = position[u] /\ closed'[u] = closed[u],
           failures' >= failures,
           SoundNext(s),
           Signalled(stack', "indicators") =>
               regime' = [symbol |-> Bottom(stack').event.symbol,
                          bar |-> bars'[Bottom(stack').event.symbol]],
           Len(stack') >= 3 => /\ SoundCandidate(Third(stack').event)
                               /\ UNCHANGED <<bars, regime, patterns, failures>>,
           (closes' - announced') + Missed' <= failures' + Owed(stack')
    PROVE  Books'
<1>1. ASSUME NEW u \in Symbols, u # s PROVE SoundNext(u)
  <2>1. /\ Due(stack, u) = {} /\ Due(stack', u) = {}
        /\ bars'[u] = bars[u] /\ pending'[u] = pending[u]
        /\ patterns'[u] = patterns[u] /\ proposed'[u] = proposed[u]
        /\ position'[u] = position[u] /\ closed'[u] = closed[u]
    BY <1>1
  <2>2. SoundTrade(Due(stack, u), bars[u], position'[u], closed[u])
    BY <2>1 DEF Books, SoundSymbol
  <2> QED
    BY <2>1, <2>2, SymbolKeeps
<1>2. \A u \in Symbols : SoundNext(u)
  BY <1>1
<1> QED
  BY <1>2, BooksNext

\* A step that only moves the walk, or opens a position.
LEMMA QuietStep ==
    ASSUME Books, Walk', Shaped(stack', bars),
           UNCHANGED <<inputVars, pending, proposed, closed, closes, announced, records,
                       failures>>,
           \A u : Due(stack', u) = Due(stack, u),
           Owed(stack') = Owed(stack),
           Signalled(stack', "indicators") =>
               /\ Signalled(stack, "indicators")
               /\ Bottom(stack').event.symbol = Bottom(stack).event.symbol,
           Len(stack') >= 3 => SoundCandidate(Third(stack').event),
           \A u \in Symbols : SoundTrade(Due(stack, u), bars[u], position'[u], closed[u])
    PROVE  Books'
<1>1. BooksTyped'
  BY DEF Books, BooksTyped, inputVars
<1>2. /\ UNCHANGED <<bars, regime, patterns, failures>>
      /\ failures' >= failures
  <2>1. failures \in Nat /\ UNCHANGED <<bars, regime, patterns, failures>>
    BY DEF Books, BooksTyped, inputVars
  <2> QED
    BY <2>1
<1>3. \A u \in Symbols : SoundNext(u)
  <2> SUFFICES ASSUME NEW u \in Symbols PROVE SoundNext(u)
    OBVIOUS
  <2>1. /\ bars'[u] = bars[u] /\ pending'[u] = pending[u]
        /\ patterns'[u] = patterns[u] /\ proposed'[u] = proposed[u]
        /\ closed'[u] = closed[u] /\ regime' = regime /\ Due(stack', u) = Due(stack, u)
    BY DEF inputVars
  <2> QED
    BY <1>1, <1>2, <2>1, SymbolKeeps
<1>4. Signalled(stack', "indicators") =>
          regime' = [symbol |-> Bottom(stack').event.symbol,
                     bar |-> bars'[Bottom(stack').event.symbol]]
  BY <1>2 DEF Books, OwnRegime
<1>5. (closes' - announced') + Missed' <= failures' + Owed(stack')
  BY DEF Books, Missed, MissedBy
<1>6. Shaped(stack', bars')
  BY <1>2
<1> QED
  BY <1>1, <1>2, <1>3, <1>4, <1>5, <1>6, BooksNext

\* The trades of a symbol whose position does not move.
LEMMA TradesKeep ==
    ASSUME Books, UNCHANGED position
    PROVE  \A u \in Symbols : SoundTrade(Due(stack, u), bars[u], position'[u], closed[u])
  BY DEF Books, SoundSymbol

-----------------------------------------------------------------------------
(* The bar's readers.                                                      *)

\* A group's turn passes: the patterns are read, or one more handler raised.
LEMMA DayAfter ==
    ASSUME NEW d, NEW now \in Nat, NEW f \in Nat, NEW f2 \in Nat, f2 >= f,
           NEW x \in Nat, NEW y \in Nat, NEW last \in Nat, NEW w,
           SoundDay(d, now, f, x, last, w), NEW g \in BarGroups, g \in d,
           \/ g # "chart_pattern" /\ y = x
           \/ y = now
           \/ y = x /\ f2 > f
    PROVE  SoundDay(d \ {g}, now, f2, y, last, w)
<1> DEFINE e == d \ {g}
<1>1. /\ d # {} /\ (g = "chart_pattern" => Passed(d, "chart_pattern", now) = now - 1)
      /\ Passed(e, "chart_pattern", now) <= now
      /\ (g # "chart_pattern" => Passed(e, "chart_pattern", now) = Passed(d, "chart_pattern", now))
      /\ ("indicators" \in d => last # now)
      /\ Passed(d, "chart_pattern", now) \in Int /\ Passed(e, "chart_pattern", now) \in Int
  BY DEF SoundDay, Passed
<1>2. /\ now > 0 /\ last <= now /\ x + f >= Passed(d, "chart_pattern", now)
      /\ (last = now => "indicators" \notin d /\ w = 0)
      /\ ("indicators" \notin d => "indicators" \notin e)
  BY <1>1 DEF SoundDay
<1> HIDE DEF e
<1>3. y + f2 >= Passed(e, "chart_pattern", now)
  <2>1. CASE g # "chart_pattern" /\ y = x
    BY <1>1, <1>2, <2>1
  <2>2. CASE y = now
    BY <1>1, <2>2
  <2>3. CASE g = "chart_pattern" /\ y = x /\ f2 > f
    BY <1>1, <1>2, <2>3
  <2> QED
    BY <2>1, <2>2, <2>3
<1>4. SoundDay(e, now, f2, y, last, w)
  BY <1>2, <1>3 DEF SoundDay
<1> QED
  BY <1>4 DEF e

\* Facts about the symbol under way when a reader's turn comes.
LEMMA AtTurn ==
    ASSUME Books, NEW g \in BarGroups, Delivering(g, "FeatureReady")
    PROVE  /\ Event.symbol \in Symbols /\ g \in Due(stack, Event.symbol)
           /\ SoundSymbol(Due(stack, Event.symbol), Event.symbol)
           /\ bars[Event.symbol] \in Nat /\ bars[Event.symbol] > 0
           /\ pending[Event.symbol] \in [Sources -> Nat]
           /\ position[Event.symbol] \in [opened : Nat, panel : Nat, held : BOOLEAN]
           /\ patterns[Event.symbol] \in Nat /\ proposed[Event.symbol] \in Nat
           /\ closed[Event.symbol] \in Nat
           /\ failures \in Nat
           /\ g = "indicators" => "candlestick" \in Due(stack, Event.symbol)
           /\ Len(stack) = 1
<1>1. Event.symbol \in Symbols /\ Len(stack) = 1
  BY BarView
<1>2. Due(stack, Event.symbol) = {h \in BarGroups : Turn[h] <= Turn[g]}
  BY BarDelivered
<1>3. /\ g \in Due(stack, Event.symbol)
      /\ g = "indicators" => "candlestick" \in Due(stack, Event.symbol)
  BY <1>2 DEF Turn, BarGroups
<1>4. SoundSymbol(Due(stack, Event.symbol), Event.symbol)
  BY <1>1 DEF Books
<1>5. bars[Event.symbol] \in Nat
  BY <1>1 DEF Books, Walk, Typed
<1>6. bars[Event.symbol] > 0
  BY <1>3, <1>4 DEF SoundSymbol, SoundDay
<1>7. /\ pending[Event.symbol] \in [Sources -> Nat]
      /\ position[Event.symbol] \in [opened : Nat, panel : Nat, held : BOOLEAN]
      /\ patterns[Event.symbol] \in Nat /\ proposed[Event.symbol] \in Nat
      /\ closed[Event.symbol] \in Nat /\ failures \in Nat
  BY <1>1 DEF Books, Walk, Typed, BooksTyped
<1> QED
  BY <1>1, <1>3, <1>4, <1>5, <1>6, <1>7

\* A reader's turn ends, and EntryGroup hears nothing of it.
LEMMA TurnEnds ==
    ASSUME Books, Walk', BooksTyped', NEW g \in BarGroups, Delivering(g, "FeatureReady"),
           Shaped(stack', bars), \A u : Due(stack', u) = Due(Delivered, u),
           \A h : ~ Signalled(stack', h), ~ (Len(stack') >= 3),
           UNCHANGED <<bars, pending, proposed>>,
           failures' = failures \/ failures' = failures + 1,
           \A u \in Symbols \ {Event.symbol} :
               /\ patterns'[u] = patterns[u] /\ position'[u] = position[u]
               /\ closed'[u] = closed[u],
           \/ g # "chart_pattern" /\ UNCHANGED patterns
           \/ patterns'[Event.symbol] = bars[Event.symbol]
           \/ UNCHANGED patterns /\ failures' = failures + 1,
           \/ g \in {"chart_pattern", "exit"}
           \/ failures' = failures + 1
           \/ g = "technical_structure" /\ bars[Event.symbol] < StructureBars,
           \/ UNCHANGED regime
           \/ g = "indicators" /\ regime' = OwnRegime(Event.symbol),
           SoundTrade(Due(stack, Event.symbol) \ {g}, bars[Event.symbol],
                      position'[Event.symbol], closed'[Event.symbol]),
           (closes' - announced') + Missed' <= failures' + Owed(stack')
    PROVE  Books'
<1> DEFINE s == Event.symbol
           d == Due(stack, s)
           now == bars[s]
           p == pending[s]
           f == failures
           x == patterns[s]
           last == proposed[s]
<1>1. /\ s \in Symbols /\ g \in d /\ now \in Nat /\ now > 0 /\ p \in [Sources -> Nat]
      /\ SoundBundles(d, p, now, f) /\ SoundDay(d, now, f, x, last, p["indicators"])
      /\ SoundRegime(d, s) /\ SoundTrade(d, now, position[s], closed[s])
      /\ x \in Nat /\ last \in Nat /\ f \in Nat
      /\ g = "indicators" => "candlestick" \in d
  BY AtTurn DEF SoundSymbol
<1>2. /\ Due(stack', s) = d \ {g}
      /\ \A u : u # s => Due(stack, u) = {} /\ Due(stack', u) = {}
      /\ \A h : ~ Signalled(stack', h)
      /\ Shaped(stack', bars')
  BY BarDelivered
<1>3. bars'[s] = now /\ pending'[s] = p /\ proposed'[s] = last
  OBVIOUS
<1>4. failures' \in Nat /\ failures' >= f /\ patterns'[s] \in Nat
  BY <1>1 DEF BooksTyped
<1>5. SoundBundles(d \ {g}, p, now, failures')
  <2>1. CASE failures' = failures + 1
    <3> HIDE DEF d, now, p
    <3>1. SoundBundles(d \ {g}, p, now, f + 1)
      BY <1>1, BundlesAfterRaise
    <3> QED
      BY <2>1, <3>1
  <2>2. CASE g \in {"chart_pattern", "exit"} /\ failures' = failures
    <3> HIDE DEF d, now, p
    <3>1. SoundBundles(d \ {g}, p, now, f)
      BY <1>1, <2>2, BundlesAfterOthers
    <3> QED
      BY <2>2, <3>1
  <2>3. CASE g = "technical_structure" /\ bars[Event.symbol] < StructureBars
             /\ failures' = failures
    <3>1. now < StructureBars /\ "technical_structure" \in d
      BY <1>1, <2>3
    <3> HIDE DEF d, now, p
    <3>2. SoundBundles(d \ {"technical_structure"}, p, now, f)
      BY <1>1, <3>1, BundlesAfterShort
    <3> QED
      BY <2>3, <3>2
  <2> QED
    BY <2>1, <2>2, <2>3
<1>6. SoundDay(d \ {g}, now, failures', patterns'[s], last, p["indicators"])
  <2> DEFINE y == patterns'[s]
             f2 == failures'
             w == p["indicators"]
  <2>1. \/ g # "chart_pattern" /\ y = x
        \/ y = now
        \/ y = x /\ f2 > f
    BY <1>1
  <2>2. y \in Nat /\ f2 \in Nat /\ f2 >= f
    BY <1>4
  <2> HIDE DEF y, f2, w, d, now, x, last, f, p
  <2>3. SoundDay(d, now, f, x, last, w)
    BY <1>1 DEF w
  <2>4. SoundDay(d \ {g}, now, f2, y, last, w)
    BY <1>1, <2>1, <2>2, <2>3, DayAfter
  <2> QED
    BY <2>4 DEF y, f2, w
<1>7. Due(stack', s) # {} /\ "indicators" \notin Due(stack', s) =>
         \/ regime' = [symbol |-> s, bar |-> bars'[s]]
         \/ failures' > 0 /\ (p["indicators"] # 0 => failures' > 1)
  <2>1. CASE g # "indicators"
    <3>1. "indicators" \in d => "indicators" \in d \ {g}
      BY <2>1
    <3>2. regime' = regime
      BY <2>1
    <3>3. d # {} /\ "indicators" \notin d =>
             \/ regime = [symbol |-> s, bar |-> now]
             \/ f > 0 /\ (p["indicators"] # 0 => f > 1)
      BY <1>1 DEF SoundRegime, OwnRegime
    <3> HIDE DEF d, now, p, s
    <3>4. d # {}
      BY <1>1
    <3> QED
      BY <1>1, <1>2, <1>3, <1>4, <3>1, <3>2, <3>3, <3>4
  <2>2. CASE g = "indicators" /\ regime' = OwnRegime(Event.symbol)
    BY <2>2 DEF OwnRegime
  <2>3. CASE g = "indicators" /\ failures' = failures + 1
    <3>1. /\ p["indicators"] \in Nat /\ p["indicators"] <= Passed(d, "indicators", now)
          /\ p["indicators"] # 0 => p["indicators"] + f > Passed(d, "candlestick", now)
      BY <1>1 DEF SoundBundles, Sources
    <3>2. Passed(d, "indicators", now) = now - 1 /\ Passed(d, "candlestick", now) = now - 1
      BY <1>1, <2>3 DEF Passed
    <3> HIDE DEF d, now, p, f
    <3>3. p["indicators"] # 0 => f > 0
      BY <1>1, <3>1, <3>2
    <3>4. failures' = f + 1
      BY <2>3 DEF f
    <3> QED
      BY <1>1, <3>3, <3>4
  <2> QED
    BY <2>1, <2>2, <2>3
<1>8. SoundNext(s)
  BY <1>2, <1>3, <1>5, <1>6, <1>7 DEF SoundNext
<1>9. /\ \A u \in Symbols \ {s} :
             /\ Due(stack, u) = {} /\ Due(stack', u) = {}
             /\ bars'[u] = bars[u] /\ pending'[u] = pending[u]
             /\ patterns'[u] = patterns[u] /\ proposed'[u] = proposed[u]
             /\ position'[u] = position[u] /\ closed'[u] = closed[u]
  BY <1>2
<1> HIDE DEF s
<1> QED
  BY <1>1, <1>2, <1>4, <1>8, <1>9, StepOfOne

\* A reader's turn ends, and nothing is published.
LEMMA TurnDelivered ==
    ASSUME Books, NEW g \in BarGroups, Delivering(g, "FeatureReady"), stack' = Delivered
    PROVE  /\ Shaped(stack', bars) /\ \A u : Due(stack', u) = Due(Delivered, u)
           /\ \A h : ~ Signalled(stack', h)
           /\ ~ (Len(stack') >= 3) /\ Owed(stack') = 0
           /\ (closes - announced) + Missed <= failures
           /\ closes \in Nat /\ announced \in Nat /\ Missed \in Int /\ failures \in Nat
<1>1. /\ Shaped(stack', bars) /\ \A u : Due(stack', u) = Due(Delivered, u)
      /\ \A h : ~ Signalled(stack', h)
      /\ Owed(stack') = 0 /\ Owed(stack) = 0 /\ Len(stack') = 1
  BY BarDelivered, BarView
<1>2. ~ (Len(stack') >= 3)
  BY <1>1
<1>3. /\ (closes - announced) + Missed <= failures + Owed(stack)
      /\ closes \in Nat /\ announced \in Nat /\ failures \in Nat /\ Missed \in Int
  BY DEF Books, BooksTyped, Missed, MissedBy, Recorders
<1> QED
  BY <1>1, <1>2, <1>3

LEMMA ChartPatternsKeep ==
    ASSUME Books, Walk', ChartPatternGroup
    PROVE  Books'
<1> DEFINE g == "chart_pattern"
<1>1. /\ Delivering(g, "FeatureReady") /\ stack' = Delivered
      /\ patterns' = [patterns EXCEPT ![Event.symbol] = bars[Event.symbol]]
      /\ UNCHANGED <<bars, regime, pending, proposed, position, closed, closes, announced,
                     records, failures>>
      /\ g \in BarGroups
  BY DEF ChartPatternGroup, Return, Now, bookVars, BarGroups
<1>2. /\ Event.symbol \in Symbols
      /\ SoundSymbol(Due(stack, Event.symbol), Event.symbol) /\ bars[Event.symbol] \in Nat
  BY <1>1, AtTurn
<1>3. BooksTyped'
  BY <1>1, <1>2 DEF Books, BooksTyped
<1>4. SoundTrade(Due(stack, Event.symbol) \ {g}, bars[Event.symbol],
                 position'[Event.symbol], closed'[Event.symbol])
  BY <1>1, <1>2 DEF SoundSymbol, SoundTrade
<1>5. /\ patterns'[Event.symbol] = bars[Event.symbol]
      /\ \A u \in Symbols \ {Event.symbol} : patterns'[u] = patterns[u]
  BY <1>1, <1>2 DEF Books, BooksTyped
<1>6. (closes' - announced') + Missed' <= failures' + Owed(stack')
  <2>1. Missed' = Missed
    BY <1>1 DEF Missed, MissedBy
  <2> QED
    BY <1>1, <2>1, TurnDelivered
<1> QED
  BY <1>1, <1>3, <1>4, <1>5, <1>6, TurnDelivered, TurnEnds

\* A reader raises; and so does IndicatorsGroup once it has stored the regime.
LEMMA RaisedReadersKeep ==
    ASSUME Books, Walk', NEW g \in BarGroups, Delivering(g, "FeatureReady"),
           stack' = Delivered, failures' = failures + 1,
           UNCHANGED <<bars, patterns, pending, proposed, bookVars, records>>,
           \/ UNCHANGED regime
           \/ g = "indicators" /\ regime' = OwnRegime(Event.symbol)
    PROVE  Books'
<1>1. /\ Event.symbol \in Symbols
      /\ SoundSymbol(Due(stack, Event.symbol), Event.symbol)
  BY AtTurn
<1>2. UNCHANGED <<position, closed, closes, announced, patterns>>
  BY DEF bookVars
<1>3. BooksTyped'
  BY <1>2 DEF Books, BooksTyped
<1>4. SoundTrade(Due(stack, Event.symbol) \ {g}, bars[Event.symbol],
                 position'[Event.symbol], closed'[Event.symbol])
  BY <1>1, <1>2 DEF SoundSymbol, SoundTrade
<1>5. (closes' - announced') + Missed' <= failures' + Owed(stack')
  <2>1. Missed' = Missed
    BY <1>2 DEF Missed, MissedBy
  <2> QED
    BY <1>2, <2>1, TurnDelivered
<1> QED
  BY <1>2, <1>3, <1>4, <1>5, TurnDelivered, TurnEnds

\* A reader publishes its signal.
LEMMA SignalStep ==
    ASSUME Books, Walk', NEW g \in Sources, Delivering(g, "FeatureReady"),
           g = "technical_structure" => bars[Event.symbol] >= StructureBars,
           stack' = Pushed(Signal(g, Event.symbol)),
           UNCHANGED <<bars, patterns, pending, proposed, bookVars, records, failures>>,
           \/ g # "indicators" /\ UNCHANGED regime
           \/ g = "indicators" /\ regime' = OwnRegime(Event.symbol)
    PROVE  Books'
<1>1. /\ Len(stack') = 2 /\ Bottom(stack').event = Event /\ Shaped(stack', bars)
      /\ \A u : Due(stack', u) = Due(stack, u)
      /\ Owed(stack') = 0
      /\ \A h : Signalled(stack', h) => h = g
  BY SignalPublished
<1>2. /\ UNCHANGED <<position, closed, closes, announced, patterns, bars, pending, proposed,
                     records, failures>>
      /\ g \in BarGroups
  BY DEF bookVars, Sources, BarGroups
<1>3. /\ Event.symbol \in Symbols /\ g \in Due(stack, Event.symbol)
      /\ \A u : u # Event.symbol => Due(stack, u) = {}
      /\ Owed(stack) = 0
  BY <1>2, AtTurn, BarDelivered
<1>4. BooksTyped'
  BY <1>2 DEF Books, BooksTyped
<1>5. failures' >= failures /\ failures \in Nat
  <2>1. failures \in Nat
    BY DEF Books, BooksTyped
  <2> QED
    BY <1>2, <2>1
<1>6. SoundNext(Event.symbol)
  <2>1. SoundTrade(Due(stack, Event.symbol), bars[Event.symbol], position'[Event.symbol],
                   closed[Event.symbol])
    BY <1>2, <1>3 DEF Books, SoundSymbol
  <2>2. regime' = regime \/ "indicators" \in Due(stack, Event.symbol)
    BY <1>3
  <2> DEFINE s == Event.symbol
  <2>3. /\ s \in Symbols /\ Due(stack', s) = Due(stack, s)
        /\ bars'[s] = bars[s] /\ pending'[s] = pending[s] /\ patterns'[s] = patterns[s]
        /\ proposed'[s] = proposed[s] /\ closed'[s] = closed[s]
        /\ SoundTrade(Due(stack, s), bars[s], position'[s], closed[s])
        /\ regime' = regime \/ "indicators" \in Due(stack, s)
    BY <1>1, <1>2, <1>3, <2>1, <2>2
  <2> HIDE DEF s
  <2>4. SoundNext(s)
    BY <1>4, <1>5, <2>3, SymbolKeeps
  <2> QED
    BY <2>4 DEF s
<1>7. Signalled(stack', "indicators") =>
          regime' = [symbol |-> Bottom(stack').event.symbol,
                     bar |-> bars'[Bottom(stack').event.symbol]]
  BY <1>1, <1>2 DEF OwnRegime
<1>8. (closes' - announced') + Missed' <= failures' + Owed(stack')
  <2>1. Missed' = Missed
    BY <1>2 DEF Missed, MissedBy
  <2> QED
    BY <1>1, <1>2, <1>3, <2>1 DEF Books
<1>9. /\ \A u \in Symbols \ {Event.symbol} :
             /\ Due(stack, u) = {} /\ Due(stack', u) = {}
             /\ bars'[u] = bars[u] /\ pending'[u] = pending[u]
             /\ patterns'[u] = patterns[u] /\ proposed'[u] = proposed[u]
             /\ position'[u] = position[u] /\ closed'[u] = closed[u]
      /\ Shaped(stack', bars')
  BY <1>1, <1>2, <1>3
<1>10. ~ (Len(stack') >= 3)
  BY <1>1
<1> QED
  BY <1>3, <1>4, <1>5, <1>6, <1>7, <1>8, <1>9, <1>10, StepOfOne

\* Too few bars for the structure.
LEMMA ShortStructureKeeps ==
    ASSUME Books, Walk', Delivering("technical_structure", "FeatureReady"), Return,
           Now < StructureBars,
           UNCHANGED <<bars, regime, patterns, pending, proposed, bookVars, records, failures>>
    PROVE  Books'
<1> DEFINE g == "technical_structure"
<1>1. /\ g \in BarGroups /\ stack' = Delivered /\ bars[Event.symbol] < StructureBars
      /\ UNCHANGED <<position, closed, closes, announced>>
  BY DEF BarGroups, Return, Now, bookVars
<1>2. /\ Event.symbol \in Symbols
      /\ SoundSymbol(Due(stack, Event.symbol), Event.symbol)
  BY <1>1, AtTurn
<1>3. BooksTyped'
  BY <1>1 DEF Books, BooksTyped
<1>4. SoundTrade(Due(stack, Event.symbol) \ {g}, bars[Event.symbol],
                 position'[Event.symbol], closed'[Event.symbol])
  BY <1>1, <1>2 DEF SoundSymbol, SoundTrade
<1>5. (closes' - announced') + Missed' <= failures' + Owed(stack')
  <2>1. Missed' = Missed
    BY <1>1 DEF Missed, MissedBy
  <2> QED
    BY <1>1, <2>1, TurnDelivered
<1> QED
  BY <1>1, <1>3, <1>4, <1>5, TurnDelivered, TurnEnds

\* The exits: a position is held, or closed, and then announced or not.
LEMMA ExitsKeep ==
    ASSUME Books, Walk', ExitHolds \/ ExitCloses \/ ExitRaisesAfterClose
    PROVE  Books'
<1> DEFINE g == "exit"
           s == Event.symbol
<1>1. /\ Delivering(g, "FeatureReady") /\ g \in BarGroups
      /\ UNCHANGED <<bars, regime, patterns, pending, proposed, records>>
  BY DEF ExitHolds, ExitCloses, ExitRaisesAfterClose, BarGroups, inputVars
<1>2. /\ s \in Symbols /\ SoundSymbol(Due(stack, s), s) /\ bars[s] \in Nat
      /\ position[s] \in [opened : Nat, panel : Nat, held : BOOLEAN]
      /\ closed[s] \in Nat /\ failures \in Nat
  BY <1>1, AtTurn
<1>3. /\ (closes - announced) + Missed <= failures
      /\ closes \in Nat /\ announced \in Nat /\ Missed \in Int
  <2>1. /\ (closes - announced) + Missed <= failures + Owed(stack) /\ Owed(stack) = 0
        /\ closes \in Nat /\ announced \in Nat
    BY <1>1, BarDelivered DEF Books, BooksTyped
  <2>2. Missed \in Int
    BY DEF Missed, MissedBy, Books, BooksTyped, Recorders
  <2> QED
    BY <1>2, <2>1, <2>2
<1>4. CASE ExitHolds
  <2>1. /\ stack' = Delivered /\ UNCHANGED <<closed, closes, announced, failures>>
        /\ \/ position' = position
           \/ position' = [position EXCEPT ![s].held = TRUE]
    BY <1>4 DEF ExitHolds, Return
  <2>2. position'[s].opened = position[s].opened
        /\ \A u \in Symbols \ {s} : position'[u] = position[u]
    <3> DEFINE r == [position[s] EXCEPT !.held = TRUE]
    <3>1. r.opened = position[s].opened
      BY <1>2
    <3>2. position' = position \/ position' = [position EXCEPT ![s] = r]
      BY <2>1
    <3>3. DOMAIN position = Symbols
      BY DEF Books, Walk, Typed
    <3> HIDE DEF r
    <3> QED
      BY <1>2, <3>1, <3>2, <3>3
  <2>3. SoundTrade(Due(stack, s) \ {g}, bars[s], position'[s], closed'[s])
    BY <1>2, <2>1, <2>2 DEF SoundSymbol, SoundTrade
  <2>4. BooksTyped'
    BY <1>1, <2>1 DEF Books, BooksTyped
  <2>5. (closes' - announced') + Missed' <= failures' + Owed(stack')
    <3>1. Missed' = Missed
      BY <1>1, <2>1 DEF Missed, MissedBy
    <3> QED
      BY <1>1, <2>1, <3>1, TurnDelivered
  <2> QED
    BY <1>1, <2>1, <2>2, <2>3, <2>4, <2>5, TurnDelivered, TurnEnds
<1>5. ASSUME ClosePosition(s)
      PROVE  /\ position'[s] = NoPosition /\ closed'[s] = bars[s] /\ closes' = closes + 1
             /\ \A u \in Symbols \ {s} : position'[u] = position[u] /\ closed'[u] = closed[u]
             /\ SoundTrade(Due(stack, s) \ {g}, bars[s], position'[s], closed'[s])
             /\ closed' \in [Symbols -> Nat]
  <2>1. /\ position' = [position EXCEPT ![s] = NoPosition]
        /\ closed' = [closed EXCEPT ![s] = bars[s]] /\ closes' = closes + 1
    BY <1>5 DEF ClosePosition
  <2>2. /\ position'[s] = NoPosition /\ closed'[s] = bars[s]
        /\ \A u \in Symbols \ {s} : position'[u] = position[u] /\ closed'[u] = closed[u]
        /\ closed' \in [Symbols -> Nat]
    BY <1>2, <2>1 DEF Books, Walk, Typed, BooksTyped
  <2>3. SoundTrade(Due(stack, s) \ {g}, bars[s], NoPosition, bars[s])
    BY <1>2 DEF SoundTrade, NoPosition
  <2> QED
    BY <2>1, <2>2, <2>3
<1>6. CASE ExitRaisesAfterClose
  <2>1. /\ stack' = Delivered /\ UNCHANGED announced /\ failures' = failures + 1
        /\ ClosePosition(s)
    BY <1>6 DEF ExitRaisesAfterClose, Return
  <2>2. BooksTyped'
    BY <1>1, <1>2, <1>3, <1>5, <2>1 DEF Books, BooksTyped
  <2>3. (closes' - announced') + Missed' <= failures' + Owed(stack')
    <3>1. Missed' = Missed
      BY <1>1, <2>1 DEF Missed, MissedBy
    <3>2. Owed(stack') = 0 /\ closes' = closes + 1
      BY <1>1, <1>5, <2>1, TurnDelivered
    <3> QED
      BY <1>2, <1>3, <2>1, <3>1, <3>2
  <2> QED
    BY <1>1, <1>5, <2>1, <2>2, <2>3, TurnDelivered, TurnEnds
<1>7. CASE ExitCloses
  <2>1. /\ stack' = Pushed([type |-> "PositionClose", symbol |-> s])
        /\ announced' = announced + 1 /\ UNCHANGED failures /\ ClosePosition(s)
    BY <1>7 DEF ExitCloses, Publish, Pushed
  <2>2. BooksTyped'
    BY <1>1, <1>3, <1>5, <2>1 DEF Books, BooksTyped
  <2>3. /\ Len(stack') = 2 /\ Shaped(stack', bars) /\ Owed(stack') = 3
        /\ \A u : Due(stack', u) = Due(Delivered, u)
        /\ \A h : ~ Signalled(stack', h)
    BY <1>1, <2>1, ClosePublished
  <2>4. (closes' - announced') + Missed' <= failures' + Owed(stack')
    <3>1. Missed' = Missed + 3
      <4>1. announced \in Nat /\ \A h \in Recorders : records[h] \in Nat
        BY DEF Books, BooksTyped
      <4>2. announced' = announced + 1 /\ records' = records
        BY <1>1, <1>3, <2>1
      <4>3. \A h \in Recorders : MissedBy(h)' = MissedBy(h) + 1 /\ MissedBy(h) \in Int
        BY <4>1, <4>2 DEF MissedBy
      <4>4. {"historian", "panel_decision", "performance_journal"} \subseteq Recorders
        BY DEF Recorders
      <4> QED
        BY <4>3, <4>4 DEF Missed
    <3>2. closes' = closes + 1
      BY <1>5, <2>1
    <3> QED
      BY <1>2, <1>3, <2>1, <2>3, <3>1, <3>2
  <2>5. ~ (Len(stack') >= 3)
    BY <2>3
  <2> QED
    BY <1>1, <1>5, <2>1, <2>2, <2>3, <2>4, <2>5, TurnEnds
<1> QED
  BY <1>4, <1>6, <1>7

-----------------------------------------------------------------------------
(* EntryGroup, the recorders and what happens deeper down.                 *)

\* What EntryGroup knows when it hears a signal.
LEMMA AtEntry ==
    ASSUME Books, Delivering("entry", "GroupSignal")
    PROVE  /\ Event.symbol \in Symbols
           /\ SoundSymbol(Due(stack, Event.symbol), Event.symbol)
           /\ bars[Event.symbol] \in Nat /\ bars[Event.symbol] > 0
           /\ pending[Event.symbol] \in [Sources -> Nat]
           /\ patterns[Event.symbol] \in Nat /\ proposed[Event.symbol] \in Nat
           /\ failures \in Nat
           /\ Collected(Event.symbol) = [pending[Event.symbol] EXCEPT
                                            ![Event.group] = bars[Event.symbol]]
           /\ Event.group = "technical_structure" => bars[Event.symbol] >= StructureBars
           /\ Len(stack) = 2 /\ Owed(stack) = 0
           /\ Triggers(Event.symbol) <=> /\ Collected(Event.symbol)["indicators"] # 0
                                         /\ Collected(Event.symbol)["candlestick"] # 0
<1>1. /\ Event.symbol \in Symbols /\ Len(stack) = 2
  BY PairView DEF Delivering, Level
<1>2. /\ Event.bar = bars[Event.symbol] /\ Owed(stack) = 0
      /\ Event.group = "technical_structure" => bars[Event.symbol] >= StructureBars
  BY SignalView
<1>3. "exit" \in Due(stack, Event.symbol)
  BY EntryView
<1>4. /\ SoundSymbol(Due(stack, Event.symbol), Event.symbol)
      /\ bars[Event.symbol] \in Nat /\ pending[Event.symbol] \in [Sources -> Nat]
      /\ patterns[Event.symbol] \in Nat /\ proposed[Event.symbol] \in Nat
      /\ failures \in Nat
  BY <1>1 DEF Books, Walk, Typed, BooksTyped
<1>5. bars[Event.symbol] > 0
  BY <1>3, <1>4 DEF SoundSymbol, SoundDay
<1>6. ~ Evaluating(Event.symbol)
  <2>1. Walk
    BY DEF Books
  <2>2. \A i \in 1 .. Len(stack) : Level[stack[i].event.type] = Len(stack) + 1 - i
    BY <2>1, FramesOf
  <2>3. Level["CandidateTrade"] = 3 /\ DOMAIN stack = 1 .. Len(stack)
    BY <2>1, FramesOf DEF Level
  <2>4. \A i \in 1 .. Len(stack) : stack[i].event.type # "CandidateTrade"
    BY <1>1, <2>2, <2>3
  <2> QED
    BY <2>3, <2>4 DEF Evaluating
<1>7. Collected(Event.symbol) = [pending[Event.symbol] EXCEPT
                                    ![Event.group] = bars[Event.symbol]]
  BY <1>2 DEF Collected
<1> QED
  BY <1>1, <1>2, <1>4, <1>5, <1>6, <1>7 DEF Triggers

\* The books after EntryGroup has heard a signal, waiting or not.
LEMMA EntryStep ==
    ASSUME Books, Walk', Delivering("entry", "GroupSignal"),
           Shaped(stack', bars), \A u : Due(stack', u) = Due(Delivered, u),
           \A h : ~ Signalled(stack', h), Owed(stack') = 0,
           UNCHANGED <<inputVars, bookVars, records, failures>>,
           \A u \in Symbols \ {Event.symbol} :
               pending'[u] = pending[u] /\ proposed'[u] = proposed[u],
           \/ /\ ~ Triggers(Event.symbol)
              /\ pending'[Event.symbol] = Collected(Event.symbol)
              /\ UNCHANGED proposed
           \/ /\ Triggers(Event.symbol)
              /\ pending'[Event.symbol] = NoBundles
              /\ \/ UNCHANGED proposed
                 \/ proposed' = [proposed EXCEPT ![Event.symbol] = bars[Event.symbol]],
           Len(stack') >= 3 => SoundCandidate(Third(stack').event)
    PROVE  Books'
<1> DEFINE s == Event.symbol
           g == Event.group
           d == Due(stack, s)
           now == bars[s]
           p == pending[s]
           f == failures
           q == Collected(s)
           x == patterns[s]
           last == proposed[s]
<1>1. /\ s \in Symbols /\ now \in Nat /\ now > 0 /\ p \in [Sources -> Nat] /\ f \in Nat
      /\ x \in Nat /\ last \in Nat
      /\ SoundBundles(d, p, now, f) /\ SoundDay(d, now, f, x, last, p["indicators"])
      /\ SoundRegime(d, s) /\ SoundTrade(d, now, position[s], closed[s])
      /\ q = [p EXCEPT ![g] = now] /\ Heeds(q, p, g, now)
      /\ Triggers(s) <=> q["indicators"] # 0 /\ q["candlestick"] # 0
      /\ Owed(stack) = 0
  BY AtEntry DEF SoundSymbol, Heeds
<1>2. /\ g \in Sources /\ g \in d
      /\ g = "indicators" => "candlestick" \in d /\ "technical_structure" \in d
      /\ g = "candlestick" => "indicators" \notin d /\ "technical_structure" \in d
      /\ g = "technical_structure" =>
             /\ "indicators" \notin d /\ "candlestick" \notin d
             /\ now >= StructureBars
      /\ "exit" \in d /\ HasTurn(d, g, now)
  BY EntryView, AtEntry DEF HasTurn
<1>3. /\ Due(stack', s) = d \ {g}
      /\ \A u : u # s => Due(stack, u) = {} /\ Due(stack', u) = {}
  BY EntryView
<1>4. /\ bars'[s] = now /\ patterns'[s] = x /\ failures' = f
      /\ UNCHANGED <<bars, regime, patterns, position, closed, closes, announced, records,
                     failures>>
  BY DEF inputVars, bookVars
<1>5. BooksTyped'
  <2>1. proposed' \in [Symbols -> Nat]
    BY <1>1 DEF Books, BooksTyped
  <2> QED
    BY <1>4, <2>1 DEF Books, BooksTyped
<1>6. \/ /\ ~ (q["indicators"] # 0 /\ q["candlestick"] # 0)
         /\ pending'[s] = q /\ proposed'[s] = last
      \/ /\ q["indicators"] # 0 /\ q["candlestick"] # 0
         /\ pending'[s] = NoBundles /\ (proposed'[s] = last \/ proposed'[s] = now)
  BY <1>1 DEF Books, BooksTyped
<1>7. SoundBundles(d \ {g}, pending'[s], now, f)
  <2>1. CASE ~ (q["indicators"] # 0 /\ q["candlestick"] # 0) /\ pending'[s] = q
    <3>1. q["indicators"] = 0 \/ q["candlestick"] = 0
      BY <2>1
    <3> HIDE DEF s, g, d, now, p, f, q
    <3>2. SoundBundles(d \ {g}, q, now, f)
      BY <1>1, <1>2, <3>1, BundlesAfterWait
    <3> QED
      BY <2>1, <3>2
  <2>2. CASE q["indicators"] # 0 /\ q["candlestick"] # 0 /\ pending'[s] = NoBundles
    <3> HIDE DEF s, g, d, now, p, f, q
    <3>1. SoundBundles(d \ {g}, NoBundles, now, f)
      BY <1>1, <1>2, <2>2, BundlesAfterEvaluation
    <3> QED
      BY <2>2, <3>1
  <2> QED
    BY <1>6, <2>1, <2>2
<1>8. q["indicators"] # 0 /\ q["candlestick"] # 0 => g # "technical_structure"
  <2> HIDE DEF s, g, d, now, p, f, q
  <2> QED
    BY <1>1, <1>2, BundlesAfterEvaluation
<1> HIDE DEF s, g, d, now, p, f, q, x, last
<1>9. /\ ("indicators" \notin d \/ g = "indicators") => "indicators" \notin d \ {g}
      /\ Passed(d \ {g}, "chart_pattern", now) = Passed(d, "chart_pattern", now)
      /\ d # {} /\ NoBundles["indicators"] = 0
      /\ "exit" \in d \ {g} <=> "exit" \in d
  BY <1>2 DEF Passed, Sources, NoBundles
<1>10. /\ last <= now /\ x + f >= Passed(d, "chart_pattern", now)
       /\ last = now => "indicators" \notin d /\ p["indicators"] = 0
  BY <1>9, <1>1 DEF SoundDay
<1>11. SoundDay(d \ {g}, now, f, x, proposed'[s], pending'[s]["indicators"])
  <2>1. CASE pending'[s] = q /\ proposed'[s] = last
    <3>1. last = now => q["indicators"] = 0
      <4>1. last = now => g # "indicators"
        BY <1>2, <1>10
      <4> QED
        BY <1>1, <1>2, <1>10, <4>1 DEF Sources
    <3> QED
      BY <1>1, <1>9, <1>10, <2>1, <3>1 DEF SoundDay
  <2>2. CASE /\ q["indicators"] # 0 /\ q["candlestick"] # 0 /\ pending'[s] = NoBundles
             /\ (proposed'[s] = last \/ proposed'[s] = now)
    <3>1. "indicators" \notin d \ {g}
      BY <1>2, <1>8, <1>9, <2>2 DEF Sources
    <3> QED
      BY <1>1, <1>9, <1>10, <2>2, <3>1 DEF SoundDay
  <2> QED
    BY <1>6, <2>1, <2>2
<1>12. Due(stack', s) # {} /\ "indicators" \notin Due(stack', s) =>
         \/ regime' = [symbol |-> s, bar |-> now]
         \/ f > 0 /\ (pending'[s]["indicators"] # 0 => f > 1)
  <2>1. CASE g = "indicators"
    <3>1. \A h : Signalled(stack, h) <=> h = g
      BY SignalView DEF g
    <3>2. regime = OwnRegime(Bottom(stack).event.symbol)
      BY <2>1, <3>1 DEF Books
    <3>3. Bottom(stack).event.symbol = s
      BY PairView DEF Delivering, Level, s
    <3> QED
      BY <1>4, <3>2, <3>3 DEF OwnRegime, now
  <2>2. CASE g # "indicators"
    <3>1. "indicators" \in d => "indicators" \in d \ {g}
      BY <2>2
    <3>2. d # {} /\ "indicators" \notin d =>
             \/ regime = [symbol |-> s, bar |-> now]
             \/ f > 0 /\ (p["indicators"] # 0 => f > 1)
      BY <1>1 DEF SoundRegime, OwnRegime, now, p, f
    <3>3. pending'[s]["indicators"] # 0 => p["indicators"] # 0
      <4>1. CASE pending'[s] = NoBundles
        BY <1>9, <4>1
      <4>2. CASE pending'[s] = q
        BY <1>1, <1>2, <2>2, <4>2 DEF Sources
      <4> QED
        BY <1>6, <4>1, <4>2
    <3> QED
      BY <1>3, <1>4, <1>9, <3>1, <3>2, <3>3
  <2> QED
    BY <2>1, <2>2
<1>13. SoundTrade(d \ {g}, now, position'[s], closed'[s])
  <2>1. position'[s] = position[s] /\ closed'[s] = closed[s]
    BY <1>4
  <2> QED
    BY <1>1, <1>9, <2>1 DEF SoundTrade
<1>14. SoundNext(s)
  BY <1>3, <1>4, <1>7, <1>11, <1>12, <1>13 DEF SoundNext
<1>15. (closes' - announced') + Missed' <= failures' + Owed(stack')
  <2>1. Missed' = Missed
    BY <1>4 DEF Missed, MissedBy
  <2>2. (closes - announced) + Missed <= failures + Owed(stack)
    BY DEF Books
  <2> QED
    BY <1>1, <1>4, <2>1, <2>2
<1>16. \A u \in Symbols \ {s} :
           /\ Due(stack, u) = {} /\ Due(stack', u) = {}
           /\ bars'[u] = bars[u] /\ pending'[u] = pending[u]
           /\ patterns'[u] = patterns[u] /\ proposed'[u] = proposed[u]
           /\ position'[u] = position[u] /\ closed'[u] = closed[u]
  BY <1>3, <1>4 DEF s
<1>17. failures' >= failures /\ Shaped(stack', bars') /\ ~ Signalled(stack', "indicators")
  BY <1>1, <1>4 DEF f
<1> QED
  BY <1>1, <1>4, <1>5, <1>14, <1>15, <1>16, <1>17, StepOfOne

LEMMA EntryDoesNotPropose ==
    ASSUME Books, Walk', EntryWaits \/ EntryDeclines
    PROVE  Books'
<1>1. /\ Delivering("entry", "GroupSignal") /\ stack' = Delivered
      /\ UNCHANGED <<inputVars, bookVars, records, failures, proposed>>
      /\ \/ /\ ~ Triggers(Event.symbol)
            /\ pending' = [pending EXCEPT ![Event.symbol] = Collected(Event.symbol)]
         \/ /\ Triggers(Event.symbol)
            /\ pending' = [pending EXCEPT ![Event.symbol] = NoBundles]
  BY DEF EntryWaits, EntryDeclines, AfterEvaluation, Return
<1>2. Event.symbol \in Symbols
  BY <1>1, AtEntry
<1>3. /\ \A u \in Symbols \ {Event.symbol} : pending'[u] = pending[u]
      /\ \/ ~ Triggers(Event.symbol) /\ pending'[Event.symbol] = Collected(Event.symbol)
         \/ Triggers(Event.symbol) /\ pending'[Event.symbol] = NoBundles
  BY <1>1, <1>2 DEF Books, Walk, Typed
<1>4. /\ Shaped(stack', bars) /\ Owed(stack') = 0
      /\ \A u : Due(stack', u) = Due(Delivered, u)
      /\ \A h : ~ Signalled(stack', h)
  BY <1>1, SignalView, EntryView
<1>5. ~ (Len(stack') >= 3)
  <2>1. Len(stack') = 2
    BY <1>1, PairView DEF Delivering, Level
  <2> QED
    BY <2>1
<1> QED
  BY <1>1, <1>3, <1>4, <1>5, EntryStep

LEMMA ProposalKeeps ==
    ASSUME Books, Walk', EntryProposes
    PROVE  Books'
<1> DEFINE s == Event.symbol
           e == [type |-> "CandidateTrade", symbol |-> s, bundles |-> Collected(s)]
           d == Due(stack, s)
           now == bars[s]
           p == pending[s]
           f == failures
           q == Collected(s)
           g == Event.group
<1>1. /\ Delivering("entry", "GroupSignal") /\ stack' = <<Frame(e)>> \o Delivered
      /\ UNCHANGED <<inputVars, bookVars, records, failures>>
      /\ Triggers(s)
      /\ pending' = [pending EXCEPT ![s] = NoBundles]
      /\ proposed' = [proposed EXCEPT ![s] = bars[s]]
  BY DEF EntryProposes, AfterEvaluation, Publish, Now
<1>2. /\ s \in Symbols /\ now \in Nat /\ now > 0 /\ p \in [Sources -> Nat] /\ f \in Nat
      /\ patterns[s] \in Nat
      /\ SoundSymbol(d, s)
      /\ q = [p EXCEPT ![g] = now] /\ Heeds(q, p, g, now)
      /\ q["indicators"] # 0 /\ q["candlestick"] # 0
      /\ Len(stack) = 2
  BY <1>1, AtEntry DEF Heeds
<1>3. /\ g \in Sources /\ HasTurn(d, g, now) /\ "chart_pattern" \notin d
      /\ \A h : ~ Signalled(Delivered, h)
      /\ d # {}
  BY <1>1, EntryView, AtEntry DEF HasTurn
<1>4. \A u \in Symbols \ {s} : pending'[u] = pending[u] /\ proposed'[u] = proposed[u]
  BY <1>1, <1>2 DEF Books, Walk, Typed, BooksTyped
<1>5. pending'[s] = NoBundles
  BY <1>1, <1>2 DEF Books, Walk, Typed
<1>6. e \in WalkEvents /\ e.symbol = s /\ e.bundles = q
  <2>1. Collected(s) \in [Sources -> Nat]
    BY <1>1, CollectedTyped DEF Books
  <2> QED
    BY <1>2, <2>1 DEF WalkEvents, EventsStamped
<1>7. /\ Delivered \in Seq(WalkFrames) /\ Len(Delivered) = 2 /\ Delivered # <<>>
      /\ OneSymbol(Delivered) /\ Bottom(Delivered) = Bottom(stack)
      /\ Bottom(stack).event.symbol = s
      /\ Second(Delivered).event.type = "GroupSignal" /\ Len(Second(Delivered).todo) = 1
      /\ Shaped(Delivered, bars)
  <2>1. /\ stack # <<>> /\ Head(stack).todo # <<>> /\ Level[Event.type] = 2
        /\ Event.type = "GroupSignal" /\ Reached = "entry"
    BY <1>1 DEF Delivering, Level
  <2>2. Delivered \in Seq(WalkFrames)
    BY <2>1, ViewOfDelivered DEF Books
  <2>3. Len(Second(Delivered).todo) = 1
    <3> DEFINE todo == Second(stack).todo
    <3>1. /\ todo \in Seq(Groups) /\ todo # <<>> /\ Head(todo) = "entry"
          /\ Second(Delivered).todo = Tail(todo)
      BY <2>1, PairView DEF Reached
    <3>2. IsRest(todo, Subscribers["GroupSignal"])
      BY <1>2, <2>1, PairView DEF Books, Shaped
    <3> HIDE DEF todo
    <3>3. Len(todo) = 2 /\ Len(Tail(todo)) = Len(todo) - 1
      BY <3>1, <3>2, WhoHearsSignal
    <3> QED
      BY <3>1, <3>3
  <2> QED
    BY <1>1, <2>1, <2>2, <2>3, PairView, SignalView
<1>8. /\ Recent(q, now, f)
      /\ "indicators" \notin d => g = "candlestick" /\ p["indicators"] # 0
  <2>1. SoundBundles(d, p, now, f)
    BY <1>2 DEF SoundSymbol
  <2> HIDE DEF s, g, d, now, p, f, q
  <2> QED
    BY <1>2, <1>3, <2>1, BundlesAfterEvaluation
<1>9. SoundCandidate(e)
  <2>1. patterns[s] + f >= now
    BY <1>2, <1>3 DEF SoundSymbol, SoundDay, Passed
  <2>2. f <= 1 => regime = OwnRegime(s)
    <3>1. CASE "indicators" \in d
      <4>1. g = "indicators"
        <5>1. g = "candlestick" => "indicators" \notin d
          BY <1>3 DEF HasTurn
        <5>2. g = "technical_structure" => "indicators" \notin d
          BY <1>3 DEF HasTurn
        <5> QED
          BY <1>3, <3>1, <5>1, <5>2 DEF Sources
      <4>2. \A h : Signalled(stack, h) <=> h = g
        BY <1>1, SignalView
      <4> QED
        BY <1>7, <4>1, <4>2 DEF Books
    <3>2. CASE "indicators" \notin d
      <4>1. p["indicators"] # 0
        BY <1>8, <3>2
      <4>2. regime = OwnRegime(s) \/ (f > 0 /\ (p["indicators"] # 0 => f > 1))
        BY <1>2, <1>3, <3>2 DEF SoundSymbol, SoundRegime
      <4> QED
        BY <1>2, <4>1, <4>2
    <3> QED
      BY <3>1, <3>2
  <2> HIDE DEF e, s
  <2> QED
    BY <1>6, <1>8, <2>1, <2>2 DEF SoundCandidate
<1> HIDE DEF e
<1>10. /\ Len(stack') = 3 /\ stack' # <<>> /\ OneSymbol(stack')
       /\ Bottom(stack') = Bottom(Delivered) /\ Second(stack') = Second(Delivered)
       /\ Third(stack').event = e
  <2> DEFINE st == stack'
             D == Delivered
  <2>1. /\ D \in Seq(WalkFrames) /\ D # <<>> /\ Len(D) >= 2 /\ OneSymbol(D)
        /\ e \in WalkEvents /\ e.symbol = Bottom(D).event.symbol
        /\ st = <<Frame(e)>> \o D
    BY <1>1, <1>6, <1>7
  <2> HIDE DEF st, D
  <2>2. /\ Len(st) = Len(D) + 1 /\ st # <<>>
        /\ Bottom(st) = Bottom(D) /\ Second(st) = Second(D)
        /\ Len(D) = 2 => Third(st).event = e
        /\ OneSymbol(st)
    BY <2>1, PushedAbove
  <2>3. Len(D) = 2
    BY <1>7 DEF D
  <2> QED
    BY <2>2, <2>3 DEF st, D
<1>11. /\ \A u : Due(stack', u) = Due(Delivered, u)
       /\ Owed(stack') = Owed(Delivered)
       /\ \A h : Signalled(stack', h) <=> Signalled(Delivered, h)
  <2>1. Len(stack') >= 2 /\ Len(Delivered) >= 2
    BY <1>7, <1>10
  <2> QED
    BY <1>7, <1>10, <2>1, SameBase
<1>12. Shaped(stack', bars)
  <2>1. Len(Delivered) >= 2
    BY <1>7
  <2> QED
    BY <1>7, <1>10, <2>1 DEF Shaped
<1>13. Owed(stack') = 0
  BY <1>1, <1>11, SignalView
<1>14. SoundCandidate(Third(stack').event)
  BY <1>9, <1>10
<1> QED
  BY <1>1, <1>3, <1>4, <1>5, <1>11, <1>12, <1>13, <1>14, EntryStep

\* A recorder hears of the close, or raises.
LEMMA RecordersKeep ==
    ASSUME Books, Walk', NEW g \in Recorders, Delivering(g, "PositionClose"),
           stack' = Delivered, UNCHANGED <<inputVars, pending, proposed, bookVars>>,
           \/ records' = Recorded(g) /\ UNCHANGED failures
           \/ UNCHANGED records /\ failures' = failures + 1
    PROVE  Books'
<1>1. /\ Shaped(stack', bars) /\ \A u : Due(stack', u) = Due(stack, u)
      /\ \A h : ~ Signalled(stack', h)
      /\ Owed(stack) \in Nat /\ Owed(stack') = Owed(stack) - 1 /\ Len(stack') = 2
  BY CloseView
<1>2. /\ UNCHANGED <<bars, regime, patterns, position, closed, closes, announced>>
      /\ failures \in Nat /\ closes \in Nat /\ announced \in Nat
      /\ records \in [Recorders -> Nat]
  BY DEF inputVars, bookVars, Books, BooksTyped
<1>3. failures' >= failures /\ failures' \in Nat /\ records' \in [Recorders -> Nat]
  BY <1>2 DEF Recorded
<1>4. BooksTyped'
  BY <1>2, <1>3 DEF Books, BooksTyped
<1>5. \A u \in Symbols : SoundNext(u)
  <2> SUFFICES ASSUME NEW u \in Symbols PROVE SoundNext(u)
    OBVIOUS
  <2>1. SoundTrade(Due(stack, u), bars[u], position'[u], closed[u])
    BY <1>2 DEF Books, SoundSymbol
  <2>2. /\ bars'[u] = bars[u] /\ pending'[u] = pending[u]
        /\ patterns'[u] = patterns[u] /\ proposed'[u] = proposed[u]
        /\ closed'[u] = closed[u] /\ regime' = regime /\ Due(stack', u) = Due(stack, u)
    BY <1>1, <1>2
  <2> QED
    BY <1>3, <1>4, <2>1, <2>2, SymbolKeeps
<1>6. (closes' - announced') + Missed' <= failures' + Owed(stack')
  <2>1. (closes - announced) + Missed <= failures + Owed(stack) /\ Missed \in Int
    BY DEF Books, Missed, MissedBy, BooksTyped, Recorders
  <2>2. CASE records' = Recorded(g) /\ UNCHANGED failures
    <3>1. Missed' = Missed - 1
      BY <1>2, <2>2 DEF Missed, MissedBy, Recorded, Recorders
    <3> QED
      BY <1>1, <1>2, <2>1, <2>2, <3>1
  <2>3. CASE UNCHANGED records /\ failures' = failures + 1
    <3>1. Missed' = Missed
      BY <1>2, <2>3 DEF Missed, MissedBy
    <3> QED
      BY <1>1, <1>2, <2>1, <2>3, <3>1
  <2> QED
    BY <2>2, <2>3
<1>7. Shaped(stack', bars') /\ ~ (Len(stack') >= 3)
  <2>1. ~ (Len(stack') >= 3)
    BY <1>1
  <2> QED
    BY <1>1, <1>2, <2>1
<1> QED
  BY <1>1, <1>4, <1>5, <1>6, <1>7, BooksNext

\* The next bar of a symbol.
LEMMA NewBarKeeps ==
    ASSUME Books, Walk', NEW s \in Symbols, NewBar(s)
    PROVE  Books'
<1> DEFINE e == [type |-> "FeatureReady", symbol |-> s]
           f == Frame(e)
           st == <<Frame(e)>>
<1>1. /\ stack = <<>> /\ stack' = st /\ bars' = [bars EXCEPT ![s] = bars[s] + 1]
      /\ UNCHANGED <<regime, patterns, pending, proposed, position, closed, closes,
                     announced, records, failures>>
  BY DEF NewBar, bookVars
<1>2. f.event = e /\ f.todo = BarReaders /\ e.symbol = s
  <2>1. Subscribers["FeatureReady"] = BarReaders
    BY DEF Subscribers
  <2> QED
    BY <2>1 DEF Frame
<1>3. Len(st) = 1 /\ st[1] = f /\ st # <<>>
  <2> HIDE DEF f
  <2>1. Len(<<f>>) = 1 /\ <<f>>[1] = f /\ <<f>> # <<>>
    OBVIOUS
  <2> QED
    BY <2>1 DEF f
<1> HIDE DEF st, f, e
<1>4. Bottom(st) = f /\ \A h : ~ Signalled(st, h)
  BY <1>3 DEF Bottom, Signalled
<1>5. Len(BarReaders) = 6 /\ IsRest(BarReaders, BarReaders)
  <2>1. Len(BarReaders) = 6
    BY DEF BarReaders
  <2>2. \A i \in 1 .. 6 : BarReaders[i] = BarReaders[6 - 6 + i]
    OBVIOUS
  <2> QED
    BY <2>1, <2>2 DEF IsRest
<1>6. /\ Due(st, s) = BarGroups
      /\ \A u : u # s => Due(st, u) = {}
  <2>1. \A h \in BarGroups : 6 >= Turn[h]
    BY DEF Turn, BarGroups
  <2> QED
    BY <1>2, <1>3, <1>4, <1>5, <2>1 DEF Due
<1>7. \A u : Due(stack, u) = {}
  BY <1>1, AtRest
<1>8. Shaped(st, bars') /\ Owed(st) = 0
  <2>1. OneSymbol(st)
    <3>1. \A i \in 1 .. Len(st) : i = 1
      BY <1>3
    <3> QED
      BY <1>3, <1>4, <3>1 DEF OneSymbol
  <2>2. ~ (Len(st) >= 2) /\ ~ (Len(st) >= 3)
    BY <1>3
  <2> QED
    BY <1>2, <1>4, <1>5, <2>1, <2>2 DEF Shaped, Owed
<1>9. /\ bars[s] \in Nat /\ bars'[s] = bars[s] + 1
      /\ \A u \in Symbols \ {s} : bars'[u] = bars[u]
      /\ pending[s] \in [Sources -> Nat] /\ failures \in Nat
      /\ patterns[s] \in Nat /\ proposed[s] \in Nat /\ closed[s] \in Nat
      /\ position[s].opened \in Nat
      /\ SoundSymbol({}, s)
  BY <1>1, <1>7 DEF Books, Walk, Typed, BooksTyped
<1>10. SoundNext(s)
  <2>1. Due(stack', s) = BarGroups /\ BarGroups # {} /\ "indicators" \in BarGroups
        /\ "exit" \in BarGroups /\ "chart_pattern" \in BarGroups
    BY <1>1, <1>6 DEF BarGroups
  <2> DEFINE p == pending[s]
             now == bars[s]
             k == failures
  <2>2. SoundBundles({}, p, now, k) /\ p \in [Sources -> Nat] /\ now \in Nat /\ k \in Nat
    BY <1>9 DEF SoundSymbol
  <2> HIDE DEF p, now, k
  <2>3. SoundBundles(BarGroups, p, now + 1, k)
    BY <2>2, BundlesAtNewBar
  <2>4. SoundBundles(BarGroups, pending'[s], bars'[s], failures')
    BY <1>1, <1>9, <2>3 DEF p, now, k
  <2>5. SoundDay(BarGroups, bars'[s], failures', patterns'[s], proposed'[s],
                 pending'[s]["indicators"])
    <3>1. patterns[s] + failures >= bars[s] /\ proposed[s] <= bars[s]
      BY <1>9 DEF SoundSymbol, SoundDay, Passed
    <3> QED
      BY <1>1, <1>9, <2>1, <3>1 DEF SoundDay, Passed
  <2>6. SoundTrade(BarGroups, bars'[s], position'[s], closed'[s])
    <3>1. position[s].opened <= bars[s] /\ closed[s] <= bars[s]
      BY <1>9 DEF SoundSymbol, SoundTrade
    <3>2. position'[s] = position[s] /\ closed'[s] = closed[s]
      BY <1>1
    <3> QED
      BY <1>9, <3>1, <3>2 DEF SoundTrade
  <2> QED
    BY <2>1, <2>4, <2>5, <2>6 DEF SoundNext
<1>11. BooksTyped'
  BY <1>1 DEF Books, BooksTyped
<1>12. (closes' - announced') + Missed' <= failures' + Owed(stack')
  <2>1. Missed' = Missed
    BY <1>1 DEF Missed, MissedBy
  <2>2. Owed(stack) = 0
    BY <1>1, AtRest
  <2> QED
    BY <1>1, <1>8, <2>1, <2>2 DEF Books
<1>13. ~ (Len(stack') >= 3) /\ ~ Signalled(stack', "indicators")
  BY <1>1, <1>3, <1>4
<1>14. /\ \A u \in Symbols \ {s} :
              /\ Due(stack, u) = {} /\ Due(stack', u) = {}
              /\ bars'[u] = bars[u] /\ pending'[u] = pending[u]
              /\ patterns'[u] = patterns[u] /\ proposed'[u] = proposed[u]
              /\ position'[u] = position[u] /\ closed'[u] = closed[u]
       /\ failures' >= failures /\ Shaped(stack', bars')
  BY <1>1, <1>6, <1>7, <1>8, <1>9
<1> QED
  BY <1>10, <1>11, <1>12, <1>13, <1>14, StepOfOne

-----------------------------------------------------------------------------
(* Steps that only move the walk.                                          *)

Quiet == UNCHANGED <<inputVars, pending, proposed, closed, closes, announced, records,
                     failures>>

\* The depth is the level of the event under way.
LEMMA Depth ==
    ASSUME Books, stack # <<>>, NEW t, Event.type = t
    PROVE  Len(stack) = Level[t]
  BY FramesOf DEF Books

\* Below the second frame a step moves nothing the books look at.
LEMMA DeepStep ==
    ASSUME Books, Walk', Quiet, Len(stack) >= 3,
           stack' # <<>>, Len(stack') >= 2,
           Bottom(stack') = Bottom(stack), Second(stack') = Second(stack),
           OneSymbol(stack'),
           Len(stack') >= 3 => Third(stack').event = Third(stack).event,
           \A u \in Symbols : SoundTrade(Due(stack, u), bars[u], position'[u], closed[u])
    PROVE  Books'
<1>1. /\ Shaped(stack', bars)
      /\ \A u : Due(stack', u) = Due(stack, u)
      /\ Owed(stack') = Owed(stack)
      /\ \A h : Signalled(stack', h) <=> Signalled(stack, h)
  BY DeepKeeps
<1>2. Len(stack') >= 3 => SoundCandidate(Third(stack').event)
  BY DEF Books
<1> QED
  BY <1>1, <1>2, QuietStep DEF Quiet

\* A subscriber down there hears the event and publishes nothing.
LEMMA DeepReturn ==
    ASSUME Books, Walk', Quiet, UNCHANGED position, Len(stack) >= 3,
           Head(stack).todo # <<>>, stack' = Delivered
    PROVE  Books'
<1>1. /\ Len(Delivered) = Len(stack) /\ Delivered # <<>>
      /\ Bottom(Delivered) = Bottom(stack) /\ Second(Delivered) = Second(stack)
      /\ Third(Delivered).event = Third(stack).event
      /\ OneSymbol(Delivered)
  BY DeepDelivers
<1>2. Len(stack') >= 2
  <2>1. Len(stack) \in Nat
    BY FramesOf DEF Books
  <2> QED
    BY <1>1, <2>1
<1> QED
  BY <1>1, <1>2, TradesKeep, DeepStep

\* A subscriber down there publishes in its turn.
LEMMA DeepPublish ==
    ASSUME Books, Walk', Quiet, UNCHANGED position, Len(stack) >= 3,
           Head(stack).todo # <<>>, NEW e \in WalkEvents, e.symbol = Event.symbol,
           stack' = Pushed(e)
    PROVE  Books'
<1> DEFINE D == Delivered
<1>1. /\ Len(D) = Len(stack) /\ D # <<>> /\ D \in Seq(WalkFrames)
      /\ Bottom(D) = Bottom(stack) /\ Second(D) = Second(stack)
      /\ Third(D).event = Third(stack).event
      /\ OneSymbol(D) /\ e.symbol = Bottom(D).event.symbol
  BY DeepDelivers
<1>2. stack' = <<Frame(e)>> \o D
  BY DEF Pushed
<1> HIDE DEF D
<1>3. Len(stack) \in Nat /\ Len(D) >= 2 /\ Len(D) >= 3
  <2>1. Len(stack) \in Nat
    BY FramesOf DEF Books
  <2> QED
    BY <1>1, <2>1
<1>4. /\ Len(stack') = Len(D) + 1 /\ stack' # <<>>
      /\ Bottom(stack') = Bottom(D) /\ Second(stack') = Second(D)
      /\ Third(stack') = Third(D)
      /\ OneSymbol(stack')
  BY <1>1, <1>2, <1>3, PushedAbove
<1>5. Len(stack') >= 2
  BY <1>1, <1>3, <1>4
<1>6. \A u \in Symbols : SoundTrade(Due(stack, u), bars[u], position'[u], closed[u])
  BY TradesKeep
<1> QED
  BY <1>1, <1>4, <1>5, <1>6, DeepStep

\* publish() returns.
LEMMA ReturnsKeep ==
    ASSUME Books, Walk', PublishReturns
    PROVE  Books'
<1>1. /\ stack # <<>> /\ Head(stack).todo = <<>> /\ stack' = Tail(stack)
      /\ Quiet /\ UNCHANGED position
  BY DEF PublishReturns, Quiet, bookVars
<1>2. Len(stack) \in Nat /\ Len(stack) >= 1
  BY <1>1, FramesOf DEF Books
<1>3. \A u \in Symbols : SoundTrade(Due(stack, u), bars[u], position'[u], closed[u])
  BY <1>1, TradesKeep
<1>4. CASE Len(stack) = 1
  <2>1. /\ stack' = <<>> /\ \A u : Due(stack, u) = {}
        /\ Owed(stack) = 0
    BY <1>1, <1>4, BarReturns
  <2>2. /\ Shaped(stack', bars) /\ Owed(stack') = 0
        /\ \A u : Due(stack', u) = {}
        /\ \A h : ~ Signalled(stack', h)
    BY <2>1, AtRest
  <2>3. ~ (Len(stack') >= 3)
    <3>1. Len(<<>>) = 0
      OBVIOUS
    <3> QED
      BY <2>1, <3>1
  <2> QED
    BY <1>1, <1>3, <2>1, <2>2, <2>3, QuietStep DEF Quiet
<1>5. CASE Len(stack) = 2
  <2>1. /\ Shaped(stack', bars)
        /\ \A u : Due(stack', u) = Due(stack, u)
        /\ \A h : ~ Signalled(stack', h)
        /\ Owed(stack) = 0 /\ Owed(stack') = 0
        /\ Len(stack') = 1
    BY <1>1, <1>5, PairReturns
  <2>2. ~ (Len(stack') >= 3)
    BY <2>1
  <2> QED
    BY <1>1, <1>3, <2>1, <2>2, QuietStep DEF Quiet
<1>6. CASE Len(stack) >= 3
  <2>1. /\ Len(stack') = Len(stack) - 1 /\ stack' # <<>>
        /\ Bottom(stack') = Bottom(stack) /\ Second(stack') = Second(stack)
        /\ Len(stack) >= 4 => Third(stack') = Third(stack)
        /\ OneSymbol(stack')
    BY <1>1, <1>6, DeepReturns
  <2>2. Len(stack') >= 2 /\ (Len(stack') >= 3 => Len(stack) >= 4)
    BY <1>2, <1>6, <2>1
  <2>3. Len(stack') >= 3 => Third(stack').event = Third(stack).event
    BY <2>1, <2>2
  <2> QED
    BY <1>1, <1>3, <1>6, <2>1, <2>2, <2>3, DeepStep
<1>7. Len(stack) = 1 \/ Len(stack) = 2 \/ Len(stack) >= 3
  <2> DEFINE n == Len(stack)
  <2>1. n \in Nat /\ n >= 1
    BY <1>2
  <2> HIDE DEF n
  <2>2. n = 1 \/ n = 2 \/ n >= 3
    BY <2>1
  <2> QED
    BY <2>2 DEF n
<1> QED
  BY <1>4, <1>5, <1>6, <1>7

\* The journal writes a row, or the candlesticks keep the structure.
LEMMA ListenersKeep ==
    ASSUME Books, Walk', JournalLogs \/ CandlestickCachesStructure
    PROVE  Books'
<1>1. PICK g \in {"performance_journal", "candlestick"} :
          \E t \in Types \ {"PositionClose"} :
              /\ Delivering(g, t)
              /\ g = "candlestick" => t = "GroupSignal"
  <2>1. DOMAIN Subscribers \ {"PositionClose"} \subseteq Types \ {"PositionClose"}
    BY DEF Subscribers, Types
  <2>2. "GroupSignal" \in Types \ {"PositionClose"}
    BY DEF Types
  <2> QED
    BY <2>1, <2>2 DEF JournalLogs, CandlestickCachesStructure
<1>2. PICK t \in Types \ {"PositionClose"} :
          Delivering(g, t) /\ (g = "candlestick" => t = "GroupSignal")
  BY <1>1
<1>3. /\ stack' = Delivered /\ Quiet /\ UNCHANGED position
      /\ stack # <<>> /\ Head(stack).todo # <<>> /\ Event.type = t
  BY <1>2 DEF JournalLogs, CandlestickCachesStructure, AfterSignal, Return, Quiet, bookVars,
              Delivering
<1>4. \A u \in Symbols : SoundTrade(Due(stack, u), bars[u], position'[u], closed[u])
  BY <1>3, TradesKeep
<1>5. CASE t = "FeatureReady"
  <2>1. Delivering("performance_journal", "FeatureReady")
    BY <1>2, <1>5
  <2>2. /\ Shaped(Delivered, bars)
        /\ Due(Delivered, Event.symbol) = Due(stack, Event.symbol) \ {"performance_journal"}
        /\ \A u : u # Event.symbol => Due(stack, u) = {} /\ Due(Delivered, u) = {}
        /\ Owed(Delivered) = 0 /\ Owed(stack) = 0
        /\ \A h : ~ Signalled(Delivered, h)
    BY <2>1, BarDelivered
  <2>3. "performance_journal" \notin Due(stack, Event.symbol)
    BY DEF Due, BarGroups
  <2>4. \A u : Due(Delivered, u) = Due(stack, u)
    BY <2>2, <2>3
  <2>5. ~ (Len(Delivered) >= 3)
    <3>1. Len(Delivered) = 1
      BY <2>1, BarView
    <3> QED
      BY <3>1
  <2> QED
    BY <1>3, <1>4, <2>2, <2>4, <2>5, QuietStep DEF Quiet
<1>6. CASE t = "GroupSignal"
  <2>1. Delivering(g, "GroupSignal")
    BY <1>2, <1>6
  <2>2. /\ \A u : Due(Delivered, u) = Due(stack, u)
        /\ \A h : Signalled(Delivered, h) <=> Signalled(stack, h)
    BY <2>1, SignalPasses
  <2>3. Shaped(Delivered, bars) /\ Owed(Delivered) = 0 /\ Owed(stack) = 0
    BY <2>1, SignalView
  <2>4. Level[Event.type] = 2
    BY <1>3, <1>6 DEF Level
  <2>5. Len(Delivered) = 2 /\ Bottom(Delivered) = Bottom(stack)
    BY <1>3, <2>4, PairView
  <2>6. ~ (Len(Delivered) >= 3)
    BY <2>5
  <2> QED
    BY <1>3, <1>4, <2>2, <2>3, <2>5, <2>6, QuietStep DEF Quiet
<1>7. CASE t \notin {"FeatureReady", "GroupSignal"}
  <2>1. Level[t] >= 3
    BY <1>7 DEF Level, Types
  <2>2. Len(stack) >= 3
    BY <1>3, <2>1, Depth
  <2> QED
    BY <1>3, <2>2, DeepReturn
<1> QED
  BY <1>5, <1>6, <1>7

\* The panel and the risk gate: they hold, approve, ignore and decide.
LEMMA GatesKeep ==
    ASSUME Books, Walk',
           \/ PanelHolds \/ PanelApproves \/ RiskIgnores
           \/ \E approved \in BOOLEAN : RiskDecides(approved)
    PROVE  Books'
<1>1. PICK t \in {"CandidateTrade", "PanelApproved"} :
          \E g : Delivering(g, t)
  BY DEF PanelHolds, PanelApproves, RiskIgnores, RiskDecides
<1>2. /\ Quiet /\ UNCHANGED position
      /\ stack # <<>> /\ Head(stack).todo # <<>> /\ Event.type = t
  BY <1>1 DEF PanelHolds, PanelApproves, RiskIgnores, RiskDecides, Quiet, bookVars, Delivering
<1>3. Len(stack) >= 3
  <2>1. Level[t] >= 3
    BY DEF Level
  <2> QED
    BY <1>2, <2>1, Depth
<1>4. CASE PanelHolds \/ RiskIgnores
  <2>1. stack' = Delivered
    BY <1>4 DEF PanelHolds, RiskIgnores, Return
  <2> QED
    BY <1>2, <1>3, <2>1, DeepReturn
<1>5. Event \in WalkEvents /\ Event.symbol \in Symbols /\ Now \in Nat
  BY <1>2, Heard DEF Books
<1>6. CASE PanelApproves
  <2> DEFINE e == [type |-> "PanelApproved", symbol |-> Event.symbol, panel |-> Now]
  <2>1. stack' = Pushed(e)
    BY <1>6 DEF PanelApproves, Publish, Pushed
  <2>2. e \in WalkEvents /\ e.symbol = Event.symbol
    BY <1>5 DEF WalkEvents, EventsStamped
  <2> HIDE DEF e
  <2> QED
    BY <1>2, <1>3, <2>1, <2>2, DeepPublish
<1>7. ASSUME NEW a \in BOOLEAN, RiskDecides(a) PROVE Books'
  <2>1. stack' = Pushed(RiskDecision(a)) /\ RiskEvaluates(Event)
    BY <1>7 DEF RiskDecides, Publish, Pushed
  <2>2. RiskDecision(a) \in WalkEvents /\ RiskDecision(a).symbol = Event.symbol
    <3>1. RiskDecision(a).symbol = Event.symbol
      BY DEF RiskDecision
    <3> QED
      BY <1>2, <2>1, <3>1, DecisionTyped DEF Books
  <2> QED
    BY <1>2, <1>3, <2>1, <2>2, DeepPublish
<1> QED
  BY <1>4, <1>6, <1>7

\* The risk gate opens the position it approved: not held yet, whatever its bar.
LEMMA OpeningKeeps ==
    ASSUME Books, Walk', RiskOpensPosition
    PROVE  Books'
<1> DEFINE s == Event.symbol
           e == [type |-> "PositionOpen", symbol |-> s]
           r == [opened |-> Now, panel |-> Event.panel, held |-> FALSE]
           T == Tail(stack)
<1>1. /\ stack # <<>> /\ Event.type = "RiskDecision" /\ Quiet
      /\ position' = [position EXCEPT ![s] = r]
      /\ stack' = <<Frame(e)>> \o T
  BY DEF RiskOpensPosition, Quiet
<1>2. s \in Symbols /\ bars[s] \in Nat /\ r.opened = bars[s] /\ r.held = FALSE
  BY <1>1, Heard DEF Books, Now
<1>3. Len(stack) = 5
  <2>1. Level["RiskDecision"] = 5
    BY DEF Level
  <2> QED
    BY <1>1, <2>1, Depth
<1>4. e \in WalkEvents /\ e.symbol = s
  BY <1>2 DEF WalkEvents, EventsStamped
<1>5. /\ T \in Seq(WalkFrames) /\ Len(T) = 4 /\ T # <<>>
      /\ Bottom(T) = Bottom(stack) /\ Second(T) = Second(stack)
      /\ Third(T) = Third(stack)
      /\ OneSymbol(T) /\ e.symbol = Bottom(T).event.symbol
  <2>1. Len(stack) >= 3 /\ Len(stack) >= 4 /\ Len(stack) - 1 = 4
    BY <1>3
  <2> QED
    BY <1>4, <2>1, DeepReturns
<1> HIDE DEF T, e, r
<1>6. /\ Len(stack') = 5 /\ stack' # <<>>
      /\ Bottom(stack') = Bottom(T) /\ Second(stack') = Second(T)
      /\ Third(stack') = Third(T)
      /\ OneSymbol(stack')
  <2>1. Len(T) >= 2 /\ Len(T) >= 3 /\ Len(T) + 1 = 5
    BY <1>5
  <2> QED
    BY <1>1, <1>4, <1>5, <2>1, PushedAbove
<1>7. ASSUME NEW u \in Symbols
      PROVE  SoundTrade(Due(stack, u), bars[u], position'[u], closed[u])
  <2>1. SoundTrade(Due(stack, u), bars[u], position[u], closed[u])
    BY DEF Books, SoundSymbol
  <2>2. DOMAIN position = Symbols
    BY DEF Books, Walk, Typed
  <2>3. CASE u = s
    <3>1. position'[u] = r
      BY <1>1, <1>2, <2>2, <2>3
    <3> QED
      BY <1>2, <2>1, <2>3, <3>1 DEF SoundTrade
  <2>4. CASE u # s
    <3>1. position'[u] = position[u]
      BY <1>1, <1>2, <2>2, <2>4
    <3> QED
      BY <2>1, <3>1
  <2> QED
    BY <2>3, <2>4
<1>8. Len(stack) >= 3 /\ Len(stack') >= 2
  BY <1>3, <1>6
<1> QED
  BY <1>1, <1>5, <1>6, <1>7, <1>8, DeepStep

-----------------------------------------------------------------------------
(* The books are kept by every step.                                       *)

LEMMA BooksInit == Init => Books
<1> SUFFICES ASSUME Init PROVE Books
  OBVIOUS
<1>1. Walk
  BY WalkInit
<1>2. /\ stack = <<>> /\ failures = 0 /\ closes = 0 /\ announced = 0
      /\ records = [g \in Recorders |-> 0]
      /\ \A s \in Symbols : /\ bars[s] = 0 /\ patterns[s] = 0 /\ proposed[s] = 0
                            /\ closed[s] = 0 /\ pending[s] = NoBundles
                            /\ position[s] = NoPosition
  BY DEF Init
<1>3. BooksTyped
  BY DEF Init, BooksTyped
<1>4. /\ Shaped(stack, bars) /\ Owed(stack) = 0
      /\ \A u : Due(stack, u) = {}
      /\ \A h : ~ Signalled(stack, h)
  BY <1>2, AtRest
<1>5. ~ (Len(stack) >= 3)
  <2>1. Len(<<>>) = 0
    OBVIOUS
  <2> QED
    BY <1>2, <2>1
<1>6. (closes - announced) + Missed <= failures + Owed(stack)
  BY <1>2, <1>4 DEF Missed, MissedBy, Recorders
<1>7. ASSUME NEW s \in Symbols PROVE SoundSymbol(Due(stack, s), s)
  <2>1. SoundBundles({}, NoBundles, 0, 0)
    BY StructureBarsAssumption DEF SoundBundles, Passed, Sources, NoBundles
  <2>2. SoundDay({}, 0, 0, 0, 0, 0)
    BY DEF SoundDay, Passed
  <2>3. SoundRegime({}, s)
    BY DEF SoundRegime
  <2>4. SoundTrade({}, 0, NoPosition, 0)
    BY DEF SoundTrade, NoPosition
  <2>5. NoBundles["indicators"] = 0
    BY DEF NoBundles, Sources
  <2> QED
    BY <1>2, <1>4, <2>1, <2>2, <2>3, <2>4, <2>5 DEF SoundSymbol
<1> QED
  BY <1>1, <1>3, <1>4, <1>5, <1>6, <1>7 DEF Books

\* Which subscriber raised.
LEMMA RaisesKeep ==
    ASSUME Books, Walk', HandlerRaises
    PROVE  Books'
<1>1. /\ stack # <<>> /\ Head(stack).todo # <<>>
      /\ <<Event.type, Reached>> \in Fallible
      /\ failures' = failures + 1 /\ stack' = Delivered
      /\ UNCHANGED <<inputVars, pending, proposed, bookVars, records>>
      /\ Delivering(Reached, Event.type)
  BY DEF HandlerRaises, AfterRaise, Delivering
<1>2. \/ Event.type = "FeatureReady" /\ Reached \in BarGroups
      \/ Event.type = "PositionClose" /\ Reached \in Recorders
  BY <1>1 DEF Fallible, BarGroups
<1>3. CASE Event.type = "FeatureReady" /\ Reached \in BarGroups
  <2>1. Delivering(Reached, "FeatureReady")
        /\ UNCHANGED <<bars, regime, patterns, pending, proposed, bookVars, records>>
    BY <1>1, <1>3 DEF inputVars
  <2> QED
    BY <1>1, <1>3, <2>1, RaisedReadersKeep
<1>4. CASE Event.type = "PositionClose" /\ Reached \in Recorders
  <2>1. Delivering(Reached, "PositionClose")
    BY <1>1, <1>4
  <2> QED
    BY <1>1, <1>4, <2>1, RecordersKeep
<1> QED
  BY <1>2, <1>3, <1>4

\* The signals of the bar.
LEMMA SignalsKeep ==
    ASSUME Books, Walk', IndicatorsGroup \/ CandlestickGroup \/ TechnicalStructureGroup
    PROVE  Books'
<1> USE DEF inputVars
<1>1. CASE IndicatorsGroup
  BY <1>1, SignalStep DEF IndicatorsGroup, Publish, Pushed, Sources
<1>2. CASE CandlestickGroup
  BY <1>2, SignalStep DEF CandlestickGroup, Publish, Pushed, Sources
<1>3. CASE TechnicalStructureGroup
  <2>1. /\ Delivering("technical_structure", "FeatureReady")
        /\ UNCHANGED <<bars, regime, patterns, pending, proposed, bookVars, records, failures>>
    BY <1>3 DEF TechnicalStructureGroup
  <2>2. CASE Now < StructureBars
    <3>1. Return
      BY <1>3, <2>2 DEF TechnicalStructureGroup
    <3> QED
      BY <2>1, <2>2, <3>1, ShortStructureKeeps
  <2>3. CASE ~ (Now < StructureBars)
    <3>1. stack' = Pushed(Signal("technical_structure", Event.symbol))
      BY <1>3, <2>3 DEF TechnicalStructureGroup, Publish, Pushed
    <3>2. bars[Event.symbol] >= StructureBars
      <4>1. Event.symbol \in Symbols /\ Now \in Nat
        BY <2>1, Heard DEF Books, Delivering
      <4> QED
        BY <2>3, <4>1, StructureBarsAssumption DEF Now
    <3>3. "technical_structure" \in Sources
      BY DEF Sources
    <3> QED
      BY <2>1, <3>1, <3>2, <3>3, SignalStep
  <2> QED
    BY <2>2, <2>3
<1> QED
  BY <1>1, <1>2, <1>3

LEMMA BooksStep == Books /\ [Next]_vars => Books'
<1> SUFFICES ASSUME Books, [Next]_vars PROVE Books'
  OBVIOUS
<1>1. Walk'
  BY WalkNext DEF Books
<1>2. CASE PollFindsNothing \/ UNCHANGED vars
  <2>1. UNCHANGED vars
    BY <1>2 DEF PollFindsNothing
  <2>2. Quiet /\ UNCHANGED <<stack, position>>
    BY <2>1 DEF vars, Quiet, inputVars, bookVars
  <2>3. Len(stack') >= 3 => SoundCandidate(Third(stack').event)
    BY <2>2 DEF Books
  <2>4. Shaped(stack', bars)
    BY <2>2 DEF Books
  <2>5. \A u \in Symbols : SoundTrade(Due(stack, u), bars[u], position'[u], closed[u])
    BY <2>2, TradesKeep
  <2> QED
    BY <1>1, <2>2, <2>3, <2>4, <2>5, QuietStep DEF Quiet
<1>3. CASE IndicatorsRaisesAfterRegime
  BY <1>1, <1>3, RaisedReadersKeep DEF IndicatorsRaisesAfterRegime, Return, BarGroups
<1>4. ASSUME NEW g \in Recorders, Record(g) PROVE Books'
  BY <1>1, <1>4, RecordersKeep DEF Record, Return
<1> QED
  BY <1>1, <1>2, <1>3, <1>4, NewBarKeeps, ReturnsKeep, RaisesKeep, ListenersKeep,
     ChartPatternsKeep, SignalsKeep, EntryDoesNotPropose, ProposalKeeps, GatesKeep,
     OpeningKeeps, ExitsKeep
  DEF Next

LEMMA BooksAlways == Spec => []Books
<1>1. Init => Books
  BY BooksInit
<1>2. Books /\ [Next]_vars => Books'
  BY BooksStep
<1> QED
  BY <1>1, <1>2, PTL DEF Spec

-----------------------------------------------------------------------------
(* What the books say of the events under way.                             *)

\* A proposal under way is the third frame's.
LEMMA ProposalIsThird ==
    ASSUME Books, NEW e \in Events("CandidateTrade")
    PROVE  SoundCandidate(e) /\ e.symbol \in Symbols
<1>1. PICK i \in DOMAIN stack : stack[i].event = e /\ e.type = "CandidateTrade"
  BY DEF Events
<1> DEFINE n == Len(stack)
<1>2. /\ n \in Nat /\ i \in 1 .. n /\ Level[stack[i].event.type] = n + 1 - i
      /\ stack[i].event \in WalkEvents
  <2>1. stack \in Seq(WalkFrames)
    BY FramesOf DEF Books
  <2>2. i \in 1 .. n
    BY <1>1, <2>1
  <2> QED
    BY <2>2, FramesOf DEF Books
<1>3. Level["CandidateTrade"] = 3
  BY DEF Level
<1> HIDE DEF n
<1>4. n >= 3 /\ i = n - 2
  BY <1>1, <1>2, <1>3
<1>5. Third(stack).event = e
  BY <1>1, <1>4 DEF Third, n
<1>6. SoundCandidate(e)
  BY <1>4, <1>5 DEF Books, n
<1> QED
  BY <1>1, <1>2, <1>6, EventFields

\* What is decided below the proposal is of the proposal's symbol.
LEMMA DecisionIsOfProposal ==
    ASSUME Books, NEW t \in {"CandidateTrade", "PanelApproved", "RiskDecision"},
           NEW e \in Events(t)
    PROVE  failures <= 1 => regime = OwnRegime(e.symbol)
<1>1. PICK i \in DOMAIN stack : stack[i].event = e /\ e.type = t
  BY DEF Events
<1> DEFINE n == Len(stack)
<1>2. /\ n \in Nat /\ i \in 1 .. n /\ Level[stack[i].event.type] = n + 1 - i
  <2>1. stack \in Seq(WalkFrames)
    BY FramesOf DEF Books
  <2>2. i \in 1 .. n
    BY <1>1, <2>1
  <2> QED
    BY <2>2, FramesOf DEF Books
<1>3. Level[t] >= 3 /\ Level[t] \in Nat
  BY DEF Level
<1>4. \A j \in 1 .. n : stack[j].event.symbol = Bottom(stack).event.symbol
  BY DEF Books, Shaped, OneSymbol
<1> HIDE DEF n
<1>5. n >= 3 /\ n - 2 \in 1 .. n
  BY <1>1, <1>2, <1>3
<1>6. Third(stack).event.symbol = e.symbol
  <2>1. stack[n - 2].event.symbol = stack[i].event.symbol
    BY <1>2, <1>4, <1>5
  <2> QED
    BY <1>1, <2>1 DEF Third, n
<1>7. SoundCandidate(Third(stack).event)
  BY <1>5 DEF Books, n
<1> QED
  BY <1>6, <1>7 DEF SoundCandidate

\* An evaluation that proposes is the bar's first.
LEMMA ProposesOnce ==
    ASSUME Books, EntryProposes
    PROVE  proposed[Event.symbol] < bars[Event.symbol]
<1> DEFINE s == Event.symbol
           g == Event.group
           d == Due(stack, s)
           p == pending[s]
<1>1. Delivering("entry", "GroupSignal") /\ Collected(s)["indicators"] # 0
  BY DEF EntryProposes, Triggers
<1>2. /\ SoundSymbol(d, s) /\ p \in [Sources -> Nat]
      /\ Collected(s) = [p EXCEPT ![g] = bars[s]]
      /\ bars[s] \in Nat /\ proposed[s] \in Nat
  BY <1>1, AtEntry
<1>3. g \in d
  BY <1>1, EntryView
<1>4. /\ proposed[s] <= bars[s]
      /\ proposed[s] = bars[s] => "indicators" \notin d /\ p["indicators"] = 0
  BY <1>2, <1>3 DEF SoundSymbol, SoundDay
<1>5. proposed[s] # bars[s]
  <2> SUFFICES ASSUME proposed[s] = bars[s] PROVE FALSE
    OBVIOUS
  <2>1. g # "indicators" /\ p["indicators"] = 0
    BY <1>3, <1>4
  <2>2. Collected(s)["indicators"] = p["indicators"]
    BY <1>2, <2>1 DEF Sources
  <2> QED
    BY <1>1, <2>1, <2>2
<1> HIDE DEF s, p, d
<1>6. proposed[s] < bars[s]
  BY <1>2, <1>4, <1>5
<1> QED
  BY <1>6 DEF s

\* A close is of a position that an earlier bar opened.
LEMMA ClosesLater ==
    ASSUME Books, Delivering("exit", "FeatureReady"), ClosePosition(Event.symbol)
    PROVE  /\ position[Event.symbol].opened < bars[Event.symbol]
           /\ \A u \in Symbols \ {Event.symbol} : closed'[u] = closed[u]
<1> DEFINE s == Event.symbol
           d == Due(stack, s)
<1>1. /\ s \in Symbols /\ "exit" \in d /\ SoundSymbol(d, s) /\ bars[s] \in Nat
      /\ position[s].opened \in Nat
  <2>1. "exit" \in BarGroups
    BY DEF BarGroups
  <2> QED
    BY <2>1, AtTurn
<1>2. /\ position[s].opened <= bars[s]
      /\ position[s].opened = bars[s] => ~ position[s].held
  BY <1>1 DEF SoundSymbol, SoundTrade
<1>3. \E sameClose \in SameClose(s) : ~ (~ position[s].held /\ sameClose)
  BY DEF ClosePosition, IsEntryBar
<1>4. position[s].opened # bars[s]
  BY <1>2, <1>3 DEF SameClose
<1>5. \A u \in Symbols \ {s} : closed'[u] = closed[u]
  BY <1>1 DEF ClosePosition, Books, BooksTyped
<1> HIDE DEF s
<1>6. position[s].opened < bars[s]
  BY <1>1, <1>2, <1>4
<1> QED
  BY <1>5, <1>6 DEF s

\* The gate decides before the exits have had their turn.
LEMMA OpensBeforeExits ==
    ASSUME Books, RiskOpensPosition
    PROVE  /\ Event.symbol \in Symbols
           /\ closed[Event.symbol] < bars[Event.symbol]
<1>1. stack # <<>> /\ Event.type = "RiskDecision"
  BY DEF RiskOpensPosition
<1>2. Event.symbol \in Symbols
  BY <1>1, Heard DEF Books
<1>3. Len(stack) = 5
  <2>1. Level["RiskDecision"] = 5
    BY DEF Level
  <2> QED
    BY <1>1, <2>1, Depth
<1>4. /\ Second(stack).event.type = "GroupSignal"
      /\ Len(Bottom(stack).todo) = Turn[Second(stack).event.group] - 1
      /\ Event.symbol = Bottom(stack).event.symbol
  <2>1. Len(stack) >= 2 /\ Len(stack) >= 3
    BY <1>3
  <2>2. Second(stack).event.type = "GroupSignal"
    BY <2>1 DEF Books, Shaped
  <2> QED
    BY <2>1, <2>2, DeepReturns DEF Books, Shaped
<1>5. Second(stack).event.group \in Sources
  <2>1. Len(stack) - 1 = 4 /\ 4 \in 1 .. Len(stack)
    BY <1>3
  <2>2. Second(stack).event \in WalkEvents
    BY <2>1, FramesOf DEF Books, Second
  <2> QED
    BY <1>4, <2>2, EventFields
<1>6. Len(Bottom(stack).todo) >= Turn["exit"]
  <2>1. Turn[Second(stack).event.group] - 1 >= Turn["exit"]
    BY <1>5 DEF Turn, Sources
  <2> QED
    BY <1>4, <2>1
<1>7. "exit" \in Due(stack, Event.symbol)
  BY <1>1, <1>4, <1>6 DEF Due, BarGroups
<1>8. SoundSymbol(Due(stack, Event.symbol), Event.symbol)
  BY <1>2 DEF Books
<1> QED
  BY <1>2, <1>7, <1>8 DEF SoundSymbol, SoundTrade

-----------------------------------------------------------------------------
(* Theorems.                                                               *)

\* Every open position was approved by the panel on the bar that opened it,
\* whatever handlers raised: the panel switch leaves no other way to
\* state.open_position (risk_leverage/group.py:146, 553).
THEOREM NoPositionWithoutPanel == Spec => []OpenedThroughPanel
<1>1. Walk => OpenedThroughPanel
  BY DEF Walk
<1> QED
  BY <1>1, WalkAlways, PTL

\* No chain of handlers publishes more than five events inside one another: the
\* subscriptions have no cycle, so a bar cannot recurse (core/events.py:184).
THEOREM CascadeIsShallow == Spec => []BoundedDepth
<1>1. Walk => BoundedDepth
  <2> SUFFICES ASSUME Walk PROVE Len(stack) <= 5
    BY DEF BoundedDepth
  <2>1. CASE stack = <<>>
    BY <2>1
  <2>2. CASE stack # <<>>
    <3>1. Event \in WalkEvents /\ Level[Event.type] = Len(stack)
      BY <2>2, TopOfStack DEF Walk
    <3>2. Level[Event.type] \in 1 .. 5
      <4>1. Event.type \in Types
        BY <3>1, EventFields
      <4> QED
        BY <4>1, SubscribersTyped
    <3>3. Len(stack) \in 1 .. 5
      BY <3>1, <3>2, Zenon
    <3>4. \A n \in 1 .. 5 : n <= 5
      OBVIOUS
    <3> QED
      BY <3>3, <3>4, Zenon
  <2> QED
    BY <2>1, <2>2
<1> QED
  BY <1>1, WalkAlways, PTL

\* A proposal's bundles, and the patterns the panel reads beside it, are no older
\* than the handlers that raised account for: EntryGroup keeps one bundle per
\* source and empties them when it evaluates (groups/entry/group.py:245).
THEOREM ProposalsAreAccountedFor == Spec => []BundlesAccountedFor
<1>1. Books => BundlesAccountedFor
  <2> SUFFICES ASSUME Books, NEW e \in Events("CandidateTrade")
               PROVE  /\ Recent(e.bundles, bars[e.symbol], failures)
                      /\ patterns[e.symbol] + failures >= bars[e.symbol]
    BY DEF BundlesAccountedFor, Recent
  <2> QED
    BY ProposalIsThird DEF SoundCandidate
<1> QED
  BY <1>1, BooksAlways, PTL

\* The one regime record of all symbols is the symbol's own, of this bar, when
\* its proposal is judged by the panel and by the risk gate, as long as no more
\* than one handler has raised (groups/indicators/group.py:176).
THEOREM DecisionsUnderOwnRegime == Spec => []DecidedUnderOwnRegime
<1>1. Books => DecidedUnderOwnRegime
  BY DecisionIsOfProposal DEF DecidedUnderOwnRegime
<1> QED
  BY <1>1, BooksAlways, PTL

\* Between two bars each close is announced and in the books of all three
\* recorders, but for one miss per handler that raised: handle_event swallows an
\* exception before it can leave publish() (agents/base/group.py:83).
THEOREM EveryCloseIsRecorded == Spec => []ClosesRecorded
<1>1. Books => ClosesRecorded
  <2> SUFFICES ASSUME Books, stack = <<>>
               PROVE  (closes - announced) + Missed <= failures
    BY DEF ClosesRecorded
  <2>1. Owed(stack) = 0
    BY AtRest
  <2>2. /\ (closes - announced) + Missed <= failures + Owed(stack)
        /\ failures \in Nat
    BY DEF Books, BooksTyped
  <2> QED
    BY <2>1, <2>2
<1> QED
  BY <1>1, BooksAlways, PTL

\* A bar proposes a symbol once, never closes what it opened, and opens nothing
\* once it has closed, whatever handlers raised before it (runner.py:178 sets the
\* exits up after the three groups whose signals open a position).
THEOREM BarsActOnce == Spec => NothingTwiceInBar
<1> DEFINE Once(s) ==
      /\ EntryProposes /\ Event.symbol = s => proposed[s] < bars[s]
      /\ closes' # closes /\ closed'[s] # closed[s] => position[s].opened < bars[s]
      /\ position'[s].opened > position[s].opened => closed[s] < bars[s]
<1>1. Books /\ [Next]_vars => [\A s \in Symbols : Once(s)]_vars
  <2> SUFFICES ASSUME Books, Next, NEW s \in Symbols PROVE Once(s)
    OBVIOUS
  <2>1. ASSUME EntryProposes, Event.symbol = s PROVE proposed[s] < bars[s]
    BY <2>1, ProposesOnce
  <2>2. ASSUME closes' # closes, closed'[s] # closed[s]
        PROVE  position[s].opened < bars[s]
    <3>1. Delivering("exit", "FeatureReady") /\ ClosePosition(Event.symbol)
      BY <2>2 DEF Next, NewBar, PollFindsNothing, PublishReturns, HandlerRaises,
         JournalLogs, CandlestickCachesStructure, ChartPatternGroup, IndicatorsGroup,
         IndicatorsRaisesAfterRegime, CandlestickGroup, TechnicalStructureGroup,
         EntryWaits, EntryDeclines, EntryProposes, PanelHolds, PanelApproves,
         RiskIgnores, RiskDecides, RiskOpensPosition, ExitHolds, ExitCloses,
         ExitRaisesAfterClose, Record, vars, bookVars
    <3> QED
      BY <2>2, <3>1, ClosesLater
  <2>3. ASSUME position'[s].opened > position[s].opened PROVE closed[s] < bars[s]
    <3>1. /\ position \in [Symbols -> [opened : Nat, panel : Nat, held : BOOLEAN]]
          /\ position[s].opened \in Nat
      BY DEF Books, Walk, Typed
    <3>2. position' # position
      BY <2>3, <3>1
    <3>3. \/ RiskOpensPosition
          \/ ExitHolds
          \/ ClosePosition(Event.symbol)
      BY <3>2 DEF Next, NewBar, PollFindsNothing, PublishReturns, HandlerRaises,
         JournalLogs, CandlestickCachesStructure, ChartPatternGroup, IndicatorsGroup,
         IndicatorsRaisesAfterRegime, CandlestickGroup, TechnicalStructureGroup,
         EntryWaits, EntryDeclines, EntryProposes, PanelHolds, PanelApproves,
         RiskIgnores, RiskDecides, ExitCloses, ExitRaisesAfterClose, Record, vars, bookVars
    <3>4. CASE ExitHolds
      <4> DEFINE u == Event.symbol
                 r == [position[u] EXCEPT !.held = TRUE]
      <4>1. position' = position \/ position' = [position EXCEPT ![u] = r]
        BY <3>4 DEF ExitHolds
      <4>2. u = s => r.opened = position[s].opened
        BY <3>1
      <4> HIDE DEF r, u
      <4>3. position'[s].opened = position[s].opened
        BY <3>1, <4>1, <4>2
      <4> QED
        BY <2>3, <3>1, <4>3
    <3>5. CASE ClosePosition(Event.symbol)
      <4>1. position' = [position EXCEPT ![Event.symbol] = NoPosition]
        BY <3>5 DEF ClosePosition
      <4>2. position'[s].opened = position[s].opened \/ position'[s].opened = 0
        BY <3>1, <4>1 DEF NoPosition
      <4> QED
        BY <2>3, <3>1, <4>2
    <3>6. CASE RiskOpensPosition
      <4>1. Event.symbol = s
        <5> DEFINE u == Event.symbol
                   r == [opened |-> Now, panel |-> Event.panel, held |-> FALSE]
        <5>1. position' = [position EXCEPT ![u] = r]
          BY <3>6 DEF RiskOpensPosition
        <5> HIDE DEF r, u
        <5>2. u # s => position'[s] = position[s]
          BY <3>1, <5>1
        <5>3. u = s
          BY <2>3, <3>1, <5>2
        <5> QED
          BY <5>3 DEF u
      <4> QED
        BY <3>6, <4>1, OpensBeforeExits
    <3> QED
      BY <3>3, <3>4, <3>5, <3>6
  <2> QED
    BY <2>1, <2>2, <2>3
<1> QED
  BY <1>1, BooksAlways, PTL DEF Spec, NothingTwiceInBar

=============================================================================
