----------------------------- MODULE BarCascade -----------------------------
(***************************************************************************)
(* One bar through the event bus of the paper runner.                      *)
(*                                                                         *)
(* runtime/runner.py publishes one FeatureReadyEvent per new bar; every    *)
(* group reacts inside EventBus.publish(), which awaits its subscribers    *)
(* one after the other in subscription order (core/events.py:184).  A      *)
(* handler that publishes suspends until its own subscribers have run, so  *)
(* a bar is a depth-first walk.  The walk is modelled by an explicit stack *)
(* of frames, an event and the subscribers it has still to reach; what the *)
(* groups compute is abstracted to the bar its inputs were taken from.     *)
(*                                                                         *)
(* A handler may raise: handle_event swallows the exception, and the walk  *)
(* goes on without that handler's effect (agents/base/group.py:83).        *)
(***************************************************************************)
EXTENDS Integers, Sequences

CONSTANTS
    Symbols,        \* TRADING_SYMBOLS
    StructureBars,  \* bars TechnicalStructure needs before it publishes (5 in the code)
    MaxBars,        \* bound: bars per symbol
    MaxFailures     \* bound: handlers that raise

ASSUME StructureBarsAssumption == StructureBars \in Nat \ {0}
ASSUME BoundsAssumption == MaxBars \in Nat /\ MaxFailures \in Nat

VARIABLES
    stack,      \* publish() calls in progress, innermost first
    bars,       \* bars[s]: FeatureVectors published for s, the current bar's stamp
    regime,     \* state.regime: whose bar it was computed from
    patterns,   \* patterns[s]: bar of ChartPatternGroup's caches
    structure,  \* structure[s]: bar of TechnicalStructureGroup._structural_cache
    pending,    \* pending[s]: bar of each bundle in EntryGroup._pending_bundles (0: none)
    proposed,   \* proposed[s]: bar of the last CandidateTradeEvent (0: none)
    position,   \* position[s]: the open position of s (opened = 0: none)
    closed,     \* closed[s]: bar of the last close, 0 before the first
    closes,     \* positions closed so far
    announced,  \* PositionCloseEvents published so far
    records,    \* records[g]: PositionCloseEvents processed by recorder g
    failures    \* handlers that raised so far

vars == <<stack, bars, regime, patterns, structure, pending, proposed,
          position, closed, closes, announced, records, failures>>

bookVars  == <<position, closed, closes, announced>>
inputVars == <<bars, regime, patterns, structure>>

Sources   == {"indicators", "candlestick", "technical_structure"}
Groups    == {"chart_pattern", "indicators", "candlestick", "technical_structure",
              "exit", "performance_journal", "historian", "entry", "panel_decision",
              "risk_leverage"}
Recorders == {"historian", "panel_decision", "performance_journal"}

\* Callbacks in the order the groups are set up (runner.py:178) and subscribe.
\* Slips: technical structure set up before the candlesticks; exits before entries.
StructureFirst == <<"chart_pattern", "indicators", "technical_structure", "candlestick",
                    "exit", "performance_journal">>
ExitFirst == <<"exit", "chart_pattern", "indicators", "candlestick",
               "technical_structure", "performance_journal">>
BarReaders == <<"chart_pattern", "indicators", "candlestick", "technical_structure",
                "exit", "performance_journal">>

Subscribers ==
    [FeatureReady  |-> BarReaders,
     GroupSignal   |-> <<"candlestick", "entry", "performance_journal">>,
     CandidateTrade |-> <<"panel_decision", "risk_leverage", "performance_journal">>,
     PanelApproved |-> <<"risk_leverage">>,
     RiskDecision  |-> <<"performance_journal">>,
     PositionOpen  |-> <<"performance_journal">>,
     PositionClose |-> <<"historian", "panel_decision", "performance_journal">>]

NoBundles  == [g \in Sources |-> 0]
NoPosition == [opened |-> 0, panel |-> 0, held |-> FALSE]

(***************************************************************************)
(* The bus.                                                                *)
(***************************************************************************)
Frame(event) == [event |-> event, todo |-> Subscribers[event.type]]

Event   == Head(stack).event
Now     == bars[Event.symbol]
Reached == Head(Head(stack).todo)

\* The handler now reached is g, and the event is of type t.
Delivering(g, t) ==
    /\ stack # <<>>
    /\ Head(stack).todo # <<>>
    /\ Reached = g
    /\ Event.type = t

Delivered == <<[Head(stack) EXCEPT !.todo = Tail(@)]>> \o Tail(stack)

Return == stack' = Delivered
Publish(event) == stack' = <<Frame(event)>> \o Delivered

Init ==
    /\ stack = <<>>
    /\ bars = [s \in Symbols |-> 0]
    /\ regime = [symbol |-> CHOOSE s \in Symbols : TRUE, bar |-> 0]
    /\ patterns = [s \in Symbols |-> 0]
    /\ structure = [s \in Symbols |-> 0]
    /\ pending = [s \in Symbols |-> NoBundles]
    /\ proposed = [s \in Symbols |-> 0]
    /\ position = [s \in Symbols |-> NoPosition]
    /\ closed = [s \in Symbols |-> 0]
    /\ closes = 0
    /\ announced = 0
    /\ records = [g \in Recorders |-> 0]
    /\ failures = 0

\* A poll found a new bar of s: the symbols are polled one after the other, and
\* a symbol whose fetch fails or has no new bar is skipped.
NewBar(s) ==
    /\ stack = <<>>
    /\ bars[s] < MaxBars
    /\ bars' = [bars EXCEPT ![s] = @ + 1]
    /\ stack' = <<Frame([type |-> "FeatureReady", symbol |-> s])>>
    /\ UNCHANGED <<regime, patterns, structure, pending, proposed, bookVars,
                   records, failures>>

\* No symbol has a new bar: the downstream chain stays idle.
PollFindsNothing ==
    /\ stack = <<>>
    /\ UNCHANGED vars

\* publish() has reached its last subscriber and returns to its caller.
PublishReturns ==
    /\ stack # <<>>
    /\ Head(stack).todo = <<>>
    /\ ~ (Event.type = "RiskDecision" /\ Event.approved)
    /\ stack' = Tail(stack)
    /\ UNCHANGED <<inputVars, pending, proposed, bookVars, records, failures>>

\* A handler raises before it changed anything; handle_event swallows it.
Fallible ==
    {<<"FeatureReady", g>> : g \in {"chart_pattern", "indicators", "candlestick",
                                    "technical_structure", "exit"}}
    \cup {<<"PositionClose", g>> : g \in Recorders}

\* Slip: the exception leaves publish(), and the later subscribers hear nothing.
RaiseEndsPublish == <<[Head(stack) EXCEPT !.todo = <<>>]>> \o Tail(stack)
AfterRaise == Delivered

HandlerRaises ==
    /\ stack # <<>>
    /\ Head(stack).todo # <<>>
    /\ <<Event.type, Reached>> \in Fallible
    /\ failures < MaxFailures
    /\ failures' = failures + 1
    /\ stack' = AfterRaise
    /\ UNCHANGED <<inputVars, pending, proposed, bookVars, records>>

\* The journal writes a row; only its rows of closed trades are kept here.
JournalLogs ==
    /\ \E t \in DOMAIN Subscribers \ {"PositionClose"} :
           Delivering("performance_journal", t)
    /\ Return
    /\ UNCHANGED <<inputVars, pending, proposed, bookVars, records, failures>>

(***************************************************************************)
(* FeatureReadyEvent: the groups that read the bar.                        *)
(***************************************************************************)
Signal(g, s) == [type |-> "GroupSignal", symbol |-> s, group |-> g, bar |-> bars[s]]

ChartPatternGroup ==
    /\ Delivering("chart_pattern", "FeatureReady")
    /\ patterns' = [patterns EXCEPT ![Event.symbol] = Now]
    /\ Return
    /\ UNCHANGED <<bars, regime, structure, pending, proposed, bookVars, records,
                   failures>>

OwnRegime(s) == [symbol |-> s, bar |-> bars[s]]

IndicatorsGroup ==
    /\ Delivering("indicators", "FeatureReady")
    /\ regime' = OwnRegime(Event.symbol)
    /\ Publish(Signal("indicators", Event.symbol))
    /\ UNCHANGED <<bars, patterns, structure, pending, proposed, bookVars, records,
                   failures>>

\* The regime is stored before the signals are validated and scored; an
\* exception in between leaves the new regime without a bundle.
IndicatorsRaisesAfterRegime ==
    /\ Delivering("indicators", "FeatureReady")
    /\ failures < MaxFailures
    /\ failures' = failures + 1
    /\ regime' = OwnRegime(Event.symbol)
    /\ Return
    /\ UNCHANGED <<bars, patterns, structure, pending, proposed, bookVars, records>>

CandlestickGroup ==
    /\ Delivering("candlestick", "FeatureReady")
    /\ Publish(Signal("candlestick", Event.symbol))
    /\ UNCHANGED <<inputVars, pending, proposed, bookVars, records, failures>>

AfterSignal == Delivered

CandlestickCachesStructure ==
    /\ Delivering("candlestick", "GroupSignal")
    /\ stack' = AfterSignal
    /\ UNCHANGED <<inputVars, pending, proposed, bookVars, records, failures>>

TechnicalStructureGroup ==
    /\ Delivering("technical_structure", "FeatureReady")
    /\ IF Now < StructureBars
         THEN Return /\ UNCHANGED structure
         ELSE /\ structure' = [structure EXCEPT ![Event.symbol] = Now]
              /\ Publish(Signal("technical_structure", Event.symbol))
    /\ UNCHANGED <<bars, regime, patterns, pending, proposed, bookVars, records,
                   failures>>

(***************************************************************************)
(* GroupSignalEvent: EntryGroup._collect_bundle.                           *)
(***************************************************************************)
Collected(s) == [pending[s] EXCEPT ![Event.group] = Event.bar]

\* symbol in self._evaluating: its evaluation awaits the publish it made.
Evaluating(s) ==
    \E i \in DOMAIN stack :
        stack[i].event.type = "CandidateTrade" /\ stack[i].event.symbol = s

\* Slip: no bundle but the candlesticks' is waited for.
TriggersOnCandlesticks(s) ==
    Collected(s)["candlestick"] # 0 /\ ~ Evaluating(s)
Triggers(s) ==
    /\ Collected(s)["indicators"] # 0
    /\ Collected(s)["candlestick"] # 0
    /\ ~ Evaluating(s)

AfterEvaluation(s) == [pending EXCEPT ![s] = NoBundles]

EntryWaits ==
    /\ Delivering("entry", "GroupSignal")
    /\ ~ Triggers(Event.symbol)
    /\ pending' = [pending EXCEPT ![Event.symbol] = Collected(Event.symbol)]
    /\ Return
    /\ UNCHANGED <<inputVars, proposed, bookVars, records, failures>>

\* A filter of _evaluate_trade_opportunity returns early, or the evaluation raises.
EntryDeclines ==
    /\ Delivering("entry", "GroupSignal")
    /\ Triggers(Event.symbol)
    /\ pending' = AfterEvaluation(Event.symbol)
    /\ Return
    /\ UNCHANGED <<inputVars, proposed, bookVars, records, failures>>

EntryProposes ==
    /\ Delivering("entry", "GroupSignal")
    /\ Triggers(Event.symbol)
    /\ pending' = AfterEvaluation(Event.symbol)
    /\ proposed' = [proposed EXCEPT ![Event.symbol] = Now]
    /\ Publish([type |-> "CandidateTrade", symbol |-> Event.symbol,
                bundles |-> Collected(Event.symbol)])
    /\ UNCHANGED <<inputVars, bookVars, records, failures>>

(***************************************************************************)
(* CandidateTradeEvent and PanelApprovedProposalEvent.                     *)
(***************************************************************************)
\* The packet cannot be built, the panel raises, or Layer C does not say "enter".
PanelHolds ==
    /\ Delivering("panel_decision", "CandidateTrade")
    /\ Return
    /\ UNCHANGED <<inputVars, pending, proposed, bookVars, records, failures>>

PanelApproves ==
    /\ Delivering("panel_decision", "CandidateTrade")
    /\ Publish([type |-> "PanelApproved", symbol |-> Event.symbol, panel |-> Now])
    /\ UNCHANGED <<inputVars, pending, proposed, bookVars, records, failures>>

\* RiskLeverageGroup._handle_event with the panel wired, as the runner wires it.
\* Slip: the panel switch is not looked at.
RiskEvaluatesBoth(event) == event.type \in {"PanelApproved", "CandidateTrade"}
RiskEvaluates(event) == event.type = "PanelApproved"

\* packet_id / panel_id / decision_id, empty on the direct path.
PanelLink(event) == IF event.type = "PanelApproved" THEN event.panel ELSE 0

RiskDecision(approved) ==
    [type |-> "RiskDecision", symbol |-> Event.symbol, approved |-> approved,
     panel |-> PanelLink(Event)]

RiskIgnores ==
    /\ Delivering("risk_leverage", "CandidateTrade")
    /\ ~ RiskEvaluates(Event)
    /\ Return
    /\ UNCHANGED <<inputVars, pending, proposed, bookVars, records, failures>>

\* Rule 0 rejects a second position of the symbol; any later rule may reject.
RiskDecides(approved) ==
    /\ \E t \in {"PanelApproved", "CandidateTrade"} : Delivering("risk_leverage", t)
    /\ RiskEvaluates(Event)
    /\ approved => position[Event.symbol] = NoPosition
    /\ Publish(RiskDecision(approved))
    /\ UNCHANGED <<inputVars, pending, proposed, bookVars, records, failures>>

\* _approve after its first publish: open the position, then announce it.
RiskOpensPosition ==
    /\ stack # <<>>
    /\ Head(stack).todo = <<>>
    /\ Event.type = "RiskDecision"
    /\ Event.approved
    /\ position' = [position EXCEPT ![Event.symbol] =
                        [opened |-> Now, panel |-> Event.panel, held |-> FALSE]]
    /\ stack' = <<Frame([type |-> "PositionOpen", symbol |-> Event.symbol])>>
                    \o Tail(stack)
    /\ UNCHANGED <<inputVars, pending, proposed, closed, closes, announced, records,
                   failures>>

(***************************************************************************)
(* ExitGroup and the recorders of a closed trade.                          *)
(***************************************************************************)
\* bars_held = 0 and the close equals the entry price.  On the opening bar it
\* does (the entry price is that close); on a later bar it may.
IsEntryBar(s, sameClose) == ~ position[s].held /\ sameClose

SameClose(s) == IF position[s].opened = bars[s] THEN {TRUE} ELSE BOOLEAN

ExitHolds ==
    /\ Delivering("exit", "FeatureReady")
    /\ LET s == Event.symbol IN
         position' = IF position[s] = NoPosition THEN position
                     ELSE [position EXCEPT ![s].held = TRUE]
    /\ Return
    /\ UNCHANGED <<inputVars, pending, proposed, closed, closes, announced, records,
                   failures>>

\* state.close_position: the first statement of _execute_exit.
ClosePosition(s) ==
    /\ position[s] # NoPosition
    /\ \E sameClose \in SameClose(s) : ~ IsEntryBar(s, sameClose)
    /\ position' = [position EXCEPT ![s] = NoPosition]
    /\ closed' = [closed EXCEPT ![s] = bars[s]]
    /\ closes' = closes + 1

ExitCloses ==
    /\ Delivering("exit", "FeatureReady")
    /\ ClosePosition(Event.symbol)
    /\ announced' = announced + 1
    /\ Publish([type |-> "PositionClose", symbol |-> Event.symbol])
    /\ UNCHANGED <<inputVars, pending, proposed, records, failures>>

\* The reward is computed after the close and before the event: if that raises,
\* the account has the P&L and no recorder hears of the trade.
ExitRaisesAfterClose ==
    /\ Delivering("exit", "FeatureReady")
    /\ failures < MaxFailures
    /\ failures' = failures + 1
    /\ ClosePosition(Event.symbol)
    /\ Return
    /\ UNCHANGED <<inputVars, pending, proposed, announced, records>>

Recorded(g) == [records EXCEPT ![g] = @ + 1]

Record(g) ==
    /\ Delivering(g, "PositionClose")
    /\ records' = Recorded(g)
    /\ Return
    /\ UNCHANGED <<inputVars, pending, proposed, bookVars, failures>>

Next ==
    \/ \E s \in Symbols : NewBar(s)
    \/ PollFindsNothing
    \/ PublishReturns
    \/ HandlerRaises
    \/ JournalLogs
    \/ CandlestickCachesStructure
    \/ ChartPatternGroup
    \/ IndicatorsGroup
    \/ IndicatorsRaisesAfterRegime
    \/ CandlestickGroup
    \/ TechnicalStructureGroup
    \/ EntryWaits
    \/ EntryDeclines
    \/ EntryProposes
    \/ PanelHolds
    \/ PanelApproves
    \/ RiskIgnores
    \/ \E approved \in BOOLEAN : RiskDecides(approved)
    \/ RiskOpensPosition
    \/ ExitHolds
    \/ ExitCloses
    \/ ExitRaisesAfterClose
    \/ \E g \in Recorders : Record(g)

Spec == Init /\ [][Next]_vars

(***************************************************************************)
(* Properties.                                                             *)
(***************************************************************************)

\* What may be under way, when bundles and panel links carry stamps from S.
EventsStamped(S) ==
    [type : {"FeatureReady", "PositionOpen", "PositionClose"}, symbol : Symbols]
    \cup [type : {"GroupSignal"}, symbol : Symbols, group : Sources, bar : S]
    \cup [type : {"CandidateTrade"}, symbol : Symbols, bundles : [Sources -> S]]
    \cup [type : {"PanelApproved"}, symbol : Symbols, panel : S]
    \cup [type : {"RiskDecision"}, symbol : Symbols, approved : BOOLEAN, panel : S]
FramesStamped(S) == [event : EventsStamped(S), todo : Seq(Groups)]

Events(t) == {stack[i].event : i \in {j \in DOMAIN stack : stack[j].event.type = t}}

\* EntryGroup never mixes bundles further apart than the number of handlers that
\* raised accounts for: the indicator and candlestick bundles of a proposal are
\* at most that many bars old.  The structural one, whose group runs after the
\* proposal, is of the bar before, or as many more bars old, or missing, only if
\* a handler raised.  The chart patterns the panel reads beside the proposal are
\* of this bar likewise.
BundlesAccountedFor ==
    \A e \in Events("CandidateTrade") :
        LET now == bars[e.symbol] IN
        /\ e.bundles["indicators"] + failures >= now
        /\ e.bundles["candlestick"] + failures >= now
        /\ e.bundles["technical_structure"] < now
        /\ e.bundles["technical_structure"] # 0 =>
               e.bundles["technical_structure"] + 1 + failures >= now
        /\ e.bundles["technical_structure"] = 0 =>
               now <= StructureBars \/ failures > 0
        /\ patterns[e.symbol] + failures >= now

\* A bar acts once on a symbol, whatever handlers raised before: a late bundle
\* never triggers a second evaluation, a position is not closed by the bar that
\* opened it, and none opens on a bar that has already closed one.
NothingTwiceInBar ==
    [][\A s \in Symbols :
         /\ EntryProposes /\ Event.symbol = s => proposed[s] < bars[s]
         /\ closes' # closes /\ closed'[s] # closed[s] => position[s].opened < bars[s]
         /\ position'[s].opened > position[s].opened => closed[s] < bars[s]]_vars

\* state.regime is one record for every symbol: when a proposal is decided it is
\* still this symbol's regime, of this bar, unless two handlers have raised.
DecidedUnderOwnRegime ==
    failures <= 1 =>
        \A t \in {"CandidateTrade", "PanelApproved", "RiskDecision"} :
            \A e \in Events(t) : regime = OwnRegime(e.symbol)

\* Every open position went through the twenty-trader panel and Layer C on the
\* very bar that opened it.
OpenedThroughPanel ==
    \A s \in Symbols : position[s].panel = position[s].opened

\* When the bar is over every close is announced, and every announced close is in
\* each recorder's books exactly once, but for one miss per handler that raised:
\* the exception of one recorder costs no other recorder its trade.
MissedBy(g) == announced - records[g]
Missed == MissedBy("historian") + MissedBy("panel_decision") + MissedBy("performance_journal")
ClosesRecorded == stack = <<>> => (closes - announced) + Missed <= failures

\* A bar's walk is at most five publishes deep: bar, signal, candidate,
\* approval, decision.
BoundedDepth == Len(stack) <= 5

=============================================================================
