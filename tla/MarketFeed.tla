----------------------------- MODULE MarketFeed -----------------------------
(***************************************************************************)
(* The polling loop of the paper runner and the bar windows it fills:      *)
(* BtcBybitPaperRunner.run_paper_loop, the console's _run_loop, and        *)
(* MarketDataGroup.startup_load and fetch_and_process.                     *)
(*                                                                         *)
(* The exchange numbers its klines 1, 2, ... per timeframe; the last one   *)
(* it has started is in its answers like every other.  A request returns   *)
(* the last FetchLimit klines, less the rows the adapter cannot parse      *)
(* (data/bybit.py:150), or raises.  Prices are left out: a bar is its      *)
(* number, a FeatureVector the number of the bar it was computed on.  The  *)
(* "1d" window is loaded and kept like the "4h" one and read by no one.    *)
(***************************************************************************)
EXTENDS Naturals, Sequences, FiniteSets, SequencesExt

CONSTANTS
    Trading,      \* TRADING_SYMBOLS, the order of the loop
    FetchLimit,   \* klines per request (200)
    WindowSize,   \* BAR_HISTORY_SIZE (250)
    WarmUp,       \* WARM_UP_BARS (200)
    PerFourHours, \* hours in a "4h" kline
    FirstHours,   \* hours the exchange may have traded at the start
    MaxHours,     \* bound: the last hour of the model
    MaxMishaps    \* bound: requests that fail and rows that do not parse

Symbols    == ToSet(Trading)
Timeframes == {"1h", "4h"}

ASSUME FeedAssumption ==
    /\ FetchLimit \in Nat \ {0} /\ PerFourHours \in Nat \ {0}
    /\ WarmUp \in 1 .. WindowSize /\ WindowSize \in Nat
    /\ FirstHours \subseteq 1 .. MaxHours /\ MaxHours \in Nat /\ MaxMishaps \in Nat

VARIABLES
    hour,       \* the 1h kline the exchange is now filling
    history,    \* history[s][tf]: _bar_history, oldest first
    newest,     \* newest[s][tf]: _last_bar_ts (0: none)
    features,   \* features[s]: _feature_cache[(s, "1h")] (0: none)
    announced,  \* announced[s]: BarCloseEvents published, in order
    processed,  \* processed[s]: FeatureReadyEvents published, in order
    phase,      \* "startup" while startup_load() runs, then "polling"
    todo,       \* requests left of startup_load, or of this poll
    mishaps,    \* requests that failed and rows that did not parse, so far
    lost        \* lost[s]: 1h klines no answer holds any more, never taken

vars == <<hour, history, newest, features, announced, processed, phase, todo,
          mishaps, lost>>

exchangeVars == <<hour, lost>>

(***************************************************************************)
(* The exchange.                                                           *)
(***************************************************************************)
Kline(tf, h) == IF tf = "4h" THEN ((h - 1) \div PerFourHours) + 1 ELSE h

Answer(tf) ==
    {k \in 1 .. Kline(tf, hour) : k + FetchLimit > Kline(tf, hour)}

\* An hour passes.  The oldest 1h row leaves the exchange's answers; a symbol
\* that follows the market and has not taken it yet has missed it for good.
HourPasses ==
    /\ hour < MaxHours
    /\ hour' = hour + 1
    /\ lost' = [s \in Symbols |->
                   lost[s] + (IF newest[s]["1h"] # 0
                                 /\ newest[s]["1h"] + FetchLimit < hour + 1
                              THEN 1 ELSE 0)]
    /\ UNCHANGED <<history, newest, features, announced, processed, phase, todo,
                   mishaps>>

(***************************************************************************)
(* MarketDataGroup.                                                        *)
(***************************************************************************)
\* The adapter hands the rows over oldest first: the i-th has i rows up to
\* itself.
InOrder(rows) ==
    LET Rank(k) == Cardinality({j \in rows : j <= k})
    IN  [i \in 1 .. Cardinality(rows) |-> CHOOSE k \in rows : Rank(k) = i]

\* Slip: `>=` takes the newest bar again with every answer.
NewBarsOrEqual(s, tf, rows) == InOrder({k \in rows : k >= newest[s][tf]})
NewBars(s, tf, rows) == InOrder({k \in rows : k > newest[s][tf]})

\* Slip: only the newest bar is stored after an outage.
StoredNewest(s, tf, new) == Append(history[s][tf], Last(new))
\* Appends to a deque with maxlen = BAR_HISTORY_SIZE.
Stored(s, tf, new) ==
    LET all == history[s][tf] \o new IN
    IF Len(all) <= WindowSize THEN all
    ELSE SubSeq(all, Len(all) + 1 - WindowSize, Len(all))

\* FeatureComputer.compute: None while the window is too short.
Computed(window) == IF Len(window) < WarmUp THEN 0 ELSE Last(window)

Take(s, tf, new) ==
    /\ history' = [history EXCEPT ![s][tf] = Stored(s, tf, new)]
    /\ newest' = [newest EXCEPT ![s][tf] = Last(new)]

PublishFeatures(s, fv) ==
    /\ features' = [features EXCEPT ![s] = fv]
    /\ processed' = IF fv = 0 THEN processed
                    ELSE [processed EXCEPT ![s] = Append(@, fv)]

\* An answer of which the adapter has skipped the rows it cannot parse.
Parsed(tf, rows) ==
    /\ rows \subseteq Answer(tf)
    /\ mishaps' = mishaps + Cardinality(Answer(tf) \ rows)
    /\ mishaps' <= MaxMishaps

(***************************************************************************)
(* The loops.                                                              *)
(***************************************************************************)
Requesting(p, s, tf) ==
    /\ phase = p
    /\ todo # <<>>
    /\ Head(todo) = <<s, tf>>
    /\ todo' = Tail(todo)
    /\ UNCHANGED phase

StartupRequests ==
    FlattenSeq([i \in DOMAIN Trading |-> <<<<Trading[i], "4h">>, <<Trading[i], "1h">>>>])
PollRequests == [i \in DOMAIN Trading |-> <<Trading[i], "1h">>]

\* main_btc runs run_paper_loop, which loads the windows first; the console's
\* loop polls at once.
Init ==
    /\ hour \in FirstHours
    /\ history = [s \in Symbols |-> [tf \in Timeframes |-> <<>>]]
    /\ newest = [s \in Symbols |-> [tf \in Timeframes |-> 0]]
    /\ features = [s \in Symbols |-> 0]
    /\ announced = [s \in Symbols |-> <<>>]
    /\ processed = [s \in Symbols |-> <<>>]
    /\ \/ phase = "startup" /\ todo = StartupRequests
       \/ phase = "polling" /\ todo = PollRequests
    /\ mishaps = 0
    /\ lost = [s \in Symbols |-> 0]

\* startup_load: after the windows, the current market state is published
\* without BarCloseEvents.
StartupLoads(s, tf, rows) ==
    /\ Requesting("startup", s, tf)
    /\ Parsed(tf, rows)
    /\ LET new == NewBars(s, tf, rows) IN
       IF new = <<>> THEN UNCHANGED <<history, newest, features, processed>>
       ELSE /\ Take(s, tf, new)
            /\ IF tf = "1h" THEN PublishFeatures(s, Computed(history'[s][tf]))
               ELSE UNCHANGED <<features, processed>>
    /\ UNCHANGED <<exchangeVars, announced>>

\* fetch_and_process with an answer: nothing without a new bar, else a
\* BarCloseEvent for each and one FeatureReadyEvent for the latest.
Polls(s, rows) ==
    /\ Requesting("polling", s, "1h")
    /\ Parsed("1h", rows)
    /\ LET new == NewBars(s, "1h", rows) IN
       IF new = <<>> THEN UNCHANGED <<history, newest, features, announced, processed>>
       ELSE /\ Take(s, "1h", new)
            /\ PublishFeatures(s, Computed(history'[s]["1h"]))
            /\ announced' = [announced EXCEPT ![s] = @ \o new]
    /\ UNCHANGED exchangeVars

\* The request raises: both loops log it and go on with the next.
RequestFails(s, tf) ==
    /\ Requesting("startup", s, tf) \/ Requesting("polling", s, tf)
    /\ mishaps < MaxMishaps
    /\ mishaps' = mishaps + 1
    /\ UNCHANGED <<exchangeVars, history, newest, features, announced, processed>>

\* Slip: a poll serves the first symbol only.
NextPollFirst == <<PollRequests[1]>>
NextPoll == PollRequests

\* The loop sleeps POLL_INTERVAL_SECONDS and polls again.
PollsAgain ==
    /\ todo = <<>>
    /\ phase' = "polling"
    /\ todo' = NextPoll
    /\ UNCHANGED <<exchangeVars, history, newest, features, announced, processed,
                   mishaps>>

LoopStep ==
    \/ \E s \in Symbols : \E tf \in Timeframes :
         \/ \E rows \in SUBSET Answer(tf) : StartupLoads(s, tf, rows)
         \/ RequestFails(s, tf)
    \/ \E s \in Symbols : \E rows \in SUBSET Answer("1h") : Polls(s, rows)
    \/ PollsAgain

Next == HourPasses \/ LoopStep

\* Both loops run until they are stopped, and every request returns or raises
\* (the client has a timeout of ten seconds).  The exchange owes nothing.
Spec == Init /\ [][Next]_vars /\ WF_vars(LoopStep)

(***************************************************************************)
(* Properties.                                                             *)
(***************************************************************************)
Ascending(seq) == \A i \in 1 .. Len(seq) - 1 : seq[i] < seq[i + 1]

\* Each bar is announced at most once and processed at most once, in the order
\* of time, although every poll fetches the same bars again and the startup
\* load has already published some of them; and the features that the setup
\* packet reads are those of the bar processed last.
EachBarOnce ==
    \A s \in Symbols :
        /\ Ascending(announced[s]) /\ Ascending(processed[s])
        /\ features[s] = IF processed[s] = <<>> THEN 0 ELSE Last(processed[s])

\* The indicators are computed over consecutive bars: a hole in the 1h window is
\* a row that did not parse or an hour that the exchange no longer returned
\* after an outage longer than its answers.  A late poll catches up on the rest.
Holes(s) == (1 .. newest[s]["1h"]) \ ToSet(history[s]["1h"])
HolesExplained ==
    \A s \in Symbols :
        history[s]["1h"] # <<>> =>
            Cardinality({k \in Holes(s) : k > Head(history[s]["1h"])}) <= lost[s] + mishaps

\* Every hour of every symbol is processed in the end, itself or by a later bar,
\* however many requests fail before and whichever loop runs, unless the symbol
\* has too few bars for features.
TooFew(s) == Len(history[s]["1h"]) < WarmUp /\ newest[s]["1h"] = hour
Reached(s) == processed[s] # <<>> /\ Last(processed[s]) >= hour
EveryHourProcessed ==
    \A s \in Symbols : []<>(Reached(s) \/ TooFew(s))

=============================================================================
