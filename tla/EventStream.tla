----------------------------- MODULE EventStream -----------------------------
(***************************************************************************)
(* The bridge from the runner's bus to the console's WebSocket clients     *)
(* (console/event_bridge.py and ws_events in console/server.py): a ring of  *)
(* recent events and a bounded queue per client.  Events are numbered in    *)
(* the order the bridge handles them.                                       *)
(***************************************************************************)
EXTENDS Integers, SequencesExt

CONSTANTS
  Clients,
  RingSize,     \* MAX_BUFFERED_EVENTS, 1000
  QueueSize,    \* a client's queue, 500
  HistorySize,  \* events sent on connecting, 100
  MaxEvents     \* bound: events handled in a behaviour

ASSUME StreamAssumption ==
  /\ RingSize \in Nat \ {0} /\ QueueSize \in Nat \ {0}
  /\ HistorySize \in 1..RingSize /\ MaxEvents \in Nat

VARIABLES
  attached,    \* the runner whose bus the bridge is subscribed to; 0 is none
  handled,     \* events handled so far
  ring,        \* _ring
  registered,  \* clients whose queue is in _queues
  queue,       \* each client's queue
  at,          \* where each client's endpoint stands
  history,     \* events of the ring still to be sent on connecting
  filtering,   \* the client asked for one kind of events only
  received,    \* what the client was sent
  skipped      \* what its filter held back

bridgeVars == <<attached, handled, ring>>
clientVars == <<registered, queue, at, history, filtering, received, skipped>>

InitStream ==
  /\ attached = 0 /\ handled = 0 /\ ring = << >> /\ registered = {}
  /\ queue = [c \in Clients |-> << >>] /\ history = [c \in Clients |-> << >>]
  /\ received = [c \in Clients |-> << >>] /\ skipped = [c \in Clients |-> {}]
  /\ at = [c \in Clients |-> "away"] /\ filtering = [c \in Clients |-> FALSE]

\* deque(maxlen = n), and recent_events(limit).
LastOf(s, n) == IF Len(s) > n THEN SubSeq(s, Len(s) - n + 1, Len(s)) ELSE s

\* Slip: an attached bridge keeps the bus it has.
AttachOnce(r) ==
  attached' = (IF attached = 0 THEN r ELSE attached) /\ UNCHANGED <<handled, ring>>

\* attach(bus) and detach(); attaching detaches from the bus before.
Attach(r) == attached' = r /\ UNCHANGED <<handled, ring>>
Detach == attached' = 0 /\ UNCHANGED <<handled, ring>>

\* Slip: a full queue loses the event and stays registered.
BroadcastLossy(n) ==
  /\ queue' = [c \in Clients |->
                 IF c \in registered /\ Len(queue[c]) < QueueSize
                   THEN Append(queue[c], n) ELSE queue[c]]
  /\ UNCHANGED registered

\* Every registered queue takes the event; a full one is unregistered.
Broadcast(n) ==
  LET room == {c \in registered : Len(queue[c]) < QueueSize}
  IN  /\ queue' = [c \in Clients |->
                     IF c \in room THEN Append(queue[c], n) ELSE queue[c]]
      /\ registered' = room

\* The handler of an event published on r's bus.
Handle(r) ==
  IF attached # r
    THEN UNCHANGED <<bridgeVars, clientVars>>
    ELSE /\ handled < MaxEvents
         /\ handled' = handled + 1
         /\ ring' = LastOf(Append(ring, handled'), RingSize)
         /\ Broadcast(handled')
         /\ UNCHANGED <<attached, at, history, filtering, received, skipped>>

-----------------------------------------------------------------------------
(* One client's endpoint.                                                  *)

\* The queue is registered and the history taken before the endpoint
\* suspends for the first time.
Connect(c) ==
  /\ at[c] = "away"
  /\ at' = [at EXCEPT ![c] = "history"]
  /\ registered' = registered \cup {c}
  /\ history' = [history EXCEPT ![c] = LastOf(ring, HistorySize)]
  /\ UNCHANGED <<bridgeVars, queue, filtering, received, skipped>>

SendHistory(c) ==
  /\ at[c] = "history"
  /\ IF history[c] = << >>
       THEN at' = [at EXCEPT ![c] = "live"] /\ UNCHANGED <<history, received>>
       ELSE /\ received' = [received EXCEPT ![c] = Append(@, Head(history[c]))]
            /\ history' = [history EXCEPT ![c] = Tail(@)]
            /\ UNCHANGED at
  /\ UNCHANGED <<bridgeVars, registered, queue, filtering, skipped>>

\* The filter of the test clients: events of even number.
Wanted(c, n) == ~filtering[c] \/ n % 2 = 0

\* The next event of the queue, if the filter lets it through.
SendEvent(c) ==
  /\ at[c] = "live" /\ queue[c] # << >>
  /\ queue' = [queue EXCEPT ![c] = Tail(@)]
  /\ IF Wanted(c, Head(queue[c]))
       THEN /\ received' = [received EXCEPT ![c] = Append(@, Head(queue[c]))]
            /\ UNCHANGED skipped
       ELSE /\ skipped' = [skipped EXCEPT ![c] = @ \cup {Head(queue[c])}]
            /\ UNCHANGED received
  /\ UNCHANGED <<bridgeVars, registered, at, history, filtering>>

\* Thirty seconds without an event: also all a client dropped from the
\* broadcast hears from then on.
Heartbeat(c) ==
  /\ at[c] = "live" /\ queue[c] = << >>
  /\ UNCHANGED <<bridgeVars, clientVars>>

\* The commands "filter" and "clear_filter", read once the history is sent.
SetFilter(c) ==
  /\ at[c] = "live"
  /\ filtering' = [filtering EXCEPT ![c] = ~@]
  /\ UNCHANGED <<bridgeVars, registered, queue, at, history, received, skipped>>

Disconnect(c) ==
  /\ at[c] \in {"history", "live"}
  /\ at' = [at EXCEPT ![c] = "gone"]
  /\ registered' = registered \ {c}
  /\ UNCHANGED <<bridgeVars, queue, history, filtering, received, skipped>>

-----------------------------------------------------------------------------
Pending(c) == received[c] \o history[c] \o queue[c]

\* What a client was sent, is being sent and has queued is in order and
\* without repetition or gap, from the first event of its history on (its
\* own filter apart); and it reaches the newest event as long as the client
\* is in the broadcast, although history and queue are filled by different
\* code and read by a task that suspends between any two events.
StreamHasNoGap ==
  \A c \in Clients :
    LET s == Pending(c)
        seen == ToSet(s) \cup skipped[c]
    IN  /\ \A i \in 1..(Len(s) - 1) : s[i] < s[i + 1]
        /\ \A m, n \in seen : (m .. n) \subseteq seen
        /\ c \in registered /\ seen # {} => handled \in seen
=============================================================================
