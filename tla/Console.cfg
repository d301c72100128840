SPECIFICATION Spec
CONSTANTS
  MaxRunners = 3
  Stops = {s1, s2, last}
  Shutdown = last
  Clients = {c1}
  RingSize = 2
  QueueSize = 1
  HistorySize = 1
  MaxEvents = 3
  MaxRequests = 5
  Jobs = {j1}
  MaxBars = 1
  s1 = s1
  s2 = s2
  last = last
  c1 = c1
  j1 = j1
INVARIANTS
  RunningIsTrue
  LeaksAreExplained
  StreamHasNoGap
  ErrorsStayErrors
PROPERTIES
  RequestsEnd
