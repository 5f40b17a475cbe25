\* One worker, a reader with a timeout and a writer without that connects first;
\* or three workers and a reader: the event, timers of this and an earlier call,
\* and close() race.
SPECIFICATION FairSpec
CONSTANTS
  Fibers = {r, w}
  Closer = closer
  Workers = {1, 3}
  TimedFibers = {r}
  Connectors = {w}
  CanClose = TRUE
  MaxCalls = 2
  MaxRounds = 2
CHECK_DEADLOCK FALSE
INVARIANTS
  WokenOnce
  NoLeftovers
PROPERTIES
  ReturnsAlone
  NobodyMisled
  CloseWakesAll
