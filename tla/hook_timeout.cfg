\* Two workers: the timer may fire before the event is registered.
SPECIFICATION FairSpec
CONSTANTS
  Fibers = {r}
  Closer = closer
  Workers = {2}
  TimedFibers = {r}
  Connectors = {}
  CanClose = FALSE
  MaxCalls = 2
  MaxRounds = 2
CHECK_DEADLOCK FALSE
PROPERTIES
  DoIOReturns
