\* One worker: fibers and callbacks wait for timers and events, are triggered or
\* cancelled, until the manager is stopped.
SPECIFICATION IOFairSpec
CONSTANTS
  w1 = w1
  w2 = w2
  caller = caller
  AnyThread = any
  None = none
  Caller = caller
  Workers = {w1}
  Shapes <- WorkersOnly
  Tasks = {t1, t2}
  Kinds = {"cb"}
  UserPins <- AnyOnly
  TaskPins <- AnyOnly
  MaxYield = 1
  UseSwitch = FALSE
  Fds = {d1}
  UseTimers = TRUE
  UseEvents = TRUE
  UseFibers = TRUE
  UseCancel = TRUE
  UserArms = FALSE
CHECK_DEADLOCK FALSE
INVARIANTS
  RegisteredHasWaiter
  StopLeavesNothing
PROPERTIES
  QueuedIsExecuted
