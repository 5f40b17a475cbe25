\* Two threads run the loop, two workers or a worker and the caller (use_caller);
\* tasks yield READY, end, throw, and schedule others; none calls switchTo.
SPECIFICATION FairSpec
CONSTANTS
  w1 = w1
  w2 = w2
  caller = caller
  AnyThread = any
  None = none
  Caller = caller
  Workers = {w1, w2}
  Shapes <- TwoLoops
  Tasks = {t1, t2}
  Kinds = {"cb", "fiber"}
  UserPins <- SomePins
  TaskPins <- AnyOnly
  MaxYield = 1
  UseSwitch = FALSE
CHECK_DEADLOCK FALSE
INVARIANTS
  NoTaskLost
  NoFault
  StopMeansDone
PROPERTIES
  ImplementsPool
  StopReturns
