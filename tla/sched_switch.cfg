\* Two workers; tasks are pinned to either and also switch from one to the other.
SPECIFICATION Spec
SYMMETRY Symmetry
CONSTANTS
  w1 = w1
  w2 = w2
  caller = caller
  AnyThread = any
  None = none
  Caller = caller
  Workers = {w1, w2}
  Shapes <- WorkersOnly
  Tasks = {t1, t2}
  Kinds = {"cb", "fiber"}
  UserPins <- AnyOrEach
  TaskPins <- AnyOrEach
  MaxYield = 1
  UseSwitch = TRUE
CHECK_DEADLOCK FALSE
INVARIANTS
  TypeOK
  ActiveIsInFlight
  IdleIsIdling
PROPERTIES
  BeginsOnPinnedThread
