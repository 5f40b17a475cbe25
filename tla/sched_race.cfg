\* Two workers and a task on one of them that switches to the other.
SPECIFICATION Spec
CONSTANTS
  w1 = w1
  w2 = w2
  caller = caller
  AnyThread = any
  None = none
  Caller = caller
  Workers = {w1, w2}
  Shapes <- WorkersOnly
  Tasks = {t1}
  Kinds = {"cb", "fiber"}
  UserPins <- AnyOnly
  TaskPins <- AnyOrEach
  MaxYield = 2
  UseSwitch = TRUE
CHECK_DEADLOCK FALSE
INVARIANTS
  AssertionsHold
