\* Two workers arm, trigger and cancel callbacks; the caller adds timers too.
SPECIFICATION IOSpec
CONSTANTS
  w1 = w1
  w2 = w2
  caller = caller
  AnyThread = any
  None = none
  Caller = caller
  Workers = {w1, w2}
  Shapes <- WorkersOnly
  Tasks = {t1, t2}
  Kinds = {"cb"}
  UserPins <- AnyOnly
  TaskPins <- AnyOnly
  MaxYield = 0
  UseSwitch = FALSE
  Fds = {d1}
  UseTimers = TRUE
  UseEvents = TRUE
  UseFibers = FALSE
  UseCancel = TRUE
  UserArms = TRUE
CHECK_DEADLOCK FALSE
SYMMETRY Symmetry
INVARIANTS
  PendingIsRegistered
  NothingLost
