\* One user, one poller; the clock is set back by less and by more than an hour.
SPECIFICATION FairSpec
CONSTANTS
  Timers = {x1}
  Users = {u1}
  Pollers = {p1}
  Periods = {1, 2}
  MaxTimeout = 2
  IntLimit = 16
  Never = never
  Hour = 2
  SetBacks = {1, 3}
  MaxClock = 3
  NoTimer = none
CHECK_DEADLOCK FALSE
INVARIANTS
  CallbackMeansQueued
PROPERTIES
  CancelIsFinal
  DueIsCollected
