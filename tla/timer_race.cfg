\* Two pollers, two users, two timers; the clock only advances.
SPECIFICATION Spec
SYMMETRY Symmetry
CONSTANTS
  Timers = {x1, x2}
  Users = {u1, u2}
  Pollers = {p1, p2}
  Periods = {1, 2}
  MaxTimeout = 1
  IntLimit = 16
  Never = never
  Hour = 3
  SetBacks = {}
  MaxClock = 4
  NoTimer = none
CHECK_DEADLOCK FALSE
INVARIANTS
  TypeOK
  NoLostWakeup
  OneShotOnce
PROPERTIES
  NeverEarly
