-------------------------- MODULE TimerManager_proofs --------------------------
(***************************************************************************)
(* Proofs about the timer queue, for any number of timers, users, pollers  *)
(* and periods, and for any Hour, MaxTimeout and MaxClock.                 *)
(***************************************************************************)
EXTENDS TimerManager, FiniteSetTheorems, WellFoundedInduction, TLAPS

-----------------------------------------------------------------------------
(* The queue has a front.                                                  *)

\* A non-empty set of points in time has a first one.
LEMMA Minimum ==
  ASSUME NEW N, N \subseteq Nat, N # {}
  PROVE  \E x \in N : \A y \in N : x <= y
<1>1. PICK x \in N : \A y \in N : ~(<<y, x>> \in OpToRel(<, Nat))
  BY NatLessThanWellFounded, WFMin, Zenon
<1>2. \A y \in N : <<y, x>> \in Nat \X Nat
  OBVIOUS
<1>3. \A y \in N : ~(y < x)
  BY <1>1, <1>2 DEF OpToRel
<1> QED
  BY <1>3

\* A non-empty __timers has a first element, so Timeout is well defined.
LEMMA EarliestExists ==
  ASSUME next \in [Timers -> Nat], timers \subseteq Timers, timers # {}
  PROVE  \E t \in timers : Earliest(t)
<1> DEFINE N == {next[t] : t \in timers}
<1>1. N \subseteq Nat /\ N # {}
  OBVIOUS
<1> HIDE DEF N
<1>2. PICK x \in N : \A y \in N : x <= y
  BY <1>1, Minimum
<1>3. PICK t \in timers : x = next[t]
  BY <1>2 DEF N
<1>4. \A s \in timers : next[s] \in N
  BY DEF N
<1> QED
  BY <1>2, <1>3, <1>4 DEF Earliest

\* What idle()'s casts leave of a waiting time.
LEMMA EpollTimeoutType ==
  ASSUME NEW x \in Nat
  PROVE  /\ EpollTimeout(x) \in Nat \cup {Never}
         /\ EpollTimeout(x) # Never => EpollTimeout(x) <= MaxTimeout
         /\ x < IntLimit => EpollTimeout(x) \in Nat /\ EpollTimeout(x) <= x
<1>1. ToInt(x) \in Int
  <2>1. CASE x < IntLimit
    BY <2>1 DEF ToInt
  <2>2. CASE x >= IntLimit
    <3>1. 2 * IntLimit \in Nat \ {0}
      BY TimerAssumption
    <3>2. x % (2 * IntLimit) \in Nat
      BY <3>1
    <3>3. ~(x < IntLimit)
      BY <2>2, TimerAssumption
    <3>4. IntLimit \in Int
      BY TimerAssumption
    <3> DEFINE m == x % (2 * IntLimit)
    <3>5. ToInt(x) = IF m < IntLimit THEN m ELSE m - 2 * IntLimit
      BY <3>3 DEF ToInt
    <3> HIDE DEF m
    <3>6. m \in Int
      BY <3>2 DEF m
    <3> QED
      BY <3>4, <3>5, <3>6
  <2> QED
    BY <2>1, <2>2, TimerAssumption
<1>2. x < IntLimit => ToInt(x) = x
  BY DEF ToInt
<1> HIDE DEF ToInt
<1> QED
  BY <1>1, <1>2, TimerAssumption DEF EpollTimeout

\* The timeout is at most MAX_TIMEOUT or there is none; and if no wait exceeds an
\* int, no timer is due before it is over, unless it is due already.
LEMMA TimeoutBound ==
  ASSUME clock \in Nat, next \in [Timers -> Nat], timers \subseteq Timers
  PROVE  /\ Timeout \in Nat \cup {Never}
         /\ Timeout # Never => Timeout <= MaxTimeout
         /\ (\A t \in timers : next[t] < clock + IntLimit) =>
              /\ Timeout # Never
              /\ \A t \in timers : clock + Timeout <= next[t] \/ Timeout = 0
<1>1. CASE timers = {}
  BY <1>1, TimerAssumption DEF Timeout
<1>2. CASE timers # {}
  <2> DEFINE t == CHOOSE t \in timers : Earliest(t)
  <2>1. t \in timers /\ Earliest(t)
    BY <1>2, EarliestExists
  <2>2. next[t] \in Nat
    BY <2>1
  <2>3. Timeout = IF clock >= next[t] THEN 0 ELSE EpollTimeout(next[t] - clock)
    BY <1>2 DEF Timeout
  <2>4. \A s \in timers : next[t] <= next[s] /\ next[s] \in Nat
    BY <2>1 DEF Earliest
  <2>5. (\A s \in timers : next[s] < clock + IntLimit) => next[t] < clock + IntLimit
    BY <2>1
  <2> HIDE DEF t
  <2>6. CASE clock >= next[t]
    BY <2>3, <2>6, TimerAssumption
  <2>7. CASE clock < next[t]
    <3>1. next[t] - clock \in Nat
      BY <2>2, <2>7
    <3>2. Timeout = EpollTimeout(next[t] - clock)
      BY <2>2, <2>3, <2>7
    <3>3. next[t] < clock + IntLimit => next[t] - clock < IntLimit
      BY <2>2, TimerAssumption
    <3>4. next[t] < clock + IntLimit => Timeout \in Nat /\ Timeout <= next[t] - clock
      BY <3>1, <3>2, <3>3, EpollTimeoutType
    <3> QED
      BY <2>2, <2>4, <2>5, <3>1, <3>2, <3>4, EpollTimeoutType, TimerAssumption
  <2> QED
    BY <2>2, <2>6, <2>7
<1> QED
  BY <1>1, <1>2

-----------------------------------------------------------------------------
(* Types.  A timer's __next is never smaller than its __ms, so that reset()  *)
(* does not wrap below zero when it computes __next - __ms.                  *)

TypeInv ==
  /\ TypeOK
  /\ \A t \in Timers : ms[t] <= next[t]

LEMMA TypeInit == Init => TypeInv
<1> SUFFICES ASSUME Init
             PROVE  TypeInv
  OBVIOUS
<1>1. clock \in Nat /\ prevTime \in Nat
  BY TimerAssumption DEF Init
<1>2. recurring \in [Timers -> BOOLEAN] /\ hasCb \in [Timers -> BOOLEAN]
      /\ tickled \in BOOLEAN /\ signal \in BOOLEAN
  BY DEF Init
<1>3. making \in [Users -> made \cup {NoTimer}]
  BY DEF Init
<1>4. pollpc \in [Pollers -> {"busy", "next", "wait", "now", "list", "events"}]
  BY DEF Init
<1>5. deadline \in [Pollers -> Nat \cup {Never}] /\ now \in [Pollers -> Nat]
      /\ \A p \in Pollers : deadline[p] <= clock + MaxTimeout
  BY TimerAssumption DEF Init
<1>6. next \in [Timers -> Nat] /\ ms \in [Timers -> Nat]
      /\ \A t \in Timers : ms[t] <= next[t]
  BY DEF Init
<1>7. listed \in [Timers -> 0..2]
  BY DEF Init
<1> QED
  BY <1>1, <1>2, <1>3, <1>4, <1>5, <1>6, <1>7 DEF Init, TypeInv, TypeOK

\* What addTimer(val, lock) does to the types.
LEMMA InsertLockedType ==
  ASSUME TypeOK, NEW u \in Users, NEW t \in made, NEW rest \in SUBSET timers,
         InsertLocked(u, t, rest)
  PROVE  timers' \subseteq made /\ tickled' \in BOOLEAN /\ notifying' \subseteq Users
BY DEF TypeOK, InsertLocked

LEMMA TypeUser ==
  ASSUME TypeInv, NEW u \in Users, UserStep(u)
  PROVE  TypeInv'
<1> USE TimerAssumption DEF TypeInv, TypeOK
<1>1. ASSUME NEW t \in Timers, NEW m \in Periods, NEW r \in BOOLEAN, Construct(u, t, m, r)
      PROVE  TypeInv'
  BY <1>1 DEF Construct, Free, pollVars, histVars
<1>2. CASE Insert(u)
  <2>1. making[u] \in made
    BY <1>2 DEF Insert
  <2>2. timers' \subseteq made /\ tickled' \in BOOLEAN /\ notifying' \subseteq Users
    BY <1>2, <2>1, InsertLockedType DEF Insert
  <2> QED
    BY <1>2, <2>2 DEF Insert, pollVars, histVars
<1>3. CASE Notify(u)
  BY <1>3 DEF Notify, timerVars, pollVars, histVars
<1>4. ASSUME NEW t \in Timers, Cancel(u, t)
      PROVE  TypeInv'
  BY <1>4 DEF Cancel, userVars, pollVars
<1>5. ASSUME NEW t \in Timers, Refresh(u, t)
      PROVE  TypeInv'
  BY <1>5 DEF Refresh, userVars, pollVars, histVars
<1>6. ASSUME NEW t \in Timers, NEW m \in Periods, NEW b \in BOOLEAN, Reset(u, t, m, b)
      PROVE  TypeInv'
  <2>1. timers' \subseteq made /\ tickled' \in BOOLEAN /\ notifying' \subseteq Users
    BY <1>6, InsertLockedType DEF Reset
  <2>2. next' = [next EXCEPT ![t] = (IF b THEN clock ELSE next[t] - ms[t]) + m]
    BY <1>6 DEF Reset
  <2>3. (IF b THEN clock ELSE next[t] - ms[t]) \in Nat
    OBVIOUS
  <2>4. next' \in [Timers -> Nat] /\ ms' \in [Timers -> Nat]
        /\ \A s \in Timers : ms'[s] <= next'[s]
    BY <1>6, <2>2, <2>3 DEF Reset
  <2> QED
    BY <1>6, <2>1, <2>4 DEF Reset, pollVars, histVars
<1> QED
  BY <1>1, <1>2, <1>3, <1>4, <1>5, <1>6 DEF UserStep

LEMMA TypePoll ==
  ASSUME TypeInv, NEW p \in Pollers, PollStep(p)
  PROVE  TypeInv'
<1> USE TimerAssumption DEF TypeInv, TypeOK, PollGoto
<1>1. CASE EnterIdle(p)
  BY <1>1 DEF EnterIdle, timerVars, userVars, histVars
<1>2. CASE GetNextTimer(p)
  <2>1. Timeout \in Nat \cup {Never} /\ (Timeout # Never => Timeout <= MaxTimeout)
    BY TimeoutBound
  <2>2. \A q \in Pollers : deadline'[q] # Never => deadline'[q] <= clock + MaxTimeout
    BY <1>2, <2>1 DEF GetNextTimer, SleepUntil
  <2>3. deadline' \in [Pollers -> Nat \cup {Never}]
    BY <1>2, <2>1 DEF GetNextTimer, SleepUntil
  <2> QED
    BY <1>2, <2>2, <2>3 DEF GetNextTimer, timerVars, userVars, histVars
<1>3. CASE Wake(p)
  <2>1. signal' \in BOOLEAN
    BY <1>3, Zenon DEF Wake
  <2>2. deadline' = [deadline EXCEPT ![p] = 0]
    BY <1>3 DEF Wake
  <2>3. deadline' \in [Pollers -> Nat \cup {Never}]
        /\ \A q \in Pollers : deadline'[q] # Never => deadline'[q] <= clock + MaxTimeout
    BY <2>2
  <2> QED
    BY <1>3, <2>1, <2>3 DEF Wake, timerVars, userVars, histVars
<1>4. CASE ReadNow(p)
  BY <1>4 DEF ReadNow, timerVars, userVars, histVars
<1>5. CASE ListExpiredCb(p)
  <2> DEFINE exp == Expired(p)
  <2>1. prevTime' \in Nat /\ timers' \subseteq made
    BY <1>5 DEF ListExpiredCb
  <2>2. next' = [t \in Timers |-> IF t \in exp /\ recurring[t] THEN now[p] + ms[t] ELSE next[t]]
    BY <1>5 DEF ListExpiredCb
  <2>3. hasCb' = [t \in Timers |-> hasCb[t] /\ (t \notin exp \/ recurring[t])]
    BY <1>5 DEF ListExpiredCb
  <2>4. listed' = [t \in Timers |-> IF t \in exp /\ listed[t] < 2 THEN listed[t] + 1
                                    ELSE listed[t]]
    BY <1>5 DEF ListExpiredCb
  <2> HIDE DEF exp
  <2>5. next' \in [Timers -> Nat] /\ \A t \in Timers : ms[t] <= next'[t]
    BY <2>2
  <2>6. hasCb' \in [Timers -> BOOLEAN]
    BY <2>3
  <2>7. listed' \in [Timers -> 0..2]
    BY <2>4
  <2> QED
    BY <1>5, <2>1, <2>5, <2>6, <2>7 DEF ListExpiredCb, userVars
<1>6. CASE LeaveIdle(p)
  BY <1>6 DEF LeaveIdle, timerVars, userVars, histVars
<1> QED
  BY <1>1, <1>2, <1>3, <1>4, <1>5, <1>6 DEF PollStep

LEMMA TypeStep == TypeInv /\ [Next]_vars => TypeInv'
<1> SUFFICES ASSUME TypeInv, [Next]_vars
             PROVE  TypeInv'
  OBVIOUS
<1>1. CASE \E u \in Users : UserStep(u)
  BY <1>1, TypeUser
<1>2. CASE \E p \in Pollers : PollStep(p)
  BY <1>2, TypePoll
<1>3. CASE Tick
  BY <1>3, TimerAssumption
     DEF TypeInv, TypeOK, Tick, timerVars, userVars, pollVars, histVars
<1>4. ASSUME NEW d \in SetBacks, SetBack(d)
      PROVE  TypeInv'
  BY <1>4, TimerAssumption DEF TypeInv, TypeOK, SetBack, timerVars, userVars, histVars
<1>5. CASE UNCHANGED vars
  BY <1>5 DEF TypeInv, TypeOK, vars, timerVars, userVars, pollVars, histVars
<1> QED
  BY <1>1, <1>2, <1>3, <1>4, <1>5 DEF Next

LEMMA TypeInvariant == Spec => []TypeInv
BY TypeInit, TypeStep, PTL DEF Spec

\* Whatever the users, the pollers and the clock do, the timer queue's state
\* keeps its type; an epoll_wait that is timed sleeps MAX_TIMEOUT at most.
THEOREM TypeCorrect == Spec => []TypeOK
<1>1. TypeInv => TypeOK
  BY DEF TypeInv
<1> QED
  BY <1>1, TypeInvariant, PTL

-----------------------------------------------------------------------------
(* The callback of a timer and the queue.  A timer that is constructed and   *)
(* not yet inserted already has its callback and belongs to one user alone;  *)
(* one that was cancelled has none any more.                                 *)

Making(t) == \E u \in Users : making[u] = t

QueueInv ==
  /\ \A t \in made : hasCb[t] <=> (t \in timers \/ Making(t))
  /\ \A t \in timers : ~Making(t)
  /\ \A u, v \in Users : making[u] # NoTimer /\ making[u] = making[v] => u = v
  /\ \A t \in cancelled : t \in made /\ ~hasCb[t]

LEMMA QueueInit == Init => QueueInv
BY TimerAssumption DEF Init, QueueInv, Making

LEMMA QueueUser ==
  ASSUME TypeInv, QueueInv, NEW u \in Users, UserStep(u)
  PROVE  QueueInv'
<1> USE TimerAssumption DEF TypeInv, TypeOK, QueueInv, Making
<1>1. ASSUME NEW t \in Timers, NEW m \in Periods, NEW r \in BOOLEAN, Construct(u, t, m, r)
      PROVE  QueueInv'
  BY <1>1 DEF Construct, Free, histVars
<1>2. CASE Insert(u)
  <2>1. timers' = timers \cup {making[u]}
    BY <1>2 DEF Insert, InsertLocked
  <2> QED
    BY <1>2, <2>1 DEF Insert, histVars
<1>3. CASE Notify(u)
  BY <1>3 DEF Notify, timerVars, histVars
<1>4. ASSUME NEW t \in Timers, Cancel(u, t)
      PROVE  QueueInv'
  <2>1. made' = made /\ making' = making /\ timers' = timers \ {t}
        /\ cancelled' = cancelled \cup {t} /\ t \in made /\ ~Making(t)
    BY <1>4 DEF Cancel, Known, userVars
  <2>2. ~hasCb'[t] /\ \A s \in Timers : s # t => hasCb'[s] = hasCb[s]
    BY <1>4 DEF Cancel
  <2> QED
    BY <2>1, <2>2
<1>5. ASSUME NEW t \in Timers, Refresh(u, t)
      PROVE  QueueInv'
  BY <1>5 DEF Refresh, userVars, histVars
<1>6. ASSUME NEW t \in Timers, NEW m \in Periods, NEW b \in BOOLEAN, Reset(u, t, m, b)
      PROVE  QueueInv'
  <2>1. timers' = timers
    BY <1>6 DEF Reset, InsertLocked
  <2> QED
    BY <1>6, <2>1 DEF Reset, histVars
<1> QED
  BY <1>1, <1>2, <1>3, <1>4, <1>5, <1>6 DEF UserStep

\* A poller touches callbacks and queue in listExpiredCb() only.
LEMMA QueuePoll ==
  ASSUME TypeInv, QueueInv, NEW p \in Pollers, PollStep(p)
  PROVE  QueueInv'
<1>1. CASE ListExpiredCb(p)
  <2> DEFINE exp == Expired(p)
  <2>1. exp \subseteq timers
    BY DEF Expired
  <2>2. /\ timers' = timers \ {t \in exp : ~recurring[t]}
        /\ \A t \in Timers : hasCb'[t] <=> hasCb[t] /\ (t \notin exp \/ recurring[t])
        /\ made' = made /\ making' = making /\ cancelled' = cancelled
    BY <1>1 DEF ListExpiredCb, userVars
  <2> HIDE DEF exp
  <2> QED
    BY <2>1, <2>2 DEF TypeInv, TypeOK, QueueInv, Making
<1>2. CASE ~ListExpiredCb(p)
  <2>1. UNCHANGED <<timers, made, hasCb, making, cancelled>>
    BY <1>2 DEF PollStep, EnterIdle, GetNextTimer, Wake, ReadNow, LeaveIdle,
                timerVars, userVars, histVars
  <2> QED
    BY <2>1 DEF QueueInv, Making
<1> QED
  BY <1>1, <1>2

LEMMA QueueStep == TypeInv /\ QueueInv /\ [Next]_vars => QueueInv'
<1> SUFFICES ASSUME TypeInv, QueueInv, [Next]_vars
             PROVE  QueueInv'
  OBVIOUS
<1>1. CASE \E u \in Users : UserStep(u)
  BY <1>1, QueueUser
<1>2. CASE \E p \in Pollers : PollStep(p)
  BY <1>2, QueuePoll
<1>3. CASE Tick \/ (\E d \in SetBacks : SetBack(d)) \/ UNCHANGED vars
  <2>1. UNCHANGED <<timers, made, hasCb, making, cancelled>>
    BY <1>3 DEF Tick, SetBack, vars, timerVars, userVars, histVars
  <2> QED
    BY <2>1 DEF QueueInv, Making
<1> QED
  BY <1>1, <1>2, <1>3 DEF Next

LEMMA QueueInvariant == Spec => [](TypeInv /\ QueueInv)
BY TypeInit, TypeStep, QueueInit, QueueStep, PTL DEF Spec

\* cancel(), refresh() and reset() find a timer with a callback in the queue,
\* however they interleave with each other, with listExpiredCb() and with
\* set-backs of the clock: erase(find()) in cancel() never gets end().
THEOREM QueueConsistent == Spec => []CallbackMeansQueued
<1>1. TypeInv /\ QueueInv => CallbackMeansQueued
  BY DEF TypeInv, TypeOK, QueueInv, CallbackMeansQueued, Known, Making
<1> QED
  BY <1>1, QueueInvariant, PTL

\* A cancelled timer is out of the queue, from which alone callbacks are
\* collected, and nothing brings it back: its callback is not collected again.
THEOREM CancelledStays == Spec => CancelIsFinal
<1>1. ASSUME TypeInv, QueueInv, [Next]_vars, NEW t \in cancelled
      PROVE  listed'[t] = listed[t]
  <2>1. t \in Timers /\ t \notin timers
    BY <1>1 DEF TypeInv, TypeOK, QueueInv
  <2>2. CASE listed' = listed
    BY <2>2
  <2>3. ASSUME NEW p \in Pollers, ListExpiredCb(p)
        PROVE  listed'[t] = listed[t]
    <3>1. t \notin Expired(p)
      BY <2>1 DEF Expired
    <3> QED
      BY <2>1, <2>3, <3>1 DEF ListExpiredCb
  <2>4. listed' = listed \/ \E p \in Pollers : ListExpiredCb(p)
    <3>1. ASSUME NEW u \in Users, UserStep(u)
          PROVE  listed' = listed
      BY <3>1 DEF UserStep, Construct, Insert, Notify, Cancel, Refresh, Reset, histVars
    <3>2. ASSUME NEW p \in Pollers, PollStep(p)
          PROVE  listed' = listed \/ ListExpiredCb(p)
      BY <3>2 DEF PollStep, EnterIdle, GetNextTimer, Wake, ReadNow, LeaveIdle, histVars
    <3> QED
      BY <1>1, <3>1, <3>2 DEF Next, Tick, SetBack, histVars, vars
  <2> QED
    BY <2>2, <2>3, <2>4
<1>2. TypeInv /\ QueueInv /\ [Next]_vars
        => [\A t \in cancelled : listed'[t] = listed[t]]_vars
  BY <1>1
<1> QED
  BY <1>2, QueueInvariant, PTL DEF Spec, CancelIsFinal

\* A timer that is not yet collected and does not recur has its callback: the
\* count can only leave zero together with the callback.
OneShotInv ==
  /\ \A t \in Timers \ made : listed[t] = 0
  /\ \A t \in Timers : ~recurring[t] /\ hasCb[t] => listed[t] = 0
  /\ OneShotOnce

LEMMA OneShotStep == TypeInv /\ QueueInv /\ OneShotInv /\ [Next]_vars => OneShotInv'
<1> SUFFICES ASSUME TypeInv, QueueInv, OneShotInv, [Next]_vars
             PROVE  OneShotInv'
  OBVIOUS
<1> USE DEF TypeInv, TypeOK, OneShotInv, OneShotOnce
<1>1. ASSUME NEW u \in Users, NEW t \in Timers, NEW m \in Periods, NEW r \in BOOLEAN,
             Construct(u, t, m, r)
      PROVE  OneShotInv'
  BY <1>1 DEF Construct, histVars
<1>2. ASSUME NEW u \in Users, NEW t \in Timers, Cancel(u, t)
      PROVE  OneShotInv'
  BY <1>2 DEF Cancel
<1>3. ASSUME NEW p \in Pollers, ListExpiredCb(p)
      PROVE  OneShotInv'
  <2> DEFINE exp == Expired(p)
  <2>1. \A t \in exp : t \in made /\ hasCb[t]
    BY DEF Expired, QueueInv
  <2>2. /\ \A t \in Timers : hasCb'[t] <=> hasCb[t] /\ (t \notin exp \/ recurring[t])
        /\ \A t \in Timers : listed'[t] = IF t \in exp /\ listed[t] < 2 THEN listed[t] + 1
                                          ELSE listed[t]
        /\ made' = made /\ recurring' = recurring
    BY <1>3 DEF ListExpiredCb
  <2> HIDE DEF exp
  <2> QED
    BY <2>1, <2>2
<1>4. CASE UNCHANGED <<made, recurring, hasCb, listed>>
  BY <1>4
<1>5. UNCHANGED <<made, recurring, hasCb, listed>>
      \/ (\E u \in Users, t \in Timers, m \in Periods, r \in BOOLEAN : Construct(u, t, m, r))
      \/ (\E u \in Users, t \in Timers : Cancel(u, t))
      \/ \E p \in Pollers : ListExpiredCb(p)
  <2>1. ASSUME NEW u \in Users, UserStep(u)
        PROVE  \/ UNCHANGED <<made, recurring, hasCb, listed>>
               \/ \E t \in Timers, m \in Periods, r \in BOOLEAN : Construct(u, t, m, r)
               \/ \E t \in Timers : Cancel(u, t)
    BY <2>1 DEF UserStep, Insert, Notify, Refresh, Reset, timerVars, histVars
  <2>2. ASSUME NEW p \in Pollers, PollStep(p)
        PROVE  UNCHANGED <<made, recurring, hasCb, listed>> \/ ListExpiredCb(p)
    BY <2>2 DEF PollStep, EnterIdle, GetNextTimer, Wake, ReadNow, LeaveIdle, timerVars, histVars
  <2> QED
    BY <2>1, <2>2 DEF Next, Tick, SetBack, timerVars, histVars, vars
<1> QED
  BY <1>1, <1>2, <1>3, <1>4, <1>5

\* A callback that does not recur is handed to the scheduler at most once, also
\* when a poller collects it while users reset or refresh it.
THEOREM OneShotsOnce == Spec => []OneShotOnce
<1>1. Init => OneShotInv
  BY DEF Init, OneShotInv, OneShotOnce
<1>2. OneShotInv => OneShotOnce
  BY DEF OneShotInv
<1> QED
  BY <1>1, <1>2, OneShotStep, QueueInvariant, PTL DEF Spec

-----------------------------------------------------------------------------
(* No wake-up is lost, as long as the clock is not set back.  Two facts make *)
(* the __tickled flag right: while it is up somebody is about to look at the *)
(* queue, so a timer inserted at the front need not wake anyone; and when it *)
(* is taken down, by getNextTimer(), the poller takes the front of the queue *)
(* for its deadline.  refresh() never moves a timer forward in time, so it   *)
(* need not wake anyone at all; that holds because __next was computed from  *)
(* an earlier reading of the clock.                                          *)

MonoInv ==
  /\ \A t \in Timers : next[t] <= clock + ms[t] /\ ms[t] < IntLimit
  /\ \A p \in Pollers : now[p] <= clock

\* Every period fits an int (a little less than 25 days).
ShortPeriods == \A m \in Periods : m < IntLimit

WakeInv ==
  /\ tickled => Attended
  /\ NoLostWakeup

MonoNext == Next /\ clock' >= clock

LEMMA MonoStep == ShortPeriods /\ TypeInv /\ MonoInv /\ [MonoNext]_vars => MonoInv'
<1> SUFFICES ASSUME ShortPeriods, TypeInv, MonoInv, [MonoNext]_vars
             PROVE  MonoInv'
  OBVIOUS
<1> USE TimerAssumption DEF TypeInv, TypeOK, MonoInv, ShortPeriods
<1>1. ASSUME NEW u \in Users, NEW t \in Timers, NEW m \in Periods, NEW r \in BOOLEAN,
             Construct(u, t, m, r)
      PROVE  MonoInv'
  BY <1>1 DEF Construct, pollVars
<1>2. ASSUME NEW u \in Users, NEW t \in Timers, Refresh(u, t)
      PROVE  MonoInv'
  BY <1>2 DEF Refresh, pollVars
<1>3. ASSUME NEW u \in Users, NEW t \in Timers, NEW m \in Periods, NEW b \in BOOLEAN,
             Reset(u, t, m, b)
      PROVE  MonoInv'
  <2>1. /\ next' = [next EXCEPT ![t] = (IF b THEN clock ELSE next[t] - ms[t]) + m]
        /\ ms' = [ms EXCEPT ![t] = m] /\ clock' = clock /\ now' = now
    BY <1>3 DEF Reset, pollVars
  <2>2. (IF b THEN clock ELSE next[t] - ms[t]) <= clock
    OBVIOUS
  <2>3. next'[t] <= clock + ms'[t] /\ ms'[t] < IntLimit
        /\ \A s \in Timers \ {t} : next'[s] <= clock + ms'[s] /\ ms'[s] < IntLimit
    BY <2>1, <2>2
  <2> QED
    BY <2>1, <2>3
<1>4. ASSUME NEW p \in Pollers, ReadNow(p)
      PROVE  MonoInv'
  BY <1>4 DEF ReadNow, timerVars
<1>5. ASSUME NEW p \in Pollers, ListExpiredCb(p)
      PROVE  MonoInv'
  <2>1. \A t \in Timers : next'[t] = now[p] + ms[t] \/ next'[t] = next[t]
    BY <1>5 DEF ListExpiredCb
  <2>2. now' = [now EXCEPT ![p] = 0] /\ clock' = clock /\ ms' = ms
    BY <1>5 DEF ListExpiredCb
  <2>3. \A t \in Timers : next'[t] <= clock + ms[t]
    BY <2>1
  <2> QED
    BY <2>2, <2>3
<1>6. CASE clock' \in Nat /\ clock' >= clock /\ UNCHANGED <<next, ms, now>>
  BY <1>6
<1>7. clock' \in Nat
  BY TypeStep DEF MonoNext
<1>8. (clock' >= clock /\ UNCHANGED <<next, ms, now>>)
      \/ (\E u \in Users, t \in Timers, m \in Periods, r \in BOOLEAN : Construct(u, t, m, r))
      \/ (\E u \in Users, t \in Timers : Refresh(u, t))
      \/ (\E u \in Users, t \in Timers, m \in Periods, b \in BOOLEAN : Reset(u, t, m, b))
      \/ \E p \in Pollers : ReadNow(p) \/ ListExpiredCb(p)
  BY DEF MonoNext, Next, UserStep, Insert, Notify, Cancel, PollStep, EnterIdle,
         GetNextTimer, Wake, LeaveIdle, Tick, SetBack, timerVars, pollVars, vars
<1> QED
  BY <1>1, <1>2, <1>3, <1>4, <1>5, <1>6, <1>7, <1>8

\* A user that inserts t, into rest, wakes a poller, or somebody attends to the
\* queue already, or an earlier timer is in front of t.
LEMMA WakeInsert ==
  ASSUME TypeInv, WakeInv, NEW u \in Users, NEW t \in made, NEW rest \in SUBSET timers,
         InsertLocked(u, t, rest), next' \in [Timers -> Nat],
         \A s \in rest : next'[s] = next[s],
         UNCHANGED <<clock, signal, pollVars>>
  PROVE  WakeInv'
<1> USE DEF TypeInv, TypeOK, WakeInv, NoLostWakeup, Attended, WakesBy, pollVars
<1>1. timers' = rest \cup {t} /\ notifying \subseteq notifying'
  BY DEF InsertLocked
<1>2. Attended => Attended'
  BY <1>1
<1>3. CASE Attended
  BY <1>2, <1>3
<1>4. CASE ~Attended /\ notifying' # {}
  BY <1>4
<1>5. CASE ~Attended /\ notifying' = {}
  <2>1. ~tickled
    BY <1>5
  <2>2. tickled' = FALSE /\ \E s \in rest : next'[s] <= next'[t]
    BY <1>5, <2>1 DEF InsertLocked
  <2>3. \A s \in timers' : \E p \in Pollers :
             deadline[p] # Never /\ (deadline[p] <= next'[s] \/ deadline[p] <= clock)
    BY <1>1, <1>5, <2>2
  <2> QED
    BY <2>2, <2>3
<1> QED
  BY <1>3, <1>4, <1>5

LEMMA WakeUser ==
  ASSUME TypeInv, MonoInv, WakeInv, NEW u \in Users, UserStep(u)
  PROVE  WakeInv'
<1>0. TypeInv'
  BY TypeUser
<1> USE TimerAssumption DEF TypeInv, TypeOK, WakeInv, NoLostWakeup, Attended, WakesBy
<1>1. ASSUME NEW t \in Timers, NEW m \in Periods, NEW r \in BOOLEAN, Construct(u, t, m, r)
      PROVE  WakeInv'
  BY <1>1 DEF Construct, pollVars
<1>2. CASE Insert(u)
  <2>1. making[u] \in made /\ InsertLocked(u, making[u], timers)
        /\ UNCHANGED <<next, clock, signal, pollVars>>
    BY <1>2 DEF Insert
  <2> QED
    BY <1>0, <2>1, WakeInsert
<1>3. CASE Notify(u)
  <2>1. UNCHANGED <<clock, timers, next, tickled, deadline, pollpc>>
    BY <1>3 DEF Notify, timerVars, pollVars
  <2>2. signal' <=> signal \/ \E p \in Pollers : Idling(p)
    BY <1>3 DEF Notify
  <2>3. CASE \E p \in Pollers : Idling(p)
    BY <2>2, <2>3
  <2>4. CASE \A p \in Pollers : ~Idling(p)
    BY <2>1, <2>4 DEF Idling
  <2> QED
    BY <2>3, <2>4
<1>4. ASSUME NEW t \in Timers, Cancel(u, t)
      PROVE  WakeInv'
  BY <1>4 DEF Cancel, userVars, pollVars
<1>5. ASSUME NEW t \in Timers, Refresh(u, t)
      PROVE  WakeInv'
  <2>1. /\ UNCHANGED <<clock, timers, tickled, notifying, signal, deadline, pollpc>>
        /\ \A s \in Timers : next[s] <= next'[s] /\ next'[s] \in Nat
    BY <1>0, <1>5 DEF Refresh, userVars, pollVars, MonoInv
  <2>2. \A p \in Pollers, s \in Timers : deadline[p] # Never /\ deadline[p] <= next[s]
                                      => deadline[p] <= next'[s]
    BY <2>1
  <2> QED
    BY <2>1, <2>2
<1>6. ASSUME NEW t \in Timers, NEW m \in Periods, NEW b \in BOOLEAN, Reset(u, t, m, b)
      PROVE  WakeInv'
  <2>1. t \in made /\ InsertLocked(u, t, timers \ {t})
        /\ UNCHANGED <<clock, signal, pollVars>>
    BY <1>6 DEF Reset
  <2>2. \A s \in timers \ {t} : next'[s] = next[s]
    BY <1>6 DEF Reset
  <2> QED
    BY <1>0, <2>1, <2>2, WakeInsert
<1> QED
  BY <1>1, <1>2, <1>3, <1>4, <1>5, <1>6 DEF UserStep

LEMMA WakePoll ==
  ASSUME TypeInv, MonoInv, WakeInv, NEW p \in Pollers, PollStep(p)
  PROVE  WakeInv'
<1> USE DEF TypeInv, TypeOK, WakeInv, NoLostWakeup, Attended, WakesBy, PollGoto
<1>1. CASE GetNextTimer(p)
  <2>1. tickled' = FALSE /\ UNCHANGED <<clock, timers, next>>
    BY <1>1 DEF GetNextTimer, timerVars
  <2>2. \A t \in timers : next[t] < clock + IntLimit
    BY TimerAssumption DEF MonoInv
  <2>3. Timeout \in Nat /\ \A t \in timers : clock + Timeout <= next[t] \/ Timeout = 0
    BY <2>2, TimeoutBound
  <2>4. deadline'[p] = clock + Timeout
    BY <1>1, <2>3, TimerAssumption DEF GetNextTimer, SleepUntil
  <2>5. \A t \in timers : deadline'[p] <= next[t] \/ deadline'[p] <= clock
    BY <2>3, <2>4
  <2>6. deadline'[p] # Never
    BY <2>3, <2>4, TimerAssumption
  <2> QED
    BY <2>1, <2>5, <2>6
<1>2. CASE ~GetNextTimer(p)
  <2>1. pollpc'[p] # "wait"
    BY <1>2 DEF PollStep, EnterIdle, Wake, ReadNow, ListExpiredCb, LeaveIdle
  <2>2. Attended'
    BY <2>1
  <2> QED
    BY <2>2
<1> QED
  BY <1>1, <1>2

LEMMA WakeStep == TypeInv /\ MonoInv /\ WakeInv /\ [MonoNext]_vars => WakeInv'
<1> SUFFICES ASSUME TypeInv, MonoInv, WakeInv, [MonoNext]_vars
             PROVE  WakeInv'
  OBVIOUS
<1>1. CASE \E u \in Users : UserStep(u)
  BY <1>1, WakeUser
<1>2. CASE \E p \in Pollers : PollStep(p)
  BY <1>2, WakePoll
<1>3. CASE Tick
  <2>1. /\ clock' = clock + 1
        /\ UNCHANGED <<timers, next, tickled, notifying, signal, deadline, pollpc>>
    BY <1>3 DEF Tick, timerVars, userVars, pollVars
  <2>2. \A q \in Pollers : deadline[q] # Never /\ deadline[q] <= clock => deadline[q] <= clock'
    BY <2>1 DEF TypeInv, TypeOK
  <2> QED
    BY <2>1, <2>2 DEF WakeInv, NoLostWakeup, Attended, WakesBy
<1>4. ASSUME NEW d \in SetBacks, SetBack(d), clock' >= clock
      PROVE  WakeInv'
  <2>1. d = 0
    BY <1>4, TimerAssumption DEF SetBack, TypeInv, TypeOK
  <2>2. clock' = clock /\ \A q \in Pollers : deadline'[q] = deadline[q]
    BY <1>4, <2>1 DEF SetBack, TypeInv, TypeOK
  <2>3. UNCHANGED <<timers, next, tickled, notifying, signal, pollpc>>
    BY <1>4 DEF SetBack, timerVars, userVars
  <2> QED
    BY <2>2, <2>3 DEF WakeInv, NoLostWakeup, Attended, WakesBy
<1>5. CASE UNCHANGED vars
  BY <1>5 DEF WakeInv, NoLostWakeup, Attended, WakesBy, vars, timerVars, userVars, pollVars
<1> QED
  BY <1>1, <1>2, <1>3, <1>4, <1>5 DEF MonoNext, Next

\* Unless the clock is set back or a period exceeds an int, some poller wakes in
\* time for every timer in the queue: addTimer(), reset() and refresh() never
\* leave the pollers asleep beyond the earliest timer, however they race with
\* getNextTimer().
THEOREM NoWakeupLost ==
  ASSUME ShortPeriods
  PROVE  MonotoneSpec => []NoLostWakeup
<1>1. Init => MonoInv /\ WakeInv
  BY TimerAssumption DEF Init, MonoInv, WakeInv, NoLostWakeup, Attended, WakesBy
<1>2. TypeInv /\ [MonoNext]_vars => TypeInv'
  BY TypeStep DEF MonoNext
<1>3. WakeInv => NoLostWakeup
  BY DEF WakeInv
<1>4. [Next /\ clock' >= clock]_vars => [MonoNext]_vars
  BY DEF MonoNext
<1>5. TypeInv /\ MonoInv /\ [MonoNext]_vars => MonoInv'
  BY MonoStep
<1> QED
  BY <1>1, <1>2, <1>3, <1>4, <1>5, TypeInit, WakeStep, PTL DEF MonotoneSpec

-----------------------------------------------------------------------------
(* A callback is early only through a rollover, and without a set-back only  *)
(* a poller that is slow between reading the clock and taking __mutex sees   *)
(* one: others have moved __previouseTime more than an hour past its now_ms. *)

\* Only one thread runs IOManager::idle.
OnePoller == \A p, q \in Pollers : p = q

\* The clock gets no further than two hours, one after the start.
WithinTheHour == MaxClock + MaxTimeout <= 2 * Hour

\* A poller has read the clock more than an hour ago and not yet the queue.
Stalled == \E p \in Pollers : pollpc[p] = "list" /\ now[p] + Hour < clock

ClockInv ==
  /\ ~clockSet =>
       /\ Hour <= prevTime /\ prevTime <= clock
       /\ \A p \in Pollers : pollpc[p] = "list" =>
            Hour <= now[p] /\ now[p] <= clock /\ (OnePoller => prevTime <= now[p])
  /\ clock <= Hour \/ clock <= MaxClock + MaxTimeout

LEMMA ClockInit == Init => ClockInv
BY TimerAssumption DEF Init, ClockInv

LEMMA ClockPoll ==
  ASSUME TypeInv, ClockInv, NEW p \in Pollers, PollStep(p)
  PROVE  ClockInv'
<1> USE DEF TypeInv, TypeOK, ClockInv
<1>1. clock' = clock /\ clockSet' = clockSet
  BY DEF PollStep, EnterIdle, GetNextTimer, Wake, ReadNow, ListExpiredCb, LeaveIdle, histVars
<1>2. CASE ReadNow(p)
  <2>1. prevTime' = prevTime /\ now' = [now EXCEPT ![p] = clock]
        /\ pollpc' = [pollpc EXCEPT ![p] = "list"]
    BY <1>2 DEF ReadNow, PollGoto
  <2> QED
    BY <1>1, <2>1, TimerAssumption
<1>3. CASE ListExpiredCb(p)
  <2>1. /\ prevTime' = prevTime \/ prevTime' = now[p]
        /\ now' = [now EXCEPT ![p] = 0] /\ pollpc' = [pollpc EXCEPT ![p] = "events"]
        /\ pollpc[p] = "list"
    BY <1>3 DEF ListExpiredCb, PollGoto
  <2>2. \A q \in Pollers : pollpc'[q] = "list" => q # p /\ pollpc[q] = "list" /\ now'[q] = now[q]
    BY <2>1
  <2> QED
    BY <1>1, <2>1, <2>2, TimerAssumption DEF OnePoller
<1>4. CASE EnterIdle(p) \/ GetNextTimer(p) \/ Wake(p) \/ LeaveIdle(p)
  <2>1. prevTime' = prevTime /\ now' = now
    BY <1>4 DEF EnterIdle, GetNextTimer, Wake, LeaveIdle
  <2>2. \A q \in Pollers : pollpc'[q] = "list" => pollpc[q] = "list"
    BY <1>4 DEF EnterIdle, GetNextTimer, Wake, LeaveIdle, PollGoto
  <2> QED
    BY <1>1, <2>1, <2>2, TimerAssumption DEF OnePoller
<1> QED
  BY <1>2, <1>3, <1>4 DEF PollStep

LEMMA ClockStep == TypeInv /\ ClockInv /\ [Next]_vars => ClockInv'
<1> SUFFICES ASSUME TypeInv, ClockInv, [Next]_vars
             PROVE  ClockInv'
  OBVIOUS
<1>1. ASSUME NEW u \in Users, UserStep(u)
      PROVE  ClockInv'
  <2>1. UNCHANGED <<clock, clockSet, prevTime, pollpc, now>>
    BY <1>1 DEF UserStep, Construct, Insert, Notify, Cancel, Refresh, Reset, pollVars, histVars
  <2> QED
    BY <2>1 DEF ClockInv, OnePoller
<1>2. CASE \E p \in Pollers : PollStep(p)
  BY <1>2, ClockPoll
<1>3. CASE Tick
  BY <1>3, TimerAssumption
     DEF Tick, ClockInv, OnePoller, TypeInv, TypeOK, pollVars, histVars
<1>4. ASSUME NEW d \in SetBacks, SetBack(d)
      PROVE  ClockInv'
  BY <1>4, TimerAssumption DEF SetBack, ClockInv, TypeInv, TypeOK
<1>5. CASE UNCHANGED vars
  BY <1>5 DEF ClockInv, OnePoller, vars, pollVars, histVars
<1> QED
  BY <1>1, <1>2, <1>3, <1>4, <1>5 DEF Next

\* The step that collects callbacks, on a clock that has not been set back.
LEMMA CollectsDueOrStalled ==
  ASSUME TypeInv, ClockInv, [Next]_vars, ~clockSet,
         NEW t \in Timers, listed'[t] # listed[t]
  PROVE  \/ next[t] <= clock
         \/ Stalled /\ ~OnePoller /\ ~WithinTheHour
<1>1. PICK p \in Pollers : ListExpiredCb(p)
  <2>1. ASSUME NEW u \in Users, UserStep(u)
        PROVE  listed' = listed
    BY <2>1 DEF UserStep, Construct, Insert, Notify, Cancel, Refresh, Reset, histVars
  <2>2. ASSUME NEW p \in Pollers, PollStep(p)
        PROVE  listed' = listed \/ ListExpiredCb(p)
    BY <2>2 DEF PollStep, EnterIdle, GetNextTimer, Wake, ReadNow, LeaveIdle, histVars
  <2> QED
    BY <2>1, <2>2 DEF Next, Tick, SetBack, histVars, vars
<1>2. pollpc[p] = "list" /\ t \in Expired(p)
  BY <1>1 DEF ListExpiredCb
<1>3. CASE next[t] <= now[p]
  BY <1>2, <1>3 DEF ClockInv, TypeInv, TypeOK
<1>4. CASE Rollover(p)
  <2>1. now[p] \in Nat /\ prevTime \in Nat /\ clock \in Nat /\ Hour \in Nat
    BY TimerAssumption DEF TypeInv, TypeOK
  <2>2. Hour <= now[p] /\ Hour <= prevTime /\ prevTime <= clock /\ now[p] < prevTime - Hour
    BY <1>2, <1>4, <2>1 DEF ClockInv, Rollover
  <2>3. Stalled
    BY <1>2, <2>1, <2>2 DEF Stalled
  <2>4. ~OnePoller
    BY <1>2, <2>1, <2>2 DEF ClockInv
  <2>5. ~WithinTheHour
    BY <2>1, <2>2, TimerAssumption DEF ClockInv, WithinTheHour
  <2> QED
    BY <2>3, <2>4, <2>5
<1> QED
  BY <1>2, <1>3, <1>4 DEF Expired

\* listExpiredCb() collects nothing before its time unless the clock is set back
\* or a poller has been held up for more than an hour on its way to __mutex.
THEOREM EarlyMeansStalled ==
  Spec => [][\A t \in Timers :
               listed'[t] # listed[t] /\ ~clockSet /\ ~Stalled => next[t] <= clock]_vars
<1>1. TypeInv /\ ClockInv /\ [Next]_vars =>
        [\A t \in Timers :
           listed'[t] # listed[t] /\ ~clockSet /\ ~Stalled => next[t] <= clock]_vars
  BY CollectsDueOrStalled
<1> QED
  BY <1>1, TypeInit, TypeStep, ClockInit, ClockStep, PTL DEF Spec

\* With one poller, or in the first hour, no callback is early on a clock that
\* is not set back: what another poller does in between cannot look like a
\* rollover to detectClockRollover().
THEOREM CollectsOnlyDue ==
  ASSUME OnePoller \/ WithinTheHour
  PROVE  Spec => NeverEarly
<1>1. TypeInv /\ ClockInv /\ [Next]_vars =>
        [\A t \in Timers : listed'[t] # listed[t] /\ ~clockSet => next[t] <= clock]_vars
  BY CollectsDueOrStalled
<1> QED
  BY <1>1, TypeInit, TypeStep, ClockInit, ClockStep, PTL DEF Spec, NeverEarly

================================================================================
