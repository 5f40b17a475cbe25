---------------------------- MODULE TimerManager ----------------------------
(***************************************************************************)
(* The timer queue (Timer.cpp) between users that add, cancel, refresh and *)
(* reset timers and pollers, the threads of IOManager::idle, that sleep    *)
(* until the earliest timer is due and collect the callbacks of the        *)
(* expired ones.  onTimerInsertedAtFront() is IOManager's: it wakes one    *)
(* sleeping poller through an edge-triggered pipe.                         *)
(*                                                                         *)
(* Operations are atomic where __mutex makes them so.  Timer's constructor *)
(* reads the clock before the lock is taken, onTimerInsertedAtFront() runs *)
(* after it is released, listExpiredCb() reads the clock before locking.   *)
(***************************************************************************)
EXTENDS Integers, FiniteSets

CONSTANTS
  Timers,      \* Timer objects
  Users,       \* threads that operate on timers
  Pollers,     \* threads that run IOManager::idle
  Periods,     \* values of the ms argument
  MaxTimeout,  \* MAX_TIMEOUT, meant as the longest epoll_wait
  IntLimit,    \* 2^31, the first number an int cannot hold
  Never,       \* the deadline of an epoll_wait with a negative timeout
  Hour,        \* the set-back detectClockRollover() takes for a rollover
  SetBacks,    \* amounts by which the wall clock may be set back
  MaxClock,    \* bound: until when users begin operations
  NoTimer      \* a user thread that is constructing no timer

ASSUME TimerAssumption ==
  /\ Periods \subseteq Nat /\ SetBacks \subseteq Nat
  /\ MaxTimeout \in Nat \ {0} /\ Hour \in Nat \ {0} /\ MaxClock \in Nat
  /\ IntLimit \in Nat /\ MaxTimeout < IntLimit
  /\ NoTimer \notin Timers /\ Never \notin Int /\ Pollers # {}

VARIABLES
  clock,       \* GetCurrentMS()
  timers,      \* __timers
  made,        \* Timer objects constructed
  next, ms,    \* Timer::__next, __ms
  recurring,   \* Timer::__recurring
  hasCb,       \* Timer::__cb is not null
  tickled,     \* __tickled
  prevTime,    \* __previouseTime
  making,      \* the timer a user has constructed and not yet inserted
  notifying,   \* users on their way to onTimerInsertedAtFront()
  signal,      \* the tickle pipe is readable, its edge not yet consumed
  pollpc,      \* where a poller is
  deadline,    \* when a sleeping poller's epoll_wait times out (awake: 0)
  now,         \* now_ms of a poller in listExpiredCb() (else 0)
  cancelled,   \* history: cancel() returned true
  listed,      \* history: times the callback was collected (2: twice or more)
  clockSet     \* history: the wall clock has been set back

timerVars == <<timers, made, next, ms, recurring, hasCb>>
userVars  == <<making, notifying>>
pollVars  == <<pollpc, deadline, now>>
histVars  == <<cancelled, listed, clockSet>>
vars == <<clock, timerVars, tickled, prevTime, userVars, signal, pollVars, histVars>>

Init ==
  /\ clock = Hour /\ prevTime = Hour
  /\ timers = {} /\ made = {}
  /\ next = [t \in Timers |-> 0] /\ ms = [t \in Timers |-> 0]
  /\ recurring = [t \in Timers |-> FALSE] /\ hasCb = [t \in Timers |-> FALSE]
  /\ tickled = FALSE
  /\ making = [u \in Users |-> NoTimer] /\ notifying = {}
  /\ signal = FALSE
  /\ pollpc = [p \in Pollers |-> "busy"]
  /\ deadline = [p \in Pollers |-> 0] /\ now = [p \in Pollers |-> 0]
  /\ cancelled = {} /\ listed = [t \in Timers |-> 0]
  /\ clockSet = FALSE

-----------------------------------------------------------------------------
(* Users.                                                                  *)

\* A user between two calls (bound: MaxClock).
Free(u) == making[u] = NoTimer /\ u \notin notifying /\ clock <= MaxClock

\* Definitions named Bad... are faulty variants of the definition that follows
\* them; no specification uses them.

BadKnown(t) == t \in made

\* Timers a user holds a handle of: addTimer() has returned them.
Known(t) == t \in made /\ \A u \in Users : making[u] # t

\* addTimer(val, lock): front and not tickled yet means this user notifies.
\* Timers of the same time are ordered by their addresses.
InsertLocked(u, t, rest) ==
  \E front \in BOOLEAN :
    /\ (\A s \in rest : next'[t] < next'[s]) => front
    /\ front => \A s \in rest : next'[t] <= next'[s]
    /\ timers' = rest \cup {t}
    /\ tickled' = (tickled \/ front)
    /\ notifying' = IF front /\ ~tickled THEN notifying \cup {u} ELSE notifying

\* addTimer(ms, cb, recurring): the constructor computes __next ...
Construct(u, t, m, r) ==
  /\ Free(u) /\ t \notin made
  /\ made' = made \cup {t}
  /\ making' = [making EXCEPT ![u] = t]
  /\ next' = [next EXCEPT ![t] = clock + m]
  /\ ms' = [ms EXCEPT ![t] = m]
  /\ recurring' = [recurring EXCEPT ![t] = r]
  /\ hasCb' = [hasCb EXCEPT ![t] = TRUE]
  /\ UNCHANGED <<clock, timers, tickled, prevTime, notifying, signal, pollVars, histVars>>

\* ... and the timer is inserted under the lock.
Insert(u) ==
  /\ making[u] # NoTimer
  /\ UNCHANGED <<made, next, ms, recurring, hasCb>>
  /\ InsertLocked(u, making[u], timers)
  /\ making' = [making EXCEPT ![u] = NoTimer]
  /\ UNCHANGED <<clock, prevTime, signal, pollVars, histVars>>

\* Threads between ++__idle_thread_count and its decrement.
Idling(p) == pollpc[p] # "busy"

\* onTimerInsertedAtFront() -> tickle(): nothing is written if nobody is idle.
Notify(u) ==
  /\ u \in notifying
  /\ notifying' = notifying \ {u}
  /\ signal' = (signal \/ \E p \in Pollers : Idling(p))
  /\ UNCHANGED <<clock, timerVars, tickled, prevTime, making, pollVars, histVars>>

Cancel(u, t) ==
  /\ Free(u) /\ Known(t) /\ hasCb[t]
  /\ hasCb' = [hasCb EXCEPT ![t] = FALSE]
  /\ timers' = timers \ {t}
  /\ cancelled' = cancelled \cup {t}
  /\ UNCHANGED <<clock, made, next, ms, recurring, tickled, prevTime, userVars,
                 signal, pollVars, listed, clockSet>>

BadRefresh(u, t) ==
  /\ Free(u) /\ Known(t)
  /\ next' = [next EXCEPT ![t] = clock + ms[t]]
  /\ timers' = timers \cup {t}
  /\ UNCHANGED <<clock, made, ms, recurring, hasCb, tickled, prevTime,
                 userVars, signal, pollVars, histVars>>

Refresh(u, t) ==
  /\ Free(u) /\ Known(t) /\ hasCb[t] /\ t \in timers
  /\ next' = [next EXCEPT ![t] = clock + ms[t]]
  /\ UNCHANGED <<clock, timers, made, ms, recurring, hasCb, tickled, prevTime,
                 userVars, signal, pollVars, histVars>>

Reset(u, t, m, fromNow) ==
  /\ Free(u) /\ Known(t) /\ (m # ms[t] \/ fromNow)
  /\ hasCb[t] /\ t \in timers
  /\ next' = [next EXCEPT ![t] = (IF fromNow THEN clock ELSE @ - ms[t]) + m]
  /\ ms' = [ms EXCEPT ![t] = m]
  /\ InsertLocked(u, t, timers \ {t})
  /\ UNCHANGED <<clock, made, recurring, hasCb, prevTime, making, signal, pollVars,
                 histVars>>

UserStep(u) ==
  \/ \E t \in Timers, m \in Periods, r \in BOOLEAN : Construct(u, t, m, r)
  \/ Insert(u) \/ Notify(u)
  \/ \E t \in Timers : Cancel(u, t) \/ Refresh(u, t)
  \/ \E t \in Timers, m \in Periods, b \in BOOLEAN : Reset(u, t, m, b)

-----------------------------------------------------------------------------
(* Pollers: one turn of the loop of IOManager::idle.                       *)

PollGoto(p, l) == pollpc' = [pollpc EXCEPT ![p] = l]

\* Back from the tasks of Scheduler::run into the idle fiber.
EnterIdle(p) ==
  /\ pollpc[p] = "busy"
  /\ PollGoto(p, "next")
  /\ UNCHANGED <<clock, timerVars, tickled, prevTime, userVars, signal, deadline,
                 now, histVars>>

Earliest(t) == t \in timers /\ \A s \in timers : next[t] <= next[s]

\* The (int) casts of idle(): a long wait may come out negative or short.
ToInt(x) ==
  IF x < IntLimit THEN x
  ELSE LET r == x % (2 * IntLimit) IN IF r < IntLimit THEN r ELSE r - 2 * IntLimit

BadEpollTimeout(x) == IF ToInt(x) < 0 THEN Never ELSE ToInt(x)

\* What epoll_wait makes of next_timeout: MAX_TIMEOUT is an upper bound, and a
\* negative timeout means none at all.
EpollTimeout(x) ==
  IF ToInt(x) < 0 THEN Never
  ELSE IF ToInt(x) > MaxTimeout THEN MaxTimeout ELSE ToInt(x)

\* getNextTimer() and the timeout idle() passes to epoll_wait.
Timeout ==
  IF timers = {} THEN MaxTimeout
  ELSE LET t == CHOOSE t \in timers : Earliest(t)
       IN  IF clock >= next[t] THEN 0 ELSE EpollTimeout(next[t] - clock)

SleepUntil(p, timeout) ==
  deadline' = [deadline EXCEPT ![p] = IF timeout = Never THEN Never ELSE clock + timeout]

BadGetNextTimer(p) ==
  /\ pollpc[p] = "next"
  /\ SleepUntil(p, Timeout)
  /\ PollGoto(p, "wait")
  /\ UNCHANGED <<clock, timerVars, tickled, prevTime, userVars, signal, now, histVars>>

GetNextTimer(p) ==
  /\ pollpc[p] = "next"
  /\ tickled' = FALSE
  /\ SleepUntil(p, Timeout)
  /\ PollGoto(p, "wait")
  /\ UNCHANGED <<clock, timerVars, prevTime, userVars, signal, now, histVars>>

\* A poller asleep wakes by itself at time x or before.
WakesBy(p, x) == deadline[p] # Never /\ deadline[p] <= x

\* epoll_wait returns: its timeout is over, or this thread got the edge.
Wake(p) ==
  /\ pollpc[p] = "wait"
  /\ \/ WakesBy(p, clock) /\ UNCHANGED signal
     \/ signal /\ signal' = FALSE
  /\ PollGoto(p, "now")
  /\ deadline' = [deadline EXCEPT ![p] = 0]
  /\ UNCHANGED <<clock, timerVars, tickled, prevTime, userVars, now, histVars>>

ReadNow(p) ==
  /\ pollpc[p] = "now"
  /\ now' = [now EXCEPT ![p] = clock]
  /\ PollGoto(p, "list")
  /\ UNCHANGED <<clock, timerVars, tickled, prevTime, userVars, signal, deadline, histVars>>

\* __previouseTime is unsigned: less than an hour, the difference wraps round.
Rollover(p) ==
  now[p] < prevTime /\ (prevTime < Hour \/ now[p] < prevTime - Hour)

BadExpiredSoon(p) == {t \in timers : Rollover(p) \/ next[t] <= now[p] + 1}
BadExpiredExact(p) == {t \in timers : Rollover(p) \/ next[t] = now[p]}

\* What listExpiredCb() takes: everything after a rollover, else what is due.
Expired(p) == {t \in timers : Rollover(p) \/ next[t] <= now[p]}

ListExpiredCb(p) ==
  LET exp == Expired(p) IN
  /\ pollpc[p] = "list"
  /\ prevTime' = IF timers = {} THEN prevTime ELSE now[p]
  /\ timers' = timers \ {t \in exp : ~recurring[t]}
  /\ next' = [t \in Timers |-> IF t \in exp /\ recurring[t] THEN now[p] + ms[t] ELSE next[t]]
  /\ hasCb' = [t \in Timers |-> hasCb[t] /\ (t \notin exp \/ recurring[t])]
  /\ listed' = [t \in Timers |-> IF t \in exp /\ listed[t] < 2 THEN listed[t] + 1
                                 ELSE listed[t]]
  /\ now' = [now EXCEPT ![p] = 0]
  /\ PollGoto(p, "events")
  /\ UNCHANGED <<clock, made, ms, recurring, tickled, userVars, signal, deadline,
                 cancelled, clockSet>>

\* The callbacks are scheduled, fd events handled, the idle fiber swaps out.
LeaveIdle(p) ==
  /\ pollpc[p] = "events"
  /\ PollGoto(p, "busy")
  /\ UNCHANGED <<clock, timerVars, tickled, prevTime, userVars, signal, deadline,
                 now, histVars>>

PollStep(p) ==
  EnterIdle(p) \/ GetNextTimer(p) \/ Wake(p) \/ ReadNow(p) \/ ListExpiredCb(p)
  \/ LeaveIdle(p)

-----------------------------------------------------------------------------
(* The wall clock (gettimeofday).                                          *)

\* Bound: the clock goes on for the longest sleep after the last operation.
Tick ==
  /\ clock < MaxClock + MaxTimeout
  /\ clock' = clock + 1
  /\ UNCHANGED <<timerVars, tickled, prevTime, userVars, signal, pollVars, histVars>>

\* Somebody sets the clock back.  An epoll_wait under way keeps its remaining time.
SetBack(d) ==
  /\ d <= clock
  /\ clockSet' = TRUE
  /\ clock' = clock - d
  /\ deadline' = [p \in Pollers |-> IF deadline[p] = Never THEN Never
                                   ELSE IF deadline[p] >= d THEN deadline[p] - d ELSE 0]
  /\ UNCHANGED <<timerVars, tickled, prevTime, userVars, signal, pollpc, now,
                 cancelled, listed>>

Next ==
  \/ \E u \in Users : UserStep(u)
  \/ \E p \in Pollers : PollStep(p)
  \/ Tick
  \/ \E d \in SetBacks : SetBack(d)

Spec == Init /\ [][Next]_vars

\* The behaviours in which nobody sets the clock back.
MonotoneSpec == Init /\ [][Next /\ clock' >= clock]_vars

\* Threads run, time passes and is not set back for ever; users need not do
\* anything but finish their calls.
Fairness ==
  /\ WF_vars(Tick) /\ <>[][clock' >= clock]_clock
  /\ \A p \in Pollers : WF_vars(PollStep(p))
  /\ \A u \in Users : WF_vars(Insert(u) \/ Notify(u))

FairSpec == Spec /\ Fairness

-----------------------------------------------------------------------------
(* Properties.                                                             *)

TypeOK ==
  /\ clock \in Nat /\ prevTime \in Nat
  /\ timers \subseteq made /\ made \subseteq Timers
  /\ next \in [Timers -> Nat] /\ ms \in [Timers -> Nat]
  /\ recurring \in [Timers -> BOOLEAN] /\ hasCb \in [Timers -> BOOLEAN]
  /\ tickled \in BOOLEAN /\ signal \in BOOLEAN
  /\ making \in [Users -> made \cup {NoTimer}] /\ notifying \subseteq Users
  /\ pollpc \in [Pollers -> {"busy", "next", "wait", "now", "list", "events"}]
  /\ deadline \in [Pollers -> Nat \cup {Never}]
  /\ \A p \in Pollers : deadline[p] # Never => deadline[p] <= clock + MaxTimeout
  /\ now \in [Pollers -> Nat]
  /\ cancelled \subseteq Timers /\ listed \in [Timers -> 0..2] /\ clockSet \in BOOLEAN

\* A timer the user holds has its callback exactly as long as it is in the
\* queue: cancel() erases the iterator of find() without testing for end().
CallbackMeansQueued == \A t \in Timers : Known(t) => (hasCb[t] <=> t \in timers)

\* Someone is about to look at the queue: a poller that is not asleep, a
\* wake-up in the pipe, or a user that has still to write it.
Attended ==
  \/ signal \/ notifying # {}
  \/ \E p \in Pollers : pollpc[p] # "wait"

\* No wake-up is lost: while every poller sleeps and none is being woken, one
\* of them wakes no later than any timer in the queue.  The __tickled flag lets
\* later insertions at the front keep quiet, and this is what makes it right.
NoLostWakeup ==
  Attended \/ \A t \in timers : \E p \in Pollers : WakesBy(p, next[t]) \/ WakesBy(p, clock)

\* After cancel() has returned true the callback is never collected again,
\* whatever refresh, reset or recurrence was under way.
CancelIsFinal == [][\A t \in cancelled : listed'[t] = listed[t]]_vars

\* Nothing but the rescue after a rollover collects a callback before its time:
\* on a clock that only advances, none is early.
NeverEarly ==
  [][\A t \in Timers : listed'[t] # listed[t] /\ ~clockSet => next[t] <= clock]_vars

\* A timer that does not recur is collected at most once.
OneShotOnce == \A t \in Timers : ~recurring[t] => listed[t] <= 1

\* A timer that is due is collected, cancelled or moved.
DueIsCollected == \A t \in Timers :
  (t \in timers /\ next[t] <= clock) ~> (t \notin timers \/ next[t] > clock)

=============================================================================
