------------------------------ MODULE IOManager ------------------------------
(***************************************************************************)
(* The I/O scheduler (IOManager.cpp): Scheduler::run with an idle() that   *)
(* sleeps in epoll_wait, timers and fd events that schedule tasks, and a   *)
(* tickle() that writes the wake-up pipe.                                  *)
(*                                                                         *)
(* Time is abstracted: a timer in the queue becomes due at any moment, and *)
(* an epoll_wait may time out at any moment, its timeout being at most     *)
(* MAX_TIMEOUT.  TimerManager.tla has the timer queue in detail.  The      *)
(* callback of a timer, and of an event added with a callback, is a task.  *)
(*                                                                         *)
(* Precondition: addEvent is called on a thread that has a scheduler.  It  *)
(* stores Scheduler::GetThis(), which is null on a calling thread that     *)
(* does not run the loop, and triggerEvent would call schedule() on it.    *)
(* So the calling thread adds timers here, and tasks add events too.       *)
(***************************************************************************)
EXTENDS Scheduler

CONSTANTS
  Fds,          \* file descriptors
  UseTimers,    \* tasks and the caller add timers
  UseEvents,    \* tasks add events with callbacks
  UseFibers,    \* tasks wait for an event in their fiber
  UseCancel,    \* tasks cancel events
  UserArms      \* the calling thread itself adds timers

Events == {"READ", "WRITE"}

ASSUME IOAssumption ==
  /\ IsFiniteSet(Fds) /\ None \notin Fds
  /\ {UseTimers, UseEvents, UseFibers, UseCancel, UserArms} \subseteq BOOLEAN
  /\ \A s \in Shapes : ~s.caller   \* stop() asks stopping() of a root fiber only

VARIABLES
  timers, due,    \* __timers, and those whose time has come
  signal,         \* the edge of the tickle pipe, not yet consumed
  fdEvents,       \* FdContext::__events
  waiter,         \* EventContext::__fiber or __cb, per fd and event
  fdLock,         \* the holder of FdContext::__mutex across several steps
  pending,        \* __pendingEventCount
  edge,           \* events (or "ERR") of an fd that epoll_wait will report
  dropped,        \* history: fibers that delEvent has taken from their event
  cbs,            \* idle(): cbs, collected and not yet scheduled
  got,            \* idle(): reports of epoll_wait not yet handled
  todo            \* events a thread has deregistered and still has to trigger

tmVars == <<timers, due>>
fdVars == <<fdEvents, waiter, fdLock, edge, dropped>>
idleVars == <<cbs, got>>
ioVars == <<tmVars, signal, fdVars, pending, idleVars, todo>>

NoTodo == [fd |-> None, left |-> {}, back |-> "run"]
IOPCs == PCs \cup {"ckpending", "ckqueue", "wait", "list", "sched", "events",
                   "trigger", "dec"}

IOInit ==
  /\ Init
  /\ timers = {} /\ due = {} /\ signal = FALSE
  /\ fdEvents = [d \in Fds |-> {}]
  /\ waiter = [d \in Fds |-> [e \in Events |-> NoEntry]]
  /\ fdLock = [d \in Fds |-> None]
  /\ pending = 0
  /\ edge = [d \in Fds |-> {}] /\ dropped = {}
  /\ cbs = [w \in Threads |-> {}] /\ got = [w \in Threads |-> {}]
  /\ todo = [w \in Threads |-> NoTodo]

-----------------------------------------------------------------------------
(* tickle(): writes one byte unless no thread is idle.                     *)

WritePipe == signal' = (signal \/ idle > 0)

IOTickle(w) ==
  /\ fault = "none" /\ toTickle[w] > 0
  /\ toTickle' = [toTickle EXCEPT ![w] = @ - 1]
  /\ WritePipe
  /\ UNCHANGED <<ctlVars, fibers, countVars, fiberVars, pc, threadVars, taskVars,
                 fault, tmVars, fdVars, pending, idleVars, todo>>

-----------------------------------------------------------------------------
(* Adding timers and events, from a task or from the calling thread.       *)
(* Definitions named Bad... are faulty variants of the one that follows.   *)

\* A new callback t is kept by a timer or an event until it is scheduled.
Keep(t) ==
  /\ status[t] = "new"
  /\ status' = [status EXCEPT ![t] = "queued"]
  /\ UNCHANGED <<yields, pin>>

\* addTimer: an insertion at the front tickles (front is left open here).
AddTimer(w, t) ==
  /\ UseTimers /\ Keep(t)
  /\ timers' = timers \cup {t}
  /\ \E n \in {0, 1} :
       /\ timers = {} => n = 1
       /\ toTickle' = [toTickle EXCEPT ![w] = n]
  /\ UNCHANGED <<ctlVars, fibers, countVars, fiberVars, pc, threadVars, fault,
                 due, signal, fdVars, pending, idleVars, todo>>

BadRegister(d, e, entry) ==
  /\ fdLock[d] = None /\ e \notin fdEvents[d]
  /\ fdEvents' = [fdEvents EXCEPT ![d] = @ \cup {e}]
  /\ waiter' = [waiter EXCEPT ![d][e] = entry]
  /\ fault' = IF waiter[d][e] = NoEntry THEN "none" ELSE "assert"
  /\ UNCHANGED <<fdLock, edge, dropped, tmVars, signal, idleVars, todo, pending>>

\* addEvent under the fd's lock; a second registration fails the assertion, so
\* callers do not make one.
Register(d, e, entry) ==
  /\ fdLock[d] = None /\ e \notin fdEvents[d]
  /\ pending' = pending + 1
  /\ fdEvents' = [fdEvents EXCEPT ![d] = @ \cup {e}]
  /\ waiter' = [waiter EXCEPT ![d][e] = entry]
  /\ fault' = IF /\ waiter[d][e] = NoEntry
                 /\ entry.kind = "fiber" => fstate[entry.item] = "EXEC"
             THEN "none" ELSE "assert"
  /\ dropped' = dropped \ (IF entry.kind = "fiber" THEN {entry.item} ELSE {})
  /\ UNCHANGED <<fdLock, edge, tmVars, signal, idleVars, todo>>

AddEventCb(d, e, t) ==
  /\ UseEvents /\ Keep(t)
  /\ Register(d, e, [kind |-> "cb", item |-> t, thr |-> AnyThread])
  /\ UNCHANGED <<ctlVars, queueVars, countVars, fiberVars, pc, threadVars>>

\* addEvent(fd, event) of the running fiber, which then holds (do_io) or goes on.
WaitEvent(w, d, e) ==
  /\ UseFibers /\ At(w, "run") /\ MayYield(w) /\ CountYield(w)
  /\ Register(d, e, [kind |-> "fiber", item |-> cur[w], thr |-> AnyThread])
  /\ \E next \in {"hold", "run"} : Goto(w, next)
  /\ UNCHANGED <<ctlVars, queueVars, countVars, fiberVars, threadVars, status, pin>>

-----------------------------------------------------------------------------
(* Triggering: triggerEvent() then --__pendingEventCount, fd locked.       *)

Deregister(d, es) ==
  edge' = [edge EXCEPT ![d] = IF fdEvents[d] \subseteq es THEN {} ELSE @ \ es]

StartTrigger(w, d, es, back) ==
  /\ Deregister(d, es)
  /\ fdLock' = [fdLock EXCEPT ![d] = w]
  /\ todo' = [todo EXCEPT ![w] = [fd |-> d, left |-> es, back |-> back]]
  /\ Goto(w, "trigger")

\* triggerEvent(): assert, clear the bit, schedule what waits (READ first).
Trigger(w) ==
  LET d == todo[w].fd
      e == IF "READ" \in todo[w].left THEN "READ" ELSE "WRITE"
  IN
  /\ At(w, "trigger")
  /\ fault' = IF e \in fdEvents[d] THEN "none" ELSE "assert"
  /\ fdEvents' = [fdEvents EXCEPT ![d] = @ \ {e}]
  /\ waiter' = [waiter EXCEPT ![d][e] = NoEntry]
  /\ IF waiter[d][e] = NoEntry THEN UNCHANGED queueVars ELSE Enqueue(w, waiter[d][e])
  /\ todo' = [todo EXCEPT ![w].left = @ \ {e}]
  /\ Goto(w, "dec")
  /\ UNCHANGED <<ctlVars, countVars, fiberVars, threadVars, taskVars, tmVars,
                 signal, fdLock, edge, dropped, pending, idleVars>>

DecPending(w) ==
  LET over == todo[w].left = {} IN
  /\ At(w, "dec")
  /\ pending' = pending - 1
  /\ IF over
     THEN /\ fdLock' = [fdLock EXCEPT ![todo[w].fd] = None]
          /\ todo' = [todo EXCEPT ![w] = NoTodo]
          /\ Goto(w, todo[w].back)
     ELSE UNCHANGED <<fdLock, todo>> /\ Goto(w, "trigger")
  /\ UNCHANGED <<ctlVars, queueVars, countVars, fiberVars, threadVars, taskVars,
                 fault, tmVars, signal, fdEvents, waiter, edge, dropped, idleVars>>

\* cancelEvent (one event) and cancelAll (all of them) called by a task.
Cancel(w, d, es) ==
  /\ UseCancel /\ At(w, "run")
  /\ fdLock[d] = None /\ es # {} /\ es \subseteq fdEvents[d]
  /\ Cardinality(es) = 1 \/ es = fdEvents[d]
  /\ StartTrigger(w, d, es, "run")
  /\ UNCHANGED <<ctlVars, queueVars, countVars, fiberVars, threadVars, taskVars,
                 fault, tmVars, signal, fdEvents, waiter, dropped, pending,
                 idleVars>>

\* delEvent forgets what was waiting and wakes nobody: a callback is given up, a
\* fiber that holds for this event alone is never resumed.
DelEvent(w, d, e) ==
  LET x == waiter[d][e] IN
  /\ UseCancel /\ At(w, "run")
  /\ fdLock[d] = None /\ e \in fdEvents[d]
  /\ Deregister(d, {e})
  /\ pending' = pending - 1
  /\ fdEvents' = [fdEvents EXCEPT ![d] = @ \ {e}]
  /\ waiter' = [waiter EXCEPT ![d][e] = NoEntry]
  /\ IF x.kind = "cb"
     THEN status' = [status EXCEPT ![x.item] = "done"] /\ UNCHANGED dropped
     ELSE dropped' = dropped \cup {x.item} /\ UNCHANGED status
  /\ UNCHANGED <<ctlVars, queueVars, countVars, fiberVars, pc, threadVars, yields,
                 pin, fault, tmVars, signal, fdLock, idleVars, todo>>

-----------------------------------------------------------------------------
(* IOManager::idle                                                         *)

schedRest == <<ctlVars, countVars, fiberVars, ft, cur, cbFiber, taskVars, fault>>

\* stopping(timeout) reads the timers, the pending count and the scheduler's
\* own condition one after the other.
CheckTimers(w) ==
  /\ At(w, "idle")
  /\ Goto(w, IF timers = {} THEN "ckpending" ELSE "wait")
  /\ UNCHANGED <<schedRest, queueVars, idleTerm, ioVars>>

BadCheckPending(w) ==
  /\ At(w, "ckpending")
  /\ Goto(w, "ckqueue")
  /\ UNCHANGED <<schedRest, queueVars, idleTerm, ioVars>>

CheckPending(w) ==
  /\ At(w, "ckpending")
  /\ Goto(w, IF pending = 0 THEN "ckqueue" ELSE "wait")
  /\ UNCHANGED <<schedRest, queueVars, idleTerm, ioVars>>

CheckQueue(w) ==
  /\ At(w, "ckqueue")
  /\ idleTerm' = [idleTerm EXCEPT ![w] = Stopping]
  /\ Goto(w, IF Stopping THEN "idleout" ELSE "wait")
  /\ UNCHANGED <<schedRest, queueVars, ioVars>>

BadSleepEnds == due # {}

\* A sleep lasts until the earliest timer, MAX_TIMEOUT at most: it may end now.
SleepEnds == TRUE

\* epoll_wait returns with all reports there are, or with none at a timeout.
EpollReturns(w) ==
  /\ At(w, "wait")
  /\ signal \/ (\E d \in Fds : edge[d] # {}) \/ SleepEnds
  /\ got' = [got EXCEPT ![w] = {r \in {<<d, edge[d]>> : d \in Fds} : r[2] # {}}]
  /\ edge' = [d \in Fds |-> {}]
  /\ signal' = FALSE
  /\ Goto(w, "list")
  /\ UNCHANGED <<schedRest, queueVars, idleTerm, tmVars, fdEvents, waiter, fdLock,
                 dropped, pending, cbs, todo>>

ListExpired(w) ==
  /\ At(w, "list")
  /\ cbs' = [cbs EXCEPT ![w] = due]
  /\ timers' = timers \ due /\ due' = {}
  /\ Goto(w, IF due = {} THEN "events" ELSE "sched")
  /\ UNCHANGED <<schedRest, queueVars, idleTerm, signal, fdVars, pending,
                 got, todo>>

\* schedule(cbs.begin(), cbs.end()), one critical section.
ScheduleExpired(w) ==
  /\ At(w, "sched")
  /\ \E s \in SetToSeqs(cbs[w]) :
       fibers' = fibers \o [i \in 1..Len(s) |->
                   [kind |-> "cb", item |-> s[i], thr |-> AnyThread]]
  /\ toTickle' = [toTickle EXCEPT ![w] = IF fibers = <<>> THEN 1 ELSE 0]
  /\ cbs' = [cbs EXCEPT ![w] = {}]
  /\ Goto(w, "events")
  /\ UNCHANGED <<schedRest, idleTerm, tmVars, signal, fdVars, pending, got,
                 todo>>

BadRealEvents(d, es) == (es \cap Events) \cup (IF "ERR" \in es THEN Events ELSE {})

\* One report: an error stands for everything registered now.
RealEvents(d, es) == (es \cap Events) \cup (IF "ERR" \in es THEN fdEvents[d] ELSE {})

HandleReport(w) ==
  /\ At(w, "events")
  /\ \E r \in got[w] :
       LET d == r[1]
           real == RealEvents(d, r[2])
       IN
       /\ fdLock[d] = None
       /\ got' = [got EXCEPT ![w] = @ \ {r}]
       /\ IF real \cap fdEvents[d] = {}
          THEN UNCHANGED <<pc, fdLock, edge, todo>>
          ELSE StartTrigger(w, d, real, "events")
  /\ UNCHANGED <<schedRest, queueVars, idleTerm, tmVars, signal, fdEvents, waiter,
                 dropped, pending, cbs>>

\* The idle fiber swaps out.
LeaveIdle(w) ==
  /\ At(w, "events") /\ got[w] = {}
  /\ Goto(w, "idleout")
  /\ UNCHANGED <<schedRest, queueVars, idleTerm, ioVars>>

IOIdle(w) ==
  \/ CheckTimers(w) \/ CheckPending(w) \/ CheckQueue(w) \/ EpollReturns(w)
  \/ ListExpired(w) \/ ScheduleExpired(w) \/ HandleReport(w) \/ LeaveIdle(w)

-----------------------------------------------------------------------------

IOBody(w) ==
  \/ At(w, "run") /\ \E t \in Tasks : AddTimer(w, t)
  \/ At(w, "run") /\ \E d \in Fds, e \in Events, t \in Tasks : AddEventCb(d, e, t)
  \/ \E d \in Fds, e \in Events : WaitEvent(w, d, e) \/ DelEvent(w, d, e)
  \/ \E d \in Fds, es \in SUBSET Events : Cancel(w, d, es)

IOMain == UserArms /\ MainAt("user") /\ \E t \in Tasks : AddTimer(Caller, t)

\* The kernel and the clock.
TimerDue(t) ==
  /\ fault = "none" /\ t \in timers \ due
  /\ due' = due \cup {t}
  /\ UNCHANGED <<vars, timers, signal, fdVars, pending, idleVars, todo>>

\* epoll_ctl has been called before an event is triggered and its bit cleared.
KernelMask(d) ==
  fdEvents[d] \ UNION {todo[w].left : w \in {w \in Threads : todo[w].fd = d}}

FdReady(d, e) ==
  /\ fault = "none" /\ e \notin edge[d]
  /\ e \in KernelMask(d) \/ (e = "ERR" /\ KernelMask(d) # {})
  /\ edge' = [edge EXCEPT ![d] = @ \cup {e}]
  /\ UNCHANGED <<vars, tmVars, signal, fdEvents, waiter, fdLock, dropped, pending,
                 idleVars, todo>>

IOThread(w) ==
  \/ (RunStep(w) \/ Body(w)) /\ UNCHANGED ioVars
  \/ IOTickle(w) \/ IOIdle(w) \/ Trigger(w) \/ DecPending(w) \/ IOBody(w)

IONext ==
  \/ Main /\ UNCHANGED ioVars
  \/ IOMain
  \/ \E w \in Threads : IOThread(w)
  \/ \E t \in Tasks : TimerDue(t)
  \/ \E d \in Fds, e \in Events \cup {"ERR"} : FdReady(d, e)

ioAll == <<vars, ioVars>>

IOSpec == IOInit /\ [][IONext]_ioAll

\* Threads run, the time of a timer comes, a registered fd becomes ready.
IOFairness ==
  /\ WF_ioAll((StopRoot \/ RootReturns \/ Join) /\ UNCHANGED ioVars)
  /\ \A w \in Threads : WF_ioAll(IOThread(w))
  /\ \A t \in Tasks : WF_ioAll(TimerDue(t))
  /\ \A d \in Fds, e \in Events : WF_ioAll(FdReady(d, e))

IOFairSpec == IOSpec /\ IOFairness

-----------------------------------------------------------------------------
(* Properties.                                                             *)

\* __pendingEventCount is the number of registered events, plus those that are
\* being triggered and not yet subtracted: the count stopping() trusts.
PendingIsRegistered == fault = "none" =>
  pending = Cardinality({x \in Fds \X Events : x[2] \in fdEvents[x[1]]})
            + Cardinality({w \in Threads : pc[w] = "dec"})

\* An event is registered exactly while somebody waits for it, so no waiter is
\* forgotten, addEvent finds an empty context and triggerEvent a registered
\* event: none of their assertions fails, nor one of the fibers' they wake.
RegisteredHasWaiter ==
  /\ fault = "none"
  /\ \A d \in Fds, e \in Events : (e \in fdEvents[d]) <=> (waiter[d][e] # NoEntry)

Armed(t) ==
  \/ t \in timers \/ \E w \in Threads : t \in cbs[w]
  \/ \E d \in Fds, e \in Events :
       LET x == waiter[d][e] IN
       x # NoEntry /\ (IF x.kind = "cb" THEN x.item = t ELSE prog[x.item] = t)

\* The task is in a fiber that delEvent has taken from its event, and not running.
Dropped(t) == \E f \in dropped : prog[f] = t /\ fstate[f] # "EXEC"

\* A callback or fiber handed to a timer, an event or schedule() is somewhere
\* until it has been executed, unless delEvent has dropped it.
NothingLost == fault = "none" =>
  \A t \in Tasks : status[t] \in {"queued", "begun"} =>
    InQueue(t) \/ InThread(t) \/ Armed(t) \/ Dropped(t)

\* When stop() returns no timer, event or task is left behind, but for a fiber
\* that delEvent has dropped: stop() does not wait for that one.
StopLeavesNothing == main = "done" /\ fault = "none" =>
  /\ fibers = <<>> /\ timers = {} /\ pending = 0
  /\ \A t \in Tasks : status[t] \in {"new", "done"} \/ Dropped(t)

\* While nobody stops the manager, every callback and fiber handed to it is
\* executed in the end, although a tickle may be dropped: no sleep is longer
\* than MAX_TIMEOUT.  A fiber dropped by delEvent may hold for ever.
QueuedIsExecuted == \A t \in Tasks :
  (status[t] = "queued" /\ ~isStopping)
    ~> (status[t] = "done" \/ isStopping \/ Dropped(t))

=============================================================================
