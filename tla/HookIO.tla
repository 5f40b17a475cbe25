------------------------------- MODULE HookIO -------------------------------
(***************************************************************************)
(* A hooked system call on a socket (do_io of Hook.cpp) that would block:  *)
(* the fiber arms a condition timer, registers the event, holds, and is    *)
(* resumed by the event, by the timer's callback or by close().  Several   *)
(* fibers use one descriptor, each with an event of its own.  The first    *)
(* call of a connector is connect_with_timeout, which waits once and then  *)
(* believes SO_ERROR.                                                      *)
(*                                                                         *)
(* What runs on a worker thread (a fiber, a timer callback, the closing    *)
(* task, a turn of the idle loop) needs one of the worker threads and      *)
(* keeps it until it yields, so one worker makes the code between two      *)
(* yields atomic and several do not.  That a fiber is really off its stack *)
(* when it is resumed is Scheduler.tla's subject and is assumed here.      *)
(***************************************************************************)
EXTENDS Integers, FiniteSets

CONSTANTS
  Fibers,      \* fibers that call do_io; a fiber names its event too
  Closer,      \* the task that calls close()
  Workers,     \* numbers of worker threads to be looked at
  TimedFibers, \* those whose event has a timeout (SO_RCVTIMEO / SO_SNDTIMEO)
  Connectors,  \* those that connect the socket with their first call
  CanClose,    \* the descriptor is closed at some point
  MaxCalls,    \* bound on the do_io calls of a fiber
  MaxRounds    \* bound on the rounds of one call that lose the data again

\* A timer is named after the fiber, its call and the round of that call.
Tids == Fibers \X Nat \X Nat

ASSUME HookAssumption ==
  /\ Workers \subseteq Nat \ {0} /\ MaxCalls \in Nat \ {0} /\ MaxRounds \in Nat \ {0}
  /\ Closer \notin Fibers \cup Tids /\ Fibers \cap Tids = {}
  /\ TimedFibers \cup Connectors \subseteq Fibers /\ CanClose \in BOOLEAN

VARIABLES
  workers,    \* number of worker threads
  fpc,        \* where a fiber is
  call,       \* its current or last do_io call
  round,      \* turns of the retry loop in that call that had to wait
  result,     \* what the last call returned
  armed,      \* timers in the queue, one per fiber, call and round
  queued,     \* callbacks of expired timers, waiting for a thread
  firing,     \* callbacks on a thread, past the test of tinfo
  marked,     \* ... that have set tinfo->cancelled
  timedOut,   \* calls whose tinfo->cancelled is ETIMEDOUT
  reg,        \* registered events
  resumes,    \* entries of a fiber in the scheduler's queue
  data,       \* the system call of a fiber would succeed, the connection is made or refused
  closing,    \* where the closing task is
  running     \* what occupies a worker thread

timerVars == <<armed, queued, firing, marked, timedOut>>
vars == <<workers, fpc, call, round, result, timerVars, reg, resumes, data, closing, running>>

Tid(f) == <<f, call[f], round[f]>>
Owner(x) == x[1]

Init ==
  /\ workers \in Workers
  /\ fpc = [f \in Fibers |-> "idle"] /\ call = [f \in Fibers |-> 0]
  /\ round = [f \in Fibers |-> 0] /\ result = [f \in Fibers |-> "none"]
  /\ armed = {} /\ queued = {} /\ firing = {} /\ marked = {} /\ timedOut = {}
  /\ reg = {} /\ resumes = [f \in Fibers |-> 0]
  /\ data = [f \in Fibers |-> FALSE]
  /\ closing = "open" /\ running = {}

Closed == closing = "closed"
Connects(f) == f \in Connectors /\ call[f] = 1
Timed(f) == f \in TimedFibers \/ Connects(f)     \* s_connect_timeout
FreeWorker == Cardinality(running) < workers
Goto(f, l) == fpc' = [fpc EXCEPT ![f] = l]

\* Definitions named Bad... are faulty variants of the definition that follows
\* them; no specification uses them.

\* triggerEvent(): deregister, schedule the waiting fibers.
TriggerAll(fs) ==
  /\ reg' = reg \ fs
  /\ resumes' = [f \in Fibers |-> IF f \in fs THEN resumes[f] + 1 ELSE resumes[f]]

Return(f, r) ==
  /\ Goto(f, "idle")
  /\ result' = [result EXCEPT ![f] = r]
  /\ running' = running \ {f}

-----------------------------------------------------------------------------
(* do_io, connect_with_timeout                                             *)

Call(f) ==
  /\ fpc[f] = "idle" /\ call[f] < MaxCalls /\ FreeWorker
  /\ call' = [call EXCEPT ![f] = @ + 1]
  /\ round' = [round EXCEPT ![f] = 0]
  /\ running' = running \cup {f}
  /\ Goto(f, "try")
  /\ UNCHANGED <<workers, result, timerVars, reg, resumes, data, closing>>

\* retry: the system call itself; EAGAIN leads into the wait.
Try(f) ==
  /\ fpc[f] = "try"
  /\ IF Closed THEN Return(f, "error") /\ UNCHANGED <<data, round>>
     ELSE IF data[f]
     THEN /\ \/ Return(f, "ok")
             \/ Connects(f) /\ Return(f, "error")
          /\ data' = [data EXCEPT ![f] = FALSE] /\ UNCHANGED round
     ELSE /\ Goto(f, "arm")
          /\ round' = [round EXCEPT ![f] = @ + 1]
          /\ UNCHANGED <<data, result, running>>
  /\ UNCHANGED <<workers, call, timerVars, reg, resumes, closing>>

ArmTimer(f) ==
  /\ fpc[f] = "arm"
  /\ armed' = IF Timed(f) THEN armed \cup {Tid(f)} ELSE armed
  /\ Goto(f, "add")
  /\ UNCHANGED <<workers, call, round, result, queued, firing, marked, timedOut, reg,
                 resumes, data, closing, running>>

\* addEvent fails on a closed descriptor.
AddEvent(f) ==
  /\ fpc[f] = "add"
  /\ IF Closed
     THEN /\ armed' = armed \ {Tid(f)}
          /\ Return(f, "error")
          /\ UNCHANGED reg
     ELSE /\ reg' = reg \cup {f}
          /\ Goto(f, "hold")
          /\ UNCHANGED <<armed, result, running>>
  /\ UNCHANGED <<workers, call, round, queued, firing, marked, timedOut, resumes, data, closing>>

Hold(f) ==
  /\ fpc[f] = "hold"
  /\ Goto(f, "held")
  /\ running' = running \ {f}
  /\ UNCHANGED <<workers, call, round, result, timerVars, reg, resumes, data, closing>>

Resume(f) ==
  /\ fpc[f] = "held" /\ resumes[f] > 0 /\ FreeWorker
  /\ resumes' = [resumes EXCEPT ![f] = @ - 1]
  /\ running' = running \cup {f}
  /\ Goto(f, "resumed")
  /\ UNCHANGED <<workers, call, round, result, timerVars, reg, data, closing>>

BadCancelTimer(f) ==
  /\ fpc[f] = "resumed"
  /\ Goto(f, "check")
  /\ UNCHANGED <<workers, call, round, result, armed, queued, firing, marked, timedOut, reg,
                 resumes, data, closing, running>>

CancelTimer(f) ==
  /\ fpc[f] = "resumed"
  /\ armed' = armed \ {Tid(f)}
  /\ Goto(f, "check")
  /\ UNCHANGED <<workers, call, round, result, queued, firing, marked, timedOut, reg,
                 resumes, data, closing, running>>

\* getsockopt: SO_ERROR is 0, too, while the connection is in progress.
SocketError(f) ==
  \/ ~Closed /\ Return(f, "ok")
  \/ (Closed \/ data[f]) /\ Return(f, "error")

CheckCancelled(f) ==
  /\ fpc[f] = "check"
  /\ IF <<f, call[f]>> \in timedOut THEN Return(f, "timeout")
     ELSE IF Connects(f) THEN SocketError(f)
     ELSE Goto(f, "try") /\ UNCHANGED <<result, running>>
  /\ UNCHANGED <<workers, call, round, timerVars, reg, resumes, data, closing>>

DoIO(f) ==
  \/ Try(f) \/ ArmTimer(f) \/ AddEvent(f) \/ Hold(f) \/ Resume(f)
  \/ CancelTimer(f) \/ CheckCancelled(f)

-----------------------------------------------------------------------------
(* The condition timer.                                                    *)

\* A turn of the idle loop collects an expired timer.
Elapse(x) ==
  /\ x \in armed /\ FreeWorker
  /\ armed' = armed \ {x} /\ queued' = queued \cup {x}
  /\ UNCHANGED <<workers, fpc, call, round, result, firing, marked, timedOut, reg, resumes,
                 data, closing, running>>

BadTinfoExpired(x) == FALSE
BadTinfoPerFiber(x) == fpc[Owner(x)] # "idle"

\* winfo.lock() succeeds while the call that made tinfo is under way.
TinfoAlive(x) == fpc[Owner(x)] # "idle" /\ call[Owner(x)] = x[2]

TimerTest(x) ==
  /\ x \in queued /\ FreeWorker
  /\ queued' = queued \ {x}
  /\ IF TinfoAlive(x) /\ <<Owner(x), x[2]>> \notin timedOut
     THEN firing' = firing \cup {x} /\ running' = running \cup {x}
     ELSE UNCHANGED <<firing, running>>
  /\ UNCHANGED <<workers, fpc, call, round, result, armed, marked, timedOut, reg, resumes,
                 data, closing>>

TimerMark(x) ==
  /\ x \in firing
  /\ firing' = firing \ {x} /\ marked' = marked \cup {x}
  /\ timedOut' = timedOut \cup {<<Owner(x), x[2]>>}
  /\ UNCHANGED <<workers, fpc, call, round, result, armed, queued, reg, resumes, data,
                 closing, running>>

BadTimerCancel(x) ==
  /\ x \in marked
  /\ TriggerAll(IF Closed THEN {} ELSE {Owner(x)})
  /\ marked' = marked \ {x} /\ running' = running \ {x}
  /\ UNCHANGED <<workers, fpc, call, round, result, armed, queued, firing, timedOut, data, closing>>

\* cancelEvent: nothing to do without the event, epoll_ctl fails when closed.
TimerCancel(x) ==
  /\ x \in marked
  /\ TriggerAll(IF Closed THEN {} ELSE reg \cap {Owner(x)})
  /\ marked' = marked \ {x} /\ running' = running \ {x}
  /\ UNCHANGED <<workers, fpc, call, round, result, armed, queued, firing, timedOut, data, closing>>

TimerStep(x) == Elapse(x) \/ TimerTest(x) \/ TimerMark(x) \/ TimerCancel(x)

-----------------------------------------------------------------------------
(* close() by another task, the kernel, the idle loop.                     *)

CloseStart ==
  /\ CanClose /\ closing = "open" /\ FreeWorker
  /\ closing' = "cancelAll" /\ running' = running \cup {Closer}
  /\ UNCHANGED <<workers, fpc, call, round, result, timerVars, reg, resumes, data>>

BadCloseCancelAll ==
  /\ closing = "cancelAll"
  /\ closing' = "close_f"
  /\ UNCHANGED <<workers, fpc, call, round, result, timerVars, reg, resumes, data, running>>

CloseCancelAll ==
  /\ closing = "cancelAll"
  /\ TriggerAll(reg)
  /\ closing' = "close_f"
  /\ UNCHANGED <<workers, fpc, call, round, result, timerVars, data, running>>

CloseFd ==
  /\ closing = "close_f"
  /\ closing' = "closed" /\ running' = running \ {Closer}
  /\ UNCHANGED <<workers, fpc, call, round, result, timerVars, reg, resumes, data>>

DataArrives(f) ==
  /\ ~Closed /\ ~data[f]
  /\ f \in Connectors => call[f] > 0
  /\ data' = [data EXCEPT ![f] = TRUE]
  /\ UNCHANGED <<workers, fpc, call, round, result, timerVars, reg, resumes, closing, running>>

\* What made the descriptor ready is gone again (taken by another process, a
\* connection reset before accept).
DataLost(f) ==
  /\ data[f] /\ round[f] < MaxRounds /\ ~Connects(f)
  /\ data' = [data EXCEPT ![f] = FALSE]
  /\ UNCHANGED <<workers, fpc, call, round, result, timerVars, reg, resumes, closing, running>>

EventReady(f) ==
  /\ f \in reg /\ data[f] /\ ~Closed /\ FreeWorker
  /\ TriggerAll({f})
  /\ UNCHANGED <<workers, fpc, call, round, result, timerVars, data, closing, running>>

\* What the worker threads do when there is something to do.
Work ==
  \/ \E f \in Fibers : DoIO(f) \/ EventReady(f)
  \/ \E x \in armed \cup queued \cup firing \cup marked : TimerStep(x)
  \/ CloseCancelAll \/ CloseFd

\* Bound: with several workers only the fibers that may time out make calls.
Callers == IF workers = 1 THEN Fibers ELSE TimedFibers

Next ==
  \/ Work
  \/ \E f \in Callers : Call(f)
  \/ \E f \in Fibers : DataArrives(f) \/ DataLost(f)
  \/ CloseStart

Spec == Init /\ [][Next]_vars

\* The workers do not rest while there is work, and the clock advances.  There
\* is only a bounded amount of work per call, so nothing is starved.  A peer may
\* stay silent for ever and nobody need close the descriptor.
Fairness == WF_vars(Work)

FairSpec == Spec /\ Fairness

-----------------------------------------------------------------------------
(* Properties.                                                             *)

\* Event, timer and close() all want to wake a fiber that waits, and each does
\* so only if it finds the event registered: the fiber is woken exactly once per
\* wait, neither twice, which would enter it at a place it does not wait in, nor
\* never.
WokenOnce == \A f \in Fibers :
  resumes[f] + (IF f \in reg THEN 1 ELSE 0) = IF fpc[f] \in {"hold", "held"} THEN 1 ELSE 0

\* do_io leaves neither an event nor a timer of its own behind.
NoLeftovers == \A f \in Fibers :
  fpc[f] \in {"idle", "try"} => f \notin reg /\ \A x \in armed : Owner(x) # f

\* On a single worker nobody is misled by a wake-up meant for somebody else.  The
\* callback of a timer left over from an earlier call never wakes a later call of
\* the same fiber (with several workers it may, between its test of tinfo and its
\* cancelEvent; the later call then only tries once more), and connect() reports
\* success only for a connection that has been made (with several workers a
\* close() between cancelAll and close_f makes it believe so).
NobodyMisled == [][workers = 1 =>
  /\ \A x \in marked : x \notin marked' /\ resumes' # resumes => call[Owner(x)] = x[2]
  /\ \A f \in Fibers : fpc[f] = "check" /\ fpc'[f] = "idle" /\ result'[f] = "ok" => data[f]]_vars

\* A call on a descriptor with a timeout returns: with data, an error, or
\* ETIMEDOUT after its "receive timeout (ms)".
DoIOReturns == \A f \in Fibers : Timed(f) /\ fpc[f] # "idle" ~> fpc[f] = "idle"

\* It does on a single worker, where the condition timer cannot fire before the
\* event is registered ...
ReturnsAlone == \A f \in Fibers : workers = 1 /\ Timed(f) /\ fpc[f] # "idle" ~> fpc[f] = "idle"

\* ... and there nobody is left waiting for a descriptor once it is closed.
CloseWakesAll == \A f \in Fibers :
  workers = 1 /\ Closed /\ fpc[f] # "idle" ~> fpc[f] = "idle"

=============================================================================
