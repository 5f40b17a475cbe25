------------------------------ MODULE Scheduler ------------------------------
(***************************************************************************)
(* The coroutine scheduler (Scheduler.cpp, Scheduler.h) with the fibers it *)
(* swaps in and out (Fiber.cpp).  A step is the code between two points    *)
(* where another thread may interfere: a critical section of __mutex, an   *)
(* access to an atomic counter, a change of a fiber's __state, or the      *)
(* swapcontext() that really leaves a fiber's stack.                       *)
(*                                                                         *)
(* The loop of Scheduler::run is the family of actions RunStep, the bodies *)
(* of the virtual functions idle() and tickle() are the actions Idle and   *)
(* Tickle; a derived scheduler replaces those two.                         *)
(***************************************************************************)
EXTENDS Integers, FiniteSets, SequencesExt

CONSTANTS
  Workers,     \* threads that start() may create
  Caller,      \* the thread that constructs, starts and stops the scheduler
  Shapes,      \* constructor arguments: the workers, and whether the caller also
               \* runs the loop in stop() (use_caller)
  Tasks,       \* callbacks; a fiber is named after the task it is created for
  AnyThread,   \* the thread argument -1
  None,        \* a null pointer
  Kinds,       \* how tasks are handed over: "cb" (function) or "fiber"
  UserPins,    \* thread arguments used by the caller's schedule()
  TaskPins,    \* thread arguments used by a running task's schedule()
  MaxYield,    \* bound on the yields of one task
  UseSwitch    \* running tasks call switchTo()

Threads == Workers \cup {Caller}

ASSUME ThreadsAssumption ==
  /\ IsFiniteSet(Workers) /\ Caller \notin Workers
  /\ AnyThread \notin Threads
  /\ None \notin Tasks \cup Threads
  /\ Shapes \subseteq [workers : SUBSET Workers, caller : BOOLEAN]
  /\ \A s \in Shapes : s.caller \/ s.workers # {}   \* the constructor asserts it
  /\ UseSwitch \in BOOLEAN
  /\ MaxYield \in Nat
  /\ Kinds \subseteq {"cb", "fiber"}
  /\ UserPins \subseteq Threads \cup {AnyThread}
  /\ TaskPins \subseteq Threads \cup {AnyThread}

VARIABLES
  shape,                   \* the constructor's arguments
  isStopping, isAutoStop,  \* __is_stopping, __is_auto_stop
  main,                    \* where the caller is in start() / stop()
  fibers,                  \* __fibers
  toTickle,                \* tickle() calls a thread still has to make
  active, idle,            \* __active_thread_count, __idle_thread_count
  fstate, prog,            \* Fiber::__state, Fiber::__cb
  pc,                      \* where a thread is in run()
  ft, cur, cbFiber,        \* run()'s ft and cb_fiber; the fiber swapped in
  idleTerm,                \* idle_fiber of the thread is TERM
  yields,                  \* yields a task has made
  status, pin,             \* history: progress of a task, requested thread
  fault                    \* a failed assertion, or a stack run twice

ctlVars    == <<shape, isStopping, isAutoStop, main>>
queueVars  == <<fibers, toTickle>>
countVars  == <<active, idle>>
fiberVars  == <<fstate, prog>>
threadVars == <<ft, cur, cbFiber, idleTerm>>
taskVars   == <<yields, status, pin>>
vars == <<ctlVars, queueVars, countVars, fiberVars, pc, threadVars, taskVars,
          fault>>

Entry == [kind : {"cb", "fiber"}, item : Tasks, thr : Threads \cup {AnyThread}]
NoEntry == [kind |-> "none", item |-> None, thr |-> AnyThread]

FiberStates == {"NONE", "INIT", "HOLD", "EXEC", "TERM", "READY", "EXCEPT"}
Dead == {"TERM", "EXCEPT"}
PCs == {"off", "pick", "dispatch", "run", "hold", "swapout", "ret", "settle",
        "sethold", "idle", "idleout", "exit"}

Init ==
  /\ shape \in Shapes
  /\ isStopping = TRUE /\ isAutoStop = FALSE /\ main = "user"
  /\ fibers = <<>> /\ toTickle = [w \in Threads |-> 0]
  /\ active = 0 /\ idle = 0
  /\ fstate = [f \in Tasks |-> "NONE"] /\ prog = [f \in Tasks |-> None]
  /\ pc = [w \in Threads |-> "off"]
  /\ ft = [w \in Threads |-> NoEntry]
  /\ cur = [w \in Threads |-> None] /\ cbFiber = [w \in Threads |-> None]
  /\ idleTerm = [w \in Threads |-> FALSE]
  /\ yields = [t \in Tasks |-> 0]
  /\ status = [t \in Tasks |-> "new"] /\ pin = [t \in Tasks |-> AnyThread]
  /\ fault = "none"

At(w, l) == fault = "none" /\ toTickle[w] = 0 /\ pc[w] = l
Goto(w, l) == pc' = [pc EXCEPT ![w] = l]

-----------------------------------------------------------------------------
(* schedule(), stopping() and the pieces of run() shared by its branches.  *)

\* Definitions named Bad... are faulty variants of the definition that follows
\* them; no specification uses them.

BadEnqueueIfEmpty(w, e) ==
  /\ fibers' = IF fibers = <<>> THEN <<e>> ELSE fibers
  /\ toTickle' = [toTickle EXCEPT ![w] = IF fibers = <<>> THEN 1 ELSE 0]

BadEnqueueMovedFrom(w, e) ==
  /\ fibers' = Append(fibers, [e EXCEPT !.item = None])
  /\ toTickle' = [toTickle EXCEPT ![w] = IF fibers = <<>> THEN 1 ELSE 0]

\* schedule(): append under the lock, tickle afterwards if it was empty.
Enqueue(w, e) ==
  /\ fibers' = Append(fibers, e)
  /\ toTickle' = [toTickle EXCEPT ![w] = IF fibers = <<>> THEN 1 ELSE 0]

\* A task is pinned to threads that run the loop.
Known(pins) ==
  pins \cap ({AnyThread} \cup shape.workers \cup {w \in {Caller} : shape.caller})

Submit(w, t, kind, thr) ==
  /\ status[t] = "new"
  /\ status' = [status EXCEPT ![t] = "queued"]
  /\ pin' = [pin EXCEPT ![t] = thr]
  /\ Enqueue(w, [kind |-> kind, item |-> t, thr |-> thr])
  /\ IF kind = "fiber"
     THEN /\ fstate' = [fstate EXCEPT ![t] = "INIT"]
          /\ prog' = [prog EXCEPT ![t] = t]
     ELSE UNCHANGED fiberVars
  /\ UNCHANGED <<yields>>

BadStoppingNoQueue == isAutoStop /\ isStopping /\ active = 0
BadStoppingCountsIdle ==
  isAutoStop /\ isStopping /\ fibers = <<>> /\ active = 0 /\ idle = 0

Stopping == isAutoStop /\ isStopping /\ fibers = <<>> /\ active = 0

\* A thread's stack pointer is inside f, or it has not saved f's context yet.
OnStack(f) == \E u \in Threads : cur[u] = f /\ pc[u] \notin {"ret", "settle", "sethold"}

\* swapIn() of f, found in state st: the assertion, then the jump.
SwapIn(w, f, st) ==
  /\ fault' = IF st = "EXEC" THEN "assert"
              ELSE IF OnStack(f) THEN "stack" ELSE "none"
  /\ fstate' = [fstate EXCEPT ![f] = "EXEC"]
  /\ cur' = [cur EXCEPT ![w] = f]
  /\ Goto(w, "run")

Begin(t) == status' = [status EXCEPT ![t] = "begun"]

-----------------------------------------------------------------------------
(* Scheduler::run                                                          *)

BadForeign(w, e) == FALSE

Foreign(w, e) == e.thr \notin {AnyThread, w}
Pickable(w, e) ==
  /\ ~Foreign(w, e)
  /\ ~(e.kind = "fiber" /\ fstate[e.item] = "EXEC")

\* The locked scan: take the first entry this thread may execute.
Pick(w) ==
  /\ At(w, "pick")
  /\ \E i \in 1..Len(fibers) :
       /\ Pickable(w, fibers[i])
       /\ \A j \in 1..(i-1) : ~Pickable(w, fibers[j])
       /\ ft' = [ft EXCEPT ![w] = fibers[i]]
       /\ fibers' = RemoveAt(fibers, i)
       /\ toTickle' = [toTickle EXCEPT ![w] =
            IF i < Len(fibers) \/ \E j \in 1..(i-1) : Foreign(w, fibers[j])
            THEN 1 ELSE 0]
  /\ active' = active + 1
  /\ Goto(w, "dispatch")
  /\ UNCHANGED <<ctlVars, idle, fiberVars, cur, cbFiber, idleTerm, taskVars, fault>>

PickNothing(w) ==
  /\ At(w, "pick")
  /\ \A i \in 1..Len(fibers) : ~Pickable(w, fibers[i])
  /\ ft' = [ft EXCEPT ![w] = NoEntry]
  /\ toTickle' = [toTickle EXCEPT ![w] =
       IF \E i \in 1..Len(fibers) : Foreign(w, fibers[i]) THEN 1 ELSE 0]
  /\ Goto(w, "dispatch")
  /\ UNCHANGED <<ctlVars, fibers, countVars, fiberVars, cur, cbFiber, idleTerm,
                 taskVars, fault>>

ResumeFiber(w) ==
  LET f == ft[w].item IN
  /\ At(w, "dispatch") /\ ft[w].kind = "fiber" /\ fstate[f] \notin Dead
  /\ SwapIn(w, f, fstate[f])
  /\ IF fstate[f] = "INIT" /\ prog[f] # None THEN Begin(prog[f])
     ELSE UNCHANGED status
  /\ UNCHANGED <<ctlVars, queueVars, countVars, prog, ft, cbFiber, idleTerm,
                 yields, pin>>

\* A scheduled fiber that has terminated meanwhile is dropped.
SkipDead(w) ==
  /\ At(w, "dispatch") /\ ft[w].kind = "fiber" /\ fstate[ft[w].item] \in Dead
  /\ active' = active - 1
  /\ Goto(w, "pick")
  /\ UNCHANGED <<ctlVars, queueVars, idle, fiberVars, threadVars, taskVars, fault>>

\* Fiber::reset() asserts that the fiber it reuses has not been left halfway.
CanReset(w) == cbFiber[w] = None \/ fstate[cbFiber[w]] \in Dead \cup {"INIT"}

\* A callback runs in the thread's cb_fiber, reset or created for it.
RunCallback(w) ==
  LET t == ft[w].item
      f == IF cbFiber[w] = None THEN t ELSE cbFiber[w]
  IN
  /\ At(w, "dispatch") /\ ft[w].kind = "cb"
  /\ IF CanReset(w)
     THEN /\ cbFiber' = [cbFiber EXCEPT ![w] = f]
          /\ prog' = [prog EXCEPT ![f] = t]
          /\ ft' = [ft EXCEPT ![w] = NoEntry]
          /\ SwapIn(w, f, "INIT")
          /\ Begin(t)
     ELSE /\ fault' = "assert"
          /\ UNCHANGED <<fiberVars, pc, ft, cur, cbFiber, status>>
  /\ UNCHANGED <<ctlVars, queueVars, countVars, idleTerm, yields, pin>>

BadRet(w) ==
  /\ At(w, "ret")
  /\ active' = IF fstate[cur[w]] = "EXCEPT" THEN active ELSE active - 1
  /\ Goto(w, "settle")
  /\ UNCHANGED <<ctlVars, queueVars, idle, fiberVars, threadVars, taskVars, fault>>

\* swapIn() has returned: the active count drops before the state is read.
Ret(w) ==
  /\ At(w, "ret")
  /\ active' = active - 1
  /\ Goto(w, "settle")
  /\ UNCHANGED <<ctlVars, queueVars, idle, fiberVars, threadVars, taskVars, fault>>

BadFromCallback(w) == FALSE

FromCallback(w) == ft[w] = NoEntry

SettleReady(w) ==
  /\ At(w, "settle") /\ fstate[cur[w]] = "READY"
  /\ Enqueue(w, [kind |-> "fiber", item |-> cur[w], thr |-> AnyThread])
  /\ cbFiber' = [cbFiber EXCEPT ![w] = IF FromCallback(w) THEN None ELSE @]
  /\ ft' = [ft EXCEPT ![w] = NoEntry] /\ cur' = [cur EXCEPT ![w] = None]
  /\ Goto(w, "pick")
  /\ UNCHANGED <<ctlVars, countVars, fiberVars, idleTerm, taskVars, fault>>

\* A finished callback leaves its fiber reset for the next one.
SettleDead(w) ==
  /\ At(w, "settle") /\ fstate[cur[w]] \in Dead
  /\ IF FromCallback(w)
     THEN /\ fstate' = [fstate EXCEPT ![cur[w]] = "INIT"]
          /\ prog' = [prog EXCEPT ![cur[w]] = None]
          /\ fault' = IF OnStack(cur[w]) THEN "stack" ELSE "none"
     ELSE UNCHANGED <<fiberVars, fault>>
  /\ ft' = [ft EXCEPT ![w] = NoEntry] /\ cur' = [cur EXCEPT ![w] = None]
  /\ Goto(w, "pick")
  /\ UNCHANGED <<ctlVars, queueVars, countVars, cbFiber, idleTerm, taskVars>>

\* Any other state: decided now, overwritten with HOLD by the next step.
SettleOther(w) ==
  /\ At(w, "settle") /\ fstate[cur[w]] \notin Dead \cup {"READY"}
  /\ Goto(w, "sethold")
  /\ UNCHANGED <<ctlVars, queueVars, countVars, fiberVars, threadVars, taskVars,
                 fault>>

SetHold(w) ==
  /\ At(w, "sethold")
  /\ fstate' = [fstate EXCEPT ![cur[w]] = "HOLD"]
  /\ cbFiber' = [cbFiber EXCEPT ![w] = IF FromCallback(w) THEN None ELSE @]
  /\ ft' = [ft EXCEPT ![w] = NoEntry] /\ cur' = [cur EXCEPT ![w] = None]
  /\ Goto(w, "pick")
  /\ UNCHANGED <<ctlVars, queueVars, countVars, prog, idleTerm, taskVars, fault>>

ThreadExit(w) ==
  /\ At(w, "dispatch") /\ ft[w] = NoEntry /\ idleTerm[w]
  /\ Goto(w, "exit")
  /\ UNCHANGED <<ctlVars, queueVars, countVars, fiberVars, threadVars, taskVars,
                 fault>>

IdleIn(w) ==
  /\ At(w, "dispatch") /\ ft[w] = NoEntry /\ ~idleTerm[w]
  /\ idle' = idle + 1
  /\ Goto(w, "idle")
  /\ UNCHANGED <<ctlVars, queueVars, active, fiberVars, threadVars, taskVars, fault>>

BadIdleOut(w) ==
  /\ At(w, "idleout")
  /\ idle' = IF idleTerm[w] THEN idle ELSE idle - 1
  /\ Goto(w, "pick")
  /\ UNCHANGED <<ctlVars, queueVars, active, fiberVars, threadVars, taskVars, fault>>

IdleOut(w) ==
  /\ At(w, "idleout")
  /\ idle' = idle - 1
  /\ Goto(w, "pick")
  /\ UNCHANGED <<ctlVars, queueVars, active, fiberVars, threadVars, taskVars, fault>>

RunStep(w) ==
  \/ Pick(w) \/ PickNothing(w)
  \/ ResumeFiber(w) \/ SkipDead(w) \/ RunCallback(w)
  \/ Ret(w) \/ SettleReady(w) \/ SettleDead(w) \/ SettleOther(w) \/ SetHold(w)
  \/ ThreadExit(w) \/ IdleIn(w) \/ IdleOut(w)

-----------------------------------------------------------------------------
(* The virtual functions, as the base class implements them.               *)

\* idle(): yield until stopping; the fiber terminates when the loop ends.
Idle(w) ==
  /\ At(w, "idle")
  /\ idleTerm' = [idleTerm EXCEPT ![w] = Stopping]
  /\ Goto(w, "idleout")
  /\ UNCHANGED <<ctlVars, queueVars, countVars, fiberVars, ft, cur, cbFiber,
                 taskVars, fault>>

\* tickle() of the base class only logs.
Tickle(w) ==
  /\ fault = "none" /\ toTickle[w] > 0
  /\ toTickle' = [toTickle EXCEPT ![w] = @ - 1]
  /\ UNCHANGED <<ctlVars, fibers, countVars, fiberVars, pc, threadVars, taskVars,
                 fault>>

-----------------------------------------------------------------------------
(* What a task does on a thread: Fiber::MainFunc around its callback.      *)

\* The callback returns or throws; MainFunc records it and swaps out.  A fiber
\* that is resumed after a reset to a null callback can only throw.
Finish(w, st) ==
  LET f == cur[w] IN
  /\ At(w, "run")
  /\ prog[f] = None => st = "EXCEPT"
  /\ fstate' = [fstate EXCEPT ![f] = st]
  /\ prog' = [prog EXCEPT ![f] = IF st = "TERM" THEN None ELSE @]
  /\ status' = IF prog[f] = None THEN status
               ELSE [status EXCEPT ![prog[f]] = "done"]
  /\ Goto(w, "swapout")
  /\ UNCHANGED <<ctlVars, queueVars, countVars, threadVars, yields, pin, fault>>

\* YieldToReady / YieldToHold up to the swapOut(): assert EXEC, set the state.
YieldTo(w, st) ==
  LET f == cur[w] IN
  /\ fault' = IF fstate[f] = "EXEC" THEN "none" ELSE "assert"
  /\ fstate' = [fstate EXCEPT ![f] = st]
  /\ Goto(w, "swapout")
  /\ UNCHANGED <<ctlVars, queueVars, countVars, prog, threadVars, status, pin>>

MayYield(w) == prog[cur[w]] # None /\ yields[prog[cur[w]]] < MaxYield
CountYield(w) == yields' = [yields EXCEPT ![prog[cur[w]]] = @ + 1]

YieldToReady(w) ==
  /\ At(w, "run") /\ MayYield(w) /\ CountYield(w)
  /\ YieldTo(w, "READY")

\* switchTo(thread): returns at once where the fiber may stay; for another
\* thread it is schedule(Fiber::GetThis(), thread) ...
SwitchTo(w, thr) ==
  /\ UseSwitch /\ thr \notin {AnyThread, w}
  /\ At(w, "run") /\ MayYield(w) /\ CountYield(w)
  /\ Enqueue(w, [kind |-> "fiber", item |-> cur[w], thr |-> thr])
  /\ Goto(w, "hold")
  /\ UNCHANGED <<ctlVars, countVars, fiberVars, threadVars, status, pin, fault>>

\* ... followed by YieldToHold().
YieldToHold(w) ==
  /\ At(w, "hold")
  /\ UNCHANGED yields
  /\ YieldTo(w, "HOLD")

\* swapOut(): the context is saved and the thread is back in run().
SwapOut(w) ==
  /\ At(w, "swapout")
  /\ Goto(w, "ret")
  /\ UNCHANGED <<ctlVars, queueVars, countVars, fiberVars, threadVars, taskVars,
                 fault>>

Spawn(w, t, kind, thr) ==
  /\ At(w, "run")
  /\ Submit(w, t, kind, thr)
  /\ UNCHANGED <<ctlVars, countVars, pc, threadVars, fault>>

Body(w) ==
  \/ \E st \in Dead : Finish(w, st)
  \/ YieldToReady(w) \/ YieldToHold(w) \/ SwapOut(w)
  \/ \E thr \in Known(TaskPins) : SwitchTo(w, thr)
  \/ \E t \in Tasks, kind \in Kinds, thr \in Known(TaskPins) : Spawn(w, t, kind, thr)

-----------------------------------------------------------------------------
(* The calling thread: schedule(), start(), stop().                        *)

MainAt(l) == fault = "none" /\ toTickle[Caller] = 0 /\ main = l

UserSchedule(t, kind, thr) ==
  /\ MainAt("user")
  /\ Submit(Caller, t, kind, thr)
  /\ UNCHANGED <<ctlVars, countVars, pc, threadVars, fault>>

Start ==
  /\ MainAt("user") /\ isStopping
  /\ isStopping' = FALSE
  /\ pc' = [w \in Threads |-> IF w \in shape.workers THEN "pick" ELSE pc[w]]
  /\ UNCHANGED <<shape, isAutoStop, main, queueVars, countVars, fiberVars, threadVars,
                 taskVars, fault>>

RootThreads == IF shape.caller THEN 1 ELSE 0

\* stop() sets both flags, then tickles once per thread.  The early return is
\* taken when the caller is the only thread and nothing is left to run.
StopFlags ==
  /\ MainAt("user") /\ ~isStopping
  /\ isAutoStop' = TRUE /\ isStopping' = TRUE
  /\ IF shape.caller /\ shape.workers = {} /\ fibers = <<>> /\ active = 0
     THEN main' = "done" /\ UNCHANGED toTickle
     ELSE /\ main' = "root"
          /\ toTickle' = [toTickle EXCEPT ![Caller] = Cardinality(shape.workers) + RootThreads]
  /\ UNCHANGED <<shape, fibers, countVars, fiberVars, pc, threadVars, taskVars, fault>>

\* if (__root_fiber && !stopping()) __root_fiber->call();
StopRoot ==
  /\ MainAt("root")
  /\ IF shape.caller /\ ~Stopping
     THEN Goto(Caller, "pick") /\ main' = "inroot"
     ELSE main' = "join" /\ UNCHANGED pc
  /\ UNCHANGED <<shape, isStopping, isAutoStop, queueVars, countVars, fiberVars,
                 threadVars, taskVars, fault>>

\* run() ended in the root fiber, which returns to stop().
RootReturns ==
  /\ MainAt("inroot") /\ pc[Caller] = "exit"
  /\ main' = "join"
  /\ UNCHANGED <<shape, isStopping, isAutoStop, queueVars, countVars, fiberVars, pc,
                 threadVars, taskVars, fault>>

BadJoin ==
  /\ MainAt("join")
  /\ main' = "done"
  /\ UNCHANGED <<shape, isStopping, isAutoStop, queueVars, countVars, fiberVars, pc,
                 threadVars, taskVars, fault>>

Join ==
  /\ MainAt("join") /\ \A w \in shape.workers : pc[w] = "exit"
  /\ main' = "done"
  /\ UNCHANGED <<shape, isStopping, isAutoStop, queueVars, countVars, fiberVars, pc,
                 threadVars, taskVars, fault>>

StopStep == StopFlags \/ StopRoot \/ RootReturns \/ Join

Main ==
  \/ \E t \in Tasks, kind \in Kinds, thr \in Known(UserPins) : UserSchedule(t, kind, thr)
  \/ Start \/ StopStep

-----------------------------------------------------------------------------

ThreadStep(w) == RunStep(w) \/ Idle(w) \/ Tickle(w) \/ Body(w)

Next == Main \/ \E w \in Threads : ThreadStep(w)

Spec == Init /\ [][Next]_vars

\* The kernel runs every runnable thread; __mutex is held for one step only.
\* Nothing forces the user to call stop(), only stop() itself to go on.
Fairness ==
  /\ WF_vars(StopRoot \/ RootReturns \/ Join)
  /\ \A w \in Threads : WF_vars(ThreadStep(w))

FairSpec == Spec /\ Fairness

-----------------------------------------------------------------------------
(* Properties.                                                             *)

TypeOK ==
  /\ shape \in Shapes
  /\ isStopping \in BOOLEAN /\ isAutoStop \in BOOLEAN
  /\ main \in {"user", "root", "inroot", "join", "done"}
  /\ fibers \in Seq(Entry)
  /\ toTickle \in [Threads -> Nat]
  /\ active \in Int /\ idle \in Int
  /\ fstate \in [Tasks -> FiberStates]
  /\ prog \in [Tasks -> Tasks \cup {None}]
  /\ pc \in [Threads -> PCs]
  /\ ft \in [Threads -> Entry \cup {NoEntry}]
  /\ cur \in [Threads -> Tasks \cup {None}]
  /\ cbFiber \in [Threads -> Tasks \cup {None}]
  /\ idleTerm \in [Threads -> BOOLEAN]
  /\ yields \in [Tasks -> Nat]
  /\ status \in [Tasks -> {"new", "queued", "begun", "done"}]
  /\ pin \in [Tasks -> Threads \cup {AnyThread}]
  /\ fault \in {"none", "assert", "stack"}

\* A thread executes what it took from the queue, up to the --active.
InFlight(w) ==
  \/ pc[w] \in {"run", "hold", "swapout", "ret"}
  \/ pc[w] = "dispatch" /\ ft[w] # NoEntry

\* __active_thread_count, which stopping() reads under the lock, is the number
\* of threads between the pick and the decrement of Scheduler::run: no path
\* through its branches leaks or repeats a decrement.
ActiveIsInFlight == active = Cardinality({w \in Threads : InFlight(w)})

\* __idle_thread_count counts the threads inside their idle fiber, whatever
\* way the idle fiber ends; tickle() of a derived class relies on it.
IdleIsIdling == idle = Cardinality({w \in Threads : pc[w] \in {"idle", "idleout"}})

InQueue(t) == \E i \in 1..Len(fibers) :
  LET e == fibers[i] IN
  IF e.kind = "cb" THEN e.item = t ELSE prog[e.item] = t
InThread(t) == \E w \in Threads :
  \/ ft[w].kind = "cb" /\ ft[w].item = t
  \/ ft[w].kind = "fiber" /\ prog[ft[w].item] = t
  \/ cur[w] # None /\ prog[cur[w]] = t

\* A task handed to schedule() that has not ended is in the queue or with a
\* thread: neither the copy-then-erase of run() nor the re-scheduling of a
\* yielded fiber loses it.
NoTaskLost == fault = "none" =>
  \A t \in Tasks : status[t] \in {"queued", "begun"} => InQueue(t) \/ InThread(t)

\* A task starts on the thread named in schedule(), whoever scans the queue.
BeginsOnPinnedThread ==
  [][\A t \in Tasks : status[t] = "queued" /\ status'[t] = "begun" =>
       \A w \in Threads : pc[w] = "dispatch" /\ pc'[w] = "run" =>
         pin[t] \in {AnyThread, w}]_vars

\* Whenever run() resumes a fiber or a fiber yields, the assertions of Fiber.cpp
\* on its state hold and no stack is entered while a thread is still on it.
NoFault == fault = "none"

\* The claim of the assertion in YieldToReady / YieldToHold and in swapIn: the
\* state of a fiber that runs is EXEC, that of a fiber swapped in is not.
AssertionsHold == fault # "assert"

\* When stop() returns every thread is gone, the queue is empty and everything
\* that was scheduled, before or during the stop, has been executed.
StopMeansDone == main = "done" =>
  /\ fibers = <<>> /\ active = 0 /\ idle = 0
  /\ \A t \in Tasks : status[t] \in {"new", "done"}

\* stop() returns once called.
StopReturns == main # "user" ~> main = "done"

\* A pinned task stays on its thread: "the id of the thread the coroutine is
\* executed on" in the comment of schedule().  True while no task yields READY:
\* run() re-schedules such a fiber for any thread.
RunsOnPinnedThread == \A w \in Threads :
  pc[w] = "run" /\ prog[cur[w]] # None => pin[prog[cur[w]]] \in {AnyThread, w}

Pool == INSTANCE TaskPool WITH stopped <- (main = "done")

\* The scheduler implements the abstract pool.
ImplementsPool == Pool!Spec

=============================================================================
