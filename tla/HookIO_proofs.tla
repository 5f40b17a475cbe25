----------------------------- MODULE HookIO_proofs -----------------------------
(***************************************************************************)
(* Proofs about blocked system calls, for any fibers, worker threads,      *)
(* timeouts and numbers of calls and rounds.                               *)
(***************************************************************************)
EXTENDS HookIO, FiniteSetTheorems, TLAPS

FiberPCs == {"idle", "try", "arm", "add", "hold", "held", "resumed", "check"}

TypeInv ==
  /\ workers \in Workers
  /\ fpc \in [Fibers -> FiberPCs]
  /\ call \in [Fibers -> Nat] /\ round \in [Fibers -> Nat]
  /\ result \in [Fibers -> {"none", "ok", "error", "timeout"}]
  /\ armed \subseteq Tids /\ queued \subseteq Tids
  /\ firing \subseteq Tids /\ marked \subseteq Tids
  /\ timedOut \subseteq Fibers \X Nat
  /\ reg \subseteq Fibers /\ resumes \in [Fibers -> Nat]
  /\ data \in [Fibers -> BOOLEAN]
  /\ closing \in {"open", "cancelAll", "close_f", "closed"}

LEMMA TypeInit == Init => TypeInv
BY DEF Init, TypeInv, FiberPCs

LEMMA TidType ==
  ASSUME TypeInv, NEW f \in Fibers
  PROVE  Tid(f) \in Tids /\ Owner(Tid(f)) = f
BY DEF TypeInv, Tid, Tids, Owner

LEMMA TypeFiber ==
  ASSUME TypeInv, NEW f \in Fibers, DoIO(f)
  PROVE  TypeInv'
<1> USE DEF TypeInv, Goto, Return, FiberPCs, timerVars
<1>0. Tid(f) \in Tids
  BY TidType
<1>1. CASE Try(f)
  <2>1. CASE Closed
    BY <1>1, <2>1 DEF Try
  <2>2. CASE ~Closed /\ data[f]
    BY <1>1, <2>2 DEF Try
  <2>3. CASE ~Closed /\ ~data[f]
    BY <1>1, <2>3 DEF Try
  <2> QED
    BY <2>1, <2>2, <2>3
<1>2. CASE ArmTimer(f)
  BY <1>0, <1>2 DEF ArmTimer
<1>3. CASE AddEvent(f)
  BY <1>3 DEF AddEvent
<1>4. CASE Hold(f)
  BY <1>4 DEF Hold
<1>5. CASE Resume(f)
  BY <1>5 DEF Resume
<1>6. CASE CancelTimer(f)
  BY <1>6 DEF CancelTimer
<1>7. CASE CheckCancelled(f)
  BY <1>7 DEF CheckCancelled, SocketError
<1> QED
  BY <1>1, <1>2, <1>3, <1>4, <1>5, <1>6, <1>7 DEF DoIO

\* Waking a set of fibers.
LEMMA TriggerType ==
  ASSUME TypeInv, NEW fs \in SUBSET Fibers, TriggerAll(fs)
  PROVE  reg' \subseteq Fibers /\ resumes' \in [Fibers -> Nat]
BY DEF TypeInv, TriggerAll

LEMMA TypeTimer ==
  ASSUME TypeInv, NEW x \in Tids, TimerStep(x)
  PROVE  TypeInv'
<1> USE DEF TypeInv
<1>0. Owner(x) \in Fibers /\ <<Owner(x), x[2]>> \in Fibers \X Nat
  BY DEF Tids, Owner
<1>1. CASE Elapse(x)
  BY <1>1 DEF Elapse
<1>2. CASE TimerTest(x)
  BY <1>2 DEF TimerTest
<1>3. CASE TimerMark(x)
  BY <1>0, <1>3 DEF TimerMark
<1>4. CASE TimerCancel(x)
  <2>1. reg' \subseteq Fibers /\ resumes' \in [Fibers -> Nat]
    BY <1>0, <1>4, TriggerType DEF TimerCancel
  <2> QED
    BY <1>4, <2>1 DEF TimerCancel
<1> QED
  BY <1>1, <1>2, <1>3, <1>4 DEF TimerStep

LEMMA TypeRest ==
  ASSUME TypeInv,
         \/ \E f \in Fibers : Call(f) \/ EventReady(f) \/ DataArrives(f) \/ DataLost(f)
         \/ CloseStart \/ CloseCancelAll \/ CloseFd \/ UNCHANGED vars
  PROVE  TypeInv'
<1> USE DEF TypeInv, Goto, FiberPCs, timerVars
<1>1. ASSUME NEW f \in Fibers, Call(f)
      PROVE  TypeInv'
  BY <1>1 DEF Call
<1>5. ASSUME NEW f \in Fibers, DataArrives(f)
      PROVE  TypeInv'
  BY <1>5 DEF DataArrives
<1>6. ASSUME NEW f \in Fibers, DataLost(f)
      PROVE  TypeInv'
  BY <1>6 DEF DataLost
<1>2. ASSUME NEW f \in Fibers, EventReady(f)
      PROVE  TypeInv'
  BY <1>2, TriggerType DEF EventReady
<1>3. CASE CloseCancelAll
  BY <1>3, TriggerType DEF CloseCancelAll
<1>4. CASE CloseStart \/ CloseFd \/ UNCHANGED vars
  BY <1>4 DEF CloseStart, CloseFd, vars
<1> QED
  BY <1>1, <1>2, <1>3, <1>4, <1>5, <1>6

\* The actions, grouped by who acts.
LEMMA StepCases ==
  ASSUME TypeInv, [Next]_vars
  PROVE  \/ \E f \in Fibers : DoIO(f) \/ Call(f) \/ EventReady(f) \/ DataArrives(f) \/ DataLost(f)
         \/ \E x \in Tids : TimerStep(x)
         \/ CloseStart \/ CloseCancelAll \/ CloseFd \/ UNCHANGED vars
<1>1. Callers \subseteq Fibers
  BY HookAssumption DEF Callers
<1>2. armed \cup queued \cup firing \cup marked \subseteq Tids
  BY DEF TypeInv
<1> QED
  BY <1>1, <1>2 DEF Next, Work

LEMMA TypeStep == TypeInv /\ [Next]_vars => TypeInv'
BY StepCases, TypeFiber, TypeTimer, TypeRest

\* Whatever fibers, timers and close() do in whatever order, every variable keeps
\* to its type; a timer belongs to a call of a fiber (the condition of do_io).
THEOREM TypeCorrect == Spec => []TypeInv
<1>1. TypeInv /\ [Next]_vars => TypeInv'
  BY TypeStep
<1> QED
  BY <1>1, TypeInit, PTL DEF Spec

-----------------------------------------------------------------------------
(* Every wait is ended once.                                               *)

LEMMA WokenInit == Init => WokenOnce
BY DEF Init, WokenOnce

\* Waking fibers whose events are registered moves their wake-up from the
\* registration into the queue.
LEMMA TriggerKeepsSum ==
  ASSUME TypeInv, NEW fs \in SUBSET reg, TriggerAll(fs), UNCHANGED fpc, WokenOnce
  PROVE  WokenOnce'
<1> SUFFICES ASSUME NEW g \in Fibers
             PROVE  (resumes[g] + (IF g \in reg THEN 1 ELSE 0)
                       = IF fpc[g] \in {"hold", "held"} THEN 1 ELSE 0)'
  BY DEF WokenOnce
<1>1. resumes[g] \in Nat /\ reg' = reg \ fs
      /\ resumes'[g] = IF g \in fs THEN resumes[g] + 1 ELSE resumes[g]
  BY DEF TypeInv, TriggerAll
<1>2. resumes[g] + (IF g \in reg THEN 1 ELSE 0) = IF fpc[g] \in {"hold", "held"} THEN 1 ELSE 0
  BY DEF WokenOnce
<1> QED
  BY <1>1, <1>2

\* A step of a call changes no other fiber's place, event or wake-ups.
LEMMA FiberFrame ==
  ASSUME TypeInv, NEW f \in Fibers, DoIO(f) \/ Call(f), NEW g \in Fibers, g # f
  PROVE  fpc'[g] = fpc[g] /\ resumes'[g] = resumes[g] /\ (g \in reg' <=> g \in reg)
         /\ call'[g] = call[g] /\ round'[g] = round[g] /\ result'[g] = result[g]
<1> USE DEF TypeInv, Goto, Return
<1>1. CASE Try(f) \/ CheckCancelled(f)
  BY <1>1 DEF Try, CheckCancelled, SocketError
<1>2. CASE ArmTimer(f) \/ AddEvent(f) \/ Hold(f)
  BY <1>2 DEF ArmTimer, AddEvent, Hold
<1>3. CASE Resume(f) \/ CancelTimer(f) \/ Call(f)
  BY <1>3 DEF Resume, CancelTimer, Call
<1> QED
  BY <1>1, <1>2, <1>3 DEF DoIO

LEMMA WokenStep == TypeInv /\ WokenOnce /\ [Next]_vars => WokenOnce'
<1> SUFFICES ASSUME TypeInv, WokenOnce, [Next]_vars
             PROVE  WokenOnce'
  OBVIOUS
<1>1. ASSUME NEW f \in Fibers, DoIO(f) \/ Call(f)
      PROVE  WokenOnce'
  <2> DEFINE Woken(g) == resumes[g] + (IF g \in reg THEN 1 ELSE 0)
                           = IF fpc[g] \in {"hold", "held"} THEN 1 ELSE 0
  <2>1. Woken(f) /\ resumes[f] \in Nat /\ fpc \in [Fibers -> FiberPCs]
        /\ resumes \in [Fibers -> Nat]
    BY DEF TypeInv, WokenOnce
  <2>2. Woken(f)'
    <3> USE DEF Goto, Return
    <3>1. CASE Try(f)
      <4>1. fpc'[f] \in {"idle", "arm"} /\ resumes' = resumes /\ reg' = reg /\ fpc[f] = "try"
        BY <2>1, <3>1 DEF Try
      <4> QED
        BY <2>1, <4>1
    <3>2. CASE CheckCancelled(f)
      <4>1. fpc'[f] \in {"idle", "try"} /\ resumes' = resumes /\ reg' = reg /\ fpc[f] = "check"
        BY <2>1, <3>2 DEF CheckCancelled, SocketError
      <4> QED
        BY <2>1, <4>1
    <3>3. CASE ArmTimer(f) \/ CancelTimer(f) \/ Call(f)
      BY <2>1, <3>3 DEF ArmTimer, CancelTimer, Call
    <3>4. CASE AddEvent(f)
      BY <2>1, <3>4 DEF AddEvent
    <3>5. CASE Hold(f)
      BY <2>1, <3>5 DEF Hold
    <3>6. CASE Resume(f)
      <4>1. /\ fpc[f] = "held" /\ fpc'[f] = "resumed" /\ reg' = reg
            /\ resumes[f] > 0 /\ resumes'[f] = resumes[f] - 1
        BY <2>1, <3>6 DEF Resume, FiberPCs
      <4> QED
        BY <2>1, <4>1
    <3> QED
      BY <1>1, <3>1, <3>2, <3>3, <3>4, <3>5, <3>6 DEF DoIO
  <2>3. ASSUME NEW g \in Fibers
        PROVE  Woken(g)'
    <3>1. Woken(g)
      BY DEF WokenOnce
    <3>2. CASE g # f
      <4>1. fpc'[g] = fpc[g] /\ resumes'[g] = resumes[g] /\ (g \in reg' <=> g \in reg)
        BY <1>1, <3>2, FiberFrame
      <4> QED
        BY <3>1, <4>1
    <3> QED
      BY <2>2, <3>2
  <2> QED
    BY <2>3 DEF WokenOnce
<1>2. ASSUME NEW f \in Fibers, EventReady(f)
      PROVE  WokenOnce'
  BY <1>2, TriggerKeepsSum DEF EventReady
<1>3. ASSUME NEW x \in Tids, TimerStep(x)
      PROVE  WokenOnce'
  <2>1. CASE TimerCancel(x)
    BY <2>1, TriggerKeepsSum DEF TimerCancel
  <2>2. CASE Elapse(x) \/ TimerTest(x) \/ TimerMark(x)
    BY <2>2 DEF Elapse, TimerTest, TimerMark, WokenOnce
  <2> QED
    BY <1>3, <2>1, <2>2 DEF TimerStep
<1>4. CASE CloseCancelAll
  BY <1>4, TriggerKeepsSum DEF CloseCancelAll
<1>5. ASSUME NEW f \in Fibers, DataArrives(f) \/ DataLost(f)
      PROVE  WokenOnce'
  BY <1>5 DEF DataArrives, DataLost, WokenOnce
<1>6. CASE CloseStart \/ CloseFd \/ UNCHANGED vars
  BY <1>6 DEF CloseStart, CloseFd, vars, WokenOnce
<1> QED
  BY <1>1, <1>2, <1>3, <1>4, <1>5, <1>6, StepCases

\* A fiber that waits is woken exactly once, by its event, its timer or close(),
\* and a fiber that does not wait is never woken.
THEOREM EveryWaitWokenOnce == Spec => []WokenOnce
<1>1. TypeInv /\ WokenOnce /\ [Next]_vars => (TypeInv /\ WokenOnce)'
  BY TypeStep, WokenStep
<1> QED
  BY <1>1, TypeInit, WokenInit, PTL DEF Spec

-----------------------------------------------------------------------------
(* Nothing is left behind.                                                 *)

\* An armed timer is that of its fiber's present wait.
TimerOfWait == \A x \in armed :
  x = Tid(Owner(x)) /\ fpc[Owner(x)] \in {"add", "hold", "held", "resumed"}

LEMMA TimerOfWaitStep == TypeInv /\ TimerOfWait /\ [Next]_vars => TimerOfWait'
<1> SUFFICES ASSUME TypeInv, TimerOfWait, [Next]_vars
             PROVE  TimerOfWait'
  OBVIOUS
<1>0. \A x \in armed : x \in Tids /\ Owner(x) \in Fibers
  BY DEF TypeInv, Tids, Owner
<1>1. ASSUME NEW f \in Fibers, DoIO(f) \/ Call(f)
      PROVE  TimerOfWait'
  <2>1. ASSUME NEW x \in armed', Owner(x) # f
        PROVE  (x = Tid(Owner(x)) /\ fpc[Owner(x)] \in {"add", "hold", "held", "resumed"})'
    <3>1. x \in armed
      <4>1. armed' \subseteq armed \cup {Tid(f)}
        BY <1>1 DEF DoIO, Try, ArmTimer, AddEvent, Hold, Resume, CancelTimer, CheckCancelled,
                    Call, timerVars
      <4> QED
        BY <2>1, <4>1, TidType
    <3>2. Owner(x) \in Fibers
      BY <1>0, <3>1
    <3> QED
      BY <1>1, <2>1, <3>1, <3>2, FiberFrame DEF TimerOfWait, Tid
  <2>2. ASSUME NEW x \in armed', Owner(x) = f
        PROVE  (x = Tid(f) /\ fpc[f] \in {"add", "hold", "held", "resumed"})'
    <3> USE DEF Goto, Return, timerVars, TypeInv
    <3>0. x \in armed => x = Tid(f) /\ fpc[f] \in {"add", "hold", "held", "resumed"}
      BY <2>2 DEF TimerOfWait
    <3>1. CASE Try(f) \/ CheckCancelled(f) \/ Call(f)
      <4>1. armed' = armed /\ fpc[f] \in {"try", "check", "idle"}
        BY <3>1 DEF Try, CheckCancelled, Call
      <4> QED
        BY <2>2, <3>0, <4>1
    <3>2. CASE ArmTimer(f)
      <4>1. x \notin armed
        BY <3>0, <3>2 DEF ArmTimer
      <4> QED
        BY <2>2, <3>2, <4>1 DEF ArmTimer, Tid
    <3>3. CASE AddEvent(f)
      <4>1. CASE Closed
        BY <2>2, <3>0, <3>3, <4>1 DEF AddEvent
      <4>2. CASE ~Closed
        BY <2>2, <3>0, <3>3, <4>2 DEF AddEvent, Tid
      <4> QED
        BY <4>1, <4>2
    <3>4. CASE Hold(f) \/ Resume(f)
      BY <2>2, <3>0, <3>4 DEF Hold, Resume, Tid
    <3>5. CASE CancelTimer(f)
      BY <2>2, <3>0, <3>5 DEF CancelTimer
    <3> QED
      BY <1>1, <3>1, <3>2, <3>3, <3>4, <3>5 DEF DoIO
  <2> QED
    BY <2>1, <2>2 DEF TimerOfWait
<1>2. ASSUME UNCHANGED <<fpc, call, round>>, armed' \subseteq armed
      PROVE  TimerOfWait'
  BY <1>2 DEF TimerOfWait, Tid
<1>3. ASSUME NEW f \in Fibers, EventReady(f) \/ DataArrives(f) \/ DataLost(f)
      PROVE  TimerOfWait'
  BY <1>2, <1>3 DEF EventReady, DataArrives, DataLost, timerVars
<1>4. ASSUME NEW x \in Tids, TimerStep(x)
      PROVE  TimerOfWait'
  BY <1>2, <1>4 DEF TimerStep, Elapse, TimerTest, TimerMark, TimerCancel
<1>5. CASE CloseStart \/ CloseCancelAll \/ CloseFd \/ UNCHANGED vars
  BY <1>2, <1>5 DEF CloseStart, CloseCancelAll, CloseFd, vars, timerVars
<1> QED
  BY <1>1, <1>3, <1>4, <1>5, StepCases

\* A call that has not begun to wait, or has returned, has neither an event
\* registered nor a timer armed.
THEOREM NothingLeftBehind == Spec => []NoLeftovers
<1>1. Init => TimerOfWait
  BY DEF Init, TimerOfWait
<1>2. TypeInv /\ WokenOnce /\ TimerOfWait => NoLeftovers
  <2> SUFFICES ASSUME TypeInv, WokenOnce, TimerOfWait, NEW f \in Fibers,
                      fpc[f] \in {"idle", "try"}
               PROVE  f \notin reg /\ \A x \in armed : Owner(x) # f
    BY DEF NoLeftovers
  <2>1. resumes[f] \in Nat /\ resumes[f] + (IF f \in reg THEN 1 ELSE 0) = 0
    BY DEF TypeInv, WokenOnce
  <2> QED
    BY <2>1 DEF TimerOfWait
<1>3. TypeInv /\ TimerOfWait /\ [Next]_vars => (TypeInv /\ TimerOfWait)'
  BY TypeStep, TimerOfWaitStep
<1> QED
  BY <1>1, <1>2, <1>3, TypeInit, EveryWaitWokenOnce, PTL DEF Spec

-----------------------------------------------------------------------------
(* One worker thread.                                                      *)

\* What is on a worker thread: the fibers that do not wait, the callbacks that
\* have begun, the closing task.
Occupants ==
  {f \in Fibers : fpc[f] \notin {"idle", "held"}} \cup firing \cup marked
    \cup IF closing \in {"cancelAll", "close_f"} THEN {Closer} ELSE {}

OneAtATime ==
  /\ running = Occupants /\ firing \cap marked = {}
  /\ running = {} \/ \E a \in running : running = {a}

\* A callback on the thread belongs to the call that is under way.
CallbackIsCurrent ==
  /\ \A x \in firing \cup marked : call[Owner(x)] = x[2]
  /\ \A x \in marked : <<Owner(x), x[2]>> \in timedOut

\* A connecting fiber is woken for a reason.
ConnectReason(f) ==
  Connects(f) /\ (resumes[f] > 0 \/ fpc[f] \in {"resumed", "check"}) =>
    data[f] \/ <<f, call[f]>> \in timedOut \/ closing \in {"close_f", "closed"}

AloneInv == workers = 1 =>
  OneAtATime /\ CallbackIsCurrent /\ \A f \in Fibers : ConnectReason(f)

\* A thread that is free is one on which nothing runs.
LEMMA FreeIsEmpty ==
  ASSUME OneAtATime, workers = 1, FreeWorker
  PROVE  running = {} /\ firing = {} /\ marked = {}
         /\ closing \notin {"cancelAll", "close_f"}
         /\ \A f \in Fibers : fpc[f] \in {"idle", "held"}
<1>1. running = {}
  <2>1. ASSUME NEW a \in running, running = {a}
        PROVE  FALSE
    <3>1. Cardinality(running) = 1
      BY <2>1, FS_Singleton
    <3> QED
      BY <3>1 DEF FreeWorker
  <2> QED
    BY <2>1 DEF OneAtATime
<1> QED
  BY <1>1 DEF OneAtATime, Occupants

\* ... and two things on it are one.
LEMMA OnlyOne ==
  ASSUME OneAtATime, NEW a \in running, NEW b \in running
  PROVE  a = b
BY DEF OneAtATime

\* A step of a call.  Its fiber is on the thread alone, before or afterwards.
LEMMA AloneFiber ==
  ASSUME TypeInv, WokenOnce, workers = 1, OneAtATime, CallbackIsCurrent,
         \A g \in Fibers : ConnectReason(g), NEW f \in Fibers, DoIO(f) \/ Call(f)
  PROVE  (OneAtATime /\ CallbackIsCurrent /\ \A g \in Fibers : ConnectReason(g))'
<1> USE DEF TypeInv, Goto, Return, timerVars, FiberPCs
<1>1. fpc[f] \notin {"idle", "held"} => running = {f}
  BY OnlyOne DEF OneAtATime, Occupants
<1>2. Resume(f) \/ Call(f) => running = {} /\ running' = {f} /\ fpc'[f] \notin {"idle", "held"}
  BY FreeIsEmpty DEF Resume, Call
<1>3. running = {} \/ running = {f}
  BY <1>1, <1>2 DEF DoIO, Try, ArmTimer, AddEvent, Hold, CancelTimer, CheckCancelled
<1>4. /\ firing = {} /\ marked = {} /\ closing \notin {"cancelAll", "close_f"}
      /\ \A g \in Fibers \ {f} : fpc[g] \in {"idle", "held"}
  <2>1. f \notin firing \cup marked /\ f # Closer
    BY HookAssumption
  <2> QED
    BY <1>3, <2>1 DEF OneAtATime, Occupants
<1>5. UNCHANGED <<workers, firing, marked, closing, timedOut>>
  BY DEF DoIO, Try, ArmTimer, AddEvent, Hold, Resume, CancelTimer, CheckCancelled, Call
<1>6. running' = IF fpc'[f] \in {"idle", "held"} THEN {} ELSE {f}
  <2>1. CASE Try(f)
    BY <1>1, <2>1 DEF Try
  <2>2. CASE AddEvent(f)
    BY <1>1, <2>2 DEF AddEvent
  <2>3. CASE CheckCancelled(f)
    BY <1>1, <2>3 DEF CheckCancelled, SocketError
  <2>4. CASE ArmTimer(f) \/ Hold(f) \/ CancelTimer(f)
    BY <1>1, <2>4 DEF ArmTimer, Hold, CancelTimer
  <2> QED
    BY <1>2, <2>1, <2>2, <2>3, <2>4 DEF DoIO
<1>7. \A g \in Fibers \ {f} : fpc'[g] = fpc[g]
  BY FiberFrame
<1>8. OneAtATime'
  <2>1. Occupants' = IF fpc'[f] \in {"idle", "held"} THEN {} ELSE {f}
    BY <1>4, <1>5, <1>7 DEF Occupants
  <2> QED
    BY <1>4, <1>5, <1>6, <2>1 DEF OneAtATime
<1>9. CallbackIsCurrent'
  BY <1>4, <1>5 DEF CallbackIsCurrent
<1>10. ASSUME NEW g \in Fibers
       PROVE  ConnectReason(g)'
  <2>1. CASE g # f
    <3>1. /\ fpc'[g] = fpc[g] /\ resumes'[g] = resumes[g] /\ call'[g] = call[g]
          /\ data'[g] = data[g]
      <4>1. data'[g] = data[g]
        BY <2>1 DEF DoIO, Try, ArmTimer, AddEvent, Hold, Resume, CancelTimer,
                    CheckCancelled, Call
      <4> QED
        BY <2>1, <4>1, FiberFrame
    <3> QED
      BY <1>5, <3>1 DEF ConnectReason, Connects
  <2>2. ASSUME resumes' = resumes, fpc[f] \notin {"hold", "held"},
               fpc'[f] \notin {"resumed", "check"}
        PROVE  ConnectReason(f)'
    <3>1. resumes[f] = 0
      BY <2>2 DEF WokenOnce
    <3> QED
      BY <2>2, <3>1 DEF ConnectReason
  <2>3. ASSUME Try(f) \/ ArmTimer(f) \/ AddEvent(f) \/ Call(f)
        PROVE  ConnectReason(f)'
    <3>1. resumes' = resumes
      BY <2>3 DEF Try, ArmTimer, AddEvent, Call
    <3>2. fpc[f] \notin {"hold", "held"} /\ fpc'[f] \notin {"resumed", "check"}
      BY <2>3 DEF Try, ArmTimer, AddEvent, Call
    <3> QED
      BY <2>2, <3>1, <3>2
  <2>4. ASSUME CheckCancelled(f)
        PROVE  ConnectReason(f)'
    <3>1. resumes' = resumes
      BY <2>4 DEF CheckCancelled
    <3>2. fpc[f] \notin {"hold", "held"} /\ fpc'[f] \notin {"resumed", "check"}
      BY <2>4 DEF CheckCancelled, SocketError
    <3> QED
      BY <2>2, <3>1, <3>2
  <2>5. CASE Hold(f) \/ Resume(f) \/ CancelTimer(f)
    BY <1>5, <2>5 DEF Hold, Resume, CancelTimer, ConnectReason, Connects
  <2>6. CASE g = f
    <3>1. Hold(f) \/ Resume(f) \/ CancelTimer(f) => ConnectReason(f)'
      BY <2>5, <2>6
    <3> QED
      BY <2>3, <2>4, <2>6, <3>1 DEF DoIO
  <2> QED
    BY <2>1, <2>6
<1> QED
  BY <1>8, <1>9, <1>10

\* A step of a timer's callback.
LEMMA AloneTimer ==
  ASSUME TypeInv, WokenOnce, workers = 1, OneAtATime, CallbackIsCurrent,
         \A g \in Fibers : ConnectReason(g), NEW x \in Tids, TimerStep(x)
  PROVE  (OneAtATime /\ CallbackIsCurrent /\ \A g \in Fibers : ConnectReason(g))'
<1> USE DEF TypeInv
<1>0. UNCHANGED <<fpc, call, data, closing>>
  BY DEF TimerStep, Elapse, TimerTest, TimerMark, TimerCancel
<1>1. CASE Elapse(x)
  BY <1>1 DEF Elapse, OneAtATime, Occupants, CallbackIsCurrent, ConnectReason, Connects
<1>2. CASE TimerTest(x)
  <2>1. /\ running = {} /\ firing = {} /\ marked = {}
        /\ closing \notin {"cancelAll", "close_f"}
        /\ \A f \in Fibers : fpc[f] \in {"idle", "held"}
    BY <1>2, FreeIsEmpty DEF TimerTest
  <2>2. \A g \in Fibers : ConnectReason(g)'
    BY <1>2 DEF TimerTest, ConnectReason, Connects
  <2>3. CASE firing' = firing \cup {x} /\ running' = running \cup {x}
             /\ TinfoAlive(x) /\ marked' = marked
    <3>1. Occupants' = {x} /\ running' = {x} /\ firing' = {x} /\ marked' = {}
      BY <1>0, <2>1, <2>3 DEF Occupants
    <3>2. call'[Owner(x)] = x[2]
      BY <1>0, <2>3 DEF TinfoAlive
    <3> QED
      BY <2>2, <3>1, <3>2 DEF OneAtATime, CallbackIsCurrent
  <2>4. CASE UNCHANGED <<firing, running, marked, timedOut>>
    BY <1>0, <2>2, <2>4 DEF OneAtATime, Occupants, CallbackIsCurrent
  <2> QED
    BY <1>2, <2>3, <2>4 DEF TimerTest
<1>3. CASE TimerMark(x)
  <2>1. running = {x} /\ x \notin marked
    BY <1>3, OnlyOne DEF TimerMark, OneAtATime, Occupants
  <2>2. Occupants' = Occupants /\ running' = running /\ firing' \cap marked' = {}
    BY <1>0, <1>3 DEF TimerMark, OneAtATime, Occupants
  <2>3. OneAtATime'
    BY <2>2 DEF OneAtATime
  <2>4. CallbackIsCurrent'
    BY <1>3 DEF TimerMark, CallbackIsCurrent
  <2>5. \A g \in Fibers : ConnectReason(g)'
    BY <1>3 DEF TimerMark, ConnectReason, Connects
  <2> QED
    BY <2>3, <2>4, <2>5
<1>4. CASE TimerCancel(x)
  <2>1. running = {x} /\ x \notin firing /\ running' = {}
    BY <1>4, OnlyOne DEF TimerCancel, OneAtATime, Occupants
  <2>2. x \notin Fibers /\ x # Closer
    BY HookAssumption
  <2>3. Occupants' = {}
    BY <1>0, <1>4, <2>1, <2>2 DEF TimerCancel, OneAtATime, Occupants
  <2>4. OneAtATime'
    BY <1>4, <2>1, <2>3 DEF TimerCancel, OneAtATime
  <2>5. CallbackIsCurrent'
    BY <1>4 DEF TimerCancel, CallbackIsCurrent
  <2>6. ASSUME NEW g \in Fibers
        PROVE  ConnectReason(g)'
    <3>1. g # Owner(x) => resumes'[g] = resumes[g]
      BY <1>4 DEF TimerCancel, TriggerAll
    <3>2. g = Owner(x) => <<g, call[g]>> \in timedOut
      BY <1>4 DEF TimerCancel, CallbackIsCurrent
    <3> QED
      BY <1>0, <1>4, <3>1, <3>2 DEF TimerCancel, ConnectReason, Connects
  <2> QED
    BY <2>4, <2>5, <2>6
<1> QED
  BY <1>1, <1>2, <1>3, <1>4 DEF TimerStep

\* close(), the kernel and the idle loop.
LEMMA AloneRest ==
  ASSUME TypeInv, WokenOnce, workers = 1, OneAtATime, CallbackIsCurrent,
         \A g \in Fibers : ConnectReason(g),
         \/ \E f \in Fibers : EventReady(f) \/ DataArrives(f) \/ DataLost(f)
         \/ CloseStart \/ CloseCancelAll \/ CloseFd \/ UNCHANGED vars
  PROVE  (OneAtATime /\ CallbackIsCurrent /\ \A g \in Fibers : ConnectReason(g))'
<1> USE DEF TypeInv
<1>0. UNCHANGED <<fpc, call, firing, marked, timedOut>>
  BY DEF EventReady, DataArrives, DataLost, CloseStart, CloseCancelAll, CloseFd, vars, timerVars
<1>1. CallbackIsCurrent'
  BY <1>0 DEF CallbackIsCurrent
<1>2. OneAtATime'
  <2>1. CASE CloseStart
    <3>1. /\ running = {} /\ firing = {} /\ marked = {}
          /\ \A f \in Fibers : fpc[f] \in {"idle", "held"}
      BY <2>1, FreeIsEmpty DEF CloseStart
    <3>2. Occupants' = {Closer} /\ running' = {Closer}
      BY <1>0, <2>1, <3>1 DEF CloseStart, Occupants
    <3> QED
      BY <1>0, <3>1, <3>2 DEF OneAtATime
  <2>2. CASE CloseFd
    <3>1. Closer \in running
      BY <2>2 DEF CloseFd, OneAtATime, Occupants
    <3>2. running = {Closer}
      BY <3>1, OnlyOne
    <3>3. Closer \notin firing \cup marked \cup Fibers
      BY HookAssumption
    <3>4. Occupants' = {} /\ running' = {}
      BY <1>0, <2>2, <3>2, <3>3 DEF CloseFd, OneAtATime, Occupants
    <3> QED
      BY <1>0, <3>4 DEF OneAtATime
  <2>3. CASE CloseCancelAll
    BY <1>0, <2>3 DEF CloseCancelAll, OneAtATime, Occupants
  <2>4. ASSUME UNCHANGED <<running, closing>>
        PROVE  OneAtATime'
    BY <1>0, <2>4 DEF OneAtATime, Occupants
  <2> QED
    BY <2>1, <2>2, <2>3, <2>4 DEF EventReady, DataArrives, DataLost, vars
<1>3. ASSUME NEW g \in Fibers
      PROVE  ConnectReason(g)'
  <2> USE <1>0 DEF ConnectReason, Connects
  <2>0. ConnectReason(g)
    OBVIOUS
  <2>1. ASSUME NEW f \in Fibers, EventReady(f)
        PROVE  ConnectReason(g)'
    <3>1. /\ UNCHANGED <<data, closing>> /\ data[f]
          /\ g # f => resumes'[g] = resumes[g]
      BY <2>1 DEF EventReady, TriggerAll
    <3> QED
      BY <2>0, <3>1
  <2>2. ASSUME NEW f \in Fibers, DataArrives(f)
        PROVE  ConnectReason(g)'
    BY <2>0, <2>2 DEF DataArrives
  <2>3. ASSUME NEW f \in Fibers, DataLost(f)
        PROVE  ConnectReason(g)'
    BY <2>0, <2>3 DEF DataLost
  <2>4. CASE CloseStart \/ CloseFd \/ UNCHANGED vars
    BY <2>0, <2>4 DEF CloseStart, CloseFd, vars, timerVars
  <2>5. CASE CloseCancelAll
    BY <2>5 DEF CloseCancelAll
  <2> QED
    BY <2>1, <2>2, <2>3, <2>4, <2>5
<1> QED
  BY <1>1, <1>2, <1>3

LEMMA AloneStep == TypeInv /\ WokenOnce /\ AloneInv /\ [Next]_vars => AloneInv'
<1> SUFFICES ASSUME TypeInv, WokenOnce, AloneInv, [Next]_vars, workers' = 1
             PROVE  (OneAtATime /\ CallbackIsCurrent /\ \A f \in Fibers : ConnectReason(f))'
  BY DEF AloneInv
<1>1. workers = 1
  BY StepCases DEF DoIO, Try, ArmTimer, AddEvent, Hold, Resume, CancelTimer, CheckCancelled,
     Call, EventReady, DataArrives, DataLost, TimerStep, Elapse, TimerTest, TimerMark,
     TimerCancel, CloseStart, CloseCancelAll, CloseFd, vars
<1>2. OneAtATime /\ CallbackIsCurrent /\ \A f \in Fibers : ConnectReason(f)
  BY <1>1 DEF AloneInv
<1> QED
  BY <1>1, <1>2, StepCases, AloneFiber, AloneTimer, AloneRest

\* On one worker thread a left-over callback wakes no later call, and connect()
\* reports success only for a connection that has been made.
THEOREM AloneNobodyMisled == Spec => NobodyMisled
<1>1. Init => AloneInv
  BY DEF Init, AloneInv, OneAtATime, Occupants, CallbackIsCurrent, ConnectReason
<1>2. TypeInv /\ WokenOnce /\ AloneInv /\ [Next]_vars =>
        [workers = 1 =>
          /\ \A x \in marked : x \notin marked' /\ resumes' # resumes => call[Owner(x)] = x[2]
          /\ \A f \in Fibers :
               fpc[f] = "check" /\ fpc'[f] = "idle" /\ result'[f] = "ok" => data[f]]_vars
  <2> SUFFICES ASSUME TypeInv, WokenOnce, AloneInv, [Next]_vars, workers = 1,
                      NEW f \in Fibers, fpc[f] = "check", fpc'[f] = "idle", result'[f] = "ok"
               PROVE  data[f]
    BY DEF AloneInv, CallbackIsCurrent
  <2>0. OneAtATime /\ ConnectReason(f)
    BY DEF AloneInv
  <2>1. ASSUME NEW g \in Fibers, DoIO(g) \/ Call(g)
        PROVE  data[f]
    <3>1. g = f
      BY <2>1, FiberFrame
    <3>2. CheckCancelled(f)
      BY <2>1, <3>1 DEF DoIO, Try, ArmTimer, AddEvent, Hold, Resume, CancelTimer, Call
    <3>3. Connects(f) /\ ~Closed /\ <<f, call[f]>> \notin timedOut
      BY <3>2 DEF CheckCancelled, SocketError, Return, Goto, TypeInv
    <3>4. closing # "close_f"
      <4>1. f \in running /\ f # Closer
        BY <2>0, HookAssumption DEF OneAtATime, Occupants
      <4> QED
        BY <2>0, <4>1, OnlyOne DEF OneAtATime, Occupants
    <3> QED
      BY <2>0, <3>3, <3>4 DEF ConnectReason, Closed
  <2>2. ASSUME UNCHANGED fpc
        PROVE  FALSE
    BY <2>2
  <2> QED
    BY <2>1, <2>2, StepCases DEF EventReady, DataArrives, DataLost, TimerStep, Elapse,
       TimerTest, TimerMark, TimerCancel, CloseStart, CloseCancelAll, CloseFd, vars
<1>3. Init => TypeInv /\ WokenOnce
  BY TypeInit, WokenInit
<1>4. TypeInv /\ WokenOnce /\ AloneInv /\ [Next]_vars => (TypeInv /\ WokenOnce /\ AloneInv)'
  BY TypeStep, WokenStep, AloneStep
<1> QED
  BY <1>1, <1>2, <1>3, <1>4, PTL DEF Spec, NobodyMisled

================================================================================
