---------------------------- MODULE IOTasks_proofs ----------------------------
(***************************************************************************)
(* Proof that IOManager loses no task (NothingLost), for any descriptors   *)
(* and tasks: with one worker always, and with several while tasks wait    *)
(* for timers and events by callbacks only and none calls switchTo().      *)
(*                                                                         *)
(* The scheduler inside is the one SchedulerTasks_proofs is about: it sees *)
(* a thread in the steps of idle() as idle, one that triggers events for   *)
(* its task as running it, and a task that a timer or an event still keeps *)
(* as one that has not been handed over yet.                               *)
(***************************************************************************)
EXTENDS IOManager_proofs

\* Tasks kept by a timer, by an event, or by a thread that has collected them.
Kept(t) ==
  \/ t \in timers
  \/ \E w \in Threads : t \in cbs[w]
  \/ \E d \in Fds, e \in Events : waiter[d][e].item = t

schedPc == [w \in Threads |->
  IF pc[w] \in PCs THEN pc[w]
  ELSE IF pc[w] \in Triggering /\ todo[w].back = "run" THEN "run" ELSE "idle"]

schedStatus == [t \in Tasks |-> IF Kept(t) THEN "new" ELSE status[t]]

M == INSTANCE SchedulerTasks_proofs WITH pc <- schedPc, status <- schedStatus

\* What keeps a task is one thing, and nobody has begun it.
KeptInv ==
  /\ timers \in SUBSET Tasks /\ IsFiniteSet(timers) /\ due \in SUBSET timers
  /\ cbs \in [Threads -> SUBSET Tasks]
  /\ \A w \in Threads : IsFiniteSet(cbs[w]) /\ (pc[w] # "sched" => cbs[w] = {})
  /\ \A d \in Fds, e \in Events :
       waiter[d][e] \in [kind : {"cb"}, item : Tasks, thr : {AnyThread}] \cup {NoEntry}
  /\ status \in [Tasks -> {"new", "queued", "begun", "done"}]
  /\ \A t \in Tasks : Kept(t) => status[t] = "queued"
  /\ \A w \in Threads : cbs[w] \cap timers = {}
  /\ \A v, w \in Threads : cbs[v] \cap cbs[w] # {} => v = w
  /\ \A d \in Fds, e \in Events : waiter[d][e] # NoEntry =>
       /\ waiter[d][e].item \notin timers
       /\ \A w \in Threads : waiter[d][e].item \notin cbs[w]
       /\ \A a \in Fds, b \in Events : waiter[a][b].item = waiter[d][e].item => a = d /\ b = e

LosesNothing == fault = "none" => M!TypeInv /\ M!TasksInv /\ M!AllPlaced /\ KeptInv

-----------------------------------------------------------------------------
(* The scheduler's view of a state and of a step.                          *)

LEMMA SameAssumption == M!ThreadsAssumption
BY ThreadsAssumption DEF M!ThreadsAssumption, M!Threads, Threads, M!IsFiniteSet, IsFiniteSet

LEMMA ViewTypes ==
  ASSUME FdTypes
  PROVE  /\ \A w \in Threads : pc[w] \in PCs => schedPc[w] = pc[w]
         /\ \A w \in Threads : schedPc[w] \in PCs
         /\ schedPc = [w \in Threads |-> schedPc[w]]
BY DEF schedPc, PCs

LEMMA ViewMove ==
  ASSUME FdTypes, NEW w \in Threads, NEW l \in PCs, pc[w] \in PCs, pc' = [pc EXCEPT ![w] = l], todo' = todo
  PROVE  schedPc' = [schedPc EXCEPT ![w] = l]
BY DEF schedPc, FdTypes

LEMMA ViewStay ==
  ASSUME pc' = pc, todo' = todo
  PROVE  schedPc' = schedPc
BY DEF schedPc

\* Tasks that are in the scheduler's hands are not kept by anything else.
LEMMA ViewStatus ==
  ASSUME KeptInv
  PROVE  /\ schedStatus = [t \in Tasks |-> schedStatus[t]]
         /\ \A t \in Tasks : /\ schedStatus[t] # "new" => ~Kept(t) /\ status[t] = schedStatus[t]
                             /\ status[t] = "new" => ~Kept(t) /\ schedStatus[t] = "new"
BY DEF schedStatus, KeptInv

LEMMA SameKept ==
  ASSUME UNCHANGED <<timers, cbs, waiter>>
  PROVE  \A t : Kept(t)' <=> Kept(t)
BY DEF Kept

LEMMA StatusMove ==
  ASSUME KeptInv, NEW t \in Tasks, ~Kept(t), NEW x, status' = [status EXCEPT ![t] = x],
         UNCHANGED <<timers, cbs, waiter>>
  PROVE  schedStatus' = [schedStatus EXCEPT ![t] = x]
<1>1. \A s : Kept(s)' <=> Kept(s)
  BY SameKept
<1>2. \A s \in Tasks : status'[s] = IF s = t THEN x ELSE status[s]
  BY DEF KeptInv
<1>3. \A s \in Tasks : (IF Kept(s)' THEN "new" ELSE status'[s]) = IF s = t THEN x ELSE schedStatus[s]
  BY <1>1, <1>2 DEF schedStatus
<1>4. schedStatus' = [s \in Tasks |-> IF s = t THEN x ELSE schedStatus[s]]
  BY <1>3 DEF schedStatus
<1> QED
  BY <1>4 DEF schedStatus

LEMMA StatusStay ==
  ASSUME status' = status, UNCHANGED <<timers, cbs, waiter>>
  PROVE  schedStatus' = schedStatus
<1>1. \A s : Kept(s)' <=> Kept(s)
  BY SameKept
<1> QED
  BY <1>1 DEF schedStatus

LEMMA SameSize ==
  ASSUME NEW S
  PROVE  M!Cardinality(S) = Cardinality(S)
BY DEF M!Cardinality, Cardinality

\* A fiber's stack is in use in the view exactly when it is.
LEMMA SameStack ==
  ASSUME FdTypes
  PROVE  \A f : M!OnStack(f) <=> OnStack(f)
<1>1. \A u \in Threads : schedPc[u] \in {"ret", "settle", "sethold"} <=> pc[u] \in {"ret", "settle", "sethold"}
  BY DEF schedPc, PCs
<1> QED
  BY <1>1 DEF M!OnStack, OnStack, M!Threads, Threads

\* Every step of run() is one in the scheduler's view.
LEMMA RunIsRun ==
  ASSUME FdTypes, KeptInv, M!TypeInv, M!TasksInv, NEW w \in Threads, RunStep(w), UNCHANGED ioVars
  PROVE  M!RunStep(w)
<1>0. UNCHANGED <<timers, cbs, waiter, todo>> /\ M!TaskTypes
  BY SameAssumption, M!TypesOfTasks DEF ioVars, tmVars, fdVars, idleVars
<1>a. ASSUME NEW l \in PCs, NEW m \in PCs, At(w, l), Goto(w, m)
      PROVE  M!At(w, l) /\ M!Goto(w, m)
  <2>1. schedPc[w] = l /\ schedPc' = [schedPc EXCEPT ![w] = m]
    BY <1>0, <1>a, ViewTypes, ViewMove DEF At, Goto
  <2> QED
    BY <1>a, <2>1 DEF M!At, M!Goto, At
<1>b. status' = status => schedStatus' = schedStatus
  BY <1>0, StatusStay
<1>1. CASE Pick(w)
  <2>1. M!At(w, "pick") /\ M!Goto(w, "dispatch")
    BY <1>a, <1>1 DEF Pick, PCs
  <2>2. schedStatus' = schedStatus
    BY <1>b, <1>1 DEF Pick, taskVars
  <2>3. M!Pick(w)
    BY <1>1, <2>1, <2>2 DEF Pick, M!Pick, Pickable, M!Pickable, Foreign, M!Foreign, RemoveAt, M!RemoveAt, ctlVars, M!ctlVars, queueVars, M!queueVars, countVars, M!countVars, fiberVars, M!fiberVars,
       threadVars, M!threadVars, taskVars, M!taskVars
  <2> QED
    BY <2>3 DEF M!RunStep
<1>2. CASE PickNothing(w)
  <2>1. M!At(w, "pick") /\ M!Goto(w, "dispatch")
    BY <1>a, <1>2 DEF PickNothing, PCs
  <2>2. schedStatus' = schedStatus
    BY <1>b, <1>2 DEF PickNothing, taskVars
  <2>3. M!PickNothing(w)
    BY <1>2, <2>1, <2>2 DEF PickNothing, M!PickNothing, Pickable, M!Pickable, Foreign, M!Foreign, NoEntry, M!NoEntry, ctlVars, M!ctlVars, queueVars, M!queueVars, countVars, M!countVars, fiberVars, M!fiberVars,
       threadVars, M!threadVars, taskVars, M!taskVars
  <2> QED
    BY <2>3 DEF M!RunStep
<1>3. CASE SkipDead(w)
  <2>1. M!At(w, "dispatch") /\ M!Goto(w, "pick")
    BY <1>a, <1>3 DEF SkipDead, PCs
  <2>2. schedStatus' = schedStatus
    BY <1>b, <1>3 DEF SkipDead, taskVars
  <2>3. M!SkipDead(w)
    BY <1>3, <2>1, <2>2 DEF SkipDead, M!SkipDead, Dead, M!Dead, ctlVars, M!ctlVars, queueVars, M!queueVars, countVars, M!countVars, fiberVars, M!fiberVars,
       threadVars, M!threadVars, taskVars, M!taskVars
  <2> QED
    BY <2>3 DEF M!RunStep
<1>4. CASE Ret(w)
  <2>1. M!At(w, "ret") /\ M!Goto(w, "settle")
    BY <1>a, <1>4 DEF Ret, PCs
  <2>2. schedStatus' = schedStatus
    BY <1>b, <1>4 DEF Ret, taskVars
  <2>3. M!Ret(w)
    BY <1>4, <2>1, <2>2 DEF Ret, M!Ret, ctlVars, M!ctlVars, queueVars, M!queueVars, countVars, M!countVars, fiberVars, M!fiberVars,
       threadVars, M!threadVars, taskVars, M!taskVars
  <2> QED
    BY <2>3 DEF M!RunStep
<1>5. CASE SettleReady(w)
  <2>1. M!At(w, "settle") /\ M!Goto(w, "pick")
    BY <1>a, <1>5 DEF SettleReady, PCs
  <2>2. schedStatus' = schedStatus
    BY <1>b, <1>5 DEF SettleReady, taskVars
  <2>3. M!SettleReady(w)
    BY <1>5, <2>1, <2>2 DEF SettleReady, M!SettleReady, Enqueue, M!Enqueue, FromCallback, M!FromCallback, NoEntry, M!NoEntry, ctlVars, M!ctlVars, queueVars, M!queueVars, countVars, M!countVars, fiberVars, M!fiberVars,
       threadVars, M!threadVars, taskVars, M!taskVars
  <2> QED
    BY <2>3 DEF M!RunStep
<1>6. CASE SettleOther(w)
  <2>1. M!At(w, "settle") /\ M!Goto(w, "sethold")
    BY <1>a, <1>6 DEF SettleOther, PCs
  <2>2. schedStatus' = schedStatus
    BY <1>b, <1>6 DEF SettleOther, taskVars
  <2>3. M!SettleOther(w)
    BY <1>6, <2>1, <2>2 DEF SettleOther, M!SettleOther, Dead, M!Dead, ctlVars, M!ctlVars, queueVars, M!queueVars, countVars, M!countVars, fiberVars, M!fiberVars,
       threadVars, M!threadVars, taskVars, M!taskVars
  <2> QED
    BY <2>3 DEF M!RunStep
<1>7. CASE SetHold(w)
  <2>1. M!At(w, "sethold") /\ M!Goto(w, "pick")
    BY <1>a, <1>7 DEF SetHold, PCs
  <2>2. schedStatus' = schedStatus
    BY <1>b, <1>7 DEF SetHold, taskVars
  <2>3. M!SetHold(w)
    BY <1>7, <2>1, <2>2 DEF SetHold, M!SetHold, FromCallback, M!FromCallback, NoEntry, M!NoEntry, ctlVars, M!ctlVars, queueVars, M!queueVars, countVars, M!countVars, fiberVars, M!fiberVars,
       threadVars, M!threadVars, taskVars, M!taskVars
  <2> QED
    BY <2>3 DEF M!RunStep
<1>8. CASE ThreadExit(w)
  <2>1. M!At(w, "dispatch") /\ M!Goto(w, "exit")
    BY <1>a, <1>8 DEF ThreadExit, PCs
  <2>2. schedStatus' = schedStatus
    BY <1>b, <1>8 DEF ThreadExit, taskVars
  <2>3. M!ThreadExit(w)
    BY <1>8, <2>1, <2>2 DEF ThreadExit, M!ThreadExit, NoEntry, M!NoEntry, ctlVars, M!ctlVars, queueVars, M!queueVars, countVars, M!countVars, fiberVars, M!fiberVars,
       threadVars, M!threadVars, taskVars, M!taskVars
  <2> QED
    BY <2>3 DEF M!RunStep
<1>9. CASE IdleIn(w)
  <2>1. M!At(w, "dispatch") /\ M!Goto(w, "idle")
    BY <1>a, <1>9 DEF IdleIn, PCs
  <2>2. schedStatus' = schedStatus
    BY <1>b, <1>9 DEF IdleIn, taskVars
  <2>3. M!IdleIn(w)
    BY <1>9, <2>1, <2>2 DEF IdleIn, M!IdleIn, NoEntry, M!NoEntry, ctlVars, M!ctlVars, queueVars, M!queueVars, countVars, M!countVars, fiberVars, M!fiberVars,
       threadVars, M!threadVars, taskVars, M!taskVars
  <2> QED
    BY <2>3 DEF M!RunStep
<1>10. CASE IdleOut(w)
  <2>1. M!At(w, "idleout") /\ M!Goto(w, "pick")
    BY <1>a, <1>10 DEF IdleOut, PCs
  <2>2. schedStatus' = schedStatus
    BY <1>b, <1>10 DEF IdleOut, taskVars
  <2>3. M!IdleOut(w)
    BY <1>10, <2>1, <2>2 DEF IdleOut, M!IdleOut, ctlVars, M!ctlVars, queueVars, M!queueVars, countVars, M!countVars, fiberVars, M!fiberVars,
       threadVars, M!threadVars, taskVars, M!taskVars
  <2> QED
    BY <2>3 DEF M!RunStep
<1>11. CASE SettleDead(w)
  <2>1. M!At(w, "settle") /\ M!Goto(w, "pick")
    BY <1>a, <1>11 DEF SettleDead, PCs
  <2>2. schedStatus' = schedStatus
    BY <1>b, <1>11 DEF SettleDead, taskVars
  <2>3. M!OnStack(cur[w]) <=> OnStack(cur[w])
    BY SameStack
  <2>4. M!SettleDead(w)
    BY <1>11, <2>1, <2>2, <2>3 DEF SettleDead, M!SettleDead, Dead, M!Dead, FromCallback, M!FromCallback, NoEntry, M!NoEntry, ctlVars, M!ctlVars, queueVars, M!queueVars, countVars, M!countVars, fiberVars, M!fiberVars,
       threadVars, M!threadVars, taskVars, M!taskVars
  <2> QED
    BY <2>4 DEF M!RunStep
<1>12. CASE ResumeFiber(w)
  <2> DEFINE f == ft[w].item
  <2>1. M!At(w, "dispatch") /\ M!Goto(w, "run")
    BY <1>a, <1>12 DEF ResumeFiber, SwapIn, PCs
  <2>2. f \in Tasks
    BY <1>0, <1>12, SameAssumption, M!FtFacts DEF ResumeFiber, M!Threads, Threads
  <2>3. fstate[f] = "INIT" /\ prog[f] # None => prog[f] \in Tasks /\ schedStatus[prog[f]] = "queued"
    BY <1>0, <2>2 DEF M!TasksInv, M!FiberInv, M!TaskTypes
  <2>4. IF fstate[f] = "INIT" /\ prog[f] # None THEN M!Begin(prog[f]) ELSE schedStatus' = schedStatus
    <3>1. CASE fstate[f] = "INIT" /\ prog[f] # None
      <4>1. prog[f] \in Tasks /\ ~Kept(prog[f])
        BY <2>3, <3>1, ViewStatus
      <4>2. status' = [status EXCEPT ![prog[f]] = "begun"]
        BY <1>12, <3>1 DEF ResumeFiber, Begin
      <4> QED
        BY <1>0, <3>1, <4>1, <4>2, StatusMove DEF M!Begin
    <3>2. CASE ~(fstate[f] = "INIT" /\ prog[f] # None)
      BY <1>b, <1>12, <3>2 DEF ResumeFiber
    <3> QED
      BY <3>1, <3>2
  <2>5. M!SwapIn(w, f, fstate[f])
    <3>1. M!OnStack(f) <=> OnStack(f)
      BY SameStack
    <3> QED
      BY <1>12, <2>1, <3>1 DEF ResumeFiber, SwapIn, M!SwapIn
  <2>6. M!ResumeFiber(w)
    BY <1>12, <2>1, <2>4, <2>5 DEF ResumeFiber, M!ResumeFiber, Dead, M!Dead, ctlVars, M!ctlVars, queueVars, M!queueVars, countVars, M!countVars, fiberVars, M!fiberVars,
       threadVars, M!threadVars, taskVars, M!taskVars
  <2> QED
    BY <2>6 DEF M!RunStep
<1>13. CASE RunCallback(w)
  <2> DEFINE t == ft[w].item
           f == IF cbFiber[w] = None THEN t ELSE cbFiber[w]
  <2>1. At(w, "dispatch") /\ ft[w].kind = "cb"
    BY <1>13 DEF RunCallback
  <2>2. M!At(w, "dispatch")
    <3>1. schedPc[w] = "dispatch"
      BY <2>1, ViewTypes DEF At, PCs
    <3> QED
      BY <2>1, <3>1 DEF At, M!At
  <2>3. ft[w] # M!NoEntry /\ t \in Tasks
    BY <1>0, <2>1, SameAssumption, M!FtFacts DEF M!Threads, Threads, M!NoEntry
  <2>4. ~Kept(t)
    <3>1. M!Executable(ft[w])
      BY <2>2, <2>3 DEF M!TasksInv, M!StateInv, M!At, M!Threads, Threads
    <3>2. schedStatus[t] = "queued"
      BY <2>1, <3>1 DEF M!Executable, M!Untouched
    <3> QED
      BY <2>3, <3>2, ViewStatus
  <2>5. CASE CanReset(w)
    <3>1. /\ cbFiber' = [cbFiber EXCEPT ![w] = f] /\ prog' = [prog EXCEPT ![f] = t]
          /\ ft' = [ft EXCEPT ![w] = NoEntry] /\ SwapIn(w, f, "INIT") /\ status' = [status EXCEPT ![t] = "begun"]
      BY <1>13, <2>5 DEF RunCallback, Begin
    <3>2. M!Begin(t)
      BY <1>0, <2>3, <2>4, <3>1, StatusMove DEF M!Begin
    <3>3. M!Goto(w, "run")
      BY <1>a, <2>1, <3>1 DEF SwapIn, PCs
    <3>4. M!OnStack(f) <=> OnStack(f)
      BY SameStack
    <3>5. M!SwapIn(w, f, "INIT")
      BY <3>1, <3>3, <3>4 DEF SwapIn, M!SwapIn
    <3>6. M!CanReset(w)
      BY <2>5 DEF CanReset, M!CanReset, Dead, M!Dead
    <3> HIDE DEF f
    <3>7. M!RunCallback(w)
      BY <1>13, <2>1, <2>2, <3>1, <3>2, <3>5, <3>6
         DEF RunCallback, M!RunCallback, NoEntry, M!NoEntry, ctlVars, M!ctlVars, queueVars, M!queueVars, countVars, M!countVars, fiberVars, M!fiberVars,
       threadVars, M!threadVars, taskVars, M!taskVars, f
    <3> QED
      BY <3>7 DEF M!RunStep
  <2>6. CASE ~CanReset(w)
    <3>1. fault' = "assert" /\ UNCHANGED <<fiberVars, pc, ft, cur, cbFiber, status>>
      BY <1>13, <2>6 DEF RunCallback
    <3>2. schedPc' = schedPc /\ schedStatus' = schedStatus
      BY <1>0, <1>b, <3>1, ViewStay
    <3>3. ~M!CanReset(w)
      BY <2>6 DEF CanReset, M!CanReset, Dead, M!Dead
    <3>4. M!RunCallback(w)
      BY <1>13, <2>1, <2>2, <3>1, <3>2, <3>3 DEF RunCallback, M!RunCallback, ctlVars, M!ctlVars, queueVars, M!queueVars, countVars, M!countVars, fiberVars, M!fiberVars,
       threadVars, M!threadVars, taskVars, M!taskVars
    <3> QED
      BY <3>4 DEF M!RunStep
  <2> QED
    BY <2>5, <2>6
<1> QED
  BY <1>1, <1>2, <1>3, <1>4, <1>5, <1>6, <1>7, <1>8, <1>9, <1>10, <1>11, <1>12, <1>13 DEF RunStep


\* schedule() of a new task is one in the view, too.
LEMMA SubmitIsSubmit ==
  ASSUME KeptInv, UNCHANGED <<timers, cbs, waiter>>,
         NEW w, NEW t \in Tasks, NEW kind, NEW thr, Submit(w, t, kind, thr)
  PROVE  M!Submit(w, t, kind, thr)
<1>1. status[t] = "new" /\ status' = [status EXCEPT ![t] = "queued"]
  BY DEF Submit
<1>2. schedStatus[t] = "new" /\ schedStatus' = [schedStatus EXCEPT ![t] = "queued"]
  BY <1>1, ViewStatus, StatusMove
<1> QED
  BY <1>2 DEF Submit, M!Submit, Enqueue, M!Enqueue, fiberVars, M!fiberVars

\* What a task does is what it does in the view.
LEMMA BodyIsBody ==
  ASSUME ~UseSwitch, FdTypes, KeptInv, M!TypeInv, M!TasksInv, NEW w \in Threads, Body(w), UNCHANGED ioVars
  PROVE  M!Body(w)
<1>0. UNCHANGED <<timers, cbs, waiter, todo>> /\ M!TaskTypes
  BY SameAssumption, M!TypesOfTasks DEF ioVars, tmVars, fdVars, idleVars
<1>a. ASSUME NEW l \in PCs, NEW m \in PCs, At(w, l), Goto(w, m)
      PROVE  M!At(w, l) /\ M!Goto(w, m)
  <2>1. schedPc[w] = l /\ schedPc' = [schedPc EXCEPT ![w] = m]
    BY <1>0, <1>a, ViewTypes, ViewMove DEF At, Goto
  <2> QED
    BY <1>a, <2>1 DEF M!At, M!Goto, At
<1>b. status' = status => schedStatus' = schedStatus
  BY <1>0, StatusStay
<1>c. ~At(w, "hold")
  <2>1. "hold" \in PCs /\ schedPc[w] # "hold"
    BY DEF PCs, M!TasksInv, M!ThreadInv, M!Threads, Threads
  <2> QED
    BY <2>1, ViewTypes DEF At
<1>1. ASSUME NEW st \in Dead, Finish(w, st)
      PROVE  M!Body(w)
  <2> DEFINE f == cur[w]
  <2>1. M!At(w, "run") /\ M!Goto(w, "swapout")
    BY <1>a, <1>c, <1>1 DEF Finish, PCs
  <2>2. f \in Tasks /\ fstate[f] = "EXEC" /\ prog[f] \in Tasks \cup {None}
    BY <1>0, <2>1 DEF M!At, M!TasksInv, M!StateInv, M!TaskTypes, M!Busy, M!Threads, Threads
  <2>3. schedStatus' = IF prog[f] = None THEN schedStatus ELSE [schedStatus EXCEPT ![prog[f]] = "done"]
    <3>1. CASE prog[f] = None
      BY <1>b, <1>1, <3>1 DEF Finish
    <3>2. CASE prog[f] # None
      <4>1. prog[f] \in Tasks /\ schedStatus[prog[f]] = "begun"
        BY <2>2, <3>2 DEF M!TasksInv, M!FiberInv
      <4>2. ~Kept(prog[f])
        BY <4>1, ViewStatus
      <4>3. status' = [status EXCEPT ![prog[f]] = "done"]
        BY <1>1, <3>2 DEF Finish
      <4> QED
        BY <1>0, <3>2, <4>1, <4>2, <4>3, StatusMove
    <3> QED
      BY <3>1, <3>2
  <2>4. M!Finish(w, st) /\ st \in M!Dead
    BY <1>1, <2>1, <2>3 DEF Finish, M!Finish, Dead, M!Dead, ctlVars, M!ctlVars, queueVars, M!queueVars, countVars, M!countVars, fiberVars, M!fiberVars,
       threadVars, M!threadVars, taskVars, M!taskVars
  <2> QED
    BY <2>4 DEF M!Body
<1>2. CASE YieldToReady(w)
  <2>1. M!At(w, "run") /\ M!Goto(w, "swapout")
    BY <1>a, <1>2 DEF YieldToReady, YieldTo, PCs
  <2>2. schedStatus' = schedStatus
    BY <1>b, <1>2 DEF YieldToReady, YieldTo
  <2>3. M!YieldToReady(w)
    BY <1>2, <2>1, <2>2 DEF YieldToReady, M!YieldToReady, YieldTo, M!YieldTo, MayYield, M!MayYield,
       CountYield, M!CountYield, ctlVars, M!ctlVars, queueVars, M!queueVars, countVars, M!countVars, fiberVars, M!fiberVars,
       threadVars, M!threadVars, taskVars, M!taskVars
  <2> QED
    BY <2>3 DEF M!Body
<1>3. CASE SwapOut(w)
  <2>1. M!At(w, "swapout") /\ M!Goto(w, "ret")
    BY <1>a, <1>3 DEF SwapOut, PCs
  <2>2. schedStatus' = schedStatus
    BY <1>b, <1>3 DEF SwapOut, taskVars
  <2>3. M!SwapOut(w)
    BY <1>3, <2>1, <2>2 DEF SwapOut, M!SwapOut, ctlVars, M!ctlVars, queueVars, M!queueVars, countVars, M!countVars, fiberVars, M!fiberVars,
       threadVars, M!threadVars, taskVars, M!taskVars
  <2> QED
    BY <2>3 DEF M!Body
<1>4. ASSUME NEW t \in Tasks, NEW kind \in Kinds, NEW thr \in Known(TaskPins), Spawn(w, t, kind, thr)
      PROVE  M!Body(w)
  <2>1. M!Submit(w, t, kind, thr)
    BY <1>0, <1>4, SubmitIsSubmit DEF Spawn
  <2>2. schedPc' = schedPc /\ At(w, "run")
    BY <1>0, <1>4, ViewStay DEF Spawn
  <2>3. M!At(w, "run")
    <3>1. schedPc[w] = "run"
      BY <2>2, ViewTypes DEF At, PCs
    <3> QED
      BY <2>2, <3>1 DEF At, M!At
  <2>4. M!Spawn(w, t, kind, thr)
    BY <1>4, <2>1, <2>2, <2>3 DEF Spawn, M!Spawn, ctlVars, M!ctlVars, countVars, M!countVars, threadVars, M!threadVars
  <2>5. thr \in M!Known(TaskPins)
    BY <1>4 DEF Known, M!Known
  <2> QED
    BY <2>4, <2>5 DEF M!Body
<1> QED
  BY <1>c, <1>1, <1>2, <1>3, <1>4 DEF Body, YieldToHold, SwitchTo

\* The calling thread's steps.
LEMMA MainIsMain ==
  ASSUME FdTypes, KeptInv, Main, UNCHANGED ioVars
  PROVE  M!Main
<1>0. UNCHANGED <<timers, cbs, waiter, todo>>
  BY DEF ioVars, tmVars, fdVars, idleVars
<1>b. status' = status => schedStatus' = schedStatus
  BY <1>0, StatusStay
<1>c. pc' = pc => schedPc' = schedPc
  BY <1>0, ViewStay
<1>1. CASE Start
  <2>1. schedStatus' = schedStatus
    BY <1>b, <1>1 DEF Start, taskVars
  <2>2. schedPc' = [w \in Threads |-> IF w \in shape.workers THEN "pick" ELSE schedPc[w]]
    <3>1. pc' = [w \in Threads |-> IF w \in shape.workers THEN "pick" ELSE pc[w]] /\ todo' = todo
      BY <1>0, <1>1 DEF Start
    <3> QED
      BY <3>1 DEF schedPc, PCs
  <2>3. M!Start
    BY <1>1, <2>1, <2>2 DEF Start, M!Start, MainAt, M!MainAt, M!Threads, Threads, ctlVars, M!ctlVars, queueVars, M!queueVars, countVars, M!countVars, fiberVars, M!fiberVars,
       threadVars, M!threadVars, taskVars, M!taskVars
  <2> QED
    BY <2>3 DEF M!Main
<1>2. ASSUME NEW t \in Tasks, NEW kind \in Kinds, NEW thr \in Known(UserPins), UserSchedule(t, kind, thr)
      PROVE  M!Main
  <2>1. M!Submit(Caller, t, kind, thr)
    BY <1>0, <1>2, SubmitIsSubmit DEF UserSchedule
  <2>2. schedPc' = schedPc
    BY <1>c, <1>2 DEF UserSchedule
  <2>3. M!UserSchedule(t, kind, thr)
    BY <1>2, <2>1, <2>2 DEF UserSchedule, M!UserSchedule, MainAt, M!MainAt, ctlVars, M!ctlVars,
       countVars, M!countVars, threadVars, M!threadVars
  <2>4. thr \in M!Known(UserPins)
    BY <1>2 DEF Known, M!Known
  <2> QED
    BY <2>3, <2>4 DEF M!Main
<1>3. CASE StopStep
  <2>1. Caller \in Threads /\ ~shape.caller
    BY IOAssumption DEF FdTypes, Threads
  <2>2. pc' = pc /\ schedPc' = schedPc
    BY <1>c, <1>3, <2>1 DEF StopStep, StopFlags, StopRoot, RootReturns, Join
  <2>3. schedStatus' = schedStatus
    BY <1>b, <1>3 DEF StopStep, StopFlags, StopRoot, RootReturns, Join, taskVars
  <2>4. ASSUME NEW w \in Threads, pc[w] = "exit"
        PROVE  schedPc[w] = "exit"
    BY <2>4 DEF schedPc, PCs
  <2>5. CASE StopFlags
    <3>1. M!StopFlags
      BY <2>2, <2>3, <2>5, SameSize DEF StopFlags, M!StopFlags, MainAt, M!MainAt, RootThreads, M!RootThreads, ctlVars, M!ctlVars, queueVars, M!queueVars, countVars, M!countVars, fiberVars, M!fiberVars,
       threadVars, M!threadVars, taskVars, M!taskVars
    <3> QED
      BY <3>1 DEF M!Main, M!StopStep
  <2>6. CASE StopRoot
    <3>1. M!StopRoot
      BY <2>1, <2>2, <2>3, <2>6 DEF StopRoot, M!StopRoot, MainAt, M!MainAt, ctlVars, M!ctlVars, queueVars, M!queueVars, countVars, M!countVars, fiberVars, M!fiberVars,
       threadVars, M!threadVars, taskVars, M!taskVars
    <3> QED
      BY <3>1 DEF M!Main, M!StopStep
  <2>7. CASE RootReturns
    <3>1. M!RootReturns
      BY <2>1, <2>2, <2>3, <2>4, <2>7 DEF RootReturns, M!RootReturns, MainAt, M!MainAt, ctlVars, M!ctlVars, queueVars, M!queueVars, countVars, M!countVars, fiberVars, M!fiberVars,
       threadVars, M!threadVars, taskVars, M!taskVars
    <3> QED
      BY <3>1 DEF M!Main, M!StopStep
  <2>8. CASE Join
    <3>1. shape.workers \subseteq Threads
      BY ThreadsAssumption DEF FdTypes, Threads
    <3>2. M!Join
      BY <2>2, <2>3, <2>4, <2>8, <3>1 DEF Join, M!Join, MainAt, M!MainAt, ctlVars, M!ctlVars, queueVars, M!queueVars, countVars, M!countVars, fiberVars, M!fiberVars,
       threadVars, M!threadVars, taskVars, M!taskVars
    <3> QED
      BY <3>2 DEF M!Main, M!StopStep
  <2> QED
    BY <1>3, <2>5, <2>6, <2>7, <2>8 DEF StopStep
<1> QED
  BY <1>1, <1>2, <1>3 DEF Main

\* No fiber and no thread has a task that is kept.
LEMMA KeptNowhere ==
  ASSUME KeptInv, M!TypeInv, M!TasksInv, NEW t \in Tasks, Kept(t)
  PROVE  /\ status[t] = "queued" /\ schedStatus[t] = "new"
         /\ \A f \in Tasks : prog[f] # t
         /\ \A w \in Threads : ft[w].item # t
<1>1. status[t] = "queued" /\ schedStatus[t] = "new" /\ M!TaskTypes
  BY SameAssumption, M!TypesOfTasks DEF KeptInv, schedStatus
<1>2. \A f \in Tasks : prog[f] # t
  BY <1>1 DEF M!TasksInv, M!NewInv
<1>3. \A w \in M!Threads : ft[w].item # t
  BY <1>1, SameAssumption, M!NewNowhere DEF M!TasksInv
<1> QED
  BY <1>1, <1>2, <1>3 DEF M!Threads, Threads

\* What is kept stays what it is, whoever keeps it.
LEMMA KeptFrame ==
  ASSUME KeptInv, UNCHANGED <<timers, due, cbs, waiter>>,
         status' \in [Tasks -> {"new", "queued", "begun", "done"}],
         \A t \in Tasks : Kept(t) => status'[t] = status[t],
         \A w \in Threads : pc'[w] # "sched" => pc[w] # "sched"
  PROVE  KeptInv'
<1>1. \A t \in Tasks : Kept(t)' <=> Kept(t)
  BY SameKept
<1> QED
  BY <1>1 DEF KeptInv

\* The scheduler changes the status of tasks it has only.
LEMMA KeptByScheduler ==
  ASSUME FdTypes, KeptInv, M!TypeInv, M!TasksInv, UNCHANGED ioVars,
         Main \/ \E w \in Threads : RunStep(w) \/ Body(w)
  PROVE  /\ status' \in [Tasks -> {"new", "queued", "begun", "done"}]
         /\ \A t \in Tasks : Kept(t) => status'[t] = status[t]
<1>0. M!TaskTypes
  BY SameAssumption, M!TypesOfTasks
<1>a. status \in [Tasks -> {"new", "queued", "begun", "done"}]
  BY DEF KeptInv
<1>b. ASSUME NEW x, NEW y \in {"new", "queued", "begun", "done"}, status' = [status EXCEPT ![x] = y],
             x \in Tasks => ~Kept(x)
      PROVE  /\ status' \in [Tasks -> {"new", "queued", "begun", "done"}]
             /\ \A t \in Tasks : Kept(t) => status'[t] = status[t]
  BY <1>a, <1>b
<1>c. \A t \in Tasks : status[t] = "new" => ~Kept(t)
  BY DEF KeptInv
<1>d. \A f \in Tasks : prog[f] \in Tasks => ~Kept(prog[f])
  BY KeptNowhere
<1>e. \A w \in Threads : ft[w].item \in Tasks => ~Kept(ft[w].item)
  BY KeptNowhere
<1>1. CASE status' = status
  BY <1>a, <1>1
<1>2. CASE status' # status
  <2>1. ASSUME NEW w \in Threads, NEW t \in Tasks, NEW kind, NEW thr, Submit(w, t, kind, thr)
        PROVE  /\ status' \in [Tasks -> {"new", "queued", "begun", "done"}]
               /\ \A s \in Tasks : Kept(s) => status'[s] = status[s]
    BY <1>b, <1>c, <2>1 DEF Submit
  <2>2. ASSUME Main
        PROVE  \E t \in Tasks, kind \in Kinds, thr \in Known(UserPins) : Submit(Caller, t, kind, thr)
    BY <1>2, <2>2 DEF Main, UserSchedule, Start, StopStep, StopFlags, StopRoot, RootReturns, Join, taskVars
  <2>3. ASSUME NEW w \in Threads, RunStep(w)
        PROVE  \/ ResumeFiber(w) /\ status' = [status EXCEPT ![prog[ft[w].item]] = "begun"]
               \/ RunCallback(w) /\ status' = [status EXCEPT ![ft[w].item] = "begun"]
    BY <1>2, <2>3 DEF RunStep, Pick, PickNothing, ResumeFiber, SkipDead, RunCallback, Ret, SettleReady,
       SettleDead, SettleOther, SetHold, ThreadExit, IdleIn, IdleOut, taskVars, Begin
  <2>4. ASSUME NEW w \in Threads, ResumeFiber(w)
        PROVE  ft[w].item \in Tasks
    <3>1. ft[w].kind = "fiber" /\ w \in M!Threads
      BY <2>4 DEF ResumeFiber, M!Threads, Threads
    <3> QED
      BY <1>0, <3>1, SameAssumption, M!FtFacts
  <2>5. ASSUME NEW w \in Threads, Body(w)
        PROVE  \/ \E st \in Dead : Finish(w, st)
               \/ \E t \in Tasks, kind \in Kinds, thr \in Known(TaskPins) : Submit(w, t, kind, thr)
    BY <1>2, <2>5 DEF Body, YieldToReady, YieldToHold, YieldTo, SwapOut, SwitchTo, Spawn, taskVars
  <2>6. ASSUME NEW w \in Threads, NEW st \in Dead, Finish(w, st)
        PROVE  /\ status' \in [Tasks -> {"new", "queued", "begun", "done"}]
               /\ \A s \in Tasks : Kept(s) => status'[s] = status[s]
    <3>1. status' = [status EXCEPT ![prog[cur[w]]] = "done"]
      BY <1>2, <2>6 DEF Finish
    <3>2. cur[w] \in Tasks
      <4>1. pc[w] \in {"run", "hold"} /\ w \in M!Threads
        BY <2>6 DEF Finish, At, M!Threads, Threads
      <4>2. schedPc[w] \in {"run", "hold"}
        BY <4>1 DEF schedPc, PCs
      <4> QED
        BY <4>1, <4>2 DEF M!TypeInv, M!HasFiber
    <3> QED
      BY <1>b, <1>d, <3>1, <3>2
  <2>7. Caller \in Threads
    BY DEF Threads
  <2>8. CASE Main
    BY <2>1, <2>2, <2>7, <2>8
  <2>9. ASSUME NEW w \in Threads, RunStep(w)
        PROVE  /\ status' \in [Tasks -> {"new", "queued", "begun", "done"}]
               /\ \A s \in Tasks : Kept(s) => status'[s] = status[s]
    <3>1. CASE ResumeFiber(w) /\ status' = [status EXCEPT ![prog[ft[w].item]] = "begun"]
      BY <1>b, <1>d, <2>4, <3>1
    <3>2. CASE RunCallback(w) /\ status' = [status EXCEPT ![ft[w].item] = "begun"]
      BY <1>b, <1>e, <3>2
    <3> QED
      BY <2>3, <2>9, <3>1, <3>2
  <2>10. ASSUME NEW w \in Threads, Body(w)
        PROVE  /\ status' \in [Tasks -> {"new", "queued", "begun", "done"}]
               /\ \A s \in Tasks : Kept(s) => status'[s] = status[s]
    BY <2>1, <2>5, <2>6, <2>10
  <2> QED
    BY <2>8, <2>9, <2>10
<1> QED
  BY <1>1, <1>2

\* Where tasks are found again after a step.
LEMMA StillPlaced ==
  ASSUME M!AllPlaced, M!KeepsPlaces
  PROVE  M!AllPlaced'
BY DEF M!AllPlaced, M!KeepsPlaces

LEMMA TasksScheduler ==
  ASSUME ~UseSwitch, FdInv, fault = "none", M!TypeInv, M!TasksInv, M!AllPlaced, KeptInv,
         UNCHANGED ioVars, Main \/ \E w \in Threads : RunStep(w) \/ Body(w)
  PROVE  LosesNothing'
<1>0. FdTypes /\ OffInv
  BY DEF FdInv
<1>1. M!OffInv
  BY <1>0 DEF OffInv, M!OffInv, M!Threads, Threads, schedPc, PCs
<1>2. M!TypeInv' /\ M!TasksInv' /\ M!KeepsPlaces
  <2>1. CASE Main
    <3>1. M!Main
      BY <1>0, <2>1, MainIsMain
    <3>2. M!TypeInv'
      BY <3>1, SameAssumption, M!TypeMain
    <3>3. M!TasksInv' /\ M!KeepsPlaces
      BY <1>1, <3>1, SameAssumption, M!MainTasks
    <3> QED
      BY <3>2, <3>3
  <2>2. ASSUME NEW w \in Threads, RunStep(w)
        PROVE  M!TypeInv' /\ M!TasksInv' /\ M!KeepsPlaces
    <3>1. M!RunStep(w) /\ w \in M!Threads
      BY <1>0, <2>2, RunIsRun DEF M!Threads, Threads
    <3>2. M!TypeInv'
      BY <3>1, SameAssumption, M!TypeRun
    <3>3. M!TasksInv' /\ M!KeepsPlaces
      BY <3>1, SameAssumption, M!RunTasks
    <3> QED
      BY <3>2, <3>3
  <2>3. ASSUME NEW w \in Threads, Body(w)
        PROVE  M!TypeInv' /\ M!TasksInv' /\ M!KeepsPlaces
    <3>1. M!Body(w) /\ w \in M!Threads
      BY <1>0, <2>3, BodyIsBody DEF M!Threads, Threads
    <3>2. M!TypeInv'
      BY <3>1, SameAssumption, M!TypeBody
    <3>3. M!TasksInv' /\ M!KeepsPlaces
      BY <3>1, SameAssumption, M!BodyTasks
    <3> QED
      BY <3>2, <3>3
  <2> QED
    BY <2>1, <2>2, <2>3
<1>3. M!AllPlaced'
  BY <1>2, StillPlaced
<1>4. KeptInv'
  <2>1. UNCHANGED <<timers, due, cbs, waiter>>
    BY DEF ioVars, tmVars, fdVars, idleVars
  <2>2. \A w \in Threads : pc'[w] # "sched" => pc[w] # "sched"
    BY <1>0, SchedulerFrame DEF PCs
  <2> QED
    BY <1>0, <2>1, <2>2, KeptByScheduler, KeptFrame
<1> QED
  BY <1>2, <1>3, <1>4 DEF LosesNothing


-----------------------------------------------------------------------------
(* Steps of idle(), of timers and of events that the scheduler does not see. *)

LEMMA LosesInit == IOInit => LosesNothing
<1> SUFFICES ASSUME IOInit
             PROVE  LosesNothing
  OBVIOUS
<1>1. /\ timers = {} /\ due = {} /\ cbs = [w \in Threads |-> {}]
      /\ \A d \in Fds, e \in Events : waiter[d][e] = NoEntry
  BY DEF IOInit
<1>2. \A t \in Tasks : ~Kept(t)
  BY <1>1, ThreadsAssumption DEF Kept, NoEntry
<1>3. schedStatus = [t \in Tasks |-> "new"] /\ status = [t \in Tasks |-> "new"]
  BY <1>2 DEF schedStatus, IOInit, Init
<1>4. schedPc = [w \in Threads |-> "off"]
  BY DEF schedPc, PCs, IOInit, Init
<1>5. M!Init
  BY <1>3, <1>4 DEF IOInit, Init, M!Init, M!Threads, Threads, NoEntry, M!NoEntry
<1>6. M!SafeInv
  BY <1>5, SameAssumption, M!SafeInit
<1>7. KeptInv
  BY <1>1, <1>2, <1>3, FS_EmptySet DEF KeptInv
<1> QED
  BY <1>6, <1>7 DEF LosesNothing, M!SafeInv

LEMMA ViewOthers ==
  ASSUME NEW w \in Threads, \A v \in Threads \ {w} : pc'[v] = pc[v] /\ todo'[v] = todo[v]
  PROVE  \A v \in Threads \ {w} : schedPc'[v] = schedPc[v]
BY DEF schedPc

LEMMA QuietTypes ==
  ASSUME M!TypeInv, UNCHANGED <<ctlVars, active, idle, fiberVars, ft, cur, cbFiber, yields, pin>>,
         fibers' \in Seq(Entry), toTickle' \in [Threads -> Nat], idleTerm' \in [Threads -> BOOLEAN],
         schedStatus' \in [Tasks -> {"new", "queued", "begun", "done"}], fault' = "none",
         \A v \in Threads : schedPc'[v] = schedPc[v] \/ (schedPc[v] = "idle" /\ schedPc'[v] = "idleout")
  PROVE  M!TypeInv'
<1>1. schedPc \in [Threads -> PCs] /\ M!TypeOK
  BY DEF M!TypeInv, M!TypeOK, M!Threads, Threads, M!PCs, PCs
<1>2. schedPc' = [v \in Threads |-> schedPc'[v]]
  BY DEF schedPc
<1>3. schedPc' \in [Threads -> PCs]
  BY <1>1, <1>2 DEF PCs
<1>4. M!Threads = Threads /\ M!PCs = PCs /\ M!Entry = Entry
  BY DEF M!Threads, Threads, M!PCs, PCs, M!Entry, Entry
<1>5. M!TypeOK'
  BY <1>1, <1>3, <1>4 DEF M!TypeOK, ctlVars, fiberVars
<1>6. \A v \in M!Threads : schedPc'[v] \in M!HasFiber => cur'[v] \in Tasks
  BY <1>4 DEF M!TypeInv, M!HasFiber
<1> QED
  BY <1>5, <1>6 DEF M!TypeInv

LEMMA QuietIO ==
  ASSUME M!TypeInv, M!TasksInv, M!AllPlaced, KeptInv', schedStatus' = schedStatus,
         UNCHANGED <<ctlVars, fibers, active, idle, fiberVars, ft, cur, cbFiber, yields, pin>>,
         toTickle' \in [Threads -> Nat], idleTerm' \in [Threads -> BOOLEAN], fault' = "none",
         \A v \in Threads : schedPc'[v] = schedPc[v] \/ (schedPc[v] = "idle" /\ schedPc'[v] = "idleout")
  PROVE  LosesNothing'
<1>1. fibers' \in Seq(Entry) /\ schedStatus' \in [Tasks -> {"new", "queued", "begun", "done"}]
  BY DEF M!TypeInv, M!TypeOK, M!Entry, Entry, M!Threads, Threads
<1>2. M!TypeInv'
  BY <1>1, QuietTypes
<1>3. M!TaskTypes
  BY SameAssumption, M!TypesOfTasks
<1>4. \A v \in M!Threads :
        \/ schedPc'[v] = schedPc[v]
        \/ schedPc[v] \notin M!Busy /\ ft[v] = M!NoEntry /\ schedPc'[v] \notin M!Busy \cup {"hold", "sethold"}
  <2>1. \A v \in M!Threads : schedPc[v] = "idle" => ft[v] = M!NoEntry
    BY DEF M!TasksInv, M!ThreadInv, M!Busy
  <2> QED
    BY <2>1 DEF M!Busy, M!Threads, Threads
<1>5. UNCHANGED <<fibers, ft, cur, cbFiber, fstate, prog, schedStatus>>
  BY DEF fiberVars
<1>6. M!TasksInv' /\ M!KeepsPlaces
  BY <1>3, <1>4, <1>5, SameAssumption, M!QuietStep
<1> QED
  BY <1>2, <1>6, StillPlaced DEF LosesNothing

\* A step of idle() up to the moment it swaps out.
LEMMA TasksIdle ==
  ASSUME FdTypes, fault = "none", M!TypeInv, M!TasksInv, M!AllPlaced, KeptInv, NEW w \in Threads,
         CheckTimers(w) \/ CheckPending(w) \/ CheckQueue(w) \/ EpollReturns(w) \/ LeaveIdle(w)
  PROVE  LosesNothing'
<1>1. /\ UNCHANGED <<ctlVars, fibers, toTickle, active, idle, fiberVars, ft, cur, cbFiber, taskVars, fault>>
      /\ UNCHANGED <<timers, due, cbs, waiter, todo>>
  BY DEF CheckTimers, CheckPending, CheckQueue, EpollReturns, LeaveIdle, schedRest, queueVars, countVars,
         ioVars, tmVars, fdVars, idleVars
<1>2. /\ pc[w] \in {"idle", "ckpending", "ckqueue", "wait", "events"}
      /\ \E l \in {"ckpending", "ckqueue", "wait", "list", "idleout"} : pc' = [pc EXCEPT ![w] = l]
  BY DEF CheckTimers, CheckPending, CheckQueue, EpollReturns, LeaveIdle, At, Goto
<1>3. pc'[w] \in {"ckpending", "ckqueue", "wait", "list", "idleout"} /\ \A v \in Threads \ {w} : pc'[v] = pc[v]
  BY <1>2 DEF FdTypes
<1>4. /\ schedPc[w] = "idle" /\ schedPc'[w] \in {"idle", "idleout"}
      /\ \A v \in Threads \ {w} : schedPc'[v] = schedPc[v]
  BY <1>1, <1>2, <1>3, ViewOthers DEF schedPc, PCs, Triggering
<1>5. idleTerm' \in [Threads -> BOOLEAN] /\ toTickle' \in [Threads -> Nat]
  <2>1. idleTerm \in [Threads -> BOOLEAN] /\ toTickle \in [Threads -> Nat]
    BY DEF M!TypeInv, M!TypeOK, M!Threads, Threads
  <2>2. idleTerm' = idleTerm \/ idleTerm' = [idleTerm EXCEPT ![w] = Stopping]
    BY DEF CheckTimers, CheckPending, CheckQueue, EpollReturns, LeaveIdle
  <2>3. Stopping \in BOOLEAN
    BY DEF Stopping, M!TypeInv, M!TypeOK
  <2> QED
    BY <1>1, <2>1, <2>2, <2>3
<1>6. schedStatus' = schedStatus
  BY <1>1, StatusStay DEF taskVars
<1>7. KeptInv'
  <2>1. status' = status /\ status \in [Tasks -> {"new", "queued", "begun", "done"}]
    BY <1>1 DEF taskVars, KeptInv
  <2>2. \A v \in Threads : pc'[v] # "sched" => pc[v] # "sched"
    BY <1>2, <1>3
  <2> QED
    BY <1>1, <2>1, <2>2, KeptFrame
<1> QED
  BY <1>1, <1>4, <1>5, <1>6, <1>7, QuietIO DEF taskVars

\* Reports and cancellations: a thread begins to trigger, or goes on.
LEMMA TasksTrigger ==
  ASSUME FdTypes, fault = "none", M!TypeInv, M!TasksInv, M!AllPlaced, KeptInv, NEW w \in Threads,
         \/ HandleReport(w) \/ DecPending(w)
         \/ \E d \in Fds, es \in SUBSET Events : Cancel(w, d, es)
  PROVE  LosesNothing'
<1>1. /\ UNCHANGED <<ctlVars, fibers, toTickle, active, idle, fiberVars, ft, cur, cbFiber, idleTerm, taskVars, fault>>
      /\ UNCHANGED <<timers, due, cbs, waiter>>
  BY DEF HandleReport, DecPending, Cancel, schedRest, queueVars, countVars, threadVars, tmVars, idleVars
<1>2. /\ schedPc'[w] = schedPc[w] /\ \A v \in Threads \ {w} : pc'[v] = pc[v] /\ todo'[v] = todo[v]
      /\ pc[w] # "sched"
  <2>1. ASSUME NEW d, NEW es, NEW back, StartTrigger(w, d, es, back)
        PROVE  /\ pc'[w] = "trigger" /\ todo'[w].back = back
               /\ \A v \in Threads \ {w} : pc'[v] = pc[v] /\ todo'[v] = todo[v]
    BY <2>1 DEF StartTrigger, Goto, FdTypes
  <2>2. CASE HandleReport(w)
    <3>1. pc[w] = "events" /\ schedPc[w] = "idle"
      BY <2>2 DEF HandleReport, At, schedPc, PCs, Triggering
    <3>2. (pc' = pc /\ todo' = todo) \/ \E d, es : StartTrigger(w, d, es, "events")
      BY <2>2 DEF HandleReport
    <3> QED
      BY <2>1, <3>1, <3>2 DEF schedPc, PCs, Triggering
  <2>3. ASSUME NEW d \in Fds, NEW es \in SUBSET Events, Cancel(w, d, es)
        PROVE  /\ schedPc'[w] = schedPc[w] /\ \A v \in Threads \ {w} : pc'[v] = pc[v] /\ todo'[v] = todo[v]
               /\ pc[w] # "sched"
    <3>1. pc[w] = "run" /\ StartTrigger(w, d, es, "run")
      BY <2>3 DEF Cancel, At
    <3> QED
      BY <2>1, <3>1 DEF schedPc, PCs, Triggering
  <2>4. CASE DecPending(w)
    <3>1. /\ pc[w] = "dec" /\ todo[w].back \in {"run", "events"}
          /\ \/ pc'[w] = todo[w].back
             \/ pc'[w] = "trigger" /\ todo'[w] = todo[w]
          /\ \A v \in Threads \ {w} : pc'[v] = pc[v] /\ todo'[v] = todo[v]
      BY <2>4 DEF DecPending, At, Goto, FdTypes, Todo
    <3> QED
      BY <3>1 DEF schedPc, PCs, Triggering
  <2> QED
    BY <2>2, <2>3, <2>4
<1>3. \A v \in Threads : schedPc'[v] = schedPc[v]
  BY <1>2, ViewOthers
<1>4. idleTerm' \in [Threads -> BOOLEAN] /\ toTickle' \in [Threads -> Nat]
  BY <1>1 DEF M!TypeInv, M!TypeOK, M!Threads, Threads
<1>5. schedStatus' = schedStatus
  BY <1>1, StatusStay DEF taskVars
<1>6. KeptInv'
  <2>1. status' = status /\ status \in [Tasks -> {"new", "queued", "begun", "done"}]
    BY <1>1 DEF taskVars, KeptInv
  <2>2. \A v \in Threads : pc'[v] # "sched" => pc[v] # "sched"
    BY <1>2
  <2> QED
    BY <1>1, <2>1, <2>2, KeptFrame
<1> QED
  BY <1>1, <1>3, <1>4, <1>5, <1>6, QuietIO DEF taskVars

\* The wake-up pipe, the clock and the kernel.
LEMMA TasksOutside ==
  ASSUME FdTypes, fault = "none", M!TypeInv, M!TasksInv, M!AllPlaced, KeptInv,
         \/ \E w \in Threads : IOTickle(w)
         \/ \E t \in Tasks : TimerDue(t)
         \/ \E d \in Fds, e \in Events \cup {"ERR"} : FdReady(d, e)
  PROVE  LosesNothing'
<1>1. /\ UNCHANGED <<ctlVars, fibers, active, idle, fiberVars, pc, ft, cur, cbFiber, idleTerm, taskVars, fault>>
      /\ UNCHANGED <<timers, cbs, waiter, todo>>
  BY DEF IOTickle, TimerDue, FdReady, vars, queueVars, countVars, threadVars, tmVars, fdVars, idleVars
<1>2. due' \in SUBSET timers
  <2>1. due' = due \/ \E t \in timers : due' = due \cup {t}
    BY DEF IOTickle, TimerDue, FdReady, tmVars
  <2> QED
    BY <2>1 DEF KeptInv
<1>3. schedPc' = schedPc /\ schedStatus' = schedStatus
  BY <1>1, ViewStay, StatusStay DEF taskVars
<1>4. idleTerm' \in [Threads -> BOOLEAN] /\ toTickle' \in [Threads -> Nat]
  <2>1. idleTerm \in [Threads -> BOOLEAN] /\ toTickle \in [Threads -> Nat]
    BY DEF M!TypeInv, M!TypeOK, M!Threads, Threads
  <2>2. toTickle' = toTickle \/ \E w \in Threads : toTickle[w] > 0 /\ toTickle' = [toTickle EXCEPT ![w] = @ - 1]
    BY DEF IOTickle, TimerDue, FdReady, vars, queueVars
  <2> QED
    BY <1>1, <2>1, <2>2
<1>5. KeptInv'
  <2>1. \A t : Kept(t)' <=> Kept(t)
    BY <1>1, SameKept
  <2> QED
    BY <1>1, <1>2, <2>1 DEF KeptInv, taskVars
<1> QED
  BY <1>1, <1>3, <1>4, <1>5, QuietIO DEF taskVars


-----------------------------------------------------------------------------
(* A callback goes from its maker to a timer or an event, and on.          *)

CbEntry(t) == [kind |-> "cb", item |-> t, thr |-> AnyThread]

LEMMA CbFacts ==
  ASSUME NEW t \in Tasks
  PROVE  /\ CbEntry(t) \in Entry /\ CbEntry(t) # NoEntry
         /\ CbEntry(t).kind = "cb" /\ CbEntry(t).item = t /\ NoEntry.item = None /\ NoEntry.item # t
BY ThreadsAssumption DEF CbEntry, Entry, NoEntry

LEMMA NewlyKept ==
  ASSUME KeptInv, NEW t \in Tasks, Keep(t), \A s \in Tasks : Kept(s)' <=> Kept(s) \/ s = t
  PROVE  /\ ~Kept(t) /\ schedStatus' = schedStatus
         /\ status' \in [Tasks -> {"new", "queued", "begun", "done"}]
         /\ \A s \in Tasks : Kept(s)' => status'[s] = "queued"
<1>1. /\ status[t] = "new" /\ status' = [status EXCEPT ![t] = "queued"]
      /\ status \in [Tasks -> {"new", "queued", "begun", "done"}]
      /\ \A s \in Tasks : Kept(s) => status[s] = "queued"
  BY DEF Keep, KeptInv
<1>2. ~Kept(t)
  BY <1>1
<1>3. \A s \in Tasks : (IF Kept(s)' THEN "new" ELSE status'[s]) = IF Kept(s) THEN "new" ELSE status[s]
  BY <1>1, <1>2
<1>4. schedStatus' = schedStatus
  BY <1>3 DEF schedStatus
<1> QED
  BY <1>1, <1>2, <1>4

LEMMA TasksTimer ==
  ASSUME FdTypes, fault = "none", M!TypeInv, M!TasksInv, M!AllPlaced, KeptInv,
         NEW w \in Threads, NEW t \in Tasks, AddTimer(w, t)
  PROVE  LosesNothing'
<1>1. /\ Keep(t) /\ timers' = timers \cup {t} /\ due' = due /\ cbs' = cbs /\ waiter' = waiter /\ todo' = todo
      /\ UNCHANGED <<ctlVars, fibers, active, idle, fiberVars, pc, ft, cur, cbFiber, idleTerm, yields, pin, fault>>
  BY DEF AddTimer, Keep, countVars, threadVars, fdVars, idleVars
<1>2. \A s \in Tasks : Kept(s)' <=> Kept(s) \/ s = t
  BY <1>1 DEF Kept
<1>3. /\ ~Kept(t) /\ schedStatus' = schedStatus
      /\ status' \in [Tasks -> {"new", "queued", "begun", "done"}]
      /\ \A s \in Tasks : Kept(s)' => status'[s] = "queued"
  BY <1>1, <1>2, NewlyKept
<1>4. KeptInv'
  <2>1. timers' \in SUBSET Tasks /\ IsFiniteSet(timers') /\ due' \in SUBSET timers'
    BY <1>1, FS_AddElement DEF KeptInv
  <2>2. \A v \in Threads : t \notin cbs[v]
    BY <1>3 DEF Kept
  <2>3. \A d \in Fds, e \in Events : waiter[d][e].item # t
    BY <1>3 DEF Kept
  <2> QED
    BY <1>1, <1>3, <2>1, <2>2, <2>3 DEF KeptInv
<1>5. schedPc' = schedPc
  BY <1>1, ViewStay
<1>6. idleTerm' \in [Threads -> BOOLEAN] /\ toTickle' \in [Threads -> Nat]
  <2>1. idleTerm \in [Threads -> BOOLEAN] /\ toTickle \in [Threads -> Nat]
    BY DEF M!TypeInv, M!TypeOK, M!Threads, Threads
  <2>2. \E n \in {0, 1} : toTickle' = [toTickle EXCEPT ![w] = n]
    BY DEF AddTimer
  <2> QED
    BY <1>1, <2>1, <2>2
<1> QED
  BY <1>1, <1>3, <1>4, <1>5, <1>6, QuietIO

LEMMA TasksAddEvent ==
  ASSUME FdTypes, fault = "none", M!TypeInv, M!TasksInv, M!AllPlaced, KeptInv,
         NEW d \in Fds, NEW e \in Events, NEW t \in Tasks, AddEventCb(d, e, t)
  PROVE  LosesNothing'
<1> SUFFICES ASSUME fault' = "none"
             PROVE  LosesNothing'
  BY DEF LosesNothing
<1>1. /\ Keep(t) /\ timers' = timers /\ due' = due /\ cbs' = cbs /\ todo' = todo
      /\ UNCHANGED <<ctlVars, fibers, toTickle, active, idle, fiberVars, pc, ft, cur, cbFiber, idleTerm, yields, pin>>
      /\ Register(d, e, CbEntry(t))
  BY DEF AddEventCb, Keep, Register, queueVars, countVars, threadVars, tmVars, idleVars, CbEntry
<1>2. waiter[d][e] = NoEntry /\ waiter' = With(waiter, d, e, CbEntry(t))
  <2>1. waiter' = With(waiter, d, e, CbEntry(t))
    BY <1>1 DEF Register, With
  <2>2. fault' = IF /\ waiter[d][e] = NoEntry
                    /\ CbEntry(t).kind = "fiber" => fstate[CbEntry(t).item] = "EXEC"
                THEN "none" ELSE "assert"
    BY <1>1, Zenon DEF Register
  <2>3. waiter[d][e] = NoEntry
    BY <2>2
  <2> QED
    BY <2>1, <2>3
<1>3. \A a \in Fds, b \in Events : waiter'[a][b] = IF a = d /\ b = e THEN CbEntry(t) ELSE waiter[a][b]
  BY <1>2, OneWaiter DEF FdTypes
<1>4. \A s \in Tasks : Kept(s)' <=> Kept(s) \/ s = t
  <2>1. ASSUME NEW s \in Tasks
        PROVE  (\E a \in Fds, b \in Events : waiter'[a][b].item = s)
                 <=> (\E a \in Fds, b \in Events : waiter[a][b].item = s) \/ s = t
    <3>1. CASE s = t
      BY <1>3, <3>1, CbFacts
    <3>2. CASE s # t
      <4>1. \A a \in Fds, b \in Events : waiter'[a][b].item = s <=> waiter[a][b].item = s
        BY <1>2, <1>3, <3>2, CbFacts
      <4> QED
        BY <3>2, <4>1
    <3> QED
      BY <3>1, <3>2
  <2> QED
    BY <1>1, <2>1 DEF Kept
<1>5. /\ ~Kept(t) /\ schedStatus' = schedStatus
      /\ status' \in [Tasks -> {"new", "queued", "begun", "done"}]
      /\ \A s \in Tasks : Kept(s)' => status'[s] = "queued"
  BY <1>1, <1>4, NewlyKept
<1>6. KeptInv'
  <2>1. ASSUME NEW a \in Fds, NEW b \in Events
        PROVE  waiter'[a][b] \in [kind : {"cb"}, item : Tasks, thr : {AnyThread}] \cup {NoEntry}
    BY <1>3, <2>1 DEF KeptInv, CbEntry
  <2>2. ASSUME NEW a \in Fds, NEW b \in Events, waiter'[a][b] # NoEntry
        PROVE  /\ waiter'[a][b].item \notin timers
               /\ \A w \in Threads : waiter'[a][b].item \notin cbs[w]
               /\ \A x \in Fds, y \in Events : waiter'[x][y].item = waiter'[a][b].item => x = a /\ y = b
    <3>1. t \notin timers /\ (\A w \in Threads : t \notin cbs[w])
          /\ \A x \in Fds, y \in Events : waiter[x][y].item # t
      BY <1>5 DEF Kept
    <3>2. CASE a = d /\ b = e
      <4>1. waiter'[a][b].item = t
        BY <1>3, <3>2, CbFacts
      <4>2. \A x \in Fds, y \in Events : waiter'[x][y].item = t => x = d /\ y = e
        BY <1>3, <3>1
      <4> QED
        BY <3>1, <3>2, <4>1, <4>2
    <3>3. CASE ~(a = d /\ b = e)
      <4>1. waiter'[a][b] = waiter[a][b]
        BY <1>3, <3>3
      <4>2. /\ waiter[a][b].item \notin timers
            /\ \A w \in Threads : waiter[a][b].item \notin cbs[w]
            /\ \A x \in Fds, y \in Events : waiter[x][y].item = waiter[a][b].item => x = a /\ y = b
        BY <2>2, <4>1 DEF KeptInv
      <4>3. waiter'[d][e].item # waiter[a][b].item
        BY <1>3, <3>1, CbFacts
      <4> QED
        BY <1>3, <4>1, <4>2, <4>3
    <3> QED
      BY <3>2, <3>3
  <2> QED
    BY <1>1, <1>5, <2>1, <2>2 DEF KeptInv
<1>7. schedPc' = schedPc
  BY <1>1, ViewStay
<1>8. idleTerm' \in [Threads -> BOOLEAN] /\ toTickle' \in [Threads -> Nat]
  BY <1>1 DEF M!TypeInv, M!TypeOK, M!Threads, Threads
<1> QED
  BY <1>1, <1>5, <1>6, <1>7, <1>8, QuietIO

\* listExpiredCb() hands the callbacks of the timers that are due to idle().
LEMMA TasksExpired ==
  ASSUME FdTypes, fault = "none", M!TypeInv, M!TasksInv, M!AllPlaced, KeptInv,
         NEW w \in Threads, ListExpired(w)
  PROVE  LosesNothing'
<1>1. /\ pc[w] = "list" /\ cbs' = [cbs EXCEPT ![w] = due] /\ timers' = timers \ due /\ due' = {}
      /\ pc' = [pc EXCEPT ![w] = IF due = {} THEN "events" ELSE "sched"]
      /\ UNCHANGED <<ctlVars, fibers, toTickle, active, idle, fiberVars, ft, cur, cbFiber, idleTerm, taskVars, fault>>
      /\ UNCHANGED <<waiter, todo>>
  BY DEF ListExpired, At, Goto, schedRest, queueVars, countVars, fdVars
<1>2. cbs[w] = {} /\ \A v \in Threads : cbs'[v] = IF v = w THEN due ELSE cbs[v]
  BY <1>1 DEF KeptInv
<1>3. due \subseteq timers
  BY DEF KeptInv
<1>4. \A s : Kept(s)' <=> Kept(s)
  <2>1. ASSUME NEW s
        PROVE  (s \in timers' \/ \E v \in Threads : s \in cbs'[v]) <=> (s \in timers \/ \E v \in Threads : s \in cbs[v])
    BY <1>1, <1>2, <1>3
  <2> QED
    BY <1>1, <2>1 DEF Kept
<1>5. schedStatus' = schedStatus
  BY <1>1, <1>4 DEF schedStatus, taskVars
<1>6. pc'[w] \in {"events", "sched"} /\ (pc'[w] # "sched" => due = {}) /\ \A v \in Threads \ {w} : pc'[v] = pc[v]
  BY <1>1 DEF FdTypes
<1>7. \A v \in Threads : schedPc'[v] = schedPc[v]
  <2>1. schedPc'[w] = "idle" /\ schedPc[w] = "idle"
    BY <1>1, <1>6 DEF schedPc, PCs, Triggering
  <2> QED
    BY <1>1, <1>6, <2>1, ViewOthers
<1>8. KeptInv'
  <2>1. timers' \in SUBSET Tasks /\ IsFiniteSet(timers') /\ due' \in SUBSET timers' /\ IsFiniteSet(due)
    BY <1>1, FS_Subset DEF KeptInv
  <2>2. /\ cbs' \in [Threads -> SUBSET Tasks]
        /\ \A v \in Threads : IsFiniteSet(cbs'[v]) /\ (pc'[v] # "sched" => cbs'[v] = {})
    BY <1>1, <1>2, <1>6, <2>1 DEF KeptInv
  <2>3. \A v \in Threads : cbs'[v] \cap timers' = {}
    BY <1>1, <1>2 DEF KeptInv
  <2>4. \A u, v \in Threads : cbs'[u] \cap cbs'[v] # {} => u = v
    BY <1>2, <1>3 DEF KeptInv
  <2>5. \A d \in Fds, e \in Events : waiter[d][e] # NoEntry =>
          /\ waiter[d][e].item \notin timers' /\ \A v \in Threads : waiter[d][e].item \notin cbs'[v]
    BY <1>1, <1>2, <1>3 DEF KeptInv
  <2> QED
    BY <1>1, <1>4, <2>1, <2>2, <2>3, <2>4, <2>5 DEF KeptInv, taskVars
<1>9. idleTerm' \in [Threads -> BOOLEAN] /\ toTickle' \in [Threads -> Nat]
  BY <1>1 DEF M!TypeInv, M!TypeOK, M!Threads, Threads
<1> QED
  BY <1>1, <1>5, <1>7, <1>8, <1>9, QuietIO DEF taskVars


\* Kept callbacks that are put into the queue, in whatever order.
LEMMA BatchIO ==
  ASSUME M!TypeInv, M!TasksInv, M!AllPlaced, KeptInv', NEW S \in SUBSET Tasks, \A t \in S : Kept(t) /\ status[t] = "queued",
         \A t \in Tasks : Kept(t)' <=> Kept(t) /\ t \notin S,
         status' = status, status \in [Tasks -> {"new", "queued", "begun", "done"}],
         UNCHANGED <<ctlVars, active, idle, fiberVars, ft, cur, cbFiber, idleTerm, yields, pin>>,
         fibers' \in Seq(Entry), M!OneEntry', M!Queue' = M!Queue \cup {CbEntry(t) : t \in S},
         toTickle' \in [Threads -> Nat], fault' = "none", schedPc' = schedPc
  PROVE  LosesNothing'
<1>1. schedStatus' = [t \in Tasks |-> IF t \in S THEN "queued" ELSE schedStatus[t]]
  <2>1. \A t \in Tasks : (IF Kept(t)' THEN "new" ELSE status'[t])
                           = IF t \in S THEN "queued" ELSE schedStatus[t]
    BY DEF schedStatus
  <2> QED
    BY <2>1 DEF schedStatus
<1>2. \A t \in S : schedStatus[t] = "new"
  BY DEF schedStatus
<1>3. schedStatus' \in [Tasks -> {"new", "queued", "begun", "done"}]
  BY <1>1 DEF schedStatus
<1>4. M!TypeInv'
  <2>1. idleTerm' \in [Threads -> BOOLEAN]
    BY DEF M!TypeInv, M!TypeOK, M!Threads, Threads
  <2> QED
    BY <1>3, <2>1, QuietTypes
<1>5. M!TaskTypes
  BY SameAssumption, M!TypesOfTasks
<1>6. M!TasksInv' /\ M!KeepsPlaces
  <2>1. M!Queue' = M!Queue \cup {[kind |-> "cb", item |-> t, thr |-> AnyThread] : t \in S}
    BY DEF CbEntry
  <2>2. UNCHANGED <<fstate, prog, schedPc, ft, cur, cbFiber>>
    BY DEF fiberVars
  <2> QED
    BY <1>1, <1>2, <1>5, <2>1, <2>2, SameAssumption, M!BatchStep
<1> QED
  BY <1>4, <1>6, StillPlaced DEF LosesNothing

\* idle() schedules the callbacks of the timers that were due.
LEMMA TasksBatch ==
  ASSUME FdTypes, fault = "none", M!TypeInv, M!TasksInv, M!AllPlaced, KeptInv,
         NEW w \in Threads, ScheduleExpired(w)
  PROVE  LosesNothing'
<1> DEFINE S == cbs[w]
<1>1. /\ pc[w] = "sched" /\ pc' = [pc EXCEPT ![w] = "events"] /\ cbs' = [cbs EXCEPT ![w] = {}]
      /\ UNCHANGED <<ctlVars, active, idle, fiberVars, ft, cur, cbFiber, idleTerm, taskVars, fault>>
      /\ UNCHANGED <<timers, due, waiter, todo>>
  BY DEF ScheduleExpired, At, Goto, schedRest, countVars, tmVars, fdVars
<1>2. PICK s \in SetToSeqs(S) : fibers' = fibers \o [i \in 1 .. Len(s) |-> CbEntry(s[i])]
  BY DEF ScheduleExpired, CbEntry
<1>3. S \in SUBSET Tasks /\ IsFiniteSet(S) /\ \A v \in Threads : cbs'[v] = IF v = w THEN {} ELSE cbs[v]
  BY <1>1 DEF KeptInv
<1>4. /\ s \in Seq(S)
      /\ \A i, j \in 1 .. Len(s) : s[i] = s[j] => i = j
      /\ \A x \in S : \E i \in 1 .. Len(s) : s[i] = x
  BY <1>2, <1>3, ListsAll
<1>5. \A t \in S : Kept(t) /\ status[t] = "queued" /\ schedStatus[t] = "new"
  BY <1>3 DEF Kept, KeptInv, schedStatus
<1>6. ASSUME NEW t \in Tasks
      PROVE  Kept(t)' <=> Kept(t) /\ t \notin S
  <2>1. t \in S => /\ t \notin timers /\ \A v \in Threads \ {w} : t \notin cbs[v]
                   /\ \A d \in Fds, e \in Events : waiter[d][e].item # t
    <3>1. t \in S => t \notin timers
      BY DEF KeptInv
    <3>2. t \in S => \A v \in Threads \ {w} : t \notin cbs[v]
      BY DEF KeptInv
    <3>3. t \in S => \A d \in Fds, e \in Events : waiter[d][e].item # t
      BY CbFacts DEF KeptInv
    <3> QED
      BY <3>1, <3>2, <3>3
  <2> HIDE DEF S
  <2>2. t \in S => ~Kept(t)'
    BY <1>1, <1>3, <2>1 DEF Kept
  <2>3. t \notin S => (Kept(t)' <=> Kept(t))
    BY <1>1, <1>3 DEF Kept, S
  <2> QED
    BY <2>2, <2>3
<1> HIDE DEF S
<1>7. M!TaskTypes /\ M!OneEntry
  BY SameAssumption, M!TypesOfTasks DEF M!TasksInv, M!UniqueInv
<1> DEFINE b == [i \in 1 .. Len(s) |-> CbEntry(s[i])]
<1>8. /\ b \in Seq(Entry) /\ Len(b) = Len(s)
      /\ \A i \in 1 .. Len(s) : s[i] \in S /\ b[i] = CbEntry(s[i]) /\ b[i].item = s[i]
  <2>1. \A i \in 1 .. Len(s) : s[i] \in S /\ CbEntry(s[i]) \in Entry /\ CbEntry(s[i]).item = s[i]
    BY <1>3, <1>4, CbFacts
  <2> QED
    BY <1>4, <2>1
<1>9. fibers' = fibers \o b
  BY <1>2
<1> HIDE DEF b
<1>10. \A i, j \in 1 .. Len(b) : b[i].item = b[j].item => i = j
  BY <1>4, <1>8
<1>11. \A x \in M!Queue, j \in 1 .. Len(b) : x.item # b[j].item
  <2>1. \A t \in S : \A x \in M!Queue : x.item # t
    BY <1>3, <1>5, <1>7, SameAssumption, M!NewNowhere DEF M!TasksInv
  <2> QED
    BY <1>8, <2>1
<1>12. fibers' \in Seq(Entry) /\ M!OneEntry' /\ M!Queue' = M!Queue \cup {b[j] : j \in 1 .. Len(b)}
  <2>1. M!Entry = Entry
    BY DEF M!Entry, Entry, M!Threads, Threads
  <2> QED
    BY <1>7, <1>8, <1>9, <1>10, <1>11, <2>1, SameAssumption, M!QueueConcat
<1>13. {b[j] : j \in 1 .. Len(b)} = {CbEntry(t) : t \in S}
  BY <1>4, <1>8
<1>14. \A v \in Threads : schedPc'[v] = schedPc[v]
  <2>1. pc'[w] = "events" /\ \A v \in Threads \ {w} : pc'[v] = pc[v]
    BY <1>1 DEF FdTypes
  <2>2. schedPc'[w] = "idle" /\ schedPc[w] = "idle"
    BY <1>1, <2>1 DEF schedPc, PCs, Triggering
  <2> QED
    BY <1>1, <2>1, <2>2, ViewOthers
<1>15. schedPc' = schedPc
  BY <1>14 DEF schedPc
<1>16. KeptInv'
  <2>1. /\ cbs' \in [Threads -> SUBSET Tasks]
        /\ \A v \in Threads : IsFiniteSet(cbs'[v]) /\ (pc'[v] # "sched" => cbs'[v] = {})
    <3>1. \A v \in Threads \ {w} : pc'[v] = pc[v]
      BY <1>1 DEF FdTypes
    <3> QED
      BY <1>1, <1>3, <3>1, FS_EmptySet DEF KeptInv
  <2>2. \A v \in Threads : cbs'[v] \subseteq cbs[v]
    BY <1>3
  <2> QED
    BY <1>1, <1>6, <2>1, <2>2 DEF KeptInv, taskVars
<1>17. toTickle' \in [Threads -> Nat]
  BY DEF ScheduleExpired, M!TypeInv, M!TypeOK, M!Threads, Threads
<1>18. status' = status /\ status \in [Tasks -> {"new", "queued", "begun", "done"}]
  BY <1>1 DEF taskVars, KeptInv
<1> QED
  BY <1>1, <1>3, <1>5, <1>6, <1>12, <1>13, <1>15, <1>16, <1>17, <1>18, BatchIO DEF taskVars

\* A waiter leaves its event.
LEMMA Release ==
  ASSUME FdTypes, KeptInv, NEW d \in Fds, NEW e \in Events, waiter[d][e] # NoEntry,
         waiter' = With(waiter, d, e, NoEntry), UNCHANGED <<timers, due, cbs>>,
         status' \in [Tasks -> {"new", "queued", "begun", "done"}],
         \A t \in Tasks : t # waiter[d][e].item => status'[t] = status[t],
         \A v \in Threads : pc'[v] = "sched" <=> pc[v] = "sched"
  PROVE  /\ waiter[d][e].item \in Tasks /\ waiter[d][e] = CbEntry(waiter[d][e].item)
         /\ KeptInv' /\ Kept(waiter[d][e].item)
         /\ \A t \in Tasks : Kept(t)' <=> Kept(t) /\ t # waiter[d][e].item
<1>0. PICK t \in Tasks : waiter[d][e].item = t
  BY DEF KeptInv
<1>1. waiter[d][e] = CbEntry(t) /\ Kept(t)
  BY <1>0 DEF KeptInv, Kept, CbEntry
<1>2. \A a \in Fds, b \in Events : waiter'[a][b] = IF a = d /\ b = e THEN NoEntry ELSE waiter[a][b]
  BY OneWaiter DEF FdTypes
<1>3. /\ t \notin timers /\ \A w \in Threads : t \notin cbs[w]
      /\ \A a \in Fds, b \in Events : waiter[a][b].item = t => a = d /\ b = e
  BY <1>0 DEF KeptInv
<1>a. timers' = timers /\ cbs' = cbs
  OBVIOUS
<1>4. ~Kept(t)'
  <2>1. \A a \in Fds, b \in Events : waiter'[a][b].item # t
    BY <1>1, <1>2, <1>3, CbFacts
  <2> QED
    BY <1>3, <1>a, <2>1 DEF Kept
<1>5. ASSUME NEW s \in Tasks, s # t
      PROVE  Kept(s)' <=> Kept(s)
  <2>2. (\E a \in Fds, b \in Events : waiter'[a][b].item = s) <=> (\E a \in Fds, b \in Events : waiter[a][b].item = s)
    BY <1>0, <1>2, <1>5, CbFacts
  <2> QED
    BY <1>a, <2>2 DEF Kept
<1>6. \A s \in Tasks : Kept(s)' <=> Kept(s) /\ s # t
  BY <1>4, <1>5
<1>7. \A s \in Tasks : Kept(s)' => status'[s] = "queued"
  BY <1>0, <1>6 DEF KeptInv
<1>8. KeptInv'
  <2>1. \A a \in Fds, b \in Events :
          waiter'[a][b] \in [kind : {"cb"}, item : Tasks, thr : {AnyThread}] \cup {NoEntry}
    BY <1>2 DEF KeptInv
  <2>2. ASSUME NEW a \in Fds, NEW b \in Events, waiter'[a][b] # NoEntry
        PROVE  /\ waiter'[a][b].item \notin timers
               /\ \A w \in Threads : waiter'[a][b].item \notin cbs[w]
               /\ \A x \in Fds, y \in Events : waiter'[x][y].item = waiter'[a][b].item => x = a /\ y = b
    <3>1. waiter'[a][b] = waiter[a][b] /\ waiter[a][b] # NoEntry
      BY <1>2, <2>2
    <3>2. /\ waiter[a][b].item \notin timers
          /\ \A w \in Threads : waiter[a][b].item \notin cbs[w]
          /\ \A x \in Fds, y \in Events : waiter[x][y].item = waiter[a][b].item => x = a /\ y = b
      BY <3>1 DEF KeptInv
    <3>3. waiter[a][b].item \in Tasks
      BY <3>1 DEF KeptInv
    <3>4. NoEntry.item # waiter[a][b].item
      BY <3>3, CbFacts
    <3> QED
      BY <1>2, <3>1, <3>2, <3>4
  <2> QED
    BY <1>7, <2>1, <2>2 DEF KeptInv
<1> QED
  BY <1>0, <1>1, <1>6, <1>8


\* triggerEvent() schedules the callback that waits.
LEMMA TasksWake ==
  ASSUME FdInv, fault = "none", M!TypeInv, M!TasksInv, M!AllPlaced, KeptInv,
         NEW w \in Threads, Trigger(w)
  PROVE  LosesNothing'
<1> SUFFICES ASSUME fault' = "none"
             PROVE  LosesNothing'
  BY DEF LosesNothing
<1>0. pc[w] = "trigger" /\ todo[w].fd \in Fds /\ todo[w] \in Todo /\ FdTypes
  BY DEF Trigger, At, FdInv, FdTypes, Triggering
<1>1. PICK d \in Fds, e \in Events :
        /\ fault' = (IF e \in fdEvents[d] THEN "none" ELSE "assert")
        /\ waiter' = [waiter EXCEPT ![d][e] = NoEntry]
        /\ IF waiter[d][e] = NoEntry THEN UNCHANGED queueVars ELSE Enqueue(w, waiter[d][e])
        /\ todo' = [todo EXCEPT ![w].left = @ \ {e}]
  <2> DEFINE f == todo[w].fd
             g == IF "READ" \in todo[w].left THEN "READ" ELSE "WRITE"
  <2>1. /\ fault' = (IF g \in fdEvents[f] THEN "none" ELSE "assert")
        /\ waiter' = [waiter EXCEPT ![f][g] = NoEntry]
        /\ IF waiter[f][g] = NoEntry THEN UNCHANGED queueVars ELSE Enqueue(w, waiter[f][g])
        /\ todo' = [todo EXCEPT ![w].left = @ \ {g}]
    BY DEF Trigger
  <2>2. f \in Fds /\ g \in Events
    BY <1>0 DEF Events
  <2> HIDE DEF f, g
  <2> QED
    BY <2>1, <2>2
<1>2. /\ pc' = [pc EXCEPT ![w] = "dec"]
      /\ UNCHANGED <<ctlVars, active, idle, fiberVars, ft, cur, cbFiber, idleTerm, taskVars, timers, due, cbs>>
  BY DEF Trigger, Goto, countVars, threadVars, tmVars, idleVars
<1>3. waiter[d][e] # NoEntry
  <2>1. e \in fdEvents[d]
    BY <1>1
  <2> QED
    BY <2>1 DEF FdInv, WaitedInv
<1>4. waiter' = With(waiter, d, e, NoEntry) /\ Enqueue(w, waiter[d][e])
  BY <1>1, <1>3 DEF With
<1>5. status' = status /\ status \in [Tasks -> {"new", "queued", "begun", "done"}]
  BY <1>2 DEF taskVars, KeptInv
<1>6. pc'[w] = "dec" /\ todo'[w].back = todo[w].back
      /\ \A v \in Threads \ {w} : pc'[v] = pc[v] /\ todo'[v] = todo[v]
  BY <1>0, <1>1, <1>2 DEF FdTypes, Todo
<1>7. PICK t \in Tasks : waiter[d][e].item = t
  BY <1>3 DEF KeptInv
<1>8. /\ waiter[d][e] = CbEntry(t) /\ KeptInv' /\ Kept(t)
      /\ \A s \in Tasks : Kept(s)' <=> Kept(s) /\ s # t
  <2>1. \A v \in Threads : pc'[v] = "sched" <=> pc[v] = "sched"
    BY <1>0, <1>6
  <2>2. UNCHANGED <<timers, due, cbs>>
    BY <1>2
  <2> QED
    BY <1>0, <1>3, <1>4, <1>5, <1>7, <2>1, <2>2, Release
<1>9. \A v \in Threads : schedPc'[v] = schedPc[v]
  <2>1. schedPc'[w] = schedPc[w]
    BY <1>0, <1>6 DEF schedPc, PCs, Triggering
  <2> QED
    BY <1>6, <2>1, ViewOthers
<1>10. schedPc' = schedPc
  BY <1>9 DEF schedPc
<1>11. M!TaskTypes /\ M!OneEntry /\ M!Entry = Entry
  BY SameAssumption, M!TypesOfTasks DEF M!TasksInv, M!UniqueInv, M!Entry, Entry, M!Threads, Threads
<1>12. \A x \in M!Queue : x.item # t
  <2>1. schedStatus[t] = "new"
    BY <1>8 DEF schedStatus
  <2> QED
    BY <1>11, <2>1, SameAssumption, M!NewNowhere DEF M!TasksInv
<1>13. CbEntry(t) \in Entry /\ CbEntry(t).item = t /\ fibers' = Append(fibers, CbEntry(t))
  BY <1>4, <1>8, CbFacts DEF Enqueue
<1>14. M!Queue' = M!Queue \cup {CbEntry(t)} /\ M!OneEntry'
  BY <1>11, <1>12, <1>13, SameAssumption, M!QueueAppend
<1>15. fibers' \in Seq(Entry) /\ toTickle' \in [Threads -> Nat]
  <2>1. fibers \in Seq(Entry) /\ toTickle \in [Threads -> Nat]
    BY <1>11 DEF M!TypeInv, M!TypeOK, M!Threads, Threads
  <2> QED
    BY <1>4, <1>13, <2>1, AppendProperties DEF Enqueue
<1> DEFINE S == {t}
<1>16. /\ S \in SUBSET Tasks /\ \A s \in S : Kept(s) /\ status[s] = "queued"
       /\ \A s \in Tasks : Kept(s)' <=> Kept(s) /\ s \notin S
       /\ M!Queue' = M!Queue \cup {CbEntry(s) : s \in S}
  BY <1>8, <1>14 DEF KeptInv
<1> HIDE DEF S
<1> QED
  BY <1>2, <1>5, <1>8, <1>10, <1>14, <1>15, <1>16, BatchIO DEF taskVars

\* delEvent() gives up the callback that waits.
LEMMA TasksDelete ==
  ASSUME FdInv, fault = "none", M!TypeInv, M!TasksInv, M!AllPlaced, KeptInv,
         NEW w \in Threads, NEW d \in Fds, NEW e \in Events, DelEvent(w, d, e)
  PROVE  LosesNothing'
<1>1. /\ e \in fdEvents[d] /\ waiter' = [waiter EXCEPT ![d][e] = NoEntry]
      /\ waiter[d][e].kind = "cb" => status' = [status EXCEPT ![waiter[d][e].item] = "done"]
      /\ UNCHANGED <<ctlVars, fibers, toTickle, active, idle, fiberVars, pc, ft, cur, cbFiber, idleTerm, yields, pin, fault>>
      /\ UNCHANGED <<timers, due, cbs, todo>>
  BY DEF DelEvent, queueVars, countVars, threadVars, tmVars, idleVars
<1>2. waiter[d][e] # NoEntry /\ waiter' = With(waiter, d, e, NoEntry) /\ FdTypes
  BY <1>1 DEF FdInv, WaitedInv, With
<1>3. PICK t \in Tasks : waiter[d][e].item = t /\ waiter[d][e].kind = "cb"
  BY <1>2 DEF KeptInv
<1>4. /\ status' \in [Tasks -> {"new", "queued", "begun", "done"}]
      /\ status'[t] = "done" /\ \A s \in Tasks : s # t => status'[s] = status[s]
  BY <1>1, <1>3 DEF KeptInv
<1>5. /\ KeptInv' /\ Kept(t) /\ \A s \in Tasks : Kept(s)' <=> Kept(s) /\ s # t
  <2>1. \A v \in Threads : pc'[v] = "sched" <=> pc[v] = "sched"
    BY <1>1
  <2>2. UNCHANGED <<timers, due, cbs>>
    BY <1>1
  <2> QED
    BY <1>2, <1>3, <1>4, <2>1, <2>2, Release
<1>6. schedStatus[t] = "new" /\ schedStatus' = [schedStatus EXCEPT ![t] = "done"]
  <2>1. \A s \in Tasks : (IF Kept(s)' THEN "new" ELSE status'[s]) = IF s = t THEN "done" ELSE schedStatus[s]
    BY <1>4, <1>5 DEF schedStatus
  <2>2. schedStatus' = [s \in Tasks |-> IF s = t THEN "done" ELSE schedStatus[s]]
    BY <2>1 DEF schedStatus
  <2> QED
    BY <1>5, <2>2 DEF schedStatus
<1>7. schedPc' = schedPc
  BY <1>1, ViewStay
<1>8. M!TaskTypes
  BY SameAssumption, M!TypesOfTasks
<1>9. M!TasksInv' /\ M!KeepsPlaces
  <2>1. UNCHANGED <<fibers, fstate, prog, schedPc, ft, cur, cbFiber>>
    BY <1>1, <1>7 DEF fiberVars
  <2> QED
    BY <1>6, <1>8, <2>1, SameAssumption, M!DiscardStep
<1>10. M!TypeInv'
  <2>1. fibers' \in Seq(Entry) /\ toTickle' \in [Threads -> Nat] /\ idleTerm' \in [Threads -> BOOLEAN]
    BY <1>1 DEF M!TypeInv, M!TypeOK, M!Entry, Entry, M!Threads, Threads
  <2>2. schedStatus' \in [Tasks -> {"new", "queued", "begun", "done"}]
    BY <1>6 DEF M!TypeInv, M!TypeOK
  <2> QED
    BY <1>1, <1>7, <2>1, <2>2, QuietTypes
<1> QED
  BY <1>5, <1>9, <1>10, StillPlaced DEF LosesNothing

-----------------------------------------------------------------------------
(* The invariant.                                                          *)

LEMMA LosesStep ==
  ASSUME ~UseSwitch, UseFibers = FALSE, FdInv, LosesNothing, [IONext]_ioAll
  PROVE  LosesNothing'
<1>1. CASE UNCHANGED ioAll
  <2>1. /\ UNCHANGED <<fault, shape, isStopping, isAutoStop, main, fibers, toTickle, active, idle, fstate, prog,
                       pc, ft, cur, cbFiber, idleTerm, yields, status, pin>>
        /\ UNCHANGED <<timers, due, cbs, waiter, todo>>
    BY <1>1 DEF ioAll, vars, ctlVars, queueVars, countVars, fiberVars, threadVars, taskVars, ioVars, tmVars, fdVars, idleVars
  <2> SUFFICES ASSUME fault = "none"
               PROVE  LosesNothing'
    BY <2>1 DEF LosesNothing
  <2>2. M!TypeInv /\ M!TasksInv /\ M!AllPlaced /\ KeptInv
    BY DEF LosesNothing
  <2>3. schedPc' = schedPc /\ schedStatus' = schedStatus
    BY <2>1, ViewStay, StatusStay
  <2>4. KeptInv'
    <3>1. status \in [Tasks -> {"new", "queued", "begun", "done"}]
      BY <2>2 DEF KeptInv
    <3>2. UNCHANGED <<timers, due, cbs, waiter>>
      BY <2>1
    <3>3. status' = status /\ \A v \in Threads : pc'[v] = pc[v]
      BY <2>1
    <3> QED
      BY <2>2, <3>1, <3>2, <3>3, KeptFrame
  <2>5. toTickle' \in [Threads -> Nat] /\ idleTerm' \in [Threads -> BOOLEAN]
    BY <2>1, <2>2 DEF M!TypeInv, M!TypeOK, M!Threads, Threads
  <2>6. UNCHANGED <<ctlVars, fibers, active, idle, fiberVars, ft, cur, cbFiber, yields, pin>>
    BY <2>1 DEF ctlVars, fiberVars
  <2>7. fault' = "none"
    BY <2>1
  <2> QED
    BY <2>2, <2>3, <2>4, <2>5, <2>6, <2>7, QuietIO
<1>2. CASE IONext
  <2>1. fault = "none"
    BY <1>2, FaultEnds
  <2>2. M!TypeInv /\ M!TasksInv /\ M!AllPlaced /\ KeptInv /\ FdTypes
    BY <2>1 DEF LosesNothing, FdInv
  <2>3. Caller \in Threads
    BY DEF Threads
  <2>4. CASE Main /\ UNCHANGED ioVars
    BY <2>1, <2>2, <2>4, TasksScheduler
  <2>5. CASE IOMain
    BY <2>1, <2>2, <2>3, <2>5, TasksTimer DEF IOMain
  <2>6. ASSUME NEW w \in Threads, IOThread(w)
        PROVE  LosesNothing'
    <3>1. CASE (RunStep(w) \/ Body(w)) /\ UNCHANGED ioVars
      BY <2>1, <2>2, <3>1, TasksScheduler
    <3>2. CASE IOTickle(w)
      BY <2>1, <2>2, <3>2, TasksOutside
    <3>3. CASE IOIdle(w)
      BY <2>1, <2>2, <3>3, TasksIdle, TasksTrigger, TasksExpired, TasksBatch DEF IOIdle
    <3>4. CASE Trigger(w)
      BY <2>1, <2>2, <3>4, TasksWake
    <3>5. CASE DecPending(w)
      BY <2>1, <2>2, <3>5, TasksTrigger
    <3>6. CASE IOBody(w)
      BY <2>1, <2>2, <3>6, TasksTimer, TasksAddEvent, TasksDelete, TasksTrigger DEF IOBody, WaitEvent
    <3> QED
      BY <2>6, <3>1, <3>2, <3>3, <3>4, <3>5, <3>6 DEF IOThread
  <2>7. CASE (\E t \in Tasks : TimerDue(t)) \/ \E d \in Fds, e \in Events \cup {"ERR"} : FdReady(d, e)
    BY <2>1, <2>2, <2>7, TasksOutside
  <2> QED
    BY <1>2, <2>4, <2>5, <2>6, <2>7 DEF IONext
<1> QED
  BY <1>1, <1>2

\* What the view accounts for is where NothingLost says it is.
LEMMA FoundByView ==
  ASSUME LosesNothing, fault = "none", NEW t \in Tasks, status[t] \in {"queued", "begun"}
  PROVE  InQueue(t) \/ InThread(t) \/ Armed(t)
<1>1. M!TypeInv /\ M!TasksInv /\ M!AllPlaced /\ KeptInv
  BY DEF LosesNothing
<1>2. CASE Kept(t)
  <2>1. ASSUME NEW d \in Fds, NEW e \in Events, waiter[d][e].item = t
        PROVE  waiter[d][e] # NoEntry /\ waiter[d][e].kind = "cb"
    BY <1>1, <2>1, CbFacts DEF KeptInv
  <2> QED
    BY <1>2, <2>1 DEF Kept, Armed
<1>3. CASE ~Kept(t)
  <2>1. M!Placed(t)
    <3>1. schedStatus[t] \in {"queued", "begun"}
      BY <1>3 DEF schedStatus
    <3> QED
      BY <1>1, <3>1 DEF M!AllPlaced, M!Pending
  <2>2. M!TaskTypes
    BY <1>1, SameAssumption, M!TypesOfTasks
  <2>3. CASE M!Located(t, "cb")
    BY <2>3 DEF M!Located, M!Queue, M!Threads, Threads, InQueue, InThread
  <2>4. ASSUME NEW f \in Tasks, prog[f] = t, M!Located(f, "fiber") \/ \E w \in M!Threads : cur[w] = f
        PROVE  InQueue(t) \/ InThread(t)
    <3>1. CASE M!Located(f, "fiber")
      BY <2>4, <3>1 DEF M!Located, M!Queue, M!Threads, Threads, InQueue, InThread
    <3>2. CASE \E w \in M!Threads : cur[w] = f
      BY <2>4, <3>2, ThreadsAssumption DEF M!Threads, Threads, InThread
    <3> QED
      BY <2>4, <3>1, <3>2
  <2> QED
    BY <2>1, <2>3, <2>4 DEF M!Placed
<1> QED
  BY <1>2, <1>3

\* One worker keeps what is its own (IOManager_proofs), several what the view has.
LEMMA SomebodyHasIt ==
  ASSUME FdInv, OneWorkerInv, OneThread \/ LosesNothing
  PROVE  NothingLost
<1> SUFFICES ASSUME fault = "none", NEW t \in Tasks, status[t] \in {"queued", "begun"}
             PROVE  InQueue(t) \/ InThread(t) \/ Armed(t) \/ Dropped(t)
  BY DEF NothingLost
<1>1. CASE OneThread
  <2>1. PICK w \in Threads : LoopThread(w)
    BY <1>1, OneLoopThread DEF FdInv, FdTypes
  <2> QED
    BY <2>1, FoundByOne DEF OneWorkerInv
<1>2. CASE LosesNothing
  BY <1>2, FoundByView
<1> QED
  BY <1>1, <1>2

(***************************************************************************)
(* A callback or fiber handed to a timer, to an event or to schedule() is  *)
(* with the timer or event, collected by an idle thread, in the queue or   *)
(* with a thread until it has been executed, whatever steps of idle(),     *)
(* cancels, reports and expiries interleave, or it rests in a fiber that   *)
(* delEvent has taken from its event.  Several workers: events are waited  *)
(* for by callbacks and no task calls switchTo(), after which a second     *)
(* thread may resume a fiber too early (see the run sched_race).           *)
(***************************************************************************)
THEOREM TasksAreNotLost ==
  ASSUME (~UseSwitch /\ UseFibers = FALSE) \/ OneThread
  PROVE  IOSpec => []NothingLost
<1>1. CASE OneThread
  <2>1. FdInv /\ OneWorkerInv => NothingLost
    BY <1>1, SomebodyHasIt
  <2> QED
    BY <2>1, FdInvariant, OneWorkerInvariant, PTL
<1>2. CASE ~UseSwitch /\ UseFibers = FALSE
  <2>1. FdInv /\ LosesNothing /\ [IONext]_ioAll => LosesNothing'
    BY <1>2, LosesStep
  <2>2. FdInv /\ OneWorkerInv /\ LosesNothing => NothingLost
    BY SomebodyHasIt
  <2> QED
    BY <2>1, <2>2, LosesInit, FdInvariant, OneWorkerInvariant, PTL DEF IOSpec
<1> QED
  BY <1>1, <1>2

===============================================================================
