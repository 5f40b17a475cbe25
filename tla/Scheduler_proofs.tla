--------------------------- MODULE Scheduler_proofs ---------------------------
(***************************************************************************)
(* Proofs about the scheduler's loop, for any number of worker threads and *)
(* tasks, with or without use_caller, and whatever the tasks do; and, at   *)
(* the end, about a scheduler whose loop runs on one thread only.          *)
(***************************************************************************)
EXTENDS Scheduler, FiniteSetTheorems, SequenceTheorems, TLAPS

LEMMA ThreadsFinite == IsFiniteSet(Threads) /\ IsFiniteSet(Workers)
BY ThreadsAssumption, FS_AddElement DEF Threads

\* Erasing an element of __fibers leaves a queue of the same type.
LEMMA RemoveAtType ==
  ASSUME NEW S, NEW s \in Seq(S), NEW i \in 1..Len(s)
  PROVE  RemoveAt(s, i) \in Seq(S)
<1>1. SubSeq(s, 1, i-1) \in Seq(S)
  BY SubSeqProperties
<1>2. SubSeq(s, i+1, Len(s)) \in Seq(S)
  BY SubSeqProperties
<1> QED
  BY <1>1, <1>2, ConcatProperties DEF RemoveAt

-----------------------------------------------------------------------------
(* Types.                                                                  *)

HasFiber == {"run", "hold", "swapout", "ret", "settle", "sethold"}

\* A thread inside or just out of a fiber knows which one.
TypeInv ==
  /\ TypeOK
  /\ \A w \in Threads : pc[w] \in HasFiber => cur[w] \in Tasks

LEMMA TypeInit == Init => TypeInv
<1> SUFFICES ASSUME Init
             PROVE  TypeInv
  OBVIOUS
<1>1. fibers \in Seq(Entry) /\ active \in Int /\ idle \in Int
  BY DEF Init
<1>2. pc \in [Threads -> PCs] /\ \A w \in Threads : pc[w] = "off"
  BY DEF Init, PCs
<1>3. fstate \in [Tasks -> FiberStates] /\ prog \in [Tasks -> Tasks \cup {None}]
  BY DEF Init, FiberStates
<1>4. ft \in [Threads -> Entry \cup {NoEntry}]
  BY DEF Init
<1>5. cur \in [Threads -> Tasks \cup {None}] /\ cbFiber \in [Threads -> Tasks \cup {None}]
  BY DEF Init
<1>6. toTickle \in [Threads -> Nat] /\ yields \in [Tasks -> Nat]
  BY DEF Init
<1>7. idleTerm \in [Threads -> BOOLEAN]
  BY DEF Init
<1>8. status \in [Tasks -> {"new", "queued", "begun", "done"}]
  BY DEF Init
<1>9. pin \in [Tasks -> Threads \cup {AnyThread}]
  BY DEF Init
<1> QED
  BY <1>1, <1>2, <1>3, <1>4, <1>5, <1>6, <1>7, <1>8, <1>9 DEF Init, TypeInv, TypeOK, HasFiber

\* schedule() of an entry.
LEMMA EnqueueType ==
  ASSUME TypeOK, NEW w \in Threads, NEW e \in Entry, Enqueue(w, e)
  PROVE  fibers' \in Seq(Entry) /\ toTickle' \in [Threads -> Nat]
<1>1. fibers' \in Seq(Entry)
  BY AppendProperties DEF Enqueue, TypeOK
<1>2. toTickle' \in [Threads -> Nat]
  BY DEF Enqueue, TypeOK
<1> QED
  BY <1>1, <1>2

\* schedule() of a new task, by a thread or by the caller.
LEMMA SubmitType ==
  ASSUME TypeOK, NEW w \in Threads, NEW t \in Tasks, NEW kind \in Kinds,
         NEW thr \in Threads \cup {AnyThread}, Submit(w, t, kind, thr)
  PROVE  /\ fibers' \in Seq(Entry) /\ toTickle' \in [Threads -> Nat]
         /\ fstate' \in [Tasks -> FiberStates] /\ prog' \in [Tasks -> Tasks \cup {None}]
         /\ yields' = yields
         /\ status' \in [Tasks -> {"new", "queued", "begun", "done"}]
         /\ pin' \in [Tasks -> Threads \cup {AnyThread}]
<1>1. [kind |-> kind, item |-> t, thr |-> thr] \in Entry
  BY ThreadsAssumption DEF Entry
<1>2. fibers' \in Seq(Entry) /\ toTickle' \in [Threads -> Nat]
  BY <1>1, EnqueueType DEF Submit
<1> QED
  BY <1>2 DEF Submit, TypeOK, fiberVars, FiberStates

LEMMA TypeRun ==
  ASSUME TypeInv, NEW w \in Threads, RunStep(w)
  PROVE  TypeInv'
<1> USE DEF TypeInv, TypeOK, HasFiber, At, Goto, ctlVars, queueVars, countVars, fiberVars,
            threadVars, taskVars
<1>0. NoEntry.kind = "none" /\ \A e \in Entry : e.kind \in {"cb", "fiber"} /\ e.item \in Tasks
  BY DEF NoEntry, Entry
<1>1. CASE Pick(w)
  <2>1. PICK i \in 1..Len(fibers) :
          /\ ft' = [ft EXCEPT ![w] = fibers[i]]
          /\ fibers' = RemoveAt(fibers, i)
          /\ toTickle' = [toTickle EXCEPT ![w] =
               IF i < Len(fibers) \/ \E j \in 1..(i-1) : Foreign(w, fibers[j])
               THEN 1 ELSE 0]
    BY <1>1 DEF Pick
  <2>2. fibers' \in Seq(Entry)
    BY <2>1, RemoveAtType
  <2>3. fibers[i] \in Entry
    OBVIOUS
  <2>4. ft' \in [Threads -> Entry \cup {NoEntry}] /\ toTickle' \in [Threads -> Nat]
    BY <2>1, <2>3
  <2>5. active' \in Int /\ pc' \in [Threads -> PCs]
        /\ \A v \in Threads : pc'[v] \in HasFiber => pc[v] \in HasFiber
    BY <1>1 DEF Pick, PCs
  <2> QED
    BY <1>1, <2>2, <2>4, <2>5 DEF Pick
<1>2. CASE PickNothing(w)
  <2>1. toTickle' \in [Threads -> Nat]
    BY <1>2 DEF PickNothing
  <2>2. ft' \in [Threads -> Entry \cup {NoEntry}]
    BY <1>2 DEF PickNothing
  <2> QED
    BY <1>2, <2>1, <2>2 DEF PickNothing, PCs
<1>3. CASE ResumeFiber(w)
  <2>1. ft[w].item \in Tasks
    BY <1>0, <1>3 DEF ResumeFiber
  <2>2. status' \in [Tasks -> {"new", "queued", "begun", "done"}]
    BY <1>3 DEF ResumeFiber, Begin
  <2>3. fstate' \in [Tasks -> FiberStates] /\ fault' \in {"none", "assert", "stack"}
    BY <1>3 DEF ResumeFiber, SwapIn, FiberStates
  <2>4. pc' = [pc EXCEPT ![w] = "run"] /\ cur' = [cur EXCEPT ![w] = ft[w].item]
    BY <1>3 DEF ResumeFiber, SwapIn
  <2> QED
    BY <1>3, <2>1, <2>2, <2>3, <2>4 DEF ResumeFiber, PCs
<1>4. CASE SkipDead(w)
  BY <1>4 DEF SkipDead, PCs
<1>5. CASE RunCallback(w)
  <2> DEFINE f == IF cbFiber[w] = None THEN ft[w].item ELSE cbFiber[w]
  <2>1. ft[w].item \in Tasks
    BY <1>0, <1>5 DEF RunCallback
  <2>2. f \in Tasks
    BY <2>1
  <2>3. CASE CanReset(w)
    <3>1. fstate' = [fstate EXCEPT ![f] = "EXEC"] /\ prog' = [prog EXCEPT ![f] = ft[w].item]
          /\ fault' \in {"none", "assert", "stack"}
      BY <1>5, <2>3 DEF RunCallback, SwapIn
    <3>2. cbFiber' = [cbFiber EXCEPT ![w] = f] /\ cur' = [cur EXCEPT ![w] = f]
          /\ ft' = [ft EXCEPT ![w] = NoEntry] /\ pc' = [pc EXCEPT ![w] = "run"]
          /\ status' = [status EXCEPT ![ft[w].item] = "begun"]
      BY <1>5, <2>3 DEF RunCallback, SwapIn, Begin
    <3>3. fstate' \in [Tasks -> FiberStates] /\ prog' \in [Tasks -> Tasks \cup {None}]
      BY <2>1, <3>1 DEF FiberStates
    <3> QED
      BY <1>5, <2>1, <2>2, <3>1, <3>2, <3>3 DEF RunCallback, PCs
  <2>4. CASE ~CanReset(w)
    BY <1>5, <2>4 DEF RunCallback
  <2> QED
    BY <2>3, <2>4
<1>6. CASE Ret(w)
  BY <1>6 DEF Ret, PCs
<1>7. CASE SettleReady(w)
  <2>1. [kind |-> "fiber", item |-> cur[w], thr |-> AnyThread] \in Entry
    BY <1>7 DEF SettleReady, Entry
  <2>2. fibers' \in Seq(Entry) /\ toTickle' \in [Threads -> Nat]
    BY <1>7, <2>1, EnqueueType DEF SettleReady
  <2>3. cbFiber' \in [Threads -> Tasks \cup {None}]
    BY <1>7 DEF SettleReady
  <2> QED
    BY <1>7, <2>2, <2>3 DEF SettleReady, PCs
<1>8. CASE SettleDead(w)
  <2>1. fstate' \in [Tasks -> FiberStates] /\ prog' \in [Tasks -> Tasks \cup {None}]
        /\ fault' \in {"none", "assert", "stack"}
    BY <1>8 DEF SettleDead, FiberStates
  <2> QED
    BY <1>8, <2>1 DEF SettleDead, PCs
<1>9. CASE SettleOther(w)
  BY <1>9 DEF SettleOther, PCs
<1>10. CASE SetHold(w)
  <2>1. fstate' \in [Tasks -> FiberStates] /\ cbFiber' \in [Threads -> Tasks \cup {None}]
    BY <1>10 DEF SetHold, FiberStates
  <2> QED
    BY <1>10, <2>1 DEF SetHold, PCs
<1>11. CASE ThreadExit(w)
  BY <1>11 DEF ThreadExit, PCs
<1>12. CASE IdleIn(w)
  BY <1>12 DEF IdleIn, PCs
<1>13. CASE IdleOut(w)
  BY <1>13 DEF IdleOut, PCs
<1> QED
  BY <1>1, <1>2, <1>3, <1>4, <1>5, <1>6, <1>7, <1>8, <1>9, <1>10, <1>11, <1>12, <1>13
     DEF RunStep

LEMMA TypeBody ==
  ASSUME TypeInv, NEW w \in Threads, Idle(w) \/ Tickle(w) \/ Body(w)
  PROVE  TypeInv'
<1> USE DEF TypeInv, TypeOK, HasFiber, At, Goto, ctlVars, queueVars, countVars, fiberVars,
            threadVars, taskVars
<1>1. CASE Idle(w)
  BY <1>1 DEF Idle, Stopping, PCs
<1>2. CASE Tickle(w)
  BY <1>2 DEF Tickle
<1>3. ASSUME NEW st \in Dead, Finish(w, st)
      PROVE  TypeInv'
  <2>1. fstate' \in [Tasks -> FiberStates]
    BY <1>3 DEF Finish, FiberStates, Dead
  <2>2. prog' \in [Tasks -> Tasks \cup {None}]
    BY <1>3 DEF Finish
  <2>3. status' \in [Tasks -> {"new", "queued", "begun", "done"}]
    BY <1>3 DEF Finish
  <2> QED
    BY <1>3, <2>1, <2>2, <2>3 DEF Finish, PCs
<1>4. ASSUME NEW st \in FiberStates, At(w, "run") \/ At(w, "hold"), YieldTo(w, st),
             yields' \in [Tasks -> Nat]
      PROVE  TypeInv'
  BY <1>4 DEF YieldTo, PCs
<1>a. ASSUME At(w, "run"), MayYield(w), CountYield(w)
      PROVE  yields' \in [Tasks -> Nat]
  <2>1. prog[cur[w]] \in Tasks
    BY <1>a DEF MayYield
  <2> QED
    BY <1>a, <2>1 DEF CountYield
<1>5. CASE YieldToReady(w)
  <2>1. yields' \in [Tasks -> Nat]
    BY <1>a, <1>5 DEF YieldToReady
  <2> QED
    BY <1>4, <1>5, <2>1 DEF YieldToReady, FiberStates
<1>6. CASE YieldToHold(w)
  BY <1>4, <1>6 DEF YieldToHold, FiberStates
<1>7. CASE SwapOut(w)
  BY <1>7 DEF SwapOut, PCs
<1>8. ASSUME NEW thr \in Known(TaskPins), SwitchTo(w, thr)
      PROVE  TypeInv'
  <2>1. [kind |-> "fiber", item |-> cur[w], thr |-> thr] \in Entry
    BY <1>8, ThreadsAssumption DEF SwitchTo, Entry, Known
  <2>2. fibers' \in Seq(Entry) /\ toTickle' \in [Threads -> Nat]
    BY <1>8, <2>1, EnqueueType DEF SwitchTo
  <2>3. yields' \in [Tasks -> Nat]
    BY <1>a, <1>8 DEF SwitchTo
  <2> QED
    BY <1>8, <2>2, <2>3 DEF SwitchTo, PCs
<1>9. ASSUME NEW t \in Tasks, NEW kind \in Kinds, NEW thr \in Known(TaskPins), Spawn(w, t, kind, thr)
      PROVE  TypeInv'
  BY <1>9, SubmitType, ThreadsAssumption DEF Spawn, Known
<1> QED
  BY <1>1, <1>2, <1>3, <1>5, <1>6, <1>7, <1>8, <1>9 DEF Body

LEMMA TypeMain ==
  ASSUME TypeInv, Main
  PROVE  TypeInv'
<1> USE DEF TypeInv, TypeOK, HasFiber, MainAt, Goto, ctlVars, queueVars, countVars, fiberVars,
            threadVars, taskVars
<1>0. Caller \in Threads
  BY DEF Threads
<1>1. ASSUME NEW t \in Tasks, NEW kind \in Kinds, NEW thr \in Known(UserPins), UserSchedule(t, kind, thr)
      PROVE  TypeInv'
  BY <1>0, <1>1, SubmitType, ThreadsAssumption DEF UserSchedule, Known
<1>2. CASE Start
  BY <1>2 DEF Start, PCs
<1>3. CASE StopFlags
  <2>0. IsFiniteSet(shape.workers)
    BY ThreadsFinite, ThreadsAssumption, FS_Subset
  <2>1. Cardinality(shape.workers) + RootThreads \in Nat
    BY <2>0, FS_CardinalityType DEF RootThreads
  <2>2. toTickle' \in [Threads -> Nat]
    BY <1>3, <2>1 DEF StopFlags
  <2> QED
    BY <1>3, <2>2 DEF StopFlags
<1>4. CASE StopRoot
  <2>1. CASE shape.caller /\ ~Stopping
    <3>1. pc' = [pc EXCEPT ![Caller] = "pick"] /\ main' = "inroot"
      BY <1>4, <2>1 DEF StopRoot
    <3>2. pc' \in [Threads -> PCs]
      BY <1>0, <3>1 DEF PCs
    <3>3. \A w \in Threads : pc'[w] \in HasFiber => pc[w] \in HasFiber
      BY <1>0, <3>1
    <3> QED
      BY <1>4, <3>1, <3>2, <3>3 DEF StopRoot
  <2>2. CASE ~(shape.caller /\ ~Stopping)
    BY <1>4, <2>2 DEF StopRoot
  <2> QED
    BY <2>1, <2>2
<1>5. CASE RootReturns
  BY <1>5 DEF RootReturns
<1>6. CASE Join
  BY <1>6 DEF Join
<1> QED
  BY <1>1, <1>2, <1>3, <1>4, <1>5, <1>6 DEF Main, StopStep

LEMMA TypeStep == TypeInv /\ [Next]_vars => TypeInv'
<1> SUFFICES ASSUME TypeInv, [Next]_vars
             PROVE  TypeInv'
  OBVIOUS
<1>1. CASE UNCHANGED vars
  BY <1>1 DEF TypeInv, TypeOK, vars, ctlVars, queueVars, countVars, fiberVars,
              threadVars, taskVars
<1> QED
  BY <1>1, TypeRun, TypeBody, TypeMain DEF Next, ThreadStep

LEMMA TypeInvariant == Spec => []TypeInv
BY TypeInit, TypeStep, PTL DEF Spec

\* Whatever the tasks do, the state of the scheduler keeps its type; a thread
\* that handles a fiber's return, run() after swapIn(), has a fiber.
THEOREM TypeCorrect == Spec => []TypeOK
<1>1. TypeInv => TypeOK
  BY DEF TypeInv
<1> QED
  BY <1>1, TypeInvariant, PTL

-----------------------------------------------------------------------------
(* The two counters.  A step of thread w changes what w counts for, and the  *)
(* counters, and nothing that another thread counts for.                     *)

InIdle(w) == pc[w] \in {"idle", "idleout"}
Flying == {w \in Threads : InFlight(w)}
Idlers == {w \in Threads : InIdle(w)}

\* Before start() every thread is off; until stop() calls it the root fiber is.
OffInv ==
  /\ main = "user" /\ isStopping => \A w \in Threads : pc[w] = "off"
  /\ main \in {"user", "root"} => pc[Caller] = "off"

CountInv ==
  /\ active = Cardinality(Flying)
  /\ idle = Cardinality(Idlers)
  /\ OffInv

LEMMA CountInit == Init => CountInv
<1> SUFFICES ASSUME Init
             PROVE  CountInv
  OBVIOUS
<1>1. \A w \in Threads : pc[w] = "off"
  BY DEF Init
<1>2. Flying = {} /\ Idlers = {}
  BY <1>1 DEF Flying, Idlers, InFlight, InIdle
<1>3. Caller \in Threads
  BY DEF Threads
<1> QED
  BY <1>1, <1>2, <1>3, FS_EmptySet DEF Init, CountInv, OffInv

\* How the size of a set of threads changes with what one thread does.
LEMMA CardinalityByThread ==
  ASSUME NEW S \in SUBSET Threads, NEW T \in SUBSET Threads, NEW w \in Threads,
         \A v \in Threads \ {w} : v \in T <=> v \in S
  PROVE  /\ Cardinality(S) \in Nat /\ Cardinality(T) \in Nat
         /\ (w \in S <=> w \in T) => Cardinality(T) = Cardinality(S)
         /\ w \notin S /\ w \in T => Cardinality(T) = Cardinality(S) + 1
         /\ w \in S /\ w \notin T => Cardinality(T) = Cardinality(S) - 1
<1>1. IsFiniteSet(S) /\ IsFiniteSet(T)
  BY ThreadsFinite, FS_Subset
<1>2. Cardinality(S) \in Nat /\ Cardinality(T) \in Nat
  BY <1>1, FS_CardinalityType
<1>3. ASSUME w \in S <=> w \in T
      PROVE  Cardinality(T) = Cardinality(S)
  <2>1. S = T
    BY <1>3
  <2> QED
    BY <2>1
<1>4. ASSUME w \notin S, w \in T
      PROVE  Cardinality(T) = Cardinality(S) + 1
  <2>1. T = S \cup {w}
    BY <1>4
  <2> QED
    BY <1>1, <1>4, <2>1, FS_AddElement
<1>5. ASSUME w \in S, w \notin T
      PROVE  Cardinality(T) = Cardinality(S) - 1
  <2>1. T = S \ {w}
    BY <1>5
  <2> QED
    BY <1>1, <1>5, <2>1, FS_RemoveElement
<1> QED
  BY <1>2, <1>3, <1>4, <1>5

\* The counters stay right if w adjusts them by what it starts or stops doing.
LEMMA CountThread ==
  ASSUME CountInv, OffInv', NEW w \in Threads,
         \A v \in Threads \ {w} : pc'[v] = pc[v] /\ ft'[v] = ft[v],
         InFlight(w)' /\ ~InFlight(w) => active' = active + 1,
         InFlight(w) /\ ~InFlight(w)' => active' = active - 1,
         (InFlight(w)' <=> InFlight(w)) => active' = active,
         InIdle(w)' /\ ~InIdle(w) => idle' = idle + 1,
         InIdle(w) /\ ~InIdle(w)' => idle' = idle - 1,
         (InIdle(w)' <=> InIdle(w)) => idle' = idle
  PROVE  CountInv'
<1>1. \A v \in Threads \ {w} : (InFlight(v)' <=> InFlight(v)) /\ (InIdle(v)' <=> InIdle(v))
  BY DEF InFlight, InIdle
<1>2. Flying \in SUBSET Threads /\ Flying' \in SUBSET Threads
      /\ \A v \in Threads : (v \in Flying <=> InFlight(v)) /\ (v \in Flying' <=> InFlight(v)')
  BY DEF Flying
<1>3. Idlers \in SUBSET Threads /\ Idlers' \in SUBSET Threads
      /\ \A v \in Threads : (v \in Idlers <=> InIdle(v)) /\ (v \in Idlers' <=> InIdle(v)')
  BY DEF Idlers
<1>4. active' = Cardinality(Flying')
  BY <1>1, <1>2, CardinalityByThread DEF CountInv
<1>5. idle' = Cardinality(Idlers')
  BY <1>1, <1>3, CardinalityByThread DEF CountInv
<1> QED
  BY <1>4, <1>5 DEF CountInv

\* A thread moves itself only, and only when it has been started.
LEMMA ThreadFrame ==
  ASSUME TypeInv, NEW w \in Threads, ThreadStep(w)
  PROVE  /\ main' = main /\ isStopping' = isStopping
         /\ pc' = pc \/ pc[w] # "off"
         /\ \A v \in Threads \ {w} : pc'[v] = pc[v] /\ ft'[v] = ft[v]
<1> USE DEF TypeInv, TypeOK, At, Goto, ctlVars, threadVars
<1>1. CASE RunStep(w)
  BY <1>1 DEF RunStep, Pick, PickNothing, ResumeFiber, SkipDead, RunCallback, Ret,
              SettleReady, SettleDead, SettleOther, SetHold, ThreadExit, IdleIn, IdleOut, SwapIn
<1>2. CASE Idle(w) \/ Tickle(w)
  BY <1>2 DEF Idle, Tickle
<1>3. CASE Body(w)
  BY <1>3 DEF Body, Finish, YieldToReady, YieldToHold, YieldTo, SwapOut, SwitchTo, Spawn
<1> QED
  BY <1>1, <1>2, <1>3 DEF ThreadStep

LEMMA OffThread ==
  ASSUME TypeInv, OffInv, NEW w \in Threads, ThreadStep(w)
  PROVE  OffInv'
<1>1. Caller \in Threads
  BY DEF Threads
<1> QED
  BY <1>1, ThreadFrame DEF OffInv

LEMMA CountRun ==
  ASSUME TypeInv, CountInv, NEW w \in Threads, RunStep(w)
  PROVE  CountInv'
<1>0. OffInv' /\ \A v \in Threads \ {w} : pc'[v] = pc[v] /\ ft'[v] = ft[v]
  BY OffThread, ThreadFrame DEF ThreadStep, CountInv
<1> USE DEF TypeInv, TypeOK, HasFiber, At, Goto, ctlVars, countVars, threadVars, InFlight, InIdle
<1>a. NoEntry.kind = "none" /\ \A e \in Entry : e.kind # "none"
  BY DEF NoEntry, Entry
<1>1. CASE Pick(w)
  <2>1. ft'[w] \in Entry /\ pc'[w] = "dispatch" /\ active' = active + 1 /\ idle' = idle
        /\ pc[w] = "pick"
    BY <1>1 DEF Pick
  <2> QED
    BY <1>0, <1>a, <2>1, CountThread
<1>2. CASE PickNothing(w)
  <2>1. ft'[w] = NoEntry /\ pc'[w] = "dispatch" /\ active' = active /\ idle' = idle
        /\ pc[w] = "pick"
    BY <1>2 DEF PickNothing
  <2> QED
    BY <1>0, <2>1, CountThread
<1>3. CASE ResumeFiber(w)
  <2>1. ft[w] # NoEntry /\ pc[w] = "dispatch" /\ pc'[w] = "run" /\ active' = active
        /\ idle' = idle
    BY <1>3, <1>a DEF ResumeFiber, SwapIn
  <2> QED
    BY <1>0, <2>1, CountThread
<1>4. CASE SkipDead(w)
  <2>1. ft[w] # NoEntry /\ pc[w] = "dispatch" /\ pc'[w] = "pick" /\ active' = active - 1
        /\ idle' = idle
    BY <1>4, <1>a DEF SkipDead
  <2> QED
    BY <1>0, <2>1, CountThread
<1>5. CASE RunCallback(w)
  <2>1. ft[w] # NoEntry /\ pc[w] = "dispatch" /\ active' = active /\ idle' = idle
        /\ (pc'[w] = "run" \/ (pc' = pc /\ ft' = ft))
    BY <1>5, <1>a DEF RunCallback, SwapIn
  <2> QED
    BY <1>0, <2>1, CountThread
<1>6. CASE Ret(w)
  <2>1. pc[w] = "ret" /\ pc'[w] = "settle" /\ active' = active - 1 /\ idle' = idle
    BY <1>6 DEF Ret
  <2> QED
    BY <1>0, <2>1, CountThread
<1>7. CASE SettleReady(w) \/ SettleDead(w) \/ SettleOther(w) \/ SetHold(w)
  <2>1. pc[w] \in {"settle", "sethold"} /\ pc'[w] \in {"pick", "sethold"} /\ active' = active
        /\ idle' = idle
    BY <1>7 DEF SettleReady, SettleDead, SettleOther, SetHold
  <2> QED
    BY <1>0, <2>1, CountThread
<1>8. CASE ThreadExit(w)
  <2>1. ft[w] = NoEntry /\ pc[w] = "dispatch" /\ pc'[w] = "exit" /\ active' = active
        /\ idle' = idle
    BY <1>8 DEF ThreadExit
  <2> QED
    BY <1>0, <2>1, CountThread
<1>9. CASE IdleIn(w)
  <2>1. ft[w] = NoEntry /\ pc[w] = "dispatch" /\ pc'[w] = "idle" /\ active' = active
        /\ idle' = idle + 1
    BY <1>9 DEF IdleIn
  <2> QED
    BY <1>0, <2>1, CountThread
<1>10. CASE IdleOut(w)
  <2>1. pc[w] = "idleout" /\ pc'[w] = "pick" /\ active' = active /\ idle' = idle - 1
    BY <1>10 DEF IdleOut
  <2> QED
    BY <1>0, <2>1, CountThread
<1> QED
  BY <1>1, <1>2, <1>3, <1>4, <1>5, <1>6, <1>7, <1>8, <1>9, <1>10 DEF RunStep

\* Inside a task or the idle fiber a thread counts for what it did before.
LEMMA CountBody ==
  ASSUME TypeInv, CountInv, NEW w \in Threads, Idle(w) \/ Tickle(w) \/ Body(w)
  PROVE  CountInv'
<1>0. OffInv' /\ \A v \in Threads \ {w} : pc'[v] = pc[v] /\ ft'[v] = ft[v]
  BY OffThread, ThreadFrame DEF ThreadStep, CountInv
<1> USE DEF TypeInv, TypeOK, At, Goto, countVars, threadVars
<1>1. active' = active /\ idle' = idle /\ ft' = ft
  BY DEF Idle, Tickle, Body, Finish, YieldToReady, YieldToHold, YieldTo, SwapOut,
         SwitchTo, Spawn
<1>2. \/ pc' = pc
      \/ pc[w] = "idle" /\ pc'[w] = "idleout"
      \/ /\ pc[w] \in {"run", "hold", "swapout"}
         /\ pc'[w] \in {"hold", "swapout", "ret"}
  BY DEF Idle, Tickle, Body, Finish, YieldToReady, YieldToHold, YieldTo, SwapOut,
         SwitchTo, Spawn
<1> QED
  BY <1>0, <1>1, <1>2, CountThread DEF InFlight, InIdle

\* start() and stop() move threads that count for nothing.
LEMMA CountMain ==
  ASSUME TypeInv, CountInv, Main
  PROVE  CountInv'
<1> USE DEF TypeInv, TypeOK, MainAt, Goto, ctlVars, countVars, threadVars
<1>1. active' = active /\ idle' = idle /\ ft' = ft
  BY DEF Main, StopStep, UserSchedule, Start, StopFlags, StopRoot, RootReturns, Join
<1>2. \A w \in Threads : pc'[w] = pc[w] \/ (pc[w] = "off" /\ pc'[w] = "pick")
  BY DEF Main, StopStep, UserSchedule, Start, StopFlags, StopRoot, RootReturns, Join,
         CountInv, OffInv
<1>3. Flying' = Flying /\ Idlers' = Idlers
  BY <1>1, <1>2 DEF Flying, Idlers, InFlight, InIdle
<1>4. OffInv'
  BY ThreadsAssumption
     DEF Main, StopStep, UserSchedule, Start, StopFlags, StopRoot, RootReturns, Join,
         CountInv, OffInv, Threads
<1> QED
  BY <1>1, <1>3, <1>4 DEF CountInv

LEMMA CountStep == TypeInv /\ CountInv /\ [Next]_vars => CountInv'
<1> SUFFICES ASSUME TypeInv, CountInv, [Next]_vars
             PROVE  CountInv'
  OBVIOUS
<1>1. CASE UNCHANGED vars
  BY <1>1 DEF CountInv, OffInv, Flying, Idlers, InFlight, InIdle, vars, ctlVars,
              countVars, threadVars
<1> QED
  BY <1>1, CountRun, CountBody, CountMain DEF Next, ThreadStep

LEMMA CountInvariant == Spec => []CountInv
BY TypeInit, TypeStep, CountInit, CountStep, PTL DEF Spec

\* __active_thread_count is the number of threads that have taken a task and not
\* yet come back from it: every branch of run(), also for a task that throws,
\* holds or is already dead, pays back what the pick has added, once.
THEOREM ActiveCountExact == Spec => []ActiveIsInFlight
<1>1. CountInv => ActiveIsInFlight
  BY DEF CountInv, ActiveIsInFlight, Flying
<1> QED
  BY <1>1, CountInvariant, PTL

\* __idle_thread_count is the number of threads inside their idle fiber.
THEOREM IdleCountExact == Spec => []IdleIsIdling
<1>1. CountInv => IdleIsIdling
  BY DEF CountInv, IdleIsIdling, Idlers, InIdle
<1> QED
  BY <1>1, CountInvariant, PTL
-----------------------------------------------------------------------------
(* The queue as a set, whoever has put what into it.                       *)

Queue == {fibers[i] : i \in 1 .. Len(fibers)}

\* No callback is in the queue twice.
CbOnce == \A i, j \in 1 .. Len(fibers) :
  fibers[i].kind = "cb" /\ fibers[j].kind = "cb" /\ fibers[i].item = fibers[j].item => i = j

LEMMA RemoveSlots ==
  ASSUME NEW S, NEW s \in Seq(S), NEW i \in 1 .. Len(s), NEW t, t = RemoveAt(s, i)
  PROVE  /\ t \in Seq(S) /\ Len(t) = Len(s) - 1
         /\ \A k \in 1 .. Len(s) - 1 : t[k] = s[IF k < i THEN k ELSE k + 1]
<1> DEFINE n == Len(s)
           a == SubSeq(s, 1, i - 1)
           b == SubSeq(s, i + 1, n)
<1>0. n \in Nat
  OBVIOUS
<1>1. a \in Seq(S) /\ Len(a) = i - 1 /\ \A k \in 1 .. i - 1 : a[k] = s[k]
  BY <1>0, SubSeqProperties
<1>2. b \in Seq(S) /\ Len(b) = n - i /\ \A k \in 1 .. n - i : b[k] = s[i + k]
  BY <1>0, SubSeqProperties
<1>3. t = a \o b
  BY DEF RemoveAt
<1> HIDE DEF a, b
<1>4. /\ a \o b \in Seq(S) /\ Len(a \o b) = Len(a) + Len(b)
      /\ \A k \in 1 .. Len(a) + Len(b) :
           (a \o b)[k] = IF k <= Len(a) THEN a[k] ELSE b[k - Len(a)]
  BY <1>1, <1>2, ConcatProperties
<1>5. ASSUME NEW k \in 1 .. n - 1
      PROVE  t[k] = s[IF k < i THEN k ELSE k + 1]
  <2>1. k \in 1 .. Len(a) + Len(b)
    BY <1>0, <1>1, <1>2
  <2>2. t[k] = IF k <= Len(a) THEN a[k] ELSE b[k - Len(a)]
    BY <1>3, <1>4, <2>1
  <2>3. CASE k < i
    BY <1>0, <1>1, <2>2, <2>3
  <2>4. CASE k >= i
    <3>1. ~(k <= Len(a)) /\ k - Len(a) \in 1 .. n - i /\ i + (k - Len(a)) = k + 1
      BY <1>0, <1>1, <2>4
    <3>2. b[k - Len(a)] = s[i + (k - Len(a))]
      BY <1>2, <3>1
    <3> QED
      BY <2>2, <2>4, <3>1, <3>2
  <2> QED
    BY <1>0, <2>3, <2>4
<1>6. Len(t) = n - 1
  BY <1>0, <1>1, <1>2, <1>3, <1>4
<1> QED
  BY <1>3, <1>4, <1>5, <1>6

LEMMA Appended ==
  ASSUME fibers \in Seq(Entry), NEW e \in Entry, fibers' = Append(fibers, e), CbOnce,
         e.kind = "cb" => \A x \in Queue : x.kind = "cb" => x.item # e.item
  PROVE  fibers' \in Seq(Entry) /\ Queue' = Queue \cup {e} /\ CbOnce'
<1>1. /\ Len(fibers') = Len(fibers) + 1 /\ Len(fibers) \in Nat
      /\ \A i \in 1 .. Len(fibers) : fibers'[i] = fibers[i] /\ fibers[i] \in Queue
      /\ fibers'[Len(fibers) + 1] = e
  BY AppendProperties DEF Queue
<1>2. Queue' = Queue \cup {e}
  <2>1. \A i \in 1 .. Len(fibers') : fibers'[i] \in Queue \cup {e}
    BY <1>1
  <2>2. \A x \in Queue : \E i \in 1 .. Len(fibers) : x = fibers[i]
    BY DEF Queue
  <2>3. \A x \in Queue \cup {e} : \E i \in 1 .. Len(fibers') : x = fibers'[i]
    BY <1>1, <2>2
  <2>4. Queue' = {fibers'[i] : i \in 1 .. Len(fibers')}
    BY DEF Queue
  <2> HIDE DEF Queue
  <2> QED
    BY <2>1, <2>3, <2>4
<1>3. ASSUME NEW i \in 1 .. Len(fibers'), NEW j \in 1 .. Len(fibers'),
             fibers'[i].kind = "cb", fibers'[j].kind = "cb", fibers'[i].item = fibers'[j].item
      PROVE  i = j
  <2>1. CASE i \in 1 .. Len(fibers) /\ j \in 1 .. Len(fibers)
    BY <1>1, <1>3, <2>1 DEF CbOnce
  <2>2. CASE i = Len(fibers) + 1 \/ j = Len(fibers) + 1
    BY <1>1, <1>3, <2>2
  <2> QED
    BY <1>1, <2>1, <2>2
<1> QED
  BY <1>2, <1>3, AppendProperties DEF CbOnce

LEMMA Removed ==
  ASSUME fibers \in Seq(Entry), NEW i \in 1 .. Len(fibers), fibers' = RemoveAt(fibers, i), CbOnce
  PROVE  /\ fibers' \in Seq(Entry) /\ CbOnce'
         /\ fibers[i] \in Queue /\ Queue = Queue' \cup {fibers[i]}
         /\ fibers[i].kind = "cb" => \A e \in Queue' : e.kind = "cb" => e.item # fibers[i].item
<1> DEFINE n == Len(fibers)
           at(k) == IF k < i THEN k ELSE k + 1
<1>0. n \in Nat /\ i \in 1 .. n
  OBVIOUS
<1>1. fibers' \in Seq(Entry) /\ Len(fibers') = n - 1 /\ \A k \in 1 .. n - 1 : fibers'[k] = fibers[at(k)]
  BY RemoveSlots
<1>2. /\ \A k \in 1 .. n - 1 : at(k) \in 1 .. n /\ at(k) # i
      /\ \A k, l \in 1 .. n - 1 : at(k) = at(l) => k = l
  BY <1>0
<1>3. \A k \in 1 .. n : k # i => \E l \in 1 .. n - 1 : at(l) = k
  <2>1. ASSUME NEW k \in 1 .. n, k < i
        PROVE  k \in 1 .. n - 1 /\ at(k) = k
    BY <1>0, <2>1
  <2>2. ASSUME NEW k \in 1 .. n, k > i
        PROVE  k - 1 \in 1 .. n - 1 /\ at(k - 1) = k
    BY <1>0, <2>2
  <2>3. \A k \in 1 .. n : k = i \/ k < i \/ k > i
    BY <1>0
  <2> HIDE DEF at
  <2> QED
    BY <2>1, <2>2, <2>3
<1> HIDE DEF at
<1>4. \A e \in Queue' : \E k \in 1 .. n : k # i /\ e = fibers[k]
  <2>1. \A e \in Queue' : \E k \in 1 .. n - 1 : e = fibers'[k]
    BY <1>1 DEF Queue
  <2> QED
    BY <1>1, <1>2, <2>1
<1>5. ASSUME NEW k \in 1 .. n, k # i
      PROVE  fibers[k] \in Queue'
  <2>1. PICK l \in 1 .. n - 1 : at(l) = k
    BY <1>3, <1>5
  <2>2. fibers'[l] = fibers[k] /\ l \in 1 .. Len(fibers')
    BY <1>1, <2>1
  <2> QED
    BY <2>2 DEF Queue
<1>6. CbOnce'
  <2> SUFFICES ASSUME NEW k \in 1 .. n - 1, NEW l \in 1 .. n - 1,
                      fibers'[k].kind = "cb", fibers'[l].kind = "cb", fibers'[k].item = fibers'[l].item
               PROVE  k = l
    BY <1>1 DEF CbOnce
  <2>1. at(k) = at(l)
    BY <1>1, <1>2 DEF CbOnce
  <2> QED
    BY <1>2, <2>1
<1>7. Queue = Queue' \cup {fibers[i]}
  <2>1. \A e \in Queue : \E k \in 1 .. n : e = fibers[k]
    BY DEF Queue
  <2>2. \A k \in 1 .. n : fibers[k] \in Queue
    BY DEF Queue
  <2>3. ASSUME NEW e \in Queue
        PROVE  e \in Queue' \cup {fibers[i]}
    BY <1>5, <2>1
  <2>4. ASSUME NEW e \in Queue' \cup {fibers[i]}
        PROVE  e \in Queue
    BY <1>0, <1>4, <2>2
  <2> QED
    BY <2>3, <2>4
<1>8. fibers[i].kind = "cb" => \A e \in Queue' : e.kind = "cb" => e.item # fibers[i].item
  BY <1>4 DEF CbOnce
<1> QED
  BY <1>1, <1>6, <1>7, <1>8 DEF Queue

-----------------------------------------------------------------------------
(* One thread runs the loop.  A fiber may then be scheduled before it      *)
(* holds, and a derived scheduler may keep tasks of its own (kept) and     *)
(* fibers that wait for something (out); it has further places in idle(),  *)
(* and in a running task, so that the invariant asks where a fiber is and  *)
(* not where the thread is.                                                *)

\* The fiber the thread is in has been left, or is being left, for run().
OffStack == {"swapout", "ret", "settle", "sethold"}

SoloTypes ==
  /\ fibers \in Seq(Entry) /\ DOMAIN pc = Threads
  /\ ft \in [Threads -> Entry \cup {NoEntry}]
  /\ cur \in [Threads -> Tasks \cup {None}] /\ cbFiber \in [Threads -> Tasks \cup {None}]
  /\ fstate \in [Tasks -> FiberStates] /\ prog \in [Tasks -> Tasks \cup {None}]
  /\ status \in [Tasks -> {"new", "queued", "begun", "done"}]

\* What the thread w has in its hands; the others have nothing.
SoloThread(w) ==
  /\ \A u \in Threads \ {w} : pc[u] = "off" /\ cur[u] = None /\ ft[u] = NoEntry
  /\ pc[w] \in HasFiber => cur[w] # None
  /\ pc[w] \in PCs \ HasFiber => cur[w] = None
  /\ cur[w] # None => \/ ft[w] = NoEntry /\ cbFiber[w] = cur[w]
                      \/ ft[w].kind = "fiber" /\ ft[w].item = cur[w]
  /\ pc[w] = "pick" /\ ft[w] # NoEntry => ft[w].kind = "fiber" /\ fstate[ft[w].item] \in Dead
  /\ cur[w] = None /\ pc[w] \notin {"pick", "dispatch"} => ft[w] = NoEntry

\* The fiber that runs is EXEC and no other; a cb_fiber not in use has no task.
SoloStates(w) ==
  /\ \A f \in Tasks : fstate[f] = "EXEC" <=> cur[w] = f /\ pc[w] \notin OffStack
  /\ pc[w] \in OffStack => fstate[cur[w]] \in Dead \cup {"READY", "HOLD"}
  /\ pc[w] = "sethold" => fstate[cur[w]] = "HOLD"
  /\ pc[w] = "hold" \/ (pc[w] \in OffStack /\ fstate[cur[w]] \notin Dead) => prog[cur[w]] # None
  /\ cbFiber[w] # None /\ (cur[w] = None \/ ft[w] # NoEntry) =>
       /\ prog[cbFiber[w]] = None
       /\ cur[w] # cbFiber[w] => fstate[cbFiber[w]] \in Dead \cup {"INIT"}

\* A callback nobody has begun: no fiber is named after it.
Fresh(t) == status[t] = "queued" /\ fstate[t] = "NONE"

SoloPrograms == \A f \in Tasks : prog[f] # None =>
  /\ fstate[f] # "NONE" /\ status[prog[f]] # "new"
  /\ status[prog[f]] = "queued" => f = prog[f]
  /\ fstate[f] = "INIT" <=> status[prog[f]] = "queued"
  /\ fstate[f] \in Dead => status[prog[f]] = "done"

\* Callbacks are in one place, and what names a fiber names one that exists.
SoloPlaces(w, out, kept) ==
  /\ \A t \in Tasks : status[t] = "new" => fstate[t] = "NONE"
  /\ CbOnce
  /\ \A e \in Queue : IF e.kind = "cb" THEN Fresh(e.item) /\ e.item \notin kept
                      ELSE fstate[e.item] # "NONE"
  /\ ft[w].kind = "cb" => /\ Fresh(ft[w].item) /\ ft[w].item \notin kept
                          /\ \A e \in Queue : e.kind = "cb" => e.item # ft[w].item
  /\ ft[w].kind = "fiber" => fstate[ft[w].item] # "NONE"
  /\ cur[w] # None => fstate[cur[w]] # "NONE"
  /\ cbFiber[w] # None => fstate[cbFiber[w]] # "NONE"
  /\ \A f \in out : f \in Tasks /\ fstate[f] # "NONE"
  /\ \A t \in kept : t \in Tasks /\ Fresh(t)

\* An entry, or a fiber, is there for task t.
For(e, t) == (e.kind = "cb" /\ e.item = t) \/ (e.kind = "fiber" /\ prog[e.item] = t)

SoloHas(w, out, kept, t) ==
  \/ \E e \in Queue : For(e, t)
  \/ For(ft[w], t) \/ (cur[w] # None /\ prog[cur[w]] = t)
  \/ t \in kept \/ \E f \in out : prog[f] = t

\* A fiber that holds has been put where it will be found, and nobody is lost.
SoloKeeps(w, out, kept) ==
  /\ pc[w] = "hold" \/ (pc[w] \in OffStack /\ fstate[cur[w]] = "HOLD") =>
       cur[w] \in out \/ \E e \in Queue : e.kind = "fiber" /\ e.item = cur[w]
  /\ \A t \in Tasks : status[t] \in {"queued", "begun"} => SoloHas(w, out, kept, t)

SoloInv(w, out, kept) ==
  /\ fault = "none"
  /\ SoloTypes /\ SoloThread(w) /\ SoloStates(w) /\ SoloPrograms
  /\ SoloPlaces(w, out, kept) /\ SoloKeeps(w, out, kept)

LEMMA EntryKinds ==
  /\ NoEntry.kind = "none" /\ NoEntry.item = None /\ NoEntry \notin Entry /\ None \notin Tasks
  /\ \A e \in Entry : e.kind \in {"cb", "fiber"} /\ e.item \in Tasks /\ e # NoEntry
BY ThreadsAssumption DEF NoEntry, Entry

LEMMA QueueEntries == ASSUME SoloTypes PROVE Queue \subseteq Entry
BY DEF SoloTypes, Queue

\* A step that changes nothing but where the thread is.
LEMMA SoloQuiet ==
  ASSUME NEW w \in Threads, NEW out, NEW kept, SoloInv(w, out, kept), NEW l,
         pc' = [pc EXCEPT ![w] = l], fault' = "none",
         UNCHANGED <<fibers, fiberVars, ft, cur, cbFiber, status>>,
         \/ l \in PCs \ (HasFiber \cup {"pick"}) /\ cur[w] = None /\ (l = "dispatch" \/ ft[w] = NoEntry)
         \/ l \notin PCs /\ cur[w] = None /\ ft[w] = NoEntry
         \/ l = "pick" /\ cur[w] = None /\ (ft[w] = NoEntry \/ (ft[w].kind = "fiber" /\ fstate[ft[w].item] \in Dead))
         \/ l \in {"ret", "settle"} /\ pc[w] \in OffStack
         \/ l = "sethold" /\ pc[w] \in OffStack /\ fstate[cur[w]] = "HOLD"
         \/ (l = "run" \/ l \notin PCs) /\ cur[w] # None /\ pc[w] \notin OffStack
         \/ l = pc[w]
  PROVE  SoloInv(w, out, kept)'
<1>0. OffStack \subseteq HasFiber /\ HasFiber \subseteq PCs
  BY DEF OffStack, HasFiber, PCs
<1>1. SoloTypes' /\ Queue' = Queue
  BY DEF SoloInv, SoloTypes, fiberVars, Queue
<1>2. SoloThread(w)' /\ SoloStates(w)'
  BY <1>0 DEF SoloInv, SoloTypes, SoloThread, SoloStates, fiberVars, PCs, HasFiber, OffStack
<1>3. SoloPrograms'
  BY DEF SoloInv, SoloPrograms, fiberVars
<1>4. SoloPlaces(w, out, kept)'
  BY <1>1 DEF SoloInv, SoloPlaces, Fresh, CbOnce, fiberVars
<1>5. SoloKeeps(w, out, kept)'
  BY <1>0, <1>1 DEF SoloInv, SoloTypes, SoloStates, SoloThread, SoloKeeps, SoloHas, For, fiberVars, PCs, HasFiber, OffStack
<1> QED
  BY <1>1, <1>2, <1>3, <1>4, <1>5 DEF SoloInv


\* What a change of one value of a function leaves.
LEMMA Put ==
  ASSUME NEW D, NEW S, NEW h \in [D -> S], NEW d \in D, NEW v \in S, NEW g, g = [h EXCEPT ![d] = v]
  PROVE  g \in [D -> S] /\ g[d] = v /\ \A u \in D \ {d} : g[u] = h[u]
OBVIOUS

\* What run() still has from a fiber it has dropped is for nobody.
LEMMA StaleEntry ==
  ASSUME SoloTypes, NEW w \in Threads, SoloThread(w), SoloPrograms, pc[w] = "pick",
         NEW t \in Tasks, status[t] \in {"queued", "begun"}
  PROVE  ~For(ft[w], t)
<1>1. CASE ft[w] = NoEntry
  BY <1>1, EntryKinds DEF For
<1>2. CASE ft[w] # NoEntry
  <2>1. ft[w].kind = "fiber" /\ fstate[ft[w].item] \in Dead /\ ft[w].item \in Tasks
    BY <1>2, EntryKinds DEF SoloThread, SoloTypes
  <2>2. prog[ft[w].item] # None => status[prog[ft[w].item]] = "done"
    BY <2>1 DEF SoloPrograms
  <2> QED
    BY <2>1, <2>2, EntryKinds DEF For
<1> QED
  BY <1>1, <1>2

LEMMA SoloPick ==
  ASSUME NEW w \in Threads, NEW out, NEW kept, SoloInv(w, out, kept), Pick(w) \/ PickNothing(w)
  PROVE  SoloInv(w, out, kept)'
<1>0. SoloTypes /\ cur[w] = None /\ pc[w] = "pick"
  BY DEF SoloInv, SoloThread, Pick, PickNothing, At, PCs, HasFiber
<1>1. CASE Pick(w)
  <2>1. PICK i \in 1 .. Len(fibers) : ft' = [ft EXCEPT ![w] = fibers[i]] /\ fibers' = RemoveAt(fibers, i)
    BY <1>1 DEF Pick
  <2>2. /\ pc' = [pc EXCEPT ![w] = "dispatch"] /\ fault' = "none"
        /\ UNCHANGED <<fiberVars, cur, cbFiber, status>>
    BY <1>1 DEF Pick, At, Goto, taskVars
  <2>3. /\ fibers' \in Seq(Entry) /\ CbOnce'
        /\ fibers[i] \in Queue /\ Queue = Queue' \cup {fibers[i]}
        /\ fibers[i].kind = "cb" => \A e \in Queue' : e.kind = "cb" => e.item # fibers[i].item
    BY <1>0, <2>1, Removed DEF SoloTypes, SoloInv, SoloPlaces
  <2>a. fibers[i] \in Entry
    BY <1>0, <2>3, QueueEntries
  <2>4. fibers[i] \in Entry /\ ft'[w] = fibers[i] /\ \A u \in Threads \ {w} : ft'[u] = ft[u] /\ pc'[u] = pc[u]
    <3>1. ft \in [Threads -> Entry \cup {NoEntry}] /\ DOMAIN pc = Threads
      BY <1>0 DEF SoloTypes
    <3>2. ft'[w] = fibers[i] /\ \A u \in Threads \ {w} : ft'[u] = ft[u]
      BY <3>1, <2>a, <2>1, Put
    <3>3. \A u \in Threads \ {w} : pc'[u] = pc[u]
      BY <3>1, <2>2
    <3> QED
      BY <2>a, <3>2, <3>3
  <2>5. SoloTypes' /\ pc'[w] = "dispatch"
    BY <1>0, <2>1, <2>2, <2>3, <2>4 DEF SoloTypes, fiberVars
  <2>6. SoloThread(w)' /\ SoloStates(w)'
    BY <1>0, <2>2, <2>4, <2>5 DEF SoloInv, SoloThread, SoloStates, fiberVars, PCs, HasFiber, OffStack
  <2>7. SoloPrograms' /\ SoloPlaces(w, out, kept)'
    BY <1>0, <2>2, <2>3, <2>4, EntryKinds DEF SoloInv, SoloPrograms, SoloPlaces, Fresh, fiberVars
  <2>8. SoloKeeps(w, out, kept)'
    <3>1. ASSUME NEW t \in Tasks, status[t] \in {"queued", "begun"}
          PROVE  SoloHas(w, out, kept, t)'
      <4>1. SoloHas(w, out, kept, t)
        BY <3>1 DEF SoloInv, SoloKeeps
      <4>2. ~For(ft[w], t)
        BY <1>0, <3>1, StaleEntry DEF SoloInv
      <4> QED
        BY <2>2, <2>3, <2>4, <4>1, <4>2 DEF SoloHas, For, fiberVars
    <3> QED
      BY <2>2, <2>5, <3>1 DEF SoloKeeps, OffStack
  <2> QED
    BY <2>2, <2>5, <2>6, <2>7, <2>8 DEF SoloInv
<1>2. CASE PickNothing(w)
  <2>1. /\ pc' = [pc EXCEPT ![w] = "dispatch"] /\ fault' = "none" /\ ft' = [ft EXCEPT ![w] = NoEntry]
        /\ UNCHANGED <<fibers, fiberVars, cur, cbFiber, status>>
    BY <1>2 DEF PickNothing, At, Goto, taskVars
  <2>2. /\ SoloTypes' /\ Queue' = Queue /\ ft'[w] = NoEntry /\ pc'[w] = "dispatch"
        /\ \A u \in Threads \ {w} : ft'[u] = ft[u] /\ pc'[u] = pc[u]
    <3>1. ft \in [Threads -> Entry \cup {NoEntry}] /\ DOMAIN pc = Threads
      BY <1>0 DEF SoloTypes
    <3>2. ft' \in [Threads -> Entry \cup {NoEntry}] /\ ft'[w] = NoEntry /\ \A u \in Threads \ {w} : ft'[u] = ft[u]
      BY <3>1, <2>1, Put
    <3>3. DOMAIN pc' = Threads /\ pc'[w] = "dispatch" /\ \A u \in Threads \ {w} : pc'[u] = pc[u]
      BY <3>1, <2>1
    <3> QED
      BY <1>0, <2>1, <3>2, <3>3 DEF SoloTypes, fiberVars, Queue
  <2>3. SoloThread(w)' /\ SoloStates(w)'
    BY <1>0, <2>1, <2>2 DEF SoloInv, SoloThread, SoloStates, fiberVars, PCs, HasFiber, OffStack
  <2>4. SoloPrograms' /\ SoloPlaces(w, out, kept)'
    BY <1>0, <2>1, <2>2, EntryKinds DEF SoloInv, SoloPrograms, SoloPlaces, Fresh, CbOnce, fiberVars
  <2>5. SoloKeeps(w, out, kept)'
    <3>1. ASSUME NEW t \in Tasks, status[t] \in {"queued", "begun"}
          PROVE  SoloHas(w, out, kept, t)'
      <4>1. SoloHas(w, out, kept, t)
        BY <3>1 DEF SoloInv, SoloKeeps
      <4>2. ~For(ft[w], t)
        BY <1>0, <3>1, StaleEntry DEF SoloInv
      <4> QED
        BY <2>1, <2>2, <4>1, <4>2 DEF SoloHas, For, fiberVars
    <3> QED
      BY <2>1, <2>2, <3>1 DEF SoloKeeps, OffStack
  <2> QED
    BY <2>1, <2>2, <2>3, <2>4, <2>5 DEF SoloInv
<1> QED
  BY <1>1, <1>2

LEMMA SoloResume ==
  ASSUME NEW w \in Threads, NEW out, NEW kept, SoloInv(w, out, kept), ResumeFiber(w)
  PROVE  SoloInv(w, out, kept)'
<1> DEFINE f == ft[w].item
<1>0. /\ SoloTypes /\ cur[w] = None /\ pc[w] = "dispatch" /\ ft[w].kind = "fiber" /\ f \in Tasks
      /\ fstate[f] \notin Dead
  BY EntryKinds DEF SoloInv, SoloTypes, SoloThread, ResumeFiber, At, PCs, HasFiber
<1>1. /\ fstate' = [fstate EXCEPT ![f] = "EXEC"] /\ cur' = [cur EXCEPT ![w] = f]
      /\ pc' = [pc EXCEPT ![w] = "run"]
      /\ fault' = (IF fstate[f] = "EXEC" THEN "assert" ELSE IF OnStack(f) THEN "stack" ELSE "none")
      /\ status' = (IF fstate[f] = "INIT" /\ prog[f] # None THEN [status EXCEPT ![prog[f]] = "begun"] ELSE status)
      /\ UNCHANGED <<fibers, prog, ft, cbFiber>>
  <2>1. SwapIn(w, f, fstate[f]) /\ UNCHANGED <<fibers, prog, ft, cbFiber>>
    BY DEF ResumeFiber, queueVars
  <2>2. status' = (IF fstate[f] = "INIT" /\ prog[f] # None THEN [status EXCEPT ![prog[f]] = "begun"] ELSE status)
    BY DEF ResumeFiber, Begin
  <2> HIDE DEF f
  <2> QED
    BY <2>1, <2>2 DEF SwapIn, Goto
<1>a. ft[w].kind = "fiber" /\ ft[w].item = f /\ f # None
  BY <1>0, EntryKinds
<1>2. fstate[f] # "EXEC" /\ ~OnStack(f)
  BY <1>0, EntryKinds DEF SoloInv, SoloThread, SoloStates, OnStack
<1> HIDE DEF f
<1>3. /\ SoloTypes' /\ Queue' = Queue /\ fault' = "none" /\ cur'[w] = f /\ pc'[w] = "run"
      /\ \A u \in Threads \ {w} : cur'[u] = cur[u] /\ pc'[u] = pc[u]
      /\ \A g \in Tasks : fstate'[g] = IF g = f THEN "EXEC" ELSE fstate[g]
  <2>1. /\ DOMAIN pc = Threads /\ cur \in [Threads -> Tasks \cup {None}]
        /\ fstate \in [Tasks -> FiberStates] /\ prog \in [Tasks -> Tasks \cup {None}]
        /\ status \in [Tasks -> {"new", "queued", "begun", "done"}]
    BY <1>0 DEF SoloTypes
  <2>2. DOMAIN pc' = Threads /\ pc'[w] = "run" /\ \A u \in Threads \ {w} : pc'[u] = pc[u]
    BY <2>1, <1>1
  <2>3. cur' \in [Threads -> Tasks \cup {None}] /\ cur'[w] = f /\ \A u \in Threads \ {w} : cur'[u] = cur[u]
    BY <2>1, <1>0, <1>1, Put
  <2>4. "EXEC" \in FiberStates
    BY DEF FiberStates
  <2>5. fstate' \in [Tasks -> FiberStates] /\ fstate'[f] = "EXEC" /\ \A g \in Tasks \ {f} : fstate'[g] = fstate[g]
    BY <2>1, <2>4, <1>0, <1>1, Put
  <2>6. status' \in [Tasks -> {"new", "queued", "begun", "done"}]
    <3>1. prog[f] # None => prog[f] \in Tasks
      BY <2>1, <1>0
    <3> QED
      BY <3>1, <2>1, <1>1
  <2> QED
    BY <1>0, <1>1, <1>2, <2>2, <2>3, <2>5, <2>6 DEF SoloTypes, Queue
<1>4. \A t \in Tasks : status'[t] = status[t] \/ (status'[t] = "begun" /\ t = prog[f])
  <2>1. prog[f] # None => prog[f] \in Tasks
    BY <1>0 DEF SoloTypes
  <2>2. status \in [Tasks -> {"new", "queued", "begun", "done"}]
    BY <1>0 DEF SoloTypes
  <2> QED
    BY <1>1, <2>1, <2>2
<1>5. SoloThread(w)'
  <2>1. ft' = ft /\ ft'[w].kind = "fiber" /\ ft'[w].item = f /\ "run" \in HasFiber
    BY <1>1, <1>a DEF HasFiber
  <2> QED
    BY <1>3, <1>a, <2>1 DEF SoloInv, SoloThread
<1>6. SoloStates(w)'
  <2>1. ft' = ft /\ cbFiber' = cbFiber /\ prog' = prog /\ pc'[w] \notin OffStack
    BY <1>1, <1>3 DEF OffStack
  <2>2. \A g \in Tasks : fstate[g] # "EXEC"
    BY <1>0, EntryKinds DEF SoloInv, SoloStates
  <2>3. cbFiber[w] # None => cbFiber[w] \in Tasks
    BY <1>0 DEF SoloTypes
  <2>4. cbFiber[w] # None => prog[cbFiber[w]] = None /\ fstate[cbFiber[w]] \in Dead \cup {"INIT"}
    BY <1>0 DEF SoloInv, SoloStates
  <2>5. cbFiber[w] # None /\ f # cbFiber[w] => fstate'[cbFiber[w]] \in Dead \cup {"INIT"}
    BY <1>3, <2>3, <2>4
  <2> QED
    BY <1>3, <2>1, <2>2, <2>4, <2>5 DEF SoloStates, OffStack
<1>7. SoloPrograms'
  <2>1. fstate[f] # "NONE"
    BY <1>0, <1>a DEF SoloInv, SoloPlaces
  <2>2. ASSUME NEW g \in Tasks, prog[g] # None
        PROVE  /\ fstate'[g] # "NONE" /\ status'[prog[g]] # "new"
               /\ status'[prog[g]] = "queued" => g = prog[g]
               /\ fstate'[g] = "INIT" <=> status'[prog[g]] = "queued"
               /\ fstate'[g] \in Dead => status'[prog[g]] = "done"
    <3>1. prog[g] \in Tasks
      BY <1>0, <2>2 DEF SoloTypes
    <3>2. status'[prog[g]] = status[prog[g]] \/ status'[prog[g]] = "begun"
      BY <1>4, <3>1
    <3>3. fstate'[g] \in Dead \cup {"INIT"} => fstate'[g] = fstate[g] /\ g # f
      BY <1>3 DEF Dead
    <3>4. status'[prog[g]] # status[prog[g]] => prog[g] = prog[f] /\ status[prog[f]] = "queued" /\ f = prog[f]
      BY <1>0, <1>1, <1>4, <3>1, <2>2 DEF SoloInv, SoloPrograms
    <3>5. status'[prog[g]] # status[prog[g]] => g = f
      BY <2>2, <3>4 DEF SoloInv, SoloPrograms
    <3>6. fstate[f] = "INIT" => status'[prog[f]] = "begun" \/ prog[f] = None
      BY <1>0, <1>1, <3>1 DEF SoloInv, SoloPrograms, SoloTypes
    <3>7. g = f => status'[prog[g]] # "queued" /\ fstate'[g] # "INIT"
      BY <1>0, <1>3, <2>2, <3>2, <3>6 DEF SoloInv, SoloPrograms
    <3> QED
      BY <1>0, <1>3, <2>1, <2>2, <3>2, <3>3, <3>5, <3>7 DEF SoloInv, SoloPrograms
  <2>3. prog' = prog
    BY <1>1
  <2> QED
    BY <2>2, <2>3 DEF SoloPrograms
<1>8. SoloPlaces(w, out, kept)'
  <2>1. ASSUME NEW t \in Tasks, Fresh(t)
        PROVE  Fresh(t)' /\ t # f
    <3>1. t # f
      BY <1>0, <2>1, <1>a DEF SoloInv, SoloPlaces, Fresh
    <3>2. status'[t] = status[t]
      BY <1>0, <1>1, <1>4, <2>1, <3>1 DEF SoloInv, SoloPrograms, Fresh
    <3> QED
      BY <1>3, <2>1, <3>1, <3>2 DEF Fresh
  <2>2. ft' = ft /\ fibers' = fibers /\ CbOnce' /\ cbFiber' = cbFiber
    BY <1>1 DEF SoloInv, SoloPlaces, CbOnce
  <2>3. \A g \in Tasks : fstate[g] # "NONE" => fstate'[g] # "NONE"
    BY <1>3
  <2>4. \A t \in Tasks : status'[t] = "new" => fstate'[t] = "NONE"
    BY <1>0, <1>3, <1>4, <1>a DEF SoloInv, SoloPlaces
  <2>5. \A e \in Queue : e.item \in Tasks
    BY <1>0, QueueEntries, EntryKinds
  <2>6. /\ cbFiber[w] # None => cbFiber[w] \in Tasks
    BY <1>0 DEF SoloTypes
  <2>7. /\ \A e \in Queue : IF e.kind = "cb" THEN Fresh(e.item)' /\ e.item \notin kept
                            ELSE fstate'[e.item] # "NONE"
        /\ \A t \in kept : t \in Tasks /\ Fresh(t)'
    BY <2>1, <2>3, <2>5 DEF SoloInv, SoloPlaces
  <2>8. /\ \A g \in out : g \in Tasks /\ fstate'[g] # "NONE"
        /\ cbFiber[w] # None => fstate'[cbFiber[w]] # "NONE"
        /\ fstate'[f] # "NONE"
    BY <1>0, <1>3, <2>3, <2>6 DEF SoloInv, SoloPlaces
  <2> QED
    BY <1>3, <1>a, <2>2, <2>4, <2>7, <2>8 DEF SoloPlaces
<1>9. SoloKeeps(w, out, kept)'
  <2>1. \A t \in Tasks : SoloHas(w, out, kept, t) => SoloHas(w, out, kept, t)'
    BY <1>0, <1>1, <1>3, EntryKinds DEF SoloHas, For
  <2>2. \A t \in Tasks : status'[t] \in {"queued", "begun"} => status[t] \in {"queued", "begun"} \/ t = prog[f]
    BY <1>4
  <2>4. pc'[w] = "run" /\ ft' = ft /\ prog' = prog
    BY <1>1, <1>3
  <2>5. ASSUME NEW t \in Tasks, t = prog[f]
        PROVE  SoloHas(w, out, kept, t)'
    BY <1>a, <2>4, <2>5 DEF SoloHas, For
  <2> QED
    BY <2>1, <2>2, <2>4, <2>5 DEF SoloInv, SoloKeeps, OffStack
<1> QED
  BY <1>3, <1>5, <1>6, <1>7, <1>8, <1>9 DEF SoloInv

LEMMA SoloCallback ==
  ASSUME NEW w \in Threads, NEW out, NEW kept, SoloInv(w, out, kept), RunCallback(w)
  PROVE  SoloInv(w, out, kept)'
<1>1. PICK t, f : t = ft[w].item /\ f = IF cbFiber[w] = None THEN t ELSE cbFiber[w]
  OBVIOUS
<1>0. /\ SoloTypes /\ cur[w] = None /\ pc[w] = "dispatch" /\ ft[w].kind = "cb" /\ t \in Tasks
      /\ f \in Tasks /\ f # None /\ t # None
  BY <1>1, EntryKinds DEF SoloInv, SoloTypes, SoloThread, RunCallback, At, PCs, HasFiber
<1>2. /\ status[t] = "queued" /\ fstate[t] = "NONE" /\ prog[f] = None /\ CanReset(w) /\ ~OnStack(f)
      /\ f = t \/ fstate[f] # "NONE"
  <2>1. \A u \in Threads : cur[u] = None
    BY <1>0 DEF SoloInv, SoloThread
  <2>2. status[t] = "queued" /\ fstate[t] = "NONE" /\ prog[t] = None
    BY <1>0, <1>1 DEF SoloInv, SoloPlaces, SoloPrograms, Fresh
  <2>3. cbFiber[w] # None => prog[cbFiber[w]] = None /\ fstate[cbFiber[w]] \in Dead \cup {"INIT"} /\ fstate[cbFiber[w]] # "NONE"
    BY <1>0 DEF SoloInv, SoloStates, SoloPlaces
  <2> QED
    BY <1>0, <1>1, <2>1, <2>2, <2>3 DEF CanReset, OnStack
<1>3. /\ cbFiber' = [cbFiber EXCEPT ![w] = f] /\ prog' = [prog EXCEPT ![f] = t]
      /\ ft' = [ft EXCEPT ![w] = NoEntry] /\ fibers' = fibers /\ fault' = "none"
      /\ fstate' = [fstate EXCEPT ![f] = "EXEC"] /\ cur' = [cur EXCEPT ![w] = f]
      /\ pc' = [pc EXCEPT ![w] = "run"] /\ status' = [status EXCEPT ![t] = "begun"]
  BY <1>1, <1>2 DEF RunCallback, SwapIn, Begin, Goto, queueVars
<1>4. /\ SoloTypes' /\ Queue' = Queue
      /\ cbFiber'[w] = f /\ ft'[w] = NoEntry /\ cur'[w] = f /\ pc'[w] = "run"
      /\ \A u \in Threads \ {w} : cur'[u] = cur[u] /\ pc'[u] = pc[u] /\ ft'[u] = ft[u]
      /\ \A g \in Tasks : /\ fstate'[g] = IF g = f THEN "EXEC" ELSE fstate[g]
                          /\ prog'[g] = IF g = f THEN t ELSE prog[g]
                          /\ status'[g] = IF g = t THEN "begun" ELSE status[g]
  BY <1>0, <1>3 DEF SoloTypes, FiberStates, Queue
<1>5. SoloThread(w)'
  BY <1>0, <1>4 DEF SoloInv, SoloThread, HasFiber
<1>6. SoloStates(w)'
  BY <1>0, <1>4, EntryKinds DEF SoloInv, SoloStates, OffStack
<1>7. SoloPrograms'
  <2>1. ASSUME NEW g \in Tasks, prog'[g] # None
        PROVE  /\ fstate'[g] # "NONE" /\ status'[prog'[g]] # "new"
               /\ status'[prog'[g]] = "queued" => g = prog'[g]
               /\ fstate'[g] = "INIT" <=> status'[prog'[g]] = "queued"
               /\ fstate'[g] \in Dead => status'[prog'[g]] = "done"
    <3>1. CASE g = f
      BY <1>0, <1>4, <3>1 DEF Dead
    <3>2. CASE g # f
      <4>1. prog[g] \in Tasks /\ prog'[g] = prog[g] /\ fstate'[g] = fstate[g]
        BY <1>0, <1>4, <2>1, <3>2 DEF SoloTypes
      <4>2. prog[g] # t
        BY <1>2, <2>1, <3>2, <4>1 DEF SoloInv, SoloPrograms
      <4> QED
        BY <1>4, <2>1, <4>1, <4>2 DEF SoloInv, SoloPrograms
    <3> QED
      BY <3>1, <3>2
  <2> QED
    BY <2>1 DEF SoloPrograms
<1>8. SoloPlaces(w, out, kept)'
  <2>1. ASSUME NEW u \in Tasks, Fresh(u), u # t
        PROVE  Fresh(u)'
    BY <1>2, <1>4, <2>1 DEF Fresh
  <2>2. ft'[w] = NoEntry /\ CbOnce'
    BY <1>3, <1>4 DEF SoloInv, SoloPlaces, CbOnce
  <2>3. \A g \in Tasks : fstate[g] # "NONE" => fstate'[g] # "NONE"
    BY <1>4
  <2>4. \A u \in Tasks : status'[u] = "new" => fstate'[u] = "NONE"
    BY <1>0, <1>2, <1>4 DEF SoloInv, SoloPlaces
  <2>5. \A e \in Queue : e.item \in Tasks
    BY <1>0, QueueEntries, EntryKinds
  <2>6. t \notin kept /\ \A e \in Queue : e.kind = "cb" => e.item # t
    BY <1>0, <1>1 DEF SoloInv, SoloPlaces
  <2>7. /\ \A e \in Queue : IF e.kind = "cb" THEN Fresh(e.item)' /\ e.item \notin kept
                            ELSE fstate'[e.item] # "NONE"
        /\ \A u \in kept : u \in Tasks /\ Fresh(u)'
    BY <2>1, <2>3, <2>5, <2>6 DEF SoloInv, SoloPlaces
  <2>8. /\ \A g \in out : g \in Tasks /\ fstate'[g] # "NONE"
        /\ fstate'[f] # "NONE"
    BY <1>0, <1>4, <2>3 DEF SoloInv, SoloPlaces
  <2> QED
    BY <1>4, <2>2, <2>4, <2>7, <2>8, EntryKinds DEF SoloPlaces
<1>9. SoloKeeps(w, out, kept)'
  <2>1. ASSUME NEW u \in Tasks, u # t, SoloHas(w, out, kept, u)
        PROVE  SoloHas(w, out, kept, u)'
    <3>1. ~For(ft[w], u) /\ cur[w] = None /\ u # None
      BY <1>0, <1>1, <2>1, EntryKinds DEF For
    <3>2. \A g \in Tasks : prog[g] = u => prog'[g] = u
      BY <1>2, <1>4, <3>1
    <3>3. \A e \in Queue : For(e, u) => For(e, u)'
      BY <1>0, <3>2, QueueEntries, EntryKinds DEF For
    <3>4. \A g \in out : g \in Tasks
      BY DEF SoloInv, SoloPlaces
    <3> QED
      BY <1>4, <2>1, <3>1, <3>2, <3>3, <3>4 DEF SoloHas
  <2>2. SoloHas(w, out, kept, t)'
    BY <1>0, <1>4 DEF SoloHas
  <2> QED
    BY <1>4, <2>1, <2>2 DEF SoloInv, SoloKeeps, OffStack
<1> QED
  BY <1>3, <1>4, <1>5, <1>6, <1>7, <1>8, <1>9 DEF SoloInv

\* The steps of run() that decide nothing, and idle().
LEMMA SoloPassing ==
  ASSUME NEW w \in Threads, NEW out, NEW kept, SoloInv(w, out, kept),
         \/ SkipDead(w) \/ Ret(w) \/ SettleOther(w) \/ ThreadExit(w) \/ IdleIn(w) \/ IdleOut(w)
         \/ SwapOut(w) \/ Idle(w)
  PROVE  SoloInv(w, out, kept)'
<1>0. SoloThread(w) /\ SoloStates(w)
  BY DEF SoloInv
<1>1. CASE SkipDead(w)
  <2>1. cur[w] = None
    BY <1>0, <1>1 DEF SoloThread, SkipDead, At, PCs, HasFiber
  <2> QED
    BY <1>1, <2>1, SoloQuiet DEF SkipDead, At, Goto, queueVars, threadVars, taskVars, PCs, HasFiber
<1>2. CASE Ret(w)
  BY <1>2, SoloQuiet DEF Ret, At, Goto, queueVars, threadVars, taskVars, OffStack
<1>3. CASE SettleOther(w)
  <2>1. pc[w] \in OffStack /\ fstate[cur[w]] = "HOLD"
    BY <1>0, <1>3 DEF SoloStates, SettleOther, At, OffStack
  <2> QED
    BY <1>3, <2>1, SoloQuiet DEF SettleOther, At, Goto, queueVars, threadVars, taskVars
<1>4. CASE ThreadExit(w)
  <2>1. cur[w] = None
    BY <1>0, <1>4 DEF SoloThread, ThreadExit, At, PCs, HasFiber
  <2> QED
    BY <1>4, <2>1, SoloQuiet DEF ThreadExit, At, Goto, queueVars, threadVars, taskVars, PCs, HasFiber
<1>5. CASE IdleIn(w)
  <2>1. cur[w] = None
    BY <1>0, <1>5 DEF SoloThread, IdleIn, At, PCs, HasFiber
  <2> QED
    BY <1>5, <2>1, SoloQuiet DEF IdleIn, At, Goto, queueVars, threadVars, taskVars, PCs, HasFiber
<1>6. CASE IdleOut(w)
  <2>1. cur[w] = None /\ ft[w] = NoEntry
    BY <1>0, <1>6 DEF SoloThread, IdleOut, At, PCs, HasFiber
  <2> QED
    <3>1. /\ pc' = [pc EXCEPT ![w] = "pick"] /\ fault' = "none"
          /\ UNCHANGED <<fibers, fiberVars, ft, cur, cbFiber, status>>
      BY <1>6 DEF IdleOut, At, Goto, queueVars, threadVars, taskVars
    <3> QED
      BY <2>1, <3>1, SoloQuiet
<1>7. CASE SwapOut(w)
  BY <1>7, SoloQuiet DEF SwapOut, At, Goto, queueVars, threadVars, taskVars, OffStack
<1>8. CASE Idle(w)
  <2>1. cur[w] = None /\ ft[w] = NoEntry
    BY <1>0, <1>8 DEF SoloThread, Idle, At, PCs, HasFiber
  <2> QED
    BY <1>8, <2>1, SoloQuiet DEF Idle, At, Goto, queueVars, taskVars, PCs, HasFiber
<1> QED
  BY <1>1, <1>2, <1>3, <1>4, <1>5, <1>6, <1>7, <1>8

LEMMA SoloSame ==
  ASSUME NEW w \in Threads, NEW out, NEW kept, SoloInv(w, out, kept),
         UNCHANGED <<fibers, fiberVars, pc, ft, cur, cbFiber, status, fault>>
  PROVE  SoloInv(w, out, kept)'
<1>1. SoloTypes' /\ Queue' = Queue
  BY DEF SoloInv, SoloTypes, fiberVars, Queue
<1>2. SoloThread(w)' /\ SoloStates(w)' /\ SoloPrograms'
  BY DEF SoloInv, SoloThread, SoloStates, SoloPrograms, fiberVars
<1>3. SoloPlaces(w, out, kept)'
  BY <1>1 DEF SoloInv, SoloPlaces, Fresh, CbOnce, fiberVars
<1>4. SoloKeeps(w, out, kept)'
  BY <1>1 DEF SoloInv, SoloKeeps, SoloHas, For, fiberVars
<1> QED
  BY <1>1, <1>2, <1>3, <1>4 DEF SoloInv

LEMMA SoloSettleReady ==
  ASSUME NEW w \in Threads, NEW out, NEW kept, SoloInv(w, out, kept), SettleReady(w)
  PROVE  SoloInv(w, out, kept)'
<1>1. PICK f : f = cur[w]
  OBVIOUS
<1>0. /\ SoloTypes /\ pc[w] = "settle" /\ f \in Tasks /\ f # None /\ fstate[f] = "READY" /\ prog[f] # None
      /\ \/ ft[w] = NoEntry /\ cbFiber[w] = f
         \/ ft[w] # NoEntry /\ ft[w].kind = "fiber" /\ ft[w].item = f
  <2>1. SoloTypes /\ pc[w] = "settle" /\ f # None /\ fstate[f] = "READY"
    BY <1>1 DEF SoloInv, SoloThread, SettleReady, At, HasFiber
  <2>2. f \in Tasks /\ prog[f] # None
    BY <2>1, <1>1 DEF SoloInv, SoloTypes, SoloStates, OffStack, Dead
  <2> QED
    BY <2>1, <2>2, <1>1, EntryKinds DEF SoloInv, SoloThread
<1>2. PICK e : e = [kind |-> "fiber", item |-> f, thr |-> AnyThread]
  OBVIOUS
<1>3. /\ fibers' = Append(fibers, e) /\ e \in Entry /\ e.kind = "fiber" /\ e.item = f
      /\ cbFiber' = [cbFiber EXCEPT ![w] = IF ft[w] = NoEntry THEN None ELSE cbFiber[w]]
      /\ ft' = [ft EXCEPT ![w] = NoEntry] /\ cur' = [cur EXCEPT ![w] = None]
      /\ pc' = [pc EXCEPT ![w] = "pick"] /\ fault' = "none" /\ UNCHANGED <<fstate, prog, status>>
  BY <1>0, <1>1, <1>2 DEF SettleReady, Enqueue, FromCallback, Goto, At, taskVars, fiberVars, Entry
<1>4. fibers' \in Seq(Entry) /\ Queue' = Queue \cup {e} /\ CbOnce'
  BY <1>0, <1>3, Appended DEF SoloInv, SoloTypes, SoloPlaces
<1>5. /\ SoloTypes' /\ ft'[w] = NoEntry /\ cur'[w] = None /\ pc'[w] = "pick"
      /\ cbFiber'[w] = IF ft[w] = NoEntry THEN None ELSE cbFiber[w]
      /\ \A u \in Threads \ {w} : cur'[u] = cur[u] /\ pc'[u] = pc[u] /\ ft'[u] = ft[u]
  BY <1>0, <1>3, <1>4 DEF SoloTypes
<1>6. SoloThread(w)'
  BY <1>0, <1>5 DEF SoloInv, SoloThread, HasFiber
<1>7. SoloStates(w)'
  <2>1. \A g \in Tasks : fstate[g] # "EXEC" /\ g # None
    BY <1>0, EntryKinds DEF SoloInv, SoloStates, OffStack
  <2>2. cbFiber'[w] # None => /\ cbFiber'[w] = cbFiber[w] /\ prog[cbFiber[w]] = None
                              /\ fstate[cbFiber[w]] \in Dead \cup {"INIT"}
    BY <1>0, <1>1, <1>5 DEF SoloInv, SoloStates
  <2> QED
    BY <1>3, <1>5, <2>1, <2>2 DEF SoloStates, OffStack
<1>8. SoloPrograms' /\ SoloPlaces(w, out, kept)'
  BY <1>0, <1>1, <1>3, <1>4, <1>5, EntryKinds DEF SoloInv, SoloPrograms, SoloPlaces, Fresh
<1>9. SoloKeeps(w, out, kept)'
  <2>1. ASSUME NEW t \in Tasks, SoloHas(w, out, kept, t)
        PROVE  SoloHas(w, out, kept, t)'
    <3>1. For(ft[w], t) \/ (cur[w] # None /\ prog[cur[w]] = t) => prog[f] = t
      BY <1>0, <1>1, EntryKinds DEF For
    <3> QED
      BY <1>3, <1>4, <2>1, <3>1 DEF SoloHas, For
  <2> QED
    BY <1>3, <1>5, <2>1 DEF SoloInv, SoloKeeps, OffStack
<1> QED
  BY <1>3, <1>5, <1>6, <1>7, <1>8, <1>9 DEF SoloInv

LEMMA SoloSetHold ==
  ASSUME NEW w \in Threads, NEW out, NEW kept, SoloInv(w, out, kept), SetHold(w)
  PROVE  SoloInv(w, out, kept)'
<1>1. PICK f : f = cur[w]
  OBVIOUS
<1>0. /\ SoloTypes /\ pc[w] = "sethold" /\ f \in Tasks /\ f # None /\ fstate[f] = "HOLD" /\ prog[f] # None
      /\ \/ ft[w] = NoEntry /\ cbFiber[w] = f
         \/ ft[w] # NoEntry /\ ft[w].kind = "fiber" /\ ft[w].item = f
  <2>1. SoloTypes /\ pc[w] = "sethold" /\ f # None /\ fstate[f] = "HOLD"
    BY <1>1 DEF SoloInv, SoloThread, SoloStates, SetHold, At, HasFiber
  <2>2. f \in Tasks /\ prog[f] # None
    BY <2>1, <1>1 DEF SoloInv, SoloTypes, SoloStates, OffStack, Dead
  <2> QED
    BY <2>1, <2>2, <1>1, EntryKinds DEF SoloInv, SoloThread
<1>3. /\ cbFiber' = [cbFiber EXCEPT ![w] = IF ft[w] = NoEntry THEN None ELSE cbFiber[w]]
      /\ ft' = [ft EXCEPT ![w] = NoEntry] /\ cur' = [cur EXCEPT ![w] = None]
      /\ pc' = [pc EXCEPT ![w] = "pick"] /\ fault' = "none" /\ UNCHANGED <<fibers, fstate, prog, status>>
  <2>1. fstate' = fstate
    BY <1>0, <1>1 DEF SetHold, SoloTypes
  <2> QED
    BY <2>1 DEF SetHold, FromCallback, Goto, At, taskVars, queueVars
<1>5. /\ SoloTypes' /\ ft'[w] = NoEntry /\ cur'[w] = None /\ pc'[w] = "pick" /\ Queue' = Queue
      /\ cbFiber'[w] = IF ft[w] = NoEntry THEN None ELSE cbFiber[w]
      /\ \A u \in Threads \ {w} : cur'[u] = cur[u] /\ pc'[u] = pc[u] /\ ft'[u] = ft[u]
  BY <1>0, <1>3 DEF SoloTypes, Queue
<1>6. SoloThread(w)'
  BY <1>0, <1>5 DEF SoloInv, SoloThread, HasFiber
<1>7. SoloStates(w)'
  <2>1. \A g \in Tasks : fstate[g] # "EXEC" /\ g # None
    BY <1>0, EntryKinds DEF SoloInv, SoloStates, OffStack
  <2>2. cbFiber'[w] # None => /\ cbFiber'[w] = cbFiber[w] /\ prog[cbFiber[w]] = None
                              /\ fstate[cbFiber[w]] \in Dead \cup {"INIT"}
    BY <1>0, <1>1, <1>5 DEF SoloInv, SoloStates
  <2> QED
    BY <1>3, <1>5, <2>1, <2>2 DEF SoloStates, OffStack
<1>8. SoloPrograms' /\ SoloPlaces(w, out, kept)'
  BY <1>0, <1>1, <1>3, <1>5, EntryKinds DEF SoloInv, SoloPrograms, SoloPlaces, Fresh, CbOnce
<1>9. SoloKeeps(w, out, kept)'
  <2>1. f \in out \/ \E e \in Queue : e.kind = "fiber" /\ e.item = f
    BY <1>0, <1>1 DEF SoloInv, SoloKeeps, OffStack
  <2>2. ASSUME NEW t \in Tasks, SoloHas(w, out, kept, t)
        PROVE  SoloHas(w, out, kept, t)'
    <3>1. For(ft[w], t) \/ (cur[w] # None /\ prog[cur[w]] = t) => prog[f] = t
      BY <1>0, <1>1, EntryKinds DEF For
    <3> QED
      BY <1>3, <1>5, <2>1, <2>2, <3>1 DEF SoloHas, For
  <2> QED
    BY <1>3, <1>5, <2>2 DEF SoloInv, SoloKeeps, OffStack
<1> QED
  BY <1>3, <1>5, <1>6, <1>7, <1>8, <1>9 DEF SoloInv

LEMMA SoloSettleDead ==
  ASSUME NEW w \in Threads, NEW out, NEW kept, SoloInv(w, out, kept), SettleDead(w)
  PROVE  SoloInv(w, out, kept)'
<1>1. PICK f : f = cur[w]
  OBVIOUS
<1>0. /\ SoloTypes /\ pc[w] = "settle" /\ f \in Tasks /\ f # None /\ fstate[f] \in Dead
      /\ \/ ft[w] = NoEntry /\ cbFiber[w] = f
         \/ ft[w] # NoEntry /\ ft[w].kind = "fiber" /\ ft[w].item = f
  <2>1. SoloTypes /\ pc[w] = "settle" /\ f # None /\ fstate[f] \in Dead
    BY <1>1 DEF SoloInv, SoloThread, SettleDead, At, HasFiber
  <2>2. f \in Tasks
    BY <2>1, <1>1 DEF SoloTypes
  <2> QED
    BY <2>1, <2>2, <1>1, EntryKinds DEF SoloInv, SoloThread
<1>2. ~OnStack(f)
  BY <1>0, <1>1 DEF SoloInv, SoloThread, OnStack
<1>3. /\ fstate' = IF ft[w] = NoEntry THEN [fstate EXCEPT ![f] = "INIT"] ELSE fstate
      /\ prog' = IF ft[w] = NoEntry THEN [prog EXCEPT ![f] = None] ELSE prog
      /\ ft' = [ft EXCEPT ![w] = NoEntry] /\ cur' = [cur EXCEPT ![w] = None]
      /\ pc' = [pc EXCEPT ![w] = "pick"] /\ fault' = "none" /\ UNCHANGED <<fibers, cbFiber, status>>
  BY <1>1, <1>2 DEF SettleDead, FromCallback, Goto, At, taskVars, queueVars, fiberVars
<1>5. /\ SoloTypes' /\ ft'[w] = NoEntry /\ cur'[w] = None /\ pc'[w] = "pick" /\ Queue' = Queue
      /\ \A u \in Threads \ {w} : cur'[u] = cur[u] /\ pc'[u] = pc[u] /\ ft'[u] = ft[u]
      /\ \A g \in Tasks : IF g = f /\ ft[w] = NoEntry THEN fstate'[g] = "INIT" /\ prog'[g] = None
                          ELSE fstate'[g] = fstate[g] /\ prog'[g] = prog[g]
  BY <1>0, <1>3 DEF SoloTypes, Queue, FiberStates
<1>4. fstate[f] # "NONE" /\ "NONE" \notin Dead /\ "INIT" \notin Dead /\ "EXEC" \notin Dead
  BY <1>0 DEF Dead
<1>6. SoloThread(w)'
  BY <1>0, <1>5 DEF SoloInv, SoloThread, HasFiber
<1>7. SoloStates(w)'
  <2>1. \A g \in Tasks : fstate[g] # "EXEC" /\ g # None
    BY <1>0, EntryKinds DEF SoloInv, SoloStates, OffStack
  <2>2. \A g \in Tasks : fstate'[g] # "EXEC"
    BY <2>1, <1>5
  <2>3. cbFiber[w] # None => /\ cbFiber[w] \in Tasks /\ prog'[cbFiber[w]] = None
                             /\ fstate'[cbFiber[w]] \in Dead \cup {"INIT"}
    <3>1. CASE ft[w] = NoEntry
      BY <1>0, <1>5, <3>1
    <3>2. CASE ft[w] # NoEntry
      BY <1>0, <1>1, <1>5, <3>2 DEF SoloInv, SoloStates, SoloTypes
    <3> QED
      BY <3>1, <3>2
  <2> QED
    BY <1>3, <1>5, <2>1, <2>2, <2>3 DEF SoloStates, OffStack
<1>8. SoloPrograms' 
  <2>1. ASSUME NEW g \in Tasks, prog'[g] # None
        PROVE  prog'[g] = prog[g] /\ fstate'[g] = fstate[g]
    BY <1>5, <2>1
  <2> QED
    BY <1>3, <2>1 DEF SoloInv, SoloPrograms
<1>a. SoloPlaces(w, out, kept)'
  <2>1. \A t \in Tasks : fstate[t] = "NONE" <=> fstate'[t] = "NONE"
    BY <1>4, <1>5
  <2>2. CbOnce' /\ status' = status /\ cbFiber' = cbFiber
    BY <1>3 DEF SoloInv, SoloPlaces, CbOnce
  <2>3. \A t \in Tasks : Fresh(t) => Fresh(t)'
    BY <2>1, <2>2 DEF Fresh
  <2>4. \A e \in Queue : e.item \in Tasks
    BY <1>0, QueueEntries, EntryKinds
  <2>5. cbFiber[w] # None => cbFiber[w] \in Tasks
    BY <1>0 DEF SoloTypes
  <2> QED
    BY <1>5, <2>1, <2>2, <2>3, <2>4, <2>5, EntryKinds DEF SoloInv, SoloPlaces
<1>9. SoloKeeps(w, out, kept)'
  <2>1. ASSUME NEW t \in Tasks, status[t] \in {"queued", "begun"}, SoloHas(w, out, kept, t)
        PROVE  SoloHas(w, out, kept, t)'
    <3>1. t # None /\ prog[f] # t
      BY <1>0, <2>1, EntryKinds DEF SoloInv, SoloPrograms
    <3>2. ~For(ft[w], t) /\ ~(cur[w] # None /\ prog[cur[w]] = t)
      BY <1>0, <1>1, <3>1, EntryKinds DEF For
    <3>3. \A g \in Tasks : prog[g] = t => prog'[g] = t
      BY <1>5, <3>1
    <3>4. \A e \in Queue : For(e, t) => For(e, t)'
      BY <1>0, <3>3, QueueEntries, EntryKinds DEF For
    <3>5. \A g \in out : g \in Tasks
      BY DEF SoloInv, SoloPlaces
    <3> QED
      BY <1>5, <2>1, <3>2, <3>3, <3>4, <3>5 DEF SoloHas
  <2> QED
    BY <1>3, <1>5, <2>1 DEF SoloInv, SoloKeeps, OffStack
<1> QED
  BY <1>3, <1>5, <1>6, <1>7, <1>8, <1>a, <1>9 DEF SoloInv

LEMMA SoloRun ==
  ASSUME NEW w \in Threads, NEW out, NEW kept, SoloInv(w, out, kept), RunStep(w)
  PROVE  SoloInv(w, out, kept)'
BY SoloPick, SoloResume, SoloCallback, SoloPassing, SoloSettleReady, SoloSettleDead, SoloSetHold DEF RunStep

LEMMA SoloFinish ==
  ASSUME NEW w \in Threads, NEW out, NEW kept, SoloInv(w, out, kept), NEW st \in Dead, Finish(w, st)
  PROVE  SoloInv(w, out, kept)'
<1>1. PICK f : f = cur[w]
  OBVIOUS
<1>0. /\ SoloTypes /\ pc[w] \notin OffStack /\ f \in Tasks /\ f # None /\ fstate[f] = "EXEC"
      /\ prog[f] \in Tasks \cup {None} /\ None \notin Tasks /\ st \in {"TERM", "EXCEPT"}
      /\ prog[f] = None => st = "EXCEPT"
  <2>1. SoloTypes /\ pc[w] \in {"run", "hold"} /\ f # None /\ (prog[f] = None => st = "EXCEPT")
    BY <1>1 DEF SoloInv, SoloThread, Finish, At, HasFiber
  <2>2. f \in Tasks
    BY <2>1, <1>1 DEF SoloTypes
  <2> QED
    BY <2>1, <2>2, <1>1, EntryKinds DEF SoloInv, SoloTypes, SoloStates, OffStack, Dead
<1>2. PICK p : p = prog[f]
  OBVIOUS
<1>3. /\ fstate' = [fstate EXCEPT ![f] = st]
      /\ prog' = [prog EXCEPT ![f] = IF st = "TERM" THEN None ELSE p]
      /\ status' = IF p = None THEN status ELSE [status EXCEPT ![p] = "done"]
      /\ pc' = [pc EXCEPT ![w] = "swapout"] /\ fault' = "none" /\ UNCHANGED <<fibers, ft, cur, cbFiber>>
  BY <1>1, <1>2 DEF Finish, At, Goto, queueVars, threadVars, SoloInv
<1>4. /\ SoloTypes' /\ pc'[w] = "swapout" /\ Queue' = Queue
      /\ \A u \in Threads \ {w} : pc'[u] = pc[u]
      /\ fstate'[f] = st /\ prog'[f] = IF st = "TERM" THEN None ELSE p
      /\ \A g \in Tasks \ {f} : fstate'[g] = fstate[g] /\ prog'[g] = prog[g]
      /\ \A t \in Tasks : status'[t] = IF t = p THEN "done" ELSE status[t]
  BY <1>0, <1>2, <1>3 DEF SoloTypes, Queue, FiberStates
<1>5. p # None => p \in Tasks /\ status[p] # "new" /\ (status[p] = "queued" => f = p)
  BY <1>0, <1>2 DEF SoloInv, SoloPrograms
<1>6. SoloThread(w)'
  BY <1>0, <1>1, <1>3, <1>4 DEF SoloInv, SoloThread, HasFiber
<1>7. SoloStates(w)'
  <2>1. \A g \in Tasks \ {f} : fstate[g] # "EXEC"
    BY <1>0, <1>1 DEF SoloInv, SoloStates
  <2>2. fstate'[f] \in Dead /\ fstate'[f] # "EXEC"
    BY <1>0, <1>4 DEF Dead
  <2>3. \A g \in Tasks : fstate'[g] # "EXEC"
    BY <2>1, <2>2, <1>4
  <2>4. cbFiber[w] # None /\ ft[w] # NoEntry =>
          /\ prog'[cbFiber[w]] = None
          /\ f # cbFiber[w] => fstate'[cbFiber[w]] \in Dead \cup {"INIT"}
    <3> SUFFICES ASSUME cbFiber[w] # None, ft[w] # NoEntry
                 PROVE  /\ prog'[cbFiber[w]] = None
                        /\ f # cbFiber[w] => fstate'[cbFiber[w]] \in Dead \cup {"INIT"}
      OBVIOUS
    <3>1. /\ cbFiber[w] \in Tasks /\ prog[cbFiber[w]] = None
          /\ f # cbFiber[w] => fstate[cbFiber[w]] \in Dead \cup {"INIT"}
      BY <1>0, <1>1 DEF SoloInv, SoloStates, SoloTypes
    <3> QED
      BY <3>1, <1>2, <1>4
  <2> QED
    BY <1>0, <1>1, <1>3, <1>4, <2>2, <2>3, <2>4 DEF SoloStates, OffStack
<1>8. SoloPrograms'
  <2>1. ASSUME NEW g \in Tasks, prog'[g] # None
        PROVE  /\ fstate'[g] # "NONE" /\ status'[prog'[g]] # "new"
               /\ status'[prog'[g]] = "queued" => g = prog'[g]
               /\ fstate'[g] = "INIT" <=> status'[prog'[g]] = "queued"
               /\ fstate'[g] \in Dead => status'[prog'[g]] = "done"
    <3>1. CASE g = f
      BY <1>0, <1>4, <1>5, <2>1, <3>1
    <3>2. CASE g # f
      <4>1. prog[g] \in Tasks /\ prog'[g] = prog[g] /\ fstate'[g] = fstate[g]
        BY <1>0, <1>4, <2>1, <3>2 DEF SoloTypes
      <4>2. fstate[g] = "INIT" => prog[g] # p
        BY <1>0, <1>2, <1>5, <2>1, <3>2, <4>1 DEF SoloInv, SoloPrograms
      <4> QED
        BY <1>4, <2>1, <4>1, <4>2 DEF SoloInv, SoloPrograms
    <3> QED
      BY <3>1, <3>2
  <2> QED
    BY <2>1 DEF SoloPrograms
<1>9. SoloPlaces(w, out, kept)'
  <2>1. \A t \in Tasks : fstate[t] = "NONE" <=> fstate'[t] = "NONE"
    BY <1>0, <1>4
  <2>2. CbOnce' /\ ft' = ft /\ cur' = cur /\ cbFiber' = cbFiber
    BY <1>3 DEF SoloInv, SoloPlaces, CbOnce
  <2>3. ASSUME NEW t \in Tasks, Fresh(t)
        PROVE  Fresh(t)'
    BY <1>0, <1>4, <1>5, <2>1, <2>3 DEF Fresh
  <2>4. \A e \in Queue : e.item \in Tasks
    BY <1>0, QueueEntries, EntryKinds
  <2>5. /\ cbFiber[w] # None => cbFiber[w] \in Tasks
        /\ ft[w].kind \in {"cb", "fiber"} => ft[w].item \in Tasks
        /\ cur[w] \in Tasks
    BY <1>0, <1>1, EntryKinds DEF SoloTypes
  <2>6. \A t \in Tasks : status'[t] = "new" => fstate'[t] = "NONE"
    BY <1>4, <2>1 DEF SoloInv, SoloPlaces
  <2>7. /\ \A e \in Queue : IF e.kind = "cb" THEN Fresh(e.item)' /\ e.item \notin kept
                            ELSE fstate'[e.item] # "NONE"
        /\ \A u \in kept : u \in Tasks /\ Fresh(u)'
    BY <2>1, <2>3, <2>4 DEF SoloInv, SoloPlaces
  <2>8. /\ ft[w].kind = "cb" => /\ Fresh(ft[w].item)' /\ ft[w].item \notin kept
                                /\ \A e \in Queue : e.kind = "cb" => e.item # ft[w].item
        /\ ft[w].kind = "fiber" => fstate'[ft[w].item] # "NONE"
    <3>1. ft[w].kind = "cb" => Fresh(ft[w].item)'
      BY <2>2, <2>3, <2>5 DEF SoloInv, SoloPlaces, Fresh
    <3>2. ft[w].kind = "fiber" => fstate'[ft[w].item] # "NONE"
      BY <2>1, <2>5 DEF SoloInv, SoloPlaces
    <3> QED
      BY <3>1, <3>2 DEF SoloInv, SoloPlaces
  <2> QED
    BY <1>4, <2>1, <2>2, <2>5, <2>6, <2>7, <2>8 DEF SoloInv, SoloPlaces
<1>10. SoloKeeps(w, out, kept)'
  <2>1. ASSUME NEW t \in Tasks, t # p, SoloHas(w, out, kept, t)
        PROVE  SoloHas(w, out, kept, t)'
    <3>1. \A g \in Tasks : prog[g] = t => prog'[g] = t
      BY <1>2, <1>4, <2>1
    <3>2. \A e : e.item \in Tasks /\ For(e, t) => For(e, t)'
      BY <3>1 DEF For
    <3>3. \A e \in Queue : e.item \in Tasks
      BY <1>0, QueueEntries, EntryKinds
    <3>4. For(ft[w], t) => ft[w].item \in Tasks
      BY <1>0, EntryKinds DEF For, SoloTypes
    <3>5. For(ft[w], t) => For(ft[w], t)'
      BY <1>3, <3>2, <3>4 DEF For
    <3>6. \A g \in out : g \in Tasks
      BY DEF SoloInv, SoloPlaces
    <3> QED
      BY <1>0, <1>1, <1>3, <1>4, <2>1, <3>1, <3>2, <3>3, <3>5, <3>6 DEF SoloHas
  <2>2. fstate'[f] # "HOLD"
    BY <1>0, <1>4
  <2> QED
    BY <1>1, <1>3, <1>4, <2>1, <2>2 DEF SoloInv, SoloKeeps
<1> QED
  BY <1>3, <1>4, <1>6, <1>7, <1>8, <1>9, <1>10 DEF SoloInv

LEMMA SoloYieldTo ==
  ASSUME NEW w \in Threads, NEW out, NEW kept, SoloInv(w, out, kept), NEW st \in {"READY", "HOLD"},
         YieldTo(w, st), pc[w] \in {"run", "hold"}, st = "HOLD" => pc[w] = "hold", prog[cur[w]] # None
  PROVE  SoloInv(w, out, kept)'
<1>1. PICK f : f = cur[w]
  OBVIOUS
<1>0. /\ SoloTypes /\ pc[w] \notin OffStack /\ f \in Tasks /\ f # None /\ fstate[f] = "EXEC" /\ prog[f] # None
  <2>1. SoloTypes /\ f # None
    BY <1>1 DEF SoloInv, SoloThread, HasFiber
  <2>2. f \in Tasks
    BY <2>1, <1>1 DEF SoloTypes
  <2> QED
    BY <2>1, <2>2, <1>1 DEF SoloInv, SoloTypes, SoloStates, OffStack
<1>3. /\ fstate' = [fstate EXCEPT ![f] = st] /\ fault' = "none"
      /\ pc' = [pc EXCEPT ![w] = "swapout"] /\ UNCHANGED <<fibers, prog, ft, cur, cbFiber, status>>
  BY <1>0, <1>1 DEF YieldTo, Goto, queueVars, threadVars
<1>4. /\ SoloTypes' /\ pc'[w] = "swapout" /\ Queue' = Queue
      /\ \A u \in Threads \ {w} : pc'[u] = pc[u]
      /\ fstate'[f] = st /\ \A g \in Tasks \ {f} : fstate'[g] = fstate[g]
  BY <1>0, <1>3 DEF SoloTypes, Queue, FiberStates
<1>5. SoloThread(w)'
  BY <1>0, <1>1, <1>3, <1>4 DEF SoloInv, SoloThread, HasFiber
<1>6. SoloStates(w)'
  <2>1. \A g \in Tasks : fstate'[g] # "EXEC"
    BY <1>0, <1>1, <1>4 DEF SoloInv, SoloStates
  <2>2. cbFiber[w] # None /\ f # cbFiber[w] /\ ft[w] # NoEntry => fstate'[cbFiber[w]] \in Dead \cup {"INIT"}
    BY <1>0, <1>1, <1>4 DEF SoloInv, SoloStates, SoloTypes
  <2>3. cbFiber[w] # None /\ ft[w] # NoEntry => prog[cbFiber[w]] = None
    BY <1>0, <1>1 DEF SoloInv, SoloStates
  <2> QED
    BY <1>0, <1>1, <1>3, <1>4, <2>1, <2>2, <2>3 DEF SoloStates, OffStack
<1>7. SoloPrograms'
  BY <1>0, <1>3, <1>4 DEF SoloInv, SoloPrograms, Dead
<1>8. SoloPlaces(w, out, kept)'
  <2>1. \A t \in Tasks : fstate[t] = "NONE" <=> fstate'[t] = "NONE"
    BY <1>0, <1>4
  <2>2. \A t \in Tasks : Fresh(t) => Fresh(t)'
    BY <1>3, <2>1 DEF Fresh
  <2>3. CbOnce'
    BY <1>3 DEF SoloInv, SoloPlaces, CbOnce
  <2>4. \A e \in Queue : e.item \in Tasks
    BY <1>0, QueueEntries, EntryKinds
  <2>5. /\ cbFiber[w] # None => cbFiber[w] \in Tasks
        /\ ft[w].kind \in {"cb", "fiber"} => ft[w].item \in Tasks
        /\ cur[w] \in Tasks
    BY <1>0, <1>1, EntryKinds DEF SoloTypes
  <2> QED
    BY <1>3, <1>4, <2>1, <2>2, <2>3, <2>4, <2>5 DEF SoloInv, SoloPlaces
<1>9. SoloKeeps(w, out, kept)'
  BY <1>0, <1>1, <1>3, <1>4 DEF SoloInv, SoloKeeps, SoloHas, For
<1> QED
  BY <1>3, <1>4, <1>5, <1>6, <1>7, <1>8, <1>9 DEF SoloInv

\* A task schedules its own fiber and is about to hold.
LEMMA SoloSwitchTo ==
  ASSUME NEW w \in Threads, NEW out, NEW kept, SoloInv(w, out, kept), NEW thr \in Threads \cup {AnyThread},
         SwitchTo(w, thr)
  PROVE  SoloInv(w, out, kept)'
<1>1. PICK f : f = cur[w]
  OBVIOUS
<1>2. PICK e : e = [kind |-> "fiber", item |-> f, thr |-> thr]
  OBVIOUS
<1>0. /\ SoloTypes /\ pc[w] = "run" /\ f \in Tasks /\ f # None /\ prog[f] # None
      /\ e \in Entry /\ e.kind = "fiber" /\ e.item = f
  <2>1. SoloTypes /\ pc[w] = "run" /\ f # None /\ prog[f] # None
    BY <1>1 DEF SoloInv, SoloThread, SwitchTo, At, HasFiber, MayYield
  <2>2. f \in Tasks
    BY <2>1, <1>1 DEF SoloTypes
  <2> QED
    BY <2>1, <2>2, <1>2 DEF Entry
<1>3. /\ fibers' = Append(fibers, e) /\ pc' = [pc EXCEPT ![w] = "hold"] /\ fault' = "none"
      /\ UNCHANGED <<fstate, prog, ft, cur, cbFiber, status>>
  BY <1>1, <1>2 DEF SwitchTo, Enqueue, At, Goto, fiberVars, threadVars
<1>4. fibers' \in Seq(Entry) /\ Queue' = Queue \cup {e} /\ CbOnce'
  BY <1>0, <1>3, Appended DEF SoloInv, SoloTypes, SoloPlaces
<1>5. SoloTypes' /\ pc'[w] = "hold" /\ \A u \in Threads \ {w} : pc'[u] = pc[u]
  BY <1>0, <1>3, <1>4 DEF SoloTypes
<1>6. SoloThread(w)' /\ SoloStates(w)' /\ SoloPrograms'
  BY <1>0, <1>1, <1>3, <1>5 DEF SoloInv, SoloThread, SoloStates, SoloPrograms, OffStack, HasFiber
<1>7. SoloPlaces(w, out, kept)'
  BY <1>0, <1>1, <1>3, <1>4, EntryKinds DEF SoloInv, SoloPlaces, Fresh
<1>8. SoloKeeps(w, out, kept)'
  BY <1>0, <1>1, <1>3, <1>4, <1>5 DEF SoloInv, SoloKeeps, SoloHas, For, OffStack
<1> QED
  BY <1>3, <1>5, <1>6, <1>7, <1>8 DEF SoloInv

\* A new task goes to the queue.
LEMMA SoloSubmit ==
  ASSUME NEW w \in Threads, NEW out, NEW kept, SoloInv(w, out, kept),
         NEW u \in Threads, NEW t \in Tasks, NEW kind \in {"cb", "fiber"}, NEW thr \in Threads \cup {AnyThread},
         Submit(u, t, kind, thr), UNCHANGED <<pc, ft, cur, cbFiber, fault>>
  PROVE  SoloInv(w, out, kept)'
<1>2. PICK e : e = [kind |-> kind, item |-> t, thr |-> thr]
  OBVIOUS
<1>0. /\ SoloTypes /\ status[t] = "new" /\ fstate[t] = "NONE" /\ prog[t] = None
      /\ e \in Entry /\ e.kind = kind /\ e.item = t /\ t # None
  BY <1>2, EntryKinds DEF SoloInv, SoloPlaces, SoloPrograms, Submit, Entry
<1>3. /\ fibers' = Append(fibers, e) /\ status' = [status EXCEPT ![t] = "queued"]
      /\ fstate' = IF kind = "fiber" THEN [fstate EXCEPT ![t] = "INIT"] ELSE fstate
      /\ prog' = IF kind = "fiber" THEN [prog EXCEPT ![t] = t] ELSE prog
  BY <1>2 DEF Submit, Enqueue, fiberVars
<1>4. fibers' \in Seq(Entry) /\ Queue' = Queue \cup {e} /\ CbOnce'
  <2>1. \A x \in Queue : x.kind = "cb" => x.item # t
    BY <1>0 DEF SoloInv, SoloPlaces, Fresh
  <2> QED
    BY <1>0, <1>3, <2>1, Appended DEF SoloInv, SoloTypes, SoloPlaces
<1>5. /\ SoloTypes' /\ status'[t] = "queued"
      /\ IF kind = "fiber" THEN fstate'[t] = "INIT" /\ prog'[t] = t ELSE fstate'[t] = "NONE" /\ prog'[t] = None
      /\ \A g \in Tasks \ {t} : fstate'[g] = fstate[g] /\ prog'[g] = prog[g] /\ status'[g] = status[g]
  BY <1>0, <1>3, <1>4 DEF SoloTypes, FiberStates
<1>a. /\ cur[w] # t /\ cbFiber[w] # t
      /\ cur[w] # None => cur[w] \in Tasks
      /\ cbFiber[w] # None => cbFiber[w] \in Tasks
      /\ ft[w].kind \in {"cb", "fiber"} => ft[w].item \in Tasks /\ ft[w].item # t
      /\ \A x \in Queue : x.item \in Tasks \ {t}
      /\ \A g \in out : g \in Tasks \ {t}
      /\ \A u2 \in kept : u2 \in Tasks \ {t}
  <2>1. /\ cur[w] # None => cur[w] \in Tasks
        /\ cbFiber[w] # None => cbFiber[w] \in Tasks
        /\ ft[w].kind \in {"cb", "fiber"} => ft[w].item \in Tasks
    BY <1>0, EntryKinds DEF SoloTypes
  <2>2. \A x \in Queue : x.item \in Tasks /\ x.kind \in {"cb", "fiber"}
    BY <1>0, QueueEntries, EntryKinds
  <2> QED
    BY <1>0, <2>1, <2>2 DEF SoloInv, SoloPlaces, Fresh
<1>6. SoloThread(w)'
  <2>1. pc[w] = "pick" /\ ft[w] # NoEntry => ft[w].kind = "fiber" /\ fstate'[ft[w].item] \in Dead
    BY <1>5, <1>a DEF SoloInv, SoloThread
  <2> QED
    BY <2>1 DEF SoloInv, SoloThread
<1>7. SoloStates(w)'
  <2>1. \A g \in Tasks : fstate'[g] = "EXEC" <=> fstate[g] = "EXEC"
    BY <1>0, <1>5
  <2>2. /\ cur[w] # None => fstate'[cur[w]] = fstate[cur[w]] /\ prog'[cur[w]] = prog[cur[w]]
        /\ cbFiber[w] # None => fstate'[cbFiber[w]] = fstate[cbFiber[w]] /\ prog'[cbFiber[w]] = prog[cbFiber[w]]
    BY <1>5, <1>a
  <2>3. pc[w] = "hold" \/ pc[w] \in OffStack => cur[w] # None
    BY DEF SoloInv, SoloThread, OffStack, HasFiber
  <2> QED
    BY <2>1, <2>2, <2>3 DEF SoloInv, SoloStates, OffStack
<1>8. SoloPrograms'
  <2>1. ASSUME NEW g \in Tasks \ {t}, prog[g] # None
        PROVE  prog[g] \in Tasks \ {t}
    BY <1>0, <2>1 DEF SoloInv, SoloTypes, SoloPrograms
  <2> QED
    BY <1>5, <2>1 DEF SoloInv, SoloPrograms, Dead
<1>9. SoloPlaces(w, out, kept)'
  <2>1. \A g \in Tasks \ {t} : Fresh(g) => Fresh(g)'
    BY <1>5 DEF Fresh
  <2>2. kind = "cb" => Fresh(t)'
    BY <1>5 DEF Fresh
  <2>3. \A g \in Tasks : status'[g] = "new" => fstate'[g] = "NONE"
    BY <1>5 DEF SoloInv, SoloPlaces
  <2>4. \A x \in Queue : IF x.kind = "cb" THEN Fresh(x.item)' /\ x.item \notin kept
                         ELSE fstate'[x.item] # "NONE"
    BY <1>5, <1>a, <2>1 DEF SoloInv, SoloPlaces
  <2>5. \A x \in Queue' : IF x.kind = "cb" THEN Fresh(x.item)' /\ x.item \notin kept
                          ELSE fstate'[x.item] # "NONE"
    BY <1>0, <1>4, <1>5, <1>a, <2>2, <2>4
  <2>6. ft[w].kind = "cb" => /\ Fresh(ft[w].item)' /\ ft[w].item \notin kept
                             /\ \A x \in Queue' : x.kind = "cb" => x.item # ft[w].item
    BY <1>0, <1>4, <1>a, <2>1 DEF SoloInv, SoloPlaces
  <2>7. /\ ft[w].kind = "fiber" => fstate'[ft[w].item] # "NONE"
        /\ cur[w] # None => fstate'[cur[w]] # "NONE"
        /\ cbFiber[w] # None => fstate'[cbFiber[w]] # "NONE"
        /\ \A g \in out : g \in Tasks /\ fstate'[g] # "NONE"
        /\ \A g \in kept : g \in Tasks /\ Fresh(g)'
    BY <1>5, <1>a, <2>1 DEF SoloInv, SoloPlaces
  <2> QED
    BY <1>4, <2>3, <2>5, <2>6, <2>7 DEF SoloPlaces
<1>10. SoloKeeps(w, out, kept)'
  <2>1. ASSUME NEW g \in Tasks \ {t}, SoloHas(w, out, kept, g)
        PROVE  SoloHas(w, out, kept, g)'
    <3>1. \A h \in Tasks : prog[h] = g => prog'[h] = g
      BY <1>0, <1>5, <2>1, EntryKinds
    <3>2. \A x \in Queue : For(x, g) => For(x, g)'
      BY <1>a, <3>1 DEF For
    <3>3. For(ft[w], g) => For(ft[w], g)'
      BY <1>a, <3>1 DEF For
    <3> QED
      BY <1>4, <1>a, <2>1, <3>1, <3>2, <3>3 DEF SoloHas
  <2>2. For(e, t)'
    BY <1>0, <1>5 DEF For
  <2>3. SoloHas(w, out, kept, t)'
    BY <1>4, <2>2 DEF SoloHas
  <2>4. /\ pc[w] = "hold" \/ pc[w] \in OffStack => cur[w] # None
        /\ cur[w] # None => fstate'[cur[w]] = fstate[cur[w]]
    BY <1>5, <1>a DEF SoloInv, SoloThread, OffStack, HasFiber
  <2> QED
    BY <1>4, <1>5, <2>1, <2>3, <2>4 DEF SoloInv, SoloKeeps
<1> QED
  BY <1>5, <1>6, <1>7, <1>8, <1>9, <1>10 DEF SoloInv

LEMMA SoloBody ==
  ASSUME NEW w \in Threads, NEW out, NEW kept, SoloInv(w, out, kept), Body(w)
  PROVE  SoloInv(w, out, kept)'
<1>1. ASSUME NEW st \in Dead, Finish(w, st)
      PROVE  SoloInv(w, out, kept)'
  BY <1>1, SoloFinish
<1>2. CASE YieldToReady(w)
  BY <1>2, SoloYieldTo DEF YieldToReady, At, MayYield
<1>3. CASE YieldToHold(w)
  <2>1. pc[w] = "hold" /\ prog[cur[w]] # None /\ YieldTo(w, "HOLD")
    BY <1>3 DEF YieldToHold, At, SoloInv, SoloStates
  <2> QED
    BY <2>1, SoloYieldTo
<1>4. CASE SwapOut(w)
  BY <1>4, SoloPassing
<1>5. ASSUME NEW thr \in Known(TaskPins), SwitchTo(w, thr)
      PROVE  SoloInv(w, out, kept)'
  BY <1>5, SoloSwitchTo, ThreadsAssumption DEF Known
<1>6. ASSUME NEW t \in Tasks, NEW kind \in Kinds, NEW thr \in Known(TaskPins), Spawn(w, t, kind, thr)
      PROVE  SoloInv(w, out, kept)'
  BY <1>6, SoloSubmit, ThreadsAssumption DEF Known, Spawn, threadVars
<1> QED
  BY <1>1, <1>2, <1>3, <1>4, <1>5, <1>6 DEF Body

\* The one thread that runs the loop: a worker, or the caller inside stop().
LoopThread(w) == w \in Threads /\ shape.workers \cup {u \in {Caller} : shape.caller} = {w}

LEMMA SoloMain ==
  ASSUME NEW w \in Threads, NEW out, NEW kept, SoloInv(w, out, kept), LoopThread(w), OffInv,
         NEW L, pc \in [Threads -> L], Main
  PROVE  SoloInv(w, out, kept)'
<1>0. Caller \in Threads
  BY DEF Threads
<1>1. ASSUME NEW t \in Tasks, NEW kind \in Kinds, NEW thr \in Known(UserPins), UserSchedule(t, kind, thr)
      PROVE  SoloInv(w, out, kept)'
  BY <1>0, <1>1, SoloSubmit, ThreadsAssumption DEF Known, UserSchedule, threadVars
<1>a. ASSUME pc[w] = "off", pc' = [pc EXCEPT ![w] = "pick"], fault' = "none",
             UNCHANGED <<fibers, fiberVars, ft, cur, cbFiber, status>>
      PROVE  SoloInv(w, out, kept)'
  <2>1. cur[w] = None /\ ft[w] = NoEntry
    BY <1>a DEF SoloInv, SoloThread, PCs, HasFiber
  <2> QED
    BY <1>a, <2>1, SoloQuiet
<1>2. CASE Start
  <2>1. \A u \in Threads : pc[u] = "off"
    BY <1>2 DEF Start, MainAt, OffInv
  <2>2. /\ pc' = [u \in Threads |-> IF u \in shape.workers THEN "pick" ELSE pc[u]] /\ fault' = "none"
        /\ UNCHANGED <<fibers, fiberVars, ft, cur, cbFiber, status>>
    BY <1>2 DEF Start, MainAt, queueVars, threadVars, taskVars, fiberVars
  <2>3. CASE w \in shape.workers
    <3>1. pc' = [pc EXCEPT ![w] = "pick"]
      BY <2>2, <2>3 DEF LoopThread
    <3> QED
      BY <1>a, <2>1, <2>2, <3>1
  <2>4. CASE w \notin shape.workers
    <3>1. pc' = pc
      BY <2>2, <2>4 DEF LoopThread
    <3>2. fault' = fault
      BY <2>2 DEF SoloInv
    <3> QED
      BY <2>2, <3>1, <3>2, SoloSame
  <2> QED
    BY <2>3, <2>4
<1>3. CASE StopFlags \/ RootReturns \/ Join
  BY <1>3, SoloSame DEF StopFlags, RootReturns, Join, queueVars, threadVars, taskVars, fiberVars
<1>4. CASE StopRoot
  <2>1. UNCHANGED <<fibers, fiberVars, ft, cur, cbFiber, status, fault>>
    BY <1>4 DEF StopRoot, queueVars, threadVars, taskVars, fiberVars
  <2>2. CASE shape.caller /\ ~Stopping
    <3>1. w = Caller /\ pc[w] = "off" /\ pc' = [pc EXCEPT ![w] = "pick"] /\ fault' = "none"
      BY <1>4, <2>1, <2>2 DEF StopRoot, Goto, MainAt, LoopThread, OffInv, SoloInv
    <3> QED
      BY <1>a, <2>1, <3>1
  <2>3. CASE ~(shape.caller /\ ~Stopping)
    <3>1. pc' = pc
      BY <1>4, <2>3 DEF StopRoot
    <3> QED
      BY <2>1, <3>1, SoloSame
  <2> QED
    BY <2>2, <2>3
<1> QED
  BY <1>1, <1>2, <1>3, <1>4 DEF Main, StopStep

LEMMA SoloInit ==
  ASSUME Init, NEW w \in Threads
  PROVE  SoloInv(w, {}, {})
<1>1. /\ Len(fibers) = 0 /\ fault = "none"
      /\ \A u \in Threads : pc[u] = "off" /\ cur[u] = None /\ cbFiber[u] = None /\ ft[u] = NoEntry
      /\ \A t \in Tasks : fstate[t] = "NONE" /\ prog[t] = None /\ status[t] = "new"
  BY DEF Init
<1>2. Queue = {} /\ CbOnce
  BY <1>1 DEF Queue, CbOnce
<1>3. SoloTypes
  BY DEF Init, SoloTypes, FiberStates
<1> QED
  BY <1>1, <1>2, <1>3, EntryKinds DEF SoloInv, SoloThread, SoloStates, SoloPrograms, SoloPlaces, SoloKeeps,
     OffStack, HasFiber, PCs

\* One thread runs the loop of this scheduler.
AloneInv == \A w \in Threads : LoopThread(w) => SoloInv(w, {}, {})

\* Whatever the constructor's arguments, one thread runs the loop.
OneThread == \A s \in Shapes : IF s.caller THEN s.workers = {} ELSE \E w : s.workers = {w}

LEMMA OneLoopThread ==
  ASSUME shape \in Shapes, OneThread
  PROVE  \E w \in Threads : LoopThread(w)
<1>1. shape.workers \subseteq Workers
  BY ThreadsAssumption
<1> QED
  BY <1>1 DEF OneThread, LoopThread, Threads

LEMMA ShapeKept == [Next]_vars => shape' = shape
<1>1. Main => shape' = shape
  BY DEF Main, StopStep, UserSchedule, Start, StopFlags, StopRoot, RootReturns, Join, ctlVars
<1>2. ASSUME NEW u \in Threads, ThreadStep(u)
      PROVE  shape' = shape
  BY <1>2 DEF ThreadStep, RunStep, Pick, PickNothing, ResumeFiber, SkipDead, RunCallback, Ret, SettleReady,
     SettleDead, SettleOther, SetHold, ThreadExit, IdleIn, IdleOut, Idle, Tickle, Body, Finish, YieldToReady,
     YieldToHold, YieldTo, SwapOut, SwitchTo, Spawn, ctlVars
<1> QED
  BY <1>1, <1>2 DEF Next, vars, ctlVars

\* All that a thread outside run() may do is to go on with a tickle().
LEMMA OffTickles ==
  ASSUME NEW u \in Threads, pc[u] = "off", ThreadStep(u)
  PROVE  Tickle(u)
BY DEF ThreadStep, RunStep, Pick, PickNothing, ResumeFiber, SkipDead, RunCallback, Ret, SettleReady, SettleDead,
   SettleOther, SetHold, ThreadExit, IdleIn, IdleOut, Idle, Body, Finish, YieldToReady, YieldToHold, SwapOut,
   SwitchTo, Spawn, At

LEMMA AloneStep == TypeInv /\ CountInv /\ AloneInv /\ [Next]_vars => AloneInv'
<1> SUFFICES ASSUME TypeInv, CountInv, AloneInv, [Next]_vars, NEW w \in Threads, LoopThread(w)'
             PROVE  SoloInv(w, {}, {})'
  BY DEF AloneInv
<1>1. shape' = shape
  BY ShapeKept
<1>2. LoopThread(w) /\ SoloInv(w, {}, {})
  BY <1>1 DEF LoopThread, AloneInv
<1>3. CASE UNCHANGED vars
  BY <1>2, <1>3, SoloSame DEF vars, queueVars, fiberVars, threadVars, taskVars
<1>4. CASE Main
  BY <1>2, <1>4, SoloMain DEF TypeInv, TypeOK, CountInv
<1>5. ASSUME NEW u \in Threads, ThreadStep(u)
      PROVE  SoloInv(w, {}, {})'
  <2>1. CASE u = w
    BY <1>2, <1>5, <2>1, SoloRun, SoloPassing, SoloSame, SoloBody DEF ThreadStep, Tickle, threadVars, taskVars
  <2>2. CASE u # w
    <3>1. pc[u] = "off"
      BY <1>2, <2>2 DEF SoloInv, SoloThread
    <3>2. Tickle(u)
      BY <1>5, <3>1, OffTickles
    <3> QED
      BY <1>2, <3>2, SoloSame DEF Tickle, threadVars, taskVars
  <2> QED
    BY <2>1, <2>2
<1> QED
  BY <1>3, <1>4, <1>5 DEF Next

LEMMA AloneInvariant == Spec => []AloneInv
<1>1. Init => AloneInv
  BY SoloInit DEF AloneInv
<1> QED
  BY <1>1, AloneStep, TypeInit, TypeStep, CountInit, CountStep, PTL DEF Spec

================================================================================
