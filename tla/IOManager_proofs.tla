--------------------------- MODULE IOManager_proofs ---------------------------
(***************************************************************************)
(* Proofs about the events and timers of IOManager, for any threads, file  *)
(* descriptors and tasks; and, where one worker runs the loop, that no     *)
(* assertion fails and that nothing is left when stop() returns.           *)
(***************************************************************************)
EXTENDS IOManager, Scheduler_proofs

Reported == Events \cup {"ERR"}
Todo == [fd : Fds \cup {None}, left : SUBSET Events, back : {"run", "events"}]
Triggering == {"trigger", "dec"}

\* W has a value for every event of every descriptor.
PerEvent(W) == W = [d \in Fds |-> W[d]] /\ \A d \in Fds : W[d] = [e \in Events |-> W[d][e]]

\* The types of what belongs to descriptors.
FdTypes ==
  /\ shape \in Shapes /\ pc \in [Threads -> IOPCs] /\ pending \in Int
  /\ fdEvents \in [Fds -> SUBSET Events] /\ edge \in [Fds -> SUBSET Reported]
  /\ PerEvent(waiter)
  /\ got \in [Threads -> SUBSET (Fds \X SUBSET Reported)]
  /\ todo \in [Threads -> Todo]
  /\ \A w \in Threads : pc[w] \in Triggering => todo[w].fd \in Fds

\* The pairs addEvent has registered, the threads that still have to subtract one.
Registered == {x \in Fds \X Events : x[2] \in fdEvents[x[1]]}
Subtracting == {w \in Threads : pc[w] = "dec"}

CountedInv ==
  fault = "none" => pending = Cardinality(Registered) + Cardinality(Subtracting)

WaitedInv == \A d \in Fds, e \in Events : (e \in fdEvents[d]) <=> (waiter[d][e] # NoEntry)

FdInv == FdTypes /\ OffInv /\ CountedInv /\ WaitedInv

-----------------------------------------------------------------------------
(* Registered events.                                                      *)

With(W, d, e, x) == [W EXCEPT ![d][e] = x]

LEMMA OneWaiter ==
  ASSUME NEW W, PerEvent(W), NEW d \in Fds, NEW e \in Events, NEW x
  PROVE  /\ PerEvent(With(W, d, e, x))
         /\ \A a \in Fds, b \in Events :
              With(W, d, e, x)[a][b] = IF a = d /\ b = e THEN x ELSE W[a][b]
<1> DEFINE V == With(W, d, e, x)
<1>1. V = [a \in Fds |-> V[a]] /\ \A a \in Fds : V[a] = IF a = d THEN [W[d] EXCEPT ![e] = x] ELSE W[a]
  BY DEF PerEvent, With
<1> HIDE DEF V
<1>2. ASSUME NEW a \in Fds
      PROVE  /\ V[a] = [b \in Events |-> V[a][b]]
             /\ \A b \in Events : V[a][b] = IF a = d /\ b = e THEN x ELSE W[a][b]
  <2>1. W[a] = [b \in Events |-> W[a][b]]
    BY DEF PerEvent
  <2>2. CASE a = d
    BY <1>1, <2>1, <2>2
  <2>3. CASE a # d
    BY <1>1, <2>1, <2>3
  <2> QED
    BY <2>2, <2>3
<1> QED
  BY <1>1, <1>2 DEF PerEvent, V

LEMMA RegisteredFinite == IsFiniteSet(Registered) /\ Cardinality(Registered) \in Nat
<1>1. IsFiniteSet(Events)
  <2>1. Events = {"READ"} \cup {"WRITE"}
    BY DEF Events
  <2> QED
    BY <2>1, FS_Singleton, FS_AddElement
<1>2. IsFiniteSet(Fds \X Events)
  BY <1>1, IOAssumption, FS_Product
<1>3. IsFiniteSet(Registered)
  BY <1>2, FS_Subset DEF Registered
<1> QED
  BY <1>3, FS_CardinalityType

LEMMA OneMore ==
  ASSUME FdTypes, NEW d \in Fds, NEW e \in Events, e \notin fdEvents[d],
         fdEvents' = [fdEvents EXCEPT ![d] = @ \cup {e}]
  PROVE  Cardinality(Registered') = Cardinality(Registered) + 1
<1>1. \A x \in Fds \X Events : x \in Registered' <=> x \in Registered \/ x = <<d, e>>
  <2>1. ASSUME NEW x \in Fds \X Events
        PROVE  x[2] \in fdEvents'[x[1]] <=> x[2] \in fdEvents[x[1]] \/ x = <<d, e>>
    <3>1. x = <<x[1], x[2]>> /\ x[1] \in Fds /\ x[2] \in Events
      OBVIOUS
    <3>2. fdEvents'[x[1]] = IF x[1] = d THEN fdEvents[d] \cup {e} ELSE fdEvents[x[1]]
      BY <3>1 DEF FdTypes
    <3> QED
      BY <3>1, <3>2
  <2> QED
    BY <2>1 DEF Registered
<1>2. Registered' = Registered \cup {<<d, e>>} /\ <<d, e>> \notin Registered
  BY <1>1 DEF Registered
<1> QED
  BY <1>2, RegisteredFinite, FS_AddElement

LEMMA OneLess ==
  ASSUME FdTypes, NEW d \in Fds, NEW e \in Events, e \in fdEvents[d],
         fdEvents' = [fdEvents EXCEPT ![d] = @ \ {e}]
  PROVE  Cardinality(Registered') = Cardinality(Registered) - 1
<1>1. \A x \in Fds \X Events : x \in Registered' <=> x \in Registered /\ x # <<d, e>>
  <2>1. ASSUME NEW x \in Fds \X Events
        PROVE  x[2] \in fdEvents'[x[1]] <=> x[2] \in fdEvents[x[1]] /\ x # <<d, e>>
    <3>1. x = <<x[1], x[2]>> /\ x[1] \in Fds /\ x[2] \in Events
      OBVIOUS
    <3>2. fdEvents'[x[1]] = IF x[1] = d THEN fdEvents[d] \ {e} ELSE fdEvents[x[1]]
      BY <3>1 DEF FdTypes
    <3> QED
      BY <3>1, <3>2
  <2> QED
    BY <2>1 DEF Registered
<1>2. Registered' = Registered \ {<<d, e>>} /\ <<d, e>> \in Registered
  BY <1>1 DEF Registered
<1> QED
  BY <1>2, RegisteredFinite, FS_RemoveElement

LEMMA SubtractingSize ==
  ASSUME FdTypes, FdTypes', NEW w \in Threads, \A v \in Threads \ {w} : pc'[v] = pc[v]
  PROVE  /\ Cardinality(Subtracting) \in Nat /\ Cardinality(Subtracting') \in Nat
         /\ (pc[w] = "dec" <=> pc'[w] = "dec") => Cardinality(Subtracting') = Cardinality(Subtracting)
         /\ pc[w] # "dec" /\ pc'[w] = "dec" =>
              Cardinality(Subtracting') = Cardinality(Subtracting) + 1
         /\ pc[w] = "dec" /\ pc'[w] # "dec" =>
              Cardinality(Subtracting') = Cardinality(Subtracting) - 1
<1>1. /\ Subtracting \in SUBSET Threads /\ Subtracting' \in SUBSET Threads
      /\ \A v \in Threads : (v \in Subtracting <=> pc[v] = "dec") /\ (v \in Subtracting' <=> pc'[v] = "dec")
  BY DEF Subtracting
<1> QED
  BY <1>1, CardinalityByThread

-----------------------------------------------------------------------------
(* Steps that leave the registered events alone.                           *)

LEMMA FdQuiet ==
  ASSUME FdInv, fault = "none", FdTypes', OffInv', UNCHANGED <<fdEvents, waiter, pending>>,
         \A v \in Threads : pc'[v] = "dec" <=> pc[v] = "dec"
  PROVE  FdInv'
<1>1. Registered' = Registered /\ Subtracting' = Subtracting
  BY DEF Registered, Subtracting
<1> QED
  BY <1>1 DEF FdInv, CountedInv, WaitedInv

\* The scheduler's own steps: none is in the middle of a triggering.
LEMMA SchedulerFrame ==
  ASSUME FdTypes, OffInv, Main \/ \E w \in Threads : RunStep(w) \/ Body(w)
  PROVE  /\ OffInv' /\ shape' = shape /\ pc' \in [Threads -> IOPCs]
         /\ \A v \in Threads : pc'[v] = pc[v] \/ (pc[v] \in PCs /\ pc'[v] \in PCs)
<1>0. Caller \in Threads /\ PCs \subseteq IOPCs /\ (shape \in Shapes => ~shape.caller)
  BY IOAssumption DEF Threads, IOPCs
<1>1. ASSUME NEW w \in Threads, RunStep(w)
      PROVE  /\ shape' = shape /\ main' = main /\ isStopping' = isStopping /\ pc[w] \in PCs /\ pc[w] # "off"
             /\ \E l \in PCs : pc' = [pc EXCEPT ![w] = l]
  <2>1. shape' = shape /\ main' = main /\ isStopping' = isStopping
    BY <1>1 DEF RunStep, Pick, PickNothing, ResumeFiber, SkipDead, RunCallback, Ret, SettleReady,
       SettleDead, SettleOther, SetHold, ThreadExit, IdleIn, IdleOut, ctlVars
  <2>2. pc[w] \in PCs /\ pc[w] # "off"
    BY <1>1 DEF RunStep, Pick, PickNothing, ResumeFiber, SkipDead, RunCallback, Ret, SettleReady,
       SettleDead, SettleOther, SetHold, ThreadExit, IdleIn, IdleOut, At, PCs
  <2>3. pc' = pc \/ \E l \in PCs : pc' = [pc EXCEPT ![w] = l]
    BY <1>1 DEF RunStep, Pick, PickNothing, ResumeFiber, SkipDead, RunCallback, Ret, SettleReady,
       SettleDead, SettleOther, SetHold, ThreadExit, IdleIn, IdleOut, Goto, SwapIn, PCs
  <2>4. pc = [pc EXCEPT ![w] = pc[w]]
    BY DEF FdTypes
  <2> QED
    BY <2>1, <2>2, <2>3, <2>4
<1>2. ASSUME NEW w \in Threads, Body(w)
      PROVE  /\ shape' = shape /\ main' = main /\ isStopping' = isStopping /\ pc[w] \in PCs /\ pc[w] # "off"
             /\ \E l \in PCs : pc' = [pc EXCEPT ![w] = l]
  <2>1. shape' = shape /\ main' = main /\ isStopping' = isStopping
    BY <1>2 DEF Body, Finish, YieldToReady, YieldToHold, YieldTo, SwapOut, SwitchTo, Spawn, ctlVars
  <2>2. pc[w] \in PCs /\ pc[w] # "off"
    BY <1>2 DEF Body, Finish, YieldToReady, YieldToHold, YieldTo, SwapOut, SwitchTo, Spawn, At, PCs
  <2>3. pc' = pc \/ \E l \in PCs : pc' = [pc EXCEPT ![w] = l]
    BY <1>2 DEF Body, Finish, YieldToReady, YieldToHold, YieldTo, SwapOut, SwitchTo, Spawn, Goto, PCs
  <2>4. pc = [pc EXCEPT ![w] = pc[w]]
    BY DEF FdTypes
  <2> QED
    BY <2>1, <2>2, <2>3, <2>4
<1>3. ASSUME NEW w \in Threads, NEW l \in PCs, pc[w] \in PCs, pc[w] # "off", pc' = [pc EXCEPT ![w] = l],
             shape' = shape, main' = main, isStopping' = isStopping
      PROVE  /\ OffInv' /\ shape' = shape /\ pc' \in [Threads -> IOPCs]
             /\ \A v \in Threads : pc'[v] = pc[v] \/ (pc[v] \in PCs /\ pc'[v] \in PCs)
  BY <1>0, <1>3 DEF FdTypes, OffInv
<1>4. ASSUME Main
      PROVE  /\ OffInv' /\ shape' = shape /\ pc' \in [Threads -> IOPCs]
             /\ \A v \in Threads : pc'[v] = pc[v] \/ (pc[v] \in PCs /\ pc'[v] \in PCs)
  <2>1. CASE Start
    <3>1. \A w \in Threads : pc[w] = "off"
      BY <2>1 DEF Start, MainAt, OffInv
    <3>2. Caller \notin shape.workers
      BY ThreadsAssumption DEF FdTypes
    <3>3. /\ isStopping' = FALSE /\ main' = main /\ main = "user" /\ shape' = shape
          /\ pc' = [w \in Threads |-> IF w \in shape.workers THEN "pick" ELSE pc[w]]
      BY <2>1 DEF Start, MainAt
    <3>4. OffInv'
      BY <1>0, <3>1, <3>2, <3>3 DEF OffInv
    <3>5. "pick" \in PCs /\ "off" \in PCs
      BY DEF PCs
    <3> QED
      BY <1>0, <3>1, <3>3, <3>4, <3>5
  <2>2. CASE \E t \in Tasks, kind \in Kinds, thr \in Known(UserPins) : UserSchedule(t, kind, thr)
    BY <2>2 DEF UserSchedule, ctlVars, OffInv, FdTypes
  <2>3. CASE StopStep
    <3>1. pc' = pc /\ shape' = shape
      BY <1>0, <2>3 DEF StopStep, StopFlags, StopRoot, RootReturns, Join, FdTypes
    <3>2. OffInv'
      BY <2>3, <3>1 DEF StopStep, StopFlags, StopRoot, RootReturns, Join, MainAt, OffInv
    <3> QED
      BY <3>1, <3>2 DEF FdTypes
  <2> QED
    BY <1>4, <2>1, <2>2, <2>3 DEF Main
<1> QED
  BY <1>1, <1>2, <1>3, <1>4


LEMMA FdSchedulerStep ==
  ASSUME FdInv, fault = "none", Main \/ \E w \in Threads : RunStep(w) \/ Body(w), UNCHANGED ioVars
  PROVE  FdInv'
<1>1. /\ OffInv' /\ shape' = shape /\ pc' \in [Threads -> IOPCs]
      /\ \A v \in Threads : pc'[v] = pc[v] \/ (pc[v] \in PCs /\ pc'[v] \in PCs)
  BY SchedulerFrame DEF FdInv
<1>2. UNCHANGED <<fdEvents, waiter, pending, edge, got, todo>>
  BY DEF ioVars, fdVars, idleVars
<1>3. PCs \cap Triggering = {}
  BY DEF PCs, Triggering
<1>4. FdTypes'
  BY <1>1, <1>2, <1>3 DEF FdInv, FdTypes
<1>5. \A v \in Threads : pc'[v] = "dec" <=> pc[v] = "dec"
  BY <1>1, <1>3 DEF Triggering
<1> QED
  BY <1>1, <1>2, <1>4, <1>5, FdQuiet

\* A thread that has been started moves, outside of a triggering.
LEMMA FdMove ==
  ASSUME FdInv, fault = "none", NEW w \in Threads, NEW l \in IOPCs \ Triggering, pc[w] \notin Triggering \cup {"off"},
         pc' = [pc EXCEPT ![w] = l],
         UNCHANGED <<shape, main, isStopping, fdEvents, waiter, pending, todo>>,
         edge' \in [Fds -> SUBSET Reported], got' \in [Threads -> SUBSET (Fds \X SUBSET Reported)]
  PROVE  FdInv'
<1>1. FdTypes'
  BY DEF FdInv, FdTypes
<1>2. OffInv'
  BY DEF FdInv, FdTypes, OffInv, Threads
<1>3. \A v \in Threads : pc'[v] = "dec" <=> pc[v] = "dec"
  BY DEF FdInv, FdTypes, Triggering
<1> QED
  BY <1>1, <1>2, <1>3, FdQuiet

\* Steps that move no thread.
LEMMA FdStay ==
  ASSUME FdInv, fault = "none", UNCHANGED <<shape, main, isStopping, pc, fdEvents, waiter, pending, todo, got>>,
         edge' \in [Fds -> SUBSET Reported]
  PROVE  FdInv'
<1>1. FdTypes' /\ OffInv'
  BY DEF FdInv, FdTypes, OffInv
<1> QED
  BY <1>1, FdQuiet

\* The reports epoll_wait gives back, and what is left of them.
LEMMA FdIdle ==
  ASSUME FdInv, fault = "none", NEW w \in Threads,
         CheckTimers(w) \/ CheckPending(w) \/ CheckQueue(w) \/ EpollReturns(w)
         \/ ListExpired(w) \/ ScheduleExpired(w) \/ LeaveIdle(w)
  PROVE  FdInv'
<1>1. /\ pc[w] \notin Triggering \cup {"off"}
      /\ \E l \in IOPCs \ Triggering : pc' = [pc EXCEPT ![w] = l]
  BY DEF CheckTimers, CheckPending, CheckQueue, EpollReturns, ListExpired, ScheduleExpired,
         LeaveIdle, At, Goto, Triggering, IOPCs, PCs
<1>2. UNCHANGED <<shape, main, isStopping, fdEvents, waiter, pending, todo>>
  BY DEF CheckTimers, CheckPending, CheckQueue, EpollReturns, ListExpired, ScheduleExpired,
         LeaveIdle, schedRest, ctlVars, ioVars, fdVars
<1>3. edge' \in [Fds -> SUBSET Reported] /\ got' \in [Threads -> SUBSET (Fds \X SUBSET Reported)]
  <2>1. CASE EpollReturns(w)
    <3>1. {r \in {<<d, edge[d]>> : d \in Fds} : r[2] # {}} \in SUBSET (Fds \X SUBSET Reported)
      BY DEF FdInv, FdTypes
    <3>2. edge' = [d \in Fds |-> {}]
      BY <2>1 DEF EpollReturns
    <3> QED
      BY <2>1, <3>1, <3>2 DEF EpollReturns, FdInv, FdTypes
  <2>2. CASE ~EpollReturns(w)
    <3>1. edge' = edge /\ got' = got
      BY <2>2 DEF CheckTimers, CheckPending, CheckQueue, ListExpired, ScheduleExpired,
         LeaveIdle, ioVars, fdVars, idleVars
    <3> QED
      BY <3>1 DEF FdInv, FdTypes
  <2> QED
    BY <2>1, <2>2
<1> QED
  BY <1>1, <1>2, <1>3, FdMove


-----------------------------------------------------------------------------
(* Registering and triggering.                                             *)

LEMMA FdRegister ==
  ASSUME FdInv, fault = "none", NEW d \in Fds, NEW e \in Events, NEW entry, entry.kind # "none",
         Register(d, e, entry), UNCHANGED <<shape, main, isStopping>>, UNCHANGED got,
         pc' \in [Threads -> IOPCs],
         \A v \in Threads : \/ pc'[v] = pc[v]
                            \/ pc[v] \notin Triggering \cup {"off"} /\ pc'[v] \notin Triggering \cup {"off"}
  PROVE  FdInv'
<1>1. /\ e \notin fdEvents[d] /\ pending' = pending + 1
      /\ fdEvents' = [fdEvents EXCEPT ![d] = @ \cup {e}]
      /\ waiter' = [waiter EXCEPT ![d][e] = entry]
      /\ edge' = edge /\ todo' = todo
  BY DEF Register
<1>2. fdEvents' \in [Fds -> SUBSET Events]
  BY <1>1 DEF FdInv, FdTypes
<1>3. /\ PerEvent(waiter')
      /\ \A a \in Fds, b \in Events : waiter'[a][b] = IF a = d /\ b = e THEN entry ELSE waiter[a][b]
  <2>1. PerEvent(waiter)
    BY DEF FdInv, FdTypes
  <2>2. waiter' = With(waiter, d, e, entry)
    BY <1>1 DEF With
  <2> QED
    BY <2>1, <2>2, OneWaiter
<1>4. FdTypes'
  BY <1>1, <1>2, <1>3 DEF FdInv, FdTypes
<1>5. OffInv'
  BY DEF FdInv, FdTypes, OffInv, Threads
<1>6. Subtracting' = Subtracting
  BY DEF Subtracting, Triggering
<1>7. CountedInv'
  <2>1. Cardinality(Registered') = Cardinality(Registered) + 1
    BY <1>1, OneMore DEF FdInv
  <2>2. Cardinality(Subtracting) \in Nat
    BY FS_CardinalityType, ThreadsFinite, FS_Subset DEF Subtracting
  <2> QED
    BY <1>1, <1>6, <2>1, <2>2, RegisteredFinite DEF FdInv, CountedInv
<1>8. WaitedInv'
  <2>1. entry # NoEntry
    BY DEF NoEntry
  <2>2. ASSUME NEW a \in Fds, NEW b \in Events
        PROVE  (b \in fdEvents'[a]) <=> (waiter'[a][b] # NoEntry)
    <3>1. CASE a = d /\ b = e
      BY <1>1, <1>3, <2>1, <3>1 DEF FdInv, FdTypes
    <3>2. CASE ~(a = d /\ b = e)
      <4>1. waiter'[a][b] = waiter[a][b]
        BY <1>3, <3>2
      <4>2. b \in fdEvents'[a] <=> b \in fdEvents[a]
        BY <1>1, <3>2 DEF FdInv, FdTypes
      <4> QED
        BY <4>1, <4>2 DEF FdInv, WaitedInv
    <3> QED
      BY <3>1, <3>2
  <2> QED
    BY <2>2 DEF WaitedInv
<1> QED
  BY <1>4, <1>5, <1>7, <1>8 DEF FdInv

\* A thread begins to trigger events of d.
LEMMA FdStartTrigger ==
  ASSUME FdInv, fault = "none", NEW w \in Threads, NEW d \in Fds, NEW es \in SUBSET Events,
         NEW back \in {"run", "events"}, pc[w] \notin Triggering \cup {"off"},
         StartTrigger(w, d, es, back),
         UNCHANGED <<shape, main, isStopping, fdEvents, waiter, pending>>,
         got' \in [Threads -> SUBSET (Fds \X SUBSET Reported)]
  PROVE  FdInv'
<1>1. /\ edge' = [edge EXCEPT ![d] = IF fdEvents[d] \subseteq es THEN {} ELSE @ \ es]
      /\ todo' = [todo EXCEPT ![w] = [fd |-> d, left |-> es, back |-> back]]
      /\ pc' = [pc EXCEPT ![w] = "trigger"]
  BY DEF StartTrigger, Deregister, Goto
<1>2. edge' \in [Fds -> SUBSET Reported]
  BY <1>1 DEF FdInv, FdTypes
<1>3. todo' \in [Threads -> Todo] /\ todo'[w].fd = d /\ \A v \in Threads \ {w} : todo'[v] = todo[v]
  BY <1>1 DEF FdInv, FdTypes, Todo
<1>4. pc' \in [Threads -> IOPCs] /\ \A v \in Threads \ {w} : pc'[v] = pc[v]
  BY <1>1 DEF FdInv, FdTypes, IOPCs
<1>5. FdTypes'
  BY <1>2, <1>3, <1>4 DEF FdInv, FdTypes
<1>6. OffInv'
  BY <1>1 DEF FdInv, FdTypes, OffInv, Threads
<1>7. \A v \in Threads : pc'[v] = "dec" <=> pc[v] = "dec"
  BY <1>1 DEF FdInv, FdTypes, Triggering
<1> QED
  BY <1>5, <1>6, <1>7, FdQuiet

LEMMA FdReport ==
  ASSUME FdInv, fault = "none", NEW w \in Threads, HandleReport(w)
  PROVE  FdInv'
<1>1. PICK r \in got[w] :
        /\ got' = [got EXCEPT ![w] = @ \ {r}]
        /\ IF RealEvents(r[1], r[2]) \cap fdEvents[r[1]] = {}
           THEN UNCHANGED <<pc, fdLock, edge, todo>>
           ELSE StartTrigger(w, r[1], RealEvents(r[1], r[2]), "events")
  BY DEF HandleReport
<1>2. UNCHANGED <<shape, main, isStopping, fdEvents, waiter, pending>>
  BY DEF HandleReport, schedRest, ctlVars
<1>3. r[1] \in Fds /\ RealEvents(r[1], r[2]) \in SUBSET Events
  BY DEF FdInv, FdTypes, RealEvents
<1>4. got' \in [Threads -> SUBSET (Fds \X SUBSET Reported)]
  BY <1>1 DEF FdInv, FdTypes
<1>5. CASE UNCHANGED <<pc, edge, todo>>
  <2>1. FdTypes' /\ OffInv'
    BY <1>2, <1>4, <1>5 DEF FdInv, FdTypes, OffInv
  <2> QED
    BY <1>2, <1>5, <2>1, FdQuiet
<1>6. CASE StartTrigger(w, r[1], RealEvents(r[1], r[2]), "events")
  <2>1. pc[w] \notin Triggering \cup {"off"}
    BY DEF HandleReport, At, Triggering
  <2> QED
    BY <1>2, <1>3, <1>4, <1>6, <2>1, FdStartTrigger
<1> QED
  BY <1>1, <1>5, <1>6

LEMMA FdTrigger ==
  ASSUME FdInv, fault = "none", NEW w \in Threads, Trigger(w)
  PROVE  FdInv'
<1> DEFINE d == todo[w].fd
           e == IF "READ" \in todo[w].left THEN "READ" ELSE "WRITE"
<1>1. /\ pc[w] = "trigger" /\ fault' = (IF e \in fdEvents[d] THEN "none" ELSE "assert")
      /\ fdEvents' = [fdEvents EXCEPT ![d] = @ \ {e}]
      /\ waiter' = [waiter EXCEPT ![d][e] = NoEntry]
      /\ todo' = [todo EXCEPT ![w].left = @ \ {e}]
      /\ pc' = [pc EXCEPT ![w] = "dec"]
      /\ UNCHANGED <<shape, main, isStopping, edge, pending, got>>
  BY DEF Trigger, At, Goto, ctlVars, idleVars
<1>2. d \in Fds /\ e \in Events /\ todo[w] \in Todo
  BY <1>1 DEF FdInv, FdTypes, Triggering, Events
<1>3. todo' \in [Threads -> Todo] /\ \A v \in Threads : todo'[v].fd = todo[v].fd
  <2>1. todo'[w] \in Todo /\ todo'[w].fd = d
    BY <1>1, <1>2 DEF FdInv, FdTypes, Todo
  <2> QED
    BY <1>1, <2>1 DEF FdInv, FdTypes
<1> HIDE DEF d, e
<1>4. /\ PerEvent(waiter')
      /\ \A a \in Fds, b \in Events : waiter'[a][b] = IF a = d /\ b = e THEN NoEntry ELSE waiter[a][b]
  <2>1. PerEvent(waiter)
    BY DEF FdInv, FdTypes
  <2>2. waiter' = With(waiter, d, e, NoEntry)
    BY <1>1 DEF With
  <2> QED
    BY <2>2, <1>2, <2>1, OneWaiter
<1>5. fdEvents' \in [Fds -> SUBSET Events]
  BY <1>1 DEF FdInv, FdTypes
<1>6. pc' \in [Threads -> IOPCs] /\ pc'[w] = "dec" /\ \A v \in Threads \ {w} : pc'[v] = pc[v]
  BY <1>1 DEF FdInv, FdTypes, IOPCs
<1>7. FdTypes'
  BY <1>1, <1>2, <1>3, <1>4, <1>5, <1>6 DEF FdInv, FdTypes, Triggering, d
<1>8. OffInv'
  BY <1>1, <1>6 DEF FdInv, OffInv, Threads
<1>9. CountedInv'
  <2> SUFFICES ASSUME e \in fdEvents[d]
               PROVE  pending' = Cardinality(Registered') + Cardinality(Subtracting')
    BY <1>1 DEF CountedInv
  <2>1. Cardinality(Registered') = Cardinality(Registered) - 1
    BY <1>1, <1>2, OneLess DEF FdInv
  <2>2. /\ Cardinality(Subtracting) \in Nat
        /\ Cardinality(Subtracting') = Cardinality(Subtracting) + 1
    BY <1>1, <1>6, <1>7, SubtractingSize DEF FdInv
  <2> QED
    BY <1>1, <2>1, <2>2, RegisteredFinite DEF FdInv, CountedInv
<1>10. WaitedInv'
  <2> SUFFICES ASSUME NEW a \in Fds, NEW b \in Events
               PROVE  (b \in fdEvents'[a]) <=> (waiter'[a][b] # NoEntry)
    BY DEF WaitedInv
  <2>1. waiter'[a][b] = IF a = d /\ b = e THEN NoEntry ELSE waiter[a][b]
    BY <1>4
  <2>2. b \in fdEvents'[a] <=> b \in fdEvents[a] /\ ~(a = d /\ b = e)
    BY <1>1 DEF FdInv, FdTypes
  <2> QED
    BY <2>1, <2>2 DEF FdInv, WaitedInv
<1> QED
  BY <1>7, <1>8, <1>9, <1>10 DEF FdInv

LEMMA FdDecPending ==
  ASSUME FdInv, fault = "none", NEW w \in Threads, DecPending(w)
  PROVE  FdInv'
<1>1. /\ pc[w] = "dec" /\ pending' = pending - 1 /\ fault' = fault
      /\ UNCHANGED <<shape, main, isStopping, fdEvents, waiter, edge, got>>
      /\ \/ todo' = [todo EXCEPT ![w] = NoTodo] /\ pc' = [pc EXCEPT ![w] = todo[w].back]
         \/ todo' = todo /\ pc' = [pc EXCEPT ![w] = "trigger"]
  BY DEF DecPending, At, Goto, ctlVars, idleVars
<1>2. todo[w] \in Todo /\ todo[w].back \in {"run", "events"} /\ NoTodo \in Todo /\ todo[w].fd \in Fds
  BY <1>1 DEF FdInv, FdTypes, Todo, NoTodo, Triggering
<1>3. pc' \in [Threads -> IOPCs] /\ pc'[w] \in {"run", "events", "trigger"}
      /\ \A v \in Threads \ {w} : pc'[v] = pc[v]
  BY <1>1, <1>2 DEF FdInv, FdTypes, IOPCs, PCs
<1>4. todo' \in [Threads -> Todo]
  BY <1>1, <1>2 DEF FdInv, FdTypes
<1>5. \A v \in Threads : pc'[v] \in Triggering => todo'[v].fd \in Fds
  BY <1>1, <1>2, <1>3 DEF FdInv, FdTypes, Triggering
<1>6. FdTypes'
  BY <1>1, <1>3, <1>4, <1>5 DEF FdInv, FdTypes
<1>7. OffInv'
  BY <1>1, <1>3 DEF FdInv, OffInv, Threads
<1>8. CountedInv'
  <2>1. /\ Cardinality(Subtracting) \in Nat /\ Cardinality(Subtracting') \in Nat
        /\ Cardinality(Subtracting') = Cardinality(Subtracting) - 1
    BY <1>1, <1>3, <1>6, SubtractingSize DEF FdInv
  <2>2. Registered' = Registered
    BY <1>1 DEF Registered
  <2> QED
    BY <1>1, <2>1, <2>2, RegisteredFinite DEF FdInv, CountedInv
<1>9. WaitedInv'
  BY <1>1 DEF FdInv, WaitedInv
<1> QED
  BY <1>6, <1>7, <1>8, <1>9 DEF FdInv

LEMMA FdDelEvent ==
  ASSUME FdInv, fault = "none", NEW w \in Threads, NEW d \in Fds, NEW e \in Events, DelEvent(w, d, e)
  PROVE  FdInv'
<1>1. /\ e \in fdEvents[d] /\ pending' = pending - 1
      /\ fdEvents' = [fdEvents EXCEPT ![d] = @ \ {e}]
      /\ waiter' = [waiter EXCEPT ![d][e] = NoEntry]
      /\ edge' = [edge EXCEPT ![d] = IF fdEvents[d] \subseteq {e} THEN {} ELSE @ \ {e}]
      /\ UNCHANGED <<shape, main, isStopping, pc, todo, got, fault>>
  BY DEF DelEvent, Deregister, ctlVars, idleVars
<1>2. edge' \in [Fds -> SUBSET Reported] /\ fdEvents' \in [Fds -> SUBSET Events]
  BY <1>1 DEF FdInv, FdTypes
<1>3. /\ PerEvent(waiter')
      /\ \A a \in Fds, b \in Events : waiter'[a][b] = IF a = d /\ b = e THEN NoEntry ELSE waiter[a][b]
  <2>1. PerEvent(waiter)
    BY DEF FdInv, FdTypes
  <2>2. waiter' = With(waiter, d, e, NoEntry)
    BY <1>1 DEF With
  <2> QED
    BY <2>1, <2>2, OneWaiter
<1>4. FdTypes' /\ OffInv'
  BY <1>1, <1>2, <1>3 DEF FdInv, FdTypes, OffInv
<1>5. CountedInv'
  <2>1. Cardinality(Registered') = Cardinality(Registered) - 1
    BY <1>1, OneLess DEF FdInv
  <2>2. Subtracting' = Subtracting /\ Cardinality(Subtracting) \in Nat
    BY <1>1, FS_CardinalityType, ThreadsFinite, FS_Subset DEF Subtracting
  <2> QED
    BY <1>1, <2>1, <2>2, RegisteredFinite DEF FdInv, CountedInv
<1>6. WaitedInv'
  <2> SUFFICES ASSUME NEW a \in Fds, NEW b \in Events
               PROVE  (b \in fdEvents'[a]) <=> (waiter'[a][b] # NoEntry)
    BY DEF WaitedInv
  <2>1. waiter'[a][b] = IF a = d /\ b = e THEN NoEntry ELSE waiter[a][b]
    BY <1>3
  <2>2. b \in fdEvents'[a] <=> b \in fdEvents[a] /\ ~(a = d /\ b = e)
    BY <1>1 DEF FdInv, FdTypes
  <2> QED
    BY <2>1, <2>2 DEF FdInv, WaitedInv
<1> QED
  BY <1>4, <1>5, <1>6 DEF FdInv

\* addEvent with a callback, or of the fiber that will wait.
LEMMA FdAdd ==
  ASSUME FdInv, fault = "none", NEW d \in Fds, NEW e \in Events,
         (\E t \in Tasks : AddEventCb(d, e, t)) \/ (\E w \in Threads : WaitEvent(w, d, e))
  PROVE  FdInv'
<1>1. CASE \E t \in Tasks : AddEventCb(d, e, t)
  <2>1. PICK t \in Tasks : AddEventCb(d, e, t)
    BY <1>1
  <2>2. pc' = pc /\ UNCHANGED <<shape, main, isStopping>>
    BY <2>1 DEF AddEventCb, ctlVars
  <2> DEFINE entry == [kind |-> "cb", item |-> t, thr |-> AnyThread]
  <2>3. Register(d, e, entry) /\ entry.kind # "none" /\ got' = got
    BY <2>1 DEF AddEventCb, Register, idleVars
  <2>4. pc' \in [Threads -> IOPCs]
    BY <2>2 DEF FdInv, FdTypes
  <2> HIDE DEF entry
  <2> QED
    BY <2>2, <2>3, <2>4, FdRegister
<1>2. CASE \E w \in Threads : WaitEvent(w, d, e)
  <2>1. PICK w \in Threads : WaitEvent(w, d, e)
    BY <1>2
  <2>2. /\ pc[w] = "run" /\ UNCHANGED <<shape, main, isStopping>>
        /\ \E l \in {"hold", "run"} : pc' = [pc EXCEPT ![w] = l]
    BY <2>1 DEF WaitEvent, At, Goto, ctlVars
  <2> DEFINE entry == [kind |-> "fiber", item |-> cur[w], thr |-> AnyThread]
  <2>3. Register(d, e, entry) /\ entry.kind # "none" /\ got' = got
    BY <2>1 DEF WaitEvent, Register, idleVars
  <2>4. /\ pc' \in [Threads -> IOPCs]
        /\ \A v \in Threads : \/ pc'[v] = pc[v]
                              \/ pc[v] \notin Triggering \cup {"off"} /\ pc'[v] \notin Triggering \cup {"off"}
    BY <2>2 DEF FdInv, FdTypes, IOPCs, PCs, Triggering
  <2> HIDE DEF entry
  <2> QED
    BY <2>2, <2>3, <2>4, FdRegister
<1> QED
  BY <1>1, <1>2

LEMMA FdCancel ==
  ASSUME FdInv, fault = "none", NEW w \in Threads, NEW d \in Fds, NEW es \in SUBSET Events, Cancel(w, d, es)
  PROVE  FdInv'
<1>1. /\ pc[w] = "run" /\ StartTrigger(w, d, es, "run")
      /\ UNCHANGED <<shape, main, isStopping, fdEvents, waiter, pending, got>>
  BY DEF Cancel, At, ctlVars, idleVars
<1>2. "run" \notin Triggering \cup {"off"} /\ got' \in [Threads -> SUBSET (Fds \X SUBSET Reported)]
  BY <1>1 DEF Triggering, FdInv, FdTypes
<1> QED
  BY <1>1, <1>2, FdStartTrigger

\* Timers, the wake-up pipe, and the kernel.
LEMMA FdOutside ==
  ASSUME FdInv, fault = "none",
         \/ \E w \in Threads : IOTickle(w)
         \/ \E w \in Threads, t \in Tasks : AddTimer(w, t)
         \/ \E t \in Tasks : TimerDue(t)
         \/ \E d \in Fds, e \in Reported : FdReady(d, e)
  PROVE  FdInv'
<1>1. UNCHANGED <<shape, main, isStopping, pc, fdEvents, waiter, pending, todo, got>>
  BY DEF IOTickle, AddTimer, TimerDue, FdReady, ctlVars, vars, fdVars, idleVars
<1>2. edge' \in [Fds -> SUBSET Reported]
  <2>1. CASE \E d \in Fds, e \in Reported : FdReady(d, e)
    BY <2>1 DEF FdReady, FdInv, FdTypes
  <2>2. CASE ~\E d \in Fds, e \in Reported : FdReady(d, e)
    <3>1. edge' = edge
      BY <2>2 DEF IOTickle, AddTimer, TimerDue, fdVars
    <3> QED
      BY <3>1 DEF FdInv, FdTypes
  <2> QED
    BY <2>1, <2>2
<1> QED
  BY <1>1, <1>2, FdStay

-----------------------------------------------------------------------------
(* The invariant.                                                          *)

LEMMA FdInit == IOInit => FdInv
<1> SUFFICES ASSUME IOInit
             PROVE  FdInv
  OBVIOUS
<1>1. PerEvent(waiter) /\ \A d \in Fds, e \in Events : waiter[d][e] = NoEntry
  BY DEF IOInit, PerEvent
<1>2. todo \in [Threads -> Todo]
  BY DEF IOInit, Todo, NoTodo
<1>3. shape \in Shapes /\ pc = [w \in Threads |-> "off"] /\ main = "user"
  BY DEF IOInit, Init
<1>4. FdTypes
  <2>1. pc \in [Threads -> IOPCs] /\ \A w \in Threads : pc[w] \notin Triggering
    BY <1>3 DEF IOPCs, PCs, Triggering
  <2> QED
    BY <1>1, <1>2, <1>3, <2>1 DEF FdTypes, IOInit
<1>5. OffInv
  BY <1>3 DEF OffInv, Threads
<1>6. CountedInv
  <2>1. Registered = {} /\ Subtracting = {}
    BY <1>3 DEF Registered, Subtracting, IOInit
  <2> QED
    BY <2>1, FS_EmptySet DEF CountedInv, IOInit
<1>7. WaitedInv
  BY <1>1 DEF WaitedInv, IOInit
<1> QED
  BY <1>4, <1>5, <1>6, <1>7 DEF FdInv

\* Every step needs that nothing has failed.
LEMMA FaultEnds ==
  ASSUME IONext
  PROVE  fault = "none"
<1>1. ASSUME Main \/ IOMain
      PROVE  fault = "none"
  BY <1>1 DEF Main, IOMain, Start, UserSchedule, StopStep, StopFlags, StopRoot, RootReturns, Join, MainAt
<1>2. ASSUME NEW w \in Threads, RunStep(w) \/ Body(w)
      PROVE  fault = "none"
  BY <1>2 DEF RunStep, Pick, PickNothing, ResumeFiber, SkipDead, RunCallback, Ret, SettleReady,
       SettleDead, SettleOther, SetHold, ThreadExit, IdleIn, IdleOut, Body, Finish, YieldToReady,
       YieldToHold, YieldTo, SwapOut, SwitchTo, Spawn, At
<1>3. ASSUME NEW w \in Threads, IOTickle(w) \/ IOIdle(w) \/ Trigger(w) \/ DecPending(w) \/ IOBody(w)
      PROVE  fault = "none"
  BY <1>3 DEF IOTickle, IOIdle, CheckTimers, CheckPending, CheckQueue, EpollReturns, ListExpired,
       ScheduleExpired, HandleReport, LeaveIdle, Trigger, DecPending, IOBody, WaitEvent, DelEvent, Cancel, At
<1>4. ASSUME (\E t \in Tasks : TimerDue(t)) \/ \E d \in Fds, e \in Events \cup {"ERR"} : FdReady(d, e)
      PROVE  fault = "none"
  BY <1>4 DEF TimerDue, FdReady
<1> QED
  BY <1>1, <1>2, <1>3, <1>4 DEF IONext, IOThread

LEMMA FdStep == FdInv /\ [IONext]_ioAll => FdInv'
<1> SUFFICES ASSUME FdInv, [IONext]_ioAll
             PROVE  FdInv'
  OBVIOUS
<1>1. CASE UNCHANGED ioAll
  <2>1. UNCHANGED <<shape, main, isStopping, pc, fdEvents, waiter, pending, todo, got, edge, fault>>
    BY <1>1 DEF ioAll, vars, ctlVars, ioVars, fdVars, idleVars, threadVars
  <2> QED
    BY <2>1 DEF FdInv, FdTypes, OffInv, CountedInv, WaitedInv, Registered, Subtracting
<1>2. IONext => fault = "none"
  BY FaultEnds
<1>3. CASE Main /\ UNCHANGED ioVars
  BY <1>2, <1>3, FdSchedulerStep DEF IONext
<1>4. CASE IOMain
  <2>1. Caller \in Threads
    BY DEF Threads
  <2> QED
    BY <1>2, <1>4, <2>1, FdOutside, FdAdd DEF IONext, IOMain
<1>5. ASSUME NEW w \in Threads, IOThread(w)
      PROVE  FdInv'
  <2>1. fault = "none"
    BY <1>2, <1>5 DEF IONext
  <2>2. CASE (RunStep(w) \/ Body(w)) /\ UNCHANGED ioVars
    BY <2>1, <2>2, FdSchedulerStep
  <2>3. CASE IOTickle(w)
    BY <2>1, <2>3, FdOutside
  <2>4. CASE IOIdle(w)
    BY <2>1, <2>4, FdIdle, FdReport DEF IOIdle
  <2>5. CASE Trigger(w)
    BY <2>1, <2>5, FdTrigger
  <2>6. CASE DecPending(w)
    BY <2>1, <2>6, FdDecPending
  <2>7. CASE IOBody(w)
    BY <2>1, <2>7, FdOutside, FdAdd, FdDelEvent, FdCancel DEF IOBody
  <2> QED
    BY <1>5, <2>2, <2>3, <2>4, <2>5, <2>6, <2>7 DEF IOThread
<1>6. CASE \/ \E t \in Tasks : TimerDue(t)
           \/ \E d \in Fds, e \in Events \cup {"ERR"} : FdReady(d, e)
  BY <1>2, <1>6, FdOutside DEF IONext, Reported
<1> QED
  BY <1>1, <1>3, <1>4, <1>5, <1>6 DEF IONext

LEMMA FdInvariant == IOSpec => []FdInv
<1> QED
  BY FdInit, FdStep, PTL DEF IOSpec

(***************************************************************************)
(* __pendingEventCount, which stopping() and with it every idle thread     *)
(* trusts, is the number of registered events, plus the threads inside     *)
(* triggerEvent()'s caller between clearing an event and subtracting it.   *)
(***************************************************************************)
THEOREM PendingExact == IOSpec => []PendingIsRegistered
<1>1. FdInv => PendingIsRegistered
  BY DEF FdInv, CountedInv, Registered, Subtracting, PendingIsRegistered
<1> QED
  BY <1>1, FdInvariant, PTL

(***************************************************************************)
(* A context holds a waiter exactly while its event is registered, however *)
(* registrations, cancellations, deletions, errors reported by the kernel  *)
(* and the threads that handle reports interleave: no waiter is forgotten  *)
(* and none is left over.                                                  *)
(***************************************************************************)
THEOREM WaitersAreRegistered ==
  IOSpec => [](\A d \in Fds, e \in Events : (e \in fdEvents[d]) <=> (waiter[d][e] # NoEntry))
<1>1. FdInv => \A d \in Fds, e \in Events : (e \in fdEvents[d]) <=> (waiter[d][e] # NoEntry)
  BY DEF FdInv, WaitedInv
<1> QED
  BY <1>1, FdInvariant, PTL

-----------------------------------------------------------------------------
(* One worker: what adding, triggering and dropping do to the one thread   *)
(* of the loop (SoloInv in Scheduler_proofs).                              *)

\* A new task is kept by a timer or an event.
LEMMA SoloKeep ==
  ASSUME NEW w \in Threads, NEW out, NEW kept, SoloInv(w, out, kept), NEW t \in Tasks, status[t] = "new",
         status' = [status EXCEPT ![t] = "queued"],
         UNCHANGED <<fibers, fiberVars, pc, ft, cur, cbFiber, fault>>
  PROVE  SoloInv(w, out, kept \cup {t})' /\ t \notin kept
<1>0. /\ SoloTypes /\ fstate[t] = "NONE" /\ prog[t] = None
      /\ UNCHANGED <<fibers, fstate, prog, pc, ft, cur, cbFiber, fault>>
  BY DEF SoloInv, SoloPlaces, SoloPrograms, fiberVars
<1>1. SoloTypes' /\ status'[t] = "queued" /\ \A g \in Tasks \ {t} : status'[g] = status[g]
  BY <1>0 DEF SoloTypes
<1>2. SoloThread(w)' /\ SoloStates(w)' /\ CbOnce' /\ Queue' = Queue
  BY <1>0 DEF SoloInv, SoloThread, SoloStates, SoloPlaces, CbOnce, Queue
<1>3. \A g \in Tasks : prog[g] # None => prog[g] \in Tasks \ {t}
  BY <1>0 DEF SoloInv, SoloPrograms, SoloTypes
<1>4. SoloPrograms'
  BY <1>0, <1>1, <1>3 DEF SoloInv, SoloPrograms
<1>5. \A g \in Tasks : Fresh(g) => Fresh(g)' /\ g # t
  BY <1>0, <1>1 DEF Fresh
<1>6. Fresh(t)'
  BY <1>0, <1>1 DEF Fresh
<1>7. (\A e \in Queue : e.item \in Tasks) /\ (ft[w].kind = "cb" => ft[w].item \in Tasks)
  BY <1>0, QueueEntries, EntryKinds DEF SoloTypes
<1>8. SoloPlaces(w, out, kept \cup {t})'
  <2>1. \A g \in Tasks : status'[g] = "new" => fstate'[g] = "NONE"
    BY <1>0, <1>1 DEF SoloInv, SoloPlaces
  <2>2. \A e \in Queue : IF e.kind = "cb" THEN Fresh(e.item)' /\ e.item \notin kept \cup {t}
                         ELSE fstate'[e.item] # "NONE"
    BY <1>0, <1>5, <1>7 DEF SoloInv, SoloPlaces
  <2>3. ft[w].kind = "cb" => /\ Fresh(ft[w].item)' /\ ft[w].item \notin kept \cup {t}
                             /\ \A e \in Queue : e.kind = "cb" => e.item # ft[w].item
    BY <1>5, <1>7 DEF SoloInv, SoloPlaces
  <2>4. \A g \in kept \cup {t} : g \in Tasks /\ Fresh(g)'
    BY <1>5, <1>6 DEF SoloInv, SoloPlaces
  <2> QED
    BY <1>0, <1>2, <2>1, <2>2, <2>3, <2>4 DEF SoloInv, SoloPlaces
<1>9. SoloKeeps(w, out, kept \cup {t})'
  BY <1>0, <1>1, <1>2 DEF SoloInv, SoloKeeps, SoloHas, For
<1> QED
  BY <1>0, <1>1, <1>2, <1>4, <1>5, <1>8, <1>9 DEF SoloInv, SoloPlaces

\* A kept task is dropped.
LEMMA SoloDrop ==
  ASSUME NEW w \in Threads, NEW out, NEW kept, SoloInv(w, out, kept), NEW t \in kept,
         status' = [status EXCEPT ![t] = "done"],
         UNCHANGED <<fibers, fiberVars, pc, ft, cur, cbFiber, fault>>
  PROVE  SoloInv(w, out, kept \ {t})'
<1>0. /\ SoloTypes /\ t \in Tasks /\ Fresh(t)
      /\ UNCHANGED <<fibers, fstate, prog, pc, ft, cur, cbFiber, fault>>
  BY DEF SoloInv, SoloPlaces, fiberVars
<1>1. SoloTypes' /\ status'[t] = "done" /\ \A g \in Tasks \ {t} : status'[g] = status[g]
  BY <1>0 DEF SoloTypes
<1>2. SoloThread(w)' /\ SoloStates(w)' /\ CbOnce' /\ Queue' = Queue
  BY <1>0 DEF SoloInv, SoloThread, SoloStates, SoloPlaces, CbOnce, Queue
<1>3. \A g \in Tasks : prog[g] # None => prog[g] \in Tasks \ {t}
  BY <1>0 DEF SoloInv, SoloPrograms, SoloTypes, Fresh
<1>4. SoloPrograms'
  BY <1>0, <1>1, <1>3 DEF SoloInv, SoloPrograms
<1>5. \A g \in Tasks \ {t} : Fresh(g) => Fresh(g)'
  BY <1>0, <1>1 DEF Fresh
<1>7. (\A e \in Queue : e.item \in Tasks) /\ (ft[w].kind = "cb" => ft[w].item \in Tasks)
  BY <1>0, QueueEntries, EntryKinds DEF SoloTypes
<1>8. SoloPlaces(w, out, kept \ {t})'
  <2>1. \A g \in Tasks : status'[g] = "new" => fstate'[g] = "NONE"
    BY <1>0, <1>1 DEF SoloInv, SoloPlaces
  <2>2. \A e \in Queue : IF e.kind = "cb" THEN Fresh(e.item)' /\ e.item \notin kept
                         ELSE fstate'[e.item] # "NONE"
    BY <1>0, <1>5, <1>7 DEF SoloInv, SoloPlaces
  <2>3. ft[w].kind = "cb" => /\ Fresh(ft[w].item)' /\ ft[w].item \notin kept
                             /\ \A e \in Queue : e.kind = "cb" => e.item # ft[w].item
    BY <1>5, <1>7 DEF SoloInv, SoloPlaces
  <2>4. \A g \in kept \ {t} : g \in Tasks /\ Fresh(g)'
    BY <1>5 DEF SoloInv, SoloPlaces
  <2> QED
    BY <1>0, <1>2, <2>1, <2>2, <2>3, <2>4 DEF SoloInv, SoloPlaces
<1>9. SoloKeeps(w, out, kept \ {t})'
  BY <1>0, <1>1, <1>2 DEF SoloInv, SoloKeeps, SoloHas, For
<1> QED
  BY <1>0, <1>1, <1>2, <1>4, <1>8, <1>9 DEF SoloInv

\* A waiter is scheduled: a fiber that may still wait elsewhere, or a callback.
LEMMA SoloWake ==
  ASSUME NEW w \in Threads, NEW out, NEW kept, SoloInv(w, out, kept), NEW more, NEW rest, NEW e \in Entry,
         IF e.kind = "cb" THEN more = out /\ e.item \in kept /\ rest = kept \ {e.item}
         ELSE e.item \in out /\ more \subseteq out /\ out \subseteq more \cup {e.item} /\ rest = kept,
         fibers' = Append(fibers, e), pc[w] \notin PCs, NEW l, l \notin PCs, pc' = [pc EXCEPT ![w] = l],
         UNCHANGED <<fiberVars, ft, cur, cbFiber, status, fault>>
  PROVE  SoloInv(w, more, rest)'
<1>0. /\ SoloTypes /\ UNCHANGED <<fstate, prog, ft, cur, cbFiber, status, fault>>
      /\ e.item \in Tasks /\ e.kind \in {"cb", "fiber"}
      /\ OffStack \subseteq HasFiber /\ HasFiber \subseteq PCs
  BY EntryKinds DEF SoloInv, fiberVars, OffStack, HasFiber, PCs
<1>1. fibers' \in Seq(Entry) /\ Queue' = Queue \cup {e} /\ CbOnce'
  <2>1. e.kind = "cb" => \A x \in Queue : x.kind = "cb" => x.item # e.item
    BY DEF SoloInv, SoloPlaces
  <2> QED
    BY <1>0, <2>1, Appended DEF SoloInv, SoloTypes, SoloPlaces
<1>2. SoloTypes' /\ pc'[w] = l /\ \A u \in Threads \ {w} : pc'[u] = pc[u]
  BY <1>0, <1>1 DEF SoloTypes
<1>3. SoloThread(w)' /\ SoloStates(w)' /\ SoloPrograms'
  <2>1. /\ pc[w] \notin HasFiber \cup OffStack \cup {"pick", "dispatch", "sethold", "hold"}
        /\ l \notin HasFiber \cup OffStack \cup {"pick", "dispatch", "sethold", "hold"}
    BY DEF PCs, HasFiber, OffStack
  <2>2. SoloThread(w)'
    BY <1>0, <1>2, <2>1 DEF SoloInv, SoloThread
  <2>3. SoloStates(w)'
    BY <1>0, <1>2, <2>1 DEF SoloInv, SoloStates
  <2>4. SoloPrograms'
    BY <1>0 DEF SoloInv, SoloPrograms
  <2> QED
    BY <2>2, <2>3, <2>4
<1>4. SoloPlaces(w, more, rest)'
  <2>1. \A t \in Tasks : Fresh(t)' <=> Fresh(t)
    BY <1>0 DEF Fresh
  <2>2. IF e.kind = "cb" THEN Fresh(e.item) /\ e.item \notin rest ELSE fstate[e.item] # "NONE"
    BY <1>0 DEF SoloInv, SoloPlaces
  <2>3. \A x \in Queue' : IF x.kind = "cb" THEN Fresh(x.item)' /\ x.item \notin rest ELSE fstate'[x.item] # "NONE"
    <3>1. \A x \in Queue : IF x.kind = "cb" THEN Fresh(x.item) /\ x.item \notin kept ELSE fstate[x.item] # "NONE"
      BY DEF SoloInv, SoloPlaces
    <3>2. \A x \in Queue : x.item \in Tasks
      BY <1>0, QueueEntries, EntryKinds
    <3> QED
      BY <1>0, <1>1, <2>1, <2>2, <3>1, <3>2
  <2>4. ft[w].kind = "cb" => /\ Fresh(ft[w].item)' /\ ft[w].item \notin rest
                             /\ \A x \in Queue' : x.kind = "cb" => x.item # ft[w].item
    <3>1. ft[w].kind = "cb" => ft[w].item \in Tasks
      BY <1>0, EntryKinds DEF SoloTypes
    <3> QED
      BY <1>0, <1>1, <2>1, <3>1 DEF SoloInv, SoloPlaces
  <2>5. (\A t \in rest : t \in Tasks /\ Fresh(t)') /\ \A f \in more : f \in Tasks /\ fstate'[f] # "NONE"
    BY <1>0, <2>1 DEF SoloInv, SoloPlaces
  <2> QED
    BY <1>0, <1>1, <2>3, <2>4, <2>5 DEF SoloInv, SoloPlaces
<1>5. SoloKeeps(w, more, rest)'
  <2>1. \A t \in Tasks : SoloHas(w, out, kept, t) => SoloHas(w, more, rest, t)'
    BY <1>0, <1>1 DEF SoloHas, For
  <2> QED
    BY <1>0, <1>1, <1>2, <2>1 DEF SoloInv, SoloKeeps, PCs, OffStack
<1> QED
  BY <1>0, <1>2, <1>3, <1>4, <1>5 DEF SoloInv

\* A fiber has registered itself and is about to hold, or goes on.
LEMMA SoloAwait ==
  ASSUME NEW w \in Threads, NEW out, NEW kept, SoloInv(w, out, kept), NEW f, f = cur[w], pc[w] = "run",
         f # None, prog[f] # None, NEW l \in {"hold", "run"}, pc' = [pc EXCEPT ![w] = l], fault' = "none",
         UNCHANGED <<fibers, fiberVars, ft, cur, cbFiber, status>>
  PROVE  SoloInv(w, out \cup {f}, kept)'
<1>0. SoloTypes /\ f \in Tasks /\ UNCHANGED <<fibers, fstate, prog, ft, cur, cbFiber, status>>
  BY DEF SoloInv, SoloTypes, fiberVars
<1>1. SoloTypes' /\ Queue' = Queue /\ CbOnce' /\ pc'[w] = l /\ \A u \in Threads \ {w} : pc'[u] = pc[u]
  BY <1>0 DEF SoloTypes, Queue, CbOnce, SoloInv, SoloPlaces
<1>2. SoloThread(w)' /\ SoloStates(w)' /\ SoloPrograms'
  BY <1>0, <1>1 DEF SoloInv, SoloThread, SoloStates, SoloPrograms, OffStack, HasFiber
<1>3. SoloPlaces(w, out \cup {f}, kept)'
  BY <1>0, <1>1 DEF SoloInv, SoloPlaces, Fresh
<1>4. SoloKeeps(w, out \cup {f}, kept)'
  BY <1>0, <1>1 DEF SoloInv, SoloKeeps, SoloHas, For, OffStack
<1> QED
  BY <1>1, <1>2, <1>3, <1>4 DEF SoloInv

\* The callbacks of the timers that were due are scheduled.
LEMMA SoloBatch ==
  ASSUME NEW w \in Threads, NEW out, NEW kept, SoloInv(w, out, kept), NEW gone \in SUBSET kept,
         NEW b \in Seq(Entry), fibers' = fibers \o b,
         \A i \in 1 .. Len(b) : b[i].kind = "cb" /\ b[i].item \in gone,
         \A i, j \in 1 .. Len(b) : b[i].item = b[j].item => i = j,
         \A t \in gone : \E i \in 1 .. Len(b) : b[i].item = t,
         cur[w] = None, pc[w] \notin PCs, NEW l, l \notin PCs, pc' = [pc EXCEPT ![w] = l],
         UNCHANGED <<fiberVars, ft, cur, cbFiber, status, fault>>
  PROVE  SoloInv(w, out, kept \ gone)'
<1>0. /\ SoloTypes /\ UNCHANGED <<fstate, prog, ft, cur, cbFiber, status, fault>>
      /\ OffStack \subseteq HasFiber /\ HasFiber \subseteq PCs /\ Len(b) \in Nat
  BY DEF SoloInv, fiberVars, OffStack, HasFiber, PCs
<1> DEFINE New == {b[i] : i \in 1 .. Len(b)}
<1>1. /\ fibers' \in Seq(Entry) /\ Len(fibers) \in Nat /\ Len(fibers') = Len(fibers) + Len(b)
      /\ \A i \in 1 .. Len(fibers') : fibers'[i] = IF i <= Len(fibers) THEN fibers[i] ELSE b[i - Len(fibers)]
  BY <1>0, ConcatProperties DEF SoloTypes
<1>2. Queue' = Queue \cup New
  <2>1. Queue' \subseteq Queue \cup New
    <3>1. ASSUME NEW i \in 1 .. Len(fibers')
          PROVE  fibers'[i] \in Queue \cup New
      <4>1. CASE i <= Len(fibers)
        BY <1>1, <4>1 DEF Queue
      <4>2. CASE ~(i <= Len(fibers))
        <5>1. i - Len(fibers) \in 1 .. Len(b)
          BY <1>0, <1>1, <4>2
        <5> QED
          BY <1>1, <4>2, <5>1
      <4> QED
        BY <4>1, <4>2
    <3> QED
      BY <3>1 DEF Queue
  <2>2. ASSUME NEW i \in 1 .. Len(fibers)
        PROVE  fibers[i] \in Queue'
    BY <1>0, <1>1 DEF Queue
  <2>3. ASSUME NEW i \in 1 .. Len(b)
        PROVE  b[i] \in Queue'
    <3> DEFINE k == Len(fibers) + i
    <3>1. k \in 1 .. Len(fibers') /\ ~(k <= Len(fibers)) /\ k - Len(fibers) = i
      BY <1>0, <1>1
    <3>2. fibers'[k] = b[i]
      BY <1>1, <3>1
    <3> QED
      BY <3>1, <3>2 DEF Queue
  <2>4. ASSUME NEW x \in Queue
        PROVE  x \in Queue'
    <3>1. PICK i \in 1 .. Len(fibers) : x = fibers[i]
      BY DEF Queue
    <3> QED
      BY <2>2, <3>1
  <2> QED
    BY <2>1, <2>3, <2>4
<1>3. \A x \in Queue : x.kind = "cb" => x.item \notin kept
  BY DEF SoloInv, SoloPlaces
<1>4. CbOnce'
  <2> SUFFICES ASSUME NEW i \in 1 .. Len(fibers'), NEW j \in 1 .. Len(fibers'),
                      fibers'[i].kind = "cb", fibers'[j].kind = "cb", fibers'[i].item = fibers'[j].item
               PROVE  i = j
    BY DEF CbOnce
  <2>1. \A k \in 1 .. Len(fibers') : k <= Len(fibers) => k \in 1 .. Len(fibers) /\ fibers'[k] = fibers[k] /\ fibers'[k] \in Queue
    BY <1>0, <1>1 DEF Queue
  <2>2. \A k \in 1 .. Len(fibers') : ~(k <= Len(fibers)) =>
          k - Len(fibers) \in 1 .. Len(b) /\ fibers'[k] = b[k - Len(fibers)] /\ fibers'[k].item \in gone
    BY <1>0, <1>1
  <2>3. CASE i <= Len(fibers) /\ j <= Len(fibers)
    <3>1. CbOnce
      BY DEF SoloInv, SoloPlaces
    <3>2. i \in 1 .. Len(fibers) /\ j \in 1 .. Len(fibers) /\ fibers'[i] = fibers[i] /\ fibers'[j] = fibers[j]
      BY <2>1, <2>3
    <3> QED
      BY <3>1, <3>2 DEF CbOnce
  <2>4. CASE ~(i <= Len(fibers)) /\ ~(j <= Len(fibers))
    <3>1. /\ i - Len(fibers) \in 1 .. Len(b) /\ j - Len(fibers) \in 1 .. Len(b)
          /\ b[i - Len(fibers)].item = b[j - Len(fibers)].item
      BY <2>2, <2>4
    <3>2. i - Len(fibers) = j - Len(fibers)
      BY <3>1
    <3> QED
      BY <1>1, <3>2
  <2>5. i <= Len(fibers) <=> j <= Len(fibers)
    BY <1>3, <2>1, <2>2
  <2> QED
    BY <2>3, <2>4, <2>5
<1>5. SoloTypes' /\ pc'[w] = l /\ \A u \in Threads \ {w} : pc'[u] = pc[u]
  BY <1>0, <1>1 DEF SoloTypes
<1>6. SoloThread(w)' /\ SoloStates(w)' /\ SoloPrograms'
  BY <1>0, <1>5 DEF SoloInv, SoloThread, SoloStates, SoloPrograms, PCs
<1>7. \A x \in New : x.kind = "cb" /\ x.item \in gone
  OBVIOUS
<1>8. \A t \in gone : \E x \in New : x.item = t /\ x.kind = "cb"
  OBVIOUS
<1> HIDE DEF New
<1>9. SoloPlaces(w, out, kept \ gone)'
  <2>1. \A t \in Tasks : Fresh(t)' <=> Fresh(t)
    BY <1>0 DEF Fresh
  <2>2. \A t \in kept : t \in Tasks /\ Fresh(t)'
    BY <2>1 DEF SoloInv, SoloPlaces
  <2>3. \A x \in Queue' : IF x.kind = "cb" THEN Fresh(x.item)' /\ x.item \notin kept \ gone ELSE fstate'[x.item] # "NONE"
    <3>1. \A x \in Queue : IF x.kind = "cb" THEN Fresh(x.item) /\ x.item \notin kept ELSE fstate[x.item] # "NONE"
      BY DEF SoloInv, SoloPlaces
    <3>2. \A x \in Queue : x.item \in Tasks
      BY <1>0, QueueEntries, EntryKinds
    <3> QED
      BY <1>0, <1>2, <1>7, <2>1, <2>2, <3>1, <3>2
  <2>4. ft[w].kind = "cb" => /\ Fresh(ft[w].item)' /\ ft[w].item \notin kept
                             /\ \A x \in Queue' : x.kind = "cb" => x.item # ft[w].item
    <3>1. ft[w].kind = "cb" => ft[w].item \in Tasks
      BY <1>0, EntryKinds DEF SoloTypes
    <3> QED
      BY <1>0, <1>2, <1>7, <2>1, <3>1 DEF SoloInv, SoloPlaces
  <2> QED
    BY <1>0, <1>4, <2>2, <2>3, <2>4 DEF SoloInv, SoloPlaces
<1>10. SoloKeeps(w, out, kept \ gone)'
  <2>1. \A t \in Tasks : SoloHas(w, out, kept, t) => SoloHas(w, out, kept \ gone, t)'
    BY <1>0, <1>2, <1>8 DEF SoloHas, For
  <2> QED
    BY <1>0, <1>2, <1>5, <2>1 DEF SoloInv, SoloKeeps, PCs, OffStack
<1> QED
  BY <1>0, <1>5, <1>6, <1>9, <1>10 DEF SoloInv

\* A sequence of a set's elements has each of them, once.
LEMMA ListsAll ==
  ASSUME NEW S, IsFiniteSet(S), NEW s \in SetToSeqs(S)
  PROVE  /\ s \in Seq(S)
         /\ \A i, j \in 1 .. Len(s) : s[i] = s[j] => i = j
         /\ \A x \in S : \E i \in 1 .. Len(s) : s[i] = x
<1> DEFINE n == Cardinality(S)
<1>1. n \in Nat
  BY FS_CardinalityType
<1>2. s \in [1 .. n -> S] /\ \A i, j \in 1 .. n : s[i] = s[j] => i = j
  BY DEF SetToSeqs
<1> HIDE DEF n
<1>3. s \in Seq(S) /\ Len(s) = n
  BY <1>1, <1>2
<1>4. s \in Injection(1 .. n, S)
  BY <1>2 DEF Injection, IsInjective
<1>5. Cardinality(1 .. n) = n
  BY <1>1, FS_Interval
<1>6. s \in Surjection(1 .. n, S)
  BY <1>4, <1>5, FS_Injection DEF n
<1>7. \A x \in S : \E i \in 1 .. n : s[i] = x
  BY <1>6 DEF Surjection
<1> QED
  BY <1>2, <1>3, <1>7

-----------------------------------------------------------------------------
(* One worker: what waits for timers and events.                           *)

WaitingFibers ==
  {f \in Tasks : \E d \in Fds, e \in Events : waiter[d][e].kind = "fiber" /\ waiter[d][e].item = f}
\* Those that wait, those that delEvent has taken from their event.
Awaiting == WaitingFibers \cup dropped
WaitingCbs ==
  {t \in Tasks : \E d \in Fds, e \in Events : waiter[d][e].kind = "cb" /\ waiter[d][e].item = t}
Held(w) == timers \cup cbs[w] \cup WaitingCbs

WaiterTypes == PerEvent(waiter) /\ \A d \in Fds, e \in Events : waiter[d][e] \in Entry \cup {NoEntry}

\* No callback waits for two events.
WaitersOnce == \A d, a \in Fds, e, b \in Events :
  waiter[d][e].kind = "cb" /\ waiter[a][b].kind = "cb" /\ waiter[a][b].item = waiter[d][e].item =>
    a = d /\ b = e

\* A callback is with one timer, or collected, or with one event.
HeldOnce(w) ==
  /\ timers \in SUBSET Tasks /\ IsFiniteSet(timers) /\ due \in SUBSET timers
  /\ cbs \in [Threads -> SUBSET Tasks] /\ IsFiniteSet(cbs[w])
  /\ pc[w] # "sched" => cbs[w] = {}
  /\ cbs[w] \cap timers = {} /\ WaitingCbs \cap (timers \cup cbs[w]) = {}
  /\ WaiterTypes /\ WaitersOnce

\* The steps of idle() between two runs of tasks.
IdleSteps == {"ckpending", "ckqueue", "wait", "list", "sched", "events"}

\* What the thread has taken out of epoll and not handled is still registered.
TriggerInv(w) ==
  /\ \A u \in Threads \ {w} : got[u] = {} /\ todo[u] = NoTodo
  /\ pc[w] \notin Triggering => todo[w] = NoTodo
  /\ pc[w] \in Triggering =>
       /\ todo[w].left \subseteq fdEvents[todo[w].fd]
       /\ pc[w] = "trigger" => todo[w].left # {}
       /\ todo[w].back = "run" <=> cur[w] # None
       /\ \A r \in got[w] : r[1] # todo[w].fd
  /\ pc[w] \in IdleSteps => cur[w] = None
  /\ got[w] # {} => cur[w] = None /\ pc[w] \in {"list", "sched", "events"} \cup Triggering
  /\ \A d \in Fds : edge[d] \subseteq KernelMask(d) \cup {"ERR"}
  /\ \A r \in got[w] : /\ r[2] \subseteq fdEvents[r[1]] \cup {"ERR"}
                       /\ \A s \in got[w] : s[1] = r[1] => s = r

OneInv(w) == SoloInv(w, Awaiting, Held(w)) /\ HeldOnce(w) /\ TriggerInv(w)

LEMMA OneFrom ==
  ASSUME NEW w, NEW o, NEW k, SoloInv(w, o, k)', Awaiting' = o, Held(w)' = k, HeldOnce(w)', TriggerInv(w)'
  PROVE  OneInv(w)'
BY DEF OneInv

\* Somebody begins to wait at a place that is free.
LEMMA AddWaiter ==
  ASSUME WaiterTypes, NEW d \in Fds, NEW e \in Events, waiter[d][e] = NoEntry, NEW x \in Entry,
         waiter' = [waiter EXCEPT ![d][e] = x],
         dropped' = dropped \ (IF x.kind = "fiber" THEN {x.item} ELSE {})
  PROVE  /\ WaiterTypes'
         /\ Awaiting' = Awaiting \cup {t \in {x.item} : x.kind = "fiber"}
         /\ WaitingCbs' = WaitingCbs \cup {t \in {x.item} : x.kind = "cb"}
         /\ (WaitersOnce /\ (x.kind = "cb" => x.item \notin WaitingCbs)) => WaitersOnce'
<1>1. PerEvent(waiter)
  BY DEF WaiterTypes
<1>2. /\ PerEvent(waiter')
      /\ \A a \in Fds, b \in Events : waiter'[a][b] = IF a = d /\ b = e THEN x ELSE waiter[a][b]
  <2> DEFINE V == With(waiter, d, e, x)
  <2>1. PerEvent(V) /\ \A a \in Fds, b \in Events : V[a][b] = IF a = d /\ b = e THEN x ELSE waiter[a][b]
    BY <1>1, OneWaiter
  <2>2. waiter' = V
    BY DEF With
  <2> QED
    BY <2>1, <2>2
<1>3. WaiterTypes'
  BY <1>2 DEF WaiterTypes
<1>4. x.item \in Tasks /\ NoEntry.kind = "none"
  BY EntryKinds
<1>5. Awaiting' = Awaiting \cup {t \in {x.item} : x.kind = "fiber"}
  <2>1. WaitingFibers' = WaitingFibers \cup {t \in {x.item} : x.kind = "fiber"}
    BY <1>2, <1>4 DEF WaitingFibers
  <2> QED
    BY <2>1 DEF Awaiting
<1>6. WaitingCbs' = WaitingCbs \cup {t \in {x.item} : x.kind = "cb"}
  BY <1>2, <1>4 DEF WaitingCbs
<1>7. ASSUME WaitersOnce, x.kind = "cb" => x.item \notin WaitingCbs
      PROVE  WaitersOnce'
  <2>1. x.kind = "cb" => \A a \in Fds, b \in Events : waiter[a][b].kind = "cb" => waiter[a][b].item # x.item
    BY <1>4, <1>7 DEF WaitingCbs
  <2> QED
    BY <1>2, <1>7, <2>1 DEF WaitersOnce
<1> QED
  BY <1>2, <1>3, <1>5, <1>6, <1>7

\* What waited for one event no longer does.
LEMMA DropWaiter ==
  ASSUME WaiterTypes, WaitersOnce, NEW d \in Fds, NEW e \in Events, NEW x, x = waiter[d][e],
         waiter' = [waiter EXCEPT ![d][e] = NoEntry]
  PROVE  /\ WaiterTypes' /\ WaitersOnce'
         /\ WaitingFibers' \subseteq WaitingFibers
         /\ WaitingFibers \subseteq WaitingFibers' \cup {t \in {x.item} : x.kind = "fiber"}
         /\ WaitingCbs' = WaitingCbs \ {t \in {x.item} : x.kind = "cb"}
         /\ x.kind = "fiber" => x.item \in WaitingFibers
         /\ x.kind = "cb" => x.item \in WaitingCbs
<1>1. PerEvent(waiter)
  BY DEF WaiterTypes
<1>2. /\ PerEvent(waiter')
      /\ \A a \in Fds, b \in Events : waiter'[a][b] = IF a = d /\ b = e THEN NoEntry ELSE waiter[a][b]
  <2> DEFINE V == With(waiter, d, e, NoEntry)
  <2>1. PerEvent(V) /\ \A a \in Fds, b \in Events : V[a][b] = IF a = d /\ b = e THEN NoEntry ELSE waiter[a][b]
    BY <1>1, OneWaiter
  <2>2. waiter' = V
    BY DEF With
  <2> QED
    BY <2>1, <2>2
<1>3. WaiterTypes'
  BY <1>2 DEF WaiterTypes
<1>4. NoEntry.kind = "none" /\ (x.kind \in {"cb", "fiber"} => x.item \in Tasks)
  BY EntryKinds DEF WaiterTypes
<1>5. /\ WaitingFibers' \subseteq WaitingFibers
      /\ WaitingFibers \subseteq WaitingFibers' \cup {t \in {x.item} : x.kind = "fiber"}
      /\ x.kind = "fiber" => x.item \in WaitingFibers
  BY <1>2, <1>4 DEF WaitingFibers
<1>6. WaitingCbs' = WaitingCbs \ {t \in {x.item} : x.kind = "cb"}
  BY <1>2, <1>4 DEF WaitingCbs, WaitersOnce
<1>7. WaitersOnce'
  BY <1>2, <1>4 DEF WaitersOnce
<1>8. x.kind = "cb" => x.item \in WaitingCbs
  BY <1>4 DEF WaitingCbs
<1> QED
  BY <1>3, <1>5, <1>6, <1>7, <1>8

LEMMA SameWaiters ==
  ASSUME waiter' = waiter, dropped' = dropped
  PROVE  Awaiting' = Awaiting /\ WaitingCbs' = WaitingCbs /\ (WaitersOnce => WaitersOnce') /\ (WaiterTypes => WaiterTypes')
BY DEF Awaiting, WaitingFibers, WaitingCbs, WaitersOnce, WaiterTypes, PerEvent

\* While one thread alone triggers, epoll watches what is registered and not
\* about to be triggered.
LEMMA MaskIs ==
  ASSUME FdTypes, NEW w \in Threads, \A u \in Threads \ {w} : todo[u] = NoTodo, NEW d \in Fds
  PROVE  KernelMask(d) = fdEvents[d] \ (IF todo[w].fd = d THEN todo[w].left ELSE {})
BY IOAssumption DEF KernelMask, NoTodo

-----------------------------------------------------------------------------
(* One worker: the steps that leave the waiters alone.                     *)

LEMMA HeldFrame ==
  ASSUME NEW w \in Threads, HeldOnce(w), UNCHANGED <<timers, cbs, waiter, dropped>>, due' \in SUBSET timers,
         pc'[w] = "sched" \/ pc[w] # "sched"
  PROVE  HeldOnce(w)' /\ Awaiting' = Awaiting /\ Held(w)' = Held(w)
BY SameWaiters DEF HeldOnce, Held

LEMMA TriggerFrame ==
  ASSUME NEW w \in Threads, TriggerInv(w), UNCHANGED <<fdEvents, edge, got, todo>>,
         \/ pc'[w] = pc[w] /\ cur'[w] = cur[w]
         \/ pc[w] \in PCs /\ pc'[w] \in PCs
         \/ /\ pc[w] \notin Triggering /\ pc'[w] \notin Triggering /\ cur'[w] = None
            /\ got[w] # {} => pc'[w] \in {"list", "sched", "events"}
  PROVE  TriggerInv(w)'
<1>1. \A d \in Fds : KernelMask(d)' = KernelMask(d)
  BY DEF KernelMask
<1>2. PCs \cap (Triggering \cup IdleSteps) = {}
  BY DEF PCs, Triggering, IdleSteps
<1>3. {"list", "sched", "events"} \subseteq IdleSteps
  BY DEF IdleSteps
<1> QED
  BY <1>1, <1>2, <1>3 DEF TriggerInv

\* The scheduler's own steps.
LEMMA OneScheduler ==
  ASSUME FdInv, NEW w \in Threads, LoopThread(w), OneInv(w), UNCHANGED ioVars, Main \/ RunStep(w) \/ Body(w)
  PROVE  OneInv(w)'
<1>1. PICK o, k : o = Awaiting /\ k = Held(w)
  OBVIOUS
<1>2. SoloInv(w, o, k) /\ HeldOnce(w) /\ TriggerInv(w)
  BY <1>1 DEF OneInv
<1>3. SoloInv(w, o, k)'
  <2>1. OffInv /\ pc \in [Threads -> IOPCs]
    BY DEF FdInv, FdTypes
  <2> QED
    BY <1>2, <2>1, SoloMain, SoloRun, SoloBody
<1>4. UNCHANGED <<timers, due, cbs, waiter, dropped, fdEvents, edge, got, todo>>
  BY DEF ioVars, tmVars, fdVars, idleVars
<1>5. (pc'[w] = pc[w] /\ cur'[w] = cur[w]) \/ (pc[w] \in PCs /\ pc'[w] \in PCs)
  <2>1. pc'[w] = pc[w] \/ (pc[w] \in PCs /\ pc'[w] \in PCs)
    BY SchedulerFrame DEF FdInv
  <2>2. CASE Main
    <3>1. cur' = cur
      BY <2>2 DEF Main, StopStep, UserSchedule, Start, StopFlags, StopRoot, RootReturns, Join, threadVars
    <3> QED
      BY <2>1, <3>1
  <2>3. CASE RunStep(w) \/ Body(w)
    <3>1. pc[w] \in PCs
      BY <2>3 DEF RunStep, Pick, PickNothing, ResumeFiber, SkipDead, RunCallback, Ret, SettleReady, SettleDead,
         SettleOther, SetHold, ThreadExit, IdleIn, IdleOut, Body, Finish, YieldToReady, YieldToHold, SwapOut,
         SwitchTo, Spawn, At, PCs
    <3> QED
      BY <2>1, <3>1
  <2> QED
    BY <2>2, <2>3
<1>6. pc'[w] = "sched" \/ pc[w] # "sched"
  BY <1>5 DEF PCs
<1>7. HeldOnce(w)' /\ Awaiting' = o /\ Held(w)' = k
  <2>1. due' \in SUBSET timers
    BY <1>2, <1>4 DEF HeldOnce
  <2> QED
    BY <1>1, <1>2, <1>4, <1>6, <2>1, HeldFrame
<1>8. TriggerInv(w)'
  BY <1>2, <1>4, <1>5, TriggerFrame
<1> QED
  BY <1>3, <1>7, <1>8, OneFrom

\* Steps that concern no task: the pipe and the clock.
LEMMA OneOutside ==
  ASSUME NEW w \in Threads, OneInv(w),
         (\E u \in Threads : IOTickle(u)) \/ (\E t \in Tasks : TimerDue(t)) \/ UNCHANGED ioAll
  PROVE  OneInv(w)'
<1>1. PICK o, k : o = Awaiting /\ k = Held(w)
  OBVIOUS
<1>2. SoloInv(w, o, k) /\ HeldOnce(w) /\ TriggerInv(w)
  BY <1>1 DEF OneInv
<1>3. /\ UNCHANGED <<fibers, fiberVars, pc, ft, cur, cbFiber, status, fault>>
      /\ UNCHANGED <<timers, cbs, waiter, dropped, fdEvents, edge, got, todo>>
      /\ due' = due \/ \E t \in timers : due' = due \cup {t}
  <2>1. CASE \E u \in Threads : IOTickle(u)
    BY <2>1 DEF IOTickle, threadVars, taskVars, tmVars, fdVars, idleVars
  <2>2. CASE \E t \in Tasks : TimerDue(t)
    BY <2>2 DEF TimerDue, vars, queueVars, threadVars, taskVars, fdVars, idleVars
  <2>3. CASE UNCHANGED ioAll
    BY <2>3 DEF ioAll, ioVars, vars, queueVars, threadVars, taskVars, tmVars, fdVars, idleVars
  <2> QED
    BY <2>1, <2>2, <2>3
<1>4. SoloInv(w, o, k)'
  BY <1>2, <1>3, SoloSame
<1>5. HeldOnce(w)' /\ Awaiting' = o /\ Held(w)' = k
  <2>1. due' \in SUBSET timers
    BY <1>2, <1>3 DEF HeldOnce
  <2> QED
    BY <1>1, <1>2, <1>3, <2>1, HeldFrame
<1>6. TriggerInv(w)'
  BY <1>2, <1>3, TriggerFrame
<1> QED
  BY <1>4, <1>5, <1>6, OneFrom

\* A descriptor becomes ready: the kernel reports what is registered with it.
LEMMA OneReady ==
  ASSUME NEW w \in Threads, FdTypes, OneInv(w), NEW d \in Fds, NEW e \in Reported, FdReady(d, e)
  PROVE  OneInv(w)'
<1>1. PICK o, k : o = Awaiting /\ k = Held(w)
  OBVIOUS
<1>2. SoloInv(w, o, k) /\ HeldOnce(w) /\ TriggerInv(w)
  BY <1>1 DEF OneInv
<1>3. /\ UNCHANGED <<fibers, fiberVars, pc, ft, cur, cbFiber, status, fault>>
      /\ UNCHANGED <<timers, due, cbs, waiter, dropped, fdEvents, got, todo>>
      /\ edge' = [edge EXCEPT ![d] = @ \cup {e}] /\ e \in KernelMask(d) \cup {"ERR"}
  BY DEF FdReady, vars, queueVars, threadVars, taskVars, tmVars, idleVars
<1>4. SoloInv(w, o, k)'
  BY <1>2, <1>3, SoloSame
<1>5. HeldOnce(w)' /\ Awaiting' = o /\ Held(w)' = k
  BY <1>1, <1>2, <1>3, HeldFrame DEF HeldOnce
<1>6. TriggerInv(w)'
  <2>1. \A a \in Fds : KernelMask(a)' = KernelMask(a)
    BY <1>3 DEF KernelMask
  <2>2. \A a \in Fds : edge'[a] \subseteq KernelMask(a)' \cup {"ERR"}
    BY <1>2, <1>3, <2>1 DEF TriggerInv, FdTypes
  <2> QED
    BY <1>2, <1>3, <2>2 DEF TriggerInv
<1> QED
  BY <1>4, <1>5, <1>6, OneFrom

\* What the thread is in is nothing while it is in idle().
LEMMA IdleThread ==
  ASSUME NEW w \in Threads, OneInv(w), pc[w] = "idle" \/ pc[w] \in IdleSteps
  PROVE  cur[w] = None /\ ft[w] = NoEntry
<1>1. SoloThread(w) /\ TriggerInv(w)
  BY DEF OneInv, SoloInv
<1>2. pc[w] \notin {"pick", "dispatch"} /\ (pc[w] = "idle" => pc[w] \in PCs \ HasFiber)
  BY DEF IdleSteps, PCs, HasFiber
<1> QED
  BY <1>1, <1>2 DEF SoloThread, TriggerInv

\* stopping() and the end of idle().
LEMMA OneIdle ==
  ASSUME FdTypes, NEW w \in Threads, OneInv(w),
         CheckTimers(w) \/ CheckPending(w) \/ CheckQueue(w) \/ LeaveIdle(w)
  PROVE  OneInv(w)'
<1>1. PICK o, k : o = Awaiting /\ k = Held(w)
  OBVIOUS
<1>2. SoloInv(w, o, k) /\ HeldOnce(w) /\ TriggerInv(w)
  BY <1>1 DEF OneInv
<1>3. PICK l \in {"ckpending", "ckqueue", "wait", "idleout"} :
        /\ pc' = [pc EXCEPT ![w] = l] /\ fault' = "none"
        /\ UNCHANGED <<fibers, fiberVars, ft, cur, cbFiber, status>>
  BY DEF CheckTimers, CheckPending, CheckQueue, LeaveIdle, schedRest, queueVars, taskVars, At, Goto
<1>4. /\ pc[w] \in {"idle", "ckpending", "ckqueue", "events"} /\ got[w] = {}
      /\ UNCHANGED <<timers, due, cbs, waiter, dropped, fdEvents, edge, got, todo>>
  <2>1. UNCHANGED <<timers, due, cbs, waiter, dropped, fdEvents, edge, got, todo>>
    BY DEF CheckTimers, CheckPending, CheckQueue, LeaveIdle, ioVars, tmVars, fdVars, idleVars
  <2>2. pc[w] \in {"idle", "ckpending", "ckqueue"} \/ (pc[w] = "events" /\ got[w] = {})
    BY DEF CheckTimers, CheckPending, CheckQueue, LeaveIdle, At
  <2> QED
    BY <1>2, <2>1, <2>2 DEF TriggerInv, Triggering
<1>5. cur[w] = None /\ ft[w] = NoEntry
  BY <1>4, IdleThread DEF IdleSteps
<1>6. SoloInv(w, o, k)'
  <2>1. l \in PCs \ (HasFiber \cup {"pick"}) \/ l \notin PCs
    BY <1>3 DEF PCs, HasFiber
  <2> QED
    BY <1>2, <1>3, <1>5, <2>1, SoloQuiet
<1>7. pc'[w] = l
  BY <1>3 DEF FdTypes
<1>8. HeldOnce(w)' /\ Awaiting' = o /\ Held(w)' = k
  BY <1>1, <1>2, <1>4, HeldFrame DEF HeldOnce
<1>9. TriggerInv(w)'
  <2>1. pc[w] \notin Triggering /\ pc'[w] \notin Triggering /\ cur'[w] = None
    BY <1>3, <1>4, <1>5, <1>7 DEF Triggering
  <2> QED
    BY <1>2, <1>4, <2>1, TriggerFrame
<1> QED
  BY <1>6, <1>8, <1>9, OneFrom

\* epoll_wait returns what is registered, one report per descriptor.
LEMMA OneEpoll ==
  ASSUME FdTypes, NEW w \in Threads, OneInv(w), EpollReturns(w)
  PROVE  OneInv(w)'
<1>1. PICK o, k : o = Awaiting /\ k = Held(w)
  OBVIOUS
<1>2. SoloInv(w, o, k) /\ HeldOnce(w) /\ TriggerInv(w)
  BY <1>1 DEF OneInv
<1>3. /\ pc[w] = "wait" /\ pc' = [pc EXCEPT ![w] = "list"] /\ fault' = "none"
      /\ UNCHANGED <<fibers, fiberVars, ft, cur, cbFiber, status, timers, due, cbs, waiter, dropped, fdEvents, todo>>
  BY DEF EpollReturns, schedRest, queueVars, taskVars, tmVars, At, Goto
<1>4. cur[w] = None /\ ft[w] = NoEntry /\ todo[w] = NoTodo
  BY <1>2, <1>3, IdleThread DEF IdleSteps, TriggerInv, Triggering
<1>5. SoloInv(w, o, k)'
  BY <1>2, <1>3, <1>4, SoloQuiet DEF PCs
<1>6. pc'[w] = "list"
  BY <1>3 DEF FdTypes
<1>7. HeldOnce(w)' /\ Awaiting' = o /\ Held(w)' = k
  BY <1>1, <1>2, <1>3, HeldFrame DEF HeldOnce
<1>8. TriggerInv(w)'
  <2>1. /\ \A u \in Threads \ {w} : got'[u] = got[u]
        /\ \A r \in got'[w] : r[1] \in Fds /\ r = <<r[1], edge[r[1]]>>
    BY DEF EpollReturns, FdTypes
  <2>2. \A d \in Fds : edge'[d] = {} /\ KernelMask(d)' = KernelMask(d) /\ KernelMask(d) \subseteq fdEvents[d]
    BY <1>3 DEF EpollReturns, KernelMask
  <2>3. \A r \in got'[w] : /\ r[2] \subseteq fdEvents'[r[1]] \cup {"ERR"}
                           /\ \A s \in got'[w] : s[1] = r[1] => s = r
    BY <1>2, <1>3, <2>1, <2>2 DEF TriggerInv
  <2> QED
    BY <1>2, <1>3, <1>4, <1>6, <2>1, <2>2, <2>3 DEF TriggerInv, Triggering
<1> QED
  BY <1>5, <1>7, <1>8, OneFrom

\* The timers that are due are collected.
LEMMA OneList ==
  ASSUME FdTypes, NEW w \in Threads, OneInv(w), ListExpired(w)
  PROVE  OneInv(w)'
<1>1. PICK o, k : o = Awaiting /\ k = Held(w)
  OBVIOUS
<1>2. SoloInv(w, o, k) /\ HeldOnce(w) /\ TriggerInv(w)
  BY <1>1 DEF OneInv
<1>3. PICK l \in {"events", "sched"} :
        /\ pc[w] = "list" /\ pc' = [pc EXCEPT ![w] = l] /\ fault' = "none" /\ (l = "events" => due = {})
        /\ UNCHANGED <<fibers, fiberVars, ft, cur, cbFiber, status, waiter, dropped, fdEvents, edge, got, todo>>
        /\ cbs' = [cbs EXCEPT ![w] = due] /\ timers' = timers \ due /\ due' = {}
  BY DEF ListExpired, schedRest, queueVars, taskVars, fdVars, At, Goto
<1>4. cur[w] = None /\ ft[w] = NoEntry
  BY <1>3, IdleThread DEF IdleSteps
<1>5. SoloInv(w, o, k)'
  BY <1>2, <1>3, <1>4, SoloQuiet DEF PCs
<1>6. pc'[w] = l
  BY <1>3 DEF FdTypes
<1>7. cbs[w] = {} /\ cbs' \in [Threads -> SUBSET Tasks] /\ cbs'[w] = due
  BY <1>2, <1>3 DEF HeldOnce
<1>8. Awaiting' = o /\ WaitingCbs' = WaitingCbs /\ WaitersOnce' /\ WaiterTypes'
  BY <1>1, <1>2, <1>3, SameWaiters DEF HeldOnce
<1>9. Held(w)' = k
  BY <1>1, <1>2, <1>3, <1>7, <1>8 DEF Held, HeldOnce
<1>10. HeldOnce(w)'
  <2>1. IsFiniteSet(timers') /\ IsFiniteSet(due)
    BY <1>2, <1>3, FS_Subset DEF HeldOnce
  <2>2. /\ timers' \in SUBSET Tasks /\ due' \in SUBSET timers' /\ cbs'[w] \cap timers' = {}
        /\ WaitingCbs' \cap (timers' \cup cbs'[w]) = {}
    BY <1>2, <1>3, <1>7, <1>8 DEF HeldOnce
  <2> QED
    BY <1>3, <1>6, <1>7, <1>8, <2>1, <2>2 DEF HeldOnce
<1>11. TriggerInv(w)'
  <2>1. pc[w] \notin Triggering /\ pc'[w] \notin Triggering /\ cur'[w] = None
    BY <1>3, <1>4, <1>6 DEF Triggering
  <2> QED
    BY <1>2, <1>3, <1>6, <2>1, TriggerFrame
<1> QED
  BY <1>5, <1>8, <1>9, <1>10, <1>11, OneFrom

\* ... and their callbacks scheduled.
LEMMA OneBatch ==
  ASSUME FdTypes, NEW w \in Threads, OneInv(w), ScheduleExpired(w)
  PROVE  OneInv(w)'
<1>1. PICK o, k, S : o = Awaiting /\ k = Held(w) /\ S = cbs[w]
  OBVIOUS
<1>2. SoloInv(w, o, k) /\ HeldOnce(w) /\ TriggerInv(w)
  BY <1>1 DEF OneInv
<1>3. /\ pc[w] = "sched" /\ pc' = [pc EXCEPT ![w] = "events"] /\ fault' = fault
      /\ UNCHANGED <<fiberVars, ft, cur, cbFiber, status, timers, due, waiter, dropped, fdEvents, edge, got, todo>>
      /\ cbs' = [cbs EXCEPT ![w] = {}]
  BY DEF ScheduleExpired, schedRest, taskVars, tmVars, fdVars, At, Goto
<1>4. cur[w] = None /\ ft[w] = NoEntry
  BY <1>3, IdleThread DEF IdleSteps
<1>5. S \in SUBSET k /\ S \in SUBSET Tasks /\ IsFiniteSet(S)
  BY <1>1, <1>2 DEF Held, HeldOnce
<1>6. PICK s \in SetToSeqs(S) :
        fibers' = fibers \o [i \in 1 .. Len(s) |-> [kind |-> "cb", item |-> s[i], thr |-> AnyThread]]
  BY <1>1 DEF ScheduleExpired
<1>7. /\ s \in Seq(S) /\ Len(s) \in Nat
      /\ \A i, j \in 1 .. Len(s) : s[i] = s[j] => i = j
      /\ \A x \in S : \E i \in 1 .. Len(s) : s[i] = x
  BY <1>5, <1>6, ListsAll
<1> DEFINE b == [i \in 1 .. Len(s) |-> [kind |-> "cb", item |-> s[i], thr |-> AnyThread]]
<1>8. /\ b \in Seq(Entry) /\ Len(b) = Len(s)
      /\ \A i \in 1 .. Len(s) : b[i].kind = "cb" /\ b[i].item = s[i] /\ s[i] \in S
  <2>1. \A i \in 1 .. Len(s) : s[i] \in S
    BY <1>7
  <2>2. \A i \in 1 .. Len(s) : [kind |-> "cb", item |-> s[i], thr |-> AnyThread] \in Entry
    BY <1>5, <2>1 DEF Entry
  <2> QED
    BY <1>7, <2>1, <2>2
<1>9. fibers' = fibers \o b
  BY <1>6
<1> HIDE DEF b
<1>10. pc'[w] = "events" /\ pc[w] \notin PCs /\ "events" \notin PCs
  BY <1>3 DEF FdTypes, PCs
<1>11. SoloInv(w, o, k \ S)'
  <2>1. \A i \in 1 .. Len(b) : b[i].kind = "cb" /\ b[i].item \in S
    BY <1>8
  <2>2. \A i, j \in 1 .. Len(b) : b[i].item = b[j].item => i = j
    BY <1>7, <1>8
  <2>3. \A t \in S : \E i \in 1 .. Len(b) : b[i].item = t
    BY <1>7, <1>8
  <2>4. UNCHANGED <<fiberVars, ft, cur, cbFiber, status, fault>>
    BY <1>3
  <2> QED
    BY <1>2, <1>3, <1>4, <1>5, <1>8, <1>9, <1>10, <2>1, <2>2, <2>3, <2>4, SoloBatch
<1>12. cbs' \in [Threads -> SUBSET Tasks] /\ cbs'[w] = {}
  BY <1>2, <1>3 DEF HeldOnce
<1>13. Awaiting' = o /\ WaitingCbs' = WaitingCbs /\ WaitersOnce' /\ WaiterTypes'
  BY <1>1, <1>2, <1>3, SameWaiters DEF HeldOnce
<1>14. Held(w)' = k \ S
  BY <1>1, <1>2, <1>3, <1>12, <1>13 DEF Held, HeldOnce
<1>15. HeldOnce(w)'
  BY <1>2, <1>3, <1>12, <1>13, FS_EmptySet DEF HeldOnce
<1>16. TriggerInv(w)'
  <2>1. pc[w] \notin Triggering /\ pc'[w] \notin Triggering /\ cur'[w] = None
    BY <1>3, <1>4, <1>10 DEF Triggering
  <2> QED
    BY <1>2, <1>3, <1>10, <2>1, TriggerFrame
<1> QED
  BY <1>11, <1>13, <1>14, <1>15, <1>16, OneFrom

-----------------------------------------------------------------------------
(* One worker: triggering.                                                 *)

\* The thread takes events of a descriptor out of epoll, to trigger them.
LEMMA OneTake ==
  ASSUME FdTypes, NEW w \in Threads, OneInv(w), NEW d \in Fds, NEW es \in SUBSET fdEvents[d], es # {},
         NEW back, back = "run" <=> cur[w] # None,
         pc[w] \in {"run", "events"}, StartTrigger(w, d, es, back),
         UNCHANGED <<schedRest, fibers, tmVars, cbs, waiter, dropped, fdEvents>>,
         got' = got \/ (\E r \in got[w] : r[1] = d /\ got' = [got EXCEPT ![w] = @ \ {r}]),
         \A r \in got'[w] : r[1] # d,
         got[w] # {} => pc[w] = "events"
  PROVE  OneInv(w)'
<1>1. PICK o, k : o = Awaiting /\ k = Held(w)
  OBVIOUS
<1>2. SoloInv(w, o, k) /\ HeldOnce(w) /\ TriggerInv(w)
  BY <1>1 DEF OneInv
<1>3. /\ pc' = [pc EXCEPT ![w] = "trigger"] /\ fault' = "none"
      /\ UNCHANGED <<fibers, fiberVars, ft, cur, cbFiber, status, timers, due, cbs, waiter, dropped, fdEvents>>
      /\ todo' = [todo EXCEPT ![w] = [fd |-> d, left |-> es, back |-> back]]
      /\ edge' = [edge EXCEPT ![d] = IF fdEvents[d] \subseteq es THEN {} ELSE @ \ es]
  <2>1. fault = "none"
    BY <1>2 DEF SoloInv
  <2> QED
    BY <2>1 DEF StartTrigger, Deregister, Goto, schedRest, taskVars, tmVars
<1>4. SoloInv(w, o, k)'
  <2>1. "trigger" \notin PCs /\ pc[w] \notin OffStack
    BY DEF PCs, OffStack
  <2>2. cur[w] # None \/ (cur[w] = None /\ ft[w] = NoEntry)
    <3>1. pc[w] = "run" => cur[w] # None
      BY <1>2 DEF SoloInv, SoloThread, HasFiber
    <3> QED
      BY <3>1, IdleThread DEF IdleSteps
  <2> QED
    BY <1>2, <1>3, <2>1, <2>2, SoloQuiet
<1>5. HeldOnce(w)' /\ Awaiting' = o /\ Held(w)' = k
  BY <1>1, <1>2, <1>3, HeldFrame DEF HeldOnce
<1>6. TriggerInv(w)'
  <2>1. /\ pc'[w] = "trigger" /\ todo'[w] = [fd |-> d, left |-> es, back |-> back]
        /\ \A u \in Threads \ {w} : todo'[u] = NoTodo /\ got'[u] = {} /\ todo[u] = NoTodo
        /\ got'[w] \subseteq got[w]
    BY <1>2, <1>3 DEF FdTypes, TriggerInv
  <2>2. \A a \in Fds : KernelMask(a)' = fdEvents[a] \ (IF a = d THEN es ELSE {})
    <3>1. \A a \in Fds : KernelMask(a)' = fdEvents'[a] \ UNION {todo'[u].left : u \in {u \in Threads : todo'[u].fd = a}}
      BY DEF KernelMask
    <3>2. \A a \in Fds : {u \in Threads : todo'[u].fd = a} = IF a = d THEN {w} ELSE {}
      BY <2>1, IOAssumption DEF NoTodo
    <3> QED
      BY <1>3, <2>1, <3>1, <3>2
  <2>3. \A a \in Fds : KernelMask(a) = fdEvents[a]
    <3>1. \A u \in Threads : todo[u] = NoTodo
      BY <1>2 DEF TriggerInv, Triggering
    <3>2. \A a \in Fds : {u \in Threads : todo[u].fd = a} = {}
      BY <3>1, IOAssumption DEF NoTodo
    <3> QED
      BY <3>2 DEF KernelMask
  <2>4. \A a \in Fds : edge'[a] \subseteq KernelMask(a)' \cup {"ERR"}
    BY <1>2, <1>3, <2>2, <2>3 DEF TriggerInv, FdTypes
  <2>5. got'[w] # {} => cur'[w] = None
    BY <1>2, <1>3, <2>1 DEF TriggerInv
  <2>6. /\ "trigger" \in Triggering /\ "trigger" \notin IdleSteps
    BY DEF Triggering, IdleSteps
  <2> QED
    BY <1>2, <1>3, <2>1, <2>4, <2>5, <2>6 DEF TriggerInv
<1> QED
  BY <1>4, <1>5, <1>6, OneFrom

LEMMA OneReport ==
  ASSUME FdTypes, NEW w \in Threads, OneInv(w), HandleReport(w)
  PROVE  OneInv(w)'
<1>2. HeldOnce(w) /\ TriggerInv(w) /\ pc[w] = "events" /\ cur[w] = None
  <2>1. pc[w] = "events"
    BY DEF HandleReport, At
  <2> QED
    BY <2>1, IdleThread DEF OneInv, IdleSteps
<1>3. PICK r \in got[w] :
        /\ got' = [got EXCEPT ![w] = @ \ {r}]
        /\ IF RealEvents(r[1], r[2]) \cap fdEvents[r[1]] = {}
           THEN UNCHANGED <<pc, fdLock, edge, todo>>
           ELSE StartTrigger(w, r[1], RealEvents(r[1], r[2]), "events")
  BY DEF HandleReport
<1>4. r[1] \in Fds /\ RealEvents(r[1], r[2]) \subseteq fdEvents[r[1]]
  BY <1>2, <1>3 DEF FdTypes, TriggerInv, RealEvents, Events
<1>5. /\ UNCHANGED <<schedRest, fibers, tmVars, cbs, waiter, dropped, fdEvents>>
      /\ got'[w] = got[w] \ {r} /\ \A u \in Threads \ {w} : got'[u] = got[u]
  BY <1>3 DEF HandleReport, queueVars, FdTypes
<1>6. \A x \in got'[w] : x[1] # r[1]
  BY <1>2, <1>3, <1>5 DEF TriggerInv
<1>7. CASE RealEvents(r[1], r[2]) \cap fdEvents[r[1]] # {}
  <2>1. StartTrigger(w, r[1], RealEvents(r[1], r[2]), "events") /\ RealEvents(r[1], r[2]) # {}
    BY <1>3, <1>7
  <2> QED
    BY <1>2, <1>3, <1>4, <1>5, <1>6, <2>1, OneTake
<1>8. CASE RealEvents(r[1], r[2]) \cap fdEvents[r[1]] = {}
  <2>1. PICK o, k : o = Awaiting /\ k = Held(w)
    OBVIOUS
  <2>2. UNCHANGED <<pc, edge, todo, fibers, fiberVars, ft, cur, cbFiber, status, fault, timers, due, cbs, waiter, dropped, fdEvents>>
    BY <1>3, <1>5, <1>8 DEF schedRest, taskVars, tmVars
  <2>3. SoloInv(w, o, k)'
    BY <2>1, <2>2, SoloSame DEF OneInv
  <2>4. HeldOnce(w)' /\ Awaiting' = o /\ Held(w)' = k
    BY <1>2, <2>1, <2>2, HeldFrame DEF HeldOnce
  <2>5. TriggerInv(w)'
    <3>1. \A a \in Fds : KernelMask(a)' = KernelMask(a)
      BY <2>2 DEF KernelMask
    <3> QED
      BY <1>2, <1>5, <2>2, <3>1 DEF TriggerInv
  <2> QED
    BY <2>3, <2>4, <2>5, OneFrom
<1> QED
  BY <1>7, <1>8

LEMMA OneCancel ==
  ASSUME FdTypes, NEW w \in Threads, OneInv(w), NEW d \in Fds, NEW es \in SUBSET Events, Cancel(w, d, es)
  PROVE  OneInv(w)'
<1>1. /\ pc[w] = "run" /\ es # {} /\ es \subseteq fdEvents[d] /\ StartTrigger(w, d, es, "run")
      /\ UNCHANGED <<schedRest, fibers, tmVars, cbs, waiter, dropped, fdEvents, got>>
  BY DEF Cancel, At, schedRest, threadVars, queueVars, idleVars
<1>2. cur[w] # None /\ got[w] = {}
  <2>1. cur[w] # None
    BY <1>1 DEF OneInv, SoloInv, SoloThread, HasFiber
  <2> QED
    BY <1>1, <2>1 DEF OneInv, TriggerInv
<1> QED
  BY <1>1, <1>2, OneTake

LEMMA OneDec ==
  ASSUME FdTypes, NEW w \in Threads, OneInv(w), DecPending(w)
  PROVE  OneInv(w)'
<1>1. PICK o, k : o = Awaiting /\ k = Held(w)
  OBVIOUS
<1>2. SoloInv(w, o, k) /\ HeldOnce(w) /\ TriggerInv(w)
  BY <1>1 DEF OneInv
<1>3. PICK l, T : /\ pc' = [pc EXCEPT ![w] = l] /\ todo' = [todo EXCEPT ![w] = T]
                  /\ IF todo[w].left = {} THEN l = todo[w].back /\ T = NoTodo ELSE l = "trigger" /\ T = todo[w]
  <2>1. todo = [todo EXCEPT ![w] = todo[w]]
    BY DEF FdTypes
  <2> QED
    BY <2>1 DEF DecPending, Goto
<1>4. /\ pc[w] = "dec" /\ fault' = "none"
      /\ UNCHANGED <<fibers, fiberVars, ft, cur, cbFiber, status, timers, due, cbs, waiter, dropped, fdEvents, edge, got>>
  BY DEF DecPending, At, queueVars, threadVars, taskVars, tmVars, idleVars
<1>5. /\ l \in {"run", "events", "trigger"} /\ (l = "run" => cur[w] # None) /\ (l = "events" => cur[w] = None)
      /\ "dec" \notin PCs /\ "events" \notin PCs /\ "trigger" \notin PCs
  BY <1>2, <1>3, <1>4 DEF FdTypes, Todo, TriggerInv, Triggering, PCs
<1>6. SoloInv(w, o, k)'
  <2>1. pc[w] \notin OffStack /\ (cur[w] = None => ft[w] = NoEntry)
    BY <1>2, <1>4 DEF SoloInv, SoloThread, OffStack
  <2> QED
    BY <1>2, <1>3, <1>4, <1>5, <2>1, SoloQuiet
<1>7. pc'[w] = l /\ todo'[w] = T /\ \A u \in Threads \ {w} : todo'[u] = todo[u]
  BY <1>3 DEF FdTypes
<1>8. HeldOnce(w)' /\ Awaiting' = o /\ Held(w)' = k
  BY <1>1, <1>2, <1>4, HeldFrame DEF HeldOnce
<1>9. TriggerInv(w)'
  <2>1. \A a \in Fds : KernelMask(a)' = KernelMask(a)
    <3>1. \A a \in Fds : KernelMask(a)' = fdEvents'[a] \ UNION {todo'[u].left : u \in {u \in Threads : todo'[u].fd = a}}
      BY DEF KernelMask
    <3>2. CASE todo'[w] = todo[w]
      <4>1. todo' = todo
        BY <1>3, <1>7, <3>2 DEF FdTypes
      <4> QED
        BY <1>4, <4>1 DEF KernelMask
    <3>3. CASE todo'[w] = NoTodo /\ todo[w].left = {}
      <4>1. \A a \in Fds : {u \in Threads : todo'[u].fd = a} = {}
        BY <1>2, <1>7, <3>3, IOAssumption DEF TriggerInv, NoTodo
      <4> SUFFICES ASSUME NEW a \in Fds
                   PROVE  KernelMask(a)' = KernelMask(a)
        OBVIOUS
      <4>2. KernelMask(a) = fdEvents[a] \ (IF todo[w].fd = a THEN todo[w].left ELSE {})
        BY <1>2, MaskIs DEF TriggerInv
      <4>3. KernelMask(a) = fdEvents[a]
        BY <3>3, <4>2
      <4>4. KernelMask(a)' = fdEvents'[a]
        <5>1. UNION {todo'[u].left : u \in {u \in Threads : todo'[u].fd = a}} = {}
          BY <4>1
        <5> QED
          BY <3>1, <5>1
      <4> QED
        BY <1>4, <4>3, <4>4
    <3> QED
      BY <1>3, <1>7, <3>2, <3>3
  <2>2. \A u \in Threads \ {w} : got'[u] = {} /\ todo'[u] = NoTodo
    BY <1>2, <1>4, <1>7 DEF TriggerInv
  <2>3. pc'[w] \notin Triggering => todo'[w] = NoTodo
    BY <1>3, <1>5, <1>7 DEF Triggering
  <2>4. pc'[w] \in Triggering =>
           /\ todo'[w].left \subseteq fdEvents'[todo'[w].fd]
           /\ pc'[w] = "trigger" => todo'[w].left # {}
           /\ todo'[w].back = "run" <=> cur'[w] # None
           /\ \A r \in got'[w] : r[1] # todo'[w].fd
    <3>1. pc'[w] \in Triggering => l = "trigger"
      BY <1>5, <1>7 DEF Triggering
    <3>2. l = "trigger" => T = todo[w] /\ todo[w].left # {}
      BY <1>2, <1>3, <1>4, <1>5 DEF FdTypes, Todo, Triggering
    <3> QED
      BY <1>2, <1>4, <1>7, <3>1, <3>2 DEF TriggerInv, Triggering
  <2>5. /\ pc'[w] \in IdleSteps => cur'[w] = None
        /\ got'[w] # {} => cur'[w] = None /\ pc'[w] \in {"list", "sched", "events"} \cup Triggering
    BY <1>2, <1>4, <1>5, <1>7 DEF TriggerInv, Triggering, IdleSteps
  <2> QED
    BY <1>2, <1>4, <2>1, <2>2, <2>3, <2>4, <2>5 DEF TriggerInv
<1> QED
  BY <1>6, <1>8, <1>9, OneFrom

LEMMA OneTrigger ==
  ASSUME FdInv, NEW w \in Threads, OneInv(w), Trigger(w)
  PROVE  OneInv(w)'
<1>1. PICK o, k, d, e, x :
        /\ o = Awaiting /\ k = Held(w) /\ d = todo[w].fd
        /\ e = (IF "READ" \in todo[w].left THEN "READ" ELSE "WRITE") /\ x = waiter[d][e]
  OBVIOUS
<1>2. SoloInv(w, o, k) /\ HeldOnce(w) /\ TriggerInv(w) /\ FdTypes
  BY <1>1 DEF OneInv, FdInv
<1>3. /\ pc[w] = "trigger" /\ pc' = [pc EXCEPT ![w] = "dec"]
      /\ fault' = (IF e \in fdEvents[d] THEN "none" ELSE "assert")
      /\ fdEvents' = [fdEvents EXCEPT ![d] = @ \ {e}] /\ waiter' = [waiter EXCEPT ![d][e] = NoEntry]
      /\ (IF x = NoEntry THEN fibers' = fibers ELSE fibers' = Append(fibers, x))
      /\ todo' = [todo EXCEPT ![w].left = @ \ {e}]
      /\ UNCHANGED <<fiberVars, ft, cur, cbFiber, status, timers, due, cbs, dropped, edge, got>>
  BY <1>1 DEF Trigger, Enqueue, At, Goto, queueVars, threadVars, taskVars, tmVars, idleVars
<1>4. d \in Fds /\ e \in Events /\ e \in todo[w].left /\ e \in fdEvents[d] /\ todo[w] \in Todo
  BY <1>1, <1>2, <1>3 DEF TriggerInv, Triggering, FdTypes, Todo, Events
<1>5. x \in Entry /\ x.item \in Tasks /\ x.kind \in {"cb", "fiber"}
  <2>1. x # NoEntry /\ x \in Entry \cup {NoEntry}
    BY <1>1, <1>2, <1>4 DEF HeldOnce, WaiterTypes, FdInv, WaitedInv
  <2> QED
    BY <2>1, EntryKinds
<1>6. fibers' = Append(fibers, x) /\ fault' = fault
  <2>1. fault = "none"
    BY <1>2 DEF SoloInv
  <2> QED
    BY <1>3, <1>4, <1>5, <2>1, EntryKinds
<1>7. /\ WaiterTypes' /\ WaitersOnce' /\ Awaiting' \subseteq o
      /\ o \subseteq Awaiting' \cup {t \in {x.item} : x.kind = "fiber"}
      /\ WaitingCbs' = WaitingCbs \ {t \in {x.item} : x.kind = "cb"}
      /\ x.kind = "fiber" => x.item \in o
      /\ x.kind = "cb" => x.item \in WaitingCbs
  <2>1. WaiterTypes /\ WaitersOnce
    BY <1>2 DEF HeldOnce
  <2>2. waiter' = [waiter EXCEPT ![d][e] = NoEntry]
    BY <1>3
  <2>3. d \in Fds /\ e \in Events /\ x = waiter[d][e]
    BY <1>1, <1>4
  <2>4. /\ WaiterTypes' /\ WaitersOnce' /\ WaitingFibers' \subseteq WaitingFibers
        /\ WaitingFibers \subseteq WaitingFibers' \cup {t \in {x.item} : x.kind = "fiber"}
        /\ WaitingCbs' = WaitingCbs \ {t \in {x.item} : x.kind = "cb"}
        /\ x.kind = "fiber" => x.item \in WaitingFibers
        /\ x.kind = "cb" => x.item \in WaitingCbs
    BY <2>1, <2>2, <2>3, DropWaiter
  <2>5. dropped' = dropped
    BY <1>3
  <2> QED
    BY <1>1, <2>4, <2>5 DEF Awaiting
<1>8. PICK more, rest : more = Awaiting' /\ rest = Held(w)'
  OBVIOUS
<1>9. IF x.kind = "cb" THEN more = o /\ x.item \in k /\ rest = k \ {x.item}
      ELSE x.item \in o /\ more \subseteq o /\ o \subseteq more \cup {x.item} /\ rest = k
  <2>1. k = timers \cup cbs[w] \cup WaitingCbs /\ rest = timers \cup cbs[w] \cup WaitingCbs'
    BY <1>1, <1>3, <1>8 DEF Held
  <2>2. WaitingCbs \cap (timers \cup cbs[w]) = {}
    BY <1>2 DEF HeldOnce
  <2>3. CASE x.kind = "cb"
    <3>1. more = o /\ x.item \in WaitingCbs /\ WaitingCbs' = WaitingCbs \ {x.item}
      BY <1>7, <1>8, <2>3
    <3> QED
      BY <2>1, <2>2, <2>3, <3>1
  <2>4. CASE x.kind = "fiber"
    <3>1. x.item \in o /\ more \subseteq o /\ o \subseteq more \cup {x.item} /\ WaitingCbs' = WaitingCbs
      BY <1>7, <1>8, <2>4
    <3> QED
      BY <2>1, <2>4, <3>1
  <2> QED
    BY <1>5, <2>3, <2>4
<1>10. SoloInv(w, more, rest)'
  <2>1. pc[w] \notin PCs /\ "dec" \notin PCs
    BY <1>3 DEF PCs
  <2>2. UNCHANGED <<fiberVars, ft, cur, cbFiber, status, fault>>
    BY <1>3, <1>6
  <2> QED
    BY <1>2, <1>3, <1>5, <1>6, <1>9, <2>1, <2>2, SoloWake
<1>11. pc'[w] = "dec"
  BY <1>2, <1>3 DEF FdTypes
<1>12. HeldOnce(w)'
  BY <1>2, <1>3, <1>7, <1>11 DEF HeldOnce
<1>13. TriggerInv(w)'
  <2>1. /\ todo'[w].fd = d /\ todo'[w].left = todo[w].left \ {e} /\ todo'[w].back = todo[w].back
        /\ \A u \in Threads \ {w} : todo'[u] = NoTodo /\ todo[u] = NoTodo /\ got'[u] = {}
    BY <1>1, <1>2, <1>3, <1>4 DEF FdTypes, TriggerInv, Todo
  <2>2. /\ fdEvents'[d] = fdEvents[d] \ {e} /\ \A a \in Fds \ {d} : fdEvents'[a] = fdEvents[a]
    BY <1>2, <1>3, <1>4 DEF FdTypes
  <2>3. \A a \in Fds : KernelMask(a)' = KernelMask(a)
    <3>1. \A a \in Fds : KernelMask(a)' = fdEvents'[a] \ UNION {todo'[u].left : u \in {u \in Threads : todo'[u].fd = a}}
      BY DEF KernelMask
    <3>2. \A a \in Fds : {u \in Threads : todo'[u].fd = a} = IF a = d THEN {w} ELSE {}
      BY <1>4, <2>1, IOAssumption DEF NoTodo
    <3>3. \A a \in Fds : KernelMask(a) = fdEvents[a] \ (IF a = d THEN todo[w].left ELSE {})
      BY <1>1, <1>2, MaskIs DEF TriggerInv
    <3> QED
      BY <1>4, <2>1, <2>2, <3>1, <3>2, <3>3
  <2>4. /\ pc'[w] \in Triggering /\ pc'[w] # "trigger" /\ pc'[w] \notin IdleSteps /\ pc[w] \in Triggering
    BY <1>3, <1>11 DEF Triggering, IdleSteps
  <2>5. \A r \in got[w] : r[1] # d /\ r[1] \in Fds
    BY <1>1, <1>2, <2>4 DEF TriggerInv, FdTypes
  <2>6. /\ todo'[w].left \subseteq fdEvents'[todo'[w].fd]
        /\ todo'[w].back = "run" <=> cur'[w] # None
    BY <1>1, <1>2, <1>3, <2>1, <2>2, <2>4 DEF TriggerInv
  <2>7. \A r \in got'[w] : r[2] \subseteq fdEvents'[r[1]] \cup {"ERR"} /\ \A s \in got'[w] : s[1] = r[1] => s = r
    BY <1>2, <1>3, <2>2, <2>5 DEF TriggerInv
  <2> QED
    BY <1>2, <1>3, <2>1, <2>3, <2>4, <2>5, <2>6, <2>7 DEF TriggerInv
<1> QED
  BY <1>8, <1>10, <1>12, <1>13, OneFrom

-----------------------------------------------------------------------------
(* One worker: adding and deleting.                                        *)

\* More is registered than before.
LEMMA TriggerGrows ==
  ASSUME FdTypes, NEW w \in Threads, TriggerInv(w), NEW d \in Fds, NEW e \in Events, e \notin fdEvents[d],
         fdEvents' = [fdEvents EXCEPT ![d] = @ \cup {e}], UNCHANGED <<edge, got, todo>>,
         (pc'[w] = pc[w] /\ cur'[w] = cur[w]) \/ (pc[w] \in PCs /\ pc'[w] \in PCs)
  PROVE  TriggerInv(w)'
<1>1. \A a \in Fds : fdEvents[a] \subseteq fdEvents'[a]
  BY DEF FdTypes
<1>2. \A a \in Fds : KernelMask(a) \subseteq KernelMask(a)'
  <2> SUFFICES ASSUME NEW a \in Fds
               PROVE  KernelMask(a) \subseteq KernelMask(a)'
    OBVIOUS
  <2>1. KernelMask(a)' = fdEvents'[a] \ UNION {todo[u].left : u \in {u \in Threads : todo[u].fd = a}}
    BY DEF KernelMask
  <2> QED
    BY <1>1, <2>1 DEF KernelMask
<1>3. PCs \cap (Triggering \cup IdleSteps) = {} /\ {"list", "sched", "events"} \subseteq IdleSteps
  BY DEF PCs, Triggering, IdleSteps
<1>4. \A r \in got[w] : r[1] \in Fds
  BY DEF FdTypes
<1>5. pc[w] \in Triggering => todo[w].fd \in Fds
  BY DEF FdTypes
<1>6. \A a \in Fds : edge'[a] \subseteq KernelMask(a)' \cup {"ERR"}
  BY <1>2 DEF TriggerInv
<1>7. \A r \in got'[w] : r[2] \subseteq fdEvents'[r[1]] \cup {"ERR"} /\ \A s \in got'[w] : s[1] = r[1] => s = r
  BY <1>1, <1>4 DEF TriggerInv
<1>8. CASE pc'[w] = pc[w] /\ cur'[w] = cur[w]
  BY <1>1, <1>5, <1>6, <1>7, <1>8 DEF TriggerInv
<1>9. CASE pc[w] \in PCs /\ pc'[w] \in PCs
  BY <1>3, <1>6, <1>7, <1>9 DEF TriggerInv
<1> QED
  BY <1>8, <1>9

LEMMA OneTimer ==
  ASSUME NEW w \in Threads, OneInv(w), NEW u \in Threads, NEW t \in Tasks, AddTimer(u, t)
  PROVE  OneInv(w)'
<1>1. PICK o, k : o = Awaiting /\ k = Held(w)
  OBVIOUS
<1>2. SoloInv(w, o, k) /\ HeldOnce(w) /\ TriggerInv(w)
  BY <1>1 DEF OneInv
<1>3. /\ status[t] = "new" /\ status' = [status EXCEPT ![t] = "queued"] /\ timers' = timers \cup {t}
      /\ UNCHANGED <<fibers, fiberVars, pc, ft, cur, cbFiber, fault, due, cbs, waiter, dropped, fdEvents, edge, got, todo>>
  BY DEF AddTimer, Keep, threadVars, fdVars, idleVars
<1>4. SoloInv(w, o, k \cup {t})' /\ t \notin k
  BY <1>2, <1>3, SoloKeep
<1>5. Awaiting' = o /\ WaitingCbs' = WaitingCbs /\ WaitersOnce' /\ WaiterTypes'
  BY <1>1, <1>2, <1>3, SameWaiters DEF HeldOnce
<1>6. Held(w)' = k \cup {t}
  BY <1>1, <1>3, <1>5 DEF Held
<1>7. HeldOnce(w)'
  <2>1. IsFiniteSet(timers')
    BY <1>2, <1>3, FS_AddElement DEF HeldOnce
  <2>2. t \notin cbs[w] \cup WaitingCbs
    BY <1>1, <1>4 DEF Held
  <2> QED
    BY <1>2, <1>3, <1>5, <2>1, <2>2 DEF HeldOnce
<1>8. TriggerInv(w)'
  BY <1>2, <1>3, TriggerFrame
<1> QED
  BY <1>4, <1>5, <1>6, <1>7, <1>8, OneFrom

LEMMA OneAddEvent ==
  ASSUME FdInv, NEW w \in Threads, OneInv(w), NEW d \in Fds, NEW e \in Events, NEW t \in Tasks, AddEventCb(d, e, t)
  PROVE  OneInv(w)'
<1>1. PICK o, k, x : /\ o = Awaiting /\ k = Held(w)
                     /\ x = [kind |-> "cb", item |-> t, thr |-> AnyThread]
  OBVIOUS
<1>2. SoloInv(w, o, k) /\ HeldOnce(w) /\ TriggerInv(w)
  BY <1>1 DEF OneInv
<1>3. waiter[d][e] = NoEntry /\ e \notin fdEvents[d]
  <2>1. e \notin fdEvents[d]
    BY DEF AddEventCb, Register
  <2> QED
    BY <2>1 DEF FdInv, WaitedInv
<1>4. x \in Entry /\ x.kind = "cb" /\ x.item = t
  BY <1>1 DEF Entry
<1>5. /\ status[t] = "new" /\ status' = [status EXCEPT ![t] = "queued"] /\ fault' = "none"
      /\ fdEvents' = [fdEvents EXCEPT ![d] = @ \cup {e}] /\ waiter' = [waiter EXCEPT ![d][e] = x]
      /\ dropped' = dropped \ (IF x.kind = "fiber" THEN {x.item} ELSE {})
      /\ UNCHANGED <<fibers, fiberVars, pc, ft, cur, cbFiber, timers, due, cbs, edge, got, todo>>
  BY <1>1, <1>3 DEF AddEventCb, Keep, Register, queueVars, threadVars, tmVars, idleVars
<1>6. SoloInv(w, o, k \cup {t})' /\ t \notin k
  <2>1. fault' = fault
    BY <1>2, <1>5 DEF SoloInv
  <2> QED
    BY <1>2, <1>5, <2>1, SoloKeep
<1>7. t \notin timers \cup cbs[w] \cup WaitingCbs
  BY <1>1, <1>6 DEF Held
<1>8. Awaiting' = o /\ WaitingCbs' = WaitingCbs \cup {t} /\ WaitersOnce' /\ WaiterTypes'
  <2>1. WaiterTypes /\ WaitersOnce
    BY <1>2 DEF HeldOnce
  <2>2. /\ waiter' = [waiter EXCEPT ![d][e] = x]
        /\ dropped' = dropped \ (IF x.kind = "fiber" THEN {x.item} ELSE {})
    BY <1>5
  <2>3. /\ WaiterTypes' /\ Awaiting' = Awaiting \cup {y \in {x.item} : x.kind = "fiber"}
        /\ WaitingCbs' = WaitingCbs \cup {y \in {x.item} : x.kind = "cb"}
        /\ (WaitersOnce /\ (x.kind = "cb" => x.item \notin WaitingCbs)) => WaitersOnce'
    BY <1>3, <1>4, <2>1, <2>2, AddWaiter
  <2> QED
    BY <1>1, <1>4, <1>7, <2>1, <2>3
<1>9. Held(w)' = k \cup {t}
  BY <1>1, <1>5, <1>8 DEF Held
<1>10. HeldOnce(w)'
  BY <1>2, <1>5, <1>7, <1>8 DEF HeldOnce
<1>11. TriggerInv(w)'
  BY <1>2, <1>3, <1>5, TriggerGrows DEF FdInv
<1> QED
  BY <1>6, <1>8, <1>9, <1>10, <1>11, OneFrom

LEMMA OneWaitEvent ==
  ASSUME FdInv, NEW w \in Threads, OneInv(w), NEW d \in Fds, NEW e \in Events, WaitEvent(w, d, e)
  PROVE  OneInv(w)'
<1>1. PICK o, k, f, x : /\ o = Awaiting /\ k = Held(w) /\ f = cur[w]
                        /\ x = [kind |-> "fiber", item |-> f, thr |-> AnyThread]
  OBVIOUS
<1>2. SoloInv(w, o, k) /\ HeldOnce(w) /\ TriggerInv(w)
  BY <1>1 DEF OneInv
<1>3. waiter[d][e] = NoEntry /\ e \notin fdEvents[d]
  <2>1. e \notin fdEvents[d]
    BY DEF WaitEvent, Register
  <2> QED
    BY <2>1 DEF FdInv, WaitedInv
<1>4. pc[w] = "run" /\ f \in Tasks /\ f # None /\ prog[f] # None /\ fstate[f] = "EXEC"
  <2>1. pc[w] = "run" /\ prog[f] # None
    BY <1>1 DEF WaitEvent, At, MayYield
  <2>2. f # None /\ f \in Tasks
    BY <1>1, <1>2, <2>1 DEF SoloInv, SoloThread, SoloTypes, HasFiber
  <2> QED
    BY <1>1, <1>2, <2>1, <2>2 DEF SoloInv, SoloStates, OffStack
<1>5. x \in Entry /\ x.kind = "fiber" /\ x.item = f
  BY <1>1, <1>4 DEF Entry
<1>a. PICK l \in {"hold", "run"} : pc' = [pc EXCEPT ![w] = l]
  BY DEF WaitEvent, Goto
<1>6. /\ fault' = "none"
      /\ fdEvents' = [fdEvents EXCEPT ![d] = @ \cup {e}] /\ waiter' = [waiter EXCEPT ![d][e] = x]
      /\ dropped' = dropped \ (IF x.kind = "fiber" THEN {x.item} ELSE {})
      /\ UNCHANGED <<fibers, fiberVars, ft, cur, cbFiber, status, timers, due, cbs, edge, got, todo>>
  BY <1>1, <1>3, <1>4 DEF WaitEvent, Register, queueVars, threadVars, tmVars, idleVars
<1>7. SoloInv(w, o \cup {f}, k)'
  BY <1>1, <1>2, <1>4, <1>6, <1>a, SoloAwait
<1>8. Awaiting' = o \cup {f} /\ WaitingCbs' = WaitingCbs /\ WaitersOnce' /\ WaiterTypes'
  <2>1. WaiterTypes /\ WaitersOnce
    BY <1>2 DEF HeldOnce
  <2>2. /\ waiter' = [waiter EXCEPT ![d][e] = x]
        /\ dropped' = dropped \ (IF x.kind = "fiber" THEN {x.item} ELSE {})
    BY <1>6
  <2>3. /\ WaiterTypes' /\ Awaiting' = Awaiting \cup {y \in {x.item} : x.kind = "fiber"}
        /\ WaitingCbs' = WaitingCbs \cup {y \in {x.item} : x.kind = "cb"}
        /\ (WaitersOnce /\ (x.kind = "cb" => x.item \notin WaitingCbs)) => WaitersOnce'
    BY <1>3, <1>5, <2>1, <2>2, AddWaiter
  <2> QED
    BY <1>1, <1>5, <2>1, <2>3
<1>9. Held(w)' = k
  BY <1>1, <1>6, <1>8 DEF Held
<1>10. pc'[w] \in {"hold", "run"}
  BY <1>a DEF FdInv, FdTypes
<1>11. HeldOnce(w)'
  BY <1>2, <1>4, <1>6, <1>8, <1>10 DEF HeldOnce
<1>12. TriggerInv(w)'
  <2>1. pc[w] \in PCs /\ pc'[w] \in PCs
    BY <1>4, <1>10 DEF PCs
  <2> QED
    BY <1>2, <1>3, <1>6, <2>1, TriggerGrows DEF FdInv
<1> QED
  BY <1>7, <1>8, <1>9, <1>11, <1>12, OneFrom

LEMMA OneDelete ==
  ASSUME FdInv, NEW w \in Threads, OneInv(w), NEW d \in Fds, NEW e \in Events, DelEvent(w, d, e)
  PROVE  OneInv(w)'
<1>1. PICK o, k, x, t : o = Awaiting /\ k = Held(w) /\ x = waiter[d][e] /\ t = x.item
  OBVIOUS
<1>2. SoloInv(w, o, k) /\ HeldOnce(w) /\ TriggerInv(w) /\ FdTypes
  BY <1>1 DEF OneInv, FdInv
<1>3. /\ pc[w] = "run" /\ e \in fdEvents[d] /\ fault' = fault
      /\ IF x.kind = "cb" THEN status' = [status EXCEPT ![t] = "done"] /\ dropped' = dropped
         ELSE dropped' = dropped \cup {t} /\ status' = status
      /\ fdEvents' = [fdEvents EXCEPT ![d] = @ \ {e}] /\ waiter' = [waiter EXCEPT ![d][e] = NoEntry]
      /\ edge' = [edge EXCEPT ![d] = IF fdEvents[d] \subseteq {e} THEN {} ELSE @ \ {e}]
      /\ UNCHANGED <<fibers, fiberVars, pc, ft, cur, cbFiber, timers, due, cbs, got, todo>>
  BY <1>1 DEF DelEvent, Deregister, At, queueVars, threadVars, tmVars, idleVars
<1>a. x.kind \in {"cb", "fiber"}
  <2>1. x # NoEntry /\ x \in Entry \cup {NoEntry}
    BY <1>1, <1>2, <1>3 DEF HeldOnce, WaiterTypes, FdInv, WaitedInv
  <2> QED
    BY <2>1, EntryKinds
<1>4. /\ WaiterTypes' /\ WaitersOnce' /\ Awaiting' = o
      /\ WaitingCbs' = WaitingCbs \ {y \in {t} : x.kind = "cb"} /\ (x.kind = "cb" => t \in WaitingCbs)
  <2>1. WaiterTypes /\ WaitersOnce
    BY <1>2 DEF HeldOnce
  <2>2. waiter' = [waiter EXCEPT ![d][e] = NoEntry] /\ x = waiter[d][e]
    BY <1>1, <1>3
  <2>3. /\ WaiterTypes' /\ WaitersOnce' /\ WaitingFibers' \subseteq WaitingFibers
        /\ WaitingFibers \subseteq WaitingFibers' \cup {y \in {x.item} : x.kind = "fiber"}
        /\ WaitingCbs' = WaitingCbs \ {y \in {x.item} : x.kind = "cb"}
        /\ x.kind = "fiber" => x.item \in WaitingFibers
        /\ x.kind = "cb" => x.item \in WaitingCbs
    BY <2>1, <2>2, DropWaiter
  <2>4. Awaiting' = Awaiting
    BY <1>1, <1>3, <1>a, <2>3 DEF Awaiting
  <2> QED
    BY <1>1, <2>3, <2>4
<1>5. PICK k2 : k2 = Held(w)'
  OBVIOUS
<1>7. SoloInv(w, o, k2)' /\ HeldOnce(w)'
  <2>1. CASE x.kind = "cb"
    <3>1. t \in k /\ SoloInv(w, o, k \ {t})'
      BY <1>1, <1>2, <1>3, <1>4, <2>1, SoloDrop DEF Held
    <3>2. Held(w)' = k \ {t}
      BY <1>1, <1>2, <1>3, <1>4, <2>1 DEF Held, HeldOnce
    <3>3. HeldOnce(w)'
      BY <1>2, <1>3, <1>4, <2>1 DEF HeldOnce
    <3> QED
      BY <1>5, <3>1, <3>2, <3>3
  <2>2. CASE x.kind = "fiber"
    <3>1. SoloInv(w, o, k)'
      BY <1>2, <1>3, <2>2, SoloSame
    <3>2. Held(w)' = k
      BY <1>1, <1>3, <1>4, <2>2 DEF Held
    <3>3. HeldOnce(w)'
      BY <1>2, <1>3, <1>4, <2>2 DEF HeldOnce
    <3> QED
      BY <1>5, <3>1, <3>2, <3>3
  <2> QED
    BY <1>a, <2>1, <2>2
<1>9. TriggerInv(w)'
  <2>1. /\ \A u \in Threads : todo[u] = NoTodo
        /\ got[w] = {}
    <3>1. cur[w] # None
      BY <1>2, <1>3 DEF SoloInv, SoloThread, HasFiber
    <3> QED
      BY <1>2, <1>3, <3>1 DEF TriggerInv, Triggering
  <2>2. \A a \in Fds : {u \in Threads : todo[u].fd = a} = {}
    BY <2>1, IOAssumption DEF NoTodo
  <2>3. \A a \in Fds : KernelMask(a) = fdEvents[a]
    BY <2>2 DEF KernelMask
  <2>4. ASSUME NEW a \in Fds
        PROVE  KernelMask(a)' = fdEvents'[a]
    <3>1. KernelMask(a)' = fdEvents'[a] \ UNION {todo'[u].left : u \in {u \in Threads : todo'[u].fd = a}}
      BY DEF KernelMask
    <3>2. UNION {todo'[u].left : u \in {u \in Threads : todo'[u].fd = a}} = {}
      BY <1>3, <2>2
    <3> QED
      BY <3>1, <3>2
  <2>5. ASSUME NEW a \in Fds
        PROVE  edge'[a] \subseteq KernelMask(a)' \cup {"ERR"}
    <3>1. edge[a] \subseteq fdEvents[a] \cup {"ERR"}
      BY <1>2, <2>3 DEF TriggerInv
    <3>2. KernelMask(a)' = fdEvents'[a]
      BY <2>4
    <3>3. /\ edge \in [Fds -> SUBSET Reported]
          /\ fdEvents \in [Fds -> SUBSET Events]
      BY <1>2 DEF FdTypes
    <3>4. CASE a # d
      BY <1>3, <3>1, <3>2, <3>3, <3>4
    <3>5. CASE a = d
      BY <1>3, <3>1, <3>2, <3>3, <3>5
    <3> QED
      BY <3>4, <3>5
  <2>6. pc[w] \notin Triggering /\ pc[w] \notin IdleSteps
    BY <1>3 DEF Triggering, IdleSteps
  <2> QED
    BY <1>2, <1>3, <2>1, <2>5, <2>6 DEF TriggerInv
<1> QED
  BY <1>4, <1>5, <1>7, <1>9, OneFrom

-----------------------------------------------------------------------------
(* One worker: the invariant.                                              *)

OneWorkerInv == \A w \in Threads : LoopThread(w) => OneInv(w)

LEMMA IOShapeKept == [IONext]_ioAll => shape' = shape
<1>1. ASSUME Main \/ IOMain
      PROVE  shape' = shape
  BY <1>1 DEF Main, IOMain, StopStep, UserSchedule, Start, StopFlags, StopRoot, RootReturns, Join, AddTimer,
     AddEventCb, ctlVars
<1>2. ASSUME NEW u \in Threads, RunStep(u) \/ Body(u)
      PROVE  shape' = shape
  BY <1>2 DEF RunStep, Pick, PickNothing, ResumeFiber, SkipDead, RunCallback, Ret, SettleReady,
     SettleDead, SettleOther, SetHold, ThreadExit, IdleIn, IdleOut, Body, Finish, YieldToReady,
     YieldToHold, YieldTo, SwapOut, SwitchTo, Spawn, ctlVars
<1>3. ASSUME NEW u \in Threads, IOTickle(u) \/ IOIdle(u) \/ Trigger(u) \/ DecPending(u) \/ IOBody(u)
      PROVE  shape' = shape
  BY <1>3 DEF IOTickle, IOIdle, CheckTimers, CheckPending, CheckQueue, EpollReturns, ListExpired,
     ScheduleExpired, HandleReport, LeaveIdle, Trigger, DecPending, IOBody, AddTimer, AddEventCb, WaitEvent,
     DelEvent, Cancel, schedRest, ctlVars
<1>4. ASSUME (\E t \in Tasks : TimerDue(t)) \/ \E d \in Fds, e \in Events \cup {"ERR"} : FdReady(d, e)
      PROVE  shape' = shape
  BY <1>4 DEF TimerDue, FdReady, vars, ctlVars
<1> QED
  BY <1>1, <1>2, <1>3, <1>4 DEF IONext, IOThread, ioAll, vars, ctlVars

\* All that a thread outside run() may do is to go on with a tickle().
LEMMA OffIOTickles ==
  ASSUME NEW u \in Threads, pc[u] = "off", IOThread(u)
  PROVE  IOTickle(u)
<1>1. ~RunStep(u) /\ ~Body(u)
  BY DEF RunStep, Pick, PickNothing, ResumeFiber, SkipDead, RunCallback, Ret, SettleReady, SettleDead, SettleOther,
     SetHold, ThreadExit, IdleIn, IdleOut, Body, Finish, YieldToReady, YieldToHold, SwapOut, SwitchTo, Spawn, At
<1>2. ~IOIdle(u) /\ ~Trigger(u) /\ ~DecPending(u) /\ ~IOBody(u)
  BY DEF IOIdle, CheckTimers, CheckPending, CheckQueue, EpollReturns, ListExpired, ScheduleExpired, HandleReport,
     LeaveIdle, Trigger, DecPending, IOBody, WaitEvent, DelEvent, Cancel, At
<1> QED
  BY <1>1, <1>2 DEF IOThread

LEMMA OneWorkerInit == IOInit => OneWorkerInv
<1> SUFFICES ASSUME IOInit, NEW w \in Threads
             PROVE  OneInv(w)
  BY DEF OneWorkerInv
<1>1. SoloInv(w, {}, {})
  BY SoloInit DEF IOInit
<1>2. /\ PerEvent(waiter) /\ \A d \in Fds, e \in Events : waiter[d][e] = NoEntry
      /\ timers = {} /\ due = {} /\ cbs = [u \in Threads |-> {}] /\ got = [u \in Threads |-> {}]
      /\ todo = [u \in Threads |-> NoTodo] /\ dropped = {} /\ \A d \in Fds : edge[d] = {}
      /\ pc = [u \in Threads |-> "off"]
  BY DEF IOInit, Init, PerEvent
<1>3. Awaiting = {} /\ WaitingCbs = {} /\ WaiterTypes /\ WaitersOnce
  BY <1>2, EntryKinds DEF Awaiting, WaitingFibers, WaitingCbs, WaiterTypes, WaitersOnce
<1>4. Held(w) = {}
  BY <1>2, <1>3 DEF Held
<1>5. HeldOnce(w)
  BY <1>2, <1>3, FS_EmptySet DEF HeldOnce
<1>6. TriggerInv(w)
  BY <1>2 DEF TriggerInv, Triggering, IdleSteps
<1> QED
  BY <1>1, <1>3, <1>4, <1>5, <1>6 DEF OneInv

LEMMA OneWorkerStep == FdInv /\ OneWorkerInv /\ [IONext]_ioAll => OneWorkerInv'
<1> SUFFICES ASSUME FdInv, OneWorkerInv, [IONext]_ioAll, NEW w \in Threads, LoopThread(w)'
             PROVE  OneInv(w)'
  BY DEF OneWorkerInv
<1>1. LoopThread(w) /\ OneInv(w) /\ FdTypes
  <2>1. LoopThread(w)
    BY IOShapeKept DEF LoopThread
  <2> QED
    BY <2>1 DEF OneWorkerInv, FdInv
<1>2. CASE UNCHANGED ioAll
  BY <1>1, <1>2, OneOutside
<1>3. CASE Main /\ UNCHANGED ioVars
  BY <1>1, <1>3, OneScheduler
<1>4. CASE IOMain
  <2>1. Caller \in Threads
    BY DEF Threads
  <2> QED
    BY <1>1, <1>4, <2>1, OneTimer DEF IOMain
<1>5. ASSUME NEW u \in Threads, IOThread(u)
      PROVE  OneInv(w)'
  <2>1. CASE u # w
    <3>1. pc[u] = "off"
      BY <1>1, <2>1 DEF OneInv, SoloInv, SoloThread
    <3> QED
      BY <1>1, <1>5, <3>1, OffIOTickles, OneOutside
  <2>2. CASE u = w
    <3>1. CASE (RunStep(w) \/ Body(w)) /\ UNCHANGED ioVars
      BY <1>1, <3>1, OneScheduler
    <3>2. CASE IOTickle(w)
      BY <1>1, <3>2, OneOutside
    <3>3. CASE IOIdle(w)
      BY <1>1, <3>3, OneIdle, OneEpoll, OneList, OneBatch, OneReport DEF IOIdle
    <3>4. CASE Trigger(w) \/ DecPending(w)
      BY <1>1, <3>4, OneTrigger, OneDec
    <3>5. CASE IOBody(w)
      BY <1>1, <3>5, OneTimer, OneAddEvent, OneWaitEvent, OneDelete, OneCancel DEF IOBody
    <3> QED
      BY <1>5, <2>2, <3>1, <3>2, <3>3, <3>4, <3>5 DEF IOThread
  <2> QED
    BY <2>1, <2>2
<1>6. CASE \E t \in Tasks : TimerDue(t)
  BY <1>1, <1>6, OneOutside
<1>7. CASE \E d \in Fds, e \in Events \cup {"ERR"} : FdReady(d, e)
  BY <1>1, <1>7, OneReady DEF Reported
<1> QED
  BY <1>2, <1>3, <1>4, <1>5, <1>6, <1>7 DEF IONext

LEMMA OneWorkerInvariant == IOSpec => []OneWorkerInv
<1> QED
  BY OneWorkerInit, OneWorkerStep, FdInvariant, PTL DEF IOSpec

\* A task the invariant accounts for is where NothingLost says it is.
LEMMA FoundByOne ==
  ASSUME NEW w \in Threads, OneInv(w), NEW t \in Tasks, status[t] \in {"queued", "begun"}
  PROVE  InQueue(t) \/ InThread(t) \/ Armed(t) \/ Dropped(t)
<1>1. SoloHas(w, Awaiting, Held(w), t)
  BY DEF OneInv, SoloInv, SoloKeeps
<1>2. CASE \E e \in Queue : For(e, t)
  <2>1. PICK i \in 1 .. Len(fibers) : For(fibers[i], t)
    BY <1>2 DEF Queue
  <2> QED
    BY <2>1 DEF For, InQueue
<1>3. CASE For(ft[w], t) \/ (cur[w] # None /\ prog[cur[w]] = t)
  BY <1>3 DEF For, InThread
<1>4. CASE t \in Held(w)
  <2>1. CASE t \in timers \cup cbs[w]
    BY <2>1 DEF Armed
  <2>2. CASE t \in WaitingCbs
    <3>1. PICK d \in Fds, e \in Events : waiter[d][e].kind = "cb" /\ waiter[d][e].item = t
      BY <2>2 DEF WaitingCbs
    <3> QED
      BY <3>1, EntryKinds DEF Armed
  <2> QED
    BY <1>4, <2>1, <2>2 DEF Held
<1>6. CASE \E f \in dropped : prog[f] = t
  <2>1. PICK f \in dropped : prog[f] = t
    BY <1>6
  <2>2. f \in Tasks /\ (fstate[f] = "EXEC" => cur[w] = f)
    BY DEF OneInv, SoloInv, SoloPlaces, SoloStates, Awaiting
  <2>3. CASE fstate[f] = "EXEC"
    BY <2>1, <2>2, <2>3, EntryKinds DEF InThread
  <2>4. CASE fstate[f] # "EXEC"
    BY <2>1, <2>4 DEF Dropped
  <2> QED
    BY <2>3, <2>4
<1>5. CASE \E f \in WaitingFibers : prog[f] = t
  <2>1. PICK f \in Tasks, d \in Fds, e \in Events :
          waiter[d][e].kind = "fiber" /\ waiter[d][e].item = f /\ prog[f] = t
    BY <1>5 DEF WaitingFibers
  <2> QED
    BY <2>1, EntryKinds DEF Armed
<1> QED
  BY <1>1, <1>2, <1>3, <1>4, <1>5, <1>6 DEF SoloHas, Awaiting

(***************************************************************************)
(* While one worker runs the loop no assertion fails: addEvent finds an    *)
(* empty context, triggerEvent a registered event, and a fiber that waited *)
(* for an event has been left and holds when it is resumed, whatever it    *)
(* and the others schedule, wait for, cancel or delete.  With a second     *)
(* worker it may still be on its way out, as in the run sched_race.        *)
(* Events are added by tasks, whose thread has a scheduler (see the        *)
(* precondition in IOManager); the calling thread adds timers.             *)
(***************************************************************************)
THEOREM OneWorkerIsSafe ==
  ASSUME OneThread
  PROVE  IOSpec => []RegisteredHasWaiter
<1>1. FdInv /\ OneWorkerInv => RegisteredHasWaiter
  <2> SUFFICES ASSUME FdInv, OneWorkerInv
               PROVE  RegisteredHasWaiter
    OBVIOUS
  <2>1. \E w \in Threads : LoopThread(w)
    BY OneLoopThread DEF FdInv, FdTypes
  <2> QED
    BY <2>1 DEF OneWorkerInv, OneInv, SoloInv, FdInv, WaitedInv, RegisteredHasWaiter
<1> QED
  BY <1>1, FdInvariant, OneWorkerInvariant, PTL

-----------------------------------------------------------------------------
(* One worker: the end.                                                    *)

\* The worker leaves when stopping() has found nothing armed and nothing queued,
\* after the caller has called stop(), which waits for it.
StopInv(w) ==
  /\ idleTerm \in [Threads -> BOOLEAN]
  /\ pc[w] \in {"ckpending", "ckqueue"} => timers = {}
  /\ pc[w] = "ckqueue" => pending = 0
  /\ idleTerm[w] => /\ pc[w] \in {"idleout", "pick", "dispatch", "exit"} /\ ft[w] = NoEntry
                    /\ fibers = <<>> /\ timers = {} /\ pending = 0 /\ main # "user"
  /\ pc[w] = "exit" => idleTerm[w]
  /\ isAutoStop => main # "user"
  /\ main = "done" => pc[w] = "exit"

OneStopInv == \A w \in Threads : LoopThread(w) => StopInv(w)

LEMMA StopThread ==
  ASSUME FdInv, NEW w \in Threads, OneInv(w), StopInv(w), IOThread(w), ~IOTickle(w)
  PROVE  StopInv(w)'
<1>0. /\ pc \in [Threads -> IOPCs] /\ idleTerm \in [Threads -> BOOLEAN]
      /\ (pc[w] \in Triggering => todo[w].back \in {"run", "events"})
  BY DEF FdInv, FdTypes, Todo, StopInv
<1>1. UNCHANGED <<main, isAutoStop>>
  <2>1. CASE RunStep(w) \/ Body(w)
    BY <2>1 DEF RunStep, Pick, PickNothing, ResumeFiber, SkipDead, RunCallback, Ret, SettleReady,
       SettleDead, SettleOther, SetHold, ThreadExit, IdleIn, IdleOut, Body, Finish, YieldToReady,
       YieldToHold, YieldTo, SwapOut, SwitchTo, Spawn, ctlVars
  <2>2. CASE ~(RunStep(w) \/ Body(w))
    BY <2>2 DEF IOThread, IOIdle, CheckTimers, CheckPending, CheckQueue, EpollReturns, ListExpired,
       ScheduleExpired, HandleReport, LeaveIdle, Trigger, DecPending, IOBody, AddTimer, AddEventCb, WaitEvent,
       DelEvent, Cancel, schedRest, ctlVars
  <2> QED
    BY <2>1, <2>2
<1>2. pc[w] \notin {"off", "exit"}
  <2>1. CASE RunStep(w) \/ Body(w)
    BY <2>1 DEF RunStep, Pick, PickNothing, ResumeFiber, SkipDead, RunCallback, Ret, SettleReady, SettleDead, SettleOther,
     SetHold, ThreadExit, IdleIn, IdleOut, Body, Finish, YieldToReady, YieldToHold, SwapOut, SwitchTo, Spawn, At
  <2>2. CASE ~(RunStep(w) \/ Body(w))
    BY <2>2 DEF IOThread, IOIdle, CheckTimers, CheckPending, CheckQueue, EpollReturns, ListExpired, ScheduleExpired,
     HandleReport, LeaveIdle, Trigger, DecPending, IOBody, WaitEvent, DelEvent, Cancel, At
  <2> QED
    BY <2>1, <2>2
<1>3. pc'[w] \in PCs \cup {"wait", "list", "sched", "events", "trigger", "dec"} \/ CheckTimers(w) \/ CheckPending(w)
  <2>1. CASE RunStep(w) \/ Body(w)
    <3>1. pc[w] \in PCs
      BY <2>1 DEF RunStep, Pick, PickNothing, ResumeFiber, SkipDead, RunCallback, Ret, SettleReady, SettleDead,
         SettleOther, SetHold, ThreadExit, IdleIn, IdleOut, Body, Finish, YieldToReady, YieldToHold, SwapOut,
         SwitchTo, Spawn, At, PCs
    <3> QED
      BY <2>1, <3>1, SchedulerFrame DEF FdInv
  <2>2. CASE CheckQueue(w) \/ EpollReturns(w) \/ ListExpired(w) \/ ScheduleExpired(w) \/ LeaveIdle(w) \/ Trigger(w)
    BY <1>0, <2>2 DEF CheckQueue, EpollReturns, ListExpired, ScheduleExpired, LeaveIdle, Trigger, Goto, PCs
  <2>3. CASE HandleReport(w)
    BY <1>0, <2>3 DEF HandleReport, StartTrigger, Goto, At
  <2>4. CASE DecPending(w)
    BY <1>0, <2>4 DEF DecPending, Goto, At, PCs, Triggering
  <2>5. CASE IOBody(w)
    <3>1. pc[w] = "run" /\ (pc' = pc \/ \E l \in {"hold", "run", "trigger"} : pc' = [pc EXCEPT ![w] = l])
      BY <2>5 DEF IOBody, AddTimer, AddEventCb, WaitEvent, DelEvent, Cancel, StartTrigger, Goto, At
    <3> QED
      BY <1>0, <3>1 DEF PCs
  <2> QED
    BY <2>1, <2>2, <2>3, <2>4, <2>5 DEF IOThread, IOIdle
<1>4. pc'[w] \in {"ckpending", "ckqueue"} => timers' = {} /\ (pc'[w] = "ckqueue" => pending' = 0)
  <2>1. CASE CheckTimers(w)
    BY <1>0, <2>1 DEF CheckTimers, Goto, ioVars, tmVars
  <2>2. CASE CheckPending(w)
    BY <1>0, <2>2 DEF CheckPending, Goto, At, ioVars, tmVars, StopInv
  <2>3. CASE pc'[w] \in PCs \cup {"wait", "list", "sched", "events", "trigger", "dec"}
    BY <2>3 DEF PCs
  <2> QED
    BY <1>3, <2>1, <2>2, <2>3
<1>5. idleTerm' = idleTerm \/ CheckQueue(w)
  <2>1. CASE RunStep(w) \/ Body(w)
    BY <2>1 DEF RunStep, Pick, PickNothing, ResumeFiber, SkipDead, RunCallback, Ret, SettleReady,
       SettleDead, SettleOther, SetHold, ThreadExit, IdleIn, IdleOut, Body, Finish, YieldToReady,
       YieldToHold, YieldTo, SwapOut, SwitchTo, Spawn, threadVars
  <2>2. CASE ~(RunStep(w) \/ Body(w))
    BY <2>2 DEF IOThread, IOIdle, CheckTimers, CheckPending, EpollReturns, ListExpired,
       ScheduleExpired, HandleReport, LeaveIdle, Trigger, DecPending, IOBody, AddTimer, AddEventCb, WaitEvent,
       DelEvent, Cancel, threadVars
  <2> QED
    BY <2>1, <2>2
<1>6. pc'[w] = "exit" => ThreadExit(w)
  <2>1. CASE RunStep(w) \/ Body(w)
    BY <1>0, <1>2, <2>1 DEF RunStep, Pick, PickNothing, ResumeFiber, SkipDead, RunCallback, Ret, SettleReady,
       SettleDead, SettleOther, SetHold, IdleIn, IdleOut, Body, Finish, YieldToReady,
       YieldToHold, YieldTo, SwapOut, SwitchTo, Spawn, SwapIn, Goto
  <2>2. CASE CheckTimers(w) \/ CheckPending(w) \/ CheckQueue(w) \/ EpollReturns(w) \/ ListExpired(w) \/ ScheduleExpired(w)
             \/ LeaveIdle(w) \/ Trigger(w)
    BY <1>0, <2>2 DEF CheckTimers, CheckPending, CheckQueue, EpollReturns, ListExpired, ScheduleExpired, LeaveIdle,
       Trigger, Goto
  <2>3. CASE HandleReport(w)
    BY <1>0, <1>2, <2>3 DEF HandleReport, StartTrigger, Goto
  <2>4. CASE DecPending(w)
    BY <1>0, <2>4 DEF DecPending, Goto, At, Triggering
  <2>5. CASE IOBody(w)
    <3>1. pc' = pc \/ \E l \in {"hold", "run", "trigger"} : pc' = [pc EXCEPT ![w] = l]
      BY <2>5 DEF IOBody, AddTimer, AddEventCb, WaitEvent, DelEvent, Cancel, StartTrigger, Goto
    <3> QED
      BY <1>0, <1>2, <3>1
  <2> QED
    BY <2>1, <2>2, <2>3, <2>4, <2>5 DEF IOThread, IOIdle
<1>7. /\ idleTerm' \in [Threads -> BOOLEAN]
      /\ idleTerm'[w] => /\ pc'[w] \in {"idleout", "pick", "dispatch", "exit"} /\ ft'[w] = NoEntry
                         /\ fibers' = <<>> /\ timers' = {} /\ pending' = 0 /\ main' # "user"
  <2>1. CASE CheckQueue(w)
    <3>1. /\ pc[w] = "ckqueue" /\ idleTerm' = [idleTerm EXCEPT ![w] = Stopping]
          /\ UNCHANGED <<fibers, ft, timers, pending>> /\ (Stopping => pc' = [pc EXCEPT ![w] = "idleout"])
      BY <2>1 DEF CheckQueue, At, Goto, schedRest, queueVars, ioVars, tmVars
    <3>2. Stopping \in BOOLEAN
      BY DEF Stopping
    <3>3. ft[w] = NoEntry
      BY <3>1, IdleThread DEF IdleSteps
    <3>4. timers = {} /\ pending = 0
      BY <3>1 DEF StopInv
    <3>5. Stopping => fibers = <<>> /\ main # "user"
      BY DEF Stopping, StopInv
    <3>6. idleTerm' \in [Threads -> BOOLEAN] /\ (idleTerm'[w] <=> Stopping)
      BY <1>0, <3>1, <3>2
    <3> QED
      BY <1>0, <1>1, <3>1, <3>3, <3>4, <3>5, <3>6
  <2>2. CASE ~CheckQueue(w)
    <3> SUFFICES ASSUME idleTerm[w]
                 PROVE  /\ pc'[w] \in {"idleout", "pick", "dispatch", "exit"} /\ ft'[w] = NoEntry
                        /\ fibers' = <<>> /\ timers' = {} /\ pending' = 0 /\ main' # "user"
      BY <1>0, <1>5, <2>2
    <3>1. /\ pc[w] \in {"idleout", "pick", "dispatch"} /\ ft[w] = NoEntry
          /\ fibers = <<>> /\ timers = {} /\ pending = 0 /\ main # "user"
      BY <1>2 DEF StopInv
    <3>2. ~IOIdle(w) /\ ~Trigger(w) /\ ~DecPending(w) /\ ~IOBody(w)
      BY <3>1 DEF IOIdle, CheckTimers, CheckPending, CheckQueue, EpollReturns, ListExpired, ScheduleExpired,
         HandleReport, LeaveIdle, Trigger, DecPending, IOBody, WaitEvent, DelEvent, Cancel, At
    <3>3. (RunStep(w) \/ Body(w)) /\ UNCHANGED ioVars
      BY <3>2 DEF IOThread
    <3>4. PickNothing(w) \/ ThreadExit(w) \/ IdleOut(w)
      <4>1. Len(fibers) = 0 /\ NoEntry.kind = "none"
        BY <3>1 DEF NoEntry
      <4>2. ~Pick(w)
        BY <4>1 DEF Pick
      <4> QED
        BY <3>1, <3>3, <4>1, <4>2 DEF RunStep, ResumeFiber, SkipDead, RunCallback, Ret, SettleReady,
           SettleDead, SettleOther, SetHold, IdleIn, Body, Finish, YieldToReady, YieldToHold, SwapOut, SwitchTo,
           Spawn, At
    <3>5. pc'[w] \in {"idleout", "pick", "dispatch", "exit"} /\ ft'[w] = NoEntry /\ fibers' = fibers
      <4>1. DOMAIN ft = Threads
        BY DEF OneInv, SoloInv, SoloTypes
      <4>2. CASE PickNothing(w)
        BY <1>0, <4>1, <4>2 DEF PickNothing, Goto
      <4>3. CASE ThreadExit(w) \/ IdleOut(w)
        BY <1>0, <3>1, <4>3 DEF ThreadExit, IdleOut, Goto, queueVars, threadVars
      <4> QED
        BY <3>4, <4>2, <4>3
    <3> QED
      BY <1>1, <3>1, <3>3, <3>5 DEF ioVars, tmVars
  <2> QED
    BY <2>1, <2>2
<1>8. pc'[w] = "exit" => idleTerm'[w]
  BY <1>6 DEF ThreadExit, threadVars
<1>9. main' # "done"
  BY <1>1, <1>2 DEF StopInv
<1> QED
  BY <1>1, <1>4, <1>7, <1>8, <1>9 DEF StopInv

LEMMA StopMain ==
  ASSUME FdInv, NEW w \in Threads, LoopThread(w), StopInv(w), Main, UNCHANGED ioVars
  PROVE  StopInv(w)'
<1>0. ~shape.caller /\ shape.workers = {w} /\ pc \in [Threads -> IOPCs]
  BY IOAssumption DEF LoopThread, FdInv, FdTypes
<1>1. UNCHANGED <<timers, pending>> /\ idleTerm' = idleTerm /\ ft' = ft
  BY DEF ioVars, tmVars, Main, StopStep, UserSchedule, Start, StopFlags, StopRoot, RootReturns, Join, threadVars
<1>2. CASE \E t \in Tasks, kind \in Kinds, thr \in Known(UserPins) : UserSchedule(t, kind, thr)
  <2>1. main = "user" /\ UNCHANGED <<pc, main, isAutoStop>>
    BY <1>2 DEF UserSchedule, MainAt, ctlVars
  <2> QED
    BY <1>1, <2>1 DEF StopInv
<1>3. CASE Start
  <2>1. main = "user" /\ UNCHANGED <<main, isAutoStop>> /\ pc'[w] = "pick"
    BY <1>0, <1>3 DEF Start, MainAt
  <2> QED
    BY <1>1, <2>1 DEF StopInv
<1>4. CASE StopStep
  <2>1. UNCHANGED <<fibers, pc>>
    BY <1>0, <1>4 DEF StopStep, StopFlags, StopRoot, RootReturns, Join, queueVars
  <2>2. /\ main' \in {"root", "join", "done"} /\ (main' = "done" => pc[w] = "exit")
    BY <1>0, <1>4 DEF StopStep, StopFlags, StopRoot, RootReturns, Join
  <2> QED
    BY <1>1, <2>1, <2>2 DEF StopInv
<1> QED
  BY <1>2, <1>3, <1>4 DEF Main

\* The steps that concern nothing of this.
LEMMA StopSame ==
  ASSUME NEW w \in Threads, StopInv(w), UNCHANGED <<idleTerm, pc, timers, pending, ft, fibers, main, isAutoStop>>
  PROVE  StopInv(w)'
BY DEF StopInv

LEMMA OneStopStep ==
  ASSUME UserArms = FALSE
  PROVE  FdInv /\ OneWorkerInv /\ OneStopInv /\ [IONext]_ioAll => OneStopInv'
<1> SUFFICES ASSUME FdInv, OneWorkerInv, OneStopInv, [IONext]_ioAll, NEW w \in Threads, LoopThread(w)'
             PROVE  StopInv(w)'
  BY DEF OneStopInv
<1>1. LoopThread(w) /\ OneInv(w) /\ StopInv(w)
  <2>1. LoopThread(w)
    BY IOShapeKept DEF LoopThread
  <2> QED
    BY <2>1 DEF OneWorkerInv, OneStopInv
<1>2. CASE UNCHANGED ioAll
  BY <1>1, <1>2, StopSame DEF ioAll, ioVars, tmVars, vars, ctlVars, queueVars, threadVars
<1>3. CASE Main /\ UNCHANGED ioVars
  BY <1>1, <1>3, StopMain
<1>4. ASSUME NEW u \in Threads, IOTickle(u)
      PROVE  StopInv(w)'
  BY <1>1, <1>4, StopSame DEF IOTickle, ctlVars, threadVars, tmVars
<1>5. ASSUME NEW u \in Threads, IOThread(u)
      PROVE  StopInv(w)'
  <2>1. CASE IOTickle(u)
    BY <1>4, <2>1
  <2>2. CASE ~IOTickle(u)
    <3>1. pc[u] # "off"
      BY <1>5, <2>2, OffIOTickles
    <3>2. u = w
      BY <1>1, <3>1 DEF OneInv, SoloInv, SoloThread
    <3> QED
      BY <1>1, <1>5, <2>2, <3>2, StopThread
  <2> QED
    BY <2>1, <2>2
<1>6. CASE (\E t \in Tasks : TimerDue(t)) \/ (\E d \in Fds, e \in Events \cup {"ERR"} : FdReady(d, e))
  BY <1>1, <1>6, StopSame DEF TimerDue, FdReady, vars, ctlVars, queueVars, threadVars, tmVars
<1> QED
  BY <1>2, <1>3, <1>5, <1>6 DEF IONext, IOMain

LEMMA OneStopInit == IOInit => OneStopInv
BY DEF IOInit, Init, OneStopInv, StopInv

\* What is left when the worker has left.
LEMMA NothingIsLeft ==
  ASSUME FdInv, NEW w \in Threads, OneInv(w), StopInv(w), main = "done"
  PROVE  /\ fibers = <<>> /\ timers = {} /\ pending = 0
         /\ \A t \in Tasks : status[t] \in {"new", "done"} \/ Dropped(t)
<1>1. pc[w] = "exit" /\ fibers = <<>> /\ timers = {} /\ pending = 0 /\ ft[w] = NoEntry
  BY DEF StopInv
<1>2. SoloInv(w, Awaiting, Held(w)) /\ HeldOnce(w) /\ fault = "none"
  BY DEF OneInv, SoloInv
<1>3. \A d \in Fds, e \in Events : waiter[d][e] = NoEntry
  <2>1. Cardinality(Registered) = 0
    <3>1. Cardinality(Subtracting) \in Nat
      BY FS_CardinalityType, ThreadsFinite, FS_Subset DEF Subtracting
    <3> QED
      BY <1>1, <1>2, <3>1, RegisteredFinite DEF FdInv, CountedInv
  <2>2. Registered = {}
    BY <2>1, RegisteredFinite, FS_EmptySet
  <2>3. ASSUME NEW d \in Fds, NEW e \in Events
        PROVE  e \notin fdEvents[d]
    <3>1. <<d, e>> \in Fds \X Events /\ <<d, e>>[1] = d /\ <<d, e>>[2] = e
      OBVIOUS
    <3> QED
      BY <2>2, <3>1 DEF Registered
  <2> QED
    BY <2>3 DEF FdInv, WaitedInv
<1>4. Awaiting = dropped /\ Held(w) = {}
  BY <1>1, <1>2, <1>3, EntryKinds DEF Awaiting, WaitingFibers, Held, WaitingCbs, HeldOnce
<1>5. cur[w] = None /\ Queue = {} /\ NoEntry.kind = "none"
  <2>1. cur[w] = None
    BY <1>1, <1>2 DEF SoloInv, SoloThread, PCs, HasFiber
  <2>2. Len(fibers) = 0
    BY <1>1
  <2> QED
    BY <2>1, <2>2, EntryKinds DEF Queue
<1>6. ASSUME NEW t \in Tasks
      PROVE  status[t] \notin {"queued", "begun"} \/ Dropped(t)
  <2>0. \A f \in dropped : f \in Tasks /\ (fstate[f] = "EXEC" => cur[w] = f)
    BY <1>2, <1>4 DEF SoloInv, SoloPlaces, SoloStates
  <2>1. SoloHas(w, Awaiting, Held(w), t) => Dropped(t)
    BY <1>1, <1>4, <1>5, <2>0, EntryKinds DEF SoloHas, For, Dropped
  <2> QED
    BY <1>2, <2>1 DEF SoloInv, SoloKeeps
<1>7. \A t \in Tasks : status[t] \in {"new", "queued", "begun", "done"}
  BY <1>2 DEF SoloInv, SoloTypes
<1> QED
  BY <1>1, <1>6, <1>7

(***************************************************************************)
(* One worker: when stop() returns no timer is armed, no event registered, *)
(* nothing queued, and every callback and fiber has been executed, but for *)
(* a fiber whose event delEvent has taken away, which stop() abandons.     *)
(* The premise: the calling thread itself adds no timer.  If it does,      *)
(* between two of the tests of stopping(), the worker leaves with it.      *)
(***************************************************************************)
THEOREM OneWorkerStops ==
  ASSUME OneThread, UserArms = FALSE
  PROVE  IOSpec => []StopLeavesNothing
<1>1. FdInv /\ OneWorkerInv /\ OneStopInv => StopLeavesNothing
  <2> SUFFICES ASSUME FdInv, OneWorkerInv, OneStopInv
               PROVE  StopLeavesNothing
    OBVIOUS
  <2>1. \E w \in Threads : LoopThread(w)
    BY OneLoopThread DEF FdInv, FdTypes
  <2> QED
    BY <2>1, NothingIsLeft DEF OneWorkerInv, OneStopInv, StopLeavesNothing
<1>2. FdInv /\ OneWorkerInv /\ OneStopInv /\ [IONext]_ioAll => OneStopInv'
  BY OneStopStep
<1> QED
  BY <1>1, <1>2, OneStopInit, FdInvariant, OneWorkerInvariant, PTL DEF IOSpec

===============================================================================
