------------------------- MODULE SchedulerTasks_proofs -------------------------
(***************************************************************************)
(* Proofs about what the scheduler does with tasks and fibers, for any     *)
(* threads and tasks: a fiber is in one place, a task is lost by nobody,   *)
(* and stop() returns when nothing is left.  Either no task calls          *)
(* switchTo(), or the loop runs on one thread (OneThread).                 *)
(***************************************************************************)
EXTENDS Scheduler_proofs

\* The entries of __fibers are each of another task or fiber.
OneEntry == \A i, j \in 1 .. Len(fibers) : fibers[i].item = fibers[j].item => i = j

Busy == {"run", "swapout", "ret", "settle"}

\* The types of the variables that are about tasks.
TaskTypes ==
  /\ fibers \in Seq(Entry) /\ pc \in [Threads -> PCs]
  /\ ft \in [Threads -> Entry \cup {NoEntry}]
  /\ cur \in [Threads -> Tasks \cup {None}] /\ cbFiber \in [Threads -> Tasks \cup {None}]
  /\ fstate \in [Tasks -> FiberStates] /\ prog \in [Tasks -> Tasks \cup {None}]
  /\ status \in [Tasks -> {"new", "queued", "begun", "done"}]
  /\ \A w \in Threads : pc[w] \in Busy => cur[w] \in Tasks

\* A fiber that may be swapped in, a callback that nobody has begun.
Waits(f) == fstate[f] \in {"INIT", "READY"} /\ prog[f] # None
Untouched(t) == status[t] = "queued" /\ fstate[t] = "NONE" /\ \A f \in Tasks : prog[f] # t
Executable(e) == IF e.kind = "fiber" THEN Waits(e.item) ELSE Untouched(e.item)

\* What a thread has in its hands.
ThreadInv == \A w \in Threads :
  /\ pc[w] \notin {"hold", "sethold"}
  /\ pc[w] \in Busy => \/ ft[w].kind = "fiber" /\ ft[w].item = cur[w]
                       \/ ft[w] = NoEntry /\ cbFiber[w] = cur[w]
  /\ pc[w] \notin Busy => cur[w] = None
  /\ pc[w] \notin Busy \cup {"dispatch"} => ft[w] = NoEntry

\* The state of a fiber says where it is.
StateInv ==
  /\ \A e \in Queue : Executable(e)
  /\ \A w \in Threads :
       /\ pc[w] = "dispatch" /\ ft[w] # NoEntry => Executable(ft[w])
       /\ pc[w] = "run" => fstate[cur[w]] = "EXEC"
       /\ pc[w] \in {"swapout", "ret", "settle"} => fstate[cur[w]] \in {"READY"} \cup Dead
       /\ cbFiber[w] # None /\ cur[w] # cbFiber[w] =>
            fstate[cbFiber[w]] = "INIT" /\ prog[cbFiber[w]] = None

\* A fiber is in one place: in the queue, taken from it, or a thread's cb_fiber.
UniqueInv ==
  /\ OneEntry
  /\ \A e \in Queue, w \in Threads : e.item # ft[w].item /\ e.item # cbFiber[w]
  /\ \A v, w \in Threads :
       /\ ft[w].item = ft[v].item /\ ft[w] # NoEntry => v = w
       /\ cbFiber[w] = cbFiber[v] /\ cbFiber[w] # None => v = w
       /\ ft[w] # NoEntry => ft[w].item # cbFiber[v]

\* A task is executed by one fiber, whose state says how far it is.
FiberInv == \A f \in Tasks :
  /\ fstate[f] # "HOLD"
  /\ fstate[f] = "NONE" => prog[f] = None
  /\ fstate[f] = "INIT" /\ prog[f] # None => status[prog[f]] = "queued"
  /\ fstate[f] \in {"EXEC", "READY"} => prog[f] # None /\ status[prog[f]] = "begun"
  /\ fstate[f] \in Dead /\ prog[f] # None => status[prog[f]] = "done"

OneFiber == \A f, g \in Tasks : prog[f] = prog[g] /\ prog[f] # None => f = g

NewInv == \A t \in Tasks :
  status[t] = "new" => fstate[t] = "NONE" /\ \A f \in Tasks : prog[f] # t

TasksInv == ThreadInv /\ StateInv /\ UniqueInv /\ FiberInv /\ OneFiber /\ NewInv

\* A task is somewhere: as a callback, or as a fiber that has it to execute.
Located(x, kind) ==
  \/ \E e \in Queue : e.kind = kind /\ e.item = x
  \/ \E w \in Threads : ft[w].kind = kind /\ ft[w].item = x

Placed(t) ==
  \/ Located(t, "cb")
  \/ \E f \in Tasks : /\ prog[f] = t /\ fstate[f] \notin Dead
                      /\ Located(f, "fiber") \/ \E w \in Threads : cur[w] = f

Pending(t) == status[t] \in {"queued", "begun"}

\* What a step does to the place of a task, one that it has not queued included.
KeepsPlaces == \A t \in Tasks : Pending(t)' /\ (Pending(t) => Placed(t)) => Placed(t)'

-----------------------------------------------------------------------------
(* The queue as a set.                                                     *)

LEMMA QueueAppend ==
  ASSUME TaskTypes, NEW e \in Entry, fibers' = Append(fibers, e), OneEntry,
         \A x \in Queue : x.item # e.item
  PROVE  Queue' = Queue \cup {e} /\ OneEntry'
<1>1. /\ Len(fibers') = Len(fibers) + 1 /\ Len(fibers) \in Nat
      /\ \A i \in 1 .. Len(fibers) : fibers'[i] = fibers[i] /\ fibers[i] \in Queue
      /\ fibers'[Len(fibers) + 1] = e
  BY AppendProperties DEF TaskTypes, Queue
<1>2. Queue' = Queue \cup {e}
  BY <1>1 DEF Queue
<1>3. ASSUME NEW i \in 1 .. Len(fibers'), NEW j \in 1 .. Len(fibers'),
             fibers'[i].item = fibers'[j].item
      PROVE  i = j
  <2>1. CASE i \in 1 .. Len(fibers) /\ j \in 1 .. Len(fibers)
    BY <1>1, <1>3, <2>1 DEF OneEntry
  <2>2. CASE i = Len(fibers) + 1 \/ j = Len(fibers) + 1
    BY <1>1, <1>3, <2>2
  <2> QED
    BY <1>1, <2>1, <2>2
<1> QED
  BY <1>2, <1>3 DEF OneEntry

LEMMA QueueConcat ==
  ASSUME TaskTypes, NEW b \in Seq(Entry), fibers' = fibers \o b, OneEntry,
         \A i, j \in 1 .. Len(b) : b[i].item = b[j].item => i = j,
         \A x \in Queue, j \in 1 .. Len(b) : x.item # b[j].item
  PROVE  /\ fibers' \in Seq(Entry) /\ OneEntry'
         /\ Queue' = Queue \cup {b[j] : j \in 1 .. Len(b)}
<1>1. fibers \in Seq(Entry) /\ b \in Seq(Entry)
  BY DEF TaskTypes
<1>a. /\ fibers \o b \in Seq(Entry) /\ Len(fibers \o b) = Len(fibers) + Len(b)
      /\ \A i \in 1 .. Len(fibers) + Len(b) :
           (fibers \o b)[i] = IF i <= Len(fibers) THEN fibers[i] ELSE b[i - Len(fibers)]
  BY <1>1, ConcatProperties
<1> DEFINE n == Len(fibers)
           m == Len(b)
<1>b. n \in Nat /\ m \in Nat
  BY <1>1
<1>2. /\ fibers' \in Seq(Entry) /\ Len(fibers') = n + m
      /\ \A i \in 1 .. n + m : fibers'[i] = IF i <= n THEN fibers[i] ELSE b[i - n]
  BY <1>a, Zenon
<1>3. /\ \A i \in 1 .. n : i \in 1 .. n + m /\ fibers'[i] = fibers[i]
      /\ \A j \in 1 .. m : n + j \in 1 .. n + m /\ fibers'[n + j] = b[j]
      /\ \A i \in 1 .. n + m : i \in 1 .. n \/ (i - n \in 1 .. m /\ fibers'[i] = b[i - n])
  <2>1. ASSUME NEW i \in 1 .. n
        PROVE  i \in 1 .. n + m /\ fibers'[i] = fibers[i]
    BY <1>b, <1>2
  <2>2. ASSUME NEW j \in 1 .. m
        PROVE  n + j \in 1 .. n + m /\ fibers'[n + j] = b[j]
    <3>1. n + j \in 1 .. n + m /\ ~(n + j <= n) /\ (n + j) - n = j
      BY <1>b
    <3> QED
      BY <1>2, <3>1
  <2>3. ASSUME NEW i \in 1 .. n + m, i \notin 1 .. n
        PROVE  i - n \in 1 .. m /\ fibers'[i] = b[i - n]
    <3>1. ~(i <= n) /\ i - n \in 1 .. m
      BY <1>b, <2>3
    <3> QED
      BY <1>2, <3>1
  <2> QED
    BY <2>1, <2>2, <2>3
<1>4. Queue' = Queue \cup {b[j] : j \in 1 .. m}
  <2>1. Queue' = {fibers'[i] : i \in 1 .. n + m} /\ Queue = {fibers[i] : i \in 1 .. n}
    BY <1>2 DEF Queue
  <2>2. ASSUME NEW x \in Queue'
        PROVE  x \in Queue \cup {b[j] : j \in 1 .. m}
    <3>1. PICK i \in 1 .. n + m : x = fibers'[i]
      BY <2>1
    <3> HIDE DEF n, m
    <3>2. CASE i \in 1 .. n
      BY <1>3, <2>1, <3>1, <3>2
    <3>3. CASE i - n \in 1 .. m /\ fibers'[i] = b[i - n]
      BY <3>1, <3>3
    <3> QED
      BY <1>3, <3>2, <3>3
  <2>3. ASSUME NEW i \in 1 .. n
        PROVE  fibers[i] \in Queue'
    <3>1. i \in 1 .. n + m /\ fibers'[i] = fibers[i]
      BY <1>3
    <3> HIDE DEF n, m
    <3> QED
      BY <2>1, <3>1
  <2>4. ASSUME NEW j \in 1 .. m
        PROVE  b[j] \in Queue'
    <3>1. n + j \in 1 .. n + m /\ fibers'[n + j] = b[j]
      BY <1>3
    <3> DEFINE k == n + j
    <3> HIDE DEF n, m, k
    <3>2. k \in 1 .. n + m /\ fibers'[k] = b[j]
      BY <3>1 DEF k
    <3> QED
      BY <2>1, <3>2
  <2> QED
    BY <2>1, <2>2, <2>3, <2>4
<1>5. OneEntry'
  <2> SUFFICES ASSUME NEW i \in 1 .. n + m, NEW j \in 1 .. n + m, fibers'[i].item = fibers'[j].item
               PROVE  i = j
    BY <1>2 DEF OneEntry
  <2>1. CASE i \in 1 .. n /\ j \in 1 .. n
    BY <1>3, <2>1 DEF OneEntry
  <2>a. ASSUME NEW x \in 1 .. n, NEW y \in 1 .. n + m, y \notin 1 .. n
        PROVE  fibers'[x].item # fibers'[y].item
    <3> DEFINE z == y - n
    <3>1. fibers'[x] = fibers[x] /\ z \in 1 .. m /\ fibers'[y] = b[z]
      BY <1>3, <2>a
    <3> HIDE DEF z
    <3>2. fibers[x] \in Queue
      BY DEF Queue
    <3> QED
      BY <3>1, <3>2
  <2>2. CASE i \in 1 .. n /\ j \notin 1 .. n
    BY <2>a, <2>2
  <2>3. CASE i \notin 1 .. n /\ j \in 1 .. n
    BY <2>a, <2>3
  <2>4. CASE i \notin 1 .. n /\ j \notin 1 .. n
    <3>1. i - n = j - n
      BY <1>3, <2>4
    <3> QED
      BY <1>b, <3>1
  <2> QED
    BY <2>1, <2>2, <2>3, <2>4
<1> QED
  BY <1>2, <1>4, <1>5

LEMMA QueueRemove ==
  ASSUME TaskTypes, NEW i \in 1 .. Len(fibers), fibers' = RemoveAt(fibers, i), OneEntry
  PROVE  /\ fibers[i] \in Queue /\ Queue' = Queue \ {fibers[i]} /\ OneEntry'
         /\ \A e \in Queue' : e.item # fibers[i].item
<1> DEFINE n == Len(fibers)
           at(k) == IF k < i THEN k ELSE k + 1
<1>0. n \in Nat /\ i \in 1 .. n /\ \A k \in 1 .. n : fibers[k] \in Entry
  BY DEF TaskTypes
<1>1. Len(fibers') = n - 1 /\ \A k \in 1 .. n - 1 : fibers'[k] = fibers[at(k)]
  <2> DEFINE a == SubSeq(fibers, 1, i - 1)
             b == SubSeq(fibers, i + 1, n)
  <2>1. a \in Seq(Entry) /\ Len(a) = i - 1 /\ \A k \in 1 .. i - 1 : a[k] = fibers[k]
    BY <1>0, SubSeqProperties DEF TaskTypes
  <2>2. b \in Seq(Entry) /\ Len(b) = n - i /\ \A k \in 1 .. n - i : b[k] = fibers[i + k]
    BY <1>0, SubSeqProperties DEF TaskTypes
  <2>3. fibers' = a \o b
    BY DEF RemoveAt
  <2> HIDE DEF a, b
  <2>4. /\ Len(a \o b) = Len(a) + Len(b)
        /\ \A k \in 1 .. Len(a) + Len(b) :
             (a \o b)[k] = IF k <= Len(a) THEN a[k] ELSE b[k - Len(a)]
    BY <2>1, <2>2, ConcatProperties, Zenon
  <2>5. ASSUME NEW k \in 1 .. n - 1
        PROVE  fibers'[k] = fibers[at(k)]
    <3>1. k \in 1 .. Len(a) + Len(b)
      BY <1>0, <2>1, <2>2
    <3>2. fibers'[k] = IF k <= Len(a) THEN a[k] ELSE b[k - Len(a)]
      BY <2>3, <2>4, <3>1
    <3>3. CASE k < i
      BY <1>0, <2>1, <3>2, <3>3
    <3>4. CASE k >= i
      <4>1. ~(k <= Len(a)) /\ k - Len(a) \in 1 .. n - i /\ i + (k - Len(a)) = k + 1
        BY <1>0, <2>1, <3>4
      <4>2. at(k) = k + 1
        BY <1>0, <3>4
      <4>3. b[k - Len(a)] = fibers[i + (k - Len(a))]
        BY <2>2, <4>1
      <4> QED
        BY <3>2, <4>1, <4>2, <4>3
    <3> QED
      BY <1>0, <3>3, <3>4
  <2>6. Len(fibers') = n - 1
    BY <1>0, <2>1, <2>2, <2>3, <2>4
  <2> QED
    BY <2>5, <2>6
<1>2. \A k \in 1 .. n - 1 : at(k) \in (1 .. n) \ {i}
  BY <1>0
<1>3. \A k \in (1 .. n) \ {i} : \E l \in 1 .. n - 1 : at(l) = k
  <2>1. ASSUME NEW k \in 1 .. n, k < i
        PROVE  k \in 1 .. n - 1 /\ at(k) = k
    BY <1>0, <2>1
  <2>2. ASSUME NEW k \in 1 .. n, k > i
        PROVE  k - 1 \in 1 .. n - 1 /\ at(k - 1) = k
    BY <1>0, <2>2
  <2>3. \A k \in (1 .. n) \ {i} : k < i \/ k > i
    BY <1>0
  <2> HIDE DEF at
  <2> QED
    BY <2>1, <2>2, <2>3
<1>4. \A k, l \in 1 .. n - 1 : at(k) = at(l) => k = l
  BY <1>0
<1> HIDE DEF at
<1>5. \A k \in (1 .. n) \ {i} : fibers[k].item # fibers[i].item
  BY <1>0 DEF OneEntry
<1>6. Queue' = {fibers[k] : k \in (1 .. n) \ {i}}
  <2>1. ASSUME NEW e \in Queue'
        PROVE  e \in {fibers[k] : k \in (1 .. n) \ {i}}
    <3>1. PICK k \in 1 .. n - 1 : e = fibers'[k]
      BY <1>1 DEF Queue
    <3> QED
      BY <1>1, <1>2, <3>1
  <2>2. ASSUME NEW k \in (1 .. n) \ {i}
        PROVE  fibers[k] \in Queue'
    <3>1. PICK l \in 1 .. n - 1 : at(l) = k
      BY <1>3
    <3>2. fibers'[l] = fibers[k] /\ l \in 1 .. Len(fibers')
      BY <1>1, <3>1
    <3> QED
      BY <3>2 DEF Queue
  <2> QED
    BY <2>1, <2>2
<1>7. OneEntry'
  <2> SUFFICES ASSUME NEW k \in 1 .. Len(fibers'), NEW l \in 1 .. Len(fibers'),
                      fibers'[k].item = fibers'[l].item
               PROVE  k = l
    BY DEF OneEntry
  <2>1. k \in 1 .. n - 1 /\ l \in 1 .. n - 1
    BY <1>1
  <2>2. fibers[at(k)].item = fibers[at(l)].item /\ at(k) \in 1 .. n /\ at(l) \in 1 .. n
    BY <1>1, <1>2, <2>1
  <2>3. at(k) = at(l)
    BY <2>2 DEF OneEntry
  <2> QED
    BY <1>4, <2>1, <2>3
<1>8. Queue' = Queue \ {fibers[i]}
  BY <1>0, <1>5, <1>6 DEF Queue
<1> QED
  BY <1>0, <1>5, <1>6, <1>7, <1>8 DEF Queue

LEMMA FtFacts ==
  ASSUME TaskTypes, NEW w \in Threads
  PROVE  \/ ft[w] = NoEntry /\ ft[w].kind = "none" /\ ft[w].item = None
         \/ /\ ft[w] # NoEntry /\ ft[w] \in Entry /\ ft[w].kind \in {"cb", "fiber"}
            /\ ft[w].item \in Tasks
<1>1. NoEntry.kind = "none" /\ NoEntry.item = None
  BY DEF NoEntry
<1>2. ASSUME NEW e \in Entry
      PROVE  e # NoEntry /\ e.kind \in {"cb", "fiber"} /\ e.item \in Tasks
  BY <1>1 DEF Entry
<1> QED
  BY <1>1, <1>2 DEF TaskTypes

LEMMA QueueFacts ==
  ASSUME TaskTypes, NEW e \in Queue
  PROVE  e \in Entry /\ e.kind \in {"cb", "fiber"} /\ e.item \in Tasks
<1>1. PICK i \in 1 .. Len(fibers) : e = fibers[i]
  BY DEF Queue
<1>2. e \in Entry
  BY <1>1 DEF TaskTypes
<1> QED
  BY <1>2 DEF Entry

-----------------------------------------------------------------------------
(* Who may have a fiber in its hands.                                      *)

\* The fiber swapped in is the thread's own: no other place has it.
LEMMA CurAlone ==
  ASSUME TaskTypes, ThreadInv, UniqueInv, NEW w \in Threads, pc[w] \in Busy
  PROVE  /\ cur[w] \in Tasks
         /\ \A e \in Queue : e.item # cur[w]
         /\ \A v \in Threads \ {w} : ft[v].item # cur[w] /\ cbFiber[v] # cur[w] /\ cur[v] # cur[w]
         /\ ft[w] = NoEntry => cbFiber[w] = cur[w]
         /\ ft[w] # NoEntry => cbFiber[w] # cur[w] /\ ft[w].kind = "fiber" /\ ft[w].item = cur[w]
<1>0. cur[w] \in Tasks /\ cur[w] # None
  BY ThreadsAssumption DEF TaskTypes
<1>1. \A v \in Threads :
        /\ ft[v] = NoEntry => ft[v].kind = "none" /\ ft[v].item = None
        /\ ft[v] # NoEntry => ft[v].kind # "none"
  BY FtFacts
<1>2. /\ ft[w] = NoEntry => cbFiber[w] = cur[w]
      /\ ft[w] # NoEntry => ft[w].kind = "fiber" /\ ft[w].item = cur[w]
  <2>1. \/ ft[w].kind = "fiber" /\ ft[w].item = cur[w]
        \/ ft[w] = NoEntry /\ cbFiber[w] = cur[w]
    BY DEF ThreadInv
  <2> QED
    BY <1>1, <2>1
<1>3. ft[w] # NoEntry => cbFiber[w] # cur[w]
  BY <1>2 DEF UniqueInv
<1>4. ASSUME NEW v \in Threads \ {w}
      PROVE  ft[v].item # cur[w] /\ cbFiber[v] # cur[w]
  <2>1. /\ ft[v].item = ft[w].item /\ ft[v] # NoEntry => w = v
        /\ cbFiber[v] = cbFiber[w] /\ cbFiber[v] # None => w = v
        /\ ft[v] # NoEntry => ft[v].item # cbFiber[w]
        /\ ft[w] # NoEntry => ft[w].item # cbFiber[v]
    BY <1>4 DEF UniqueInv
  <2>2. CASE ft[w] = NoEntry
    BY <1>0, <1>1, <1>2, <1>4, <2>1, <2>2
  <2>3. CASE ft[w] # NoEntry
    BY <1>0, <1>1, <1>2, <1>4, <2>1, <2>3
  <2> QED
    BY <2>2, <2>3
<1>5. ASSUME NEW v \in Threads \ {w}
      PROVE  cur[v] # cur[w]
  <2>1. CASE pc[v] \in Busy
    <3>1. \/ ft[v].kind = "fiber" /\ ft[v].item = cur[v]
          \/ ft[v] = NoEntry /\ cbFiber[v] = cur[v]
      BY <1>5, <2>1 DEF ThreadInv
    <3> QED
      BY <1>4, <1>5, <3>1
  <2>2. CASE pc[v] \notin Busy
    BY <1>0, <1>5, <2>2 DEF ThreadInv
  <2> QED
    BY <2>1, <2>2
<1>6. \A e \in Queue : e.item # cur[w]
  BY <1>1, <1>2 DEF UniqueInv
<1> QED
  BY <1>0, <1>2, <1>3, <1>4, <1>5, <1>6

\* A task that has not been handed over is nowhere.
LEMMA NewNowhere ==
  ASSUME TaskTypes, ThreadInv, StateInv, NewInv, NEW t \in Tasks, status[t] = "new"
  PROVE  /\ \A e \in Queue : e.item # t
         /\ \A w \in Threads : ft[w].item # t /\ cbFiber[w] # t /\ cur[w] # t
<1>1. fstate[t] = "NONE" /\ t # None
  BY ThreadsAssumption DEF NewInv
<1>2. \A e \in Queue : e.item # t
  BY <1>1, QueueFacts DEF StateInv, Executable, Waits, Untouched
<1>3. ASSUME NEW w \in Threads
      PROVE  ft[w].item # t /\ cbFiber[w] # t /\ cur[w] # t
  <2>1. CASE pc[w] \in Busy
    <3>1. fstate[cur[w]] # "NONE"
      BY <2>1 DEF StateInv, Busy, Dead
    <3>2. cbFiber[w] = cur[w] \/ fstate[cbFiber[w]] = "INIT" \/ cbFiber[w] = None
      BY DEF StateInv
    <3>3. ft[w].item = cur[w] \/ ft[w].item = None
      BY <2>1, FtFacts DEF ThreadInv
    <3> QED
      BY <1>1, <3>1, <3>2, <3>3
  <2>2. CASE pc[w] \notin Busy
    <3>1. cur[w] = None
      BY <2>2 DEF ThreadInv
    <3>2. fstate[cbFiber[w]] = "INIT" \/ cbFiber[w] = None
      BY <3>1 DEF StateInv
    <3>3. ft[w] # NoEntry => pc[w] = "dispatch" /\ Executable(ft[w])
      BY <2>2 DEF ThreadInv, StateInv
    <3>4. ft[w].item # t
      BY <1>1, <3>3, FtFacts DEF Executable, Waits, Untouched
    <3> QED
      BY <1>1, <3>1, <3>2, <3>4
  <2> QED
    BY <2>1, <2>2
<1> QED
  BY <1>2, <1>3

-----------------------------------------------------------------------------
(* Steps that move a thread and nothing else.                              *)

LEMMA QuietStep ==
  ASSUME TaskTypes, TasksInv,
         fibers' = fibers, ft' = ft, cur' = cur, cbFiber' = cbFiber, fstate' = fstate,
         prog' = prog, status' = status,
         \A w \in Threads :
           \/ pc'[w] = pc[w]
           \/ pc[w] \in {"swapout", "ret"} /\ pc'[w] \in {"ret", "settle"}
           \/ pc[w] \notin Busy /\ ft[w] = NoEntry /\ pc'[w] \notin Busy \cup {"hold", "sethold"}
  PROVE  TasksInv' /\ KeepsPlaces
<1>1. Queue' = Queue /\ (OneEntry' <=> OneEntry)
  BY DEF Queue, OneEntry
<1>2. ThreadInv'
  BY DEF TasksInv, ThreadInv, Busy
<1>3. \A e : Executable(e)' <=> Executable(e)
  BY DEF Executable, Waits, Untouched
<1>4. StateInv'
  BY <1>1, <1>3 DEF TasksInv, StateInv, Busy
<1>5. UniqueInv'
  BY <1>1 DEF TasksInv, UniqueInv
<1>6. FiberInv' /\ OneFiber' /\ NewInv'
  BY DEF TasksInv, FiberInv, OneFiber, NewInv
<1>7. KeepsPlaces
  BY <1>1 DEF KeepsPlaces, Placed, Located, Pending
<1> QED
  BY <1>2, <1>4, <1>5, <1>6, <1>7 DEF TasksInv

-----------------------------------------------------------------------------
(* schedule() of a new task.                                               *)

LEMMA SubmitStep ==
  ASSUME TaskTypes, TasksInv, NEW t \in Tasks, NEW kind \in {"cb", "fiber"},
         NEW thr \in Threads \cup {AnyThread}, NEW w, Submit(w, t, kind, thr),
         pc' = pc, ft' = ft, cur' = cur, cbFiber' = cbFiber
  PROVE  TasksInv' /\ KeepsPlaces
<1> DEFINE e == [kind |-> kind, item |-> t, thr |-> thr]
<1>1. e \in Entry /\ e.kind = kind /\ e.item = t
  BY DEF Entry
<1>2. status[t] = "new" /\ fibers' = Append(fibers, e) /\ status' = [status EXCEPT ![t] = "queued"]
  BY DEF Submit, Enqueue
<1>3. /\ kind = "fiber" => /\ fstate' = [fstate EXCEPT ![t] = "INIT"]
                           /\ prog' = [prog EXCEPT ![t] = t]
      /\ kind = "cb" => fstate' = fstate /\ prog' = prog
  BY DEF Submit, fiberVars
<1> HIDE DEF e
<1>4. /\ \A x \in Queue : x.item # t
      /\ \A v \in Threads : ft[v].item # t /\ cbFiber[v] # t /\ cur[v] # t
  BY <1>2, NewNowhere DEF TasksInv
<1>5. Queue' = Queue \cup {e} /\ OneEntry'
  BY <1>1, <1>2, <1>4, QueueAppend DEF TasksInv, UniqueInv
<1>6. fstate[t] = "NONE" /\ prog[t] = None /\ t # None /\ \A f \in Tasks : prog[f] # t
  BY <1>2, ThreadsAssumption DEF TasksInv, NewInv, FiberInv
<1>7. /\ status'[t] = "queued" /\ \A x \in Tasks \ {t} : status'[x] = status[x]
      /\ \A f \in Tasks \ {t} : fstate'[f] = fstate[f] /\ prog'[f] = prog[f]
      /\ kind = "fiber" => fstate'[t] = "INIT" /\ prog'[t] = t
      /\ kind = "cb" => fstate'[t] = "NONE" /\ prog'[t] = None
  BY <1>2, <1>3, <1>6 DEF TaskTypes
<1>8. ThreadInv'
  BY DEF TasksInv, ThreadInv
<1>9. ASSUME NEW x, x.item \in Tasks \ {t}, Executable(x)
      PROVE  Executable(x)'
  BY <1>6, <1>7, <1>9 DEF Executable, Waits, Untouched
<1>10. Executable(e)'
  BY <1>1, <1>6, <1>7 DEF Executable, Waits, Untouched
<1>11. \A v \in Threads : ft[v] # NoEntry => ft[v].item \in Tasks \ {t}
  BY <1>4, FtFacts
<1>12. \A x \in Queue : x.item \in Tasks \ {t}
  BY <1>4, QueueFacts
<1>13. StateInv'
  <2>1. \A x \in Queue' : Executable(x)'
    BY <1>5, <1>9, <1>10, <1>12 DEF TasksInv, StateInv
  <2>2. ASSUME NEW v \in Threads
        PROVE  /\ pc[v] = "dispatch" /\ ft[v] # NoEntry => Executable(ft[v])'
               /\ pc[v] = "run" => fstate'[cur[v]] = "EXEC"
               /\ pc[v] \in {"swapout", "ret", "settle"} => fstate'[cur[v]] \in {"READY"} \cup Dead
               /\ cbFiber[v] # None /\ cur[v] # cbFiber[v] =>
                    fstate'[cbFiber[v]] = "INIT" /\ prog'[cbFiber[v]] = None
    <3>1. pc[v] = "dispatch" /\ ft[v] # NoEntry => Executable(ft[v])'
      BY <1>9, <1>11 DEF TasksInv, StateInv
    <3>2. pc[v] \in Busy => cur[v] \in Tasks \ {t}
      BY <1>4 DEF TaskTypes
    <3>3. cbFiber[v] # None => cbFiber[v] \in Tasks \ {t}
      BY <1>4 DEF TaskTypes
    <3> QED
      BY <1>7, <3>1, <3>2, <3>3 DEF TasksInv, StateInv, Busy
  <2> QED
    BY <2>1, <2>2 DEF StateInv
<1>14. UniqueInv'
  BY <1>1, <1>4, <1>5 DEF TasksInv, UniqueInv
<1>15. FiberInv'
  <2>1. ASSUME NEW f \in Tasks \ {t}
        PROVE  /\ fstate'[f] = fstate[f] /\ prog'[f] = prog[f]
               /\ prog[f] # None => status'[prog[f]] = status[prog[f]]
    BY <1>6, <1>7 DEF TaskTypes
  <2> QED
    BY <1>6, <1>7, <2>1 DEF TasksInv, FiberInv, Dead
<1>16. OneFiber'
  BY <1>6, <1>7 DEF TasksInv, OneFiber
<1>17. NewInv'
  BY <1>6, <1>7 DEF TasksInv, NewInv
<1>18. KeepsPlaces
  <2>1. Placed(t)'
    BY <1>1, <1>5, <1>7, <1>6 DEF Placed, Located, Dead
  <2>2. ASSUME NEW x \in Tasks \ {t}, Placed(x)
        PROVE  Placed(x)'
    <3>1. \A y, k : Located(y, k) => Located(y, k)'
      BY <1>5 DEF Located
    <3>2. \A f \in Tasks : prog[f] = x => f # t /\ prog'[f] = x /\ fstate'[f] = fstate[f]
      BY <1>6, <1>7, ThreadsAssumption
    <3> QED
      BY <2>2, <3>1, <3>2 DEF Placed
  <2> QED
    BY <1>7, <2>1, <2>2 DEF KeepsPlaces, Pending
<1> QED
  BY <1>8, <1>13, <1>14, <1>15, <1>16, <1>17, <1>18 DEF TasksInv

\* schedule() of several new callbacks at once.
LEMMA BatchStep ==
  ASSUME TaskTypes, TasksInv, NEW S \in SUBSET Tasks, \A t \in S : status[t] = "new",
         Queue' = Queue \cup {[kind |-> "cb", item |-> t, thr |-> AnyThread] : t \in S}, OneEntry',
         status' = [t \in Tasks |-> IF t \in S THEN "queued" ELSE status[t]],
         fstate' = fstate, prog' = prog, pc' = pc, ft' = ft, cur' = cur, cbFiber' = cbFiber
  PROVE  TasksInv' /\ KeepsPlaces
<1> DEFINE new == {[kind |-> "cb", item |-> t, thr |-> AnyThread] : t \in S}
<1>1. /\ \A x \in new : x.kind = "cb" /\ x.item \in S
      /\ \A t \in S : \E x \in new : x.kind = "cb" /\ x.item = t
      /\ Queue' = Queue \cup new
  <2>1. ASSUME NEW x \in new
        PROVE  x.kind = "cb" /\ x.item \in S
    OBVIOUS
  <2>2. ASSUME NEW t \in S
        PROVE  [kind |-> "cb", item |-> t, thr |-> AnyThread] \in new
    OBVIOUS
  <2> HIDE DEF new
  <2>3. ASSUME NEW t \in S
        PROVE  \E x \in new : x.kind = "cb" /\ x.item = t
    BY <2>2
  <2>4. Queue' = Queue \cup new
    BY DEF new
  <2> QED
    BY <2>1, <2>3, <2>4
<1> HIDE DEF new
<1>2. ASSUME NEW t \in S
      PROVE  /\ fstate[t] = "NONE" /\ t \in Tasks /\ t # None /\ \A f \in Tasks : prog[f] # t
             /\ \A x \in Queue : x.item # t
             /\ \A v \in Threads : ft[v].item # t /\ cbFiber[v] # t /\ cur[v] # t
  BY <1>2, NewNowhere, ThreadsAssumption DEF TasksInv, NewInv
<1>3. /\ \A t \in S : status'[t] = "queued" /\ status[t] = "new"
      /\ \A t \in Tasks \ S : status'[t] = status[t]
  OBVIOUS
<1>4. ThreadInv'
  BY DEF TasksInv, ThreadInv
<1>5. ASSUME NEW x, x.item \in Tasks, Executable(x)
      PROVE  Executable(x)'
  <2>1. status[x.item] = "queued" => x.item \notin S
    BY <1>3
  <2> QED
    BY <1>3, <1>5, <2>1 DEF Executable, Waits, Untouched
<1>6. \A x \in new : Executable(x)'
  BY <1>1, <1>2, <1>3 DEF Executable, Untouched
<1>7. \A x \in Queue : x.item \in Tasks
  BY QueueFacts
<1>8. StateInv'
  <2>1. \A x \in Queue' : Executable(x)'
    BY <1>1, <1>5, <1>6, <1>7 DEF TasksInv, StateInv
  <2>2. \A v \in Threads : pc[v] = "dispatch" /\ ft[v] # NoEntry => Executable(ft[v])'
    BY <1>5, FtFacts DEF TasksInv, StateInv
  <2> QED
    BY <2>1, <2>2 DEF TasksInv, StateInv
<1>9. UniqueInv'
  <2>1. \A x \in Queue', w \in Threads : x.item # ft[w].item /\ x.item # cbFiber[w]
    BY <1>1, <1>2 DEF TasksInv, UniqueInv
  <2> QED
    BY <2>1 DEF TasksInv, UniqueInv
<1>10. \A f \in Tasks : prog[f] # None => status'[prog[f]] = status[prog[f]]
  BY <1>2, <1>3 DEF TaskTypes
<1>11. FiberInv'
  BY <1>10 DEF TasksInv, FiberInv, Dead
<1>12. OneFiber' /\ NewInv'
  BY <1>3 DEF TasksInv, OneFiber, NewInv
<1>13. KeepsPlaces
  <2>1. ASSUME NEW t \in S
        PROVE  Placed(t)'
    BY <1>1 DEF Placed, Located
  <2>2. \A x \in Tasks : Placed(x) => Placed(x)'
    BY <1>1 DEF Placed, Located
  <2> QED
    BY <1>3, <2>1, <2>2 DEF KeepsPlaces, Pending
<1> QED
  BY <1>4, <1>8, <1>9, <1>11, <1>12, <1>13 DEF TasksInv

\* A task that has not been handed over is given up.
LEMMA DiscardStep ==
  ASSUME TaskTypes, TasksInv, NEW t \in Tasks, status[t] = "new", status' = [status EXCEPT ![t] = "done"],
         fibers' = fibers, fstate' = fstate, prog' = prog, pc' = pc, ft' = ft, cur' = cur, cbFiber' = cbFiber
  PROVE  TasksInv' /\ KeepsPlaces
<1>1. Queue' = Queue /\ (OneEntry' <=> OneEntry)
  BY DEF Queue, OneEntry
<1>2. status'[t] = "done" /\ \A x \in Tasks \ {t} : status'[x] = status[x]
  BY DEF TaskTypes
<1>3. t # None /\ \A f \in Tasks : prog[f] # t
  BY ThreadsAssumption DEF TasksInv, NewInv
<1>4. ThreadInv'
  BY DEF TasksInv, ThreadInv
<1>5. ASSUME NEW x, x.item \in Tasks, Executable(x)
      PROVE  Executable(x)'
  BY <1>2, <1>5 DEF Executable, Waits, Untouched
<1>6. StateInv'
  <2>1. \A x \in Queue' : Executable(x)'
    BY <1>1, <1>5, QueueFacts DEF TasksInv, StateInv
  <2>2. \A v \in Threads : pc[v] = "dispatch" /\ ft[v] # NoEntry => Executable(ft[v])'
    BY <1>5, FtFacts DEF TasksInv, StateInv
  <2> QED
    BY <2>1, <2>2 DEF TasksInv, StateInv
<1>7. UniqueInv'
  BY <1>1 DEF TasksInv, UniqueInv
<1>8. \A f \in Tasks : prog[f] # None => status'[prog[f]] = status[prog[f]]
  BY <1>2, <1>3 DEF TaskTypes
<1>9. FiberInv'
  BY <1>8 DEF TasksInv, FiberInv, Dead
<1>10. OneFiber' /\ NewInv'
  BY <1>2 DEF TasksInv, OneFiber, NewInv
<1>11. KeepsPlaces
  BY <1>1, <1>2 DEF KeepsPlaces, Placed, Located, Pending
<1> QED
  BY <1>4, <1>6, <1>7, <1>9, <1>10, <1>11 DEF TasksInv

-----------------------------------------------------------------------------
(* The steps of run() that change who has a task.                          *)

LEMMA PickStep ==
  ASSUME TaskTypes, TasksInv, NEW w \in Threads, Pick(w)
  PROVE  TasksInv' /\ KeepsPlaces /\ fault' = "none"
<1>1. PICK i \in 1 .. Len(fibers) :
        fibers' = RemoveAt(fibers, i) /\ ft' = [ft EXCEPT ![w] = fibers[i]]
  BY DEF Pick
<1> DEFINE e == fibers[i]
<1>2. /\ pc[w] = "pick" /\ pc' = [pc EXCEPT ![w] = "dispatch"] /\ fault' = "none"
      /\ cur' = cur /\ cbFiber' = cbFiber /\ fstate' = fstate /\ prog' = prog /\ status' = status
  BY DEF Pick, At, Goto, fiberVars, taskVars
<1>3. /\ e \in Queue /\ Queue' = Queue \ {e} /\ OneEntry'
      /\ \A x \in Queue' : x.item # e.item
  BY <1>1, QueueRemove DEF TasksInv, UniqueInv
<1>4. e \in Entry /\ e.item \in Tasks /\ e # NoEntry
  BY <1>3, QueueFacts, ThreadsAssumption DEF NoEntry
<1> HIDE DEF e
<1>5. ft[w] = NoEntry /\ cur[w] = None
  BY <1>2 DEF TasksInv, ThreadInv, Busy
<1>6. /\ ft'[w] = e /\ pc'[w] = "dispatch"
      /\ \A v \in Threads \ {w} : ft'[v] = ft[v] /\ pc'[v] = pc[v]
  BY <1>1, <1>2 DEF TaskTypes, e
<1>7. ThreadInv'
  BY <1>2, <1>5, <1>6 DEF TasksInv, ThreadInv, Busy
<1>8. \A x : Executable(x)' <=> Executable(x)
  BY <1>2 DEF Executable, Waits, Untouched
<1>9. StateInv'
  BY <1>2, <1>3, <1>6, <1>8 DEF TasksInv, StateInv, Busy
<1>10. UniqueInv'
  <2>1. \A x \in Queue', v \in Threads : x.item # ft'[v].item /\ x.item # cbFiber'[v]
    BY <1>2, <1>3, <1>6 DEF TasksInv, UniqueInv
  <2>2. \A v \in Threads : e.item # ft[v].item /\ e.item # cbFiber[v]
    BY <1>3 DEF TasksInv, UniqueInv
  <2>3. ASSUME NEW v \in Threads, NEW u \in Threads
        PROVE  /\ ft'[u].item = ft'[v].item /\ ft'[u] # NoEntry => v = u
               /\ cbFiber[u] = cbFiber[v] /\ cbFiber[u] # None => v = u
               /\ ft'[u] # NoEntry => ft'[u].item # cbFiber[v]
    BY <1>6, <2>2 DEF TasksInv, UniqueInv
  <2> QED
    BY <1>2, <1>3, <2>1, <2>3 DEF UniqueInv
<1>11. FiberInv' /\ OneFiber' /\ NewInv'
  BY <1>2 DEF TasksInv, FiberInv, OneFiber, NewInv
<1>12. KeepsPlaces
  <2>0. NoEntry.item = None
    BY DEF NoEntry
  <2>1. ASSUME NEW x \in Tasks, NEW k, Located(x, k)
        PROVE  Located(x, k)'
    <3>1. CASE \E y \in Queue : y.kind = k /\ y.item = x
      BY <1>3, <1>6, <3>1 DEF Located
    <3>2. CASE \E v \in Threads : ft[v].kind = k /\ ft[v].item = x
      <4>1. PICK v \in Threads : ft[v].kind = k /\ ft[v].item = x
        BY <3>2
      <4>2. v # w
        BY <1>5, <2>0, <4>1, ThreadsAssumption
      <4> QED
        BY <1>6, <4>1, <4>2 DEF Located
    <3> QED
      BY <2>1, <3>1, <3>2 DEF Located
  <2> QED
    BY <1>2, <2>1 DEF KeepsPlaces, Placed, Pending
<1> QED
  BY <1>2, <1>7, <1>9, <1>10, <1>11, <1>12 DEF TasksInv

\* swapIn() of a fiber that was scheduled.
LEMMA ResumeStep ==
  ASSUME TaskTypes, TasksInv, NEW w \in Threads, ResumeFiber(w)
  PROVE  TasksInv' /\ KeepsPlaces /\ fault' = "none"
<1> DEFINE f == ft[w].item
<1>1. /\ pc[w] = "dispatch" /\ ft[w].kind = "fiber"
      /\ fstate' = [fstate EXCEPT ![f] = "EXEC"] /\ cur' = [cur EXCEPT ![w] = f]
      /\ pc' = [pc EXCEPT ![w] = "run"]
      /\ fault' = IF fstate[f] = "EXEC" THEN "assert" ELSE IF OnStack(f) THEN "stack" ELSE "none"
      /\ fibers' = fibers /\ prog' = prog /\ ft' = ft /\ cbFiber' = cbFiber
  BY DEF ResumeFiber, At, SwapIn, Goto, queueVars
<1>2. ft[w] # NoEntry /\ f \in Tasks /\ f # None
  BY <1>1, FtFacts, ThreadsAssumption
<1>3. fstate[f] \in {"INIT", "READY"} /\ prog[f] # None
  BY <1>1, <1>2 DEF TasksInv, StateInv, Executable, Waits
<1>4. cur[w] = None
  BY <1>1 DEF TasksInv, ThreadInv, Busy
<1>5. /\ \A x \in Queue : x.item # f
      /\ \A v \in Threads \ {w} : ft[v].item # f
      /\ \A v \in Threads : cbFiber[v] # f
  BY <1>2 DEF TasksInv, UniqueInv
<1>6. \A v \in Threads : cur[v] # f
  <2>1. ASSUME NEW v \in Threads, pc[v] \in Busy
        PROVE  cur[v] # f
    BY <2>1, <1>1, <1>5, CurAlone DEF TasksInv, Busy
  <2> QED
    BY <1>2, <2>1 DEF TasksInv, ThreadInv
<1>7. fault' = "none"
  BY <1>1, <1>3, <1>6 DEF OnStack
<1> DEFINE t == prog[f]
<1>8. t \in Tasks /\ t # None
  BY <1>2, <1>3 DEF TaskTypes
<1>9. /\ status'[t] = "begun" /\ \A x \in Tasks \ {t} : status'[x] = status[x]
      /\ status[t] \in {"queued", "begun"}
  <2>1. CASE fstate[f] = "INIT"
    <3>1. status' = [status EXCEPT ![t] = "begun"]
      BY <1>3, <2>1 DEF ResumeFiber, Begin
    <3> QED
      BY <1>2, <1>3, <1>8, <2>1, <3>1 DEF TaskTypes, TasksInv, FiberInv
  <2>2. CASE fstate[f] = "READY"
    <3>1. status' = status
      BY <1>3, <2>2 DEF ResumeFiber
    <3> QED
      BY <1>2, <1>3, <1>8, <2>2, <3>1 DEF TasksInv, FiberInv
  <2> QED
    BY <1>3, <2>1, <2>2
<1>10. /\ fstate'[f] = "EXEC" /\ \A g \in Tasks \ {f} : fstate'[g] = fstate[g]
       /\ cur'[w] = f /\ pc'[w] = "run"
       /\ \A v \in Threads \ {w} : cur'[v] = cur[v] /\ pc'[v] = pc[v]
  BY <1>1, <1>2 DEF TaskTypes
<1>11. \A g \in Tasks \ {f} : prog[g] # t
  BY <1>2, <1>8 DEF TasksInv, OneFiber
<1> HIDE DEF f, t
<1>12. ThreadInv'
  BY <1>1, <1>10 DEF TasksInv, ThreadInv, Busy, f
<1>13. StateInv'
  <2>1. ASSUME NEW x, x.item \in Tasks \ {f}, Executable(x)
        PROVE  Executable(x)'
    <3>1. x.item # t \/ x.kind = "fiber"
      BY <1>2, <2>1 DEF Executable, Untouched, t
    <3> QED
      BY <1>1, <1>9, <1>10, <2>1, <3>1 DEF Executable, Waits, Untouched
  <2>2. \A x \in Queue' : Executable(x)'
    BY <1>1, <1>5, <2>1, QueueFacts DEF TasksInv, StateInv, Queue
  <2>3. ASSUME NEW v \in Threads \ {w}
        PROVE  /\ pc[v] = "dispatch" /\ ft[v] # NoEntry => Executable(ft[v])'
               /\ pc[v] = "run" => fstate'[cur[v]] = "EXEC"
               /\ pc[v] \in {"swapout", "ret", "settle"} => fstate'[cur[v]] \in {"READY"} \cup Dead
    <3>1. pc[v] = "dispatch" /\ ft[v] # NoEntry => Executable(ft[v])'
      <4>1. ft[v] # NoEntry => ft[v].item \in Tasks \ {f}
        BY <1>5, <2>3, FtFacts
      <4> QED
        BY <1>1, <2>1, <4>1 DEF TasksInv, StateInv
    <3>2. pc[v] \in Busy => cur[v] \in Tasks \ {f}
      BY <1>6 DEF TaskTypes
    <3> QED
      BY <1>10, <3>1, <3>2 DEF TasksInv, StateInv, Busy
  <2>4. ASSUME NEW v \in Threads
        PROVE  cbFiber[v] # None /\ cur'[v] # cbFiber[v] =>
                 fstate'[cbFiber[v]] = "INIT" /\ prog[cbFiber[v]] = None
    <3>1. cbFiber[v] # None => cbFiber[v] \in Tasks \ {f}
      BY <1>5 DEF TaskTypes
    <3> QED
      BY <1>4, <1>10, <3>1 DEF TasksInv, StateInv
  <2> QED
    BY <1>1, <1>10, <2>2, <2>3, <2>4 DEF StateInv
<1>14. UniqueInv'
  BY <1>1 DEF TasksInv, UniqueInv, Queue, OneEntry
<1>15. FiberInv'
  <2>1. ASSUME NEW g \in Tasks \ {f}
        PROVE  fstate'[g] = fstate[g] /\ (prog[g] # None => status'[prog[g]] = status[prog[g]])
    BY <1>9, <1>10, <1>11 DEF TaskTypes
  <2> QED
    BY <1>1, <1>3, <1>9, <1>10, <2>1 DEF TasksInv, FiberInv, Dead, t
<1>16. OneFiber' /\ NewInv'
  BY <1>1, <1>3, <1>9, <1>10 DEF TasksInv, OneFiber, NewInv
<1>17. KeepsPlaces
  <2>1. \A x \in Tasks : Pending(x)' => Pending(x)
    BY <1>9 DEF Pending
  <2>2. \A x, k : Located(x, k)' <=> Located(x, k)
    BY <1>1 DEF Located, Queue
  <2>3. ASSUME NEW x \in Tasks, Placed(x)
        PROVE  Placed(x)'
    <3>1. CASE Located(x, "cb")
      BY <2>2, <3>1 DEF Placed
    <3>2. CASE ~Located(x, "cb")
      <4>1. PICK g \in Tasks : /\ prog[g] = x /\ fstate[g] \notin Dead
                               /\ Located(g, "fiber") \/ \E v \in Threads : cur[v] = g
        BY <2>3, <3>2 DEF Placed
      <4>2. fstate'[g] \notin Dead
        BY <1>10, <4>1 DEF Dead
      <4>3. ASSUME NEW v \in Threads, cur[v] = g
            PROVE  cur'[v] = g
        BY <1>4, <1>10, <4>3, ThreadsAssumption
      <4> QED
        BY <1>1, <2>2, <4>1, <4>2, <4>3 DEF Placed
    <3> QED
      BY <3>1, <3>2
  <2> QED
    BY <2>1, <2>3 DEF KeepsPlaces
<1> QED
  BY <1>7, <1>12, <1>13, <1>14, <1>15, <1>16, <1>17 DEF TasksInv

\* swapIn() of the thread's cb_fiber, reset or created for a callback.
LEMMA CallbackStep ==
  ASSUME TaskTypes, TasksInv, NEW w \in Threads, RunCallback(w)
  PROVE  TasksInv' /\ KeepsPlaces /\ fault' = "none"
<1> DEFINE t == ft[w].item
           f == IF cbFiber[w] = None THEN t ELSE cbFiber[w]
<1>1. pc[w] = "dispatch" /\ ft[w].kind = "cb"
  BY DEF RunCallback, At
<1>2. ft[w] # NoEntry /\ t \in Tasks /\ t # None
  BY <1>1, FtFacts, ThreadsAssumption
<1>3. status[t] = "queued" /\ fstate[t] = "NONE" /\ prog[t] = None /\ \A g \in Tasks : prog[g] # t
  BY <1>1, <1>2 DEF TasksInv, StateInv, Executable, Untouched, FiberInv
<1>4. cur[w] = None
  BY <1>1 DEF TasksInv, ThreadInv, Busy
<1>5. cbFiber[w] # None => fstate[cbFiber[w]] = "INIT" /\ prog[cbFiber[w]] = None
  BY <1>4 DEF TasksInv, StateInv
<1>6. CanReset(w)
  BY <1>5 DEF CanReset
<1>7. /\ cbFiber' = [cbFiber EXCEPT ![w] = f] /\ prog' = [prog EXCEPT ![f] = t]
      /\ ft' = [ft EXCEPT ![w] = NoEntry]
      /\ fstate' = [fstate EXCEPT ![f] = "EXEC"] /\ cur' = [cur EXCEPT ![w] = f]
      /\ pc' = [pc EXCEPT ![w] = "run"] /\ status' = [status EXCEPT ![t] = "begun"]
      /\ fault' = IF OnStack(f) THEN "stack" ELSE "none"
      /\ fibers' = fibers
  BY <1>6 DEF RunCallback, SwapIn, Goto, Begin, queueVars
<1>8. f \in Tasks /\ f # None /\ fstate[f] \in {"NONE", "INIT"} /\ prog[f] = None
  BY <1>2, <1>3, <1>5 DEF TaskTypes
<1>9. /\ \A x \in Queue : x.item # t
      /\ \A v \in Threads \ {w} : ft[v].item # t
      /\ \A v \in Threads : cbFiber[v] # t
  BY <1>2 DEF TasksInv, UniqueInv
<1>10. /\ \A x \in Queue : x.item # f
       /\ \A v \in Threads \ {w} : ft[v].item # f /\ cbFiber[v] # f
  <2>1. CASE cbFiber[w] = None
    BY <1>9, <2>1
  <2>2. CASE cbFiber[w] # None
    <3>1. \A v \in Threads \ {w} : ft[v] = NoEntry => ft[v].item = None
      BY FtFacts
    <3> QED
      BY <2>2, <3>1 DEF TasksInv, UniqueInv
  <2> QED
    BY <2>1, <2>2
<1>11. \A v \in Threads : cur[v] # f
  <2>1. ASSUME NEW v \in Threads, pc[v] \in Busy
        PROVE  cur[v] # f
    <3>1. v # w
      BY <1>1, <2>1 DEF Busy
    <3> QED
      BY <2>1, <3>1, <1>10, CurAlone DEF TasksInv
  <2> QED
    BY <1>8, <2>1 DEF TasksInv, ThreadInv
<1>12. fault' = "none"
  BY <1>7, <1>11 DEF OnStack
<1>13. /\ status'[t] = "begun" /\ \A x \in Tasks \ {t} : status'[x] = status[x]
       /\ fstate'[f] = "EXEC" /\ prog'[f] = t
       /\ \A g \in Tasks \ {f} : fstate'[g] = fstate[g] /\ prog'[g] = prog[g]
  BY <1>2, <1>7, <1>8 DEF TaskTypes
<1>14. /\ cur'[w] = f /\ pc'[w] = "run" /\ ft'[w] = NoEntry /\ cbFiber'[w] = f
       /\ \A v \in Threads \ {w} :
            cur'[v] = cur[v] /\ pc'[v] = pc[v] /\ ft'[v] = ft[v] /\ cbFiber'[v] = cbFiber[v]
  BY <1>2, <1>7, <1>8 DEF TaskTypes
<1>15. NoEntry.item = None /\ NoEntry.kind = "none"
  BY DEF NoEntry
<1> HIDE DEF f, t
<1>16. ThreadInv'
  BY <1>14 DEF TasksInv, ThreadInv, Busy
<1>17. StateInv'
  <2>1. ASSUME NEW x, x.item \in Tasks \ {f, t}, Executable(x)
        PROVE  Executable(x)'
    BY <1>3, <1>13, <2>1 DEF Executable, Waits, Untouched
  <2>2. \A x \in Queue' : Executable(x)'
    BY <1>7, <1>9, <1>10, <2>1, QueueFacts DEF TasksInv, StateInv, Queue
  <2>3. ASSUME NEW v \in Threads \ {w}
        PROVE  /\ pc'[v] = "dispatch" /\ ft'[v] # NoEntry => Executable(ft[v])'
               /\ pc'[v] = "run" => fstate'[cur'[v]] = "EXEC"
               /\ pc'[v] \in {"swapout", "ret", "settle"} => fstate'[cur'[v]] \in {"READY"} \cup Dead
               /\ cbFiber'[v] # None /\ cur'[v] # cbFiber'[v] =>
                    fstate'[cbFiber'[v]] = "INIT" /\ prog'[cbFiber'[v]] = None
    <3>1. pc'[v] = "dispatch" /\ ft'[v] # NoEntry => Executable(ft[v])'
      <4> DEFINE y == ft[v]
      <4>1. y # NoEntry => y.item \in Tasks \ {f, t}
        BY <1>9, <1>10, FtFacts
      <4>2. pc[v] = "dispatch" /\ y # NoEntry => Executable(y)
        BY DEF TasksInv, StateInv
      <4>3. y = ft'[v]
        BY <1>14
      <4> HIDE DEF y
      <4>4. ASSUME NEW z, z.item \in Tasks \ {f, t}, Executable(z), z = ft'[v]
            PROVE  Executable(ft[v])'
        BY <2>1, <4>4
      <4>5. ASSUME NEW z, z = y
            PROVE  pc'[v] = "dispatch" /\ ft'[v] # NoEntry => Executable(ft[v])'
        <5>1. z = ft'[v] /\ (z # NoEntry => z.item \in Tasks \ {f, t})
          BY <4>1, <4>3, <4>5
        <5>2. pc[v] = "dispatch" /\ z # NoEntry => Executable(z)
          BY <4>2, <4>5
        <5> QED
          BY <1>14, <4>4, <5>1, <5>2
      <4> QED
        BY <4>5
    <3>2. pc[v] \in Busy => cur[v] \in Tasks \ {f}
      BY <1>11 DEF TaskTypes
    <3>3. cbFiber[v] # None => cbFiber[v] \in Tasks \ {f}
      BY <1>10 DEF TaskTypes
    <3> QED
      BY <1>13, <1>14, <3>1, <3>2, <3>3 DEF TasksInv, StateInv, Busy
  <2> QED
    BY <1>13, <1>14, <2>2, <2>3 DEF StateInv
<1>18. UniqueInv'
  <2>1. Queue' = Queue /\ (OneEntry' <=> OneEntry)
    BY <1>7 DEF Queue, OneEntry
  <2>2. \A x \in Queue : x.item # None
    BY QueueFacts, ThreadsAssumption
  <2>3. \A x \in Queue', v \in Threads : x.item # ft'[v].item /\ x.item # cbFiber'[v]
    BY <1>10, <1>14, <1>15, <2>1, <2>2 DEF TasksInv, UniqueInv
  <2>4. ASSUME NEW v \in Threads, NEW u \in Threads
        PROVE  /\ ft'[u].item = ft'[v].item /\ ft'[u] # NoEntry => v = u
               /\ cbFiber'[u] = cbFiber'[v] /\ cbFiber'[u] # None => v = u
               /\ ft'[u] # NoEntry => ft'[u].item # cbFiber'[v]
    <3>1. ft[u] # NoEntry => ft[u].item # None
      BY FtFacts, ThreadsAssumption
    <3> QED
      BY <1>10, <1>14, <1>15, <3>1 DEF TasksInv, UniqueInv
  <2> QED
    BY <2>1, <2>3, <2>4 DEF TasksInv, UniqueInv
<1>19. FiberInv'
  <2>1. ASSUME NEW g \in Tasks \ {f}
        PROVE  /\ fstate'[g] = fstate[g] /\ prog'[g] = prog[g]
               /\ prog[g] # None => status'[prog[g]] = status[prog[g]]
    BY <1>3, <1>13 DEF TaskTypes
  <2> QED
    BY <1>2, <1>8, <1>13, <2>1 DEF TasksInv, FiberInv, Dead
<1>20. OneFiber' /\ NewInv'
  <2>1. OneFiber'
    BY <1>3, <1>8, <1>13 DEF TasksInv, OneFiber
  <2>2. NewInv'
    <3>1. ASSUME NEW x \in Tasks, status'[x] = "new"
          PROVE  x # f /\ x # t
      <4>1. x # t /\ status[x] = "new"
        BY <1>13, <3>1
      <4>2. \A v \in Threads : cbFiber[v] # x
        BY <4>1, NewNowhere DEF TasksInv
      <4> QED
        BY <4>1, <4>2 DEF f
    <3> QED
      BY <1>13, <3>1 DEF TasksInv, NewInv
  <2> QED
    BY <2>1, <2>2
<1>21. KeepsPlaces
  <2>1. \A x \in Tasks : Pending(x)' => Pending(x)
    BY <1>3, <1>13 DEF Pending
  <2>2. ASSUME NEW x \in Tasks, NEW k, Located(x, k), k = "fiber" \/ x # t
        PROVE  Located(x, k)'
    <3>1. CASE \E y \in Queue : y.kind = k /\ y.item = x
      BY <1>7, <3>1 DEF Located, Queue
    <3>2. CASE \E v \in Threads : ft[v].kind = k /\ ft[v].item = x
      <4>1. PICK v \in Threads : ft[v].kind = k /\ ft[v].item = x
        BY <3>2
      <4>2. v # w
        BY <1>1, <2>2, <4>1 DEF t
      <4> QED
        BY <1>14, <4>1, <4>2 DEF Located
    <3> QED
      BY <2>2, <3>1, <3>2 DEF Located
  <2>3. ASSUME NEW x \in Tasks, x = t
        PROVE  Placed(x)'
    <3>1. /\ f \in Tasks /\ prog'[f] = x /\ fstate'[f] \notin Dead
          /\ \E v \in Threads : cur'[v] = f
      BY <1>8, <1>13, <1>14, <2>3 DEF Dead
    <3> QED
      BY <3>1 DEF Placed
  <2>4. ASSUME NEW x \in Tasks \ {t}, Placed(x)
        PROVE  Placed(x)'
    <3>1. CASE Located(x, "cb")
      BY <2>2, <3>1 DEF Placed
    <3>2. CASE ~Located(x, "cb")
      <4>1. PICK g \in Tasks : /\ prog[g] = x /\ fstate[g] \notin Dead
                               /\ Located(g, "fiber") \/ \E v \in Threads : cur[v] = g
        BY <2>4, <3>2 DEF Placed
      <4>2. g # f
        BY <1>8, <4>1, ThreadsAssumption
      <4>3. fstate'[g] \notin Dead /\ prog'[g] = x
        BY <1>13, <4>1, <4>2
      <4>4. ASSUME NEW v \in Threads, cur[v] = g
            PROVE  cur'[v] = g
        BY <1>4, <1>14, <4>4, ThreadsAssumption
      <4> QED
        BY <2>2, <4>1, <4>3, <4>4 DEF Placed
    <3> QED
      BY <3>1, <3>2
  <2> QED
    BY <2>1, <2>3, <2>4 DEF KeepsPlaces
<1> QED
  BY <1>12, <1>16, <1>17, <1>18, <1>19, <1>20, <1>21 DEF TasksInv

\* A fiber that yielded READY goes back into the queue.
LEMMA SettleReadyStep ==
  ASSUME TaskTypes, TasksInv, NEW w \in Threads, SettleReady(w)
  PROVE  TasksInv' /\ KeepsPlaces /\ fault' = "none"
<1> DEFINE f == cur[w]
           e == [kind |-> "fiber", item |-> f, thr |-> AnyThread]
<1>1. /\ pc[w] = "settle" /\ fstate[f] = "READY" /\ fibers' = Append(fibers, e)
      /\ cbFiber' = [cbFiber EXCEPT ![w] = IF ft[w] = NoEntry THEN None ELSE @]
      /\ ft' = [ft EXCEPT ![w] = NoEntry] /\ cur' = [cur EXCEPT ![w] = None]
      /\ pc' = [pc EXCEPT ![w] = "pick"]
      /\ fstate' = fstate /\ prog' = prog /\ status' = status /\ fault' = "none"
  BY DEF SettleReady, At, Goto, Enqueue, FromCallback, fiberVars, taskVars
<1>2. /\ f \in Tasks
      /\ \A x \in Queue : x.item # f
      /\ \A v \in Threads \ {w} : ft[v].item # f /\ cbFiber[v] # f /\ cur[v] # f
      /\ ft[w] # NoEntry => cbFiber[w] # f
  BY <1>1, CurAlone DEF TasksInv, Busy
<1>3. e \in Entry /\ e.item = f /\ e.kind = "fiber"
  BY <1>2 DEF Entry
<1>4. prog[f] # None
  BY <1>1, <1>2 DEF TasksInv, FiberInv
<1> HIDE DEF e
<1>5. Queue' = Queue \cup {e} /\ OneEntry'
  BY <1>1, <1>2, <1>3, QueueAppend DEF TasksInv, UniqueInv
<1>6. /\ cur'[w] = None /\ pc'[w] = "pick" /\ ft'[w] = NoEntry
      /\ cbFiber'[w] # None => cbFiber'[w] = cbFiber[w] /\ cbFiber[w] # f
      /\ \A v \in Threads \ {w} :
           cur'[v] = cur[v] /\ pc'[v] = pc[v] /\ ft'[v] = ft[v] /\ cbFiber'[v] = cbFiber[v]
  BY <1>1, <1>2 DEF TaskTypes
<1>7. NoEntry.item = None /\ NoEntry.kind = "none"
  BY DEF NoEntry
<1>a. \E g \in Tasks : g = f
  BY <1>2
<1> HIDE DEF f
<1>8. ThreadInv'
  BY <1>6 DEF TasksInv, ThreadInv, Busy
<1>9. \A x : Executable(x)' <=> Executable(x)
  BY <1>1 DEF Executable, Waits, Untouched
<1>10. StateInv'
  <2>1. Executable(e)
    BY <1>1, <1>3, <1>4 DEF Executable, Waits
  <2>2. \A x \in Queue' : Executable(x)'
    BY <1>5, <1>9, <2>1 DEF TasksInv, StateInv
  <2>3. ASSUME NEW v \in Threads
        PROVE  /\ pc'[v] = "dispatch" /\ ft'[v] # NoEntry => Executable(ft'[v])
               /\ pc'[v] = "run" => fstate[cur'[v]] = "EXEC"
               /\ pc'[v] \in {"swapout", "ret", "settle"} => fstate[cur'[v]] \in {"READY"} \cup Dead
               /\ cbFiber'[v] # None /\ cur'[v] # cbFiber'[v] =>
                    fstate[cbFiber'[v]] = "INIT" /\ prog[cbFiber'[v]] = None
    <3>1. CASE v = w
      <4>1. cbFiber'[w] # None => fstate[cbFiber[w]] = "INIT" /\ prog[cbFiber[w]] = None
        BY <1>6 DEF TasksInv, StateInv, f
      <4> QED
        BY <1>6, <3>1, <4>1
    <3>2. CASE v # w
      BY <1>6, <3>2 DEF TasksInv, StateInv
    <3> QED
      BY <3>1, <3>2
  <2> QED
    BY <1>1, <1>9, <2>2, <2>3 DEF StateInv
<1>11. UniqueInv'
  <2>1. f # None /\ \A x \in Queue : x.item # None
    BY <1>2, QueueFacts, ThreadsAssumption
  <2>2. ASSUME NEW x \in Queue, NEW v \in Threads
        PROVE  x.item # ft'[v].item /\ x.item # cbFiber'[v]
    BY <1>6, <1>7, <2>1 DEF TasksInv, UniqueInv
  <2>3. ASSUME NEW v \in Threads
        PROVE  e.item # ft'[v].item /\ e.item # cbFiber'[v]
    BY <1>2, <1>3, <1>6, <1>7, <2>1
  <2>4. ASSUME NEW v \in Threads, NEW u \in Threads
        PROVE  /\ ft'[u].item = ft'[v].item /\ ft'[u] # NoEntry => v = u
               /\ cbFiber'[u] = cbFiber'[v] /\ cbFiber'[u] # None => v = u
               /\ ft'[u] # NoEntry => ft'[u].item # cbFiber'[v]
    <3>1. ft[u] # NoEntry => ft[u].item # None
      BY FtFacts, ThreadsAssumption
    <3> QED
      BY <1>6, <1>7, <3>1 DEF TasksInv, UniqueInv
  <2> QED
    BY <1>5, <2>2, <2>3, <2>4 DEF UniqueInv
<1>12. FiberInv' /\ OneFiber' /\ NewInv'
  BY <1>1 DEF TasksInv, FiberInv, OneFiber, NewInv
<1>13. KeepsPlaces
  <2>1. ASSUME NEW x \in Tasks, NEW k, Located(x, k)
        PROVE  Located(x, k)'
    <3>1. CASE \E y \in Queue : y.kind = k /\ y.item = x
      BY <1>5, <3>1 DEF Located
    <3>2. CASE \E v \in Threads : ft[v].kind = k /\ ft[v].item = x
      <4>1. PICK v \in Threads : ft[v].kind = k /\ ft[v].item = x
        BY <3>2
      <4>2. CASE v = w
        <5>1. ft[w] # NoEntry
          BY <1>7, <4>1, <4>2, ThreadsAssumption
        <5>2. e.kind = k /\ e.item = x
          BY <1>1, <1>3, <4>1, <4>2, <5>1, CurAlone DEF TasksInv, Busy, f
        <5> QED
          BY <1>5, <5>2 DEF Located
      <4>3. CASE v # w
        BY <1>6, <4>1, <4>3 DEF Located
      <4> QED
        BY <4>2, <4>3
    <3> QED
      BY <2>1, <3>1, <3>2 DEF Located
  <2>2. ASSUME NEW g \in Tasks, NEW v \in Threads, cur[v] = g
        PROVE  Located(g, "fiber")' \/ cur'[v] = g
    BY <1>3, <1>5, <1>6, <2>2 DEF Located, f
  <2>3. ASSUME NEW g \in Tasks, Located(g, "fiber") \/ \E v \in Threads : cur[v] = g
        PROVE  Located(g, "fiber")' \/ \E v \in Threads : cur'[v] = g
    BY <2>1, <2>2, <2>3
  <2> QED
    BY <1>1, <2>1, <2>3 DEF KeepsPlaces, Placed, Pending
<1> QED
  BY <1>1, <1>8, <1>10, <1>11, <1>12, <1>13 DEF TasksInv

\* A fiber that has ended is dropped, or reset for the thread's next callback.
LEMMA SettleDeadStep ==
  ASSUME TaskTypes, TasksInv, NEW w \in Threads, SettleDead(w), fault = "none"
  PROVE  TasksInv' /\ KeepsPlaces /\ fault' = "none"
<1> DEFINE f == cur[w]
<1>1. /\ pc[w] = "settle" /\ fstate[f] \in Dead
      /\ ft' = [ft EXCEPT ![w] = NoEntry] /\ cur' = [cur EXCEPT ![w] = None]
      /\ pc' = [pc EXCEPT ![w] = "pick"]
      /\ fibers' = fibers /\ cbFiber' = cbFiber /\ status' = status
  BY DEF SettleDead, At, Goto, queueVars, taskVars
<1>2. /\ f \in Tasks
      /\ \A x \in Queue : x.item # f
      /\ \A v \in Threads \ {w} : ft[v].item # f /\ cbFiber[v] # f /\ cur[v] # f
      /\ ft[w] = NoEntry => cbFiber[w] = f
      /\ ft[w] # NoEntry => cbFiber[w] # f /\ ft[w].kind = "fiber" /\ ft[w].item = f
  BY <1>1, CurAlone DEF TasksInv, Busy
<1>3. \/ /\ ft[w] = NoEntry
         /\ fstate' = [fstate EXCEPT ![f] = "INIT"] /\ prog' = [prog EXCEPT ![f] = None]
      \/ ft[w] # NoEntry /\ fstate' = fstate /\ prog' = prog
  BY DEF SettleDead, FromCallback, fiberVars
<1>4. fault' = "none"
  <2>1. ~OnStack(f)
    BY <1>1, <1>2 DEF OnStack
  <2> QED
    BY <2>1 DEF SettleDead
<1>5. /\ ft[w] = NoEntry => fstate'[f] = "INIT" /\ prog'[f] = None
      /\ ft[w] # NoEntry => fstate'[f] = fstate[f] /\ prog'[f] = prog[f]
      /\ \A g \in Tasks \ {f} : fstate'[g] = fstate[g] /\ prog'[g] = prog[g]
  BY <1>2, <1>3 DEF TaskTypes
<1>6. /\ cur'[w] = None /\ pc'[w] = "pick" /\ ft'[w] = NoEntry
      /\ \A v \in Threads \ {w} : cur'[v] = cur[v] /\ pc'[v] = pc[v] /\ ft'[v] = ft[v]
  BY <1>1 DEF TaskTypes
<1>7. NoEntry.item = None /\ NoEntry.kind = "none"
  BY DEF NoEntry
<1>8. prog[f] # None => status[prog[f]] = "done"
  BY <1>1, <1>2 DEF TasksInv, FiberInv
<1> HIDE DEF f
<1>9. ThreadInv'
  BY <1>1, <1>6 DEF TasksInv, ThreadInv, Busy
<1>10. StateInv'
  <2>1. ASSUME NEW x, x.item \in Tasks \ {f}, Executable(x)
        PROVE  Executable(x)'
    BY <1>1, <1>2, <1>5, <2>1, ThreadsAssumption DEF Executable, Waits, Untouched
  <2>2. \A x \in Queue' : Executable(x)'
    BY <1>1, <1>2, <2>1, QueueFacts DEF TasksInv, StateInv, Queue
  <2>3. ASSUME NEW v \in Threads, NEW z, z = ft'[v]
        PROVE  /\ pc'[v] = "dispatch" /\ z # NoEntry => Executable(z)'
               /\ pc'[v] = "run" => fstate'[cur'[v]] = "EXEC"
               /\ pc'[v] \in {"swapout", "ret", "settle"} => fstate'[cur'[v]] \in {"READY"} \cup Dead
               /\ cbFiber[v] # None /\ cur'[v] # cbFiber[v] =>
                    fstate'[cbFiber[v]] = "INIT" /\ prog'[cbFiber[v]] = None
    <3>1. CASE v = w
      <4>1. ft[w] # NoEntry /\ cbFiber[w] # None =>
              fstate[cbFiber[w]] = "INIT" /\ prog[cbFiber[w]] = None /\ cbFiber[w] \in Tasks \ {f}
        BY <1>2 DEF TasksInv, StateInv, f, TaskTypes
      <4>2. cbFiber[w] # None => fstate'[cbFiber[w]] = "INIT" /\ prog'[cbFiber[w]] = None
        BY <1>2, <1>5, <4>1
      <4> QED
        BY <1>6, <2>3, <3>1, <4>2
    <3>2. CASE v # w
      <4>1. z # NoEntry => z.item \in Tasks \ {f}
        BY <1>2, <1>6, <2>3, <3>2, FtFacts
      <4>2. pc[v] = "dispatch" /\ z # NoEntry => Executable(z)
        BY <1>6, <2>3, <3>2 DEF TasksInv, StateInv
      <4>3. pc'[v] = "dispatch" /\ z # NoEntry => Executable(z)'
        BY <1>6, <2>1, <3>2, <4>1, <4>2
      <4>4. pc[v] \in Busy => cur[v] \in Tasks \ {f}
        BY <1>2, <3>2 DEF TaskTypes
      <4>5. cbFiber[v] # None => cbFiber[v] \in Tasks \ {f}
        BY <1>2, <3>2 DEF TaskTypes
      <4> QED
        BY <1>5, <1>6, <3>2, <4>3, <4>4, <4>5 DEF TasksInv, StateInv, Busy
    <3> QED
      BY <3>1, <3>2
  <2>4. ASSUME NEW v \in Threads
        PROVE  pc'[v] = "dispatch" /\ ft'[v] # NoEntry => Executable(ft[v])'
    BY <2>3
  <2> QED
    BY <1>1, <2>2, <2>3, <2>4 DEF StateInv
<1>11. UniqueInv'
  <2>1. Queue' = Queue /\ (OneEntry' <=> OneEntry)
    BY <1>1 DEF Queue, OneEntry
  <2>2. \A x \in Queue : x.item # None
    BY QueueFacts, ThreadsAssumption
  <2>3. ASSUME NEW v \in Threads, NEW u \in Threads
        PROVE  /\ ft'[u].item = ft'[v].item /\ ft'[u] # NoEntry => v = u
               /\ cbFiber[u] = cbFiber[v] /\ cbFiber[u] # None => v = u
               /\ ft'[u] # NoEntry => ft'[u].item # cbFiber[v]
    <3>1. ft[u] # NoEntry => ft[u].item # None
      BY FtFacts, ThreadsAssumption
    <3> QED
      BY <1>6, <1>7, <3>1 DEF TasksInv, UniqueInv
  <2> QED
    BY <1>1, <1>6, <1>7, <2>1, <2>2, <2>3 DEF TasksInv, UniqueInv
<1>12. FiberInv' /\ OneFiber' /\ NewInv'
  <2>1. FiberInv'
    BY <1>1, <1>2, <1>5 DEF TasksInv, FiberInv, Dead
  <2>2. OneFiber'
    BY <1>2, <1>5 DEF TasksInv, OneFiber
  <2>3. NewInv'
    BY <1>1, <1>2, <1>5, ThreadsAssumption DEF TasksInv, NewInv, Dead
  <2> QED
    BY <2>1, <2>2, <2>3
<1>13. KeepsPlaces
  <2>0. \A x \in Tasks : Pending(x)' => Pending(x) /\ prog[f] # x
    BY <1>1, <1>8, ThreadsAssumption DEF Pending
  <2>1. ASSUME NEW x \in Tasks, NEW k, Located(x, k), k = "cb" \/ x # f
        PROVE  Located(x, k)'
    <3>1. CASE \E y \in Queue : y.kind = k /\ y.item = x
      BY <1>1, <3>1 DEF Located, Queue
    <3>2. CASE \E v \in Threads : ft[v].kind = k /\ ft[v].item = x
      <4>1. PICK v \in Threads : ft[v].kind = k /\ ft[v].item = x
        BY <3>2
      <4>2. v # w
        BY <1>2, <1>7, <2>1, <4>1, ThreadsAssumption
      <4> QED
        BY <1>6, <4>1, <4>2 DEF Located
    <3> QED
      BY <2>1, <3>1, <3>2 DEF Located
  <2>2. ASSUME NEW x \in Tasks, Placed(x), prog[f] # x
        PROVE  Placed(x)'
    <3>1. CASE Located(x, "cb")
      BY <2>1, <3>1 DEF Placed
    <3>2. CASE ~Located(x, "cb")
      <4>1. PICK g \in Tasks : /\ prog[g] = x /\ fstate[g] \notin Dead
                               /\ Located(g, "fiber") \/ \E v \in Threads : cur[v] = g
        BY <2>2, <3>2 DEF Placed
      <4>2. g # f
        BY <2>2, <4>1
      <4>3. fstate'[g] \notin Dead /\ prog'[g] = x
        BY <1>5, <4>1, <4>2
      <4>4. ASSUME NEW v \in Threads, cur[v] = g
            PROVE  cur'[v] = g
        BY <1>6, <4>2, <4>4 DEF f
      <4> QED
        BY <2>1, <4>1, <4>2, <4>3, <4>4 DEF Placed
    <3> QED
      BY <3>1, <3>2
  <2> QED
    BY <2>0, <2>2 DEF KeepsPlaces
<1> QED
  BY <1>4, <1>9, <1>10, <1>11, <1>12, <1>13 DEF TasksInv

-----------------------------------------------------------------------------
(* A task ends or yields.                                                  *)

\* What the running fiber changes is its own state, and its task's progress.
LEMMA RunningStep ==
  ASSUME TaskTypes, TasksInv, NEW w \in Threads, NEW st \in {"READY"} \cup Dead,
         pc[w] = "run", pc' = [pc EXCEPT ![w] = "swapout"],
         fstate' = [fstate EXCEPT ![cur[w]] = st],
         \/ st = "READY" /\ prog' = prog /\ status' = status
         \/ /\ st \in Dead
            /\ prog' = [prog EXCEPT ![cur[w]] = IF st = "TERM" THEN None ELSE @]
            /\ status' = [status EXCEPT ![prog[cur[w]]] = "done"],
         fibers' = fibers, ft' = ft, cur' = cur, cbFiber' = cbFiber
  PROVE  TasksInv' /\ KeepsPlaces
<1> DEFINE f == cur[w]
           t == prog[f]
<1>1. /\ f \in Tasks
      /\ \A x \in Queue : x.item # f
      /\ \A v \in Threads \ {w} : ft[v].item # f /\ cbFiber[v] # f /\ cur[v] # f
  BY CurAlone DEF TasksInv, Busy
<1>2. fstate[f] = "EXEC"
  BY DEF TasksInv, StateInv
<1>3. t \in Tasks /\ t # None /\ status[t] = "begun"
  BY <1>1, <1>2 DEF TasksInv, FiberInv, TaskTypes
<1>4. /\ fstate'[f] = st /\ \A g \in Tasks \ {f} : fstate'[g] = fstate[g] /\ prog'[g] = prog[g]
      /\ \A x \in Tasks \ {t} : status'[x] = status[x]
      /\ st = "READY" => prog'[f] = t /\ status'[t] = "begun"
      /\ st \in Dead => prog'[f] \in {t, None} /\ status'[t] = "done"
  BY <1>1, <1>3 DEF TaskTypes, Dead
<1>5. pc'[w] = "swapout" /\ \A v \in Threads \ {w} : pc'[v] = pc[v]
  BY DEF TaskTypes
<1>6. \A g \in Tasks \ {f} : prog[g] # t
  BY <1>1, <1>3 DEF TasksInv, OneFiber
<1>a. st \notin {"INIT", "NONE", "HOLD", "EXEC"}
  BY DEF Dead
<1> HIDE DEF f, t
<1>7. ThreadInv'
  BY <1>5 DEF TasksInv, ThreadInv, Busy
<1>8. StateInv'
  <2>1. ASSUME NEW x, x.item \in Tasks \ {f}, Executable(x)
        PROVE  Executable(x)'
    <3>1. x.item # t \/ x.kind = "fiber"
      BY <1>1, <2>1 DEF Executable, Untouched, t
    <3>2. x.kind # "fiber" => \A g \in Tasks : prog'[g] # x.item
      BY <1>1, <1>3, <1>4, <2>1, <3>1, ThreadsAssumption DEF Executable, Untouched
    <3> QED
      BY <1>4, <2>1, <3>1, <3>2 DEF Executable, Waits, Untouched
  <2>2. \A x \in Queue' : Executable(x)'
    BY <1>1, <2>1, QueueFacts DEF TasksInv, StateInv, Queue
  <2>3. ASSUME NEW v \in Threads, NEW z, z = ft[v]
        PROVE  /\ pc'[v] = "dispatch" /\ z # NoEntry => Executable(z)'
               /\ pc'[v] = "run" => fstate'[cur[v]] = "EXEC"
               /\ pc'[v] \in {"swapout", "ret", "settle"} => fstate'[cur[v]] \in {"READY"} \cup Dead
               /\ cbFiber[v] # None /\ cur[v] # cbFiber[v] =>
                    fstate'[cbFiber[v]] = "INIT" /\ prog'[cbFiber[v]] = None
    <3>1. cbFiber[v] # None /\ cur[v] # cbFiber[v] => cbFiber[v] \in Tasks \ {f}
      BY <1>1 DEF TaskTypes, f
    <3>2. CASE v = w
      BY <1>4, <1>5, <3>1, <3>2 DEF TasksInv, StateInv, f
    <3>3. CASE v # w
      <4>1. z # NoEntry => z.item \in Tasks \ {f}
        BY <1>1, <2>3, <3>3, FtFacts
      <4>2. pc'[v] = "dispatch" /\ z # NoEntry => Executable(z)'
        BY <1>5, <2>1, <2>3, <3>3, <4>1 DEF TasksInv, StateInv
      <4>3. pc[v] \in Busy => cur[v] \in Tasks \ {f}
        BY <1>1, <3>3 DEF TaskTypes
      <4> QED
        BY <1>4, <1>5, <3>1, <3>3, <4>2, <4>3 DEF TasksInv, StateInv, Busy
    <3> QED
      BY <3>2, <3>3
  <2>4. ASSUME NEW v \in Threads
        PROVE  pc'[v] = "dispatch" /\ ft'[v] # NoEntry => Executable(ft[v])'
    BY <2>3
  <2> QED
    BY <2>2, <2>3, <2>4 DEF StateInv
<1>9. UniqueInv'
  BY DEF TasksInv, UniqueInv, Queue, OneEntry
<1>10. FiberInv'
  <2>1. ASSUME NEW g \in Tasks \ {f}
        PROVE  /\ fstate'[g] = fstate[g] /\ prog'[g] = prog[g]
               /\ prog[g] # None => status'[prog[g]] = status[prog[g]]
    BY <1>3, <1>4, <1>6 DEF TaskTypes
  <2> QED
    BY <1>a, <1>1, <1>3, <1>4, <2>1 DEF TasksInv, FiberInv
<1>11. OneFiber' /\ NewInv'
  <2>1. OneFiber'
    BY <1>1, <1>3, <1>4, <1>6 DEF TasksInv, OneFiber
  <2>2. NewInv'
    BY <1>1, <1>2, <1>3, <1>4, ThreadsAssumption DEF TasksInv, NewInv, t
  <2> QED
    BY <2>1, <2>2
<1>12. KeepsPlaces
  <2>1. \A x \in Tasks : Pending(x)' => Pending(x) /\ (st = "READY" \/ x # t)
    BY <1>3, <1>4 DEF Pending
  <2>2. \A x, k : Located(x, k)' <=> Located(x, k)
    BY DEF Located, Queue
  <2>3. ASSUME NEW x \in Tasks, Placed(x), st = "READY" \/ x # t
        PROVE  Placed(x)'
    <3>1. CASE Located(x, "cb")
      BY <2>2, <3>1 DEF Placed
    <3>2. CASE ~Located(x, "cb")
      <4>1. PICK g \in Tasks : /\ prog[g] = x /\ fstate[g] \notin Dead
                               /\ Located(g, "fiber") \/ \E v \in Threads : cur[v] = g
        BY <2>3, <3>2 DEF Placed
      <4>2. fstate'[g] \notin Dead /\ prog'[g] = x
        BY <1>4, <2>3, <4>1 DEF Dead, t
      <4> QED
        BY <2>2, <4>1, <4>2 DEF Placed
    <3> QED
      BY <3>1, <3>2
  <2> QED
    BY <2>1, <2>3 DEF KeepsPlaces
<1> QED
  BY <1>7, <1>8, <1>9, <1>10, <1>11, <1>12 DEF TasksInv

-----------------------------------------------------------------------------
(* The scheduler's steps.                                                  *)

LEMMA TypesOfTasks == TypeInv => TaskTypes
BY DEF TypeInv, TypeOK, TaskTypes, HasFiber, Busy

LEMMA RunTasks ==
  ASSUME TypeInv, TasksInv, fault = "none", NEW w \in Threads, RunStep(w)
  PROVE  TasksInv' /\ KeepsPlaces /\ fault' = "none"
<1>0. TaskTypes
  BY TypesOfTasks
<1>1. CASE Pick(w)
  BY <1>0, <1>1, PickStep
<1>2. CASE ResumeFiber(w)
  BY <1>0, <1>2, ResumeStep
<1>3. CASE RunCallback(w)
  BY <1>0, <1>3, CallbackStep
<1>4. CASE SettleReady(w)
  BY <1>0, <1>4, SettleReadyStep
<1>5. CASE SettleDead(w)
  BY <1>0, <1>5, SettleDeadStep
<1>6. ~SkipDead(w)
  <2> SUFFICES ASSUME SkipDead(w)
               PROVE  FALSE
    OBVIOUS
  <2>1. pc[w] = "dispatch" /\ ft[w].kind = "fiber" /\ fstate[ft[w].item] \in Dead
    BY DEF SkipDead, At
  <2>2. Executable(ft[w])
    BY <1>0, <2>1, FtFacts DEF TasksInv, StateInv
  <2> QED
    BY <2>1, <2>2 DEF Executable, Waits, Dead
<1>7. ~SettleOther(w) /\ ~SetHold(w)
  BY DEF SettleOther, SetHold, At, TasksInv, ThreadInv, StateInv
<1>8. CASE PickNothing(w) \/ Ret(w) \/ ThreadExit(w) \/ IdleIn(w) \/ IdleOut(w)
  <2>1. /\ fibers' = fibers /\ cur' = cur /\ cbFiber' = cbFiber /\ fstate' = fstate
        /\ prog' = prog /\ status' = status /\ fault' = fault
    BY <1>8 DEF PickNothing, Ret, ThreadExit, IdleIn, IdleOut, queueVars, fiberVars,
                threadVars, taskVars
  <2>2. ft' = ft
    <3>1. pc[w] = "pick" => ft[w] = NoEntry
      BY DEF TasksInv, ThreadInv, Busy
    <3> QED
      BY <1>0, <1>8, <3>1 DEF PickNothing, Ret, ThreadExit, IdleIn, IdleOut, threadVars, At,
                              TaskTypes
  <2>3. \/ pc[w] = "ret" /\ pc'[w] = "settle"
        \/ pc[w] \in {"pick", "dispatch", "idleout"} /\ pc'[w] \in {"dispatch", "exit", "idle", "pick"}
           /\ ft[w] = NoEntry
    <3>1. pc[w] \in {"pick", "idleout"} => ft[w] = NoEntry
      BY DEF TasksInv, ThreadInv, Busy
    <3> QED
      BY <1>0, <1>8, <3>1 DEF PickNothing, Ret, ThreadExit, IdleIn, IdleOut, At, Goto, TaskTypes
  <2>4. \A v \in Threads \ {w} : pc'[v] = pc[v]
    BY <1>0, <1>8 DEF PickNothing, Ret, ThreadExit, IdleIn, IdleOut, Goto, TaskTypes
  <2>5. \A v \in Threads :
          \/ pc'[v] = pc[v]
          \/ pc[v] \in {"swapout", "ret"} /\ pc'[v] \in {"ret", "settle"}
          \/ pc[v] \notin Busy /\ ft[v] = NoEntry /\ pc'[v] \notin Busy \cup {"hold", "sethold"}
    BY <2>3, <2>4 DEF Busy
  <2> QED
    BY <1>0, <2>1, <2>2, <2>5, QuietStep
<1> QED
  BY <1>1, <1>2, <1>3, <1>4, <1>5, <1>6, <1>7, <1>8 DEF RunStep

LEMMA BodyTasks ==
  ASSUME TypeInv, TasksInv, fault = "none", ~UseSwitch,
         NEW w \in Threads, Idle(w) \/ Tickle(w) \/ Body(w)
  PROVE  TasksInv' /\ KeepsPlaces /\ fault' = "none"
<1>0. TaskTypes
  BY TypesOfTasks
<1>a. pc[w] # "hold"
  BY DEF TasksInv, ThreadInv
<1>1. ASSUME NEW st \in Dead, Finish(w, st)
      PROVE  TasksInv' /\ KeepsPlaces /\ fault' = "none"
  <2>1. pc[w] = "run"
    BY <1>1, <1>a DEF Finish, At
  <2>2. prog[cur[w]] # None
    BY <1>0, <2>1 DEF TasksInv, StateInv, FiberInv, TaskTypes, Busy
  <2> QED
    BY <1>0, <1>1, <2>1, <2>2, RunningStep
       DEF Finish, At, Goto, queueVars, threadVars
<1>2. CASE YieldToReady(w)
  <2>1. pc[w] = "run" /\ fstate[cur[w]] = "EXEC"
    BY <1>2 DEF YieldToReady, At, TasksInv, StateInv
  <2>2. fault' = "none"
    BY <1>2, <2>1 DEF YieldToReady, YieldTo
  <2>3. TasksInv' /\ KeepsPlaces
    BY <1>0, <1>2, <2>1, RunningStep DEF YieldToReady, YieldTo, Goto, queueVars, threadVars
  <2> QED
    BY <2>2, <2>3
<1>3. ~YieldToHold(w) /\ \A thr : ~SwitchTo(w, thr)
  BY <1>a DEF YieldToHold, SwitchTo, At
<1>4. ASSUME NEW t \in Tasks, NEW kind \in Kinds, NEW thr \in Known(TaskPins), Spawn(w, t, kind, thr)
      PROVE  TasksInv' /\ KeepsPlaces /\ fault' = "none"
  <2>1. kind \in {"cb", "fiber"} /\ thr \in Threads \cup {AnyThread}
    BY ThreadsAssumption DEF Known
  <2> QED
    BY <1>0, <1>4, <2>1, SubmitStep DEF Spawn, threadVars
<1>5. CASE Idle(w) \/ Tickle(w) \/ SwapOut(w)
  <2>1. /\ fibers' = fibers /\ ft' = ft /\ cur' = cur /\ cbFiber' = cbFiber /\ fstate' = fstate
        /\ prog' = prog /\ status' = status /\ fault' = fault
    BY <1>5 DEF Idle, Tickle, SwapOut, queueVars, fiberVars, threadVars, taskVars
  <2>2. \/ pc' = pc
        \/ pc[w] = "idle" /\ pc' = [pc EXCEPT ![w] = "idleout"]
        \/ pc[w] = "swapout" /\ pc' = [pc EXCEPT ![w] = "ret"]
    BY <1>5 DEF Idle, Tickle, SwapOut, At, Goto
  <2>3. pc[w] = "idle" => ft[w] = NoEntry
    BY DEF TasksInv, ThreadInv, Busy
  <2>4. \A v \in Threads :
          \/ pc'[v] = pc[v]
          \/ pc[v] \in {"swapout", "ret"} /\ pc'[v] \in {"ret", "settle"}
          \/ pc[v] \notin Busy /\ ft[v] = NoEntry /\ pc'[v] \notin Busy \cup {"hold", "sethold"}
    BY <1>0, <2>2, <2>3 DEF Busy, TaskTypes
  <2> QED
    BY <1>0, <2>1, <2>4, QuietStep
<1> QED
  BY <1>1, <1>2, <1>3, <1>4, <1>5 DEF Body

LEMMA MainTasks ==
  ASSUME TypeInv, OffInv, TasksInv, fault = "none", Main
  PROVE  TasksInv' /\ KeepsPlaces /\ fault' = "none"
<1>0. TaskTypes
  BY TypesOfTasks
<1>1. ASSUME NEW t \in Tasks, NEW kind \in Kinds, NEW thr \in Known(UserPins),
             UserSchedule(t, kind, thr)
      PROVE  TasksInv' /\ KeepsPlaces /\ fault' = "none"
  <2>1. kind \in {"cb", "fiber"} /\ thr \in Threads \cup {AnyThread}
    BY ThreadsAssumption DEF Known
  <2> QED
    BY <1>0, <1>1, <2>1, SubmitStep DEF UserSchedule, threadVars
<1>2. CASE Start \/ StopStep
  <2>1. /\ fibers' = fibers /\ ft' = ft /\ cur' = cur /\ cbFiber' = cbFiber /\ fstate' = fstate
        /\ prog' = prog /\ status' = status /\ fault' = fault
    BY <1>2 DEF Start, StopStep, StopFlags, StopRoot, RootReturns, Join, queueVars, fiberVars,
                threadVars, taskVars
  <2>2. \A v \in Threads : pc'[v] = pc[v] \/ (pc[v] = "off" /\ pc'[v] = "pick")
    BY <1>0, <1>2 DEF Start, StopStep, StopFlags, StopRoot, RootReturns, Join, MainAt, Goto,
                      OffInv, TaskTypes
  <2>3. \A v \in Threads : pc[v] = "off" => ft[v] = NoEntry
    BY DEF TasksInv, ThreadInv, Busy
  <2>4. \A v \in Threads :
          \/ pc'[v] = pc[v]
          \/ pc[v] \in {"swapout", "ret"} /\ pc'[v] \in {"ret", "settle"}
          \/ pc[v] \notin Busy /\ ft[v] = NoEntry /\ pc'[v] \notin Busy \cup {"hold", "sethold"}
    BY <2>2, <2>3 DEF Busy
  <2> QED
    BY <1>0, <2>1, <2>4, QuietStep
<1> QED
  BY <1>1, <1>2 DEF Main

\* Every task that was handed over and has not ended has a place.
AllPlaced == \A t \in Tasks : Pending(t) => Placed(t)

SafeInv == TypeInv /\ OffInv /\ fault = "none" /\ TasksInv /\ AllPlaced

LEMMA SafeInit == Init => SafeInv
<1> SUFFICES ASSUME Init
             PROVE  SafeInv
  OBVIOUS
<1>1. TypeInv /\ OffInv
  BY TypeInit, CountInit DEF CountInv
<1>2. fibers = <<>> /\ Queue = {} /\ OneEntry
  BY DEF Init, Queue, OneEntry
<1>3. \A w \in Threads : /\ pc[w] = "off" /\ ft[w] = NoEntry
                         /\ cur[w] = None /\ cbFiber[w] = None
  BY DEF Init
<1>4. \A t \in Tasks : fstate[t] = "NONE" /\ prog[t] = None /\ status[t] = "new"
  BY DEF Init
<1>5. ThreadInv
  BY <1>3 DEF ThreadInv, Busy
<1>6. StateInv
  BY <1>2, <1>3 DEF StateInv
<1>7. UniqueInv
  BY <1>2, <1>3 DEF UniqueInv
<1>8. FiberInv /\ OneFiber /\ NewInv
  BY <1>4, ThreadsAssumption DEF FiberInv, OneFiber, NewInv, Dead
<1>9. AllPlaced
  BY <1>4 DEF AllPlaced, Pending
<1> QED
  BY <1>1, <1>5, <1>6, <1>7, <1>8, <1>9 DEF SafeInv, TasksInv, Init

LEMMA SafeStep ==
  ASSUME ~UseSwitch, SafeInv, [Next]_vars
  PROVE  SafeInv'
<1>1. CASE Next
  <2>1. TypeInv'
    BY TypeStep DEF SafeInv
  <2>2. OffInv'
    <3>1. ASSUME NEW w \in Threads, ThreadStep(w)
          PROVE  OffInv'
      BY <3>1, OffThread DEF SafeInv
    <3>2. CASE Main
      BY <3>2, ThreadsAssumption
         DEF Main, StopStep, UserSchedule, Start, StopFlags, StopRoot, RootReturns, Join,
             MainAt, Goto, SafeInv, OffInv, Threads, TypeInv, TypeOK, ctlVars
    <3> QED
      BY <1>1, <3>1, <3>2 DEF Next
  <2>3. TasksInv' /\ KeepsPlaces /\ fault' = "none"
    BY <1>1, RunTasks, BodyTasks, MainTasks DEF SafeInv, Next, ThreadStep
  <2>4. AllPlaced'
    BY <2>3 DEF SafeInv, AllPlaced, KeepsPlaces
  <2> QED
    BY <2>1, <2>2, <2>3, <2>4 DEF SafeInv
<1>2. CASE UNCHANGED vars
  <2>1. /\ fibers' = fibers /\ ft' = ft /\ cur' = cur /\ cbFiber' = cbFiber /\ fstate' = fstate
        /\ prog' = prog /\ status' = status /\ fault' = fault /\ pc' = pc /\ main' = main
        /\ isStopping' = isStopping
    BY <1>2 DEF vars, ctlVars, queueVars, countVars, fiberVars, threadVars, taskVars
  <2>2. TypeInv' /\ OffInv'
    BY <2>1, TypeStep DEF SafeInv, OffInv
  <2>3. TaskTypes
    BY TypesOfTasks DEF SafeInv
  <2>4. TasksInv' /\ KeepsPlaces
    BY <2>1, <2>3, QuietStep DEF SafeInv
  <2> QED
    BY <2>1, <2>2, <2>4 DEF SafeInv, AllPlaced, KeepsPlaces
<1> QED
  BY <1>1, <1>2

LEMMA SafeInvariant ==
  ASSUME ~UseSwitch
  PROVE  Spec => []SafeInv
<1>1. SafeInv /\ [Next]_vars => SafeInv'
  BY SafeStep
<1> QED
  BY <1>1, SafeInit, PTL DEF Spec

\* The thread that runs the loop, if there is one only.
LEMMA TheLoopThread ==
  ASSUME OneThread, TypeInv, AloneInv
  PROVE  \E w \in Threads : LoopThread(w) /\ SoloInv(w, {}, {})
BY OneLoopThread DEF TypeInv, TypeOK, AloneInv

\* No assertion of Fiber.cpp fails and no stack is entered while a thread is on
\* it, however many threads scan the queue and whenever a fiber yields: the fiber
\* that run() puts back has left its stack, the fiber it resumes is in no other
\* place.  A task that calls switchTo() is in the queue before it holds, and the
\* thread it names could resume it too early: excluded, unless there is one thread.
THEOREM StatesAreRight ==
  ASSUME ~UseSwitch \/ OneThread
  PROVE  Spec => []NoFault
<1>1. SafeInv => NoFault
  BY DEF SafeInv, NoFault
<1>2. CASE ~UseSwitch
  BY <1>1, <1>2, SafeInvariant, PTL
<1>3. CASE OneThread
  <2>1. TypeInv /\ AloneInv => NoFault
    BY <1>3, TheLoopThread DEF SoloInv, NoFault
  <2> QED
    BY <2>1, AloneInvariant, TypeInit, TypeStep, PTL DEF Spec
<1> QED
  BY <1>2, <1>3

\* ... and a task that was handed to schedule() and has not ended is in __fibers,
\* or taken from it by a thread, or executed by the fiber a thread has swapped in.
THEOREM TasksAreKept ==
  ASSUME ~UseSwitch \/ OneThread
  PROVE  Spec => []NoTaskLost
<1>1. SafeInv => NoTaskLost
  <2> SUFFICES ASSUME SafeInv, NEW t \in Tasks, Pending(t)
               PROVE  InQueue(t) \/ InThread(t)
    BY DEF NoTaskLost, Pending
  <2>1. Placed(t)
    BY DEF SafeInv, AllPlaced
  <2>2. \A e \in Queue : \E i \in 1 .. Len(fibers) : e = fibers[i]
    BY DEF Queue
  <2>3. CASE Located(t, "cb")
    BY <2>2, <2>3 DEF Located, InQueue, InThread
  <2>4. ASSUME NEW f \in Tasks, prog[f] = t, Located(f, "fiber")
        PROVE  InQueue(t) \/ InThread(t)
    <3>1. CASE \E e \in Queue : e.kind = "fiber" /\ e.item = f
      BY <2>2, <2>4, <3>1 DEF InQueue
    <3>2. CASE \E w \in Threads : ft[w].kind = "fiber" /\ ft[w].item = f
      BY <2>4, <3>2 DEF InThread
    <3> QED
      BY <2>4, <3>1, <3>2 DEF Located
  <2>5. ASSUME NEW f \in Tasks, prog[f] = t, NEW w \in Threads, cur[w] = f
        PROVE  InThread(t)
    BY <2>5, ThreadsAssumption DEF InThread
  <2> QED
    BY <2>1, <2>3, <2>4, <2>5 DEF Placed
<1>2. ASSUME NEW w \in Threads, SoloInv(w, {}, {})
      PROVE  NoTaskLost
  <2> SUFFICES ASSUME NEW t \in Tasks, status[t] \in {"queued", "begun"}
               PROVE  InQueue(t) \/ InThread(t)
    BY DEF NoTaskLost
  <2>1. (\E e \in Queue : For(e, t)) \/ For(ft[w], t) \/ (cur[w] # None /\ prog[cur[w]] = t)
    BY <1>2 DEF SoloInv, SoloKeeps, SoloHas
  <2>2. ASSUME NEW e \in Queue, For(e, t)
        PROVE  InQueue(t)
    BY <2>2 DEF Queue, For, InQueue
  <2> QED
    BY <2>1, <2>2 DEF For, InThread
<1>3. CASE ~UseSwitch
  BY <1>1, <1>3, SafeInvariant, PTL
<1>4. CASE OneThread
  <2>1. TypeInv /\ AloneInv => NoTaskLost
    BY <1>2, <1>4, TheLoopThread
  <2> QED
    BY <2>1, AloneInvariant, TypeInit, TypeStep, PTL DEF Spec
<1> QED
  BY <1>3, <1>4

-----------------------------------------------------------------------------
(* stop().                                                                 *)

Started == {w \in Threads : pc[w] # "off"}

\* A thread that leaves run() without another look at the queue.
Gone(w) == idleTerm[w] /\ (pc[w] = "exit" \/ (pc[w] = "dispatch" /\ ft[w] = NoEntry))

\* After the first thread has seen Stopping, only its peers add to the queue.
TermInv == (\E w \in Threads : idleTerm[w]) =>
  isAutoStop /\ \A e \in Queue : e.thr = AnyThread

PhaseInv ==
  /\ isAutoStop => main # "user"
  /\ main # "user" \/ ~isStopping => \A w \in shape.workers : pc[w] # "off"
  /\ \A w \in Threads : pc[w] # "off" => w \in shape.workers \cup {Caller}
  /\ main = "join" => pc[Caller] \in {"off", "exit"}
  /\ main = "done" => \A w \in Threads : pc[w] \in {"off", "exit"}
  /\ \A w \in Threads : pc[w] = "exit" => idleTerm[w]

\* The last thread to leave has seen an empty queue; if no thread ran, stop() has.
EmptyInv ==
  /\ Started # {} /\ (\A w \in Started : Gone(w)) => fibers = <<>>
  /\ Started = {} /\ main \in {"join", "done"} => fibers = <<>>

StopInv == TermInv /\ PhaseInv /\ EmptyInv

\* What a thread's step can do to the queue and to its own way out.
LEMMA ThreadEffect ==
  ASSUME SafeInv, ~UseSwitch, TaskPins \subseteq {AnyThread},
         NEW w \in Threads, ThreadStep(w)
  PROVE  /\ main' = main /\ isAutoStop' = isAutoStop /\ shape' = shape /\ isStopping' = isStopping
         /\ \A v \in Threads \ {w} : pc'[v] = pc[v] /\ ft'[v] = ft[v] /\ idleTerm'[v] = idleTerm[v]
         /\ pc[w] \in {"off", "exit"} => pc'[w] = pc[w]
         /\ pc'[w] = "off" => pc[w] = "off"
         /\ \/ fibers' = fibers
            \/ pc[w] # "off" /\ pc'[w] \notin {"off", "exit"} /\ (pc'[w] = "dispatch" => ft'[w] # NoEntry)
         /\ \A e \in Queue' : e \in Queue \/ e.thr = AnyThread
         /\ idleTerm'[w] /\ ~idleTerm[w] => isAutoStop /\ fibers' = <<>> /\ pc'[w] = "idleout"
         /\ idleTerm[w] => idleTerm'[w] \/ pc'[w] = "idleout"
         /\ pc'[w] = "exit" => pc[w] = "exit" \/ (idleTerm[w] /\ pc[w] = "dispatch" /\ ft[w] = NoEntry)
         /\ pc'[w] = "exit" => idleTerm'[w] = idleTerm[w]
         /\ pc'[w] = "dispatch" /\ ft'[w] = NoEntry =>
              \/ pc[w] = "dispatch" /\ ft[w] = NoEntry
              \/ pc[w] = "pick" /\ \A i \in 1 .. Len(fibers) : ~Pickable(w, fibers[i])
<1>0. TaskTypes /\ idleTerm \in [Threads -> BOOLEAN] /\ fibers \in Seq(Entry)
  BY TypesOfTasks DEF SafeInv, TypeInv, TypeOK
<1>1. CASE Pick(w)
  <2>1. PICK i \in 1 .. Len(fibers) :
          fibers' = RemoveAt(fibers, i) /\ ft' = [ft EXCEPT ![w] = fibers[i]]
    BY <1>1 DEF Pick
  <2>2. Queue' \subseteq Queue /\ fibers[i] \in Queue
    BY <1>0, <2>1, QueueRemove DEF SafeInv, TasksInv, UniqueInv
  <2>3. fibers[i] \in Entry /\ fibers[i] # NoEntry
    BY <2>2, <1>0, QueueFacts, ThreadsAssumption DEF NoEntry
  <2>4. ft'[w] # NoEntry /\ \A v \in Threads \ {w} : ft'[v] = ft[v]
    BY <1>0, <2>1, <2>3 DEF TaskTypes
  <2> QED
    BY <1>0, <1>1, <2>2, <2>4 DEF Pick, At, Goto, ctlVars, TaskTypes
<1>2. CASE SettleReady(w)
  <2> DEFINE e == [kind |-> "fiber", item |-> cur[w], thr |-> AnyThread]
  <2>1. e \in Entry /\ e.thr = AnyThread
    BY <1>0, <1>2 DEF SettleReady, At, TaskTypes, Busy, Entry
  <2>2. fibers' = Append(fibers, e)
    BY <1>2 DEF SettleReady, Enqueue
  <2> HIDE DEF e
  <2>3. \A x \in Queue' : x \in Queue \/ x = e
    BY <1>0, <2>1, <2>2, AppendProperties DEF Queue
  <2> QED
    BY <1>0, <1>2, <2>1, <2>3 DEF SettleReady, At, Goto, ctlVars, TaskTypes
<1>3. ASSUME NEW t \in Tasks, NEW kind \in Kinds, NEW thr \in Known(TaskPins), Spawn(w, t, kind, thr)
      PROVE  /\ main' = main /\ isAutoStop' = isAutoStop /\ shape' = shape /\ isStopping' = isStopping
             /\ pc' = pc /\ ft' = ft /\ idleTerm' = idleTerm /\ pc[w] = "run"
             /\ \A e \in Queue' : e \in Queue \/ e.thr = AnyThread
  <2> DEFINE e == [kind |-> kind, item |-> t, thr |-> thr]
  <2>1. thr = AnyThread
    BY DEF Known
  <2>2. e \in Entry /\ e.thr = AnyThread
    BY <2>1, ThreadsAssumption DEF Entry
  <2>3. fibers' = Append(fibers, e)
    BY <1>3 DEF Spawn, Submit, Enqueue
  <2> HIDE DEF e
  <2>4. \A x \in Queue' : x \in Queue \/ x = e
    BY <1>0, <2>2, <2>3, AppendProperties DEF Queue
  <2> QED
    BY <1>3, <2>2, <2>4 DEF Spawn, At, ctlVars, threadVars
<1>4. CASE PickNothing(w)
  <2>1. ft'[w] = NoEntry /\ \A v \in Threads \ {w} : ft'[v] = ft[v]
    BY <1>0, <1>4 DEF PickNothing, TaskTypes
  <2> QED
    BY <1>0, <1>4, <2>1 DEF PickNothing, At, Goto, ctlVars, TaskTypes, Queue
<1>5. CASE Idle(w)
  <2>1. idleTerm'[w] = Stopping /\ \A v \in Threads \ {w} : idleTerm'[v] = idleTerm[v]
    BY <1>0, <1>5 DEF Idle
  <2> QED
    BY <1>0, <1>5, <2>1 DEF Idle, At, Goto, ctlVars, queueVars, TaskTypes, Queue, Stopping
<1>6. ASSUME \/ ResumeFiber(w) \/ SkipDead(w) \/ Ret(w) \/ SettleDead(w) \/ SettleOther(w)
             \/ SetHold(w) \/ IdleIn(w) \/ IdleOut(w) \/ YieldToReady(w) \/ YieldToHold(w)
             \/ SwapOut(w) \/ \E st \in Dead : Finish(w, st)
      PROVE  /\ main' = main /\ isAutoStop' = isAutoStop /\ shape' = shape /\ isStopping' = isStopping
             /\ \A v \in Threads \ {w} : pc'[v] = pc[v] /\ ft'[v] = ft[v]
             /\ pc[w] \notin {"off", "exit"} /\ pc'[w] \notin {"off", "exit", "dispatch"}
             /\ fibers' = fibers /\ idleTerm' = idleTerm
  BY <1>0, <1>6
     DEF ResumeFiber, SwapIn, SkipDead, Ret, SettleDead, SettleOther, SetHold, IdleIn, IdleOut,
         YieldToReady, YieldToHold, YieldTo, SwapOut, Finish, At, Goto, ctlVars, queueVars,
         threadVars, TaskTypes
<1>7. CASE RunCallback(w)
  <2>1. CanReset(w)
    <3>1. pc[w] = "dispatch"
      BY <1>7 DEF RunCallback, At
    <3>2. cur[w] = None
      BY <3>1 DEF SafeInv, TasksInv, ThreadInv, Busy
    <3> QED
      BY <3>2 DEF SafeInv, TasksInv, StateInv, CanReset
  <2>2. /\ main' = main /\ isAutoStop' = isAutoStop /\ shape' = shape /\ isStopping' = isStopping
        /\ \A v \in Threads \ {w} : pc'[v] = pc[v] /\ ft'[v] = ft[v]
        /\ pc[w] = "dispatch" /\ pc'[w] = "run" /\ fibers' = fibers /\ idleTerm' = idleTerm
    BY <1>0, <1>7, <2>1 DEF RunCallback, SwapIn, At, Goto, ctlVars, queueVars, TaskTypes
  <2> QED
    BY <2>2 DEF Queue
<1>8. CASE ThreadExit(w)
  BY <1>0, <1>8 DEF ThreadExit, At, Goto, ctlVars, queueVars, threadVars, TaskTypes, Queue
<1>9. CASE Tickle(w)
  BY <1>0, <1>9 DEF Tickle, ctlVars, threadVars, TaskTypes, Queue
<1>10. ~\E thr : SwitchTo(w, thr)
  BY DEF SwitchTo
<1>11. \/ Pick(w) \/ SettleReady(w) \/ PickNothing(w) \/ Idle(w) \/ RunCallback(w) \/ ThreadExit(w)
       \/ Tickle(w)
       \/ \E t \in Tasks, kind \in Kinds, thr \in Known(TaskPins) : Spawn(w, t, kind, thr)
       \/ ResumeFiber(w) \/ SkipDead(w) \/ Ret(w) \/ SettleDead(w) \/ SettleOther(w)
       \/ SetHold(w) \/ IdleIn(w) \/ IdleOut(w) \/ YieldToReady(w) \/ YieldToHold(w)
       \/ SwapOut(w) \/ \E st \in Dead : Finish(w, st)
  BY <1>10 DEF ThreadStep, RunStep, Body
<1>12. CASE \E t \in Tasks, kind \in Kinds, thr \in Known(TaskPins) : Spawn(w, t, kind, thr)
  BY <1>3, <1>12
<1>13. CASE \/ ResumeFiber(w) \/ SkipDead(w) \/ Ret(w) \/ SettleDead(w) \/ SettleOther(w)
            \/ SetHold(w) \/ IdleIn(w) \/ IdleOut(w) \/ YieldToReady(w) \/ YieldToHold(w)
            \/ SwapOut(w) \/ \E st \in Dead : Finish(w, st)
  BY <1>6, <1>13 DEF Queue
<1> QED
  BY <1>1, <1>2, <1>4, <1>5, <1>7, <1>8, <1>9, <1>11, <1>12, <1>13

LEMMA StopThread ==
  ASSUME SafeInv, StopInv, ~UseSwitch, TaskPins \subseteq {AnyThread},
         NEW w \in Threads, ThreadStep(w)
  PROVE  StopInv'
<1>1. /\ main' = main /\ isAutoStop' = isAutoStop /\ shape' = shape /\ isStopping' = isStopping
      /\ \A v \in Threads \ {w} : pc'[v] = pc[v] /\ ft'[v] = ft[v] /\ idleTerm'[v] = idleTerm[v]
      /\ pc[w] \in {"off", "exit"} => pc'[w] = pc[w]
      /\ pc'[w] = "off" => pc[w] = "off"
  BY ThreadEffect
<1>2. /\ idleTerm'[w] /\ ~idleTerm[w] => isAutoStop /\ fibers' = <<>> /\ pc'[w] = "idleout"
      /\ \A e \in Queue' : e \in Queue \/ e.thr = AnyThread
  BY ThreadEffect
<1>3. /\ pc'[w] = "exit" => pc[w] = "exit" \/ (idleTerm[w] /\ pc[w] = "dispatch" /\ ft[w] = NoEntry)
      /\ pc'[w] = "exit" => idleTerm'[w] = idleTerm[w]
  BY ThreadEffect
<1>4. TermInv'
  <2>1. fibers' = <<>> => Queue' = {}
    BY DEF Queue
  <2> QED
    BY <1>1, <1>2, <2>1 DEF StopInv, TermInv
<1>5. PhaseInv'
  <2>1. Caller \in Threads /\ shape.workers \subseteq Threads
    BY ThreadsAssumption DEF Threads, SafeInv, TypeInv, TypeOK
  <2> QED
    BY <1>1, <1>3, <2>1 DEF StopInv, PhaseInv
<1>6. Started' = Started
  BY <1>1 DEF Started
<1>7. ASSUME Started # {}, \A v \in Started : Gone(v)'
      PROVE  fibers' = <<>>
  <2>1. CASE w \notin Started
    <3>1. fibers' = fibers
      <4>1. \/ fibers' = fibers
            \/ pc[w] # "off" /\ pc'[w] \notin {"off", "exit"} /\ (pc'[w] = "dispatch" => ft'[w] # NoEntry)
        BY ThreadEffect
      <4> QED
        BY <2>1, <4>1 DEF Started
    <3>2. \A v \in Started : Gone(v)
      BY <1>1, <1>7, <2>1 DEF Gone, Started
    <3> QED
      BY <1>7, <3>1, <3>2 DEF StopInv, EmptyInv
  <2>2. CASE w \in Started
    <3>1. idleTerm'[w] /\ (pc'[w] = "exit" \/ (pc'[w] = "dispatch" /\ ft'[w] = NoEntry))
      BY <1>7, <2>2 DEF Gone
    <3>2. fibers' = fibers /\ idleTerm[w]
      <4>1. \/ fibers' = fibers
            \/ pc[w] # "off" /\ pc'[w] \notin {"off", "exit"} /\ (pc'[w] = "dispatch" => ft'[w] # NoEntry)
        BY ThreadEffect
      <4> QED
        BY <1>2, <3>1, <4>1
    <3>3. \A v \in Started \ {w} : Gone(v)
      BY <1>1, <1>7 DEF Gone, Started
    <3>4. \/ Gone(w)
          \/ \A i \in 1 .. Len(fibers) : ~Pickable(w, fibers[i])
      <4>1. CASE pc'[w] = "exit"
        BY <1>3, <3>2, <4>1 DEF Gone
      <4>2. CASE pc'[w] = "dispatch" /\ ft'[w] = NoEntry
        <5>1. \/ pc[w] = "dispatch" /\ ft[w] = NoEntry
              \/ pc[w] = "pick" /\ \A i \in 1 .. Len(fibers) : ~Pickable(w, fibers[i])
          BY <4>2, ThreadEffect
        <5> QED
          BY <3>2, <5>1 DEF Gone
      <4> QED
        BY <3>1, <4>1, <4>2
    <3>5. CASE Gone(w)
      BY <1>7, <3>2, <3>3, <3>5 DEF StopInv, EmptyInv
    <3>6. CASE \A i \in 1 .. Len(fibers) : ~Pickable(w, fibers[i])
      <4>1. \A i \in 1 .. Len(fibers) : fibers[i] \in Queue
        BY DEF Queue
      <4>2. \A e \in Queue : e.thr = AnyThread
        BY <3>2 DEF StopInv, TermInv
      <4>3. \A e \in Queue : Pickable(w, e)
        BY <4>2 DEF Pickable, Foreign, SafeInv, TasksInv, StateInv, Executable, Waits
      <4>4. fibers \in Seq(Entry) /\ 1 .. Len(fibers) = {}
        BY <3>6, <4>1, <4>3 DEF SafeInv, TypeInv, TypeOK
      <4>5. Len(fibers) = 0
        <5> DEFINE n == Len(fibers)
        <5>1. n \in Nat /\ 1 .. n = {}
          BY <4>4
        <5> HIDE DEF n
        <5>2. n \notin Nat \/ n = 0 \/ 1 \in 1 .. n
          OBVIOUS
        <5>3. n = 0
          BY <5>1, <5>2
        <5> QED
          BY <5>3 DEF n
      <4> QED
        BY <3>2, <4>4, <4>5, EmptySeq
    <3> QED
      BY <3>4, <3>5, <3>6
  <2> QED
    BY <2>1, <2>2
<1>8. ASSUME Started = {}, main \in {"join", "done"}
      PROVE  fibers' = <<>>
  <2>1. pc[w] = "off"
    BY <1>8 DEF Started
  <2>2. fibers' = fibers
    BY <2>1, ThreadEffect
  <2> QED
    BY <1>8, <2>2 DEF StopInv, EmptyInv
<1>9. EmptyInv'
  BY <1>1, <1>6, <1>7, <1>8 DEF EmptyInv
<1> QED
  BY <1>4, <1>5, <1>9 DEF StopInv

LEMMA StopMain ==
  ASSUME SafeInv, StopInv, Main
  PROVE  StopInv'
<1>0. /\ TypeOK /\ Caller \in Threads /\ Caller \notin shape.workers
      /\ shape.workers \subseteq Threads /\ (shape.caller \/ shape.workers # {})
  BY ThreadsAssumption DEF SafeInv, TypeInv, TypeOK, Threads
<1>1. ft' = ft /\ idleTerm' = idleTerm /\ shape' = shape
  BY DEF Main, StopStep, UserSchedule, Start, StopFlags, StopRoot, RootReturns, Join, threadVars,
         ctlVars
<1>2. ASSUME NEW t \in Tasks, NEW kind \in Kinds, NEW thr \in Known(UserPins),
             UserSchedule(t, kind, thr)
      PROVE  StopInv'
  <2>1. main = "user" /\ main' = main /\ isAutoStop' = isAutoStop /\ isStopping' = isStopping
        /\ pc' = pc
    BY <1>2 DEF UserSchedule, MainAt, ctlVars
  <2>2. \A w \in Threads : ~idleTerm[w]
    BY <2>1 DEF StopInv, TermInv, PhaseInv
  <2>3. TermInv'
    BY <1>1, <2>2 DEF TermInv
  <2>4. PhaseInv'
    BY <1>1, <2>1 DEF StopInv, PhaseInv
  <2>5. EmptyInv'
    BY <1>1, <2>1, <2>2 DEF EmptyInv, Started, Gone
  <2> QED
    BY <2>3, <2>4, <2>5 DEF StopInv
<1>3. CASE Start
  <2>1. /\ main = "user" /\ main' = main /\ isAutoStop' = isAutoStop /\ fibers' = fibers
        /\ \A w \in Threads : pc'[w] = IF w \in shape.workers THEN "pick" ELSE pc[w]
    BY <1>3 DEF Start, MainAt, queueVars
  <2>2. \A w \in Threads : ~idleTerm[w]
    BY <2>1 DEF StopInv, TermInv, PhaseInv
  <2>3. TermInv'
    BY <1>1, <2>2 DEF TermInv
  <2>4. PhaseInv'
    BY <1>0, <1>1, <2>1 DEF StopInv, PhaseInv
  <2>5. EmptyInv'
    BY <1>1, <2>1, <2>2 DEF EmptyInv, Started, Gone
  <2> QED
    BY <2>3, <2>4, <2>5 DEF StopInv
<1>4. CASE StopFlags
  <2>1. /\ main = "user" /\ isAutoStop' /\ ~isStopping /\ fibers' = fibers /\ pc' = pc
        /\ main' \in {"root", "done"}
        /\ main' = "done" => shape.workers = {} /\ fibers = <<>>
    BY <1>4 DEF StopFlags, MainAt
  <2>2. \A w \in Threads : ~idleTerm[w]
    BY <2>1 DEF StopInv, TermInv, PhaseInv
  <2>3. TermInv'
    BY <1>1, <2>2 DEF TermInv
  <2>4. PhaseInv'
    <3>1. pc[Caller] = "off"
      BY <2>1 DEF SafeInv, OffInv
    <3>2. main' = "done" => \A w \in Threads : pc[w] = "off"
      BY <2>1, <3>1 DEF StopInv, PhaseInv
    <3> QED
      BY <1>1, <2>1, <3>2 DEF StopInv, PhaseInv
  <2>5. EmptyInv'
    BY <1>1, <2>1, <2>2 DEF EmptyInv, Started, Gone
  <2> QED
    BY <2>3, <2>4, <2>5 DEF StopInv
<1>5. CASE StopRoot
  <2>1. /\ main = "root" /\ isAutoStop' = isAutoStop /\ isStopping' = isStopping /\ fibers' = fibers
        /\ \/ /\ shape.caller /\ ~Stopping /\ main' = "inroot"
              /\ pc' = [pc EXCEPT ![Caller] = "pick"]
           \/ ~(shape.caller /\ ~Stopping) /\ main' = "join" /\ pc' = pc
    BY <1>5 DEF StopRoot, MainAt, Goto, queueVars
  <2>2. pc[Caller] = "off"
    BY <2>1 DEF SafeInv, OffInv
  <2>3. TermInv'
    BY <1>1, <2>1 DEF StopInv, TermInv, Queue
  <2>4. PhaseInv'
    BY <1>0, <1>1, <2>1, <2>2 DEF StopInv, PhaseInv, TypeOK
  <2>5. EmptyInv'
    <3>1. CASE main' = "inroot"
      <4>1. pc'[Caller] = "pick"
        BY <1>0, <2>1, <3>1 DEF TypeOK
      <4> QED
        BY <1>0, <3>1, <4>1 DEF EmptyInv, Started, Gone
    <3>2. CASE main' = "join"
      <4>1. pc' = pc /\ Started' = Started
        BY <2>1, <3>2 DEF Started
      <4>2. (Started # {} /\ \A v \in Started : Gone(v)) => fibers' = <<>>
        BY <2>1 DEF StopInv, EmptyInv
      <4>3. \A v \in Threads : Gone(v)' <=> Gone(v)
        BY <1>1, <4>1 DEF Gone
      <4>4. Started = {} => fibers' = <<>>
        <5>1. Started = {} => shape.workers = {}
          BY <1>0, <2>1 DEF Started, StopInv, PhaseInv
        <5>2. shape.workers = {} => Stopping
          BY <1>0, <2>1, <3>2
        <5> QED
          BY <2>1, <5>1, <5>2 DEF Stopping
      <4> QED
        BY <4>1, <4>2, <4>3, <4>4 DEF EmptyInv, Started
    <3> QED
      BY <2>1, <3>1, <3>2
  <2> QED
    BY <2>3, <2>4, <2>5 DEF StopInv
<1>6. CASE RootReturns \/ Join
  <2>1. /\ isAutoStop' = isAutoStop /\ isStopping' = isStopping /\ fibers' = fibers /\ pc' = pc
        /\ \/ main = "inroot" /\ pc[Caller] = "exit" /\ main' = "join"
           \/ main = "join" /\ main' = "done" /\ \A w \in shape.workers : pc[w] = "exit"
    BY <1>6 DEF RootReturns, Join, MainAt, queueVars
  <2>2. TermInv'
    BY <1>1, <2>1 DEF StopInv, TermInv, Queue
  <2>3. PhaseInv'
    BY <1>0, <1>1, <2>1 DEF StopInv, PhaseInv
  <2>4. Started' = Started /\ \A v \in Threads : Gone(v)' <=> Gone(v)
    BY <1>1, <2>1 DEF Started, Gone
  <2>5. main = "inroot" => Started # {}
    BY <1>0, <2>1 DEF Started
  <2>6. EmptyInv'
    BY <2>1, <2>4, <2>5 DEF StopInv, EmptyInv, Started
  <2> QED
    BY <2>2, <2>3, <2>6 DEF StopInv
<1> QED
  BY <1>2, <1>3, <1>4, <1>5, <1>6 DEF Main, StopStep

LEMMA StopInit == Init => StopInv
<1> SUFFICES ASSUME Init
             PROVE  StopInv
  OBVIOUS
<1>1. /\ \A w \in Threads : pc[w] = "off" /\ ~idleTerm[w]
      /\ main = "user" /\ ~isAutoStop /\ isStopping
  BY DEF Init
<1>2. shape.workers \subseteq Threads
  BY ThreadsAssumption DEF Init, Threads
<1> QED
  BY <1>1, <1>2 DEF StopInv, TermInv, PhaseInv, EmptyInv, Started

LEMMA StopStepInv ==
  ASSUME SafeInv, StopInv, ~UseSwitch, TaskPins \subseteq {AnyThread}, [Next]_vars
  PROVE  StopInv'
<1>1. CASE UNCHANGED vars
  <2>1. /\ main' = main /\ isAutoStop' = isAutoStop /\ shape' = shape /\ isStopping' = isStopping
        /\ pc' = pc /\ ft' = ft /\ idleTerm' = idleTerm /\ fibers' = fibers
    BY <1>1 DEF vars, ctlVars, queueVars, threadVars
  <2>2. Started' = Started /\ \A v : Gone(v)' <=> Gone(v)
    BY <2>1 DEF Started, Gone
  <2> QED
    BY <2>1, <2>2 DEF StopInv, TermInv, PhaseInv, EmptyInv, Queue
<1> QED
  BY <1>1, StopThread, StopMain DEF Next

\* What is left when stop() has returned.
LEMMA DoneFacts ==
  ASSUME SafeInv, CountInv, StopInv, main = "done"
  PROVE  /\ fibers = <<>> /\ active = 0 /\ idle = 0
         /\ \A t \in Tasks : status[t] \in {"new", "done"}
<1>1. \A w \in Threads : pc[w] \in {"off", "exit"}
  BY DEF StopInv, PhaseInv
<1>2. \A w \in Threads : pc[w] = "exit" => idleTerm[w]
  BY DEF StopInv, PhaseInv
<1>3. fibers = <<>>
  <2>1. \A w \in Started : Gone(w)
    BY <1>1, <1>2 DEF Started, Gone
  <2> QED
    BY <2>1 DEF StopInv, EmptyInv
<1>4. Flying = {} /\ Idlers = {}
  BY <1>1 DEF Flying, Idlers, InFlight, InIdle
<1>5. active = 0 /\ idle = 0
  BY <1>4, FS_EmptySet DEF CountInv
<1>6. Queue = {}
  BY <1>3 DEF Queue
<1>7. \A w \in Threads : cur[w] = None /\ ft[w] = NoEntry
  BY <1>1 DEF SafeInv, TasksInv, ThreadInv, Busy
<1>8. ASSUME NEW t \in Tasks
      PROVE  ~Placed(t)
  <2>1. NoEntry.kind = "none"
    BY DEF NoEntry
  <2> QED
    BY <1>6, <1>7, <2>1, ThreadsAssumption DEF Placed, Located
<1>9. \A t \in Tasks : ~Pending(t)
  BY <1>8 DEF SafeInv, AllPlaced
<1> QED
  BY <1>3, <1>5, <1>9 DEF Pending, SafeInv, TypeInv, TypeOK

LEMMA StopInvariant ==
  ASSUME ~UseSwitch, TaskPins \subseteq {AnyThread}
  PROVE  Spec => [](SafeInv /\ StopInv)
<1>1. SafeInv /\ StopInv /\ [Next]_vars => StopInv'
  BY StopStepInv
<1> QED
  BY <1>1, StopInit, SafeInvariant, PTL DEF Spec

\* One thread runs the loop: it leaves when nothing is queued, after the user has
\* called stop(), and stop() waits for it.
AloneStop == \A w \in Threads : LoopThread(w) =>
  /\ idleTerm[w] => /\ pc[w] \in {"idleout", "pick", "dispatch", "exit"}
                    /\ ft[w] = NoEntry /\ fibers = <<>> /\ main # "user"
  /\ pc[w] = "exit" => idleTerm[w]
  /\ isAutoStop => main # "user"
  /\ w # Caller => /\ main # "user" \/ ~isStopping => pc[w] # "off"
                   /\ main = "done" => pc[w] = "exit"
  /\ w = Caller /\ main \in {"join", "done"} => fibers = <<>> /\ pc[w] \in {"off", "exit"}

LEMMA AloneStopThread ==
  ASSUME TypeInv, AloneStop, NEW w \in Threads, LoopThread(w), SoloInv(w, {}, {}), ThreadStep(w)
  PROVE  AloneStop'
<1>0. /\ fibers \in Seq(Entry) /\ ft \in [Threads -> Entry \cup {NoEntry}] /\ pc \in [Threads -> PCs]
      /\ idleTerm \in [Threads -> BOOLEAN]
  BY DEF TypeInv, TypeOK
<1>1. UNCHANGED ctlVars
  BY DEF ThreadStep, RunStep, Pick, PickNothing, ResumeFiber, SkipDead, RunCallback, Ret, SettleReady,
     SettleDead, SettleOther, SetHold, ThreadExit, IdleIn, IdleOut, Idle, Tickle, Body, Finish, YieldToReady,
     YieldToHold, YieldTo, SwapOut, SwitchTo, Spawn
<1>2. \A u \in Threads : LoopThread(u)' <=> u = w
  BY <1>1 DEF ctlVars, LoopThread
<1>3. pc[w] # "off" \/ (fibers' = fibers /\ pc' = pc /\ ft' = ft /\ idleTerm' = idleTerm)
  BY DEF ThreadStep, RunStep, Pick, PickNothing, ResumeFiber, SkipDead, RunCallback, Ret, SettleReady,
     SettleDead, SettleOther, SetHold, ThreadExit, IdleIn, IdleOut, Idle, Tickle, Body, Finish, YieldToReady,
     YieldToHold, SwapOut, SwitchTo, Spawn, At, threadVars
<1>4. pc[w] # "exit" \/ (fibers' = fibers /\ pc' = pc /\ ft' = ft /\ idleTerm' = idleTerm)
  BY DEF ThreadStep, RunStep, Pick, PickNothing, ResumeFiber, SkipDead, RunCallback, Ret, SettleReady,
     SettleDead, SettleOther, SetHold, ThreadExit, IdleIn, IdleOut, Idle, Tickle, Body, Finish, YieldToReady,
     YieldToHold, SwapOut, SwitchTo, Spawn, At, threadVars
<1>5. pc'[w] # "off" \/ pc[w] = "off"
  BY <1>0 DEF ThreadStep, RunStep, Pick, PickNothing, ResumeFiber, SkipDead, RunCallback, Ret, SettleReady,
     SettleDead, SettleOther, SetHold, ThreadExit, IdleIn, IdleOut, Idle, Tickle, Body, Finish, YieldToReady,
     YieldToHold, YieldTo, SwapOut, SwitchTo, Spawn, Goto, SwapIn
<1>6. pc'[w] = "exit" => pc[w] = "exit" \/ (ThreadExit(w) /\ idleTerm' = idleTerm)
  BY <1>0 DEF ThreadStep, RunStep, Pick, PickNothing, ResumeFiber, SkipDead, RunCallback, Ret, SettleReady,
     SettleDead, SettleOther, SetHold, ThreadExit, IdleIn, IdleOut, Idle, Tickle, Body, Finish, YieldToReady,
     YieldToHold, YieldTo, SwapOut, SwitchTo, Spawn, Goto, SwapIn, threadVars
<1>7. ASSUME idleTerm'[w]
      PROVE  /\ pc'[w] \in {"idleout", "pick", "dispatch", "exit"}
             /\ ft'[w] = NoEntry /\ fibers' = <<>> /\ main # "user"
  <2>1. CASE Idle(w)
    <3>1. Stopping /\ pc'[w] = "idleout" /\ fibers' = fibers /\ ft' = ft /\ pc[w] = "idle"
      BY <1>0, <1>7, <2>1 DEF Idle, At, Goto, queueVars
    <3>2. ft[w] = NoEntry
      BY <3>1 DEF SoloInv, SoloThread, PCs, HasFiber
    <3> QED
      BY <3>1, <3>2 DEF Stopping, AloneStop
  <2>2. CASE ~Idle(w)
    <3>1. idleTerm' = idleTerm
      BY <2>2 DEF ThreadStep, RunStep, Pick, PickNothing, ResumeFiber, SkipDead, RunCallback, Ret, SettleReady,
         SettleDead, SettleOther, SetHold, ThreadExit, IdleIn, IdleOut, Tickle, Body, Finish, YieldToReady,
         YieldToHold, YieldTo, SwapOut, SwitchTo, Spawn, threadVars
    <3>2. /\ pc[w] \in {"idleout", "pick", "dispatch", "exit"}
          /\ ft[w] = NoEntry /\ fibers = <<>> /\ main # "user"
      BY <1>7, <3>1 DEF AloneStop
    <3>3. PickNothing(w) \/ ThreadExit(w) \/ IdleIn(w) \/ IdleOut(w) \/ Tickle(w)
      <4>1. Len(fibers) = 0 /\ NoEntry.kind = "none"
        BY <3>2 DEF NoEntry
      <4>2. ~Pick(w)
        BY <4>1 DEF Pick
      <4> QED
        BY <2>2, <3>2, <4>1, <4>2 DEF ThreadStep, RunStep, ResumeFiber, SkipDead, RunCallback, Ret, SettleReady,
           SettleDead, SettleOther, SetHold, Body, Finish, YieldToReady, YieldToHold, SwapOut, SwitchTo,
           Spawn, At
    <3>4. ~IdleIn(w)
      BY <1>7, <3>1 DEF IdleIn
    <3> QED
      BY <1>0, <3>2, <3>3, <3>4 DEF PickNothing, ThreadExit, IdleOut, Tickle, Goto, queueVars, threadVars
  <2> QED
    BY <2>1, <2>2
<1>8. pc'[w] = "exit" => idleTerm'[w]
  BY <1>4, <1>6 DEF ThreadExit, AloneStop
<1> QED
  BY <1>1, <1>2, <1>3, <1>4, <1>5, <1>7, <1>8 DEF AloneStop, ctlVars

LEMMA AloneStopMain ==
  ASSUME TypeInv, OffInv, AloneStop, NEW w \in Threads, LoopThread(w), SoloInv(w, {}, {}), Main
  PROVE  AloneStop'
<1>0. pc \in [Threads -> PCs] /\ Caller \in Threads /\ shape.workers \subseteq Workers
  BY ThreadsAssumption DEF TypeInv, TypeOK, Threads
<1>1. shape' = shape
  BY DEF Main, StopStep, UserSchedule, Start, StopFlags, StopRoot, RootReturns, Join, ctlVars
<1>2. \A u \in Threads : LoopThread(u)' <=> u = w
  BY <1>1 DEF LoopThread
<1>3. w # Caller => shape.workers = {w} /\ ~shape.caller
  BY <1>0, ThreadsAssumption DEF LoopThread
<1>4. w = Caller => shape.workers = {} /\ shape.caller
  BY <1>0, ThreadsAssumption DEF LoopThread
<1>5. CASE \E t \in Tasks, kind \in Kinds, thr \in Known(UserPins) : UserSchedule(t, kind, thr)
  BY <1>2, <1>5 DEF UserSchedule, MainAt, AloneStop, ctlVars, threadVars
<1>6. CASE Start
  <2>1. /\ pc' = [u \in Threads |-> IF u \in shape.workers THEN "pick" ELSE pc[u]] /\ ~isStopping'
        /\ isAutoStop' = isAutoStop /\ main' = main /\ fibers' = fibers /\ ft' = ft /\ idleTerm' = idleTerm
        /\ main = "user" /\ \A u \in Threads : pc[u] = "off"
    BY <1>6 DEF Start, MainAt, OffInv, queueVars, threadVars
  <2> QED
    BY <1>2, <1>3, <2>1 DEF AloneStop
<1>7. CASE StopFlags
  <2>1. /\ pc' = pc /\ fibers' = fibers /\ ft' = ft /\ idleTerm' = idleTerm
        /\ main = "user" /\ ~isStopping /\ main' \in {"root", "done"}
        /\ main' = "done" => shape.caller /\ fibers = <<>>
    BY <1>7 DEF StopFlags, MainAt, threadVars
  <2>2. pc[Caller] = "off"
    BY <2>1 DEF OffInv
  <2> QED
    BY <1>2, <1>3, <2>1, <2>2 DEF AloneStop
<1>8. CASE StopRoot
  <2>1. fibers' = fibers /\ ft' = ft /\ idleTerm' = idleTerm /\ main = "root" /\ pc[Caller] = "off"
    BY <1>8 DEF StopRoot, MainAt, OffInv, queueVars, threadVars
  <2>2. CASE shape.caller /\ ~Stopping
    <3>1. pc' = [pc EXCEPT ![Caller] = "pick"] /\ main' = "inroot" /\ w = Caller
      BY <1>3, <1>8, <2>2 DEF StopRoot, Goto
    <3> QED
      BY <1>0, <1>2, <2>1, <3>1 DEF AloneStop
  <2>3. CASE ~(shape.caller /\ ~Stopping)
    <3>1. pc' = pc /\ main' = "join" /\ (w = Caller => fibers = <<>>)
      BY <1>4, <1>8, <2>3 DEF StopRoot, Stopping
    <3>2. isStopping' = isStopping
      BY <1>8 DEF StopRoot
    <3> QED
      BY <1>2, <2>1, <3>1, <3>2 DEF AloneStop
  <2> QED
    BY <2>2, <2>3
<1>9. CASE RootReturns \/ Join
  <2>1. /\ UNCHANGED <<pc, fibers, ft, idleTerm, isStopping, isAutoStop>> /\ main' \in {"join", "done"}
        /\ main \in {"inroot", "join"}
        /\ main' = "join" => main = "inroot" /\ pc[Caller] = "exit"
        /\ main' = "done" => main = "join" /\ \A u \in shape.workers : pc[u] = "exit"
    BY <1>9 DEF RootReturns, Join, MainAt, queueVars, threadVars
  <2> QED
    BY <1>2, <1>3, <2>1 DEF AloneStop
<1> QED
  BY <1>5, <1>6, <1>7, <1>8, <1>9 DEF Main, StopStep

LEMMA AloneStopStep == TypeInv /\ CountInv /\ AloneInv /\ AloneStop /\ [Next]_vars => AloneStop'
<1> SUFFICES ASSUME TypeInv, CountInv, AloneInv, AloneStop, [Next]_vars
             PROVE  AloneStop'
  OBVIOUS
<1>1. \A w \in Threads : LoopThread(w)' <=> LoopThread(w)
  BY ShapeKept DEF LoopThread
<1> SUFFICES ASSUME NEW w \in Threads, LoopThread(w)
             PROVE  AloneStop'
  BY <1>1 DEF AloneStop
<1>2. SoloInv(w, {}, {})
  BY DEF AloneInv
<1>3. CASE UNCHANGED vars
  BY <1>1, <1>3 DEF AloneStop, vars, ctlVars, queueVars, threadVars
<1>4. CASE Main
  BY <1>2, <1>4, AloneStopMain DEF CountInv
<1>5. ASSUME NEW u \in Threads, ThreadStep(u)
      PROVE  AloneStop'
  <2>1. CASE u = w
    BY <1>2, <1>5, <2>1, AloneStopThread
  <2>2. CASE u # w
    <3>1. Tickle(u)
      BY <1>2, <1>5, <2>2, OffTickles DEF SoloInv, SoloThread
    <3> QED
      BY <1>1, <3>1 DEF Tickle, AloneStop, ctlVars, threadVars
  <2> QED
    BY <2>1, <2>2
<1> QED
  BY <1>3, <1>4, <1>5 DEF Next

\* What is left when stop() has returned to a caller with one thread.
LEMMA AloneDone ==
  ASSUME CountInv, AloneStop, NEW w \in Threads, LoopThread(w), SoloInv(w, {}, {}), TypeInv, main = "done"
  PROVE  /\ fibers = <<>> /\ active = 0 /\ idle = 0 /\ pc[w] \in {"off", "exit"}
         /\ \A t \in Tasks : status[t] \in {"new", "done"}
<1>1. fibers = <<>> /\ pc[w] \in {"off", "exit"}
  BY DEF AloneStop
<1>2. cur[w] = None /\ ft[w] = NoEntry /\ \A u \in Threads : pc[u] \in {"off", "exit"}
  BY <1>1 DEF SoloInv, SoloThread, PCs, HasFiber
<1>3. Flying = {} /\ Idlers = {}
  BY <1>2 DEF Flying, Idlers, InFlight, InIdle
<1>4. active = 0 /\ idle = 0
  BY <1>3, FS_EmptySet DEF CountInv
<1>5. Queue = {} /\ NoEntry.kind = "none"
  BY <1>1 DEF Queue, NoEntry
<1>6. \A t \in Tasks : ~SoloHas(w, {}, {}, t)
  BY <1>2, <1>5 DEF SoloHas, For
<1> QED
  BY <1>1, <1>4, <1>6 DEF SoloInv, SoloKeeps, TypeInv, TypeOK

LEMMA AloneStopInvariant == Spec => []AloneStop
<1>1. Init => AloneStop
  BY DEF Init, AloneStop
<1> QED
  BY <1>1, AloneStopStep, AloneInvariant, CountInvariant, TypeInit, TypeStep, PTL DEF Spec

\* The premise of what follows: one thread runs the loop, or no task hands a task
\* to a thread by its id, be it itself.
Ordered == ~UseSwitch /\ TaskPins \subseteq {AnyThread}
Orderly == Ordered \/ OneThread

\* What is known in every state, of the one thread or of all.
Settled ==
  /\ TypeInv /\ CountInv
  /\ IF Ordered THEN SafeInv /\ StopInv
     ELSE AloneStop /\ \E w \in Threads : LoopThread(w) /\ SoloInv(w, {}, {})

LEMMA SettledInvariant ==
  ASSUME Orderly
  PROVE  Spec => []Settled
<1>1. TypeInv /\ CountInv /\ AloneInv /\ AloneStop /\ (Ordered => SafeInv /\ StopInv) => Settled
  BY TheLoopThread DEF Orderly, Settled
<1>2. CASE Ordered
  <2>1. Spec => [](SafeInv /\ StopInv)
    BY <1>2, StopInvariant DEF Ordered
  <2> QED
    BY <1>1, <2>1, AloneInvariant, AloneStopInvariant, CountInvariant, TypeInit, TypeStep, PTL DEF Spec
<1>3. CASE ~Ordered
  BY <1>1, <1>3, AloneInvariant, AloneStopInvariant, CountInvariant, TypeInit, TypeStep, PTL DEF Spec
<1> QED
  BY <1>2, <1>3

LEMMA SettledDone == Settled => StopMeansDone
BY DoneFacts, AloneDone DEF Settled, StopMeansDone

\* stop() returns when every thread has left, nothing is queued and everything
\* that was scheduled, before or during the stop, has been executed.  A thread
\* that leaves has seen isStopping with an empty queue and nobody active; what is
\* queued afterwards, by a thread that has yet to settle a fiber, is for any
\* thread, and the last one to leave has scanned the queue once more.  A running
\* task that pins another to a thread which has already left breaks this; with
\* one thread there is none to pin it to.
THEOREM StopLeavesNothing ==
  ASSUME Orderly
  PROVE  Spec => []StopMeansDone
BY SettledInvariant, SettledDone, PTL

-----------------------------------------------------------------------------
(* The abstract pool.                                                      *)

\* How far a task is changes by one, on a thread that has not left or at the user.
LEMMA StatusEffect ==
  ASSUME SafeInv, StopInv, ~UseSwitch, Next, status' # status
  PROVE  /\ main # "done" /\ main' # "done"
         /\ \E t \in Tasks :
              \/ status[t] = "new" /\ status' = [status EXCEPT ![t] = "queued"]
              \/ status[t] = "queued" /\ status' = [status EXCEPT ![t] = "begun"]
              \/ status[t] = "begun" /\ status' = [status EXCEPT ![t] = "done"]
<1>0. TaskTypes
  BY TypesOfTasks DEF SafeInv
<1>1. ASSUME NEW w \in Threads, ThreadStep(w)
      PROVE  /\ main # "done" /\ main' # "done"
             /\ \E t \in Tasks :
                  \/ status[t] = "new" /\ status' = [status EXCEPT ![t] = "queued"]
                  \/ status[t] = "queued" /\ status' = [status EXCEPT ![t] = "begun"]
                  \/ status[t] = "begun" /\ status' = [status EXCEPT ![t] = "done"]
  <2>0. main' = main
    BY <1>1, ThreadFrame DEF SafeInv
  <2>1. ASSUME pc[w] \notin {"off", "exit"}
        PROVE  main # "done" /\ main' # "done"
    BY <2>0, <2>1 DEF StopInv, PhaseInv
  <2>2. CASE ResumeFiber(w)
    <3> DEFINE f == ft[w].item
    <3>1. pc[w] = "dispatch" /\ ft[w].kind = "fiber" /\ f \in Tasks
      BY <1>0, <2>2, FtFacts DEF ResumeFiber, At
    <3>2. fstate[f] = "INIT" /\ prog[f] # None /\ status' = [status EXCEPT ![prog[f]] = "begun"]
      BY <2>2 DEF ResumeFiber, Begin
    <3>3. prog[f] \in Tasks /\ status[prog[f]] = "queued"
      BY <1>0, <3>1, <3>2 DEF SafeInv, TasksInv, FiberInv, TaskTypes
    <3> QED
      BY <2>1, <3>1, <3>2, <3>3
  <2>3. CASE RunCallback(w)
    <3>1. pc[w] = "dispatch" /\ ft[w].kind = "cb" /\ ft[w] # NoEntry /\ ft[w].item \in Tasks
      BY <1>0, <2>3, FtFacts DEF RunCallback, At
    <3>2. status[ft[w].item] = "queued"
      BY <3>1 DEF SafeInv, TasksInv, StateInv, Executable, Untouched
    <3>3. status' = [status EXCEPT ![ft[w].item] = "begun"]
      BY <2>3 DEF RunCallback, Begin
    <3> QED
      BY <2>1, <3>1, <3>2, <3>3
  <2>4. ASSUME NEW st \in Dead, Finish(w, st)
        PROVE  /\ main # "done" /\ main' # "done"
               /\ \E t \in Tasks : status[t] = "begun" /\ status' = [status EXCEPT ![t] = "done"]
    <3>1. pc[w] = "run"
      BY <2>4 DEF Finish, At, SafeInv, TasksInv, ThreadInv
    <3>2. cur[w] \in Tasks /\ fstate[cur[w]] = "EXEC"
      BY <1>0, <3>1 DEF TaskTypes, Busy, SafeInv, TasksInv, StateInv
    <3>3. prog[cur[w]] # None /\ prog[cur[w]] \in Tasks /\ status[prog[cur[w]]] = "begun"
      BY <1>0, <3>2 DEF SafeInv, TasksInv, FiberInv, TaskTypes
    <3>4. status' = [status EXCEPT ![prog[cur[w]]] = "done"]
      BY <2>4, <3>3 DEF Finish
    <3> QED
      BY <2>1, <3>1, <3>3, <3>4
  <2>5. ASSUME NEW t \in Tasks, NEW kind \in Kinds, NEW thr \in Known(TaskPins), Spawn(w, t, kind, thr)
        PROVE  /\ main # "done" /\ main' # "done"
               /\ status[t] = "new" /\ status' = [status EXCEPT ![t] = "queued"]
    BY <2>1, <2>5 DEF Spawn, Submit, At
  <2>6. \/ ResumeFiber(w) \/ RunCallback(w) \/ \E st \in Dead : Finish(w, st)
        \/ \E t \in Tasks, kind \in Kinds, thr \in Known(TaskPins) : Spawn(w, t, kind, thr)
    BY <1>1 DEF ThreadStep, RunStep, Body, Pick, PickNothing, SkipDead, Ret, SettleReady, SettleDead,
                SettleOther, SetHold, ThreadExit, IdleIn, IdleOut, Idle, Tickle, YieldToReady,
                YieldToHold, YieldTo, SwapOut, SwitchTo, taskVars
  <2> QED
    BY <2>2, <2>3, <2>4, <2>5, <2>6
<1>2. CASE Main
  <2>1. PICK t \in Tasks, kind \in Kinds, thr \in Known(UserPins) : UserSchedule(t, kind, thr)
    BY <1>2 DEF Main, Start, StopStep, StopFlags, StopRoot, RootReturns, Join, taskVars
  <2> QED
    BY <2>1 DEF UserSchedule, Submit, MainAt, ctlVars
<1> QED
  BY <1>1, <1>2 DEF Next

\* One thread runs the loop: a task is executed by one fiber, dead when it is done.
DoneInv == OneFiber /\ \A f \in Tasks : prog[f] # None /\ status[prog[f]] = "done" => fstate[f] \in Dead

LEMMA DoneSubmit ==
  ASSUME NEW w \in Threads, SoloInv(w, {}, {}), DoneInv,
         NEW u, NEW t \in Tasks, NEW kind, NEW thr, Submit(u, t, kind, thr)
  PROVE  DoneInv'
<1>1. status[t] = "new" /\ status' = [status EXCEPT ![t] = "queued"]
  BY DEF Submit
<1>2. \A f \in Tasks : prog[f] # t
  BY <1>1, EntryKinds DEF SoloInv, SoloPrograms
<1>3. \/ UNCHANGED <<fstate, prog>>
      \/ fstate' = [fstate EXCEPT ![t] = "INIT"] /\ prog' = [prog EXCEPT ![t] = t]
  BY DEF Submit, fiberVars
<1>4. fstate[t] = "NONE"
  BY <1>1 DEF SoloInv, SoloPlaces
<1> QED
  BY <1>1, <1>2, <1>3, <1>4, EntryKinds DEF DoneInv, OneFiber, SoloInv, SoloTypes, Dead

LEMMA DoneThread ==
  ASSUME NEW w \in Threads, SoloInv(w, {}, {}), DoneInv, ThreadStep(w)
  PROVE  DoneInv'
<1>0. /\ ft \in [Threads -> Entry \cup {NoEntry}] /\ cur[w] \in Tasks \cup {None} /\ None \notin Tasks
      /\ fstate \in [Tasks -> FiberStates] /\ prog \in [Tasks -> Tasks \cup {None}]
      /\ status \in [Tasks -> {"new", "queued", "begun", "done"}] /\ Dead = {"TERM", "EXCEPT"}
  BY EntryKinds DEF SoloInv, SoloTypes, Dead
<1>1. CASE ResumeFiber(w)
  <2> DEFINE f == ft[w].item
  <2>1. f \in Tasks /\ fstate[f] \notin Dead
    BY <1>0, <1>1, EntryKinds DEF ResumeFiber
  <2>2. /\ prog' = prog /\ (fstate' = [fstate EXCEPT ![f] = "EXEC"] \/ fstate' = fstate)
        /\ status' = IF fstate[f] = "INIT" /\ prog[f] # None THEN [status EXCEPT ![prog[f]] = "begun"] ELSE status
    BY <1>1 DEF ResumeFiber, SwapIn, Begin
  <2>3. prog' = prog
    BY <1>1 DEF ResumeFiber
  <2> HIDE DEF f
  <2> QED
    BY <1>0, <2>1, <2>2, <2>3 DEF DoneInv, OneFiber
<1>2. CASE RunCallback(w)
  <2> DEFINE t == ft[w].item
             f == IF cbFiber[w] = None THEN t ELSE cbFiber[w]
  <2>1. t \in Tasks /\ f \in Tasks /\ Fresh(t)
    BY <1>0, <1>2, EntryKinds DEF RunCallback, SoloInv, SoloTypes, SoloPlaces
  <2>2. CASE CanReset(w)
    <3>1. /\ prog' = [prog EXCEPT ![f] = t] /\ status' = [status EXCEPT ![t] = "begun"]
          /\ \A g \in Tasks \ {f} : fstate'[g] = fstate[g]
      BY <1>0, <1>2, <2>2 DEF RunCallback, SwapIn, Begin
    <3>2. \A g \in Tasks : prog[g] # t
      BY <1>0, <2>1 DEF SoloInv, SoloPrograms, Fresh
    <3> HIDE DEF t, f
    <3> QED
      BY <1>0, <2>1, <3>1, <3>2 DEF DoneInv, OneFiber
  <2>3. CASE ~CanReset(w)
    BY <1>2, <2>3 DEF RunCallback, fiberVars, DoneInv, OneFiber
  <2> QED
    BY <2>2, <2>3
<1>3. CASE SettleDead(w) \/ SetHold(w)
  <2>1. cur[w] \in Tasks /\ status' = status
    BY <1>0, <1>3 DEF SettleDead, SetHold, At, SoloInv, SoloThread, HasFiber, taskVars
  <2>2. \/ UNCHANGED <<fstate, prog>>
        \/ fstate' = [fstate EXCEPT ![cur[w]] = "INIT"] /\ prog' = [prog EXCEPT ![cur[w]] = None]
        \/ fstate' = [fstate EXCEPT ![cur[w]] = "HOLD"] /\ prog' = prog /\ fstate[cur[w]] = "HOLD"
    BY <1>3 DEF SettleDead, SetHold, At, fiberVars, SoloInv, SoloStates
  <2> QED
    BY <1>0, <2>1, <2>2 DEF DoneInv, OneFiber
<1>4. ASSUME NEW st \in Dead, Finish(w, st)
      PROVE  DoneInv'
  <2>1. cur[w] \in Tasks
    BY <1>0, <1>4 DEF Finish, At, SoloInv, SoloThread, HasFiber
  <2>2. /\ fstate' = [fstate EXCEPT ![cur[w]] = st]
        /\ prog' = [prog EXCEPT ![cur[w]] = IF st = "TERM" THEN None ELSE @]
        /\ status' = IF prog[cur[w]] = None THEN status ELSE [status EXCEPT ![prog[cur[w]]] = "done"]
    BY <1>4 DEF Finish
  <2> QED
    BY <1>0, <1>4, <2>1, <2>2 DEF DoneInv, OneFiber
<1>5. CASE YieldToReady(w) \/ YieldToHold(w)
  <2>1. cur[w] \in Tasks /\ fstate[cur[w]] = "EXEC"
    BY <1>0, <1>5 DEF YieldToReady, YieldToHold, At, SoloInv, SoloThread, SoloStates, HasFiber, OffStack
  <2>2. prog' = prog /\ status' = status /\ \A g \in Tasks \ {cur[w]} : fstate'[g] = fstate[g]
    BY <1>0, <1>5 DEF YieldToReady, YieldToHold, YieldTo
  <2> QED
    BY <1>0, <2>1, <2>2 DEF DoneInv, OneFiber
<1>6. CASE \E t \in Tasks, kind \in Kinds, thr \in Known(TaskPins) : Spawn(w, t, kind, thr)
  BY <1>6, DoneSubmit DEF Spawn
<1>7. CASE UNCHANGED <<fstate, prog, status>>
  BY <1>7 DEF DoneInv, OneFiber
<1> QED
  BY <1>1, <1>2, <1>3, <1>4, <1>5, <1>6, <1>7 DEF ThreadStep, RunStep, Body, Pick, PickNothing, SkipDead, Ret,
     SettleReady, SettleOther, ThreadExit, IdleIn, IdleOut, Idle, Tickle, SwapOut, SwitchTo, fiberVars, taskVars

\* The same of the one thread that runs the loop.
LEMMA AloneEffect ==
  ASSUME NEW w \in Threads, LoopThread(w), SoloInv(w, {}, {}), AloneStop, DoneInv, Next, status' # status
  PROVE  /\ main # "done" /\ main' # "done"
         /\ \E t \in Tasks :
              \/ status[t] = "new" /\ status' = [status EXCEPT ![t] = "queued"]
              \/ status[t] = "queued" /\ status' = [status EXCEPT ![t] = "begun"]
              \/ status[t] = "begun" /\ status' = [status EXCEPT ![t] = "done"]
<1>0. /\ ft \in [Threads -> Entry \cup {NoEntry}] /\ cur[w] \in Tasks \cup {None} /\ None \notin Tasks
      /\ prog \in [Tasks -> Tasks \cup {None}] /\ status \in [Tasks -> {"new", "queued", "begun", "done"}]
  BY EntryKinds DEF SoloInv, SoloTypes
<1>1. CASE Main
  <2>1. PICK t \in Tasks, kind \in Kinds, thr \in Known(UserPins) : UserSchedule(t, kind, thr)
    BY <1>1 DEF Main, Start, StopStep, StopFlags, StopRoot, RootReturns, Join, taskVars
  <2> QED
    BY <2>1 DEF UserSchedule, Submit, MainAt, ctlVars
<1>2. ASSUME NEW u \in Threads, ThreadStep(u)
      PROVE  /\ main # "done" /\ main' # "done"
             /\ \E t \in Tasks :
                  \/ status[t] = "new" /\ status' = [status EXCEPT ![t] = "queued"]
                  \/ status[t] = "queued" /\ status' = [status EXCEPT ![t] = "begun"]
                  \/ status[t] = "begun" /\ status' = [status EXCEPT ![t] = "done"]
  <2>1. u = w
    BY <1>2, OffTickles DEF SoloInv, SoloThread, Tickle, taskVars
  <2>2. \/ ResumeFiber(w) \/ RunCallback(w) \/ \E st \in Dead : Finish(w, st)
        \/ \E t \in Tasks, kind \in Kinds, thr \in Known(TaskPins) : Spawn(w, t, kind, thr)
    BY <1>2, <2>1 DEF ThreadStep, RunStep, Body, Pick, PickNothing, SkipDead, Ret, SettleReady, SettleDead,
       SettleOther, SetHold, ThreadExit, IdleIn, IdleOut, Idle, Tickle, YieldToReady, YieldToHold, YieldTo,
       SwapOut, SwitchTo, taskVars
  <2>3. main' = main /\ pc[w] \notin {"off", "exit"}
    BY <2>2 DEF ResumeFiber, RunCallback, Finish, Spawn, At, ctlVars
  <2>4. main # "done" /\ main' # "done"
    BY <2>3 DEF AloneStop
  <2>5. CASE ResumeFiber(w)
    <3> DEFINE f == ft[w].item
    <3>1. f \in Tasks
      BY <1>0, <2>5, EntryKinds DEF ResumeFiber
    <3>2. fstate[f] = "INIT" /\ prog[f] # None /\ status' = [status EXCEPT ![prog[f]] = "begun"]
      BY <2>5 DEF ResumeFiber, Begin
    <3>3. prog[f] \in Tasks /\ status[prog[f]] = "queued"
      BY <1>0, <3>1, <3>2 DEF SoloInv, SoloPrograms
    <3> QED
      BY <2>4, <3>2, <3>3
  <2>6. CASE RunCallback(w)
    <3>1. ft[w].item \in Tasks /\ status[ft[w].item] = "queued"
      BY <1>0, <2>6, EntryKinds DEF RunCallback, SoloInv, SoloPlaces, Fresh
    <3>2. status' = [status EXCEPT ![ft[w].item] = "begun"]
      BY <2>6 DEF RunCallback, Begin
    <3> QED
      BY <2>4, <3>1, <3>2
  <2>7. ASSUME NEW st \in Dead, Finish(w, st)
        PROVE  \E t \in Tasks : status[t] = "begun" /\ status' = [status EXCEPT ![t] = "done"]
    <3>1. cur[w] \in Tasks /\ fstate[cur[w]] = "EXEC"
      BY <1>0, <2>7 DEF Finish, At, SoloInv, SoloThread, SoloStates, HasFiber, OffStack
    <3>2. prog[cur[w]] \in Tasks /\ status' = [status EXCEPT ![prog[cur[w]]] = "done"]
      BY <1>0, <2>7, <3>1 DEF Finish
    <3>3. status[prog[cur[w]]] = "begun"
      BY <1>0, <3>1, <3>2 DEF SoloInv, SoloPrograms, DoneInv, Dead
    <3> QED
      BY <3>2, <3>3
  <2>8. ASSUME NEW t \in Tasks, NEW kind \in Kinds, NEW thr \in Known(TaskPins), Spawn(w, t, kind, thr)
        PROVE  status[t] = "new" /\ status' = [status EXCEPT ![t] = "queued"]
    BY <2>8 DEF Spawn, Submit
  <2> QED
    BY <2>2, <2>4, <2>5, <2>6, <2>7, <2>8
<1> QED
  BY <1>1, <1>2 DEF Next

\* stop() has returned once.
LEMMA DoneOnce == Next /\ main = "done" => main' = "done"
<1> SUFFICES ASSUME Next, main = "done"
             PROVE  main' = "done"
  OBVIOUS
<1>1. ASSUME NEW w \in Threads, RunStep(w)
      PROVE  main' = main
  BY <1>1 DEF RunStep, Pick, PickNothing, ResumeFiber, SkipDead, RunCallback, Ret, SettleReady,
     SettleDead, SettleOther, SetHold, ThreadExit, IdleIn, IdleOut, ctlVars
<1>2. ASSUME NEW w \in Threads, Idle(w) \/ Tickle(w) \/ Body(w)
      PROVE  main' = main
  BY <1>2 DEF Idle, Tickle, Body, Finish, YieldToReady, YieldToHold, YieldTo, SwapOut,
     SwitchTo, Spawn, ctlVars
<1>3. ASSUME Main
      PROVE  main' = main
  BY <1>3 DEF Main, UserSchedule, Start, StopStep, StopFlags, StopRoot, RootReturns, Join,
     MainAt, ctlVars
<1> QED
  BY <1>1, <1>2, <1>3 DEF Next, ThreadStep

\* The scheduler implements the abstract pool: a task is begun once and ended
\* once, in that order, nothing begins or is accepted after stop() has returned,
\* and stop() returns when nothing handed over is left.
THEOREM PoolIsImplemented ==
  ASSUME Orderly
  PROVE  Spec => ImplementsPool
<1> DEFINE Begun == Ordered \/ DoneInv
<1>1. Init => Pool!Init /\ Begun
  BY ThreadsAssumption DEF Init, Pool!Init, DoneInv, OneFiber
<1>2. Settled /\ Begun /\ [Next]_vars => Begun'
  <2> SUFFICES ASSUME Settled, ~Ordered, DoneInv, [Next]_vars
               PROVE  DoneInv'
    OBVIOUS
  <2>1. PICK w \in Threads : LoopThread(w) /\ SoloInv(w, {}, {})
    BY DEF Settled
  <2>2. CASE UNCHANGED <<fstate, prog, status>>
    BY <2>2 DEF DoneInv, OneFiber
  <2>3. CASE Main
    <3>1. CASE \E t \in Tasks, kind \in Kinds, thr \in Known(UserPins) : UserSchedule(t, kind, thr)
      BY <2>1, <3>1, DoneSubmit DEF UserSchedule
    <3> QED
      BY <2>2, <2>3, <3>1 DEF Main, Start, StopStep, StopFlags, StopRoot, RootReturns, Join, fiberVars, taskVars
  <2>4. ASSUME NEW u \in Threads, ThreadStep(u)
        PROVE  DoneInv'
    <3>1. u # w => Tickle(u)
      BY <2>1, <2>4, OffTickles DEF SoloInv, SoloThread
    <3> QED
      BY <2>1, <2>2, <2>4, <3>1, DoneThread DEF Tickle, fiberVars, taskVars
  <2> QED
    BY <2>2, <2>3, <2>4 DEF Next, vars, fiberVars, taskVars
<1>3. Settled /\ Begun /\ StopMeansDone' /\ [Next]_vars => [Pool!Next]_(Pool!vars)
  <2> SUFFICES ASSUME Settled, Begun, StopMeansDone', [Next]_vars
               PROVE  [Pool!Next]_(Pool!vars)
    OBVIOUS
  <2>1. CASE UNCHANGED vars
    BY <2>1 DEF vars, ctlVars, taskVars, Pool!vars
  <2>2. CASE Next /\ status' # status
    <3>1. /\ main # "done" /\ main' # "done"
          /\ \E t \in Tasks :
               \/ status[t] = "new" /\ status' = [status EXCEPT ![t] = "queued"]
               \/ status[t] = "queued" /\ status' = [status EXCEPT ![t] = "begun"]
               \/ status[t] = "begun" /\ status' = [status EXCEPT ![t] = "done"]
      <4>1. CASE Ordered /\ SafeInv /\ StopInv
        BY <2>2, <4>1, StatusEffect DEF Ordered
      <4>2. CASE DoneInv /\ AloneStop /\ \E w \in Threads : LoopThread(w) /\ SoloInv(w, {}, {})
        BY <2>2, <4>2, AloneEffect
      <4> QED
        BY <4>1, <4>2 DEF Settled
    <3> QED
      BY <3>1 DEF Pool!Next, Pool!Submit, Pool!Begin, Pool!End, Pool!Advance
  <2>3. CASE Next /\ status' = status
    <3>1. CASE main' = "done" /\ main # "done"
      BY <2>3, <3>1 DEF StopMeansDone, Pool!Next, Pool!Stop
    <3>2. CASE ~(main' = "done" /\ main # "done")
      BY <2>3, <3>2, DoneOnce DEF Pool!vars
    <3> QED
      BY <3>1, <3>2
  <2> QED
    BY <2>1, <2>2, <2>3
<1> QED
  BY <1>1, <1>2, <1>3, SettledInvariant, SettledDone, PTL DEF Spec, ImplementsPool, Pool!Spec

-----------------------------------------------------------------------------
(* The requested thread, whatever the tasks do (also with switchTo()).     *)

\* The entries of the queue and those taken from it.
Entries == Queue \cup {ft[w] : w \in {v \in Threads : ft[v] # NoEntry}}

\* A fiber that has been created for a task and never swapped in.
Unbegun(f) == fstate[f] = "INIT" /\ prog[f] # None

\* A fiber that runs, or that a thread keeps for callbacks, is not a new one.
Used(f) == f # None => status[f] # "new" /\ ~Unbegun(f)

PinInv ==
  /\ \A w \in Threads : ft[w] # NoEntry => ft[w].thr \in {AnyThread, w}
  /\ \A w \in Threads : Used(cur[w]) /\ Used(cbFiber[w])
  /\ \A f \in Tasks : prog[f] # None => status[prog[f]] # "new"
  /\ \A e \in Entries : status[e.item] # "new" /\ (e.kind = "cb" => e.thr = pin[e.item])
  /\ \A f \in Tasks : Unbegun(f) =>
       /\ prog[f] = f
       /\ \A e \in Entries : e.kind = "fiber" /\ e.item = f => e.thr = pin[f]

LEMMA EntryFacts ==
  ASSUME TypeInv
  PROVE  Entries \subseteq Entry /\ \A e \in Entry : e.kind \in {"cb", "fiber"} /\ e.item \in Tasks
<1>1. TaskTypes
  BY TypesOfTasks
<1>2. \A w \in Threads : ft[w] # NoEntry => ft[w] \in Entry
  BY <1>1, FtFacts
<1> QED
  BY <1>1, <1>2, QueueFacts DEF Entries, Entry

\* A step that hands no new task over.
LEMMA PinKept ==
  ASSUME TypeInv, PinInv, NEW w \in Threads, pin' = pin,
         \A e \in Entries' : e \in Entries \/ (e.kind = "fiber" /\ e.item = cur[w] /\ cur[w] # None),
         \A v \in Threads : ft'[v] \in {ft[v], NoEntry} \/ ft'[v].thr \in {AnyThread, v},
         \A f \in Tasks : status'[f] = "new" => status[f] = "new",
         \A f \in Tasks : Unbegun(f)' => Unbegun(f) /\ prog'[f] = prog[f],
         \A f \in Tasks : prog'[f] \in {prog[f], None} \/ status[prog'[f]] # "new",
         \A f \in Tasks : prog'[f] \in Tasks \cup {None},
         \A v \in Threads : cur'[v] \in Tasks \cup {None} /\ cbFiber'[v] \in Tasks \cup {None},
         \A v \in Threads : cur'[v] \in {cur[v], None} \/ (status[cur'[v]] # "new" /\ fstate'[cur'[v]] # "INIT"),
         \A v \in Threads : cbFiber'[v] \in {cbFiber[v], None}
                            \/ (status[cbFiber'[v]] # "new" /\ fstate'[cbFiber'[v]] # "INIT")
  PROVE  PinInv'
<1>1. /\ \A v \in Threads : cur[v] \in Tasks \cup {None} /\ cbFiber[v] \in Tasks \cup {None}
      /\ cur[w] # None => cur[w] \in Tasks /\ status[cur[w]] # "new" /\ ~Unbegun(cur[w])
      /\ \A v \in Threads : Used(cur[v]) /\ Used(cbFiber[v])
  BY DEF TypeInv, TypeOK, PinInv, Used
<1>2. \A v \in Threads : ft'[v] # NoEntry => ft'[v].thr \in {AnyThread, v}
  BY DEF PinInv
<1>3. ASSUME NEW f \in Tasks, status[f] # "new", ~Unbegun(f) \/ fstate'[f] # "INIT"
      PROVE  status'[f] # "new" /\ ~Unbegun(f)'
  BY <1>3 DEF Unbegun
<1>4. ASSUME NEW v \in Threads
      PROVE  /\ cur'[v] # None => status'[cur'[v]] # "new" /\ ~(fstate'[cur'[v]] = "INIT" /\ prog'[cur'[v]] # None)
             /\ cbFiber'[v] # None => /\ status'[cbFiber'[v]] # "new"
                                      /\ ~(fstate'[cbFiber'[v]] = "INIT" /\ prog'[cbFiber'[v]] # None)
  <2>1. \A f \in Tasks : ~(fstate'[f] = "INIT" /\ prog'[f] # None) \/ Unbegun(f)
    BY DEF Unbegun
  <2>2. ASSUME cur'[v] # None
        PROVE  status'[cur'[v]] # "new" /\ ~(fstate'[cur'[v]] = "INIT" /\ prog'[cur'[v]] # None)
    BY <1>1, <2>1, <2>2 DEF Used
  <2>3. ASSUME cbFiber'[v] # None
        PROVE  status'[cbFiber'[v]] # "new" /\ ~(fstate'[cbFiber'[v]] = "INIT" /\ prog'[cbFiber'[v]] # None)
    BY <1>1, <2>1, <2>3 DEF Used
  <2> QED
    BY <2>2, <2>3
<1>5. \A v \in Threads : Used(cur[v])' /\ Used(cbFiber[v])'
  BY <1>4 DEF Used, Unbegun
<1>6. \A f \in Tasks : prog'[f] # None => status'[prog'[f]] # "new"
  BY DEF PinInv
<1>7. \A e \in Entries' : e.item \in Tasks /\ status'[e.item] # "new" /\ (e.kind = "cb" => e.thr = pin'[e.item])
  BY <1>1, EntryFacts DEF PinInv
<1>8. ASSUME NEW f \in Tasks, Unbegun(f)'
      PROVE  /\ prog'[f] = f
             /\ \A e \in Entries' : e.kind = "fiber" /\ e.item = f => e.thr = pin'[f]
  BY <1>1, <1>8 DEF PinInv
<1> QED
  BY <1>2, <1>5, <1>6, <1>7, <1>8 DEF PinInv

\* schedule() of a new task: nothing has its name yet.
LEMMA PinSubmit ==
  ASSUME TypeInv, PinInv, NEW w \in Threads, NEW t \in Tasks, NEW kind \in Kinds,
         NEW thr \in Threads \cup {AnyThread}, Submit(w, t, kind, thr),
         ft' = ft, cur' = cur, cbFiber' = cbFiber
  PROVE  PinInv'
<1> DEFINE e == [kind |-> kind, item |-> t, thr |-> thr]
<1>0. TypeOK
  BY DEF TypeInv
<1>1. e \in Entry /\ e.kind = kind /\ e.item = t /\ e.thr = thr
  BY ThreadsAssumption DEF Entry
<1>2. /\ status[t] = "new" /\ fibers' = Append(fibers, e)
      /\ status'[t] = "queued" /\ \A x \in Tasks \ {t} : status'[x] = status[x]
      /\ pin'[t] = thr /\ \A x \in Tasks \ {t} : pin'[x] = pin[x]
  BY <1>0 DEF Submit, Enqueue, TypeOK
<1>3. /\ \A x \in Tasks \ {t} : fstate'[x] = fstate[x] /\ prog'[x] = prog[x]
      /\ prog'[t] \in {prog[t], t} /\ (prog'[t] = t \/ (fstate'[t] = fstate[t] /\ kind = "cb"))
      /\ kind = "cb" => fstate'[t] = fstate[t] /\ prog'[t] = prog[t]
  BY <1>0, ThreadsAssumption DEF Submit, fiberVars, TypeOK
<1> HIDE DEF e
<1>4. \A x \in Entries' : x \in Entries \/ x = e
  <2>1. \A x \in Queue' : x \in Queue \/ x = e
    BY <1>0, <1>1, <1>2, AppendProperties DEF Queue, TypeOK
  <2> QED
    BY <2>1 DEF Entries
<1>5. \A x \in Entries : x.item \in Tasks \ {t}
  BY <1>2, EntryFacts DEF PinInv
<1>6. \A v \in Threads : /\ cur[v] # None => cur[v] \in Tasks \ {t}
                         /\ cbFiber[v] # None => cbFiber[v] \in Tasks \ {t}
  BY <1>0, <1>2 DEF PinInv, Used, TypeOK
<1>7. \A v \in Threads : Used(cur[v])' /\ Used(cbFiber[v])'
  BY <1>2, <1>3, <1>6 DEF PinInv, Used, Unbegun
<1>8. \A f \in Tasks : prog'[f] # None => status'[prog'[f]] # "new"
  <2>1. \A f \in Tasks : prog[f] # None => prog[f] \in Tasks \ {t}
    BY <1>0, <1>2 DEF PinInv, TypeOK
  <2> QED
    BY <1>2, <1>3, <2>1 DEF PinInv
<1>9. \A x \in Entries' : status'[x.item] # "new" /\ (x.kind = "cb" => x.thr = pin'[x.item])
  BY <1>1, <1>2, <1>4, <1>5 DEF PinInv
<1>10. ASSUME NEW f \in Tasks, Unbegun(f)'
       PROVE  /\ prog'[f] = f
              /\ \A x \in Entries' : x.kind = "fiber" /\ x.item = f => x.thr = pin'[f]
  <2>1. CASE f = t
    <3>1. prog'[t] = t
      BY <1>2, <1>3, <1>10, <2>1 DEF PinInv, Unbegun
    <3> QED
      BY <1>1, <1>2, <1>4, <1>5, <2>1, <3>1
  <2>2. CASE f # t
    <3>1. Unbegun(f)
      BY <1>3, <1>10, <2>2 DEF Unbegun
    <3> QED
      BY <1>1, <1>2, <1>3, <1>4, <2>2, <3>1 DEF PinInv
  <2> QED
    BY <2>1, <2>2
<1> QED
  BY <1>7, <1>8, <1>9, <1>10 DEF PinInv

LEMMA QueueShrinks ==
  ASSUME fibers \in Seq(Entry), NEW i \in 1 .. Len(fibers), fibers' = RemoveAt(fibers, i)
  PROVE  fibers[i] \in Queue /\ Queue' \subseteq Queue
<1> DEFINE a == SubSeq(fibers, 1, i - 1)
           b == SubSeq(fibers, i + 1, Len(fibers))
<1>0. Len(fibers) \in Nat /\ i \in Nat
  OBVIOUS
<1>1. a \in Seq(Entry) /\ Len(a) = i - 1 /\ \A k \in 1 .. Len(a) : a[k] = fibers[k]
  BY <1>0, SubSeqProperties
<1>2. b \in Seq(Entry) /\ Len(b) = Len(fibers) - i /\ \A k \in 1 .. Len(b) : b[k] = fibers[i + k]
  BY <1>0, SubSeqProperties
<1>3. fibers' = a \o b
  BY DEF RemoveAt
<1> HIDE DEF a, b
<1>4. /\ Len(a \o b) = Len(a) + Len(b)
      /\ \A k \in 1 .. Len(a) + Len(b) : (a \o b)[k] = IF k <= Len(a) THEN a[k] ELSE b[k - Len(a)]
  BY <1>1, <1>2, ConcatProperties
<1>5. ASSUME NEW k \in 1 .. Len(fibers')
      PROVE  fibers'[k] \in Queue
  <2>1. CASE k <= Len(a)
    <3>1. k \in 1 .. Len(fibers) /\ fibers'[k] = fibers[k]
      BY <1>0, <1>1, <1>2, <1>3, <1>4, <1>5, <2>1
    <3> QED
      BY <3>1 DEF Queue
  <2>2. CASE ~(k <= Len(a))
    <3>1. k - Len(a) \in 1 .. Len(b) /\ i + (k - Len(a)) \in 1 .. Len(fibers)
      BY <1>0, <1>1, <1>2, <1>3, <1>4, <1>5, <2>2
    <3>2. fibers'[k] = fibers[i + (k - Len(a))]
      BY <1>2, <1>3, <1>4, <1>5, <2>2, <3>1
    <3> QED
      BY <3>1, <3>2 DEF Queue
  <2> QED
    BY <2>1, <2>2
<1> QED
  BY <1>5 DEF Queue

LEMMA QueueGrows ==
  ASSUME fibers \in Seq(Entry), NEW e \in Entry, fibers' = Append(fibers, e)
  PROVE  \A x \in Queue' : x \in Queue \/ x = e
BY AppendProperties DEF Queue

LEMMA PinThread ==
  ASSUME TypeInv, TypeInv', PinInv, NEW w \in Threads, ThreadStep(w)
  PROVE  PinInv'
<1>0. TypeOK /\ TypeOK' /\ NoEntry.kind = "none"
  BY DEF TypeInv, NoEntry
<1>a. /\ \A f \in Tasks : prog'[f] \in Tasks \cup {None}
      /\ \A v \in Threads : cur'[v] \in Tasks \cup {None} /\ cbFiber'[v] \in Tasks \cup {None}
  BY <1>0 DEF TypeOK
<1>b. pc[w] \in HasFiber => cur[w] \in Tasks /\ cur[w] # None
  BY ThreadsAssumption DEF TypeInv
<1>c. ft[w].kind # "none" => ft[w] \in Entries /\ ft[w].item \in Tasks /\ status[ft[w].item] # "new"
  BY <1>0, EntryFacts DEF Entries, PinInv
<1>1. ASSUME pin' = pin, prog' = prog, fstate' = fstate, status' = status, cur' = cur,
             cbFiber' = cbFiber, fibers' = fibers,
             \A v \in Threads : ft'[v] \in {ft[v], NoEntry}
      PROVE  PinInv'
  <2>1. Entries' \subseteq Entries
    BY <1>1 DEF Entries, Queue
  <2>2. \A f \in Tasks : Unbegun(f)' => Unbegun(f)
    BY <1>1 DEF Unbegun
  <2> QED
    BY <1>a, <1>1, <2>1, <2>2, PinKept
<1>2. CASE \/ PickNothing(w) \/ SkipDead(w) \/ Ret(w) \/ SettleOther(w) \/ ThreadExit(w) \/ IdleIn(w)
           \/ IdleOut(w) \/ Idle(w) \/ Tickle(w) \/ SwapOut(w)
  <2>1. /\ pin' = pin /\ prog' = prog /\ fstate' = fstate /\ status' = status /\ cur' = cur
        /\ cbFiber' = cbFiber /\ fibers' = fibers
    BY <1>2 DEF PickNothing, SkipDead, Ret, SettleOther, ThreadExit, IdleIn, IdleOut, Idle, Tickle,
                SwapOut, queueVars, fiberVars, threadVars, taskVars
  <2>2. \A v \in Threads : ft'[v] \in {ft[v], NoEntry}
    BY <1>0, <1>2 DEF PickNothing, SkipDead, Ret, SettleOther, ThreadExit, IdleIn, IdleOut, Idle,
                      Tickle, SwapOut, threadVars, TypeOK
  <2> QED
    BY <1>1, <2>1, <2>2
<1>3. CASE Pick(w)
  <2>1. PICK i \in 1 .. Len(fibers) :
          Pickable(w, fibers[i]) /\ fibers' = RemoveAt(fibers, i) /\ ft' = [ft EXCEPT ![w] = fibers[i]]
    BY <1>3 DEF Pick
  <2>2. fibers[i] \in Queue /\ Queue' \subseteq Queue
    BY <1>0, <2>1, QueueShrinks DEF TypeOK
  <2>3. fibers[i].thr \in {AnyThread, w}
    BY <2>1 DEF Pickable, Foreign
  <2>4. ft'[w] = fibers[i] /\ \A v \in Threads \ {w} : ft'[v] = ft[v]
    BY <1>0, <2>1 DEF TypeOK
  <2>5. Entries' \subseteq Entries
    BY <2>2, <2>4 DEF Entries
  <2>6. /\ pin' = pin /\ prog' = prog /\ fstate' = fstate /\ status' = status /\ cur' = cur
        /\ cbFiber' = cbFiber
    BY <1>3 DEF Pick, fiberVars, taskVars
  <2>7. \A f \in Tasks : Unbegun(f)' => Unbegun(f)
    BY <2>6 DEF Unbegun
  <2> QED
    BY <1>a, <2>3, <2>4, <2>5, <2>6, <2>7, PinKept
<1>4. CASE ResumeFiber(w)
  <2> DEFINE f == ft[w].item
  <2>1. ft[w].kind = "fiber" /\ f \in Tasks /\ status[f] # "new"
    BY <1>4, <1>c DEF ResumeFiber
  <2>2. /\ pin' = pin /\ prog' = prog /\ ft' = ft /\ fibers' = fibers /\ cbFiber' = cbFiber
        /\ cur'[w] = f /\ \A v \in Threads \ {w} : cur'[v] = cur[v]
        /\ fstate'[f] = "EXEC" /\ \A g \in Tasks \ {f} : fstate'[g] = fstate[g]
    BY <1>0, <1>4, <2>1 DEF ResumeFiber, SwapIn, queueVars, TypeOK
  <2>3. \A x \in Tasks : status'[x] = "new" => status[x] = "new"
    BY <1>0, <1>4 DEF ResumeFiber, Begin, TypeOK
  <2>4. Entries' = Entries
    BY <2>2 DEF Entries, Queue
  <2> HIDE DEF f
  <2>5. \A g \in Tasks : Unbegun(g)' => Unbegun(g)
    BY <2>2 DEF Unbegun
  <2> QED
    BY <1>a, <2>1, <2>2, <2>3, <2>4, <2>5, PinKept
<1>5. CASE RunCallback(w) /\ CanReset(w)
  <2> DEFINE t == ft[w].item
             f == IF cbFiber[w] = None THEN t ELSE cbFiber[w]
  <2>1. ft[w].kind = "cb" /\ t \in Tasks /\ status[t] # "new"
    BY <1>5, <1>c DEF RunCallback
  <2>2. f \in Tasks /\ status[f] # "new"
    BY <1>0, <2>1 DEF PinInv, Used, TypeOK
  <2>3. /\ pin' = pin /\ fibers' = fibers
        /\ ft'[w] = NoEntry /\ \A v \in Threads \ {w} : ft'[v] = ft[v]
        /\ cur'[w] = f /\ \A v \in Threads \ {w} : cur'[v] = cur[v]
        /\ cbFiber'[w] = f /\ \A v \in Threads \ {w} : cbFiber'[v] = cbFiber[v]
        /\ fstate'[f] = "EXEC" /\ prog'[f] = t
        /\ \A g \in Tasks \ {f} : fstate'[g] = fstate[g] /\ prog'[g] = prog[g]
        /\ \A x \in Tasks : status'[x] = "new" => status[x] = "new"
    BY <1>0, <1>5, <2>1, <2>2 DEF RunCallback, SwapIn, Begin, queueVars, TypeOK
  <2>4. Entries' \subseteq Entries
    BY <2>3 DEF Entries, Queue
  <2> HIDE DEF f, t
  <2>5. \A g \in Tasks : Unbegun(g)' => Unbegun(g) /\ prog'[g] = prog[g]
    BY <2>3 DEF Unbegun
  <2> QED
    BY <1>a, <2>1, <2>2, <2>3, <2>4, <2>5, PinKept
<1>6. CASE RunCallback(w) /\ ~CanReset(w)
  <2>1. /\ pin' = pin /\ prog' = prog /\ fstate' = fstate /\ status' = status /\ cur' = cur
        /\ cbFiber' = cbFiber /\ fibers' = fibers /\ ft' = ft
    BY <1>6 DEF RunCallback, queueVars, fiberVars
  <2> QED
    BY <1>1, <2>1
<1>7. ASSUME pin' = pin, prog' = prog, \A x \in Tasks : status'[x] = status[x],
             \A g \in Tasks : fstate'[g] # "INIT" \/ fstate'[g] = fstate[g],
             \A v \in Threads : ft'[v] \in {ft[v], NoEntry} /\ cur'[v] \in {cur[v], None},
             \A v \in Threads : cbFiber'[v] \in {cbFiber[v], None},
             cur[w] \in Tasks,
             \/ fibers' = fibers
             \/ \E e \in Entry : /\ e.kind = "fiber" /\ e.item = cur[w]
                                 /\ fibers' = Append(fibers, e)
      PROVE  PinInv'
  <2>1. cur[w] # None
    BY <1>7, ThreadsAssumption
  <2>2. \A x \in Entries' : x \in Entries \/ (x.kind = "fiber" /\ x.item = cur[w] /\ cur[w] # None)
    <3>1. CASE fibers' = fibers
      BY <1>7, <3>1 DEF Entries, Queue
    <3>2. ASSUME NEW e \in Entry, e.kind = "fiber", e.item = cur[w], fibers' = Append(fibers, e)
          PROVE  \A x \in Entries' : x \in Entries \/ (x.kind = "fiber" /\ x.item = cur[w] /\ cur[w] # None)
      <4>1. \A x \in Queue' : x \in Queue \/ x = e
        BY <1>0, <3>2, QueueGrows DEF TypeOK
      <4> QED
        BY <1>7, <2>1, <3>2, <4>1 DEF Entries
    <3> QED
      BY <1>7, <3>1, <3>2
  <2>3. \A g \in Tasks : Unbegun(g)' => Unbegun(g)
    BY <1>7 DEF Unbegun
  <2> QED
    BY <1>a, <1>7, <2>2, <2>3, PinKept
<1>8. CASE SettleReady(w)
  <2> DEFINE e == [kind |-> "fiber", item |-> cur[w], thr |-> AnyThread]
  <2>1. cur[w] \in Tasks
    BY <1>8, <1>b DEF SettleReady, At, HasFiber
  <2>2. e \in Entry /\ e.kind = "fiber" /\ e.item = cur[w] /\ fibers' = Append(fibers, e)
    BY <1>8, <2>1 DEF SettleReady, Enqueue, Entry
  <2>3. /\ pin' = pin /\ prog' = prog /\ status' = status /\ fstate' = fstate
        /\ \A v \in Threads : ft'[v] \in {ft[v], NoEntry} /\ cur'[v] \in {cur[v], None}
        /\ \A v \in Threads : cbFiber'[v] \in {cbFiber[v], None}
    BY <1>0, <1>8 DEF SettleReady, fiberVars, taskVars, TypeOK
  <2> HIDE DEF e
  <2> QED
    BY <1>7, <2>1, <2>2, <2>3
<1>9. CASE SetHold(w)
  <2>1. cur[w] \in Tasks
    BY <1>9, <1>b DEF SetHold, At, HasFiber
  <2>2. /\ pin' = pin /\ prog' = prog /\ status' = status /\ fibers' = fibers
        /\ \A g \in Tasks : fstate'[g] # "INIT" \/ fstate'[g] = fstate[g]
        /\ \A v \in Threads : ft'[v] \in {ft[v], NoEntry} /\ cur'[v] \in {cur[v], None}
        /\ \A v \in Threads : cbFiber'[v] \in {cbFiber[v], None}
    BY <1>0, <1>9 DEF SetHold, queueVars, taskVars, TypeOK
  <2> QED
    BY <1>7, <2>1, <2>2
<1>10. CASE YieldToReady(w) \/ YieldToHold(w)
  <2>1. cur[w] \in Tasks
    BY <1>10, <1>b DEF YieldToReady, YieldToHold, At, HasFiber
  <2>2. /\ pin' = pin /\ prog' = prog /\ status' = status /\ fibers' = fibers /\ ft' = ft
        /\ cur' = cur /\ cbFiber' = cbFiber
        /\ \A g \in Tasks : fstate'[g] # "INIT" \/ fstate'[g] = fstate[g]
    BY <1>0, <1>10 DEF YieldToReady, YieldToHold, YieldTo, queueVars, threadVars, TypeOK
  <2> QED
    BY <1>7, <2>1, <2>2
<1>11. ASSUME NEW thr \in Known(TaskPins), SwitchTo(w, thr)
       PROVE  PinInv'
  <2> DEFINE e == [kind |-> "fiber", item |-> cur[w], thr |-> thr]
  <2>1. cur[w] \in Tasks
    BY <1>11, <1>b DEF SwitchTo, At, HasFiber
  <2>2. e \in Entry /\ e.kind = "fiber" /\ e.item = cur[w] /\ fibers' = Append(fibers, e)
    BY <1>11, <2>1, ThreadsAssumption DEF SwitchTo, Enqueue, Entry, Known
  <2>3. /\ pin' = pin /\ prog' = prog /\ status' = status /\ fstate' = fstate /\ ft' = ft
        /\ cur' = cur /\ cbFiber' = cbFiber
    BY <1>11 DEF SwitchTo, fiberVars, threadVars
  <2> HIDE DEF e
  <2> QED
    BY <1>7, <2>1, <2>2, <2>3
<1>12. ASSUME pin' = pin, fibers' = fibers, cbFiber' = cbFiber,
              \A v \in Threads : ft'[v] \in {ft[v], NoEntry} /\ cur'[v] \in {cur[v], None},
              \A g \in Tasks : fstate'[g] # "INIT" \/ prog'[g] = None
                               \/ (fstate'[g] = fstate[g] /\ prog'[g] = prog[g]),
              \A f \in Tasks : prog'[f] \in {prog[f], None},
              \A x \in Tasks : status'[x] = "new" => status[x] = "new"
       PROVE  PinInv'
  <2>1. Entries' \subseteq Entries
    BY <1>12 DEF Entries, Queue
  <2>2. \A g \in Tasks : Unbegun(g)' => Unbegun(g) /\ prog'[g] = prog[g]
    BY <1>12 DEF Unbegun
  <2> QED
    BY <1>a, <1>12, <2>1, <2>2, PinKept
<1>13. CASE SettleDead(w)
  <2>1. /\ pin' = pin /\ fibers' = fibers /\ cbFiber' = cbFiber /\ status' = status
        /\ \A v \in Threads : ft'[v] \in {ft[v], NoEntry} /\ cur'[v] \in {cur[v], None}
    BY <1>0, <1>13 DEF SettleDead, queueVars, taskVars, TypeOK
  <2>2. \A g \in Tasks : /\ fstate'[g] # "INIT" \/ prog'[g] = None
                            \/ (fstate'[g] = fstate[g] /\ prog'[g] = prog[g])
                         /\ prog'[g] \in {prog[g], None}
    <3>1. cur[w] \in Tasks
      BY <1>13, <1>b DEF SettleDead, At, HasFiber
    <3> QED
      BY <1>0, <1>13, <3>1 DEF SettleDead, fiberVars, TypeOK
  <2> QED
    BY <1>12, <2>1, <2>2
<1>14. ASSUME NEW st \in Dead, Finish(w, st)
       PROVE  PinInv'
  <2>1. /\ pin' = pin /\ fibers' = fibers /\ cbFiber' = cbFiber /\ ft' = ft /\ cur' = cur
    BY <1>14 DEF Finish, queueVars, threadVars
  <2>2. cur[w] \in Tasks
    BY <1>14, <1>b DEF Finish, At, HasFiber
  <2>3. \A g \in Tasks : /\ fstate'[g] # "INIT" \/ (fstate'[g] = fstate[g] /\ prog'[g] = prog[g])
                         /\ prog'[g] \in {prog[g], None}
    BY <1>0, <1>14, <2>2 DEF Finish, TypeOK, Dead
  <2>4. \A x \in Tasks : status'[x] = "new" => status[x] = "new"
    BY <1>0, <1>14 DEF Finish, TypeOK
  <2> QED
    BY <1>12, <2>1, <2>3, <2>4
<1>15. ASSUME NEW t \in Tasks, NEW kind \in Kinds, NEW thr \in Known(TaskPins), Spawn(w, t, kind, thr)
       PROVE  PinInv'
  <2>1. thr \in Threads \cup {AnyThread}
    BY ThreadsAssumption DEF Known
  <2> QED
    BY <1>15, <2>1, PinSubmit DEF Spawn, threadVars
<1> QED
  BY <1>2, <1>3, <1>4, <1>5, <1>6, <1>8, <1>9, <1>10, <1>11, <1>13, <1>14, <1>15
     DEF ThreadStep, RunStep, Body

LEMMA PinMain ==
  ASSUME TypeInv, TypeInv', PinInv, Main
  PROVE  PinInv'
<1>1. Caller \in Threads
  BY DEF Threads
<1>2. ASSUME NEW t \in Tasks, NEW kind \in Kinds, NEW thr \in Known(UserPins),
             UserSchedule(t, kind, thr)
      PROVE  PinInv'
  <2>1. thr \in Threads \cup {AnyThread}
    BY ThreadsAssumption DEF Known
  <2> QED
    BY <1>1, <1>2, <2>1, PinSubmit DEF UserSchedule, threadVars
<1>3. CASE Start \/ StopStep
  <2>1. /\ pin' = pin /\ prog' = prog /\ fstate' = fstate /\ status' = status /\ cur' = cur
        /\ cbFiber' = cbFiber /\ fibers' = fibers /\ ft' = ft
    BY <1>3 DEF Start, StopStep, StopFlags, StopRoot, RootReturns, Join, queueVars, fiberVars,
                threadVars, taskVars
  <2> QED
    BY <2>1 DEF PinInv, Entries, Queue, Used, Unbegun
<1> QED
  BY <1>2, <1>3 DEF Main

LEMMA PinInit == Init => PinInv
<1> SUFFICES ASSUME Init
             PROVE  PinInv
  OBVIOUS
<1>1. Entries = {}
  BY DEF Init, Entries, Queue
<1>2. /\ \A w \in Threads : ft[w] = NoEntry /\ cur[w] = None /\ cbFiber[w] = None
      /\ \A f \in Tasks : prog[f] = None
  BY DEF Init
<1> QED
  BY <1>1, <1>2 DEF PinInv, Used, Unbegun

LEMMA PinStep == TypeInv /\ TypeInv' /\ PinInv /\ [Next]_vars => PinInv'
<1> SUFFICES ASSUME TypeInv, TypeInv', PinInv, [Next]_vars
             PROVE  PinInv'
  OBVIOUS
<1>1. CASE UNCHANGED vars
  BY <1>1 DEF vars, queueVars, fiberVars, threadVars, taskVars, PinInv, Entries, Queue, Used, Unbegun
<1> QED
  BY <1>1, PinThread, PinMain DEF Next

\* A task is begun by the thread that took its entry, and the entry carries the
\* requested thread.
LEMMA BeginStep ==
  ASSUME TypeInv, PinInv, [Next]_vars, NEW t \in Tasks, status[t] = "queued", status'[t] = "begun",
         NEW v \in Threads, pc[v] = "dispatch", pc'[v] = "run"
  PROVE  pin[t] \in {AnyThread, v}
<1>0. TypeOK /\ NoEntry.kind = "none"
  BY DEF TypeInv, NoEntry
<1>1. PICK w \in Threads : RunStep(w)
  <2>1. ~UNCHANGED status /\ ~(\E u \in Tasks : status' = [status EXCEPT ![u] = "queued"])
        /\ ~(\E u \in Tasks : status' = [status EXCEPT ![u] = "done"])
    BY <1>0 DEF TypeOK
  <2>2. ASSUME Main
        PROVE  FALSE
    BY <2>1, <2>2 DEF Main, UserSchedule, Submit, Start, StopStep, StopFlags, StopRoot,
       RootReturns, Join, taskVars
  <2>3. ASSUME NEW w \in Threads, Idle(w) \/ Tickle(w)
        PROVE  FALSE
    BY <2>1, <2>3 DEF Idle, Tickle, taskVars
  <2>4. ASSUME NEW w \in Threads, NEW st \in Dead, Finish(w, st)
        PROVE  FALSE
    <3>1. pc'[v] = "run" => v # w
      BY <1>0, <2>4 DEF Finish, Goto, TypeOK
    <3>2. pc'[v] = pc[v] \/ v = w
      BY <1>0, <2>4 DEF Finish, Goto, TypeOK
    <3> QED
      BY <3>1, <3>2
  <2>5. ASSUME NEW w \in Threads, NEW u \in Tasks, NEW kind, NEW thr, Spawn(w, u, kind, thr)
        PROVE  FALSE
    BY <2>1, <2>5 DEF Spawn, Submit
  <2>6. ASSUME NEW w \in Threads, NEW thr,
               YieldToReady(w) \/ YieldToHold(w) \/ SwapOut(w) \/ SwitchTo(w, thr)
        PROVE  FALSE
    BY <2>1, <2>6 DEF YieldToReady, YieldToHold, YieldTo, SwapOut, SwitchTo, taskVars
  <2>7. Next
    BY <2>1 DEF vars, taskVars
  <2> QED
    BY <2>2, <2>3, <2>4, <2>5, <2>6, <2>7 DEF Next, ThreadStep, Body
<1>2. ResumeFiber(w) \/ RunCallback(w)
  BY <1>1 DEF RunStep, Pick, PickNothing, SkipDead, Ret, SettleReady, SettleDead, SettleOther, SetHold,
              ThreadExit, IdleIn, IdleOut, taskVars
<1>3. w = v
  BY <1>0, <1>2 DEF ResumeFiber, RunCallback, SwapIn, Goto, TypeOK
<1>4. ft[w] # NoEntry /\ ft[w] \in Entries /\ ft[w].thr \in {AnyThread, w}
  BY <1>0, <1>2 DEF ResumeFiber, RunCallback, Entries, PinInv
<1>5. CASE ResumeFiber(w)
  <2>1. /\ ft[w].kind = "fiber" /\ Unbegun(ft[w].item) /\ t = prog[ft[w].item]
    BY <1>0, <1>5 DEF ResumeFiber, Begin, Unbegun, TypeOK
  <2>2. ft[w].item \in Tasks
    BY <1>4, EntryFacts
  <2> QED
    BY <1>3, <1>4, <2>1, <2>2 DEF PinInv
<1>6. CASE RunCallback(w)
  <2>1. ft[w].kind = "cb" /\ t = ft[w].item
    BY <1>0, <1>6 DEF RunCallback, Begin, TypeOK
  <2> QED
    BY <1>3, <1>4, <2>1 DEF PinInv
<1> QED
  BY <1>2, <1>5, <1>6

\* A task starts on the thread named in schedule(), whoever scans the queue and
\* whatever fiber it is given: the entry that carries the thread stays with the
\* task until somebody begins it, also when tasks switch threads.
THEOREM BeginsWhereAsked == Spec => BeginsOnPinnedThread
<1>1. TypeInv /\ PinInv /\ [Next]_vars =>
        [\A t \in Tasks : status[t] = "queued" /\ status'[t] = "begun" =>
           \A w \in Threads : pc[w] = "dispatch" /\ pc'[w] = "run" =>
             pin[t] \in {AnyThread, w}]_vars
  BY BeginStep
<1> QED
  BY <1>1, TypeInit, TypeStep, PinInit, PinStep, PTL DEF Spec, BeginsOnPinnedThread

================================================================================
