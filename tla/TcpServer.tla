----------------------------- MODULE TcpServer -----------------------------
(***************************************************************************)
(* TcpServer: the listening sockets, the accept loops start() hands to the *)
(* accept worker, and stop(), which raises a flag and leaves the closing   *)
(* of the sockets to a task of that worker.  A loop keeps its socket       *)
(* however often the server is stopped, bound and started meanwhile.  Loops*)
(* and tasks are fibers of the accept worker: one keeps its thread until it*)
(* waits or has ended, and as many run at a time as the worker has threads.*)
(***************************************************************************)
EXTENDS Integers, Sequences, FiniteSets
LOCAL INSTANCE SequencesExt

CONSTANTS
  Socks,          \* listening sockets that may be bound, one after another
  AcceptThreads,  \* numbers of threads the accept worker may have
  MaxStarts,      \* bound on the successful calls of start()
  MaxStops,       \* bound on the stop tasks that wait at a time
  MaxWaiting      \* bound on the connections that wait at a socket

VARIABLES
  threads,     \* how many threads the accept worker has
  isStop,      \* __isStop
  bound,       \* __socks
  open,        \* sockets the kernel listens on
  spent,       \* sockets that have been bound so far
  starts,      \* start() has handed over loops so many times
  loop,        \* loop[<<n, s>>]: where the loop of the n-th start is, on socket s
  queue,       \* the accept worker's queue: loops and tasks of stop()
  running,     \* those its threads are executing
  closing,     \* {} or {s}: the task is between cancelAll() and close_f() of s
  waiting      \* waiting[s]: connections established and not accepted

serverVars == <<threads, isStop, bound, open, spent, starts, loop, queue, running,
                closing, waiting>>

Loops == (1 .. MaxStarts) \X Socks
StopTask == <<0, "stop">>
StopPending == StopTask \in running \cup Range(queue)

ServerInit ==
  /\ threads \in AcceptThreads
  /\ isStop = TRUE /\ bound = {} /\ open = {} /\ spent = {}
  /\ starts = 0 /\ loop = [l \in Loops |-> "none"]
  /\ queue = <<>> /\ running = {} /\ closing = {}
  /\ waiting = [s \in Socks |-> 0]

\* Definitions named Bad... are faulty variants of the definition that follows
\* them; no specification uses them.

\* bind(): one more listening socket.  If one of the addresses cannot be bound,
\* all sockets are forgotten, which closes them.  The users of the server bind
\* while no accept loop and no task of stop() runs: a loop would keep its
\* forgotten socket, and stop() could not reach it any more.
Bind(s) ==
  /\ s \notin spent /\ spent' = spent \cup {s}
  /\ StopTask \notin running
  /\ \A l \in Loops : loop[l] \in {"none", "ended"}
  /\ \/ bound' = bound \cup {s} /\ open' = open \cup {s} /\ UNCHANGED waiting
     \/ bound' = {} /\ open' = {} /\ waiting' = [t \in Socks |-> 0]
  /\ UNCHANGED <<threads, isStop, starts, loop, queue, running, closing>>

\* start(): a loop for each socket.  With several threads its users wait for the
\* task of an earlier stop(): a second loop on a socket that is still open would
\* register next to the first, and addEvent() asserts.
Start ==
  /\ isStop /\ starts < MaxStarts
  /\ threads > 1 => ~StopPending
  /\ isStop' = FALSE /\ starts' = starts + 1
  /\ LET new == {starts'} \X bound
     IN  /\ loop' = [l \in Loops |-> IF l \in new THEN "check" ELSE loop[l]]
         /\ queue' = queue \o SetToSeq(new)
  /\ UNCHANGED <<threads, bound, open, spent, running, closing, waiting>>

BadStop ==
  /\ threads > 1 => ~StopPending
  /\ isStop' = TRUE
  /\ UNCHANGED <<threads, bound, open, spent, starts, loop, queue, running, closing, waiting>>
\* stop(): the flag now, the sockets in a task.  With several threads it is not
\* called again before that task has ended: two tasks would walk __socks at a time.
Stop ==
  /\ Cardinality({i \in DOMAIN queue : queue[i] = StopTask}) < MaxStops
  /\ threads > 1 => ~StopPending
  /\ isStop' = TRUE /\ queue' = Append(queue, StopTask)
  /\ UNCHANGED <<threads, bound, open, spent, starts, loop, running, closing, waiting>>

\* A thread of the worker takes the next fiber.
Take ==
  /\ queue # <<>> /\ Cardinality(running) < threads
  /\ running' = running \cup {Head(queue)} /\ queue' = Tail(queue)
  /\ UNCHANGED <<threads, isStop, bound, open, spent, starts, loop, closing, waiting>>

\* The task, for one socket after the other: cancelAll() wakes who waits for it ...
StopCancels(s) ==
  /\ StopTask \in running /\ closing = {} /\ s \in bound \cap open
  /\ closing' = {s}
  /\ LET woken == {l \in Loops : l[2] = s /\ loop[l] = "wait"}
     IN  /\ loop' = [l \in Loops |-> IF l \in woken THEN "accept" ELSE loop[l]]
         /\ queue' = queue \o SetToSeq(woken)
  /\ UNCHANGED <<threads, isStop, bound, open, spent, starts, running, waiting>>

\* ... and close_f() closes it; the kernel drops what nobody has accepted.
StopCloses(s) ==
  /\ s \in closing /\ closing' = {}
  /\ open' = open \ {s} /\ waiting' = [waiting EXCEPT ![s] = 0]
  /\ UNCHANGED <<threads, isStop, bound, spent, starts, loop, queue, running>>

\* When all are closed they are forgotten.
StopEnds ==
  /\ StopTask \in running /\ closing = {} /\ bound \cap open = {}
  /\ bound' = {} /\ running' = running \ {StopTask}
  /\ UNCHANGED <<threads, isStop, open, spent, starts, loop, queue, closing, waiting>>

\* startAccept(): while (!__isStop) ...
LoopCheck(l) ==
  /\ l \in running /\ loop[l] = "check"
  /\ IF isStop THEN loop' = [loop EXCEPT ![l] = "ended"] /\ running' = running \ {l}
               ELSE loop' = [loop EXCEPT ![l] = "accept"] /\ UNCHANGED running
  /\ UNCHANGED <<threads, isStop, bound, open, spent, starts, queue, closing, waiting>>

\* ... accept() returns a connection, which is handed to the worker; or it fails
\* at once, on a closed descriptor or one that FDManager has forgotten; or there
\* is none yet, and the hook goes on to register.
LoopAccept(l) ==
  /\ l \in running /\ loop[l] = "accept"
  /\ \/ /\ waiting[l[2]] > 0 /\ waiting' = [waiting EXCEPT ![l[2]] = @ - 1]
        /\ loop' = [loop EXCEPT ![l] = "check"]
     \/ /\ l[2] \notin open \/ l[2] \in closing
        /\ loop' = [loop EXCEPT ![l] = "check"] /\ UNCHANGED waiting
     \/ /\ l[2] \in open /\ waiting[l[2]] = 0
        /\ loop' = [loop EXCEPT ![l] = "register"] /\ UNCHANGED waiting
  /\ UNCHANGED <<threads, isStop, bound, open, spent, starts, queue, running, closing>>

\* The hook's addEvent() and hold; addEvent() fails on a closed descriptor, and
\* accept() with it.
LoopRegister(l) ==
  /\ l \in running /\ loop[l] = "register"
  /\ IF l[2] \in open THEN loop' = [loop EXCEPT ![l] = "wait"] /\ running' = running \ {l}
                      ELSE loop' = [loop EXCEPT ![l] = "check"] /\ UNCHANGED running
  /\ UNCHANGED <<threads, isStop, bound, open, spent, starts, queue, closing, waiting>>

\* The event of a connection wakes the loop, which retries.
LoopWakes(l) ==
  /\ loop[l] = "wait" /\ waiting[l[2]] > 0
  /\ loop' = [loop EXCEPT ![l] = "accept"] /\ queue' = Append(queue, l)
  /\ UNCHANGED <<threads, isStop, bound, open, spent, starts, running, closing, waiting>>

\* The kernel establishes a connection.
Arrive(s) ==
  /\ s \in open /\ waiting[s] < MaxWaiting
  /\ waiting' = [waiting EXCEPT ![s] = @ + 1]
  /\ UNCHANGED <<threads, isStop, bound, open, spent, starts, loop, queue, running, closing>>

LoopStep(l) == LoopCheck(l) \/ LoopAccept(l) \/ LoopRegister(l)

ServerNext ==
  \/ \E s \in Socks : Bind(s) \/ Arrive(s) \/ StopCancels(s) \/ StopCloses(s)
  \/ Start \/ Stop \/ Take \/ StopEnds
  \/ \E l \in Loops : LoopStep(l) \/ LoopWakes(l)

\* A thread of the accept worker that is free takes what is queued, and executes
\* it until it waits or has ended (Scheduler's QueuedIsExecuted).  Nothing is
\* assumed of a loop that waits.
ServerFairness ==
  /\ WF_serverVars(Take) /\ WF_serverVars(StopEnds)
  /\ \A s \in Socks : WF_serverVars(StopCancels(s)) /\ WF_serverVars(StopCloses(s))
  /\ \A l \in Loops : WF_serverVars(LoopStep(l))

\* ---- properties ----------------------------------------------------------

\* With several threads a loop can register between the task's cancelAll() and its
\* close_f() (Hook.cpp:352-356): nobody wakes it any more.
Stranded(l) == threads > 1 /\ loop[l] = "wait" /\ l[2] \notin open

\* stop() ends every accept loop, of this and of every earlier start(), unless
\* the server is started again meanwhile: a loop that waits in accept() is woken
\* by the task, one that is about to wait finds the socket closed.  On a worker
\* of one thread none is left behind, on others only one that is stranded.
StopEndsAccept ==
  isStop ~> ~isStop \/ \A l \in Loops : loop[l] \in {"none", "ended"} \/ Stranded(l)

=============================================================================
