# Verification of sylar1

sylar1 is a C++ server framework: coroutines (`Fiber`) run on a pool of threads
(`Scheduler`), an epoll loop (`IOManager`) resumes them when timers expire or
descriptors become ready, and hooked system calls (`Hook`) turn blocking socket
code into coroutine switches.  TCP and HTTP servers and clients sit on top.

This directory holds TLA+ models of the coroutine core and of what is built on
it (HTTP exchange, generated parsers, `Uri`, `ByteArray`, `TcpServer`), the TLC
runs that check them, and TLAPS proofs about the scheduler, the timers, the
descriptor events of `IOManager`, the hooked calls, the HTTP exchange and
`ByteArray`.  The sources are GBK encoded; line numbers refer to `src/`.

## 1. The system

| component | state | operations | interacts with |
|---|---|---|---|
| Fiber | `__state`, `__cb`, stack, context | swapIn, swapOut, call, back, reset, YieldToReady, YieldToHold, MainFunc | Scheduler reads and writes its state |
| Scheduler | `__fibers`, active / idle counts, stop flags, threads | schedule, run, start, stop, stopping, switchTo, virtual idle / tickle | Fiber, Thread; IOManager overrides idle, tickle, stopping |
| TimerManager | ordered set of timers, `__tickled`, `__previouseTime` | addTimer, cancel, refresh, reset, getNextTimer, listExpiredCb | IOManager::idle; onTimerInsertedAtFront calls tickle |
| IOManager | fd contexts, pending count, epoll fd, tickle pipe | addEvent, delEvent, cancelEvent, cancelAll, idle, stopping | Scheduler, TimerManager, kernel |
| Hook | per call: condition timer, `timer_info` | do_io, connect_with_timeout, sleep family, accept, close, fcntl, setsockopt | IOManager, FDManager |
| FDManager | table of descriptor contexts | get, del, timeouts, flags | Hook |
| Thread, locks | pthread wrappers, start-up semaphore | ctor, join, wait, notify | Scheduler, Log |
| Config | variables, listeners, rwlock | Lookup, setValue, addListener | Log, Fiber, TcpServer |
| Log | loggers, appenders, formatter | log, init of the pattern | everything |
| ByteArray, SocketStream | chunk list, position, size, capacity | read / write, positions, iovecs, readFixSize | Socket, Http |
| Socket, Address | fd, peer addresses | bind, accept, connect, send, recv | Hook, TcpServer |
| TcpServer | listening sockets, `m_isStop` | bind, start, accept loop, stop | IOManager, Socket |
| HTTP parsers | automaton state, offsets of the text being read, error flag | execute, isFinished, callbacks | HttpSession, HttpConnection |
| Http messages | method, path, headers, cookies, body | get / set, dump | parsers, sessions |
| Uri | parts of a URI; automaton and mark while parsing | Create, getters | HttpConnection |
| HttpSession, HttpServer | buffer of a connection, keep-alive | recvRequest, handleClient | TcpServer, Servlet |
| HttpConnection, pool | idle connections, total count | getConnection, release, doRequest | Socket, Stream |
| ServletDispatch | exact and pattern tables, rwlock | addServlet, delServlet, getMatched, handle | HttpServer |

What is hard here is concurrency: fibers migrate between threads, every
operation on the core may meet every other, and the code relies on the order of
single assignments.  `PROJECT.json` lists the hazards line by line.  What makes
each component right:

* **Scheduler, Fiber** - a scheduled task is executed exactly once; a stack is
  never run by two threads; the two counters are exact; a pinned task starts on
  its thread; `stop()` returns, and only when everything is done.
* **TimerManager** - no wake-up is lost, no callback is early, cancelled
  callbacks never fire, one-shot ones fire once, every due one is collected, also
  when the wall clock is set back.
* **IOManager** - the pending count is exact, a registered event always has its
  waiter, triggered events are registered, nothing handed over is lost.
* **Hook** - each wait of a blocked call is ended by exactly one of event, timer
  and close; calls with a timeout return; nothing of a call outlives it.
* **HTTP parsers, Uri** - the generated automaton accepts what its grammar says
  and runs the actions the grammar embeds; each callback gets the text it is
  named for; parts come in order; finished means reported.
* **HttpConnection, pool, HttpSession, HttpServer** - the answer a request gets is
  its own; a connection has one owner and is counted once; requests return;
  sessions end when their client is gone.
* **ByteArray** - what is read is what was written, at every chunk boundary; the
  chunk pointer is where the position is; values survive encoding and decoding.
* **TcpServer** - after `stop()` every accept loop ends, if its worker has one thread.
* **Not modelled** - Config: listeners see the changes in the order of the writes;
  FDManager: a descriptor number has the attributes of its present socket;
  Servlet: an exact match wins over a pattern, the default over nothing.

## 2. Modules

| module | models | by |
|---|---|---|
| `TaskPool` | what the scheduler promises: each task is begun and ended once, after `stop()` nothing is left | abstract specification |
| `Scheduler` | `Scheduler::run`, schedule, start, stop, and the fibers it swaps | one action per critical section, atomic access, state change or context switch |
| `IOManager` | `IOManager::idle`, events, tickle, `stopping()` | EXTENDS Scheduler: uses its `RunStep`, `Body` and `Main`, replaces `Idle` and `Tickle` as the C++ class overrides the virtual functions |
| `TimerManager` | the timer queue, its users, and the threads sleeping on it | one action per critical section |
| `HookIO` | `do_io` with its condition timer, `connect_with_timeout`, `close()` | one action per interruptible step |
| `Automaton` | an arc of a generated parser | helper |
| `RequestMachine`, `ResponseMachine`, `UriMachine` | `http11_parser.cpp`, `httpclient_parser.cpp`, `Uri.cpp`: every state and arc of the generated `switch` | tables: state, characters, next state, actions |
| `Grammar` | what a ragel grammar expects next | reference semantics |
| `HttpGrammar` | `http11_parser.rl`, `httpclient_parser.rl` | the rules of both grammars |
| `HttpMessage` | the order in which parsers report the parts of a message | abstract specification |
| `HttpParser` | one parser, fed by the reading loop in pieces | one action per character, per ragel action, per return of `execute()` |
| `UriParser` | `Uri::Create` and `Uri.rl` | one action per character with all its ragel actions (nothing can come in between) |
| `HttpExchange` | pool, connections, sessions and what is on the wire | one action per call that may wait |
| `ByteStream` | a sequence of bytes with a position | abstract specification |
| `ByteArray` | the chunk list, with what `SocketStream` does to it | one action per operation, one per chunk of a file operation |
| `ByteCodec` | the typed reads and writes over the flat stream | one action per value |
| `TcpServer` | bind, start, stop and its task, accept loops, and the queue and threads of the accept worker | one action per step another thread can come between |
| `Scheduler_proofs`, `SchedulerTasks_proofs`, `TimerManager_proofs`, `IOManager_proofs`, `HookIO_proofs`, `HttpExchange_proofs`, `ByteArray_proofs` | theorems about the module they are named after | |
| `IOTasks_proofs` | the tasks of `IOManager`, from those of `Scheduler` | |
| `MC...` | values of constants and symmetry sets for TLC; `MCLibrary` puts `ByteArray`, `ByteCodec`, `TcpServer` and `UriParser` side by side | |

### Scheduler

Program counters follow `run()`: `pick` (the locked scan), `dispatch` (the three
branches), `run` (a task's code), `swapout` (its state is set, its context not
yet saved), `ret` (back in `run()`, before `--__active_thread_count`), `settle`
and `sethold` (the branches on the state), `idle`, `idleout`.  The steps between
`--active` and the re-scheduling, and between reading the state and overwriting
it with HOLD, are separate because other threads act in between.

A fiber is named after the task it is created for; `prog` is its `__cb`.
`toTickle` counts the `tickle()` calls a thread has still to make: the code makes
them after the lock is released and before anything else, so a thread with such
a call does nothing but `Tickle`.  `fault` records a failed assertion of
`Fiber.cpp`, or a fiber swapped in while a thread is on its stack; the model
stops there.  `status` and `pin` are history variables: how far a task is and
which thread `schedule()` named.

What a task does is free: it ends, throws, yields, schedules other tasks, or, with
`UseSwitch`, calls `switchTo`: for another thread it schedules itself there and
holds, otherwise it goes on.  The bound is `MaxYield`.

### IOManager

Adds the timers as sets (`timers`, `due`), the fd contexts (`fdEvents`,
`waiter`), the tickle pipe (`signal`: its edge-triggered readiness), and
epoll's reports (`edge`).  Time is abstracted: any timer may become due and any
sleep may end at any moment, since no sleep is longer than MAX_TIMEOUT.  The fd's
lock is held across the several triggers of one report, `fdLock` says by whom.
Assumed: `epoll_ctl` succeeds, `use_caller` is false.  `addEvent` is called on a
thread that has a scheduler, whose pointer it stores (`IOManager.cpp:323`) and
`triggerEvent` follows (94, 97): by tasks.  The calling thread has none, so it only
adds timers (`UserArms`).  `delEvent` drops a callback or a fiber; `dropped` is a
history variable, the fibers taken from their event in this way.

### TimerManager

Has the real clock: `next`, `prevTime`, deadlines.  A timer is constructed
before the lock is taken and inserted under it; the user that finds it at the
front and `__tickled` clear notifies after the unlock.  A poller runs the loop of
`IOManager::idle`.  `Hour` and `IntLimit` stand for 3600000 and 2^31.  The cast
to `int` and the unsigned subtraction of `detectClockRollover` are modelled by
what they compute.  Timers of equal time are ordered by address, which is
nondeterministic.  `cancelled`, `listed` and `clockSet` are history variables.

### HookIO

A fiber calls `do_io` on a shared descriptor, each fiber for an event of its own
(reader, writer).  `TimedFibers` are those whose event has a timeout; the first
call of a `Connectors` fiber is `connect_with_timeout`, which waits once and then
reads SO_ERROR.  Everything that runs occupies one of `workers` threads from one
yield to the next: with one worker the code between two yields is atomic, with
three it interleaves with the timer callback and `close()`.  That a fiber is off
its stack when it is resumed is the subject of `Scheduler` and assumed here.

### Parsers

The three automaton modules are the generated code as data: a case label of the
`switch` is a state, a test of the character an arc, the label it jumps to the
actions.  Characters are grouped: two that no state tells apart share a
representative, named in the module's comment.

Beside the automaton runs its grammar.  `Grammar` gives the meaning of ragel's
operators on a rule table: `expect` is the set of sequences that may still come,
and each says which actions are embedded on the way.  `AutomatonIsGrammar` and
`TakesWholeParts` compare the two after every character.

A text is given to a callback as the distance from a register (`mark`,
`field_start`, `query_start`) to the character read.  Its bytes are left out.
`HttpParser` keeps for each register what has been reported since it was set
(`since`), and that a new call of `execute()` set it (`"call"`): this is what
tells a text from a wrong or truncated one.  `UriParser` remembers instead who
set the only mark last - the reading of the string that takes the text, or
another one.  `uri_relaxed`, never initialised, is a choice at the start.
`execute()` resets `mark` and `field_start`, not `query_start`: of that one
`HttpParser` knows whether it is an offset behind the start of an earlier buffer
(`ahead`), and `on_request_query` then throws or loses text (`QueryThrows`).

### HttpExchange

`conns`, `total`, `used` are the pool's fields and the request count of a
connection, `pc` the place of a fiber in `doRequest`, `session` that of
`handleClient`.  A message on the wire is its head up to the Content-Length name,
the rest of its head, and its body; a read takes any prefix.  Hence a head may be
cut in that header, and `Parse` says what follows from the parsers' result for a
field split over two reads (the header is lost).  Timeouts are a choice
(`RecvFails`, `ServerRecvFails`) that `faults` records.  A servlet answers, or
never returns, and a send may be held up for ever.  A plan (`Plans`) fixes who asks
how often, whether the server keeps connections alive, and whether bodies read like
messages (`mimics`).  A body that a cut head has left in the socket is an error for
the next message on it, unless it reads like a request, a response or the header of
a chunk (`httpclient_parser.rl:148-156`): then it is taken for one (`RecvStray`,
`ServerRecvStray`).  From there on messages begin and end anywhere on this
connection, so what the parser makes of them is left open; `stray` is the history
variable that says where.

### ByteArray, ByteCodec, TcpServer

`ByteArray` has the chunk list as `memory`, the pointer `cur` (0 is null) moved as
the code moves it, and `call`, the operation finished last; `Junk` is the content
of new memory.  `ByteStream` is the abstract specification, with the chunks
flattened (`Flat`) as the refinement mapping.  `ByteCodec` scales 7 data bits to 2
and 32 bits to 9, so that the last byte of the longest number is partly used, as
in the program; a length beyond the 16 bits of `writeStringF16` is not covered.  In
`TcpServer` a loop keeps its socket (`loop[<<n, s>>]`), since the function object
copies the shared pointer.  Loops and the task of `stop()` are fibers of the accept
worker: `queue` and `running` are its queue and its threads, a fiber keeps its
thread until it waits or has ended.  With one thread `accept()`, EAGAIN, `addEvent`
and the hold exclude `cancelAll` and `close_f`; with two they interleave.  Assumed of
two threads: neither `start()` nor `stop()` is called before the task of an earlier
`stop()` has ended, or a second loop would register on a socket that has one
(`addEvent` asserts) and two tasks would walk `__socks`.

## 3. Runs

| run | shows | bounds |
|---|---|---|
| `sched_stop` | no loss, no failed assertion, `stop()` returns and leaves nothing, refinement of `TaskPool` | 2 workers, or 1 and the caller in the loop; 2 tasks pinned anywhere by the user, one yield each; no `switchTo` |
| `sched_switch` | exact counters; a pinned task starts on its thread | 2 workers, 2 tasks pinned anywhere by users and tasks, `switchTo`; symmetry in tasks and workers |
| `timer_race` | lost wake-ups, early and repeated callbacks | 2 timers, 2 users, 2 pollers, periods above and at MAX_TIMEOUT |
| `timer_clock` | a due timer is collected, a cancelled one never, `cancel()` finds its timer | 1 timer, 1 user, 1 poller, set back by 1 and 3 (hour = 2) |
| `iom_one` | a report finds a registered waiter, everything queued is executed, stop leaves nothing, but for fibers `delEvent` drops | 1 worker, 2 tasks, 1 descriptor with both events |
| `iom_two` | the pending count is exact, nothing is lost | 2 workers, timers and events armed by tasks, timers by the user too, 2 tasks, 1 descriptor |
| `hook` | one wake-up per wait, no leftovers, returns, nobody is misled, close wakes all | 1 worker with reader and connecting writer, or 3 workers with the reader; 2 calls each |
| `parsers` | automata against grammars, texts, order, finished | both parsers, every sequence of characters, cut anywhere: no bound |
| `http` | own answers, failures for cause, one owner, requests return, sessions end | 1 client with 3 requests, 2 clients with 2, or 1 with 2 and bodies that read like messages; a connection is used twice |
| `library` | `ByteArray` is a byte stream; values are read back; accept loops end; `Uri::Create` against its grammar | 3 chunks of 3 bytes; 9 bits, two values; 2 sockets, 2 starts, 2 stops, accept workers of one and of two threads; every string |
| `sched_race`, `hook_timeout` | a statement of the code or its docs that does not hold, see section 5 | |

Why the bounds are enough: two threads produce every pairwise interleaving of
steps that touch the queue, a fiber or a counter, and a second task keeps the queue
non-empty while one runs.  One yield makes a fiber pass through the re-scheduling
path; the second visit starts from the same states.  Two timers are needed for
one to be inserted before the other, two users for one to rely on the other's
notification.  A second `do_io` call makes timers of an earlier call visible; the
third worker lets timer callback, closer and fiber be under way at once.  The
parsers have finitely many states and are explored completely.  Three requests
use a connection, use it again, and find it at its limit; two clients at a time
are needed for one to meet what the other left.  Three chunks have a first, an
inner and a last one, and payloads end before, at and behind a boundary.

Deadlock is not checked: every model stops when its tasks, calls, requests or
characters are used up, and `fault` stops it on purpose.  What must not stop is
stated as liveness.  The four parts of `library` do not interact; they share one
run because each is small, and a behaviour is one of a single part.

Definitions named `Bad...` are faulty variants of the definition below them, at
least one for each property, kept to show that the property notices the fault.

### Fairness

* `Scheduler`, `IOManager`: weak fairness of each thread (the kernel runs every
  runnable thread; mutexes are held for one step) and of the steps of `stop()`
  after its first.  Nothing forces the user to stop, or a task to do anything but
  end at last, which `ThreadStep` contains.
* `IOManager`: a timer becomes due, and a registered descriptor becomes ready: the
  second is an assumption on the environment and only `QueuedIsExecuted` uses it.
* `TimerManager`: pollers run, time passes and is not set back for ever, and a
  user finishes a call it has begun.
* `HookIO`: the workers do not rest while there is work.  The work of a call is
  bounded, so nothing is starved.  Peers may stay silent, nobody has to close.
* `HttpExchange`: fibers run, and a receive that nothing else ends is ended by the
  timeout of its socket, which is what `HookIO` shows for one worker (with several
  the timeout may be lost, `hook_timeout`).  Nothing makes a servlet return, or a send:
  `doRequest` sets a timeout for receiving only (`HttpConnection.cpp:440`), so
  `writeFixSize` (`Stream.cpp:39-51`) waits as long as the peer does not read.
* `TcpServer`: a thread of the accept worker takes what is queued (`QueuedIsExecuted`)
  and executes it until it waits or has ended.  Nothing is assumed of a loop that
  waits.
* `HttpParser`, `UriParser`, `ByteArray`, `ByteCodec`: sequential code, safety only.

## 4. Proofs

Each theorem holds for every value of the constants that satisfies the ASSUMEs of
its module, which TLC evaluates in the runs; a further premise is named here.

| module | theorem | property |
|---|---|---|
| `Scheduler_proofs` | `TypeCorrect`, `ActiveCountExact`, `IdleCountExact` | `TypeOK`, `ActiveIsInFlight`, `IdleIsIdling` |
| `SchedulerTasks_proofs` | `StatesAreRight`, `TasksAreKept` | `NoFault`, `NoTaskLost`, if `~UseSwitch` or one thread runs the loop (`OneThread`) |
| | `StopLeavesNothing`, `PoolIsImplemented` | `StopMeansDone`, `ImplementsPool`, if `OneThread`, or `~UseSwitch` and `TaskPins \subseteq {AnyThread}` |
| | `BeginsWhereAsked` | `BeginsOnPinnedThread` |
| `TimerManager_proofs` | `TypeCorrect`, `QueueConsistent`, `CancelledStays`, `OneShotsOnce` | `TypeOK`, `CallbackMeansQueued`, `CancelIsFinal`, `OneShotOnce` |
| | `NoWakeupLost` | `NoLostWakeup`, for periods below 2^31 ms and a clock that is not set back |
| | `CollectsOnlyDue` | `NeverEarly`, with one poller, or within the first hour |
| | `EarlyMeansStalled` | what holds of it for every constant: see below |
| `IOManager_proofs` | `PendingExact`, `WaitersAreRegistered` | `PendingIsRegistered`, the second half of `RegisteredHasWaiter` |
| | `OneWorkerIsSafe` | `RegisteredHasWaiter`, with one worker |
| | `OneWorkerStops` | `StopLeavesNothing`, with one worker and `UserArms = FALSE` |
| `IOTasks_proofs` | `TasksAreNotLost` | `NothingLost`, with one worker, or if `~UseSwitch` and `UseFibers = FALSE` |
| `HookIO_proofs` | `TypeCorrect`, `EveryWaitWokenOnce`, `NothingLeftBehind`, `AloneNobodyMisled` | `TypeInv`, `WokenOnce`, `NoLeftovers`, `NobodyMisled` |
| `HttpExchange_proofs` | `BaseCorrect`, `TotalCorrect`, `AnswersAreOwn`, `FailuresHaveCauses` | `BaseInv`, `TotalIsExact`, `OwnAnswer`, `FailsForCause` |
| `ByteArray_proofs` | `PointerIsRight`, `StreamIsImplemented` | `PointerAtPosition`, `ImplementsStream` |

**Scheduler.**  The counts rest on an invariant that relates each program counter to
the thread's locals, and on the cardinality of a set that gains or loses one thread
per step (`CardinalityByThread`).

`SchedulerTasks_proofs` is about tasks.  The inductive invariant is `TasksInv` with
`AllPlaced`: what a thread holds at each place of `run()` (`ThreadInv`), which
states its fiber may have there (`StateInv`), that an entry or a fiber is in one
place only, counting queue, hands of threads and callback fibers (`UniqueInv`), what
a fiber nobody holds looks like (`FiberInv`), and that no task has two fibers
(`OneFiber`).  `NoFault` follows because a thread that swaps a fiber in finds it in
no other place, `NoTaskLost` because every step keeps the place of a task or gives
it the next one.  The premise is what the code needs: with a task that switches to
a second thread `NoFault` is false (section 5, `sched_race`).

With one thread in the loop `switchTo` does nothing, but in `IOManager` a fiber may be in
the queue while it runs: its task registers it for an event and triggers that event
before it holds.  Then `UniqueInv` is false.  The invariant for this case, `SoloInv(w, out, kept)`, says
instead when an entry of the queue is taken: by `w`, which is then on no fiber's stack.
So `w` finds a fiber that has been left (`SoloStates`) or one that is dead and skipped;
callbacks are still in one place (`SoloPlaces`), and a fiber that holds is in the
queue (`SoloKeeps`).  The parameters `out` and `kept` are the fibers and callbacks that
somebody outside the scheduler will hand over; here they are empty, and
`IOManager_proofs` puts its waiters and timers there.  Each step of the loop, of a task
and of the caller is proved to keep `SoloInv` for any `out` and `kept`.

`StopMeansDone` needs in addition how workers leave: an idle fiber ends only when
the queue is empty and nobody is active (`TermInv`), the caller passes the phases of
`stop()` in order (`PhaseInv`), and once all threads have gone nothing can fill the
queue again (`EmptyInv`).  The refinement of `TaskPool` maps a task's status; its
step lemma `StatusEffect` says that no step moves two tasks, and that none goes
back.  `BeginsOnPinnedThread` (`PinInv`) follows the thread argument from the entry
to the thread that takes it, and needs no premise.

**TimerManager.**  `QueueConsistent` is inductive with: a timer under construction has
a callback and is in no queue, two users never construct the same timer, and a
queued timer has a callback.  A cancelled timer then has no callback and is in no
queue, which gives `CancelledStays`; a one-shot timer that still has its callback
has not been collected, which gives `OneShotsOnce`.  `NoLostWakeup` is not inductive:
the invariant says in addition what `__tickled` means - if it is set, a notification
is on its way, in the pipe, or some poller has still to call `getNextTimer()` - and
that timers never run ahead of the clock by more than a period.
`NeverEarly` is false for some constants: a poller that is held up for more than an
hour between reading the clock and taking the lock, while another one goes on, looks
to `detectClockRollover` like a clock set back.  `EarlyMeansStalled` says that this is the
only way (`ClockInv` relates each poller's `now_ms` to `__previouseTime`); with one poller,
or where no hour can have passed as in the run, it cannot happen.

**IOManager.**  `FdInv`: the types of the descriptor variables; a thread that triggers
events knows its descriptor; the count is exact; a context has a waiter exactly
where an event is registered.  The steps of `Scheduler` are covered by one lemma
(`FdSchedulerStep`): they leave every variable of a descriptor alone and move no
thread into or out of a trigger.  All features of the model are on: timers, callbacks,
waiting fibers, cancels, fibers that switch threads, any number of workers.
`PendingIsRegistered` is stated for states without a failed assertion, since a
`triggerEvent()` that fails its assertion would subtract an event it did not clear;
`WaitersAreRegistered` holds in all states.

The other two are about one worker; with two they are false (section 5).  `OneInv` is
`SoloInv` of the worker, where `out` is the fibers that wait for an event and `kept` the
callbacks with a timer, an event or the list `idle()` has collected (each in one of
these places, `HeldOnce`), with `TriggerInv`: what the worker has taken from epoll, or
is about to trigger, is still registered, since whoever could trigger or cancel it is a
task, and no task runs meanwhile.  This gives `OneWorkerIsSafe`.  For `OneWorkerStops`,
`StopInv` follows the three tests of `stopping()`: once a test has passed nothing can
undo it, because the worker that could is the one that tests.  The caller could: the
premise `UserArms = FALSE` excludes it, and without it the property fails (section 5).
A fiber that `delEvent` has dropped is neither queued nor counted: `stop()` does not
wait for it, and `StopLeavesNothing`, `NothingLost` and `QueuedIsExecuted` except it.

`IOTasks_proofs` shows that no callback or fiber is lost while it moves between a user,
a timer or a context, a thread that has collected it, the queue and the thread that
executes it.  With one worker this follows from `OneInv`.  For any number of workers
it uses the proof about tasks instead of repeating it: `Scheduler` is
instantiated with a mapped program counter (`schedPc`: the places of `idle()` are
one place, a task that triggers events is running) and a mapped status
(`schedStatus`: a task still kept by a timer, a context or a collecting thread looks
as if nobody had handed it over).  Under this mapping every step of `IOManager` is a
step of `Scheduler`, a stutter, the hand-over of one task, or of the batch of expired
callbacks in the order the loop schedules them (`BatchStep`).  The invariant
`LosesNothing` is the one of `SchedulerTasks_proofs` under the mapping, with
`KeptInv`: a kept task has not begun and is kept in one place only.  It speaks of
states without a failed assertion, as `NothingLost` does.  The premises of this case
are those of run `iom_two`: a task that switches threads may be
resumed too early (`sched_race`), and with `UseFibers` a waiting fiber is itself such
a task - it is registered before it holds, and an event may wake it in between.

**HookIO.**  `WokenOnce` is inductive with the types: the three sources of a wake-up
(event, timer, close) exclude each other because each takes the registration away.
`NoLeftovers` needs that an armed timer belongs to the call its fiber is in
(`TimerOfWait`).  `NobodyMisled` holds for one worker only, and its invariant
(`AloneInv`) says why: whatever runs excludes everything else (`OneAtATime`), so a
callback that runs belongs to the wait under way (`CallbackIsCurrent`), and a
`connect()` that goes on has a reason (`ConnectReason`).

**HttpExchange.**  `BaseInv`: types, which places of `doRequest` hold a connection, and
ownership - a connection is idle in the pool once, or used by one client, or closed
(`OwnerInv`).  `TotalIsExact` counts the owned ones.  `OwnAnswer` needs what a
connection carries while no body has been taken for a message on it (`CarryInv`): on
an idle one nothing on the wire begins a message, on a used one only the request of
its client and its answer do; and which answers announce their length (`LengthInv`).
What is left for the exception is that it has its cause: while no head has been cut,
every head on the wire is followed by its whole message and nothing else lies there
(`FlowInv`), so that no body can be taken for a message, and with bodies that do not
read like one none ever is (`StrayInv`).  `FailsForCause` needs `FlowInv` and the
stronger statement for behaviours without faults (`SmoothInv`): exactly one message is
under way.

**ByteArray.**  `ArrayInv`: the capacity is a whole number of chunks and `cur` is the
chunk of the position; the file operations are loops, with an invariant of their
own (`JobInv`: what `writeToFile` has saved so far is right, or the case named in
`PointerAtPosition` occurred).  The refinement of `ByteStream` maps the chunks to one
sequence: writing cell by cell through the chunks is splicing this sequence
(`PutIsSplice`), reading is taking a piece of it (`GatherIsPiece`), for any chunk
size, length and position.

Assumptions made explicit for the proofs, all of which the code justifies: the
constructor of `Scheduler` asserts that there is a thread (`Scheduler.cpp:192`); sets
of descriptors are finite and do not contain the null value; timer identities of
`HookIO` are disjoint from its fibers' names; among the plans of `HttpExchange` one makes
the most requests, which bounds its set of connections.

Only model-checked:

* liveness under fairness, which is out of the prover's reach: `StopReturns`,
  `DueIsCollected`, `QueuedIsExecuted`, `ReturnsAlone`, `CloseWakesAll`,
  `RequestReturns`, `SessionEnds`, `StopEndsAccept`;
* the parsers: their automata are constants, which TLC explores completely, so a
  proof adds nothing; `Grammar` needs RECURSIVE operators besides, which the prover
  does not take;
* `ByteCodec`: the number of bytes is a recursive function of the value and the sizes are
  powers of two; the prover has no induction over data and no laws of `^`.

## 5. Where the code does not do what it says

Two are runs that expect a violation, with the quoted line in `PROJECT.json`:

* `sched_race` - `switchTo` hands a running fiber to another thread before the
  worker it leaves has settled its state.
* `hook_timeout` - the condition timer may fire before the event is registered.

The following show up when a passing run is changed as described:

* `sched_stop` with `TaskPins <- AnyOrEach`: `StopReturns` fails.  In the gap
  between `--__active_thread_count` and `schedule()` (`Scheduler.cpp:108-111`) a
  worker may leave; a task then scheduled for it is never picked.
* `sched_stop` with `TaskPins <- AnyOrEach`, `Tasks = {t1, t2, t3}` and only
  `StopMeansDone`: it fails too, `stop()` returns with the task in the queue.
* `sched_switch` with the invariant `RunsOnPinnedThread`: a pinned fiber that yields
  READY is re-scheduled for any thread (`Scheduler.cpp:111`).
* `iom_two` with `StopLeavesNothing`: an expired timer that has been collected and
  not yet scheduled is seen by none of the three tests of `stopping()`
  (`IOManager.cpp:214-221`).
* `iom_one` with `UserArms = TRUE`: `StopLeavesNothing` fails.  The caller adds a timer
  after the test that would have seen it and before the next
  (`IOManager.cpp:214-221`), then calls `stop()`; the worker has decided to leave, and
  `stop()` returns with it pending.
* `iom_two` with three tasks and `NoFault`: an event triggered or cancelled elsewhere between
  `epoll_wait` and the fd's lock is triggered together with one that is still
  registered (`IOManager.cpp:178,196`), which `triggerEvent` asserts never happens.
* `hook` without `workers = 1` in `NobodyMisled`, `ReturnsAlone` or `CloseWakesAll`: a
  stale timer wakes a later call, `connect()` succeeds on a connection in progress
  that is being closed, and `close()` misses a fiber that registers between
  `cancelAll` and `close_f` (`Hook.cpp:352`).
* `library` with `Stranded(l) == FALSE`: `StopEndsAccept` fails on an accept worker of
  two threads, as `test_TcpServer.h:70` makes one.  The same window: a loop whose
  `accept()` has returned EAGAIN registers after `cancelAll` and before `close_f`, and
  nobody wakes it any more.
* `timer_clock` with `IntLimit = 4` and `Periods = {5}`: `DueIsCollected` fails, the
  cast at `IOManager.cpp:142` makes the timeout negative.

A tickle may be dropped because a worker has scanned the queue and not yet
incremented the idle count (`IOManager.cpp:109`); it sleeps up to MAX_TIMEOUT with
a task in the queue.  `QueuedIsExecuted` shows that the task is late, not lost.

Exceptions that are written into properties, because the code behaves so and
nothing in the repository says otherwise:

* `NothingLost`, `StopLeavesNothing`, `QueuedIsExecuted`: `delEvent`
  (`IOManager.cpp:335-369`) forgets a fiber that holds for the event without scheduling
  it; nobody resumes it, and `stop()` returns with it begun and not ended.
* `OwnAnswer`, `OwnText`: a header whose name and value come in two reads is
  dropped; if it is Content-Length the body stays in the socket and the next user
  of the connection fails on it - or, if the body reads like a message, takes it for
  one: an answer of the server's choosing, or an earlier body, is handed to a later
  request.  `OwnAnswer` says that nothing else than such a body can do this.
  `execute()` resets its offsets in every call
  (`http11_parser.cpp:91`) while the wrapper moves the buffer, so other parts split
  over two reads are truncated, and a split version is refused.
* `OwnText`: `query_start` is not reset (`http11_parser.cpp:93-97`).  The rest of a
  query split over two reads is measured from an offset into the buffer of the
  earlier call: behind the character read, the length is negative and
  `on_request_query` (`HttpParser.cpp:96-99`) throws `length_error` out of
  `execute()`; before it, the query has lost its beginning.
* `RequestReturns`: a peer that does not read holds the request in `sendRequest`.
* `StopEndsAccept`: the stranded loop above.
* `FailsForCause`: the client ignores the answer's "connection: close"; a connection
  the server has closed is reused and its request fails.
* `FinishedIsReported`: for responses only one direction holds, the parser counts
  state 120 as finished and not the other final ones; an empty value may be
  reported twice.
* `TakesWholeParts`: an empty port (`http://host:/`) makes `Uri::Create` throw, a
  userinfo with ":" and a digit keeps only what begins with the digit.
* `PointerAtPosition`: null is dereferenced by a read of no bytes at the end of the
  memory (`ByteArray.cpp:417`) and by `writeToFile` from inside a chunk with less
  than a chunk to save (`ByteArray.cpp:512`).

Met while modelling, for the reader of the code:

* The grammars contain `HTTP_CTL = (0 - 31) | 127`, `("1" - "9")` and `6(h16 ":")`: for
  ragel a difference or the byte 6, not a range or a repetition.  `Uri.rl` means byte
  2 by `2 [0-4] digit`.  The automata follow the grammars.
* The path of a relative reference and of `scheme:/a/b` is never stored
  (`getPath()` gives "/").
* The pool's age test never discards, `m_createTime` stays 0; `m_maxSize` is
  never looked at.
* `TcpServer`: `start()` right after `stop()` leaves a loop that spins on a closed
  socket; a pending stop task closes what a new `bind()` has opened; a failed
  `bind()` forgets all sockets, which `Bind` assumes to happen with no loop running.
* `FDManager.cpp:96` returns no value for SO_SNDTIMEO.
* `addEvent` on a thread without a scheduler stores a null pointer
  (`IOManager.cpp:323`) that the trigger dereferences (94, 97): a precondition here.

## 6. Not modelled

* `FDManager`: a table behind a rwlock; the models have one socket per descriptor.
  Failing `epoll_ctl`, the growth of the fd context table, and an `IOManager` with
  `use_caller` belong here too.
* `Config`: `setValue` calls listeners under the read lock and writes under the write
  lock, so the last notification need not be about the final value; the code
  promises no order, so there is nothing to check it against.
* `Servlet`: one map behind a rwlock, the default servlet outside it.
* `recvResponse`'s loop over chunks and the decompression (`ZlibStream`); headers
  of chunks are in `HttpParser`.
* `Thread`, locks: their critical sections are the atomic steps of the models.
* `SchedulerSwitcher`, fiber stacks and memory management.
* `Socket`, `Address`, `Log`, `Util`, the data classes of Http: system calls,
  conversions and formatting.
* The tests and build files, read as documentation.

## 7. Plan

Done: the modules of section 2 and the theorems of section 4, which state every
safety property of the runs that the prover can reach.  Left to prove: a premise
weaker than `UseFibers = FALSE` for `NothingLost` with several workers, since the race of
`sched_race` resumes a fiber too early and need not lose it.

If the model is extended: `FDTable` (get / del with descriptor numbers that are
used again, composed with `close()` and a failing `epoll_ctl`), then the chunk loop
of `recvResponse`, then `Config` and `Servlet`.
