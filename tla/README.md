# Formal verification of ffos

ffos is a header-only C library that puts one interface over the system calls of
Linux, BSD/macOS and Windows. Most of it is thin; the parts with logic of their own
are the ones that coordinate threads, callbacks and kernel events. This directory
models those parts in TLA+, checks the models with TLC on small instances and proves
the main properties with TLAPS for all instances.

## Inventory

State, operations and interactions, by component. Headers are in `src/FFOS/`.

| Component | State | Operations | What is hard | Correct when |
|---|---|---|---|---|
| Kernel call queue (`kcall.h`) | call objects (`op`, `state`, a union of arguments and result), submission queue (SQ), completion queues (CQ) | `*_async`, `ffkcall_cancel`, `ffkcallq_process_sq`, `ffkcallq_process_cq` | loops and workers share objects without locks; wake-ups through a semaphore and an edge-triggered eventfd; full queues; cancel at any time | an object is in one place; each submission has one handler call and its own result; no wake-up is lost |
| Timer queue (`timerqueue.h`) | red-black tree of nodes with 32-bit keys | add, addnode, remove, process | clock wrap-around; callbacks that change the tree; late processing | ordered by real time; never early; none left behind |
| Kernel event queue (`queue.h`, `kqtask.h`) | epoll/kqueue/IOCP descriptor, post events, task flags | attach, wait, post, consume | edges, coalescing of posts, Windows' overlapped state | an event that happened is reported or already consumed |
| Kernel timer (`timer.h`) | timerfd, kevent or (Windows) a timer thread with a command slot | create, start, stop, close, consume | the Windows thread's handshake; armed flag on BSD | start/stop take effect before they return |
| Semaphore, threads (`semaphore.h`, `thread.h`) | counter; thread handles | open, wait, post; create, join, detach | timed waits, interrupted waits | no lost post; a timeout is the one asked for |
| Sockets, pipes (`socket.h`, `pipe.h`) | descriptors, `ffkq_task` of a pending operation | connect/accept/recv/send `_async`, `ffiovec_array_shift` | two-phase calls: start, event, result; different protocols per OS | each started operation has one result |
| Processes (`process.h`) | child, its standard descriptors | exec, wait, kill, argument quoting | order of `dup2` calls after `vfork` | the child gets the descriptors asked for |
| Signals (`signal.h`) | mask, signalfd or kevent, handler table | mask, subscribe, read, raise | delivery between mask and attach | no masked signal is lost |
| File monitor (`filemon.h`) | watches, event buffer | add, read, next | partial buffers, Windows' re-arm | every event is reported once |
| Files (`file.h`, `filemap.h`) | descriptors | open, read/write, whole-file read and write, truncate | single transfers that may be short, non-atomic open modes | a whole transfer is whole or an error |
| Directories (`dir.h`, `dirscan.h`) | name list, sort order | make recursively, scan, sort | partial creation, comparator | all parents exist; sorted order |
| Paths, environment, time, console keys (`path.h`, `environ.h`, `time.h`, `std.h`) | none | pure conversions | boundaries | agree with their documentation |
| Others (`perf.h`, `error.h`, `string.h`, `netconf.h`, `netlink.h`, `dylib.h`, `backtrace.h`, `volume.h`, `winreg.h`, `random.h`, `sysconf.h`) | none or the OS's | queries and wrappers | buffer retries | |

Interactions: the kernel call queue uses the semaphore to wake workers and the post
event of the kernel event queue to wake a loop; sockets, pipes, timers, signals and
the file monitor deliver their events through the kernel event queue; the timer queue
is driven by whatever timer the application uses. Ring queues and red-black trees
come from ffbase, a library that is not part of this repository: they are modelled
from their use, as a bounded FIFO with atomic add and fetch, and as an ordered
sequence.

`PROJECT.json` lists the hazards, each at its line, with the properties that cover it.

## Modules

| Module | Models |
|---|---|
| `AsyncCalls` | what the kernel call queue promises to a loop's thread: no queues, no workers |
| `KCall` | the kernel call queue: loops, workers, SQ, CQs, semaphore, post events |
| `MCKCall` | instances of `KCall` for TLC |
| `TimerQueue` | the timer queue with a wrapping clock and re-entrant callbacks |
| `MCTimerQueue` | instances of `TimerQueue` for TLC |
| `WinTimer` | the kernel timer on Windows: caller, timer thread, waitable timer, completion ports |
| `AsyncIO` | asynchronous operations of sockets, pipes and file monitors on a descriptor attached to the kernel queue |
| `Cleanup` | the functions that acquire several things, as programs of steps that may fail |
| `Files` | processes that use the same file name and directories, one system call a step |
| `Growing` | queries of data whose size changes between two questions |
| `Processes` | threads that start processes and wait for processes, threads and semaphores |
| `Paths` | `ffpath_normalize()` against a definition of where a path leads |
| `MCWinTimer`, `MCAsyncIO`, `MCCleanup`, `MCFiles`, `MCGrowing`, `MCProcesses`, `MCPaths` | instances of these for TLC |
| `KCallProofs`, `TimerQueueProofs`, `WinTimerProofs`, `AsyncIOProofs`, `FilesProofs`, `GrowingProofs`, `ProcessesProofs`, `PathsProofs` | theorems about the module of that name, with their inductive invariants and lemmas |

### KCall

*State.* Per object: `op`, `state` and `data`, the union. A union member read after
another was written yields other bytes, so `data` records which kind of content it
holds, and a call executed on anything but its arguments gets `Garbage`. Per loop:
its CQ, the eventfd (`efd`, zero or not), the edge epoll has not reported (`ready`),
where its thread stands (`lpc`; `cpc` and `ckc` inside a call; `hkc`, the object whose
handler runs), and what its last call returned. Per worker: where it stands, the object
in its hands and the request in the kernel.

*Steps.* A call up to the moment it enters `_ffkcall_add()` is one step, because only
the owner's thread reads and writes the object there. From then on every access to
shared state is its own step: add to the SQ, post the semaphore; fetch, read
operation and arguments, kernel returns, `state = 2`, add to the CQ, post; wake,
each `read()` of the eventfd, each fetch from the CQ, the handler. Inside a handler
the thread may make calls and cancel.

*Callers.* `Next` has callers that leave an object alone while it is in the SQ or
being executed; `AnyTimeNext` has callers that do not. Nothing in the object tells a
caller which it is (see Findings), so both matter.

*Limits.* Capacities, the semaphore's maximum and the sets are CONSTANTS. When the
CQ is full the code runs into `assert(0)`; the model takes the release build, which
drops the object.

*Abstractions.* The five operations differ in the union members only and share their
actions. An answer of the kernel is a function of the request. The eventfd counter is
zero or not. Object lifetime (free) is not modelled.

### TimerQueue

`now` and `due` are real time, which the code never sees; `key` and `now % Modulus`
are what it computes with. `queue` is the tree in order. Insertion lands in a gap
whose neighbours agree with the comparison, which is where a descent of the tree
ends whatever its shape. `fftimerqueue_addnode()` is modelled for a node that is queued. Removal takes the node out of the sequence, which holds each
node at most once. `Tick` carries the assumption that the comment in
`fftimerqueue_process()` makes: intervals plus delays stay below half of the period
(`Half`, 2^31 in the code). `life` is one of `Lives`: when the clock starts, where the
model stops it, and the intervals in use. One life is far from the wrap-around and has
periodic timers, the other spans it. The number of processed events that `fftimerqueue_process()` returns is left out.

### WinTimer

*State.* `tmr` holds the members of `_fftimer` that both threads use, `open` the handles
and memory not released yet, `evt` and `evt_result` the two auto-reset events, `ktimer` and
`apc` the waitable timer and its queued procedure call, `port` what the completion ports
hold. `pc` and `tpc` say where the caller and the timer thread stand. `started`, `calls`,
`ran` and `fired` are history: the code does not have them, the properties need them.

*Steps.* Each store to a member the other thread reads, each `SetEvent()`, each wait and
each read is a step. `fftimer_start()` stores queue and data in two steps and
`_fftimer_onfire()` reads them in two, so the two may overlap. `fftimer_create()` may
fail after any of its steps and then runs `fftimer_close()` on what there is. The kernel
may refuse to set or cancel the timer. `SetEvent()` and the waits themselves do not fail.

*External.* The head of the module lists what is assumed of Windows: auto-reset events,
alertable waits, cancellation of the queued procedure, relative and absolute due times.
`Epoch` is the absolute time at which the clock of the model starts.

*Callers.* A running timer may be started again. `started.again` remembers it: an event
may then carry a new queue and old data, and comes as early as the older start allows. A
restart that the kernel refuses leaves the old period running.

### AsyncIO

One descriptor is attached to a kernel queue, and a caller repeats each operation after
`ffkq_wait()` has reported the descriptor. A behaviour chooses the system and the
operations that run together (a socket read and written at once, or one operation alone).
On UNIX each call tries the system call; `edge` is the ready list of epoll (EPOLLET) or
the active filters of kqueue (EV_CLEAR). On Windows a call either polls the overlapped
request of the `ffkq_task` or makes the system call, and starts a request when that finds
nothing; `port` is the completion port. Between the two (`st = "arm"`) the kernel may act.

*External*: arrival of bytes, datagrams, clients and changes; the peer that drains what
was sent; connection established, refused or reset; completion of requests. Items are
numbered, so that loss, repetition and reordering show. `ffiovec_array_shift()` is
modelled as it computes, a recursive function over the buffers. On Windows the request of
a pipe or of the file monitor may also fail to start (`NotStarted`), for instance because
the client has left: the call fails, and `EventuallyDone` promises nothing more then. Not
modelled are the number of bytes that the file monitor returns on Windows (the capacity of
the buffer, `filemon.h:149`) and the overflow of that buffer.

*Callers.* `AsyncIOAssumption` says how a descriptor is used: one operation reads it and
one writes it (each has its own task), and it is connected before either.

### Cleanup

A function is a sequence of steps, a step the set of outcomes its calls can have; an
outcome acquires, releases and forgets pointers and names the next step or the way out.
Every function with an `end:` label or a return in the middle has a program of its own:
name conversions, files, directories and their scan, processes, semaphores, pipes,
sockets, signals, the file monitor, the registry, network configuration, volumes, console
text, dynamic libraries, environment. What the calls compute is left out; that any of
them may fail is not. `owns` is what the caller has after success, from the doc or the
counterpart that releases it.

### Files

A call of the library is several system calls, each atomic, and those of two processes
interleave. A file has contents as long as a descriptor or a name refers to it; on Windows
a deleted file keeps its name until its last handle is closed. Contents are sequences of
the processes that wrote them, and a write or a read may be short. `fffile_open()` on
Windows is one `CreateFileW()` or two, with the disposition the code computes. Directories
are numbered along one path. `hurt` and `alone` are history.

### Growing

`val` is the data as the system has it: its type, its stored size, its size as returned.
`Change` may replace it between any two questions. `ffwinreg_read()` has a buffer on the
stack, one of the caller and one on the heap; the model keeps which of them holds a
complete value. Text is converted, and its length told with the worst case the code uses.
`ReadAgain` is the caller that was told to come with more memory. `ffenv_expand()` expands
into a buffer of the caller or a new one.

A failing call is told to the caller (`Fail`) except where the code does not: a name that
`ffwinreg_read()` cannot convert is "more data is needed" (`BadName`), `ffvol_info()` asks
without a buffer when it gets no memory, and `ffenv_expand()` looks neither at its questions
nor at the conversion into the caller's buffer (`Measure`, `Expand`). `Relies` lists what a
function needs and does not check, `Missed` the failures nobody is told of.

### Processes

*Starting.* On UNIX the child has a copy of the descriptors from `vfork()` on, so the
`dup2()` sequence is one step with the table it computes. On Windows each
`SetHandleInformation()` is a step, and other threads run in between. Threads may pass
the same handle. A process inherits every handle that is inheritable when it is created,
those of other calls included (`inherits`). `met` is history: the handles that other calls
passed while a thread was about to create its process.

*Waiting.* A wait is set up as the code does, with its absolute time as seconds and a
rest (`Part` parts in a second, so that the carry happens), and ends by success, by
time, by refusal (EINVAL, or a time that macOS does not support), or is interrupted and
repeated. On UNIX `ffps_wait()` with any time but -1 only asks, on Windows it waits; the
properties demand no duration of it (see Findings).

### Paths

A path is a sequence of parts with the slash that follows each; an iteration of the loop
reads one. The source is not stored: the next part is any part, a drive anywhere too, so all
paths of these parts up to `MaxUsed` characters are covered. `place` follows where the source leads, by `Go` and
`GoFirst`, which know nothing of the algorithm; `Walk` does the same for what is written.
`SplitsAsForced` tells the flags that convert slashes to one the path is split by from
those that do not (see Findings). `first` and `late` are history: whether the part that may
be the root is still to be read, and whether a drive was read after it. Such a drive may end
up at the beginning of the result (`Fronted`, see Findings). Only lengths are modelled, not
the copying within one buffer.

## Runs

| Run | Instance | Shows |
|---|---|---|
| `kcall` | 1 loop, 2 objects, 2 workers, SQ 2, CQ 2, semaphore maximum 1, fair | `OnePlace`, `ResultReady`, `SubmissionSeen`, `CompletionSeen`, `CqHasRoom`; every object comes back (`Released`) |
| `kcall_promise` | 2 asynchronous objects and a synchronous one, 2 arguments, SQ 1, CQ 1 | `KCall` implements `AsyncCalls` (`KeepsPromise`); `ReturnsResults` with both queues overflowing |
| `timerqueue` | 3 nodes, period 16, delays of 2; periodic and one-shot from 1 to 7, one-shot from 13 to 19 | `TypeOK`, `ActiveIsQueued`, `InOrder`, `NeverEarly`, `NoneLeft`, `OncePerProcess` |
| `wintimer` | 2 queues, 2 data, periods 1 and 2, 3 starts and stops, clock to 3, fair | `TypeOK`, `Lifetime`, `OwnResult`, `PostsAsStarted`, `NeverEarly`; every call returns (`Returns`), a periodic timer keeps firing (`KeepsFiring`) |
| `wintimer_early` | timers that fire once after 2 | violation: see Findings |
| `asyncio` | 3 systems, 9 operations, 2 items to read, 3 bytes to send through room for 1, fair | `NoLostWakeup`, `Intact`, `ConnectTruth`, `EventuallyDone` |
| `cleanup` | every function of `Cleanup` but five (see Findings), on all its paths | `Ownership`: nothing leaked, nothing released twice |
| `files` | 2 processes, 4 calls, 3 systems, 7 mixtures of calls, 3 directories | `CreatedByOpener`, `NewFileKept`, `OneWriterWins`, `ReadsOneVersion`, `PathMade` |
| `growing` | 8 functions, 3 sets of values, 3 changes, buffers of 1 to 6, failing calls, fair | `Complete`, `GetsValue` |
| `processes` | 2 threads, 2 operations each, 3 systems, a handle that both pass on Windows, clock to 3, 1 signal, fair | `StdAsAsked`, `NotInheritable`, `WaitsItsTime`, `WaitEnds` |
| `sem_timed` | the same on Linux with times that cross a second | violation: see Findings |
| `paths` | 2 systems, all flags that split by the slash they write, 9 characters, 2 buffer sizes | `SamePlace`, `Normal`, `Fits` |

*Bounds.* Two workers and two objects give every pair of concurrent steps: two
executions, execution against submission, against cancel, against completion, two
completions against one post. A semaphore maximum of 1 makes lost posts happen; queues
of 1 make both overflows happen. Three timer nodes give a first, a last and one between,
a period of 16 leaves room for intervals and delays below half. Three starts and stops of
the Windows timer let a second start, with another queue, data and period, meet what the
first has left behind; `Create` and `Close` are not bounded. Two items and three bytes
let a call find one when another has come; a send buffer of one byte makes every send
short. Two processes with four calls let each write, read or remove what the other has
made and do it again. Three changes are one for each question a function asks. With two
parts in a second a wait of one part carries or not, by when it begins. Nine characters
hold three names with a root, or four times "..".

Several loops on one SQ, one of them without a semaphore or a post event, have no run:
that their wake-ups do not depend on each other is a theorem for every instance.

*Fairness.* `kcall`: workers and the code inside calls and `process_cq` keep
running (weak fairness). The application returns from handlers and goes back to
`ffkq_wait()` (strong fairness: it may do any number of calls in between), and epoll,
whose ready list is a queue, does not pass over an edge forever although other events
may always be ready (strong fairness of `LoopWake`). Nothing is assumed of callers.
`wintimer`: the code of a call that has begun and the timer thread keep running,
the kernel queues the procedure of a timer that is due, and time passes, up to its bound
(weak fairness each). `KeepsFiring` speaks of moments that leave a period before that
bound. Nobody has to call `ffkq_wait()`. `asyncio`: the loop attaches and waits, makes the
calls it was told to make, the kernel completes what it can complete and the peer reads
(weak fairness); nothing need arrive. `growing`: the calling thread runs. `processes`:
threads inside a call run, the clock goes on, processes and the joined thread end.

That wake-ups are not lost with callers at any time has no run: it is a theorem, for
every instance (see Proofs).

Every property has a faulty variant of some definition in `PROJECT.json` that breaks
it, so none of them holds for lack of behaviour.

## Proofs

Each theorem holds for every value of the constants that satisfies the module's `ASSUME`
(sets of threads, nodes, objects and values of any size, any capacities and bounds).
Those assumptions say what kind of thing a constant is and how the library is used; what
a single theorem needs beyond them is its hypothesis, named below. All safety properties
of the runs but one are proved.

Every proof has the same shape: an inductive invariant holds initially, each action keeps
it (one step per action, one per conjunct that the action can disturb), and the property
follows from it or, for an action property, from it and a step.

**`KCallProofs`** (`KCallAssumption`).

- `TypeCorrect`, `SubmissionsSeen`, `CompletionsSeen` for callers at any time. The two
  wake-up invariants are inductive with the types and `Handles` (a thread that is inside
  a call or executes has an object).
- `Invariant`, `EverywhereOnce`, `ResultsAreResults` for callers that follow the protocol.
  `OnePlace` alone is not inductive: that a submission adds no second reference depends
  on `kc->state` telling where an object is (`StateTells`), and that a collected value is
  a result depends on what the union holds at each stage (`UnionHolds`). `KCallInv` is
  their conjunction. `StateTells` in turn needs the callers' protocol, which is
  why the instance `MCKCallEarly.cfg` fails. `ResultsAreResults` proves `ResultReady` and
  `ReturnsResults`.
- `RoomInCq`: if no CQ is smaller than its loop's number of objects (`Sized`), a worker
  about to add finds room. The objects in a CQ are distinct (`OnePlace`) and one of
  the loop's objects is in the worker's hands, so the CQ holds fewer than all.
- `Implements`: `KCall` implements `AsyncCalls`, step by step. Beside `KCallInv` it needs
  `PromiseInv`: only a thread in a handler has an object to handle, synchronous objects are
  never submitted, and while the kernel executes a call that is not cancelled the union
  still holds its request.

**`TimerQueueProofs`** (`TimerQueueAssumption`: intervals plus delays below half of the
period, as the code's comment demands).

- `TypeCorrect`, `TreeHoldsActive` from `QueueInv`, whatever the callbacks do.
- `OrderedByTime`, `NotEarly`, `NothingLeft`, `OneCall`, if no life with periodic timers
  crosses the wrap-around (`NoPeriodAcross`; the finding `MCTimerQueueEarly.cfg` is what
  happens otherwise). A comparison of keys tells nothing about times unless both are near
  each other: `TimeInv` says that the key of an active node is its time modulo the period
  and that its time is within half a period of now (`Near`).

**`WinTimerProofs`** (`WinTimerAssumption`): `LifetimeSafe`, `ResultIsOwn`,
`PostedAsStarted`, `TypeCorrect`, and, if no period is negative, `NotEarly`. `TimerInv` pairs
where the caller stands with where the timer thread stands (`Handshake`) and counts
commands against executions (`Counted`); a timer that was not started, or was stopped with
success, posts nothing (`Known`), and what the timer procedure reads is what the running
timer was started with (`Parameters`, `Period`).

**`AsyncIOProofs`** (`AsyncIOAssumption`).

- `ShiftIsExact`: what `ffiovec_array_shift()` leaves, for every array and every number of
  bytes in it.
- `WakeupsAreKept`, `StreamsAreIntact`, `ConnectsAreTrue`, on the three systems together.
  `NoLostWakeup` is not inductive: whether an event comes depends on what the task
  remembers of its request (`Standing`), on what a completed request holds for the next
  call (`Reading`), on how much of the vectors is still to be sent (`Writing`, with
  `ShiftIsExact`) and on how the connection ended (`Connecting`). `AsyncInv` is their
  conjunction.

**`FilesProofs`** (`FilesAssumption`): `PathsAreMade`, `LastWriterWins`,
`ReadsAreOneVersion`; and `ExclusiveCreation`, `NewFilesStay` if "create new" and
"truncate" are not combined on Windows (`NewIsNew`; `MCFilesNew.cfg` is the finding). Each
has an invariant of its own on top of `Shape`: which directories a process has passed
(`PathInv`), that the owner's file is still under its name (`KeptInv`), what a file holds
between the steps of a writer (`WinsInv`) and of a reader (`VersionInv`, `AloneInv`).

**`GrowingProofs`** (`GrowingAssumption`): `AlwaysComplete`. `GrowingInv` adds to `Complete`
what is known between the question for the size and the one for the data (`Asking`): the
buffer is large enough unless the data changed or the first question failed unnoticed.
`Complete` itself claims nothing of a success where `Relies` does not hold.

**`ProcessesProofs`** (`ProcessesAssumption`): `NothingLeaks`, `StdIsAsAsked`; and
`WaitsAreExact` if Linux waits for semaphores in whole seconds (`InSeconds`; see the finding
`sem_timed`). Threads may pass any handles, shared ones too. `HandlesInv` says that an
inheritable handle belongs to a thread that is inside `ffps_exec_info()`, that what such a
thread has made inheritable still is unless another call passes it (`StillThere`), and that
a call knows all handles passed beside it until it creates its process (`AllMet`).
`ChildrenInvariant` adds what the processes got: `StdAsAsked`, and that they inherit no more
than their own handles and those of `met` (`Given`).

**`PathsProofs`** (`PathsAssumption`: sizes of buffers are natural numbers).

- `ResultIsNormal` and `ResultFits` for paths of any length, with drives anywhere, and every
  combination of flags.
- `ResultLeadsThere` if `SplitsAsForced` holds of the flags, but for results that begin with
  a later drive (`Fronted`). `PathsInv` adds to the
  properties which leading parts are still skipped (`Standing`), and under `SplitsAsForced`
  that every part written before the end of the source ends with a slash that ".." finds
  again, together with `SamePlace` (`Leading`). ".." removes one part, and that this is
  one step back in `Walk` needs `Normal`.

*Recursion.* `Left`, `ffiovec_array_shift`, `Written` and `Walk` are recursive functions.
What they compute is proved by induction with a set in place of a predicate: the set of
the numbers for which a claim holds contains 0 and the successor of each of its members
(lemmas `Induction`, `Recursion`, `Values`).

Only model-checked:

- Liveness (`Released`, `Returns`, `KeepsFiring`, `EventuallyDone`, `GetsValue`, `WaitEnds`):
  fairness is out of the prover's reach.
- `Ownership` of `Cleanup`: its only constant is a set of functions, each a finite program,
  and the run `cleanup` takes all of them but five through all their paths. There is nothing
  left for a proof to generalise; for the five, `Ownership` is not claimed (see Findings).

## Findings

With a run:

- `wintimer_early`: on Windows `fftimer_start()` with a negative period, "fire just once
  after -period_ms interval", passes a positive due time to `SetWaitableTimer()`. That is an
  absolute time soon after 1601, so the timer fires at once.
- `sem_timed`: on Linux `ffsem_wait()` adds the milliseconds to `tv_nsec` without a carry.
  When the sum reaches a second, `sem_timedwait()` fails with EINVAL at once. "time_ms: max
  time to wait" says otherwise. The run `processes` waits for whole seconds.

Further instances that TLC finds violated, kept as configurations:

- `MCKCallEarly.cfg` (`ReturnsResults`): `kc->state` is documented as "0, 1: in SQ, 2: in
  CQ" but 1 is never stored. A call on an object that is in the SQ or being executed is not
  refused with EBUSY; it returns the bytes of the arguments as result and error. After a
  cancel the caller has no way to know when the object is free.
- `MCTimerQueueEarly.cfg` (`NeverEarly`): the next time of a periodic node is an unsigned
  maximum. When `key + interval` wraps and `now + 1` does not, the node is called at
  `now + 1`, again and again until `now + 1` wraps too.
- `MCWinTimerStop.cfg` (`NoSignalAfterStop`): on Windows an event that was posted before
  `fftimer_stop()` is still in the completion port when the call has returned 0.
  `test_timer()` expects no event then.
- `MCFilesNew.cfg` (`CreatedByOpener`): on Windows `FFFILE_CREATENEW | FFFILE_TRUNCATE` opens
  and empties an existing file, because `creation` is shifted before it is compared.
- `MCCleanupNames.cfg` (`Ownership`): `fffile_rename()` and `fffile_hardlink()` do not free the
  first name when the second cannot be converted.
- `MCPathsBackslash.cfg` (`SamePlace`): with `FFPATH_FORCE_BACKSLASH` and a path split by "/"
  only, ".." does not find the slashes that were written: "/a/../" becomes "".
- `MCPathsDrive.cfg` (`NoOtherDrive`): a part like "c:" that is not the first becomes the drive
  of the result when what came before it is removed, or when `skip_disk` was spent on another
  part: "a/../c:/../b" becomes "c:/b" with `FFPATH_DISK_LETTER`, "../c:/x" becomes "c:/x" with
  `FFPATH_SIMPLE` and `FFPATH_DISK_LETTER` (`path.h:277-281`).
- `MCGrowingName.cfg` (`TellsSize`): `ffwinreg_read()` returns 0 when the name cannot be converted
  (`winreg.h:151`), "more data is needed (val->datalen contains value's size)"; the length is
  the one the caller has passed, so one that follows it asks forever.
- `MCGrowingExpand.cfg` (`ExpandsAll`): on Windows `ffenv_expand()` returns the caller's buffer as
  success although the text did not fit (`environ.h:56`).
- `MCProcessesShared.cfg` (`StdAlways`): on Windows two threads pass the same handle; the first
  makes it not inheritable before the other creates its process, which starts without it
  (`process.h:129-137`).
- `MCProcessesWait.cfg` (`AsksOnly`): "`>=0`: check status (don't wait)" (`process.h:464`) holds
  on UNIX; on Windows `ffps_wait()` waits for the time (`process.h:166`).

Without an instance: `ffvol_info()` does not check its allocation (`volume.h:75`) and asks on
without a buffer for as long as there is no memory; `GetsValue` asks that this ends.

Left out of the run `cleanup` beside those two, because an error path keeps something and no
document says who is to release it: `ffwinreg_open()` keeps the key it opened when
`FFWINREG_CREATENEW` finds it existing (`winreg.h:67`), `ffsig_subscribe()` the stack when it
cannot be installed (`signal.h:277`), and `ffenv_expand()` on UNIX the text so far when it
cannot grow (`environ.h:191`).

Limits that the properties state as conditions: `ffps_curdir()` and, on Windows,
`ffenv_expand()` do not check the second answer, and `ffenv_expand()` not the conversion into
the caller's buffer; `ffwinreg_read()` into the caller's buffer does not notice that text
became other data; descriptors 0 and 1 passed to `ffps_exec_info()` for a later place are
overwritten by an earlier `dup2()`, and a handle that two calls pass at once may be lost;
whole-file writers that do not truncate, or fail, mix their contents; on Windows
`ffdir_make_all()` reports an error if the last directory exists.

## Not modelled

- The Linux and BSD kernel timers, the BSD and Windows post events and the delivery of
  signals: one or two system calls each, without steps of the library in between.
- Thin wrappers: `filemap.h`, `backtrace.h`, `random.h`, `sysconf.h`, `error.h`, `time.h`,
  attributes and options of files, sockets and threads, synchronous input and output.
- Text: quoting of arguments, substitution of variables, key sequences, conversion of
  characters, records in the buffers of netlink and the file monitor. They are functions
  of long strings, whose interesting cases are in the characters a model leaves out.
- Copying between overlapping parts of one buffer in `ffpath_normalize()` (`path.h:326`).
- Lifetime of objects the caller owns.
