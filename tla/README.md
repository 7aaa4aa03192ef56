# Formal models of apex_csf

TLA+ models of the real-time core of the Apex control software framework,
checked with TLC and, where it matters most, proved with TLAPS.

Paths below are relative to the repository; `core/` stands for
`src/system/core/`, `concurrency/` for `src/utilities/concurrency/`.

## 1. The system

An executive runs the tasks of registered components at a fixed frame rate. A
**clock thread** counts ticks; the **task thread** turns each tick into a
frame: it drains commands, then walks the schedule's rows for that tick and
hands each due row to a **worker pool**. Workers run the tasks, in phase order
where rows belong to a *sequence group*. An **external I/O thread** receives
commands. A **shutdown thread** takes everything down in stages. A
**supervisor process** starts the executive, watches its heartbeat and starts
it again; on disk the executive keeps two **banks** of files.

| Component | Where | State | Operations | Talks to |
|---|---|---|---|---|
| Multi-threaded scheduler | `core/components/scheduler/posix` | task table, in-flight flag per row, context pools, violation flag | dispatch a cycle, enqueue, trampoline, lock, shutdown | task thread; the pools |
| Schedule and cadence | `TaskCadence.hpp`, `SchedulerBase.cpp` | rows, slots, next run of each row | addTask, loadTprm, replaceComponentTasks | dispatch |
| Sequence groups | `core/infrastructure/schedulable` | one phase counter per group | wait for a phase, advance it | workers, shutdown |
| Lock-free thread pool | `concurrency/` | ring of numbered cells, semaphore, stop flag | tryEnqueue, worker loop, shutdown | scheduler; Monte Carlo driver |
| Executive threads | `core/executive/posix` | control flags, cycle counts, condition variables | startup, clock, executeTasks, externalIO, shutdown | each other |
| Executive commands | `ApexExecutive_Commands.cpp` | component locks, plugins, the two reloads under way | pause, lock, RELOAD_TPRM, RELOAD_LIBRARY, restart | scheduler, registry, banks |
| File system banks | `core/components/filesystem/posix` | two banks of files and a marker | deploy, flip, three-rename swap | boot, reload |
| Watchdog supervisor | `core/executive/watchdog` | crash count in memory and on disk | launch, monitor, kill, restart | parent of the executive |
| Message interface | `core/components/interface/apex` | buffer pool, inbox and outbox per component, completion outbox | route, post, multicast, drain | I/O thread, task thread, workers |
| Action engine | `core/components/action/apex` | sequence slots, catalog, action queue | start, stop, abort, load, cycle | task thread |
| Parameter banks | `core/infrastructure/system_component` | two banks, sequence counter | load, publish, apply, rollback, read | a control-plane thread, tasks |
| Logs | `core/infrastructure/logs` | ring per log, depth, drain registry, eventfd | log, drain, flush, stop | every thread |
| Monte Carlo driver, latch | `core/monte_carlo`, `concurrency/` | run counter, results, latch | execute | the pool |
| Registry, time server, protocols, ring bridge, HAL, simulation, tools | see `PROJECT.json` | | | |

What is hard in it: nearly everything is shared through atomics, with waits on
futexes, a semaphore, an eventfd and condition variables; a shutdown, pause,
restart or reload may come between any two accesses; tasks overrun; rings,
pools and queues run out; either process may die between two writes to disk.
What makes each part correct, in a sentence:

- *scheduler*: no task runs twice at once unless the scheduler says so; no
  context is lost; no in-flight flag is stale or missing; every dispatched run
  ends; a chain keeps its phase order; shutdown returns and leaves nothing;
- *cadence*: a row runs on the ticks of its pattern and no others, for ever;
- *pool*: a first-in-first-out ring with no race on a cell, no lost wakeup, no
  accepted task forgotten, a join that returns;
- *executive*: no frame without its tick, no tick over unfinished work in the
  hard modes, no dispatch in the SAFE hold, nobody asleep for ever;
- *reloads*: no row, run or pointer outlives what it points to;
- *banks and supervisor*: no file lost, memory and disk agree, a boot settles,
  launches are bounded, a hung child is killed;
- *messages*: exact reference counts, outcomes neither lost silently nor out of
  order, every received command executed;
- *actions*: steps time out, abort events are heard, nothing of a higher
  priority is pre-empted, sequences end;
- *parameters*: no torn or stale set; *logs*: no accepted entry lost;
- *Monte Carlo*: every result, each written once, on a context that exists.

`PROJECT.json` lists each hazard at its line with the properties that watch it.

## 2. The modules

| Module | Stands for | Notes |
|---|---|---|
| `TaskDispatch` | `SchedulerMultiThread.cpp`, `SequenceGroup.hpp`, `TaskConfig.hpp`, `TaskCtxPool.hpp` | one step per atomic access; ring and semaphore as abstract data |
| `TaskRuns` | what the scheduler promises of rows and phases | no threads, contexts or queues |
| `TaskDispatchRefines` | refinement mapping from the threads to `TaskRuns` | |
| `WorkPool` | `ThreadPoolLockFree.cpp`, `LockFreeQueue.tpp`, `Semaphore.cpp` | one step per atomic access |
| `Fifo` | what a bounded queue promises | `WorkPool`'s ring implements it |
| `FrameLoop` | `ApexExecutive_{Clock,TaskExecution,ExternalIO,Shutdown,Startup}.cpp` | condition variables as waiting lists |
| `Cadence` | `TaskCadence.hpp`, `addTask`, `beginDispatchCycle`, the gate | theorems first |
| `Reload` | `ApexExecutive_Commands.cpp` (lock, both reloads), `SchedulerBase.cpp`, `PluginLoader.cpp` | instances and tables are numbered |
| `Banks` | boot, ingest fallback, upload, `swapBankFile`, RELOAD_TPRM | a process death at any step |
| `Recovery` | `Banks` under `WatchdogSupervisor.cpp` | extends `Banks` |
| `MessageBus` | `ApexInterface.cpp`, `BufferPool.cpp` | queues atomic, the free list cell by cell |
| `ActionEngine` | `ActionComponent.cpp`, `ActionInterface.hpp`, `DataSequence.hpp` | one thread; its nested calls are a stack |
| `ParamBank` | `ParamBank.hpp` | word by word |
| `AsyncLog` | `AsyncLogBackend.cpp`, `LogDrainService.cpp` | one step per shared access |
| `MonteCarlo` | `MonteCarloDriver.hpp`, `Latch.cpp` | theorems first |
| `*Proofs` | theorems about `TaskDispatch`, `WorkPool`, `FrameLoop`, `AsyncLog`, `MessageBus`, `Recovery`; in `ScheduleProofs`, about `ActionEngine`, `Cadence` and `Reload`; in `SupportProofs`, about `MonteCarlo` and `ParamBank` | TLAPS |
| `MC*` | small instances for TLC | |

How they compose. `Recovery` extends `Banks`: the supervisor's child is the
executive that boots. `TaskDispatchRefines` and `WorkPool` instantiate their
abstract specifications. `WorkPool` is what `TaskDispatch` and `MonteCarlo`
take for granted: they push and pop in one step, which `ImplementsFifo`
justifies, and count permits, which `NoLostWakeup` and `Drained` justify for
the one producer both have. `FrameLoop` takes the scheduler as two numbers, the
tasks that are queued and the tasks that are active; `TaskDispatch` takes the
cadence as the set of cycles a row is due on, which `RunsAreOnGrid` justifies.
`Reload` takes the dispatch of a row as one step, on the thread that reloads.

### TaskDispatch

The dispatch thread's steps are `dpc`: `BeginCycle` (the error collection of
`executeTasksOnCycleMulti`), `PassOver` and `CheckRunning` (`dispatchSlot`),
`Acquire` to `Unmark` (`enqueueTask` with `tryEnqueue`). A worker's are `wpc`:
`AcquirePermit` and `Pop` (`workerLoop`), `ReadPhase`, `ReadAbort`, `Park`
(`waitForPhase`), `Execute`, `AdvancePhase`, `Notify`, `MarkCompleted`,
`ReleaseCtx` (`taskTrampoline`), `Report` (the error queue). The steps of
`shutdown()` are `spc`, with the row or pool it has reached in `sidx`.

- A context is a model value; releasing it forgets its row (the code leaves the
  stale pointer, which the next acquire overwrites before anybody reads it).
- `waitForPhase` spins before it parks. The spin reads what `ReadPhase` and
  `ReadAbort` read; a longer spin is the same steps taken later.
- Memory is sequentially consistent. The accesses that hand data over are
  acquire/release in the code; the relaxed ones are counters of one writer.
- A full ring is a ring with `QueueCap` items. (In the code a cell whose
  consumer has not yet recycled it counts as full too; the refusal takes the
  same path.)
- A task returns a code and does not throw. Logs, statistics and the asserts of
  debug builds are left out.

`FrameContract` is the condition under which sequencing promises an order: a
chain completes within its frame. It is a guard of `BeginCycle`.
`JoinFirst` is the order of the executive's own shutdown: the dispatch thread
has ended before `shutdown()` is called.

### WorkPool

Producers (`ppc`) run `tryEnqueue`: stop flag, `tryPush` in five accesses,
`release` in three. Workers (`wpc`) run `acquire` in six, `tryPop` in five, the
task, and the stop flag when the ring was empty. The futex (or condition
variable) under `compat::wait` compares and parks in one step, which is what it
guarantees. `release(n)` for more than one worker loads the waiters and wakes
them in one step. How many tasks and workers there are is chosen from `Pools`
in the first state. `Drained` and `StopReturns` are stated for `OneProducer`.

### FrameLoop

A thread's step is `at`; a waiter that examines its predicate needs the mutex
and sleeps on a condition variable (`asleep`). `Notify` is a `notify_all` sent
without the mutex, as in the code. How the executive was started is a record,
`boot`, chosen from `Boots`: the real-time mode, the SAFE hold or not, the
commands that may come, whether `execv` may return, and whether a waiter may be
caught in the *gap*. With the gap, a waiter that has evaluated its predicate is
not yet on the variable's list: this is where a notification sent without the
mutex is lost. Without it the two are one step, so that runs can tell other
defects from this one. `StopCompletes` is stated without the gap;
`StopReachesAll` is the promise without that condition. `task.slept` is a ghost:
the clock's count when the task thread lay down for the tick it waits for.

The deadline of a tick may pass at any time, so the clock is arbitrarily faster
than the frames and never slower than its target. A predicate is evaluated in
one step. A frame's dispatch adds at most one queued task, or marks a period
violation, or does nothing. Stages 2 and 3 of the shutdown have deadlines of
their own and may end at any time; stages 4 to 6 only report.

### Cadence

One row of the schedule. `Add` is `addTask` (admission and `initAt` for the
next cycle), `Place` one turn of its placement loop, `Clear` the emptying of
the table in `loadTprm`, `Dispatch` is `beginDispatchCycle` with the gate of
`dispatchSlot`; a cycle may be skipped. A row of a one-second pattern is not
gated: its slots alone decide. `kth` is a ghost, the number of instants before
the next run. The instant of a row that is locked or busy is consumed all the
same, as in the code. After a skipped instant a gated row runs late, one run
per visit, until it leads again. Integers do not wrap: the header promises
exactness below 2^64 / N cycles. The order of rows within a slot is a stable
sort by priority and is not modelled.

### Reload

Instances of a component and loads of the scheduler's table are numbered, so
that "points to something that is gone" is a comparison. RELOAD_TPRM is two
steps, `BeginLoad` (lock, begin `loadTprm`) and `EndLoad`; of the scheduler
itself, `BeginTable` (rows freed), `KeepTable` or `NewTable`. RELOAD_LIBRARY is
one step with three outcomes: `LibraryRefused`, `TaskMismatch` (the old tasks
are wired back), `LibraryReplaced`. `Dispatch` and `Complete` are the runs;
`IoLookUp` and `IoHandle` the fallback in which the I/O thread calls a
component itself. `Quiesced` is the operator's discipline of sending reloads
when nothing is in flight; nothing in the code enforces it, and no theorem
assumes it. The failure of the registry update is left out: it
needs a component that was found under the same id a moment before to be gone.

### Banks and Recovery

One banked file stands for all, the ingest policy is STRICT. `Banks` has the
boot step by step (unpack the master, load, write the fallback's marker, flip,
exec), the hold, uploads, and RELOAD_TPRM with the three renames of
`swapBankFile`, any of which may fail. `Recovery` adds the supervisor: its
state file is cut and then written around each launch; it kills a child whose
heartbeat stops, counts failures, falls back to the safe master and gives up.
Either process may die at any step; an executive whose supervisor is dead runs
on until its next heartbeat meets a broken pipe. `fork` and `execv` succeed;
swaps of the executable, routing of sequence files and the LENIENT policy are
left out.

### MessageBus

The I/O thread routes an external command (buffer, inbox, acknowledgement) or,
when the inbox is full, executes it itself; the task thread drains the
telemetry outboxes and then the inboxes, once per tick, and puts outcomes on the
completion outbox, which the I/O thread sends. Pool tasks post commands,
broadcasts and telemetry. Reference counts and the claim and release of a
free-list cell are separate steps; a push or pop of a component queue is one.
The completion outbox is one more queue, `queue[Done]`. `Holders(b)` counts who
still has to release a buffer: the queue slots it is in (`Slots`) and the
releases the threads owe (`Shares`: one for the thread that handles it, one for
each push a post has to come or has failed).
NAK paths, framing, oversized responses and the content of the TX pipe are not
modelled.

### ActionEngine

All of it runs on the task thread (`ApexExecutive_TaskExecution.cpp:178-234`): a
command or a slot's turn begins when the one before is over. Starting a sequence
may stop others, whose abort events start others still before the first start
goes on: `startRtsById` and `dispatchEvents` call each other. `calls` is the
stack of what these calls still have to do, the innermost first, each for an
event, a sequence or a slot; a step (`GoOn`) is what the innermost does up to
the next call, so that the states in between are states of the model too.
`cycled`, `asked`, `found`, `owed` and the `age` of a step are ghosts: whether a
command came since the last cycle, the sequence it asked for, what ran when it
came, the abort events that are still to be sent, and for how many cycles a step
has been current. An abort event enters `owed` when a running sequence is stopped
or times out, whatever becomes of the flag, and leaves it when its dispatch
begins; one that waits for the end of the cycle is also struck off when its slot
is loaded (`Erased`), for then the code forgets it. Watchpoints and wait
conditions are choices of the environment. Relative-time sequences only;
commands that edit the catalog, commands to the action component itself and
sequences that repeat for ever are left out.

### ParamBank

The writer's steps are the accesses to the sequence counter and each word of a
bank; a reader copies the active bank word by word and retries when the counter
moved. The counter does not wrap. `seen`, `replaced`, `staged` and `fresh` are
ghosts.

### AsyncLog

`tryLog` is push, depth, wakeup; the drain service sweeps its registry and
parks on the eventfd; a log that found the registry full has a thread of its
own. `stop()` unregisters, waits for two sweeps to begin, drains what is left.
`queueDepth_` is a number modulo `Width`. `start()` is one step and a log is
not started again after `stop()`.

### MonteCarlo

`execute()` (`driver`) submits a task per worker and waits for the latch under
its mutex, or polls it (`Polling`). A worker (`at`) claims indices until none
is left and counts the latch down in four steps: lock, lower, notify, unlock.
The sweep whose context a worker uses is `of`; the latch of a returned call is
gone, and the next call's may be in the same place. The pool never refuses: it
has room for a task of each worker, and the code ignores the result.
`arriveAndWait` and the timed wait of the latch have no user here.

## 3. The runs

Bounds are named in each `.cfg`. Each passing run has between 17,000 and 1,110,000 distinct
states and finishes in about three minutes at most.

| Run | Bounds | Shows |
|---|---|---|
| `soft` | 3 rows (a chain of two and a free row), 2 workers, 3 contexts, ring of 2, late rows dispatched again, a failing row and a lockable one | contexts conserved, flags exact, the violation flag up before two runs of a row fly |
| `frame` | two rows of phase 1 on two pools of one worker, one of phase 3 behind them that asks for a pool that is not there, 5 contexts, 2 ticks | phase order, nothing dropped, shutdown ends and leaves nothing, `ImplementsFairRuns` |
| `pool` | one producer with 3 tasks and 2 workers, or two producers with 3 tasks and 1 worker; ring of 2 | FIFO across the wrap, no race, no lost wakeup; with one producer shutdown drains and returns |
| `threads` | 3 ticks, 3 commands, four boots: a counting mode with pause, resume and quit; HARD_TICK_COMPLETE with waiters caught in the gap; HARD_PERIOD_COMPLETE in the SAFE hold with every command; a SAFE hold with restart and quit whose `execv` may fail | no free frame, no tick over an undispatched frame, quiet hold, shutdown from every wait, restart without resume or given up by a failed `execv` only |
| `logs` | six processes: one or two logs, on the service, on its last slot or alone, 3 entries by one thread or 1 by each of two, ring of 2, with or without a flush | a stop takes the log over before it closes it and loses nothing, skipped wakeups are not needed, flush misses at most one entry, stop returns |
| `params` | 3 sets of 2 words, 1 reader, 6 calls | whole reads of a set that was active, whole rollbacks, staged sets kept |
| `bus` | 3 external commands (2 acknowledged), 1 task that posts, 2 buffers, queues of 1 | exact reference counts, QUEUED before COMPLETION, every outcome accounted for, every command executed |
| `recovery` | 2 good payloads and a bad one, 1 upload, 1 failing rename, 2 failures of the executive, 2 starts of the supervisor, 2 crashes allowed | no payload lost by a swap, memory agrees with disk, launches bounded, boot settles, hung child killed |
| `actions` | 2 slots, 5 programs, action queue of 1, 5 commands or events | steps time out, abort events sent, priorities kept, sequences end |
| `stop_hang` | three workers, two rows of phase 1 and a waiter | violation, below |
| `tx_race` | 2 external commands, 1 task | violation, below |
| `reload` | 2 components, 3 rows, 3 reloads | violation, below |

Why these are enough to meet the cases: two workers are what it takes for one
to wait on a phase while the other advances it, for two completions to race,
and for a wakeup to go to either; three rows give a chain, a fork and a row
outside the group; contexts, rings, buffers and queues are smaller than what is
asked of them, so each runs out and wraps. In `FrameLoop` two ticks are what a
frame can be behind or ahead by, three commands are a pause, its resume and one
more. Two words are the least that can tear, and six calls are a load, a
publish, a load, an apply, a rollback and one more. One upload and one failing
rename, with a death at any step, reach each of the mixtures of banks, marker
and temporary file. Five commands or events start each of the five programs against the
others, stop one that has a handler or let it time out, and start its handler's rival, so
that a start stops one program whose handler stops another (2, 1, 3 and 4).

Instances that are not runs, each started as `tlc -config X.cfg M`:
`Cadence.cfg` with `MCCadence` (every rate up to 12 runs in 3 seconds at 5 Hz,
admissible or not, 40 cycles; 79,354 states) and `MonteCarlo.cfg` (2 workers,
3 runs, 2 sweeps; with 3 workers 195,469 states) pass; the theorems below say
the same of every size, except that a sweep ends (`SweepsEnd`), which is
checked only here. `TaskDispatchSoft.cfg` with `SkipOnBusy = TRUE` and
`JoinFirst = FALSE` passes too (2,052,686 states), and so does `WorkPool.cfg` with
`Pools <- TwoByTwo` for `NoDataRace`, `NoLostWakeup` and `ImplementsFifo`
(942,833 states), and `Reload.cfg` with `Quiesced = TRUE` for `TypeOK`,
`RowsAreLive`, `RunsAreLive` and `LoadIsAlone` (11,312 states).

`CHECK_DEADLOCK FALSE` stands where the system really may stop: commands,
uploads, failures and calls are bounded and then end; a paused executive waits
for a command that need not come; a log is stopped, a supervisor gives up; two
producers of the pool may leave its join hanging.

### Disagreements between code and documentation

Each is a run whose one property states what a comment says, and which TLC
violates. `PROJECT.json` quotes the lines.

| Run | What happens |
|---|---|
| `stop_hang` | Phase-1 tasks that end after the shutdown sentinel is stored bring the counter back up; a waiter parks on it for ever and the join hangs. |
| `tx_race` | The task thread's telemetry drain encodes into the scratch buffer the I/O thread has just encoded an acknowledgement into. |
| `reload` | A component is locked for a reload so that nothing reads what is replaced; the lock is seen by the next dispatch only, and a run handed out before goes on during the load. |

### Behaviours met

These were met while modelling. The first ones are kept as a `.cfg` whose
property TLC violates; the trace is the explanation.

| Config (module) | Property | What happens |
|---|---|---|
| `TaskDispatchOverrun` (`MCTaskDispatch`) | `DelayedNeverCorrupt` | After an overrun a second completion of the faster phase-1 task counts for the slower one; the tail runs while the slow task does. |
| `WorkPoolStranded` (`MCWorkPool`) | `NoneStranded` | With two producers a permit is spent on a claimed and unpublished cell; an accepted task stays in the ring while all workers sleep. |
| `FrameLoopIncomplete` (`MCFrameLoop`) | `TickComplete` | `threadsRunning()` does not count queued tasks: HARD_TICK_COMPLETE ticks over a task that has not begun (`RTMode.hpp:28`). |
| `FrameLoopStopHang` | `StopReachesAll` | Stage 1 notifies without the mutex; a thread about to sleep misses it. |
| `AsyncLogStranded` (`MCAsyncLog`) | `NoLostWakeup` | Two writers each see the depth the other has raised, neither wakes the service: entries stay until the next one (`LogDrainService.cpp:156`). |
| `AsyncLogStopHang` | `ShutdownUnparks` | An entry is popped before its writer has counted it. The stop's wakeup has been consumed when the wrapped depth keeps the thread from leaving; the count then makes it zero and the thread parks, with nobody left to wake it (`AsyncLogBackend.cpp:331-341`). |
| `MessageBusLeak` (`MCMessageBus`) | `ReleaseSucceeds` | The free list refuses a buffer that comes back to a cell whose consumer is between claim and release; the buffer is gone (`BufferPool.cpp:139`). |
| `RecoveryHold` (`Recovery`) | `HoldIsLast` | The fallback's marker is written before the flip; a crash in between makes the next boot hold with the other bank untried (`ApexExecutive.cpp:1389`, `:947`). |
| `RecoveryLost` | `CountSurvives` | The state file is cut before it is written; a supervisor that dies in between forgets the crashes it counted. |
| `ActionEngineGroup` (`MCActionEngine`) | `Exclusion` | The walk that stops the members of a group passes the slot an abort handler has just started one in (`SequenceCatalog.hpp:63`). |
| `ReloadLibrary` (`MCReload`) | `CodeOutlivesRun` | A library is unloaded while a run of it executes. |
| `ReloadCounter` | `CountersAreLive` | `replaceComponentTasks` re-wires the task of a row and not its phase counter: after library, table, library, with nothing in flight, a row's counter is in the unloaded library. |
| `MonteCarloPoll` (`MonteCarlo`) | `ContextOutlives` | A driver that reports progress polls the latch without its mutex: `execute()` returns, and its stack with it, while the last worker still notifies and unlocks. `Latch.cpp:26` explains why `wait()` cannot. |

Others show with the constants or properties named:

- `Reload`: the I/O thread, executing a command itself, holds a component across
  its replacement (`ApexInterface.cpp:457` to `:504`; `IoIsLive`, even with
  `Quiesced = TRUE`).
- `TaskDispatch`: a chain member locked for one frame leaves the counter behind
  for good (`frame` with `Lockable <- Row3` and without the assumption
  `FrameTables` of `MCTaskDispatch`, `PhaseOrder`). Outside skip mode the
  first of two runs to end clears the flag while the other is in flight (`soft`,
  `RunIsFlagged` without `Trusted`).
- `WorkPool`: with two producers and one worker the join may hang
  (`StopReturns` without `OneProducer`).
- `FrameLoop`: a failed `execv` leaves the hold released (a boot with `hold` and
  `execMayFail`, `HoldIsQuiet` without its second condition). A restart while
  paused, outside the hold: the task thread re-evaluates `isPaused` before the
  clock lowers it and sleeps on (`TasksParkShown`). A pause right after a resume
  parks the clock with `isPaused` down, and later resumes are ignored
  (`ClockParkShown` with `Boots <- PauseBoots`, `Target = 2`, `MaxCommands = 3`,
  `MaxQueued = 1`).
- `Recovery`: an interrupted wait for the child counts as a clean exit
  (`CleanExitResets`). A stop forwarded to a hung child waits for it without a
  timeout. A fallback boot that crashes is followed by an ordinary one, which
  unpacks the bad master over the good bank. A file swapped in by RELOAD_TPRM
  is overwritten by the master at the next ordinary boot. A stale `.swap` file
  is never recovered.
- `ParamBank`: `stagedValid_` stays up after a publish, so a second `apply()`
  publishes the replaced set (`ParamBank.hpp:194`).
- `AsyncLog`: `stop()` against two writers (three on the service) can report
  success with an accepted entry lost; a depth that has
  wrapped below zero refuses an entry of an empty queue, where
  `AsyncLogBackend.cpp:239-242` expects a full one.
- `MessageBus`: the I/O thread's own execution of a command overtakes those that
  are queued and runs the handler beside the component's tasks.
- `ActionEngine`: a step without delay fires without looking at its wait
  condition (`WaitRespected`, `DataSequence.hpp:209`). START_RTS by slot is not
  subject to groups. A handler started during pre-emption takes the freed slot
  and is overwritten. Members of a group are stopped even if the start then
  fails. An abort event is "fired when this sequence is preempted, stopped, or
  times out" (`SequenceCatalog.hpp:60`); one that waits for the end of the cycle
  is lost if its slot is loaded before, by a command, an event or a chain
  (`AbortsFire`), and LOAD_RTS over a running sequence raises none. `startSequence`
  does not reset the repeat count; residents keep theirs in `repeatCount`, not
  `repeatMax` (`ActionComponent.cpp:238`). `blocks` is the inverse of its
  description (`SequenceCatalog.hpp:68`). A step is lost when the queue is full.
  Two handlers of an abort event, in one exclusion group and with that event as
  their own abort event, make a start call itself for ever: each stops the
  other, which calls for both again, and `calls` grows without bound
  (`CatalogSize = 2`, both `Entry(1, 1, 7, 7, ...)`). `startRtsById` and
  `dispatchAbortEvents` are described as bounded (`ActionComponent.hpp:241`,
  `ActionInterface.hpp:773`), and nothing checks the catalog for it.
- `Reload`: only the schedulers and `Commands.cpp:312` read `isLocked`, though
  `SystemComponentBase.hpp:367` says the interface and the action engine do.
  RELOAD_TPRM unlocks a component the operator had locked. New rows start with
  their flags down while runs of the old ones are in flight.
- `Cadence`: a rate of 2/2 that has once been late stays late, without harm.
- `MonteCarlo`: the progress reported is the number of indices claimed, which
  may exceed the total.

## 4. Fairness

Everywhere: the operating system schedules every thread, and every task, run
and handler returns. What comes from outside is never promised: commands,
uploads, failures, a shutdown, another call.

- `TaskDispatch`: weak fairness of the dispatch thread's steps within a cycle,
  of each worker, and of `shutdown()` once it has begun.
- `WorkPool`: weak fairness of each producer, each worker and of the shutdown
  after its first step. A lock-free retry loop could starve under weak fairness
  in principle; here a failed compare-and-swap means that another thread has
  got on, and the tasks are finite.
- `FrameLoop`: weak fairness of each thread and of the workers.
- `AsyncLog`: weak fairness of each `tryLog` under way, of the drain threads and
  of `stop()` once begun; a drain thread that is parked needs its eventfd.
- `MessageBus`: weak fairness of the I/O thread, the task thread and of each
  post under way: both threads loop for as long as the process lives.
- `Recovery`: weak fairness of the supervisor and of a boot. That a dead
  supervisor is started again is not promised.
- `ActionEngine`: weak fairness of the cycle, which the schedule runs, and of
  the calls under way.
- `ParamBank`: weak fairness of a call under way and of each read; no liveness
  property is stated, since a reader retries for as long as it is overtaken.
- `MonteCarlo`: weak fairness of the driver and of each worker, strong fairness
  of taking the latch's mutex, which is held for a few instructions at a time.
- `Reload`, `Cadence`: safety only.

## 5. The proofs

Each module's theorems are in `<Module>Proofs`, those of `ActionEngine`, `Cadence`
and `Reload` in `ScheduleProofs` (where the definitions of `Cadence` have the
prefix `C!` and those of `Reload` `R!`), those of `ParamBank` and `MonteCarlo` in `SupportProofs`
(where the definitions of `MonteCarlo` have the prefix `D!`). They hold for every value of the
constants that meets the named assumptions: those stated with ASSUME in the
modules that have runs are evaluated by TLC on every instance; `MastersKnown`,
`OwnersKnown`, `HzKnown`, `RequestsKnown` and `WorkersKnown` are assumptions of
the theorems and say only what kind of thing a constant is. (`Recovery.cfg`,
`Reload.cfg`, `Cadence.cfg` and `MonteCarlo.cfg` satisfy them.)

**TaskDispatch** (`TableAssumption`, `GroupAssumption`, `PoolAssumption`,
`ModeAssumption`): `TypeCorrect`, `Conservation` (`CtxConservation`),
`FlagNeverStale` (`FlagHasRun`), `NoDoubleRun` (`OneRunInFlight`),
`FlagNeverMissing` (`RunIsFlagged`), for every table and mode; `StopIsClean`
(`CleanStop`) if `PoolsHaveWorkers`; `NoneDropped` (`NothingDropped`),
`PhasesInOrder` (`PhaseOrder`) and `ImplementsPromise` (the steps of the
refinement of `TaskRuns`) for `Ordered` tables, the last with `JoinFirst`.

None of the first ones is inductive alone. That a context is in one place needs to know
which step holds one (`Places`), and that it returns to its own pool needs
`HandPool`, because a row's pool is only looked up again at the push. That a
flag is never stale needs a run for it at each step of the undo, which needs the
dispatch thread's context to name the row it is at (`DispatchPlace`). That no
row runs twice and that no flag is missing need each other, and need the row to
be idle between the check and the mark (`SingleFlight`); the whole is
conditional on `Trusted`, skip mode or no violation yet, which is what the code
can keep. `IInv` is the conjunction. The proof treats the dispatch thread, the
workers and the shutdown in turn, after lemmas that say how moving a context
between the four places changes the sets of contexts. `StopInv` adds the order of
the shutdown: a worker leaves only a stopped pool with an empty ring, which stays
empty once the dispatch thread has ended.

`Ordered` (`TaskDispatchRefines`) is skip mode, the frame contract, `ChainTable`
and `Sized`. `ChainTable` is the construction `SequenceGroup.hpp:104-110` asks
for: the phase of a row is one more than the rows before it, the highest is the
number of rows. The rows of a group are due in the same cycles, once each, and
none is locked: both are needed, for a member that is passed over leaves the
counter behind. `Sized` gives a pool a context for each of its rows and workers,
and its ring a cell for each row. The code allocates the densest tick and two per
worker (`SchedulerMultiThread.cpp:227`), which is that much while a pool's rows
are no more than the densest tick and its workers; a pool whose rows are spread
over ticks may have fewer, and then late rows of other ticks can take the
contexts of a chain. TLC evaluates both on the instance of `frame`
(`FrameTables`).

`Left(g)` is what a frame has still to count of a group: the rows the walk has
not reached and those with a run that is not counted (`Uncounted`). Until
shutdown the counter is one more than the members that are not left, and back at
one when none is (`CountInv`). That is not enough for an order, for rows of equal
phase are counted in any order and shutdown drives the counter down: `PassInv`
says that the counter is at most one more than a set of members that are not left
and have nothing left below them. If a phase has come and a row below it were
left, none of that set could be that row or lie above it, so that it would be
smaller than the rows below the phase, against the count (`PhaseCome`); from
there on nothing joins what is left below a row that executes (`ExecInv`), since
a group is left whole or not at all when a frame begins (`LeftBegins`). That no
member is dropped is a count of contexts: the runs in flight in a pool are of
different rows (`RunsFit`), none of the row at hand, and every other context is
with a worker that returns it (`CtxLeft`, `RingLeft`). For the refinement, the
state of a row's run is read off the rows that execute and `Uncounted`
(`RunKnown`), and each step changes these as a step of `TaskRuns` does
(`RunsStep`).

**WorkPool** (`PoolAssumption`): `TypeCorrect`, `CellsHaveOneUser`
(`NoDataRace`), `WakeupsArrive` (`NoLostWakeup`), `StopDrains` (`Drained`) and
`RingIsQueue` (`ImplementsFifo`), for any number of producers, workers, tasks and
cells. `StopDrains` adds `PoolsHaveWorkers`: each pool of the instance has a
worker, which is what `isValid()` asks (`ThreadPoolLockFree.hpp:80`) and what the
scheduler gives (`SchedulerMultiThread.cpp:99` turns 0 threads into the number of
cores).

`RingInv` is the hand-over of the cells. A producer that has claimed a position
finds its cell's sequence number at that position and no other producer has it
(`WritersInv`); a worker that has claimed one finds it one above
(`ReadersInv`); a cell nobody has claimed says itself that it is free for this
lap or holds the task of the last (`CellsInv`). A thread *between* the load and
the compare-and-swap knows something of a cell only if the counter still has the
value it read (`ClaimInv`), which is the point of the compare-and-swap. Two
positions less than a lap apart are in different cells (`SameCell`), and from
there `NoDataRace` is arithmetic. `TaskInv` follows the tasks: what a producer has
sent is its own next number, and an accepted task is in the ring, in a worker's
hand, or has run (`KeptInv`).

`WaitInv` says that the count of waiters is the number of workers that have
announced themselves; with it `NoLostWakeup` is inductive. `Drained` needs the
balance of the permits (`SoleInv`): with one producer, until the stop adds its
own, permits and those on their way (`Due`) are as many as the tasks between
`tail` and `head`, so no worker finds the ring empty; after the stop, one that
does has seen `tail` pass every promised task. With two producers the balance
holds and does not help, for the cell at the tail may be claimed and not
published: that is `WorkPoolStranded`.

For the refinement a task's place in the queue is fixed when its producer claims
a position (`TaskAt`), before it is in the cell. `PlacesKept` says that no later
step moves the tasks between `tail` and `head`; so a claim at the head is a
`Put`, one at the tail a `Take`, and everything else a stutter (`QueueStep`).

**FrameLoop** (`FrameAssumption`): `TypeCorrect`, `FramesHaveTicks`
(`NoFreeFrame`), `HardTicks` (`FramesDispatched`), `DebtBounded`
(`SleepsCaughtUp`), `QuietHold` (`HoldIsQuiet`), with the gap and without.

A frame begins when the pending flag is up *or* the counters differ, so that no
frame is free needs `PendingIsDue`: outside a frame a raised flag stands for a
tick that no frame has answered. The bound of the counters needs `BelowTarget`
of the clock. The hard tick rests on `Handshake`, which follows the flag through
the frame: down only when the counters agree, up while they differ by the frame
at hand. `DebtBounded` has two parts. In every boot at most one tick is counted
over a task thread that lies down to wait for one; this says what a missed
notification costs, the wait until the next. And while it sleeps the thread is
one tick behind the clock at most, unless the notifications of earlier ticks were
lost to the gap while the clock went on, which HARD_TICK_COMPLETE does not let it
do. The first rests on `SleepBound`, which counts the notification on its way
from the moment the thread lay down (`slept`), and on `Awake`: a thread at work
is on no waiting list. The second adds that without the gap a thread lies down
caught up, and in the hard mode the `Handshake`. The quiet hold
rests on `HoldStill`: until a restart is requested the clock parks before its
first tick, a resume is refused, and after the request the first frame ends in
the new process.

**ParamBank** (`BankAssumption`): `TypeCorrect`, `WholeReads` (`ReadsAreWhole`),
`RollbackIsSound` (`RollbackRestores`), `StagedSetIsKept` (`StagedIsKept`), for
every number of words, readers and calls.

A bank is whole except for the one being written, whose words below the cursor
have the new value (`BanksWhole`, `StoredSoFar`). A reader's counter is even and
not ahead; *while it has not moved*, the bank it copies is whole, was active
during the read and agrees with the words copied so far (`ReaderInv`). The
writer raises the counter before it touches a word, which is where the
hypothesis goes, and the reader compares after the last word, which is where it
is used. Rollback needs `PrevWhole`: the bank to go back to is the one that is
staged into next and has not been touched, for every stage forgets it first.

**AsyncLog** (`LogAssumption`): `TypeCorrect`, `HandsOver` (`HandedOver`),
`StopLeavesNothing` (`StopKeeps`), `FlushLeavesOne` (`FlushedButOne`),
`SleepsOverNothing` (`SleepsEmpty`), for any number of logs, threads, calls and
slots, any capacity and any batch. The assumption asks for a `Width` above the
capacity and the threads together, as 2^64 is.

`HandInv` says who drains a log, from where its `stop()` is. The registry names
it in one slot while it runs and until the slot is cleared (`Registered`); a
sweep that is at it began before (`Served`), so when two more have begun it is
over. A thread of its own drains it until it
is joined (`Owned`), `stop()` in between (`Stopping`). So no two threads are in
`drainBatch` of a log, which everything else rests on.

`PlaceInv` follows the entries. What has been claimed is in the ring, in the hand
of that one thread, or in the file (`FoundInv`), and only what is published is
taken out (`PlacedInv`); each writer's entries keep its order from ring to hand
to file (`OrderInv`). `DepthInv` is what the counter means: entries in the ring
and the one just taken out, less those whose writer has not counted them
(`Balance`), modulo `Width`. The balance lies between minus the number of writers
and the capacity plus one, so the modulus loses nothing, and a depth of zero is a
balance of zero (`Counts`).

The rest is what a balance of zero says. With one writer, whose entries are in
order, at most the one it has not counted is left in the ring, and it is not
accepted (`DepthZero`): hence what `flush()` promises (`FlushInv`). A ring that
gives nothing to `drainBatch` begins with an entry that is not published; with
one writer it is the only one (`BlockedOne`), with two the other's may be behind
it. If an accepted one of the other is left, every entry that is not counted is in
the ring too (`BlockedTwo`), so that the balance is at least one and a `stop()`
that reads zero afterwards has left nothing (`Cramped`, `KeepInv`): its result is
to be trusted with two writers.

For sleep (`SleepInv`), a log's own thread parks on a depth of zero and only its
writers raise it, so the one that finds it zero is on its way to the eventfd
(`Parked`). The service parks on a sweep that found nothing, which says less: a
running log of one writer is empty, holds the one entry whose writer has yet to
count it, or is about to be notified, *unless* the service will come by again
before it parks (`WillVisit`, `Swept`). With two writers the second entry can be
behind the first, its writer has found the depth not zero, and nobody wakes the
service (`AsyncLogStranded`).

TLC checked the conjuncts of this invariant on the layouts of `logs` and one in
which a slot is used again (4,054,599 states) before they were proved.

**Recovery** (`PayloadAssumption`, `LimitsAssumption`, `MastersKnown`), with
`Banks`: `TypeCorrect`, `DiskAgrees` (`DiskMatchesMemory`), `SwapsKeepBoth`
(`SwapKeepsBoth`), `LaunchesStayBounded` (`LaunchesBounded`), for any number of
payloads, uploads, failing renames, crashes and restarts.

`LoadedInv` follows the payload that runs: in the inactive bank from RELOAD_TPRM
until the rename that brings it into the active one. `MarkerInv` says that
memory and marker name the same bank, but for the step between cutting the
marker and rewriting it. `SwapInv` says at each rename which two of the three
places hold the files the swap began with. The bound on launches is `CountInv`:
the count on disk is the one in memory or is unreadable, so that a supervisor
that starts again continues where the last one stopped, and what a death leaves
uncounted is charged to `deaths`. The proof shows that every step of the system
is a step of the banks or leaves them alone (`StepsOfBanks`), so each half of the
invariant is proved by itself.

**Reload** (`OwnersKnown`): `TypeCorrect`, `RowsStayLive` (whatever the checks of a library
reload decide, and whatever table is loaded, each row points into the instance
that is registered and loaded), `FirstTableCounts` (until the table is loaded
again no row counts phases in an unloaded library), `RunsSpared`
(`RunsAreSpared`: with any number of reloads while runs are in flight, a run is
handed out with a row and an instance that exist, and loses the row to nothing
but a new table and the code to nothing but a library that takes the place of the
one it runs in). The invariant of all three is `TableInv`: the registered
instance exists and the one linked in is never unloaded (`InstancesOk`). That a
run is handed out alive is the invariant of the rows; that the first library of
a component unloads nothing is that of the instances. `LoadIsAlone` is what the run
`reload` refutes; with `Quiesced` it is only model-checked, on the instance named
in section 3.

**Cadence** (`HzKnown`, `RequestsKnown`): `CadenceIsExact` (`NoDrift`),
`SlotsNameOnce` (`NamedOnce`), `RunsAreOnGrid` (`OnGrid`), `NeverLate`
(`StaysInStep`), for every fundamental, rate, offset and cycle.

The next run and its remainder are `InstantCad(row, kth)`: instant and carry by
the formula of the header. That `advance()` keeps this is a fact about quotient
and remainder of a sum (`InstantFacts` and the lemmas before it, from `DivDef`
alone, the prover's arithmetic being linear); that `initAt()` starts it is that
its K is the first instant not before the cycle. The walk of the placement has
the same invariant with `walked` (`WalkInv`) and its slot is the instant modulo
the fundamental. For a one-second pattern two instants of the walk are less
than a second apart, so no slot is named twice; for a longer one the check in
the loop is the proof. The pattern repeats after N runs, a whole number of
seconds, so that N placements cover every instant (`SlotInv`); the gate then
picks the instant from the cycles that share its slot, and `FirstLeft` says that
the instant it waits for is the first one nobody has consumed or passed over.

**MessageBus** (`PoolAssumption`, `NamesAssumption`, `QueueAssumption`,
`CompAssumption`): `TypeCorrect`, `RefsStayExact` (`RefsExact`), `AcksInOrder`
(`AckOrder`), `OutcomesAreAccounted` (`OutcomesAccounted`), for any pool and
free list, any components with queues of any capacity, any commands, targets and
acknowledgements, and any number of workers and posts. The assumptions say that the
free list has a cell for each buffer, that threads, buffers and commands are
distinct, and that each command and each task has a component with queues.

None of the three is inductive, and they need each other. `Counts` says that the
count of a *live* buffer, one somebody still has to release, is the number of its
holders. Each step moves one buffer's slots and shares by a known amount and
leaves every other buffer's alone (`AllStay`, `OthersStay`): a push turns a share
of the posting thread into a slot, a pop a slot into a share, a refused push
stays a share until it is released. Only the fill, which sets the count to what
the thread is about to owe, and the release change the count. For that the
fill's buffer must be idle, which is `Pool`: a buffer that is free or claimed for
a fill has no holder, is listed once, and two threads never fill the same one.

`Sole` says that one live buffer at most carries an external command and has one
holder, so that a buffer found in a queue or a hand is nowhere else. `Places`
says what each place means: in an inbox the command has not been executed, in
the completion outbox it has and asks for its frame, in an outbox, or owed by a
worker, the message is internal. `Routing` says the same of the I/O thread, which
may route a command while the task thread already executes it, for the inbox push
comes before the QUEUED frame.

`Frames` reads the frames built for a command off the place it is at: a live
buffer of an acknowledged command has its QUEUED frame, unless the I/O thread
is about to build it. The completion cannot overtake it because the same thread
builds both, one after the other, and takes completions only when it is idle;
nothing orders the execution, which may come first.

For `OutcomesAccounted`, `Lost` is the set of executed commands that are not
answered and not on their way. A command enters it in one step only, the hand-over
that finds the completion outbox full, and that step counts the drop; no step
leads out of it, since a lost command has no buffer and is not at the I/O thread.
In between, the buffer that carries a command is followed through push, pop and
handling (`Carries`). TLC checked the conjuncts of the invariant on the
instance of `bus` before they were proved.

**ActionEngine** (`EngineAssumption`): `TypeCorrect`, `TimeoutsHold`
(`StepsTimeOut`), `AbortsAreSent` (`AbortsSent`), `PrioritiesKept`
(`PriorityKept`), for any catalog, residents, number of slots, room of the action
queue, events and number of commands. The assumption says what an entry of the
catalog and a step are, and that 0 is no event.

None is inductive. A step's age says nothing without what is left of its try:
`Timely` is that the tries so far took a timeout each at most, age plus the
cycles left being no more than the timeout times the tries begun, and that the
tries begun are among those allowed. Whatever makes a step current resets all
four numbers; a tick moves one from left to age; a retry begins a try when
nothing is left. `OwedInv` says where an abort event that is owed is: in a
call under way that dispatches it, or behind the flag of its slot, with that
event still in the slot. A flag goes up when a sequence that runs is stopped or
times out; the calls that stop one for another lower it in the step that raises
it and put the dispatch on the stack (`Oust`), where it stays until it is the
innermost, however deep the calls before it nest. `HeardInv` says that the flags
are down once the slots' abort events have been sent; so when no call is under way
and the actions have had their turn, nothing is owed.

`PriorityKept` needs to know what the calls under way are about (`CommandCall`).
As long as a command goes on, each sequence a call is about is the one asked for
or a handler; each event is the abort event of a catalog's entry, because only
`startRtsById` sets one (`Raises`); and a call that will reset or load a slot is
pending only if what ran there when the command came may be ended (`GivenUp`),
which holds from the moment it was stopped, whatever has been started in the slot
since. A slot with such a call is no longer that of the sequence that was found
in it; a slot without one still has it, running. The stack needs no bound and no
order: a step replaces its top by calls that meet the same conditions
(`CallsInv`). TLC checked the conjuncts of the invariant on the instance of
`actions`, with four commands, before they were proved.

**MonteCarlo** (`WorkersKnown`): `SweepTypes` (types), `SlotsStayOwn` (`SlotsAreOwn`),
`SweepsReturnAll` (`ReturnsAll`), `WaitedContextOutlives` (`ContextOutlives`
when the driver waits).

The latch is a sum (`LatchInv`): its counter is the tasks not submitted, those
in the queue and the workers that have one and have not counted down
(`Pending`), so at zero there are none. Every index below the counter is written
or being run, by one worker (`RunInv`), and a worker that leaves has seen the
counter past the end. That a context outlives its users needs more,
`MutexInv`: a worker that has counted down and not unlocked holds the mutex, and
the driver that looks at the counter holds it too. A driver that polls does not,
and there the property is false.

Only model-checked: the liveness properties, which are `StopCompletes`,
`StopReturns`, `ImplementsFairRuns` (its steps are proved, its fairness is not),
`RestartHappens`, `CommandsRun`, `BootSettles`, `HungIsKilled`, `SequencesEnd` and
`SweepsEnd`. Every invariant of a passing run is a theorem. Out of the prover's
reach: liveness under fairness and `ENABLED`, induction over data, recursive
operators.

## 6. Not modelled, and what is left

- *Shared-memory ring bridge*: two processes over one segment with recovery
  rules of their own; the module to write next.
- *Sleep, verify, the executable's own bank swap and the LENIENT policy* of the
  executive; the clock's re-anchoring on wall time after a stall; what a task
  still running after the shutdown's drain deadline does to resources released
  behind it.
- *File transfer handler, NAK paths and framing* of the message interface; the
  asynchronous start of a log a second time; absolute-time sequences,
  watchpoint groups and catalog edits of the action engine.
- *Single-threaded and MCU schedulers, MCU executive*: one thread, nothing
  interleaves. *Registry*: filled by one thread and then frozen. *Barrier, the
  mutex thread pool, SPSC queue and ring buffer*: no user outside their tests,
  or of a kind `WorkPool` models in more detail.
- *Time server, telemetry manager, system monitor, data transform*: tasks on
  data of their own, mostly arithmetic on times.
- *Simulation models and mathematics* (floating point), *protocol encodings,
  checksums and encryption* (bytes and bits), *hardware drivers* (registers),
  *host-side tools, demos and tests*. They are by far the largest part of the
  repository's lines.

Worth proving next: that the calls of `ActionEngine` end for a catalog in which no
handler can bring about its own abort event; that `Cadence` gives `TaskDispatch`
the due cycles it takes as a constant.
Worth composing: the executive's shutdown with the
scheduler's, and `Reload` with `TaskDispatch`, so that a run in flight during a
reload is one at a definite access. `PROJECT.json` lists every component with
its reason.
