---------------------------- MODULE TaskDispatch ----------------------------
(***************************************************************************)
(* The multi-threaded scheduler: one dispatch thread walks the task table  *)
(* once per cycle and hands each due task, in a pooled context, to the     *)
(* worker pool the table names; workers run it, in phase order when the    *)
(* task belongs to a sequence group; a shutdown thread stops everything.   *)
(*                                                                         *)
(* One step is one atomic access of the code (a load, a store, a           *)
(* compare-and-swap, a push or a pop of the ring): the threads interleave  *)
(* between any two of them.                                                *)
(***************************************************************************)
EXTENDS Integers, Sequences, FiniteSets

CONSTANTS
    NumEntries,    \* rows of the task table (entries_)
    Slots,         \* schedule_: one sequence of rows per tick
    Pattern,       \* cycles after which every cadence repeats
    RunCycles,     \* the cycles of the pattern on which a row is due
    Groups,        \* the sequence groups
    GroupOf,       \* row -> its group, or NoGroup
    NoGroup,
    Phase,         \* row -> the phase it waits for
    MaxPhase,      \* group -> its highest phase
    NumPools,
    ConfigPool,    \* row -> the pool id its configuration asks for
    Workers,
    WorkerPool,    \* worker -> the pool it belongs to
    Ctxs,          \* the preallocated contexts
    CtxPool,       \* context -> the pool it was preallocated for
    NoCtx,
    QueueCap,      \* capacity of a pool's ring
    SkipOnBusy,    \* RT mode SOFT_SKIP_ON_BUSY
    Failing,       \* rows whose task may return an error code
    Lockable,      \* rows whose component may be locked and unlocked
    FrameContract, \* a chain completes before its next frame begins
    JoinFirst      \* shutdown() is called after the dispatch thread ended

Entries == 1 .. NumEntries
Pools   == 0 .. NumPools - 1
Ticks   == 0 .. Len(Slots) - 1

ASSUME TableAssumption ==
    /\ NumEntries \in Nat
    /\ Slots \in Seq(Seq(Entries))
    /\ Pattern \in Nat \ {0}
    /\ Len(Slots) \in Nat \ {0}
    /\ Pattern % Len(Slots) = 0
    /\ RunCycles \in [Entries -> SUBSET (0 .. Pattern - 1)]

ASSUME GroupAssumption ==
    /\ NoGroup \notin Groups
    /\ GroupOf \in [Entries -> Groups \cup {NoGroup}]
    /\ Phase \in [Entries -> Nat \ {0}]
    /\ MaxPhase \in [Groups -> Nat \ {0}]

ASSUME PoolAssumption ==
    /\ NumPools \in Nat \ {0}
    /\ IsFiniteSet(Workers)
    /\ ConfigPool \in [Entries -> Nat]
    /\ WorkerPool \in [Workers -> Pools]
    /\ CtxPool \in [Ctxs -> Pools]
    /\ NoCtx \notin Ctxs
    /\ QueueCap \in Nat \ {0}

ASSUME ModeAssumption ==
    /\ SkipOnBusy \in BOOLEAN
    /\ FrameContract \in BOOLEAN
    /\ JoinFirst \in BOOLEAN
    /\ Failing \subseteq Entries
    /\ Lockable \subseteq Entries

SEQ_SHUTDOWN == -1

VARIABLES
    dpc,         \* dispatch thread: where it is
    cycle,       \* the cycle it dispatches, within the pattern
    pos,         \* position in the slot's list
    dctx,        \* the context it has acquired and not yet enqueued
    locked,      \* row -> its component is locked
    isRunning,   \* row -> TaskEntry::isRunning
    violation,   \* periodViolationFlag_: sticky
    free,        \* contexts in the pools' free lists
    ctxEntry,    \* context -> TaskCtx::entry
    queue,       \* pool -> the contexts in its ring, oldest first
    permits,     \* pool -> count of its wakeup semaphore
    errors,      \* pool -> an error waits in its error queue
    wpc,         \* worker -> where it is
    wctx,        \* worker -> the context it runs
    wcur,        \* worker -> the phase counter it waits to change
    failed,      \* workers whose task returned an error code
    counter,     \* group -> its phase counter
    stopping,    \* SchedulerMultiThread::stopping_
    poolStop,    \* pool -> ThreadPoolLockFree::stop_
    spc,         \* the thread in shutdown(): where it is
    sidx         \* the row or pool it has reached

dispatchVars == <<dpc, cycle, pos, dctx, locked, violation>>
workerVars   == <<wpc, wctx, wcur, failed>>
stopVars     == <<stopping, poolStop, spc, sidx>>
vars == <<dispatchVars, isRunning, free, ctxEntry, queue, permits, errors,
          workerVars, counter, stopVars>>

----------------------------------------------------------------------------
(* The task table.                                                         *)

\* Slip: the slot lists the rows by ascending priority.
ReversedSlot ==
    LET s == Slots[1 + (cycle % Len(Slots))] IN
    [i \in 1 .. Len(s) |-> s[Len(s) + 1 - i]]

Slot      == Slots[1 + (cycle % Len(Slots))]
Current   == Slot[pos]
Sequenced(e) == GroupOf[e] # NoGroup

\* A row that asks for a pool the table does not configure runs in pool 0.
PoolFor(e) == IF ConfigPool[e] \in Pools THEN ConfigPool[e] ELSE 0

\* The contexts an acquire for the row can pop.
Avail(e) == {c \in free : CtxPool[c] = PoolFor(e)}

Due(e) == cycle \in RunCycles[e]

\* Advancing wraps to the first phase after the last one. Slip: it does not.
NextUnwrapped(g, cur) == cur + 1
NextPhase(g, cur) == IF cur >= MaxPhase[g] THEN 1 ELSE cur + 1

Entry(w) == ctxEntry[wctx[w]]
Group(w) == GroupOf[Entry(w)]

----------------------------------------------------------------------------
Init ==
    /\ dpc = "idle" /\ cycle = 0 /\ pos = 1 /\ dctx = NoCtx
    /\ locked = [e \in Entries |-> FALSE]
    /\ isRunning = [e \in Entries |-> FALSE]
    /\ violation = FALSE
    /\ free = Ctxs
    /\ ctxEntry \in [Ctxs -> {0}]
    /\ queue = [p \in Pools |-> <<>>]
    /\ permits = [p \in Pools |-> 0]
    /\ errors = [p \in Pools |-> FALSE]
    /\ wpc = [w \in Workers |-> "wait"]
    /\ wctx = [w \in Workers |-> NoCtx]
    /\ wcur = [w \in Workers |-> 0]
    /\ failed = {}
    /\ counter = [g \in Groups |-> 1]
    /\ stopping = FALSE
    /\ poolStop = [p \in Pools |-> FALSE]
    /\ spc = "run"
    /\ sidx = 0

----------------------------------------------------------------------------
(* The dispatch thread: executeTasksOnCycleMulti, dispatchSlot,            *)
(* enqueueTask.                                                            *)

\* The row at pos is done with; the last one of the slot ends the cycle.
NextRow ==
    IF pos < Len(Slot)
    THEN dpc' = "visit" /\ pos' = pos + 1 /\ UNCHANGED cycle
    ELSE dpc' = "idle" /\ pos' = 1 /\ cycle' = (cycle + 1) % Pattern

\* The errors of finished tasks are collected, then the walk begins.
BeginCycle ==
    /\ dpc = "idle"
    /\ FrameContract => \A e \in Entries : Sequenced(e) => ~isRunning[e]
    /\ errors' = [p \in Pools |-> FALSE]
    /\ IF Len(Slot) > 0
       THEN dpc' = "visit" /\ UNCHANGED cycle
       ELSE dpc' = "idle" /\ cycle' = (cycle + 1) % Pattern
    /\ UNCHANGED <<pos, dctx, locked, violation, isRunning, free, ctxEntry,
                   queue, permits, workerVars, counter, stopVars>>

\* The row is passed over: its cadence says no, or its component is locked.
PassOver ==
    /\ dpc = "visit"
    /\ ~Due(Current) \/ locked[Current]
    /\ NextRow
    /\ UNCHANGED <<dctx, locked, violation, isRunning, free, ctxEntry, queue,
                   permits, errors, workerVars, counter, stopVars>>

\* Slip: the busy row is dispatched without raising the violation flag.
NotFlagged == violation
Flagged    == violation \/ isRunning[Current]

GivenUp      == isRunning[Current] /\ SkipOnBusy

\* The previous run is not over when the next is due: a period violation.
\* In skip mode this run is given up, otherwise it is dispatched all the same.
CheckRunning ==
    /\ dpc = "visit"
    /\ Due(Current) /\ ~locked[Current]
    /\ violation' = Flagged
    /\ IF GivenUp
       THEN NextRow
       ELSE dpc' = "acquire" /\ UNCHANGED <<pos, cycle>>
    /\ UNCHANGED <<dctx, locked, isRunning, free, ctxEntry, queue, permits,
                   errors, workerVars, counter, stopVars>>

\* A context of the row's pool is popped; none left drops the dispatch.
Acquire ==
    /\ dpc = "acquire"
    /\ \/ /\ Avail(Current) = {}
          /\ NextRow
          /\ UNCHANGED <<dctx, free>>
       \/ \E c \in Avail(Current) :
            /\ free' = free \ {c}
            /\ dctx' = c
            /\ dpc' = "mark"
            /\ UNCHANGED <<pos, cycle>>
    /\ UNCHANGED <<locked, violation, isRunning, ctxEntry, queue, permits,
                   errors, workerVars, counter, stopVars>>

\* Slip: the row is not marked in flight.
NotMarked == isRunning
Marked    == [isRunning EXCEPT ![Current] = TRUE]

MarkDispatched ==
    /\ dpc = "mark"
    /\ isRunning' = Marked
    /\ ctxEntry' = [ctxEntry EXCEPT ![dctx] = Current]
    /\ dpc' = "enqueue"
    /\ UNCHANGED <<cycle, pos, dctx, locked, violation, free, queue, permits,
                   errors, workerVars, counter, stopVars>>

\* tryEnqueue refuses once the pool stops ...
EnqueueStopCheck ==
    /\ dpc = "enqueue"
    /\ dpc' = IF poolStop[PoolFor(Current)] THEN "release" ELSE "push"
    /\ UNCHANGED <<cycle, pos, dctx, locked, violation, isRunning, free,
                   ctxEntry, queue, permits, errors, workerVars, counter,
                   stopVars>>

\* ... or when the ring is full.
Push ==
    LET p == PoolFor(Current) IN
    /\ dpc = "push"
    /\ IF Len(queue[p]) < QueueCap
       THEN /\ queue' = [queue EXCEPT ![p] = Append(@, dctx)]
            /\ dctx' = NoCtx
            /\ dpc' = "signal"
       ELSE dpc' = "release" /\ UNCHANGED <<queue, dctx>>
    /\ UNCHANGED <<cycle, pos, locked, violation, isRunning, free, ctxEntry,
                   permits, errors, workerVars, counter, stopVars>>

Wakeup     == 1

Signal ==
    /\ dpc = "signal"
    /\ permits' = [permits EXCEPT ![PoolFor(Current)] = @ + Wakeup]
    /\ NextRow
    /\ UNCHANGED <<dctx, locked, violation, isRunning, free, ctxEntry, queue,
                   errors, workerVars, counter, stopVars>>

\* Slip: a context that is let go does not return to the free list.
NotFreed(c) == free
Freed(c)    == free \cup {c}

\* A refused enqueue gives the context back, then clears the mark.
ReleaseRefused ==
    /\ dpc = "release"
    /\ free' = Freed(dctx)
    /\ ctxEntry' = [ctxEntry EXCEPT ![dctx] = 0]
    /\ dctx' = NoCtx
    /\ dpc' = "unmark"
    /\ UNCHANGED <<cycle, pos, locked, violation, isRunning, queue, permits,
                   errors, workerVars, counter, stopVars>>

\* Slip: the mark of a refused enqueue stays.
NotCleared == isRunning
Cleared    == [isRunning EXCEPT ![Current] = FALSE]

Unmark ==
    /\ dpc = "unmark"
    /\ isRunning' = Cleared
    /\ NextRow
    /\ UNCHANGED <<dctx, locked, violation, free, ctxEntry, queue, permits,
                   errors, workerVars, counter, stopVars>>

\* The task execution thread leaves its loop between two cycles.
DispatchEnd ==
    /\ dpc = "idle"
    /\ dpc' = "ended"
    /\ UNCHANGED <<cycle, pos, dctx, locked, violation, isRunning, free,
                   ctxEntry, queue, permits, errors, workerVars, counter,
                   stopVars>>

\* A command locks or unlocks a component (before and after a hot swap).
ToggleLock(e) ==
    /\ locked' = [locked EXCEPT ![e] = ~@]
    /\ UNCHANGED <<dpc, cycle, pos, dctx, violation, isRunning, free, ctxEntry,
                   queue, permits, errors, workerVars, counter, stopVars>>

Dispatcher ==
    \/ BeginCycle \/ PassOver \/ CheckRunning \/ Acquire \/ MarkDispatched
    \/ EnqueueStopCheck \/ Push \/ Signal \/ ReleaseRefused \/ Unmark

----------------------------------------------------------------------------
(* A worker: workerLoop, taskTrampoline, waitForPhase, advancePhase.       *)

AcquirePermit(w) ==
    /\ wpc[w] = "wait"
    /\ permits[WorkerPool[w]] > 0
    /\ permits' = [permits EXCEPT ![WorkerPool[w]] = @ - 1]
    /\ wpc' = [wpc EXCEPT ![w] = "pop"]
    /\ UNCHANGED <<dispatchVars, isRunning, free, ctxEntry, queue, errors,
                   wctx, wcur, failed, counter, stopVars>>

\* Slip: a stopped pool's worker leaves without draining the ring.
WorkUnlessStopped(p) == queue[p] # <<>> /\ ~poolStop[p]
HasWork(p)           == queue[p] # <<>>

\* Queued work is drained before the stop flag is looked at.
Pop(w) ==
    LET p == WorkerPool[w] IN
    /\ wpc[w] = "pop"
    /\ \/ /\ HasWork(p)
          /\ wctx' = [wctx EXCEPT ![w] = Head(queue[p])]
          /\ queue' = [queue EXCEPT ![p] = Tail(@)]
          /\ wpc' = [wpc EXCEPT ![w] =
                       IF Sequenced(ctxEntry[Head(queue[p])])
                       THEN "phase" ELSE "exec"]
       \/ /\ ~HasWork(p)
          /\ wpc' = [wpc EXCEPT ![w] = IF poolStop[p] THEN "exit" ELSE "wait"]
          /\ UNCHANGED <<wctx, queue>>
    /\ UNCHANGED <<dispatchVars, isRunning, free, ctxEntry, permits, errors,
                   wcur, failed, counter, stopVars>>

\* waitForPhase reads the counter first: a phase that has come is enough.
ReadPhase(w) ==
    /\ wpc[w] = "phase"
    /\ IF counter[Group(w)] >= Phase[Entry(w)]
       THEN wpc' = [wpc EXCEPT ![w] = "exec"] /\ UNCHANGED wcur
       ELSE /\ wcur' = [wcur EXCEPT ![w] = counter[Group(w)]]
            /\ wpc' = [wpc EXCEPT ![w] = "abort"]
    /\ UNCHANGED <<dispatchVars, isRunning, free, ctxEntry, queue, permits,
                   errors, wctx, failed, counter, stopVars>>

\* Only then the abort flag: an aborted run neither executes nor advances.
ReadAbort(w) ==
    /\ wpc[w] = "abort"
    /\ IF stopping
       THEN /\ wpc' = [wpc EXCEPT ![w] = "mark"]
            /\ wcur' = [wcur EXCEPT ![w] = 0]
       ELSE wpc' = [wpc EXCEPT ![w] = "park"] /\ UNCHANGED wcur
    /\ UNCHANGED <<dispatchVars, isRunning, free, ctxEntry, queue, permits,
                   errors, wctx, failed, counter, stopVars>>

\* Parking compares with the value read: it blocks while the counter has it,
\* and a wakeup compares again.
Park(w) ==
    /\ wpc[w] = "park"
    /\ IF counter[Group(w)] = wcur[w]
       THEN wpc' = [wpc EXCEPT ![w] = "parked"] /\ UNCHANGED wcur
       ELSE /\ wpc' = [wpc EXCEPT ![w] = "phase"]
            /\ wcur' = [wcur EXCEPT ![w] = 0]
    /\ UNCHANGED <<dispatchVars, isRunning, free, ctxEntry, queue, permits,
                   errors, wctx, failed, counter, stopVars>>

\* The workers that a notify_all on a group's counter wakes.
Woken(g) == {v \in Workers : wpc[v] = "parked" /\ Group(v) = g}

Execute(w) ==
    /\ wpc[w] = "exec"
    /\ \/ UNCHANGED failed
       \/ Entry(w) \in Failing /\ failed' = failed \cup {w}
    /\ wpc' = [wpc EXCEPT ![w] =
                 IF Sequenced(Entry(w)) THEN "advance" ELSE "mark"]
    /\ UNCHANGED <<dispatchVars, isRunning, free, ctxEntry, queue, permits,
                   errors, wctx, wcur, counter, stopVars>>

AdvancePhase(w) ==
    /\ wpc[w] = "advance"
    /\ counter' = [counter EXCEPT ![Group(w)] = NextPhase(Group(w), @)]
    /\ wpc' = [wpc EXCEPT ![w] = "notify"]
    /\ UNCHANGED <<dispatchVars, isRunning, free, ctxEntry, queue, permits,
                   errors, wctx, wcur, failed, stopVars>>

Notify(w) ==
    /\ wpc[w] = "notify"
    /\ wpc' = [v \in Workers |-> CASE v = w -> "mark"
                                   [] v \in Woken(Group(w)) -> "park"
                                   [] OTHER -> wpc[v]]
    /\ UNCHANGED <<dispatchVars, isRunning, free, ctxEntry, queue, permits,
                   errors, wctx, wcur, failed, counter, stopVars>>

MarkCompleted(w) ==
    /\ wpc[w] = "mark"
    /\ isRunning' = [isRunning EXCEPT ![Entry(w)] = FALSE]
    /\ wpc' = [wpc EXCEPT ![w] = "release"]
    /\ UNCHANGED <<dispatchVars, free, ctxEntry, queue, permits, errors, wctx,
                   wcur, failed, counter, stopVars>>

ReleaseCtx(w) ==
    /\ wpc[w] = "release"
    /\ free' = Freed(wctx[w])
    /\ ctxEntry' = [ctxEntry EXCEPT ![wctx[w]] = 0]
    /\ wctx' = [wctx EXCEPT ![w] = NoCtx]
    /\ wpc' = [wpc EXCEPT ![w] = IF w \in failed THEN "report" ELSE "wait"]
    /\ UNCHANGED <<dispatchVars, isRunning, queue, permits, errors, wcur,
                   failed, counter, stopVars>>

Report(w) ==
    /\ wpc[w] = "report"
    /\ errors' = [errors EXCEPT ![WorkerPool[w]] = TRUE]
    /\ failed' = failed \ {w}
    /\ wpc' = [wpc EXCEPT ![w] = "wait"]
    /\ UNCHANGED <<dispatchVars, isRunning, free, ctxEntry, queue, permits,
                   wctx, wcur, counter, stopVars>>

Worker(w) ==
    \/ AcquirePermit(w) \/ Pop(w) \/ ReadPhase(w) \/ ReadAbort(w) \/ Park(w)
    \/ Execute(w) \/ AdvancePhase(w) \/ Notify(w) \/ MarkCompleted(w)
    \/ ReleaseCtx(w) \/ Report(w)

----------------------------------------------------------------------------
(* shutdown(): raise the flag, drive every counter, stop and join the      *)
(* pools one after the other.                                              *)

RaiseStop ==
    /\ spc = "run"
    /\ JoinFirst => dpc = "ended"
    /\ stopping' = TRUE
    /\ spc' = "drive" /\ sidx' = 1
    /\ UNCHANGED <<dispatchVars, isRunning, free, ctxEntry, queue, permits,
                   errors, workerVars, counter, poolStop>>

\* Rows are walked in table order; a row without a group is passed over.
DriveCounter ==
    /\ spc = "drive" /\ sidx \in Entries
    /\ IF Sequenced(sidx)
       THEN /\ counter' = [counter EXCEPT ![GroupOf[sidx]] = SEQ_SHUTDOWN]
            /\ spc' = "wake" /\ UNCHANGED sidx
       ELSE sidx' = sidx + 1 /\ UNCHANGED <<counter, spc>>
    /\ UNCHANGED <<dispatchVars, isRunning, free, ctxEntry, queue, permits,
                   errors, workerVars, stopping, poolStop>>

WakeWaiters ==
    /\ spc = "wake"
    /\ wpc' = [v \in Workers |-> IF v \in Woken(GroupOf[sidx]) THEN "park"
                                 ELSE wpc[v]]
    /\ spc' = "drive" /\ sidx' = sidx + 1
    /\ UNCHANGED <<dispatchVars, isRunning, free, ctxEntry, queue, permits,
                   errors, wctx, wcur, failed, counter, stopping, poolStop>>

CountersDriven ==
    /\ spc = "drive" /\ sidx \notin Entries
    /\ spc' = "stop" /\ sidx' = 0
    /\ UNCHANGED <<dispatchVars, isRunning, free, ctxEntry, queue, permits,
                   errors, workerVars, counter, stopping, poolStop>>

StopPool ==
    /\ spc = "stop"
    /\ IF sidx \in Pools
       THEN poolStop' = [poolStop EXCEPT ![sidx] = TRUE] /\ spc' = "permit"
       ELSE spc' = "done" /\ UNCHANGED poolStop
    /\ UNCHANGED <<dispatchVars, isRunning, free, ctxEntry, queue, permits,
                   errors, workerVars, counter, stopping, sidx>>

\* One permit per worker, so that each of them looks at the stop flag. Slip:
\* none.
NoPermits(p)   == 0
StopPermits(p) == Cardinality({w \in Workers : WorkerPool[w] = p})

ReleaseWorkers ==
    /\ spc = "permit"
    /\ permits' = [permits EXCEPT ![sidx] = @ + StopPermits(sidx)]
    /\ spc' = "join"
    /\ UNCHANGED <<dispatchVars, isRunning, free, ctxEntry, queue, errors,
                   workerVars, counter, stopping, poolStop, sidx>>

JoinWorkers ==
    /\ spc = "join"
    /\ \A w \in Workers : WorkerPool[w] = sidx => wpc[w] = "exit"
    /\ spc' = "stop" /\ sidx' = sidx + 1
    /\ UNCHANGED <<dispatchVars, isRunning, free, ctxEntry, queue, permits,
                   errors, workerVars, counter, stopping, poolStop>>

Shutdown ==
    \/ DriveCounter \/ WakeWaiters \/ CountersDriven \/ StopPool
    \/ ReleaseWorkers \/ JoinWorkers

\* Everything has stopped.
Stopped ==
    /\ spc = "done" /\ dpc = "ended"
    /\ UNCHANGED vars

Next ==
    \/ Dispatcher
    \/ DispatchEnd
    \/ \E e \in Lockable : ToggleLock(e)
    \/ \E w \in Workers : Worker(w)
    \/ RaiseStop
    \/ Shutdown
    \/ Stopped

Spec == Init /\ [][Next]_vars

\* The operating system schedules every thread and every task returns; when
\* the executive stops, when shutdown is called and what commands arrive is
\* left open.
Fairness ==
    /\ WF_vars(Dispatcher)
    /\ \A w \in Workers : WF_vars(Worker(w))
    /\ WF_vars(Shutdown)

FairSpec == Spec /\ Fairness

----------------------------------------------------------------------------
(* Where a context can be, and the runs it stands for.                     *)

QueueRange(p) == {queue[p][i] : i \in 1 .. Len(queue[p])}
Queued == UNION {QueueRange(p) : p \in Pools}
Held   == {wctx[w] : w \in Workers} \ {NoCtx}
InHand == {dctx} \ {NoCtx}

\* Workers between taking a run and marking it completed.
Waiting == {"phase", "abort", "park", "parked"}
Running == Waiting \cup {"exec", "advance", "notify", "mark"}

\* A run is in flight from its dispatch mark to its completion mark.
OnWorkers == {wctx[w] : w \in {v \in Workers : wpc[v] \in Running}}
OnPad     == IF dpc \in {"enqueue", "push"} THEN {dctx} ELSE {}
InFlight  == Queued \cup OnWorkers \cup OnPad

RunsOf(e) == {c \in InFlight : ctxEntry[c] = e}

\* The dispatch thread is taking back the mark of a refused enqueue.
Undoing(e) == dpc \in {"release", "unmark"} /\ Current = e

\* A run whose phase has not been counted yet.
Unfinished ==
    InFlight \ {wctx[w] : w \in {v \in Workers : wpc[v] \in {"notify", "mark"}}}

----------------------------------------------------------------------------
(* Safety.                                                                 *)

\* Every variable keeps to the values the code can give it.
TypeOK ==
    /\ dpc \in {"idle", "visit", "acquire", "mark", "enqueue", "push",
                "signal", "release", "unmark", "ended"}
    /\ cycle \in 0 .. Pattern - 1
    /\ pos \in Nat \ {0}
    /\ dpc \notin {"idle", "ended"} => pos <= Len(Slot)
    /\ dctx \in Ctxs \cup {NoCtx}
    /\ locked \in [Entries -> BOOLEAN]
    /\ isRunning \in [Entries -> BOOLEAN]
    /\ violation \in BOOLEAN
    /\ free \subseteq Ctxs
    /\ ctxEntry \in [Ctxs -> Entries \cup {0}]
    /\ queue \in [Pools -> Seq(Ctxs)]
    /\ permits \in [Pools -> Nat]
    /\ errors \in [Pools -> BOOLEAN]
    /\ wpc \in [Workers -> Running \cup {"wait", "pop", "release", "report",
                                         "exit"}]
    /\ wctx \in [Workers -> Ctxs \cup {NoCtx}]
    /\ wcur \in [Workers -> Int]
    /\ failed \subseteq Workers
    /\ counter \in [Groups -> Int]
    /\ stopping \in BOOLEAN
    /\ poolStop \in [Pools -> BOOLEAN]
    /\ spc \in {"run", "drive", "wake", "stop", "permit", "join", "done"}
    /\ sidx \in Nat

\* Contexts are conserved: each is in exactly one place - a free list, the
\* dispatch thread's hand, one ring cell, or one worker - and never in the
\* ring or with a worker of a pool other than its own (TaskCtx::poolId).
CtxConservation ==
    /\ Ctxs = free \cup InHand \cup Queued \cup Held
    /\ free \cap (InHand \cup Queued \cup Held) = {}
    /\ InHand \cap (Queued \cup Held) = {}
    /\ Queued \cap Held = {}
    /\ \A p \in Pools : \A i, j \in 1 .. Len(queue[p]) :
         queue[p][i] = queue[p][j] => i = j
    /\ \A v, w \in Workers : wctx[v] = wctx[w] /\ wctx[v] # NoCtx => v = w
    /\ \A p \in Pools : \A c \in QueueRange(p) : CtxPool[c] = p
    /\ \A w \in Workers : wctx[w] # NoCtx => CtxPool[wctx[w]] = WorkerPool[w]

\* A chain that keeps its frame contract loses no dispatch: no context pool or
\* ring sized for the tick and the workers runs out, so every phase comes.
NothingDropped ==
    FrameContract /\ JoinFirst =>
      /\ dpc = "acquire" => Avail(Current) # {}
      /\ dpc \notin {"release", "unmark"}

\* The modes and times in which isRunning tells the whole truth.
Trusted == SkipOnBusy \/ ~violation

\* No task runs twice at once without the scheduler knowing: in skip mode
\* two runs of one row are never in flight together, in the other modes not
\* before the sticky violation flag the hard modes die on is up.
OneRunInFlight ==
    Trusted =>
      \A c, d \in InFlight : ctxEntry[c] = ctxEntry[d] => c = d

\* The in-flight flag is never missing: while it can be trusted (as above),
\* a row with a run in flight reads as running at its next dispatch.
RunIsFlagged ==
    Trusted =>
      \A e \in Entries : RunsOf(e) # {} => isRunning[e]

\* The flag is never stale: a row reads as running only while a run of it is
\* in flight (or its refused enqueue is being undone), in every mode, after
\* drops, aborts and shutdown alike; so no row is starved for ever and no
\* hard mode stops the system over a run that is not there.
FlagHasRun ==
    \A e \in Entries : isRunning[e] => RunsOf(e) # {} \/ Undoing(e)

\* With a single dispatch thread every wakeup finds its item: until the pool
\* is told to stop, a worker that got a permit finds the ring non-empty.
NoEmptyWakeup ==
    \A w \in Workers :
      wpc[w] = "pop" /\ ~poolStop[WorkerPool[w]] => queue[WorkerPool[w]] # <<>>

\* Under the frame contract a sequenced task executes only when no run of a
\* lower phase of its group is unfinished.
PhaseOrder ==
    FrameContract /\ ~stopping =>
      \A w \in Workers : wpc[w] = "exec" /\ Sequenced(Entry(w)) =>
        \A c \in Unfinished : GroupOf[ctxEntry[c]] = Group(w) =>
          Phase[ctxEntry[c]] >= Phase[Entry(w)]

\* When shutdown() returns after the dispatch thread ended, nothing is left
\* behind: all rings are empty, all contexts free, no row reads as running.
CleanStop ==
    spc = "done" /\ JoinFirst =>
      /\ \A p \in Pools : queue[p] = <<>>
      /\ free = Ctxs
      /\ \A e \in Entries : ~isRunning[e]

\* Once the counters are driven no waiter gets past its phase: an aborted run
\* neither executes nor advances (taskTrampoline's abort path).
NoPhaseAfterStop ==
    [][\A w \in Workers :
         spc \in {"stop", "permit", "join", "done"} /\ wpc[w] = "phase"
           => wpc'[w] # "exec"]_vars

----------------------------------------------------------------------------
(* Liveness.                                                               *)

\* Every dispatched run ends, whatever the number of workers: waiting tail
\* tasks never hold all the workers their predecessors need.
RunEnds == \A e \in Entries : isRunning[e] ~> ~isRunning[e]

\* shutdown() returns: no worker stays parked on a phase counter.
StopCompletes == stopping ~> spc = "done"

----------------------------------------------------------------------------
(* What the inductive invariant adds.                                      *)

\* Which thread holds a context at which step, and that a context in use
\* names its row.
DispatchPlace ==
    /\ dpc = "idle" => pos = 1
    /\ dctx # NoCtx <=> dpc \in {"mark", "enqueue", "push", "release"}
    /\ dpc \in {"enqueue", "push", "release"} => ctxEntry[dctx] = Current

WorkerPlace(w) ==
    /\ wctx[w] # NoCtx <=> wpc[w] \in Running \cup {"release"}
    /\ wctx[w] # NoCtx => Entry(w) \in Entries
    /\ wpc[w] \in Waiting \cup {"advance", "notify"} => Sequenced(Entry(w))

RingPlace(p) == \A i \in 1 .. Len(queue[p]) : ctxEntry[queue[p][i]] \in Entries

Places ==
    /\ DispatchPlace
    /\ \A w \in Workers : WorkerPlace(w)
    /\ \A p \in Pools : RingPlace(p)

\* A context in the dispatch thread's hand was preallocated for its pool.
HandPool == dctx # NoCtx => CtxPool[dctx] = PoolFor(Current)

\* One run per row, flagged, while the flags can be trusted: a row past the
\* check has none, nor has a row whose refused enqueue is being undone.
SingleFlight ==
    Trusted =>
      /\ \A c, d \in InFlight : ctxEntry[c] = ctxEntry[d] => c = d
      /\ \A c \in InFlight : ctxEntry[c] \in Entries /\ isRunning[ctxEntry[c]]
      /\ dpc \in {"acquire", "mark"} => ~isRunning[Current]
      /\ dpc \in {"release", "unmark"} => \A c \in InFlight : ctxEntry[c] # Current

----------------------------------------------------------------------------
(* What comments of the code say and the code does not keep.               *)

\* "delayed, never corrupt": a sequenced task never executes while a task of
\* a lower phase of its group executes.
DelayedNeverCorrupt ==
    ~ \E v, w \in Workers :
        /\ wpc[v] = "exec" /\ wpc[w] = "exec"
        /\ Sequenced(Entry(v)) /\ Group(v) = Group(w)
        /\ Phase[Entry(v)] < Phase[Entry(w)]

\* "waiters wake on the value change and exit via their abort flag": once the
\* pools are joined, a parked waiter has somebody left to wake it.
StopFreesWaiters ==
    spc = "join" =>
      \A w \in Workers : wpc[w] = "parked" =>
        \E v \in Workers : /\ wpc[v] \in {"exec", "advance", "notify"}
                          /\ Group(v) = Group(w)
=============================================================================
