------------------------------ MODULE FrameLoop ------------------------------
(***************************************************************************)
(* The threads of ApexExecutive that make frames: startup, clock, task     *)
(* execution, shutdown and the commands of the external I/O thread, with   *)
(* the atomics they share, the condition variables they sleep on and the   *)
(* thread pool's workers.  Notifications are sent without the mutex.       *)
(***************************************************************************)
EXTENDS Naturals

CONSTANTS
    Boots,          \* the ways the program may be started, and what it may meet
    Target,         \* clock cycle at which the clock requests the shutdown
    MaxCommands,    \* bound on the commands of a run
    MaxQueued       \* bound on the dispatched tasks no worker has started

Modes    == {"tick",     \* HARD_TICK_COMPLETE
             "period",   \* HARD_PERIOD_COMPLETE
             "soft"}     \* the modes that only count
Commands == {"pause", "resume", "quit", "restart"}

\* mode: RTMode; hold: booted into the SAFE ingest hold; commands: those the
\* I/O thread may receive; execMayFail: execv may return; gap: a waiter may be
\* caught between its predicate and its sleep.
ASSUME FrameAssumption ==
    /\ Boots \subseteq [mode : Modes, hold : BOOLEAN, commands : SUBSET Commands,
                        execMayFail : BOOLEAN, gap : BOOLEAN]
    /\ Target \in Nat \ {0}
    /\ MaxCommands \in Nat /\ MaxQueued \in Nat

VARIABLES
    control,     \* ControlState
    clock,       \* ClockState: cycles, isRunning
    task,        \* TaskExecutionState: cycles, stepPending; ghost: slept, the clock's
                 \* count when the thread lay down for the tick it waits for
    pool,        \* the scheduler: tasks queued and active, periodViolation
    at,          \* thread -> step
    asleep,      \* thread -> condition variable it sleeps on, "gap" or "no"
    mutex,       \* holder of cvMutex_, or "free"
    budget,      \* commands still to come
    replaced,    \* execv has replaced the process
    boot         \* the member of Boots this run was started with

vars == <<control, clock, task, pool, at, asleep, mutex, budget, replaced, boot>>

Waiters == {"clock", "tasks"}
Threads == Waiters \cup {"startup", "shutdown", "io"}

Init ==
    /\ boot \in Boots
    /\ control = [startupRequested  |-> FALSE,
                  shutdownRequested |-> FALSE,
                  pauseRequested    |-> boot.hold,
                  isPaused          |-> FALSE,
                  restartPending    |-> FALSE]
    /\ clock = [cycles |-> 0, isRunning |-> FALSE]
    /\ task = [cycles |-> 0, stepPending |-> FALSE, slept |-> 0]
    /\ pool = [queued |-> 0, active |-> 0, violation |-> FALSE]
    /\ at = [t \in Threads |-> IF t = "io" THEN "poll" ELSE "start"]
    /\ asleep = [t \in Waiters |-> "no"]
    /\ mutex = "free"
    /\ budget = MaxCommands
    /\ replaced = FALSE

----------------------------------------------------------------------------
(* Condition variables.                                                    *)

\* What each wait sleeps on.
CvOf(step) ==
    CASE step = "start"              -> [clock |-> "cvStartup", tasks |-> "cvClockTick"]
      [] step \in {"sync", "tick"}   -> [clock |-> "none", tasks |-> "cvClockTick"]
      [] step = "parked"             -> [clock |-> "cvPause", tasks |-> "cvPause"]
      [] OTHER                       -> [clock |-> "none", tasks |-> "none"]

\* notify_all: whoever is in the gap is not on the list yet.
Notify(cvs) ==
    asleep' = [t \in Waiters |-> IF asleep[t] \in cvs THEN "no" ELSE asleep[t]]

To(t, step) == at' = [at EXCEPT ![t] = step]

\* An awake waiter takes the mutex and evaluates its predicate.
Examines(t, step) == at[t] = step /\ asleep[t] = "no" /\ mutex = "free"

\* Onto the condition variable's list.
LieDown(t) ==
    /\ asleep' = [asleep EXCEPT ![t] = CvOf(at[t])[t]]
    /\ task' = IF at[t] = "tick" THEN [task EXCEPT !.slept = clock.cycles] ELSE task

\* The predicate is false: to sleep, in one step or through the gap.
FallAsleep(t) ==
    /\ UNCHANGED <<control, clock, pool, at, budget, replaced, boot>>
    /\ \/ ~boot.gap /\ LieDown(t) /\ UNCHANGED mutex
       \/ boot.gap /\ asleep' = [asleep EXCEPT ![t] = "gap"] /\ mutex' = t /\ UNCHANGED task

\* From the gap onto the condition variable's list; the mutex is let go.
Block(t) ==
    /\ asleep[t] = "gap"
    /\ LieDown(t)
    /\ mutex' = "free"
    /\ UNCHANGED <<control, clock, pool, at, budget, replaced, boot>>

Stopping == control.shutdownRequested

----------------------------------------------------------------------------
(* startup(): raise the flag, then wake the clock.                         *)

RequestStartup ==
    /\ at["startup"] = "start"
    /\ control' = [control EXCEPT !.startupRequested = TRUE]
    /\ To("startup", "notify")
    /\ UNCHANGED <<clock, task, pool, asleep, mutex, budget, replaced, boot>>

NotifyStartup ==
    /\ at["startup"] = "notify"
    /\ Notify({"cvStartup"})
    /\ To("startup", "done")
    /\ UNCHANGED <<control, clock, task, pool, mutex, budget, replaced, boot>>

----------------------------------------------------------------------------
(* clock().                                                                *)

ClockStart ==
    /\ Examines("clock", "start")
    /\ \/ ~control.startupRequested /\ ~Stopping /\ FallAsleep("clock")
       \/ /\ control.startupRequested /\ ~Stopping
          /\ clock' = [clock EXCEPT !.isRunning = TRUE]
          /\ To("clock", "loop")
          /\ UNCHANGED <<control, task, pool, asleep, mutex, budget, replaced, boot>>
       \/ /\ Stopping
          /\ Notify({"cvClockTick"})
          /\ To("clock", "done")
          /\ UNCHANGED <<control, clock, task, pool, mutex, budget, replaced, boot>>

\* The deadline is reached, or the shutdown was seen.
ClockWake ==
    /\ at["clock"] = "loop"
    /\ To("clock", IF Stopping THEN "exit" ELSE "check")
    /\ UNCHANGED <<control, clock, task, pool, asleep, mutex, budget, replaced, boot>>

\* threadsRunning() counts the tasks the workers have begun.
PoolActive == pool.active > 0

\* Slip: pending work is not looked for.
PoolOnly == boot.mode = "tick" /\ PoolActive

IsViolation ==
    \/ boot.mode = "tick" /\ (task.stepPending \/ PoolActive)
    \/ boot.mode = "period" /\ pool.violation

\* A violation in a hard mode stops the clock before the tick.
ClockCheck ==
    /\ at["clock"] = "check"
    /\ pool' = [pool EXCEPT !.violation = IF boot.mode = "period" THEN FALSE ELSE @]
    /\ IF IsViolation
       THEN control' = [control EXCEPT !.shutdownRequested = TRUE]
            /\ Notify({"cvClockTick"}) /\ To("clock", "exit")
       ELSE To("clock", "prepause") /\ UNCHANGED <<control, asleep>>
    /\ UNCHANGED <<clock, task, mutex, budget, replaced, boot>>

\* Slip: a pause is looked for only while it is shown.
ParkAgain == control.pauseRequested /\ control.isPaused
MustPark  == control.pauseRequested /\ ~control.isPaused

ClockPrePause ==
    /\ at["clock"] = "prepause"
    /\ To("clock", IF Stopping THEN "exit" ELSE IF MustPark THEN "pause" ELSE "signal")
    /\ UNCHANGED <<control, clock, task, pool, asleep, mutex, budget, replaced, boot>>

ClockSignal ==
    /\ at["clock"] = "signal"
    /\ task' = [task EXCEPT !.stepPending = TRUE]
    /\ To("clock", "notify")
    /\ UNCHANGED <<control, clock, pool, asleep, mutex, budget, replaced, boot>>

ClockNotify ==
    /\ at["clock"] = "notify"
    /\ Notify({"cvClockTick"})
    /\ To("clock", "count")
    /\ UNCHANGED <<control, clock, task, pool, mutex, budget, replaced, boot>>

\* Count the tick; at the target cycle request the shutdown and leave.
ClockCount ==
    /\ at["clock"] = "count"
    /\ clock' = [clock EXCEPT !.cycles = @ + 1]
    /\ IF clock.cycles + 1 >= Target
       THEN control' = [control EXCEPT !.shutdownRequested = TRUE] /\ To("clock", "exit")
       ELSE To("clock", "postpause") /\ UNCHANGED control
    /\ UNCHANGED <<task, pool, asleep, mutex, budget, replaced, boot>>

ClockPostPause ==
    /\ at["clock"] = "postpause"
    /\ To("clock", IF MustPark THEN "pause" ELSE "loop")
    /\ UNCHANGED <<control, clock, task, pool, asleep, mutex, budget, replaced, boot>>

\* handleClockPause: mark the system paused, then wait.
MarkPaused ==
    /\ at["clock"] = "pause"
    /\ control' = [control EXCEPT !.isPaused = TRUE]
    /\ To("clock", "parked")
    /\ UNCHANGED <<clock, task, pool, asleep, mutex, budget, replaced, boot>>

\* Slip: a pending restart does not end the wait.
StayDeaf   == control.pauseRequested /\ ~Stopping
StayParked == control.pauseRequested /\ ~Stopping /\ ~control.restartPending

\* A restart is released under the mutex the wait returns with.
ClockPark ==
    /\ Examines("clock", "parked")
    /\ \/ /\ StayParked
          /\ FallAsleep("clock")
       \/ /\ ~StayParked /\ control.restartPending
          /\ control' = [control EXCEPT !.pauseRequested = FALSE]
          /\ To("clock", "release")
          /\ mutex' = "clock"
          /\ UNCHANGED <<clock, task, pool, asleep, budget, replaced, boot>>
       \/ /\ ~StayParked /\ ~control.restartPending
          /\ To("clock", "loop")
          /\ UNCHANGED <<control, clock, task, pool, asleep, mutex, budget, replaced, boot>>

ReleaseTasks ==
    /\ at["clock"] = "release"
    /\ control' = [control EXCEPT !.isPaused = FALSE]
    /\ mutex' = "free"
    /\ To("clock", "loop")
    /\ UNCHANGED <<clock, task, pool, asleep, budget, replaced, boot>>

ClockExit ==
    /\ at["clock"] = "exit"
    /\ clock' = [clock EXCEPT !.isRunning = FALSE]
    /\ To("clock", "last")
    /\ UNCHANGED <<control, task, pool, asleep, mutex, budget, replaced, boot>>

ClockLast ==
    /\ at["clock"] = "last"
    /\ Notify({"cvClockTick"})
    /\ To("clock", "done")
    /\ UNCHANGED <<control, clock, task, pool, mutex, budget, replaced, boot>>

Clock ==
    \/ ClockStart \/ ClockWake \/ ClockCheck \/ ClockPrePause \/ ClockSignal
    \/ ClockNotify \/ ClockCount \/ ClockPostPause \/ MarkPaused \/ ClockPark
    \/ ReleaseTasks \/ ClockExit \/ ClockLast \/ Block("clock")

----------------------------------------------------------------------------
(* executeTasks().                                                         *)

\* The waits before the first frame, on the condition variable of the ticks.
TasksStart ==
    /\ Examines("tasks", "start")
    /\ \/ ~control.startupRequested /\ ~Stopping /\ FallAsleep("tasks")
       \/ /\ control.startupRequested \/ Stopping
          /\ To("tasks", IF Stopping THEN "done" ELSE "sync")
          /\ UNCHANGED <<control, clock, task, pool, asleep, mutex, budget, replaced, boot>>

TasksSync ==
    /\ Examines("tasks", "sync")
    /\ \/ ~clock.isRunning /\ ~Stopping /\ FallAsleep("tasks")
       \/ /\ clock.isRunning \/ Stopping
          /\ To("tasks", IF clock.isRunning THEN "top" ELSE "done")
          /\ UNCHANGED <<control, clock, task, pool, asleep, mutex, budget, replaced, boot>>

TasksTop ==
    /\ at["tasks"] = "top"
    /\ To("tasks", IF clock.isRunning /\ ~Stopping THEN "tick" ELSE "done")
    /\ UNCHANGED <<control, clock, task, pool, asleep, mutex, budget, replaced, boot>>

Due == task.stepPending \/ task.cycles < clock.cycles

TasksWait ==
    /\ Examines("tasks", "tick")
    /\ \/ ~Due /\ ~Stopping /\ FallAsleep("tasks")
       \/ /\ Due \/ Stopping
          /\ task' = [task EXCEPT !.slept = 0]
          /\ To("tasks", IF Stopping THEN "done" ELSE "drain")
          /\ UNCHANGED <<control, clock, pool, asleep, mutex, budget, replaced, boot>>

\* The command drain, and the restart it may end in; an execv that returns
\* leaves the old process running.
Drain ==
    /\ at["tasks"] = "drain"
    /\ \/ ~control.restartPending /\ UNCHANGED <<control, replaced>>
       \/ control.restartPending /\ replaced' = TRUE /\ UNCHANGED control
       \/ /\ control.restartPending /\ boot.execMayFail
          /\ control' = [control EXCEPT !.restartPending = FALSE]
          /\ UNCHANGED replaced
    /\ To("tasks", "dispatch")
    /\ UNCHANGED <<clock, task, pool, asleep, mutex, budget, boot>>

\* The frame's due task goes to the pool, unless its last run is in flight
\* (skip) -- which a hard period mode notes as its violation -- or none is due.
Dispatch ==
    /\ at["tasks"] = "dispatch"
    /\ \/ UNCHANGED pool
       \/ pool.queued < MaxQueued /\ pool' = [pool EXCEPT !.queued = @ + 1]
       \/ pool.queued + pool.active > 0 /\ pool' = [pool EXCEPT !.violation = TRUE]
    /\ To("tasks", "count")
    /\ UNCHANGED <<control, clock, task, asleep, mutex, budget, replaced, boot>>

CountFrame ==
    /\ at["tasks"] = "count"
    /\ task' = [task EXCEPT !.cycles = @ + 1]
    /\ To("tasks", "compare")
    /\ UNCHANGED <<control, clock, pool, asleep, mutex, budget, replaced, boot>>

\* The pending flag is cleared once the frames have caught up.
CaughtUp == task.cycles >= clock.cycles

Compare ==
    /\ at["tasks"] = "compare"
    /\ To("tasks", IF CaughtUp THEN "clear" ELSE "after")
    /\ UNCHANGED <<control, clock, task, pool, asleep, mutex, budget, replaced, boot>>

\* Slip: the flag stays up.
KeepPending ==
    /\ at["tasks"] = "clear"
    /\ To("tasks", "after")
    /\ UNCHANGED <<control, clock, task, pool, asleep, mutex, budget, replaced, boot>>

ClearPending ==
    /\ at["tasks"] = "clear"
    /\ task' = [task EXCEPT !.stepPending = FALSE]
    /\ To("tasks", "after")
    /\ UNCHANGED <<control, clock, pool, asleep, mutex, budget, replaced, boot>>

AfterFrame ==
    /\ at["tasks"] = "after"
    /\ To("tasks", IF control.isPaused THEN "parked" ELSE "top")
    /\ UNCHANGED <<control, clock, task, pool, asleep, mutex, budget, replaced, boot>>

TasksPark ==
    /\ Examines("tasks", "parked")
    /\ \/ control.isPaused /\ ~Stopping /\ FallAsleep("tasks")
       \/ /\ ~control.isPaused \/ Stopping
          /\ To("tasks", IF Stopping THEN "done" ELSE "top")
          /\ UNCHANGED <<control, clock, task, pool, asleep, mutex, budget, replaced, boot>>

Tasks ==
    \/ TasksStart \/ TasksSync \/ TasksTop \/ TasksWait \/ Drain \/ Dispatch
    \/ CountFrame \/ Compare \/ ClearPending \/ AfterFrame \/ TasksPark
    \/ Block("tasks")

----------------------------------------------------------------------------
(* The pool's workers.                                                     *)

BeginTask ==
    /\ pool.queued > 0
    /\ pool' = [pool EXCEPT !.queued = @ - 1, !.active = @ + 1]
    /\ UNCHANGED <<control, clock, task, at, asleep, mutex, budget, replaced, boot>>

EndTask ==
    /\ pool.active > 0
    /\ pool' = [pool EXCEPT !.active = @ - 1]
    /\ UNCHANGED <<control, clock, task, at, asleep, mutex, budget, replaced, boot>>

----------------------------------------------------------------------------
(* Commands, on the external I/O thread.                                   *)

Receives(c) ==
    /\ at["io"] = "poll" /\ ~Stopping
    /\ c \in boot.commands /\ budget > 0
    /\ budget' = budget - 1

Pause ==
    /\ Receives("pause")
    /\ ~control.isPaused
    /\ control' = [control EXCEPT !.pauseRequested = TRUE]
    /\ UNCHANGED <<clock, task, pool, at, asleep, mutex, replaced, boot>>

\* Refused in the SAFE hold, ignored unless the system is paused.
Resume ==
    /\ Receives("resume")
    /\ ~boot.hold /\ control.isPaused
    /\ control' = [control EXCEPT !.pauseRequested = FALSE]
    /\ To("io", "resume")
    /\ UNCHANGED <<clock, task, pool, asleep, mutex, replaced, boot>>

ResumeClear ==
    /\ at["io"] = "resume"
    /\ control' = [control EXCEPT !.isPaused = FALSE]
    /\ To("io", "notify")
    /\ UNCHANGED <<clock, task, pool, asleep, mutex, budget, replaced, boot>>

Restart ==
    /\ Receives("restart")
    /\ control' = [control EXCEPT !.restartPending = TRUE]
    /\ To("io", "notify")
    /\ UNCHANGED <<clock, task, pool, asleep, mutex, replaced, boot>>

NotifyPause ==
    /\ at["io"] = "notify"
    /\ Notify({"cvPause"})
    /\ To("io", "poll")
    /\ UNCHANGED <<control, clock, task, pool, mutex, budget, replaced, boot>>

\* CMD_SHUTDOWN and the quit key: the flag alone.
Quit ==
    /\ Receives("quit")
    /\ control' = [control EXCEPT !.shutdownRequested = TRUE]
    /\ UNCHANGED <<clock, task, pool, at, asleep, mutex, replaced, boot>>

InputOutput == Pause \/ Resume \/ ResumeClear \/ Restart \/ NotifyPause \/ Quit

----------------------------------------------------------------------------
(* shutdownThread().                                                       *)

\* Slip: the parked threads are forgotten.
TickCvs  == {"cvStartup", "cvClockTick"}
StageCvs == {"cvStartup", "cvClockTick", "cvPause"}

\* The poll of the flag every 100 ms, then stage 1.
StageOne ==
    /\ at["shutdown"] = "start" /\ Stopping
    /\ Notify(StageCvs)
    /\ To("shutdown", "stages")
    /\ UNCHANGED <<control, clock, task, pool, mutex, budget, replaced, boot>>

\* Stages 2 and 3 wait for the clock and the pool, or for their deadlines.
LaterStages ==
    /\ at["shutdown"] = "stages"
    /\ To("shutdown", "done")
    /\ UNCHANGED <<control, clock, task, pool, asleep, mutex, budget, replaced, boot>>

Shutdown == StageOne \/ LaterStages

----------------------------------------------------------------------------

Ended == at["clock"] = "done" /\ at["tasks"] = "done" /\ at["shutdown"] = "done"

\* run() has joined the threads, or the process was replaced.
Over == (Ended \/ replaced) /\ UNCHANGED vars

Next ==
    \/ /\ ~replaced
       /\ \/ RequestStartup \/ NotifyStartup
          \/ Clock \/ Tasks \/ BeginTask \/ EndTask
          \/ InputOutput \/ Shutdown
    \/ Over

Spec == Init /\ [][Next]_vars

\* Every thread is scheduled and tasks return.  Commands need not come.
Fairness ==
    /\ WF_vars(~replaced /\ (RequestStartup \/ NotifyStartup))
    /\ WF_vars(~replaced /\ Clock)
    /\ WF_vars(~replaced /\ Tasks)
    /\ WF_vars(~replaced /\ (BeginTask \/ EndTask))
    /\ WF_vars(~replaced /\ (ResumeClear \/ NotifyPause))
    /\ WF_vars(~replaced /\ Shutdown)

FairSpec == Spec /\ Fairness

----------------------------------------------------------------------------
(* Safety.                                                                 *)

ClockSteps == {"start", "loop", "check", "prepause", "pause", "signal", "notify",
               "count", "postpause", "parked", "release", "exit", "last", "done"}
TaskSteps  == {"start", "sync", "top", "tick", "drain", "dispatch", "count",
               "compare", "clear", "after", "parked", "done"}
OtherSteps == {"start", "notify", "stages", "poll", "resume", "done"}

ControlState == [startupRequested : BOOLEAN, shutdownRequested : BOOLEAN,
                 pauseRequested : BOOLEAN, isPaused : BOOLEAN,
                 restartPending : BOOLEAN]
ClockState   == [cycles : 0 .. Target, isRunning : BOOLEAN]
TaskState    == [cycles : 0 .. Target, stepPending : BOOLEAN, slept : 0 .. Target]
PoolState    == [queued : Nat, active : Nat, violation : BOOLEAN]

\* Every variable keeps to its type, and only a waiter holds the mutex.
TypeOK ==
    /\ control \in ControlState /\ clock \in ClockState
    /\ task \in TaskState /\ pool \in PoolState
    /\ at \in [Threads -> ClockSteps \cup TaskSteps \cup OtherSteps]
    /\ at["clock"] \in ClockSteps /\ at["tasks"] \in TaskSteps
    /\ asleep \in [Waiters -> {"no", "gap", "cvStartup", "cvClockTick", "cvPause"}]
    /\ mutex \in Waiters \cup {"free"}
    /\ budget \in 0 .. MaxCommands /\ replaced \in BOOLEAN /\ boot \in Boots

One(b) == IF b THEN 1 ELSE 0

\* Ticks whose signal was sent, frames that were begun.
Signalled == clock.cycles + One(at["clock"] \in {"notify", "count"})
Begun     == task.cycles + One(at["tasks"] \in {"drain", "dispatch", "count"})

\* No frame without its tick: whatever the order in which the pending flag is
\* set and cleared and the two counters are read, the tasks never run ahead.
NoFreeFrame == Begun <= Signalled

\* A missed tick costs one frame's delay and no more: whatever was lost before it
\* lay down, the task thread is not asleep when a second tick is counted after
\* that.  So the debt it sleeps on is one tick at most, but for a notification
\* lost to the gap, when the ticks that went by meanwhile come on top; the mode
\* that stops the clock lets none go by.
SleepsCaughtUp ==
    at["tasks"] = "tick" /\ asleep["tasks"] = "cvClockTick" =>
      /\ clock.cycles <= task.slept + 1
      /\ (boot.gap => boot.mode = "tick") => clock.cycles <= task.cycles + 1

\* In HARD_TICK_COMPLETE no tick is sent before the frame of the last one was
\* dispatched in full.
FramesDispatched ==
    boot.mode = "tick" /\ at["clock"] \in {"prepause", "signal"}
      => task.cycles = clock.cycles

\* In the SAFE hold nothing is dispatched, through pauses, resumes that are
\* refused and the restart that ends it. (A failing execv lets the loop run on.)
HoldIsQuiet ==
    boot.hold /\ ~boot.execMayFail
      => pool.queued + pool.active = 0 /\ task.cycles = 0

\* The task thread sleeps in a pause only while the system is paused, or a
\* notification is about to be sent, as long as no waiter is caught between its
\* predicate and its sleep.
TasksParkShown ==
    ~boot.gap /\ at["tasks"] = "parked" /\ asleep["tasks"] = "cvPause"
      /\ at["io"] = "poll"
      => control.isPaused

----------------------------------------------------------------------------
(* Liveness.                                                               *)

\* A requested shutdown ends the clock, the task and the shutdown thread,
\* wherever they are, paused or waiting to start, as long as no waiter is
\* caught between its predicate and its sleep.
StopCompletes == Stopping /\ ~boot.gap ~> Ended \/ replaced

\* A restart requested in the SAFE hold is carried out without a resume; an execv
\* that returns takes the request back.
RestartHappens ==
    control.restartPending /\ boot.hold
      ~> replaced \/ Stopping \/ (boot.execMayFail /\ ~control.restartPending)

----------------------------------------------------------------------------
(* What the inductive invariant adds.                                      *)

\* The steps of a frame, from the wait's end to the flag's clearing.
Framing == {"drain", "dispatch", "count", "compare", "clear"}

\* The clock is below its target until it leaves the loop.
BelowTarget == at["clock"] \notin {"exit", "last", "done"} => clock.cycles < Target

\* Outside a frame a raised flag stands for a tick no frame has answered.
PendingIsDue ==
    task.stepPending /\ at["tasks"] \notin Framing => task.cycles < Signalled

\* The handshake of HARD_TICK_COMPLETE: no second tick before the flag of the
\* first is down, and the flag is down only when its frame is counted.
Handshake ==
    boot.mode = "tick" =>
      /\ at["clock"] \in {"prepause", "signal"} => ~task.stepPending
      /\ ~task.stepPending => task.cycles = Signalled /\ at["tasks"] \notin Framing
      /\ task.stepPending =>
           task.cycles + One(at["tasks"] \notin {"compare", "clear"}) = Signalled

\* A thread at work does not sleep, and only a boot with the gap has waiters in it.
Awake ==
    /\ \A t \in Waiters : asleep[t] = "gap" => boot.gap
    /\ at["clock"] \notin {"start", "parked"} => asleep["clock"] = "no"
    /\ at["tasks"] \notin {"start", "sync", "tick", "parked"} => asleep["tasks"] = "no"

\* A sleeper went to sleep caught up, and the next tick's notification ends it.
SleepBound ==
    at["tasks"] = "tick" /\ asleep["tasks"] = "cvClockTick" =>
      /\ clock.cycles <= task.slept + 1
      /\ at["clock"] = "count" => clock.cycles <= task.slept
      /\ ~boot.gap => task.slept <= task.cycles

\* Until a restart is requested the clock of a SAFE hold parks before its first
\* tick; after it the first frame ends in the new process.
HoldStill ==
    boot.hold /\ ~boot.execMayFail =>
      /\ pool.queued = 0 /\ pool.active = 0 /\ task.cycles = 0
      /\ at["io"] # "resume"
      /\ replaced \/ at["tasks"] \in {"start", "sync", "top", "tick", "drain", "done"}
      /\ at["tasks"] = "drain" => control.restartPending
      /\ ~control.restartPending =>
           /\ clock.cycles = 0 /\ ~task.stepPending /\ control.pauseRequested
           /\ at["clock"] \notin {"signal", "notify", "count", "postpause", "release"}
           /\ at["clock"] \in {"start", "loop", "check", "prepause"} /\ control.isPaused
                => Stopping

----------------------------------------------------------------------------
(* What the documentation says and the code does not do.                   *)

\* "All tasks on tick N must complete before tick N+1."
TickComplete ==
    boot.mode = "tick" /\ at["clock"] = "signal" => pool.queued + pool.active = 0

\* FLAG_PAUSED, "System is paused", is up while the clock sleeps in a pause.
ClockParkShown ==
    at["clock"] = "parked" /\ asleep["clock"] = "cvPause" /\ at["io"] = "poll"
      => control.isPaused

\* "Broadcast shutdown intent to all threads": a requested shutdown ends them,
\* wherever they are.
StopReachesAll == Stopping ~> Ended \/ replaced
=============================================================================
