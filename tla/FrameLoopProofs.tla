--------------------------- MODULE FrameLoopProofs ---------------------------
(***************************************************************************)
(* Theorems about the executive's threads, for every real-time mode, every *)
(* way to start, every target and every number of commands.                *)
(***************************************************************************)
EXTENDS FrameLoop, TLAPS

\* The invariant is inductive; its parts hold for each other's sake.
IInv ==
    /\ TypeOK
    /\ BelowTarget
    /\ NoFreeFrame
    /\ PendingIsDue
    /\ Awake
    /\ Handshake
    /\ SleepBound
    /\ HoldStill

\* What a thread sleeps on at each of its waits.
LEMMA Variables ==
    /\ CvOf("start")["clock"] = "cvStartup" /\ CvOf("start")["tasks"] = "cvClockTick"
    /\ CvOf("sync")["tasks"] = "cvClockTick" /\ CvOf("tick")["tasks"] = "cvClockTick"
    /\ CvOf("parked")["clock"] = "cvPause" /\ CvOf("parked")["tasks"] = "cvPause"
  BY DEF CvOf

\* A thread leaves its wait awake, and only a wait puts it to sleep.
LEMMA AwakeStep ==
    ASSUME TypeOK, Awake, [Next]_vars
    PROVE  Awake'
<1> USE DEF To, Notify, Stopping, Awake, TypeOK, Threads, Waiters
<1>1. CASE RequestStartup
  BY <1>1, Variables DEF RequestStartup
<1>2. CASE NotifyStartup
  BY <1>2, Variables DEF NotifyStartup
<1>3. CASE ClockStart
  BY <1>3, Variables DEF ClockStart, Examines, FallAsleep, LieDown
<1>4. CASE ClockWake
  BY <1>4, Variables DEF ClockWake
<1>5. CASE ClockCheck
  BY <1>5, Variables DEF ClockCheck, IsViolation
<1>6. CASE ClockPrePause
  BY <1>6, Variables DEF ClockPrePause, MustPark
<1>7. CASE ClockSignal
  BY <1>7, Variables DEF ClockSignal
<1>8. CASE ClockNotify
  BY <1>8, Variables DEF ClockNotify
<1>9. CASE ClockCount
  BY <1>9, Variables DEF ClockCount
<1>10. CASE ClockPostPause
  BY <1>10, Variables DEF ClockPostPause, MustPark
<1>11. CASE MarkPaused
  BY <1>11, Variables DEF MarkPaused
<1>12. CASE ClockPark
  BY <1>12, Variables DEF ClockPark, StayParked, Examines, FallAsleep, LieDown
<1>13. CASE ReleaseTasks
  BY <1>13, Variables DEF ReleaseTasks
<1>14. CASE ClockExit
  BY <1>14, Variables DEF ClockExit
<1>15. CASE ClockLast
  BY <1>15, Variables DEF ClockLast
<1>16. CASE Block("clock")
  BY <1>16, Variables DEF Block, LieDown
<1>17. CASE TasksStart
  BY <1>17, Variables DEF TasksStart, Examines, FallAsleep, LieDown
<1>18. CASE TasksSync
  BY <1>18, Variables DEF TasksSync, Examines, FallAsleep, LieDown
<1>19. CASE TasksTop
  BY <1>19, Variables DEF TasksTop
<1>20. CASE TasksWait
  BY <1>20, Variables DEF TasksWait, Due, Examines, FallAsleep, LieDown
<1>21. CASE Drain
  BY <1>21, Variables DEF Drain
<1>22. CASE Dispatch
  BY <1>22, Variables DEF Dispatch
<1>23. CASE CountFrame
  BY <1>23, Variables DEF CountFrame
<1>24. CASE Compare
  BY <1>24, Variables DEF Compare, CaughtUp
<1>25. CASE ClearPending
  BY <1>25, Variables DEF ClearPending
<1>26. CASE AfterFrame
  BY <1>26, Variables DEF AfterFrame
<1>27. CASE TasksPark
  BY <1>27, Variables DEF TasksPark, Examines, FallAsleep, LieDown
<1>28. CASE Block("tasks")
  BY <1>28, Variables DEF Block, LieDown
<1>29. CASE BeginTask
  BY <1>29, Variables DEF BeginTask
<1>30. CASE EndTask
  BY <1>30, Variables DEF EndTask
<1>31. CASE Pause
  BY <1>31, Variables DEF Pause, Receives
<1>32. CASE Resume
  BY <1>32, Variables DEF Resume, Receives
<1>33. CASE ResumeClear
  BY <1>33, Variables DEF ResumeClear
<1>34. CASE Restart
  BY <1>34, Variables DEF Restart, Receives
<1>35. CASE NotifyPause
  BY <1>35, Variables DEF NotifyPause
<1>36. CASE Quit
  BY <1>36, Variables DEF Quit, Receives
<1>37. CASE StageOne
  BY <1>37, Variables DEF StageOne, StageCvs
<1>38. CASE LaterStages
  BY <1>38, Variables DEF LaterStages
<1>39. CASE UNCHANGED vars
  BY <1>39 DEF vars
<1> QED
  BY <1>1, <1>2, <1>3, <1>4, <1>5, <1>6, <1>7, <1>8, <1>9, <1>10, <1>11, <1>12,
       <1>13, <1>14, <1>15, <1>16, <1>17, <1>18, <1>19, <1>20, <1>21, <1>22,
       <1>23, <1>24, <1>25, <1>26, <1>27, <1>28, <1>29, <1>30, <1>31, <1>32,
       <1>33, <1>34, <1>35, <1>36, <1>37, <1>38, <1>39
     DEF Next, Clock, Tasks, InputOutput, Shutdown, Over

\* No step begins a frame that has no tick, counts past the target or lowers the
\* flag of a tick that no frame answers.
LEMMA FramesStep ==
    ASSUME FrameAssumption, TypeOK, BelowTarget, NoFreeFrame, PendingIsDue, [Next]_vars
    PROVE  BelowTarget' /\ NoFreeFrame' /\ PendingIsDue'
<1> USE DEF To, Notify, Stopping, FrameAssumption, BelowTarget, NoFreeFrame,
       PendingIsDue, Signalled, Begun, One, Framing, TypeOK, Threads, Waiters,
       ClockSteps, TaskSteps, OtherSteps, ControlState, ClockState, TaskState, PoolState
<1>1. CASE RequestStartup
  BY <1>1 DEF RequestStartup
<1>2. CASE NotifyStartup
  BY <1>2 DEF NotifyStartup
<1>3. CASE ClockStart
  BY <1>3 DEF ClockStart, Examines, FallAsleep, LieDown
<1>4. CASE ClockWake
  BY <1>4 DEF ClockWake
<1>5. CASE ClockCheck
  BY <1>5 DEF ClockCheck, IsViolation
<1>6. CASE ClockPrePause
  BY <1>6 DEF ClockPrePause, MustPark
<1>7. CASE ClockSignal
  BY <1>7 DEF ClockSignal
<1>8. CASE ClockNotify
  BY <1>8 DEF ClockNotify
<1>9. CASE ClockCount
  BY <1>9 DEF ClockCount
<1>10. CASE ClockPostPause
  BY <1>10 DEF ClockPostPause, MustPark
<1>11. CASE MarkPaused
  BY <1>11 DEF MarkPaused
<1>12. CASE ClockPark
  BY <1>12 DEF ClockPark, StayParked, Examines, FallAsleep, LieDown
<1>13. CASE ReleaseTasks
  BY <1>13 DEF ReleaseTasks
<1>14. CASE ClockExit
  BY <1>14 DEF ClockExit
<1>15. CASE ClockLast
  BY <1>15 DEF ClockLast
<1>16. CASE Block("clock")
  BY <1>16 DEF Block, LieDown
<1>17. CASE TasksStart
  BY <1>17 DEF TasksStart, Examines, FallAsleep, LieDown
<1>18. CASE TasksSync
  BY <1>18 DEF TasksSync, Examines, FallAsleep, LieDown
<1>19. CASE TasksTop
  BY <1>19 DEF TasksTop
<1>20. CASE TasksWait
  BY <1>20 DEF TasksWait, Due, Examines, FallAsleep, LieDown
<1>21. CASE Drain
  BY <1>21 DEF Drain
<1>22. CASE Dispatch
  BY <1>22 DEF Dispatch
<1>23. CASE CountFrame
  BY <1>23 DEF CountFrame
<1>24. CASE Compare
  BY <1>24 DEF Compare, CaughtUp
<1>25. CASE ClearPending
  BY <1>25 DEF ClearPending
<1>26. CASE AfterFrame
  BY <1>26 DEF AfterFrame
<1>27. CASE TasksPark
  BY <1>27 DEF TasksPark, Examines, FallAsleep, LieDown
<1>28. CASE Block("tasks")
  BY <1>28 DEF Block, LieDown
<1>29. CASE BeginTask
  BY <1>29 DEF BeginTask
<1>30. CASE EndTask
  BY <1>30 DEF EndTask
<1>31. CASE Pause
  BY <1>31 DEF Pause, Receives
<1>32. CASE Resume
  BY <1>32 DEF Resume, Receives
<1>33. CASE ResumeClear
  BY <1>33 DEF ResumeClear
<1>34. CASE Restart
  BY <1>34 DEF Restart, Receives
<1>35. CASE NotifyPause
  BY <1>35 DEF NotifyPause
<1>36. CASE Quit
  BY <1>36 DEF Quit, Receives
<1>37. CASE StageOne
  BY <1>37 DEF StageOne, StageCvs
<1>38. CASE LaterStages
  BY <1>38 DEF LaterStages
<1>39. CASE UNCHANGED vars
  BY <1>39 DEF vars
<1> QED
  BY <1>1, <1>2, <1>3, <1>4, <1>5, <1>6, <1>7, <1>8, <1>9, <1>10, <1>11, <1>12,
       <1>13, <1>14, <1>15, <1>16, <1>17, <1>18, <1>19, <1>20, <1>21, <1>22,
       <1>23, <1>24, <1>25, <1>26, <1>27, <1>28, <1>29, <1>30, <1>31, <1>32,
       <1>33, <1>34, <1>35, <1>36, <1>37, <1>38, <1>39
     DEF Next, Clock, Tasks, InputOutput, Shutdown, Over

\* While a frame is counted, or a tick, there is room below the target.
LEMMA TaskRoom ==
    ASSUME FrameAssumption, TypeOK, BelowTarget, NoFreeFrame
    PROVE  at["tasks"] = "count" => task.cycles + 1 \in 0 .. Target
  BY DEF FrameAssumption, TypeOK, BelowTarget, NoFreeFrame, Signalled, Begun, One,
     ClockState, TaskState

\* While a tick is counted there is room for it.
LEMMA ClockRoom ==
    ASSUME FrameAssumption, TypeOK, BelowTarget
    PROVE  at["clock"] = "count" => clock.cycles + 1 \in 0 .. Target
  BY DEF FrameAssumption, TypeOK, BelowTarget, ClockState

\* Tasks that are dispatched, begun and noted leave the pool a pool.
LEMMA PoolSteps ==
    ASSUME NEW p \in PoolState
    PROVE  /\ [p EXCEPT !.queued = @ + 1] \in PoolState
           /\ [p EXCEPT !.violation = TRUE] \in PoolState
           /\ p.queued > 0 =>
                [p EXCEPT !.queued = @ - 1, !.active = @ + 1] \in PoolState
<1>1. p.queued + 1 \in Nat /\ p.active + 1 \in Nat
  BY DEF PoolState
<1>2. [p EXCEPT !.queued = @ + 1] \in PoolState
  BY <1>1 DEF PoolState
<1>3. [p EXCEPT !.violation = TRUE] \in PoolState
  BY DEF PoolState
<1>4. ASSUME p.queued > 0
      PROVE  [p EXCEPT !.queued = @ - 1, !.active = @ + 1] \in PoolState
  <2>1. p.queued - 1 \in Nat
    BY <1>4 DEF PoolState
  <2> QED
    BY <1>1, <2>1 DEF PoolState
<1> QED
  BY <1>2, <1>3, <1>4

\* What a thread remembers when it lies down, and forgets when it rises, is a count.
LEMMA SleptTyped ==
    ASSUME FrameAssumption, TypeOK
    PROVE  /\ [task EXCEPT !.slept = clock.cycles] \in TaskState
           /\ [task EXCEPT !.slept = 0] \in TaskState
           /\ task \in TaskState
<1>1. clock.cycles \in 0 .. Target /\ 0 \in 0 .. Target /\ task \in TaskState
  BY DEF FrameAssumption, TypeOK, ClockState
<1> QED
  BY <1>1 DEF TaskState

\* No step leaves the types.
LEMMA TypeStep ==
    ASSUME FrameAssumption, TypeOK, BelowTarget, NoFreeFrame, Awake, [Next]_vars
    PROVE  TypeOK'
<1> USE DEF To, Notify, Stopping, Awake, Commands, TypeOK, Threads, Waiters, ClockSteps,
       TaskSteps, OtherSteps
<1>1. CASE RequestStartup
  <2>1. control' \in ControlState
    BY <1>1 DEF RequestStartup, ControlState
  <2> QED
    BY <1>1, <2>1, Variables DEF RequestStartup
<1>2. CASE NotifyStartup
  BY <1>2, Variables DEF NotifyStartup
<1>3. CASE ClockStart
  <2>1. clock' \in ClockState
    BY <1>3 DEF ClockStart, Examines, FallAsleep, LieDown, ClockState
  <2>2. task' \in TaskState
    BY <1>3, SleptTyped DEF ClockStart, Examines, FallAsleep, LieDown
  <2> QED
    BY <1>3, <2>1, <2>2, Variables DEF ClockStart, Examines, FallAsleep, LieDown
<1>4. CASE ClockWake
  BY <1>4, Variables DEF ClockWake
<1>5. CASE ClockCheck
  <2>1. control' \in ControlState
    BY <1>5 DEF ClockCheck, IsViolation, ControlState
  <2>2. pool' \in PoolState
    BY <1>5 DEF ClockCheck, IsViolation, PoolState
  <2> QED
    BY <1>5, <2>1, <2>2, Variables DEF ClockCheck, IsViolation
<1>6. CASE ClockPrePause
  BY <1>6, Variables DEF ClockPrePause, MustPark
<1>7. CASE ClockSignal
  <2>1. task' \in TaskState
    BY <1>7 DEF ClockSignal, TaskState
  <2> QED
    BY <1>7, <2>1, Variables DEF ClockSignal
<1>8. CASE ClockNotify
  BY <1>8, Variables DEF ClockNotify
<1>9. CASE ClockCount
  <2>1. clock' \in ClockState
    BY <1>9, ClockRoom DEF ClockCount, ClockState
  <2>2. control' \in ControlState
    BY <1>9 DEF ClockCount, ControlState
  <2> QED
    BY <1>9, <2>1, <2>2, Variables DEF ClockCount
<1>10. CASE ClockPostPause
  BY <1>10, Variables DEF ClockPostPause, MustPark
<1>11. CASE MarkPaused
  <2>1. control' \in ControlState
    BY <1>11 DEF MarkPaused, ControlState
  <2> QED
    BY <1>11, <2>1, Variables DEF MarkPaused
<1>12. CASE ClockPark
  <2>1. control' \in ControlState
    BY <1>12 DEF ClockPark, StayParked, Examines, FallAsleep, LieDown, ControlState
  <2>2. task' \in TaskState
    BY <1>12, SleptTyped DEF ClockPark, StayParked, Examines, FallAsleep, LieDown
  <2> QED
    BY <1>12, <2>1, <2>2, Variables DEF ClockPark, StayParked, Examines, FallAsleep, LieDown
<1>13. CASE ReleaseTasks
  <2>1. control' \in ControlState
    BY <1>13 DEF ReleaseTasks, ControlState
  <2> QED
    BY <1>13, <2>1, Variables DEF ReleaseTasks
<1>14. CASE ClockExit
  <2>1. clock' \in ClockState
    BY <1>14 DEF ClockExit, ClockState
  <2> QED
    BY <1>14, <2>1, Variables DEF ClockExit
<1>15. CASE ClockLast
  BY <1>15, Variables DEF ClockLast
<1>16. CASE Block("clock")
  <2>1. task' \in TaskState
    BY <1>16, SleptTyped DEF Block, LieDown
  <2> QED
    BY <1>16, <2>1, Variables DEF Block, LieDown
<1>17. CASE TasksStart
  <2>1. task' \in TaskState
    BY <1>17, SleptTyped DEF TasksStart, Examines, FallAsleep, LieDown
  <2> QED
    BY <1>17, <2>1, Variables DEF TasksStart, Examines, FallAsleep, LieDown
<1>18. CASE TasksSync
  <2>1. task' \in TaskState
    BY <1>18, SleptTyped DEF TasksSync, Examines, FallAsleep, LieDown
  <2> QED
    BY <1>18, <2>1, Variables DEF TasksSync, Examines, FallAsleep, LieDown
<1>19. CASE TasksTop
  BY <1>19, Variables DEF TasksTop
<1>20. CASE TasksWait
  <2>1. task' \in TaskState
    BY <1>20, SleptTyped DEF TasksWait, Due, Examines, FallAsleep, LieDown
  <2> QED
    BY <1>20, <2>1, Variables DEF TasksWait, Due, Examines, FallAsleep, LieDown
<1>21. CASE Drain
  <2>1. control' \in ControlState
    BY <1>21 DEF Drain, ControlState
  <2> QED
    BY <1>21, <2>1, Variables DEF Drain
<1>22. CASE Dispatch
  <2>1. pool' \in PoolState
    BY <1>22, PoolSteps DEF Dispatch
  <2> QED
    BY <1>22, <2>1, Variables DEF Dispatch
<1>23. CASE CountFrame
  <2>1. task' \in TaskState
    BY <1>23, TaskRoom DEF CountFrame, TaskState
  <2> QED
    BY <1>23, <2>1, Variables DEF CountFrame
<1>24. CASE Compare
  BY <1>24, Variables DEF Compare, CaughtUp
<1>25. CASE ClearPending
  <2>1. task' \in TaskState
    BY <1>25 DEF ClearPending, TaskState
  <2> QED
    BY <1>25, <2>1, Variables DEF ClearPending
<1>26. CASE AfterFrame
  BY <1>26, Variables DEF AfterFrame
<1>27. CASE TasksPark
  <2>1. task' \in TaskState
    BY <1>27, SleptTyped DEF TasksPark, Examines, FallAsleep, LieDown
  <2> QED
    BY <1>27, <2>1, Variables DEF TasksPark, Examines, FallAsleep, LieDown
<1>28. CASE Block("tasks")
  <2>1. task' \in TaskState
    BY <1>28, SleptTyped DEF Block, LieDown
  <2> QED
    BY <1>28, <2>1, Variables DEF Block, LieDown
<1>29. CASE BeginTask
  <2>1. pool' \in PoolState
    BY <1>29, PoolSteps DEF BeginTask
  <2> QED
    BY <1>29, <2>1, Variables DEF BeginTask
<1>30. CASE EndTask
  <2>1. pool' \in PoolState
    BY <1>30 DEF EndTask, PoolState
  <2> QED
    BY <1>30, <2>1, Variables DEF EndTask
<1>31. CASE Pause
  <2>1. control' \in ControlState
    BY <1>31 DEF Pause, Receives, ControlState
  <2> QED
    BY <1>31, <2>1, Variables DEF Pause, Receives
<1>32. CASE Resume
  <2>1. control' \in ControlState
    BY <1>32 DEF Resume, Receives, ControlState
  <2> QED
    BY <1>32, <2>1, Variables DEF Resume, Receives
<1>33. CASE ResumeClear
  <2>1. control' \in ControlState
    BY <1>33 DEF ResumeClear, ControlState
  <2> QED
    BY <1>33, <2>1, Variables DEF ResumeClear
<1>34. CASE Restart
  <2>1. control' \in ControlState
    BY <1>34 DEF Restart, Receives, ControlState
  <2> QED
    BY <1>34, <2>1, Variables DEF Restart, Receives
<1>35. CASE NotifyPause
  BY <1>35, Variables DEF NotifyPause
<1>36. CASE Quit
  <2>1. control' \in ControlState
    BY <1>36 DEF Quit, Receives, ControlState
  <2> QED
    BY <1>36, <2>1, Variables DEF Quit, Receives
<1>37. CASE StageOne
  BY <1>37, Variables DEF StageOne, StageCvs
<1>38. CASE LaterStages
  BY <1>38, Variables DEF LaterStages
<1>39. CASE UNCHANGED vars
  BY <1>39 DEF vars
<1> QED
  BY <1>1, <1>2, <1>3, <1>4, <1>5, <1>6, <1>7, <1>8, <1>9, <1>10, <1>11, <1>12,
       <1>13, <1>14, <1>15, <1>16, <1>17, <1>18, <1>19, <1>20, <1>21, <1>22,
       <1>23, <1>24, <1>25, <1>26, <1>27, <1>28, <1>29, <1>30, <1>31, <1>32,
       <1>33, <1>34, <1>35, <1>36, <1>37, <1>38, <1>39
     DEF Next, Clock, Tasks, InputOutput, Shutdown, Over

\* In HARD_TICK_COMPLETE no step sends a tick over one that is not answered.
LEMMA HandshakeStep ==
    ASSUME TypeOK, Handshake, [Next]_vars
    PROVE  Handshake'
<1> USE DEF To, Notify, Stopping, Handshake, Signalled, One, Framing, TypeOK, Threads,
       Waiters, ClockSteps, TaskSteps, OtherSteps, ControlState, ClockState, TaskState,
       PoolState
<1>1. CASE RequestStartup
  BY <1>1 DEF RequestStartup
<1>2. CASE NotifyStartup
  BY <1>2 DEF NotifyStartup
<1>3. CASE ClockStart
  BY <1>3 DEF ClockStart, Examines, FallAsleep, LieDown
<1>4. CASE ClockWake
  BY <1>4 DEF ClockWake
<1>5. CASE ClockCheck
  BY <1>5 DEF ClockCheck, IsViolation
<1>6. CASE ClockPrePause
  BY <1>6 DEF ClockPrePause, MustPark
<1>7. CASE ClockSignal
  BY <1>7 DEF ClockSignal
<1>8. CASE ClockNotify
  BY <1>8 DEF ClockNotify
<1>9. CASE ClockCount
  BY <1>9 DEF ClockCount
<1>10. CASE ClockPostPause
  BY <1>10 DEF ClockPostPause, MustPark
<1>11. CASE MarkPaused
  BY <1>11 DEF MarkPaused
<1>12. CASE ClockPark
  BY <1>12 DEF ClockPark, StayParked, Examines, FallAsleep, LieDown
<1>13. CASE ReleaseTasks
  BY <1>13 DEF ReleaseTasks
<1>14. CASE ClockExit
  BY <1>14 DEF ClockExit
<1>15. CASE ClockLast
  BY <1>15 DEF ClockLast
<1>16. CASE Block("clock")
  BY <1>16 DEF Block, LieDown
<1>17. CASE TasksStart
  BY <1>17 DEF TasksStart, Examines, FallAsleep, LieDown
<1>18. CASE TasksSync
  BY <1>18 DEF TasksSync, Examines, FallAsleep, LieDown
<1>19. CASE TasksTop
  BY <1>19 DEF TasksTop
<1>20. CASE TasksWait
  BY <1>20 DEF TasksWait, Due, Examines, FallAsleep, LieDown
<1>21. CASE Drain
  BY <1>21 DEF Drain
<1>22. CASE Dispatch
  BY <1>22 DEF Dispatch
<1>23. CASE CountFrame
  BY <1>23 DEF CountFrame
<1>24. CASE Compare
  BY <1>24 DEF Compare, CaughtUp
<1>25. CASE ClearPending
  BY <1>25 DEF ClearPending
<1>26. CASE AfterFrame
  BY <1>26 DEF AfterFrame
<1>27. CASE TasksPark
  BY <1>27 DEF TasksPark, Examines, FallAsleep, LieDown
<1>28. CASE Block("tasks")
  BY <1>28 DEF Block, LieDown
<1>29. CASE BeginTask
  BY <1>29 DEF BeginTask
<1>30. CASE EndTask
  BY <1>30 DEF EndTask
<1>31. CASE Pause
  BY <1>31 DEF Pause, Receives
<1>32. CASE Resume
  BY <1>32 DEF Resume, Receives
<1>33. CASE ResumeClear
  BY <1>33 DEF ResumeClear
<1>34. CASE Restart
  BY <1>34 DEF Restart, Receives
<1>35. CASE NotifyPause
  BY <1>35 DEF NotifyPause
<1>36. CASE Quit
  BY <1>36 DEF Quit, Receives
<1>37. CASE StageOne
  BY <1>37 DEF StageOne, StageCvs
<1>38. CASE LaterStages
  BY <1>38 DEF LaterStages
<1>39. CASE UNCHANGED vars
  BY <1>39 DEF vars
<1> QED
  BY <1>1, <1>2, <1>3, <1>4, <1>5, <1>6, <1>7, <1>8, <1>9, <1>10, <1>11, <1>12,
       <1>13, <1>14, <1>15, <1>16, <1>17, <1>18, <1>19, <1>20, <1>21, <1>22,
       <1>23, <1>24, <1>25, <1>26, <1>27, <1>28, <1>29, <1>30, <1>31, <1>32,
       <1>33, <1>34, <1>35, <1>36, <1>37, <1>38, <1>39
     DEF Next, Clock, Tasks, InputOutput, Shutdown, Over

\* No tick but the next one is counted over a sleeping task thread.
LEMMA SleepStep ==
    ASSUME TypeOK, NoFreeFrame, Awake, SleepBound, [Next]_vars
    PROVE  SleepBound'
<1> USE DEF To, Notify, Stopping, SleepBound, Awake, TypeOK, Threads, Waiters,
       ClockSteps, TaskSteps, OtherSteps, ControlState, ClockState, TaskState, PoolState
<1>1. CASE RequestStartup
  BY <1>1, Variables DEF RequestStartup
<1>2. CASE NotifyStartup
  BY <1>2, Variables DEF NotifyStartup
<1>3. CASE ClockStart
  BY <1>3, Variables DEF ClockStart, Examines, FallAsleep, LieDown
<1>4. CASE ClockWake
  BY <1>4, Variables DEF ClockWake
<1>5. CASE ClockCheck
  BY <1>5, Variables DEF ClockCheck, IsViolation
<1>6. CASE ClockPrePause
  BY <1>6, Variables DEF ClockPrePause, MustPark
<1>7. CASE ClockSignal
  BY <1>7, Variables DEF ClockSignal
<1>8. CASE ClockNotify
  BY <1>8, Variables DEF ClockNotify
<1>9. CASE ClockCount
  BY <1>9, Variables DEF ClockCount
<1>10. CASE ClockPostPause
  BY <1>10, Variables DEF ClockPostPause, MustPark
<1>11. CASE MarkPaused
  BY <1>11, Variables DEF MarkPaused
<1>12. CASE ClockPark
  BY <1>12, Variables DEF ClockPark, StayParked, Examines, FallAsleep, LieDown
<1>13. CASE ReleaseTasks
  BY <1>13, Variables DEF ReleaseTasks
<1>14. CASE ClockExit
  BY <1>14, Variables DEF ClockExit
<1>15. CASE ClockLast
  BY <1>15, Variables DEF ClockLast
<1>16. CASE Block("clock")
  BY <1>16, Variables DEF Block, LieDown
<1>17. CASE TasksStart
  BY <1>17, Variables DEF TasksStart, Examines, FallAsleep, LieDown
<1>18. CASE TasksSync
  BY <1>18, Variables DEF TasksSync, Examines, FallAsleep, LieDown
<1>19. CASE TasksTop
  BY <1>19, Variables DEF TasksTop
<1>20. CASE TasksWait
  BY <1>20, Variables DEF TasksWait, Due, Examines, FallAsleep, LieDown
<1>21. CASE Drain
  BY <1>21, Variables DEF Drain
<1>22. CASE Dispatch
  BY <1>22, Variables DEF Dispatch
<1>23. CASE CountFrame
  BY <1>23, Variables DEF CountFrame
<1>24. CASE Compare
  BY <1>24, Variables DEF Compare, CaughtUp
<1>25. CASE ClearPending
  BY <1>25, Variables DEF ClearPending
<1>26. CASE AfterFrame
  BY <1>26, Variables DEF AfterFrame
<1>27. CASE TasksPark
  BY <1>27, Variables DEF TasksPark, Examines, FallAsleep, LieDown
<1>28. CASE Block("tasks")
  BY <1>28, Variables DEF Block, LieDown
<1>29. CASE BeginTask
  BY <1>29, Variables DEF BeginTask
<1>30. CASE EndTask
  BY <1>30, Variables DEF EndTask
<1>31. CASE Pause
  BY <1>31, Variables DEF Pause, Receives
<1>32. CASE Resume
  BY <1>32, Variables DEF Resume, Receives
<1>33. CASE ResumeClear
  BY <1>33, Variables DEF ResumeClear
<1>34. CASE Restart
  BY <1>34, Variables DEF Restart, Receives
<1>35. CASE NotifyPause
  BY <1>35, Variables DEF NotifyPause
<1>36. CASE Quit
  BY <1>36, Variables DEF Quit, Receives
<1>37. CASE StageOne
  BY <1>37, Variables DEF StageOne, StageCvs
<1>38. CASE LaterStages
  BY <1>38, Variables DEF LaterStages
<1>39. CASE UNCHANGED vars
  BY <1>39 DEF vars
<1> QED
  BY <1>1, <1>2, <1>3, <1>4, <1>5, <1>6, <1>7, <1>8, <1>9, <1>10, <1>11, <1>12,
       <1>13, <1>14, <1>15, <1>16, <1>17, <1>18, <1>19, <1>20, <1>21, <1>22,
       <1>23, <1>24, <1>25, <1>26, <1>27, <1>28, <1>29, <1>30, <1>31, <1>32,
       <1>33, <1>34, <1>35, <1>36, <1>37, <1>38, <1>39
     DEF Next, Clock, Tasks, InputOutput, Shutdown, Over

\* No step moves the SAFE hold but the restart that ends it.
LEMMA HoldStep ==
    ASSUME TypeOK, HoldStill, [Next]_vars
    PROVE  HoldStill'
<1> USE DEF To, Notify, Stopping, HoldStill, TypeOK, Threads, Waiters, ClockSteps,
       TaskSteps, OtherSteps, ControlState, ClockState, TaskState, PoolState
<1>1. CASE ~replaced /\ RequestStartup
  BY <1>1 DEF RequestStartup
<1>2. CASE ~replaced /\ NotifyStartup
  BY <1>2 DEF NotifyStartup
<1>3. CASE ~replaced /\ ClockStart
  BY <1>3 DEF ClockStart, Examines, FallAsleep, LieDown
<1>4. CASE ~replaced /\ ClockWake
  BY <1>4 DEF ClockWake
<1>5. CASE ~replaced /\ ClockCheck
  BY <1>5 DEF ClockCheck, IsViolation
<1>6. CASE ~replaced /\ ClockPrePause
  BY <1>6 DEF ClockPrePause, MustPark
<1>7. CASE ~replaced /\ ClockSignal
  BY <1>7 DEF ClockSignal
<1>8. CASE ~replaced /\ ClockNotify
  BY <1>8 DEF ClockNotify
<1>9. CASE ~replaced /\ ClockCount
  BY <1>9 DEF ClockCount
<1>10. CASE ~replaced /\ ClockPostPause
  BY <1>10 DEF ClockPostPause, MustPark
<1>11. CASE ~replaced /\ MarkPaused
  BY <1>11 DEF MarkPaused
<1>12. CASE ~replaced /\ ClockPark
  BY <1>12 DEF ClockPark, StayParked, Examines, FallAsleep, LieDown
<1>13. CASE ~replaced /\ ReleaseTasks
  BY <1>13 DEF ReleaseTasks
<1>14. CASE ~replaced /\ ClockExit
  BY <1>14 DEF ClockExit
<1>15. CASE ~replaced /\ ClockLast
  BY <1>15 DEF ClockLast
<1>16. CASE ~replaced /\ Block("clock")
  BY <1>16 DEF Block, LieDown
<1>17. CASE ~replaced /\ TasksStart
  BY <1>17 DEF TasksStart, Examines, FallAsleep, LieDown
<1>18. CASE ~replaced /\ TasksSync
  BY <1>18 DEF TasksSync, Examines, FallAsleep, LieDown
<1>19. CASE ~replaced /\ TasksTop
  BY <1>19 DEF TasksTop
<1>20. CASE ~replaced /\ TasksWait
  BY <1>20 DEF TasksWait, Due, Examines, FallAsleep, LieDown
<1>21. CASE ~replaced /\ Drain
  BY <1>21 DEF Drain
<1>22. CASE ~replaced /\ Dispatch
  BY <1>22 DEF Dispatch
<1>23. CASE ~replaced /\ CountFrame
  BY <1>23 DEF CountFrame
<1>24. CASE ~replaced /\ Compare
  BY <1>24 DEF Compare, CaughtUp
<1>25. CASE ~replaced /\ ClearPending
  BY <1>25 DEF ClearPending
<1>26. CASE ~replaced /\ AfterFrame
  BY <1>26 DEF AfterFrame
<1>27. CASE ~replaced /\ TasksPark
  BY <1>27 DEF TasksPark, Examines, FallAsleep, LieDown
<1>28. CASE ~replaced /\ Block("tasks")
  BY <1>28 DEF Block, LieDown
<1>29. CASE ~replaced /\ BeginTask
  BY <1>29 DEF BeginTask
<1>30. CASE ~replaced /\ EndTask
  BY <1>30 DEF EndTask
<1>31. CASE ~replaced /\ Pause
  BY <1>31 DEF Pause, Receives
<1>32. CASE ~replaced /\ Resume
  BY <1>32 DEF Resume, Receives
<1>33. CASE ~replaced /\ ResumeClear
  BY <1>33 DEF ResumeClear
<1>34. CASE ~replaced /\ Restart
  BY <1>34 DEF Restart, Receives
<1>35. CASE ~replaced /\ NotifyPause
  BY <1>35 DEF NotifyPause
<1>36. CASE ~replaced /\ Quit
  BY <1>36 DEF Quit, Receives
<1>37. CASE ~replaced /\ StageOne
  BY <1>37 DEF StageOne, StageCvs
<1>38. CASE ~replaced /\ LaterStages
  BY <1>38 DEF LaterStages
<1>39. CASE UNCHANGED vars
  BY <1>39 DEF vars
<1> QED
  BY <1>1, <1>2, <1>3, <1>4, <1>5, <1>6, <1>7, <1>8, <1>9, <1>10, <1>11, <1>12,
       <1>13, <1>14, <1>15, <1>16, <1>17, <1>18, <1>19, <1>20, <1>21, <1>22,
       <1>23, <1>24, <1>25, <1>26, <1>27, <1>28, <1>29, <1>30, <1>31, <1>32,
       <1>33, <1>34, <1>35, <1>36, <1>37, <1>38, <1>39
     DEF Next, Clock, Tasks, InputOutput, Shutdown, Over

----------------------------------------------------------------------------

\* The executive starts in the invariant: no tick, no frame, everybody awake.
LEMMA InitIInv == Init => IInv
<1> SUFFICES ASSUME Init PROVE IInv
  OBVIOUS
<1>1. TypeOK
  <2>1. control \in ControlState /\ clock \in ClockState
    <3>1. boot.hold \in BOOLEAN
      BY FrameAssumption DEF Init, FrameAssumption
    <3> QED
      BY <3>1, FrameAssumption DEF Init, ControlState, ClockState, FrameAssumption
  <2>2. task \in TaskState /\ pool \in PoolState
    BY FrameAssumption DEF Init, TaskState, PoolState, FrameAssumption
  <2>3. /\ at \in [Threads -> ClockSteps \cup TaskSteps \cup OtherSteps]
        /\ at["clock"] \in ClockSteps /\ at["tasks"] \in TaskSteps
    BY DEF Init, Threads, Waiters, ClockSteps, TaskSteps, OtherSteps
  <2>4. budget \in 0 .. MaxCommands
    BY FrameAssumption DEF Init, FrameAssumption
  <2>5. asleep \in [Waiters -> {"no", "gap", "cvStartup", "cvClockTick", "cvPause"}]
    BY DEF Init
  <2> QED
    BY <2>1, <2>2, <2>3, <2>4, <2>5 DEF Init, TypeOK
<1>2. BelowTarget /\ NoFreeFrame /\ PendingIsDue
  BY FrameAssumption DEF Init, FrameAssumption, BelowTarget, NoFreeFrame, PendingIsDue, Signalled,
     Begun, One, Framing, Threads, Waiters
<1>3. Awake /\ Handshake /\ SleepBound
  BY DEF Init, Awake, Handshake, SleepBound, Signalled, One, Framing, Threads, Waiters
<1>4. HoldStill
  BY DEF Init, HoldStill, Threads, Waiters, Stopping
<1> QED
  BY <1>1, <1>2, <1>3, <1>4 DEF IInv

\* The inductive invariant holds in every state the executive reaches.
THEOREM Invariance == Spec => []IInv
<1>1. Init => IInv
  BY InitIInv
<1>2. IInv /\ [Next]_vars => IInv'
  <2> SUFFICES ASSUME IInv, [Next]_vars PROVE IInv'
    OBVIOUS
  <2>1. BelowTarget' /\ NoFreeFrame' /\ PendingIsDue'
    BY FrameAssumption, FramesStep DEF IInv
  <2>2. TypeOK' /\ Awake'
    BY FrameAssumption, TypeStep, AwakeStep DEF IInv
  <2>3. Handshake' /\ SleepBound' /\ HoldStill'
    BY HandshakeStep, SleepStep, HoldStep DEF IInv
  <2> QED
    BY <2>1, <2>2, <2>3 DEF IInv
<1> QED
  BY <1>1, <1>2, PTL DEF Spec

\* Every variable keeps to its type; no count passes the target cycle.
THEOREM TypeCorrect == Spec => []TypeOK
<1>1. IInv => TypeOK
  BY DEF IInv
<1> QED
  BY <1>1, Invariance, PTL

\* No frame is executed without a tick of its own, in any mode, through pauses,
\* restarts and shutdown.
THEOREM FramesHaveTicks == Spec => []NoFreeFrame
<1>1. IInv => NoFreeFrame
  BY DEF IInv
<1> QED
  BY <1>1, Invariance, PTL

\* HARD_TICK_COMPLETE sends no tick before the last frame was dispatched.
THEOREM HardTicks == Spec => []FramesDispatched
<1>1. IInv => FramesDispatched
  BY DEF IInv, Handshake, FramesDispatched, Signalled, One, TypeOK, ClockState,
     TaskState
<1> QED
  BY <1>1, Invariance, PTL

\* In every boot, those with lost notifications included, the task thread sleeps
\* through one tick at most after it lay down for it; and it sleeps at most one
\* tick behind the clock wherever no notification can be lost, or the clock waits
\* for the frame.
THEOREM DebtBounded == Spec => []SleepsCaughtUp
<1>1. IInv => SleepsCaughtUp
  BY DEF IInv, Handshake, SleepBound, SleepsCaughtUp, Signalled, One, TypeOK, ClockState,
     TaskState
<1> QED
  BY <1>1, Invariance, PTL

\* Nothing is dispatched in the SAFE hold, as long as no execv fails.
THEOREM QuietHold == Spec => []HoldIsQuiet
<1>1. IInv => HoldIsQuiet
  BY DEF IInv, HoldStill, HoldIsQuiet
<1> QED
  BY <1>1, Invariance, PTL
=============================================================================
