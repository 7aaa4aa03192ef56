\* shutdown() with three workers: two runs of phase 1 end after the sentinel is
\* stored and bring the counter back to the value the third worker waits on.
SPECIFICATION Spec
CONSTANTS
    NumEntries = 3
    Slots <- ForkSlots
    Pattern = 2
    RunCycles <- ForkRuns
    Groups = {"g"}
    GroupOf <- ForkGroup
    NoGroup = "none"
    Phase <- ForkPhase
    MaxPhase <- ForkMax
    NumPools = 1
    ConfigPool <- OnePool3
    Workers = {w1, w2, w3}
    WorkerPool <- AllToPool0
    Ctxs = {c1, c2, c3}
    CtxPool <- CtxsToPool0
    NoCtx = NoCtx
    QueueCap = 4
    SkipOnBusy = TRUE
    Failing <- NoRows
    Lockable <- NoRows
    FrameContract = TRUE
    JoinFirst = TRUE
    PoolZeroWorkers = {}
    PoolZeroCtxs = {}
CHECK_DEADLOCK FALSE
SYMMETRY ThreadSymmetry
INVARIANTS
    StopFreesWaiters
