\* An overrun: one row of phase 1 runs twice while the other still executes.
SPECIFICATION Spec
CONSTANTS
    NumEntries = 3
    Slots <- ForkSlots
    Pattern = 2
    RunCycles <- ForkRuns
    Groups = {"g"}
    GroupOf <- ForkGroup
    NoGroup = "none"
    Phase <- ForkPhase
    MaxPhase <- ForkMax
    NumPools = 1
    ConfigPool <- OnePool3
    Workers = {w1, w2}
    WorkerPool <- AllToPool0
    Ctxs = {c1, c2, c3}
    CtxPool <- CtxsToPool0
    NoCtx = NoCtx
    QueueCap = 4
    SkipOnBusy = TRUE
    Failing <- NoRows
    Lockable <- NoRows
    FrameContract = FALSE
    JoinFirst = TRUE
    PoolZeroWorkers = {}
    PoolZeroCtxs = {}
INVARIANTS
    DelayedNeverCorrupt
