\* The frame contract kept: two rows in parallel on two pools, and one that
\* waits for both and asks for a pool that is not there. One worker per pool,
\* a context for each row of the tick and each worker.
SPECIFICATION FairSpec
CONSTANTS
    NumEntries = 3
    Slots <- ForkSlots
    Pattern = 2
    RunCycles <- ForkRuns
    Groups = {"g"}
    GroupOf <- ForkGroup
    NoGroup = "none"
    Phase <- ForkPhase
    MaxPhase <- ForkMax
    NumPools = 2
    ConfigPool <- TwoPools3
    Workers = {w1, w2}
    WorkerPool <- SplitWorkers
    Ctxs = {c1, c2, c3, c4, c5}
    CtxPool <- SplitCtxs
    NoCtx = NoCtx
    QueueCap = 2
    SkipOnBusy = TRUE
    Failing <- NoRows
    Lockable <- NoRows
    FrameContract = TRUE
    JoinFirst = TRUE
    PoolZeroWorkers = {w1}
    PoolZeroCtxs = {c1, c2, c3}
INVARIANTS
    PhaseOrder
    NothingDropped
    CleanStop
PROPERTIES
    StopCompletes
    ImplementsFairRuns
