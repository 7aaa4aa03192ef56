\* The modes that do not skip: a late row is dispatched again while it runs.
\* The free row fails at will and its component is locked and unlocked.
SPECIFICATION Spec
CONSTANTS
    NumEntries = 3
    Slots <- MixedSlots
    Pattern = 1
    RunCycles <- Always3
    Groups = {"g"}
    GroupOf <- MixedGroup
    NoGroup = "none"
    Phase <- MixedPhase
    MaxPhase <- MixedMax
    NumPools = 1
    ConfigPool <- Clamped3
    Workers = {w1, w2}
    WorkerPool <- AllToPool0
    Ctxs = {c1, c2, c3}
    CtxPool <- CtxsToPool0
    NoCtx = NoCtx
    QueueCap = 2
    SkipOnBusy = FALSE
    Failing <- Row3
    Lockable <- Row3
    FrameContract = FALSE
    JoinFirst = TRUE
    PoolZeroWorkers = {}
    PoolZeroCtxs = {}
SYMMETRY ThreadSymmetry
INVARIANTS
    CtxConservation
    OneRunInFlight
    RunIsFlagged
    FlagHasRun
