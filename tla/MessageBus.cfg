SPECIFICATION Spec
CONSTANTS
    nav = nav
    gnc = gnc
    x1 = x1
    x2 = x2
    x3 = x3
    u = u
    v = v
    Bufs = {1, 2}
    Ring = 2
    CompOrder <- TwoComps
    InboxCap = 1
    OutboxCap = 1
    DoneCap = 1
    External = {x1, x2, x3}
    Acked = {x1, x2}
    Target <- AllForNav
    Workers = {u}
    Home <- HomeNav
    MaxPosts = 1
    Io = Io
    Task = Task
    Internal = Internal
    NoBuf = NoBuf
INVARIANTS
    RefsExact
    AckOrder
    OutcomesAccounted
PROPERTIES
    CommandsRun
CHECK_DEADLOCK FALSE
