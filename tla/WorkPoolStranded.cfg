CONSTANTS
    p1 = p1
    p2 = p2
    w1 = w1
    w2 = w2
    NoTask = NoTask
    Producers = {p1, p2}
    Workers = {w1, w2}
    Pools <- TwoByOne
    Cap = 2
SPECIFICATION Spec
INVARIANTS
    NoneStranded
CHECK_DEADLOCK FALSE
