SPECIFICATION Spec
CONSTANTS
    b1 = b1
    b2 = b2
    w1 = w1
    w2 = w2
    NoLog = NoLog
    Logs = {b1, b2}
    Writers = {w1, w2}
    Layouts <- Together
    Cap = 2
    Width = 8
    Batch = 1
INVARIANTS
    NoLostWakeup
CHECK_DEADLOCK FALSE
