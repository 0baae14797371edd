\* Two transactions that enqueue one of two jobs.
CONSTANTS
    c1 = c1
    c2 = c2
    k1 = k1
    k2 = k2
    Callers = {c1, c2}
    Keys = {k1, k2}
    NoKey = NoKey
SPECIFICATION Spec
INVARIANTS CollisionIsSuccess
CHECK_DEADLOCK FALSE
