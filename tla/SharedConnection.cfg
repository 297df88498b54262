SPECIFICATION Spec
CONSTANTS
    w1 = w1
    w2 = w2
    t1 = t1
    t2 = t2
    c1 = c1
    c2 = c2
    p1 = p1
    none = none
    Workers = {w1}
    Threads = {t1, t2}
    Cases = {c1, c2}
    Payments = {p1}
    None = none
    MaxRequests = 3
    MaxRestarts = 0
INVARIANT
    Acknowledged
CHECK_DEADLOCK FALSE
