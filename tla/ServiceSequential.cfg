SPECIFICATION AuditSpec
CONSTANTS
    p1 = p1
    p2 = p2
    hard = hard
    held = held
    heldAgain = heldAgain
    m1 = m1
    m2 = m2
    none = none
    w1 = w1
    w2 = w2
    t1 = t1
    Payments <- MCPayments
    Mandates = {m1, m2}
    None = none
    MandateOf <- MCMandateOf
    Control = {held, heldAgain}
    Business = {hard}
    AboveCeiling = {}
    MaxRetries = 2
    Workers = {w1, w2}
    Threads = {t1}
    EtcdFaults = TRUE
    Simulation = FALSE
    MaxInFlight = 1
    MaxCrashes = 0
PROPERTY
    ImplementsLifecycle
