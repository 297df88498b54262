SPECIFICATION Spec
CONSTANTS
    p1 = p1
    p2 = p2
    p3 = p3
    m1 = m1
    none = none
    w1 = w1
    w2 = w2
    t1 = t1
    Payments <- ThreePayments
    Mandates = {m1}
    None = none
    MandateOf <- OneMandate
    Control = {}
    Business = {p3}
    AboveCeiling = {}
    MaxRetries = 2
    Workers = {w1}
    Threads = {t1}
    EtcdFaults = TRUE
    Simulation = TRUE
    MaxInFlight = 2
    MaxCrashes = 2
INVARIANTS
    TypeOK
    ExecutedHasCommit
    
    IneligibleUntouched
