SPECIFICATION Spec
CONSTANTS
    p1 = p1
    p2 = p2
    p3 = p3
    m1 = m1
    none = none
    w1 = w1
    w2 = w2
    t1 = t1
    Payments <- TwoPayments
    Mandates = {m1}
    None = none
    MandateOf <- OneMandate
    Control = {}
    Business = {}
    AboveCeiling = {}
    MaxRetries = 1
    Workers = {w1}
    Threads = {t1}
    EtcdFaults = FALSE
    Simulation = FALSE
    MaxInFlight = 1
    MaxCrashes = 1
PROPERTY
    RecoveredIsTerminal
