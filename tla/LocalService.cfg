SPECIFICATION Spec
CONSTANTS
    t1 = t1
    t2 = t2
    u1 = u1
    u2 = u2
    bare = bare
    m1 = m1
    m2 = m2
    none = none
    Payments <- MCPayments
    Mandates = {m1, m2}
    None = none
    MandateOf <- MCMandateOf
    Control = {}
    Business = {}
    AboveCeiling = {}
    MaxRetries = 2
    UseEtcd = TRUE
    MaxReplays = 1
    MaxRestarts = 1
SYMMETRY MCSymmetry
INVARIANTS
    TypeOK
    IndexesAgree
    AttemptsDense
    RetriesAccountedFor
    ExecutedHasCommit

    
