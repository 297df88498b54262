SPECIFICATION Spec
CONSTANTS
    t1 = t1
    t2 = t2
    t3 = t3
    hard = hard
    held = held
    heldAgain = heldAgain
    large = large
    bare = bare
    m1 = m1
    m2 = m2
    m3 = m3
    none = none
    Payments <- MCPayments
    Mandates <- MCMandates
    None = none
    MandateOf <- MCMandateOf
    Control <- MCControl
    Business <- MCBusiness
    AboveCeiling <- MCAboveCeiling
    MaxRetries = 2
INVARIANTS
    TypeOK
    RetryBudget
    BudgetMatchesDecisions
    AuditReplays
    IneligibleUntouched
PROPERTY
    ClosedStaysClosed
