SPECIFICATION Spec
CONSTANTS
    p1 = p1
    hard = hard
    none = none
    Payments = {p1, hard}
    Mandates = {}
    None = none
    MandateOf <- MCMandateOf
    Control = {}
    Business = {hard}
    AboveCeiling = {}
    MaxRetries = 2
    Day = 6
    IstOffset = 1
    PeakWindows <- MCPeakWindows
    DndStart = 5
    DndEnd = 2
    NoticeLead = 6
    Spacing <- MCSpacing
    MaxWindow = 12
    SlotOffsets = {0, 6, 12}
    TimeScale = 3
    NoSlot = none
    Opening = p1
    MaxTime = 14
    MaxEntries = 7
INVARIANT NoFalseAlarm
