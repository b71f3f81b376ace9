SPECIFICATION Spec
CONSTANTS
    m1 = m1
    m2 = m2
    Model <- Models
    Group = group
    Global = global
    Related <- Named
    Canonical <- Aliased
    Cap <- NoCaps
    RpdLimit <- NoCaps
    Budget = 2
    Price = 1
    Duration = 1
    Day = 2
    Month = 4
    Span = 1
    Limits = {2}
    MaxCount = 1
    MaxUsed = 1
    MaxFlight = 1
    MaxEvents = 3
    MaxBaselines = 0
    MaxTime = 3
PROPERTY BudgetBlocks
CHECK_DEADLOCK FALSE
