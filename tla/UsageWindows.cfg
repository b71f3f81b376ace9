SPECIFICATION Spec
CONSTANTS
    m1 = m1
    m2 = m2
    Model <- Models
    Group = group
    Global = global
    Related <- Named
    Canonical <- Aliased
    Cap <- Caps
    RpdLimit <- RpdLimits
    Budget = 2
    Price = 1
    Duration = 1
    Day = 2
    Month = 2
    Span = 1
    Limits = {2}
    MaxCount = 2
    MaxUsed = 1
    MaxFlight = 2
    MaxEvents = 3
    MaxBaselines = 1
    MaxTime = 2
INVARIANTS TypeOK CountsAdd CapKept BudgetNeverEarly
PROPERTIES HighWaterKept ImplementsQuota
CHECK_DEADLOCK FALSE
