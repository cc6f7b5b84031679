SPECIFICATION Spec
CONSTANTS
    None = None
    AnyKey = AnyKey
    Events <- MidnightEvents
    Metrics <- MCMetrics
    Foreign = {"pnl"}
    DayOnly = {"pnl"}
    Brands = {"20", "21"}
    BrandIds <- MCBrandIds
    DefaultBrand = "20"
    Requests <- MidnightRequests
    Callers <- MCCallers
    TicksPerHour = 2
    HoursPerDay = 2
    DaysPerMonth = 2
    PartCap = 3
    MaxRows = 3
    MaxBytes = 5
    Starts = {7}
    Lags = {0, 1}
    Horizon = 9
    MaxBuilds = 1
    MaxHandles = 2
INVARIANTS
    ZeroIsReal
CHECK_DEADLOCK FALSE
