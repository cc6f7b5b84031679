SPECIFICATION Spec
CONSTANTS
    None = None
    AnyKey = AnyKey
    Events <- MCEvents
    Metrics <- MCMetrics
    Foreign = {"pnl"}
    DayOnly = {"pnl"}
    Brands = {"20", "21"}
    BrandIds <- MCBrandIds
    DefaultBrand = "20"
    Requests <- MCRequests
    Callers <- MCCallers
    TicksPerHour = 2
    HoursPerDay = 2
    DaysPerMonth = 2
    PartCap = 3
    MaxRows = 3
    MaxBytes = 5
    Starts = {7, 8}
    Lags = {0, 1, 4}
    Horizon = 8
    MaxBuilds = 1
    MaxHandles = 2
INVARIANTS
    TablesHonest
    StoreSound
PROPERTIES
    BuildsEnd
CHECK_DEADLOCK FALSE
