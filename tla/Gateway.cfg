SPECIFICATION Spec
CONSTANTS
    None = None
    Ungated = Ungated
    Names <- MCNames
    Metrics <- MCMetrics
    Views <- MCViews
    Members = {"total", "spend", "clicks"}
    Workloads <- MCWorkloads
    Modules = {"shop", "media"}
    CallerScopes = {"read"}
    Pin = None
    Brands = {"20", "21"}
    DefaultBrand = "20"
    Grace = 0
    Enforced = TRUE
    SqlLimit = 2
    ListLimit = 1
    TicksPerDay = 3
    ProbeTtl = 1
    SchemaTtl = 1
    ResultTtl = 2
    RateWindow = 2
    CubeWait = 1
    Start = 7
    Horizon = 9
INVARIANTS
    GateHeld
    RefusalsTrue
PROPERTIES
    CallsEnd
CHECK_DEADLOCK FALSE
