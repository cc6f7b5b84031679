SPECIFICATION Spec
CONSTANTS
    None = None
    Split <- MCSplit
    Plural <- MCNoWords
    Hints <- MCNoWords
    OldHints <- MCNoWords
    PartOf = {}
    StopWords = {}
    Platforms <- MCNoWords
    PaymentWords = {}
    Numeric = {"20", "21", "100"}
    DefaultAxis = "event_date"
    DefaultBrand = "20"
    BreakdownViews = {"spend_raw"}
    CoverageView = "sales"
    AttributionViews = {"sales"}
    AttributionDims = {"channel"}
    Catalogues <- MCCatalogues
    Requests <- MCRequests
    DrillFilters <- MCDrillFilters
    DrillTargets <- MCDrillTargets
    Granularities <- MCGranularities
    ContinueWaits = 1
    Ttl = 1
    MaxAsks = 1
    MaxCalls = 2
    Horizon = 2
INVARIANTS
    LoadsSound
    BrandKept
    ChildNarrows
    PartsBeforeParent
PROPERTIES
    CallsEnd
CHECK_DEADLOCK FALSE
