SPECIFICATION Spec
CONSTANTS
    None = None
    Split <- MCSplit
    Plural <- MCPlural
    Hints <- MCHints
    OldHints <- MCOldHints
    PartOf <- MCPartOf
    StopWords <- MCStopWords
    Platforms <- MCPlatforms
    PaymentWords <- MCPaymentWords
    Numeric = {"20", "21", "50"}
    Sources <- MCSources
    ServeDbs <- MCServeDbs
    MissingSets <- MCMissingSets
    Terms <- MCTerms
    Questions <- MCQuestions
    AxisChoices <- MCAxisChoices
    Batches <- MCBatches
    Spoken <- MCSpoken
    Snapshots <- MCSnapshots
    Structural <- MCStructural
    Literals <- MCLiterals
    Resembling <- MCResembling
    FewValues = 5
    MaxShare = 60
    MaxValues = 2
    MaxDims = 2
    MaxBatch = 2
INVARIANTS
    FiltersLand
CHECK_DEADLOCK FALSE
