SPECIFICATION Spec
CONSTANTS
    Months <- MCMonths
    DaysIn <- MCDaysIn
    ProjectionMonths = 2
    NoCard = NoCard
    NoMonth = NoMonth
    NoOverride = NoOverride
    Cards <- MCCards
    Items <- MCItems
    SplitsOf <- MCSplitsOf
    LastMonth = 5
    RateOn <- MCRateOn
    Scale = 100
    Kept = 100
    Places <- MCPlaces
    Unknown = Unknown
    Raised = Raised
INVARIANT
    MissingRateIsMarked
CHECK_DEADLOCK FALSE
