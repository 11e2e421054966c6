SPECIFICATION BothSpec
CONSTANTS
    Months <- MCMonths
    DaysIn <- MCDaysIn
    ProjectionMonths = 2
    NoCard = NoCard
    NoMonth = NoMonth
    NoOverride = NoOverride
    Cards <- MCCards
    Items <- MCItems
    SplitsOf <- MCSplitsOf
    LastMonth = 5
    RateOn <- MCRateOn
    Scale = 100
    Kept = 100
    Places <- MCPlaces
    Unknown = Unknown
    Raised = Raised
    None = None
    Undated = Undated
    fund = fund
    pot = pot
    miles = miles
    stars = stars
    euro = euro
    real = real
    Pairs = {fund, pot}
    UnitPairs = {fund}
    OpIds = {1, 2, 3}
    EntryIds = {1, 2, 3}
    RedemptionIds = {1}
    Programs = {miles, stars}
    Currencies = {euro, real}
    Dates = {1, 2}
    Currency <- MCCurrency
    OperationForms <- MCOperations
    EntryForms <- MCEntries
    RedemptionForms <- MCRedemptions
    Openings <- MCOpenings
    RateForms <- MCRates
CONSTRAINT Scenes
CHECK_DEADLOCK FALSE
INVARIANTS
    SchedulesAgree
    SplitsNeverOverdraw
    RemainingIsPlanned
    CostIsExplained
PROPERTIES
    BankSideHolds
    PositionsStayCovered
    PointsAreHeld
    HistoryKeepsItsRate
