SPECIFICATION Spec
CONSTANTS
    Months <- MCMonths
    DaysIn <- MCDaysIn
    ProjectionMonths = 1
    SnapshotMonths = 2
    NoCard = NoCard
    NoMonth = NoMonth
    NoOverride = NoOverride
    None = None
    c1 = c1
    a1 = a1
    i1 = i1
    i2 = i2
    p1 = p1
    p2 = p2
    CardIds = {c1}
    Accounts = {a1}
    AccountOf <- MCAccountOf
    OpeningOf <- MCOpeningOf
    ItemIds = {i1, i2}
    CreditKeys = {k1}
    PaymentKeys = {p1, p2}
    ItemInputs <- MCItems
    SettingInputs <- MCSettings
    CreditInputs <- MCCredits
    PaymentInputs <- MCPayments
    FirstDay <- MCFirstDay
    LastDay <- MCLastDay
SYMMETRY Symmetry
INVARIANTS
    SettlementIsSound
    ReconcileIsIdempotent
    StatementsAreWhole
    NetWorthIsWhatWasBought
    FiguresAgree
PROPERTIES
    PaymentsOnlySettle
