SPECIFICATION BothSpec
CONSTANTS
    k1 = k1
    k2 = k2
    k3 = k3
    Calls = {k1, k2, k3}
    Absent = Absent
    Unset = Unset
    Runs <- MCRuns
    Wants <- MCWants
    Own = c1
    ClosesOn <- MCClosesOn
    BillOf <- MCBillOf
    FirstLists <- MCFirstLists
    LaterLists <- MCLaterLists
    Message = Message
    MaxSlots = 2
    MaxHeard = 2
    MaxText = 1
    MaxRounds = 3
    MaxCalls = 2
    auto = auto
    twin = twin
    named = named
    c1 = c1
    c2 = c2
    b1 = b1
    b2 = b2
    b3 = b3
    m1 = m1
    m2 = m2
    PageSize = 1
    MaxPages = 2
    MaxRequests = 6
    PerDay = 1
    Expiry = 3
    LastTick = 3
CHECK_DEADLOCK FALSE
INVARIANTS
    ProviderIsAskedOnce
PROPERTIES
    CallsAreRunAsStreamed
    CancelTakesHold
    ConnectionsAreReleased
    ReportsStandWhole
