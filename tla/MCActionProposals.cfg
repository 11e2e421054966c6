SPECIFICATION Spec
CONSTANTS
    t1 = t1
    t2 = t2
    cat = cat
    edit = edit
    add = add
    tab1 = tab1
    tab2 = tab2
    tab3 = tab3
    tab4 = tab4
    run = run
    Gone = Gone
    Unread = Unread
    None = None
    Sources = {t1, t2}
    References = {cat}
    Proposals = {edit, add}
    Runs = {run}
    Confirms = {tab1, tab2, tab3}
    Cancels = {tab4}
    MaxRevision = 1
    DependsOn <- MCDependsOn
    Effect <- MCEffect
    Source <- MCSource
    RunOf <- MCRunOf
    TargetOf <- MCTargetOf
SYMMETRY Symmetry
CHECK_DEADLOCK FALSE
INVARIANTS
    TakesEffectAsTold
PROPERTIES
    KeepsThePromise
    BlockedLedgerAdmitsOnlyRepairs
