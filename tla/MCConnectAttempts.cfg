SPECIFICATION Spec
CONSTANTS
    None = None
    a1 = a1
    a2 = a2
    old = old
    new1 = new1
    new2 = new2
    me = me
    you = you
    begin1 = begin1
    begin2 = begin2
    callback1 = callback1
    callback2 = callback2
    cancel = cancel
    finish1 = finish1
    finish2 = finish2
    refresh = refresh
    token = token
    activate = activate
    disconnect = disconnect
    Attempts = {a1, a2}
    Connections = {old, new1, new2}
    Staged <- MCStaged
    Selected <- MCSelected
    Awaiting = {}
    Accounts = {me, you}
    Requests = {begin1, begin2, callback1, cancel, finish1, activate}
    Kind <- MCKind
    AttemptOf <- MCAttemptOf
    ConnectionOf <- MCConnectionOf
    MaxOpen = 2
    MaxTokens = 2
    Mortal = {callback1, finish1}
SYMMETRY Symmetry
CHECK_DEADLOCK FALSE
INVARIANTS
    CancelledKeepsNoSecrets
PROPERTIES
    KeepsLinks
