SPECIFICATION FairSpec
CONSTANTS
    None = None
    a1 = a1
    a2 = a2
    old = old
    new1 = new1
    new2 = new2
    me = me
    you = you
    begin1 = begin1
    begin2 = begin2
    callback1 = callback1
    callback2 = callback2
    cancel = cancel
    finish1 = finish1
    finish2 = finish2
    refresh = refresh
    token = token
    activate = activate
    disconnect = disconnect
    Attempts = {a1, a2}
    Connections = {old, new1, new2}
    Staged <- MCStaged
    Selected <- MCSelected
    Awaiting = {a2}
    Accounts = {me}
    Requests = {finish2, disconnect, token, refresh}
    Kind <- MCKind
    AttemptOf <- MCAttemptOf
    ConnectionOf <- MCConnectionOf
    MaxOpen = 2
    MaxTokens = 3
    Mortal = {disconnect}
CHECK_DEADLOCK FALSE
INVARIANTS
    CredentialsFollowRows
PROPERTIES
    RequestsEnd
