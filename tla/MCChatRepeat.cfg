SPECIFICATION FairSpec
CONSTANTS
    None = None
    first = first
    again = again
    other = other
    r1 = r1
    r2 = r2
    chat = chat
    Requests = {first, again}
    RunIds = {r1}
    Conversations = {chat}
    RunOf <- MCRunOf
    ConversationOf <- MCConversationOf
    MaxChunks = 2
CHECK_DEADLOCK FALSE
INVARIANTS
    OneTurnPerRun
PROPERTIES
    EverySendEnds
