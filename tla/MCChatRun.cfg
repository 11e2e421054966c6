SPECIFICATION Spec
CONSTANTS
    None = None
    first = first
    again = again
    other = other
    r1 = r1
    r2 = r2
    chat = chat
    Requests = {first, other}
    RunIds = {r1, r2}
    Conversations = {chat}
    RunOf <- MCRunOf
    ConversationOf <- MCConversationOf
    MaxChunks = 2
SYMMETRY Symmetry
CHECK_DEADLOCK FALSE
INVARIANTS
    DoneMeansWholeReply
    RunsKeepTheirWord
    CompletedTurnsAlternate
