SPECIFICATION BothSpec
CONSTANTS
    None = None
    left = left
    right = right
    Files <- MCFiles
    Format <- MCFormat
    Tabs = {left}
    MaxBatches = 2
    MaxPostings = 3
    writer = writer
    again = again
    deleter = deleter
    viewer = viewer
    card = card
    Unlocked = Unlocked
    Records = {card}
    Kind <- MCKind
    RecordOf <- MCRecordOf
    Requests = {writer, again, deleter, viewer}
    MaxMade = 4
SYMMETRY Symmetry
CHECK_DEADLOCK FALSE
INVARIANTS
    EntriesCountOnce
    PostingsAreExplained
    RecordsStayReadable
    SetupResumes
PROPERTIES
    EvidenceIsKept
    PostsWhatWasReviewed
