SPECIFICATION FairSpec
CONSTANTS
    MaxRequests = 3
    FileLen = 3
    MaxSend = 2
    MaxRequest = 3
    Kinds = {"page", "last", "open", "gone", "file", "tail", "norange",
             "form", "unsized", "chunked", "bad", "endless"}
    Mishaps = {"reset", "shrink"}
INVARIANTS
    TypeOK
    BufferInStep
    FilesClosed
PROPERTIES
    HandedWhole
    ImplementsExchange
    AnswersAreTold
CHECK_DEADLOCK FALSE
