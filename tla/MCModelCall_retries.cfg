SPECIFICATION FairSpec
CONSTANTS
    MaxRetriesValues <- MCRetries
    Statuses <- MCStatuses
    Bodies = {"update", "empty", "no_text", "null_text"}
    MayThrow = TRUE
INVARIANTS
    TypeOK
    AskedOnceAnswered
    UpdateFromLastAnswer
PROPERTIES
    CallEnds
