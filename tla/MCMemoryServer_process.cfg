SPECIFICATION Spec
CONSTANTS
    IntLimit = 524288
    LongLimit = 8388608
    w1 = w1
    w2 = w2
    c1 = c1
    c2 = c2
    Workers = {w1, w2}
    Clients = {c1, c2}
    MaxSends <- MCMaxSends
    AbsolutePaths = {"/mcp", "/s", "/("}
    InvalidPatterns = {"/("}
    Numerals <- MCNumerals
    Starts <- MCStarts
    RequestsOf <- MCRequests
INVARIANTS
    TypeOK
    ConfigurationHonoured
    AnswersAreTrue
    NothingRunsAfterReturn
PROPERTIES
    StopEndsServer
    AcceptedIsHandled
CHECK_DEADLOCK FALSE
