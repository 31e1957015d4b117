SPECIFICATION Spec
CONSTANTS
    NoSession = NoSession
    s1 = s1
    s2 = s2
    Sessions = {s1, s2}
    Requests <- MCRequests
    Searches <- MCSearches
    Records <- RankedRecords
    ConfigBudget = 0
    MaxEvents = 2
    MaxPayloads = 2
    MaxRecords = 3
    MaxTime = 1
    MaxRows = 3
INVARIANTS
    TypeOK
    ReferencedPayloadListed
PROPERTIES
    ReadYourWrites
    SearchReturnsBest
