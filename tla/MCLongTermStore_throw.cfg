SPECIFICATION Spec
CONSTANTS
    e1 = e1
    e2 = e2
    Agents = {a1}
    Ids = {e1, e2}
    EmptyAgent = EmptyAgent
    EmptyId = EmptyId
    Names = {n1}
    Unnamed = Unnamed
    Triples <- FewTriples
    Superseded = {e1, e2, EmptyId}
    NoId = NoId
    NoRow = NoRow
    NoAgent = NoAgent
    MaxEvents = 1
    MaxRuns = 1
    MaxItems = 2
INVARIANTS
    FailedRunRolledBack
