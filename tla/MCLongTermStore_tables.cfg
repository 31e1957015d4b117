SPECIFICATION Spec
CONSTANTS
    e1 = e1
    e2 = e2
    Agents = {a1, a2}
    Ids = {e1, e2}
    EmptyAgent = EmptyAgent
    EmptyId = EmptyId
    Names = {n1, n2}
    Unnamed = Unnamed
    Triples <- MCTriples
    Superseded = {e1, e2, EmptyId}
    NoId = NoId
    NoRow = NoRow
    NoAgent = NoAgent
    MaxEvents = 2
    MaxRuns = 2
    MaxItems = 2
SYMMETRY Symmetry
INVARIANTS
    TypeOK
    UniqueActiveEntity
    UniqueActiveRelation
    MarkedWhenRetired
    SummaryAndCursorTogether
    AckedEventsDurable
PROPERTIES
    OnlyWholeRunsCommit
