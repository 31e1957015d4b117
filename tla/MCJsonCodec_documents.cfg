SPECIFICATION Spec
CONSTANTS
    IntLimit = 32768
    LongLimit = 8388608
    Strings <- MCStrings
    Schemas <- SchemaNames
    Values <- MCValues
INVARIANTS
    TypeOK
    UnalteredMembersSurvive
    TakenOrDefault
    NoFalseAlarm
CHECK_DEADLOCK FALSE
