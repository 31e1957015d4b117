SPECIFICATION Spec
CONSTANTS
    IntLimit = 32768
    LongLimit = 8388608
    Strings <- MCStrings
    Schemas <- SchemaNames
    Values <- MCValues
INVARIANT WrongTypesWarned
CHECK_DEADLOCK FALSE
