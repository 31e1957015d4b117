SPECIFICATION Spec
CONSTANTS
    p1 = p1
    p2 = p2
    Procs <- MCProcs
    OldSchemas <- MCOldSchemas
    MaxFaults = 2
SYMMETRY Symmetry
INVARIANTS
    TypeOK
    ReadyMeansComplete
    OneStartUpgrades
