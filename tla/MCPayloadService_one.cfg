SPECIFICATION FairSpec
CONSTANTS
    r1 = r1
    t1 = t1
    t2 = t2
    Runtimes = {r1}
    Threads = {t1, t2}
    RuntimeOf <- OneRuntime
    NoThread = NoThread
    Refs = {f1, f2}
    TempNames = {n1, n2}
    Large = {c1}
    Small = Small
    Partial = Partial
    NoFile = NoFile
    NoName = NoName
    MayCollide = TRUE
INVARIANTS
    TypeOK
    PayloadsReadable
    NoSilentOrphan
PROPERTIES
    TempsSwept
