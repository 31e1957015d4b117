SPECIFICATION FairSpec
CONSTANTS
    NoSession = NoSession
    NoThread = NoThread
    a1 = a1
    s1 = s1
    s2 = s2
    r1 = r1
    t1 = t1
    t2 = t2
    Agents = {a1}
    Sessions = {s1, s2}
    EventTypes <- MCEventTypes
    Runtimes = {r1}
    Threads = {t1, t2}
    RuntimeOf <- OneRuntime
    Requests <- HostLoop
    MaxLog = 3
    MaxSummaries = 3
INVARIANTS
    TypeOK
    ExactlyOnce
PROPERTIES
    MutexReleased
    BacklogDrains
