SPECIFICATION FairSpec
CONSTANTS
    Threads = {m, a, b, c}
    Nobody = nobody
    Main = m
    MAX_THREAD_NUM = 2
    MAX_SCAV = 1
INVARIANTS
    TypeOK
    OwnsContext
    FlagPrivate
    CleanupRegistered
    InitAlone
PROPERTIES
    AtomicSpec
    StartRuns
