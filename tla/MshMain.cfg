SPECIFICATION FairSpec
CONSTANTS
    MAX_THREAD_NUM = 2
    MAX_CRT_PER_THREAD = 2
    SCAV_NUM = 3
    MAX_SCAV = 1
    Libs = {0, 1, 2}
    LibOf <- OwnLib
    HasInit = {0, 1}
    Blockers = {}
    SKIP_FIRST_THREAD = FALSE
    SKIP_CLEANUP = FALSE
INVARIANTS
    NeverWild
PROPERTIES
    CleanupRetires
