SPECIFICATION Spec
CONSTANTS
    MAX_THREAD_NUM = 2
    MAX_CRT_PER_THREAD = 3
    SCAV_NUM = 6
    MAX_SCAV = 4
    Libs = {0, 1, 2, 3, 4, 5}
    LibOf <- OwnLib
    HasInit = {0, 1}
    Blockers = {0, 1}
    SKIP_FIRST_THREAD = TRUE
    SKIP_CLEANUP = TRUE
INVARIANTS
    RollbackRestores
