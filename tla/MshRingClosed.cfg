SPECIFICATION Spec
CONSTANTS
    MAX_THREAD_NUM = 1
    MAX_CRT_PER_THREAD = 2
    SCAV_NUM = 3
    MAX_SCAV = 2
    Libs = {0, 1, 2}
    LibOf <- OwnLib
    HasInit = {0, 1}
    Blockers = {}
    SKIP_FIRST_THREAD = TRUE
    SKIP_CLEANUP = FALSE
INVARIANTS
    RingClosed
