SPECIFICATION FairSpec
CONSTANTS
    MaxLen = 5
    REPS = 2
    THREAD_NUM = 2
INVARIANTS
    TypeOK
    IsPermutation
    AllLinked
    VisitsEven
    TargAlive
PROPERTIES
    Returns
