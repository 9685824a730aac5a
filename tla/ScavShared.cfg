SPECIFICATION LifeSpec
CONSTANTS
    MAX_ACTIVE_CRT_NUM = 2
    Objects = {o1, o2}
    MaxPieces = 3
    MaxReps = 1
    Primaries = {t1, t2}
    MaxScav = 2
    DefaultReps = 2
INVARIANTS
    RetiresReturned
