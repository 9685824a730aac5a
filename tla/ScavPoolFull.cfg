SPECIFICATION Spec
CONSTANTS
    MAX_ACTIVE_CRT_NUM = 2
    Objects = {o1}
    MaxPieces = 3
    MaxReps = 0
INVARIANTS
    StaysInTable
