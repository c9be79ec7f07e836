SPECIFICATION Spec
CONSTANTS
    Tasks = {t1, t2, t3}
    None = None
    Lines = {0, 1, 3, 12, 14}
    Exceptions = {0, 4, 6, 13, 14}
SYMMETRY TaskSymmetry
CHECK_DEADLOCK FALSE
INVARIANTS ResumesIntact UserModeSane MasterServes
