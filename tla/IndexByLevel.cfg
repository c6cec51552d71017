SPECIFICATION Spec
CONSTANTS
    NumRanks = 3
    level_min = 0
    level_max = 3
    num_levels = 2
    MaxKeys = 2
INVARIANTS TypeOK BlocksNumbered
