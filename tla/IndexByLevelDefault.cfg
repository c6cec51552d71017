SPECIFICATION Spec
CONSTANTS
    NumRanks = 2
    level_min = 4
    level_max = 4
    num_levels = 5
    MaxKeys = 2
INVARIANTS BlocksNumbered
