SPECIFICATION Spec
CONSTANTS
    NumRanks = 3
    MaxCut = 2
    MaxRebuilds = 2
    MaxFree = 2
    MaxTwice = 1
    MaxNext = 1
    Meshes <- PeriodicMeshes
    BlockSize <- MCBlockSize
INVARIANT OutsideFlagged
ACTION_CONSTRAINT InOrder
