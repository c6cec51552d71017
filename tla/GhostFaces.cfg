SPECIFICATION Spec
CONSTANTS
    NumRanks = 2
    MaxCut = 0
    MaxRebuilds = 1
    MaxFree = 0
    MaxTwice = 0
    MaxNext = 1
    GhostWidth = 2
    Meshes <- GhostMeshes
    BlockSize <- GhostBlockSize
INVARIANT DivergencePreserved
ACTION_CONSTRAINT InOrder
