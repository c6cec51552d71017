SPECIFICATION Spec
CONSTANTS
    NumRanks = 3
    MaxCut = 0
    MaxRebuilds = 1
    MaxFree = 0
    MaxTwice = 0
    MaxNext = 1
    GhostWidth = 2
    Meshes <- GhostMeshes
    BlockSize <- GhostBlockSize
INVARIANTS GhostCellsFilled MaterialsOfGhosts GhostFacesFilled
ACTION_CONSTRAINT InOrder
