SPECIFICATION Spec
CONSTANTS
    NumRanks = 3
    MaxCut = 2
    MaxRebuilds = 2
    MaxFree = 2
    MaxTwice = 1
    MaxNext = 1
    Meshes <- MCMeshes
    BlockSize <- MCBlockSize
INVARIANTS TypeOK OutsideCounted Dictionary MirrorsMatchGhosts KeysEncoded
           NeighborsInvertible StatusIsGeometric
           StencilReadsNeighbour AcrossFaceTouches FacesAndEdgesMeet
ACTION_CONSTRAINT InOrder
