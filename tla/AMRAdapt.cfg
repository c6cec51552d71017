SPECIFICATION FairSpec
CONSTANTS
    Dim = 2
    LevelMin = 1
    LevelMax = 3
    NumRanks = 2
    MaxLeaves = 7
    MaxCycles = 2
    MaxLocal = 7
    MaxAgain = 4
    Meshes <- MCMeshes
INVARIANTS TypeOK TmpFlagsFit FlagsFollowLeaves CountersAgree AdaptedAsAsked
           RemapExact
PROPERTIES CycleEnds
