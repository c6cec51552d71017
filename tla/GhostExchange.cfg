SPECIFICATION Spec
CONSTANTS
    NumRanks = 3
    NumLeaves = 4
    Touch <- MCTouch
    MaxVars = 2
    NumVarsSets <- MCNumVarsSets
    MaxRounds = 2
    MaxMeshes = 1
    NewPartitions <- MCNewPartitions
INVARIANTS TypeOK GhostsFresh LengthsAgree NeverStuck
