SPECIFICATION Spec
CONSTANTS
    NumRanks = 3
    Settings <- MCSettings
    MaxIterations = 12
    LocalSteps = {1, 2, 5}
    CycleFrequency = 2
    BalanceFrequency = 3
INVARIANTS TypeOK SameOperation OutputsOnTime LastStepWritten
