SPECIFICATION Spec
CONSTANTS
    NumRanks = 1
    NumLeaves = 3
    Calls = {"load_balancing"}
    MaxSteps = 2
INVARIANTS SolutionKept
