SPECIFICATION Spec
CONSTANTS
    NumRanks = 3
    NumLeaves = 4
    Calls = {"load_balancing", "load_balancing_and_copy"}
    MaxSteps = 2
INVARIANTS TypeOK SolutionKept CopyUnlessResized
