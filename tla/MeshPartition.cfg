SPECIFICATION FairSpec
CONSTANTS
    NumRanks = 3
    NumQuads = 3
    NumArrays = 2
    EagerLimit = 1
    MaxPartitions = 2
INVARIANTS TypeOK Delivered LengthsAgree NothingInFlight NoHole
PROPERTIES FieldSpec RepartitionEnds
