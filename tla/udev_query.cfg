SPECIFICATION FairQuerySpec
CONSTANTS
    LineMax = 3
    TryMax = 3
CHECK_DEADLOCK FALSE
INVARIANTS
    BestUUID
    FailsForReason
    OneVolume
    QueryInv
PROPERTIES
    QueryEnds
