SPECIFICATION MountaSpec
CONSTANTS
    Disk <- OneDisk
    Link <- OneLink
    Stem <- TwoStems
    NameNumber <- OneNumber
    NodeNumber <- TwoStemNumbers
    Node <- OneNode
    Foreign <- Nothing
    Superfloppy <- Nothing
    FaultSets <- NoFault
    MaxId = 2
    MaxPlugs = 2
    MaxEdits = 0
    QueueMax = 8
    Unnamed = Unnamed
    NoStem = NoStem
CHECK_DEADLOCK FALSE
INVARIANTS
    InsertionNeverFails
