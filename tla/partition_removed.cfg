SPECIFICATION MountaSpec
CONSTANTS
    Disk <- OneDisk
    Link <- OneLink
    Stem <- TwoStems
    NameNumber <- OneNumber
    NodeNumber <- TwoStemNumbers
    Node <- OneNode
    Foreign <- Nothing
    Superfloppy <- Nothing
    FaultSets <- Repartition
    MaxId = 2
    MaxPlugs = 1
    MaxEdits = 1
    QueueMax = 4
    Unnamed = Unnamed
    NoStem = NoStem
CHECK_DEADLOCK FALSE
INVARIANTS
    PartitionGoneUnmounted
