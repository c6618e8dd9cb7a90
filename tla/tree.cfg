SPECIFICATION TreeSpec
CONSTANTS
    Disk <- MCDisk
    Link <- MCLink
    Stem <- MCStem
    NameNumber <- MCNameNumber
    NodeNumber <- MCNodeNumber
    Foreign <- Nothing
    TreeFaults <- AnyFault
    Name <- MCName
    Candidates <- MCCandidates
    MaxId = 2
    NoName = NoName
    OrphanMax = 2
    Unnamed = Unnamed
    NoStem = NoStem
CHECK_DEADLOCK FALSE
INVARIANTS
    TreeTypeOK
    TreeExact
    NothingForeign
    OwnLinksRight
    LinkedUnlessStale
PROPERTIES
    OrphanedByTheEndOnly
