SPECIFICATION TreeSpec
CONSTANTS
    Disk <- MCDisk
    Link <- MCLink
    Stem <- MCStem
    NameNumber <- MCNameNumber
    NodeNumber <- MCNodeNumber
    Foreign <- Nothing
    TreeFaults <- UmountFault
    Name <- MCName
    Candidates <- MCCandidates
    MaxId = 2
    NoName = NoName
    OrphanMax = 2
    Unnamed = Unnamed
    NoStem = NoStem
PROPERTIES
    NothingLeaks
