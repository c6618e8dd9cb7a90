SPECIFICATION WatchSpec
CONSTANTS
    Disk <- MCDisk
    Link <- MCLink
    Stem = {sda, sdb}
    NameNumber <- MCNameNumber
    NodeNumber <- MCNodeNumber
    Foreign <- MCForeign
    MaxId = 2
    Unnamed = Unnamed
    NoStem = NoStem
    Drive <- MCDrive
    RootOf <- MCRootOf
    PartOf <- MCPartOf
    Node <- MCNode
    Part <- MCPart
    Path = {p, q}
    NoPath = "nowhere"
    Event <- MCEvent
    Ended <- MCEnded
    WatchFaults <- MCFaults
    BatchMax = 2
    QueueMax = 2
    MaxMoves <- MCMoves
SYMMETRY MCSymmetry
CHECK_DEADLOCK FALSE
INVARIANTS
    MountsReported
    ReportedAreThere
    WatchInv
    ReportInv
PROPERTIES
    DeliversStream
    RefinesCatalog
    WorkShrinks
