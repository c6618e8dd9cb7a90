SPECIFICATION MountaSpec
CONSTANTS
    Disk <- DriveDisks
    Link <- DriveLinks
    Stem <- DriveStems
    NameNumber <- DriveNumbers
    NodeNumber <- DriveStemNumbers
    Node <- DriveNodes
    Foreign <- Nothing
    Superfloppy <- Cd
    FaultSets <- NoFault
    MaxId = 3
    MaxPlugs = 1
    MaxEdits = 0
    QueueMax = 4
    Unnamed = Unnamed
    NoStem = NoStem
CHECK_DEADLOCK FALSE
INVARIANTS
    NothingLeft
