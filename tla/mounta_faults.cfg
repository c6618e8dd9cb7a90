SPECIFICATION MountaSpec
CONSTANTS
    Disk <- DriveDisks
    Link <- DriveLinks
    Stem <- DriveStems
    NameNumber <- DriveNumbers
    NodeNumber <- DriveStemNumbers
    Node <- DriveNodes
    Foreign <- Nothing
    Superfloppy <- Cd
    FaultSets <- AnyFault
    MaxId = 3
    MaxPlugs = 2
    MaxEdits = 1
    QueueMax = 12
    Unnamed = Unnamed
    NoStem = NoStem
CHECK_DEADLOCK FALSE
INVARIANTS
    NoGhosts
    NoStaleMounts
    TraceInv
    Converged
