SPECIFICATION MountaSpec
CONSTANTS
    Disk <- TwoDisks
    Link <- TwoLinks
    Stem = {sda, sdb}
    NameNumber <- TwoNumbers
    NodeNumber <- TwoStemNumbers
    Node <- TwoNodes
    Foreign <- Nothing
    Superfloppy <- Ata
    FaultSets <- NoFault
    MaxId = 2
    MaxPlugs = 3
    MaxEdits = 0
    QueueMax = 6
    Unnamed = Unnamed
    NoStem = NoStem
SYMMETRY TwoSymmetry
CHECK_DEADLOCK FALSE
INVARIANTS
    MountaTypeOK
    ServeInv
    Converged
