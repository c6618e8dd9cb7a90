SPECIFICATION CoreSpec
CONSTANTS
    Disk <- MCDisk
    Link <- MCLink
    Stem <- MCStem
    NameNumber <- MCNameNumber
    NodeNumber <- MCNodeNumber
    Foreign <- MCForeign
    MaxId = 3
    Unnamed = Unnamed
    NoStem = NoStem
INVARIANTS
    CoreTypeOK
    UniqueLinks
    ClientViewExact
    LateClientCatchesUp
    NoVolumeForgotten
    DeferredMounting
    SetUpOnce
    NeverSpins
    CoreInv
PROPERTIES
    SettledVolumesStay
    RefinesCatalog
