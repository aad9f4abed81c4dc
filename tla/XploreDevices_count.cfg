SPECIFICATION FairSpec
CONSTANTS
    tree = tree
    sub = sub
    shelf = shelf
    Dirs <- MCDirs
    Parent <- MCParent
    MountAction = TRUE
    UmountAction = TRUE
    Coarse = TRUE
INVARIANTS
    CountIsHolders
    LeftAsFound
PROPERTIES
    NoUmountUnderReader
    LostIsNoticed
