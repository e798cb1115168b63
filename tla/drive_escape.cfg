\* Dsetpath with ".." from the drive root.
CONSTANTS
    hd_emulation_dir <- MCRoot
    nPartitions = 0
    nBootDrive = 0
    ShortLen = 8
    MAX_PATH = 8
    MaxDepth = 3
    GuestPaths <- MCGuestPaths
    TreePaths <- MCTreePaths
    GuestDrives = {0, 2, 3, 4}
    PexecModes = {0, 4}
    Upper <- MCUpper
    Byte <- MCByte
    InitDirs <- MCInitDirs
    InitFiles <- MCInitFiles
    NoDrive = NoDrive
    NoPath = NoPath
SPECIFICATION Spec
VIEW StateView
INVARIANT CurrPathWithinRoot
