\* Path translation of long names: ShortLen 2 stands for the 8 characters
\* of the code, "aa" is a long component and the host directory is "aab".
CONSTANTS
    hd_emulation_dir <- MCRoot
    nPartitions = 0
    nBootDrive = 0
    ShortLen = 2
    MAX_PATH = 8
    MaxDepth = 3
    GuestPaths <- MCLongGuestPaths
    TreePaths <- MCTreePaths
    GuestDrives = {0, 2, 3, 4}
    PexecModes = {0, 4}
    Upper <- MCUpper
    Byte <- MCByte
    InitDirs <- MCLongInitDirs
    InitFiles <- MCLongInitFiles
    NoDrive = NoDrive
    NoPath = NoPath
SPECIFICATION Spec
VIEW StateView
INVARIANT TranslateRoundTrip
