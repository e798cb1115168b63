\* Sessions of the Falcon NVRAM: loads, guest register accesses, clean exits,
\* failed and torn saves, kills, and monitor changes between sessions.
CONSTANTS
    NVRAM_SECONDS = 0
    NVRAM_MINUTES = 2
    NVRAM_HOURS = 4
    NVRAM_DAY = 7
    NVRAM_YEAR = 9
    NVRAM_MONITOR = 29
    NVRAM_CHKSUM1 = 62
    NVRAM_CHKSUM2 = 63
    MONITOR_TYPE_VGA = "vga"
    Monitors <- MCMonitors
    IndexIn <- MCIndexIn
    ByteIn = {0, 32}
    HostTime = {59}
    TornLen = 1
    NoFile = NoFile
SPECIFICATION Spec
VIEW StateView
INVARIANT TypeOK
PROPERTY PersistsAcrossSessions
