\* ACSI command packets of a driver on an ST, with abandoned packets, DMA
\* errors, a drive that HDC_Init refuses, remounts, and a Falcon's NCR 5380.
CONSTANTS
    Targets = {0, 1}
    ImageBytes <- MCImageBytes
    PartitionCounts = {1}
    STRamEnd = 1536
    DmaIn = {512}
    Packets <- MCPackets
    NcrIn = {4, 128}
    Machines <- MCMachines
    MACHINE_FALCON = "falcon"
    HD_STATUS_OK = 0
    HD_STATUS_ERROR = 2
    HD_TEST_UNIT_RDY = 0
    HD_REQ_SENSE = 3
    HD_FORMAT_DRIVE = 4
    HD_READ_SECTOR = 8
    HD_WRITE_SECTOR = 10
    HD_SEEK = 11
    HD_INQUIRY = 18
    HD_MODESELECT = 21
    HD_MODESENSE = 26
    HD_SHIP = 27
    HD_READ_CAPACITY1 = 37
    HD_READ_SECTOR1 = 40
    HD_WRITE_SECTOR1 = 42
    HD_REQSENS_OK = 0
    HD_REQSENS_NOSECTOR = 1
    HD_REQSENS_WRITEERR = 3
    HD_REQSENS_OPCODE = 32
    HD_REQSENS_INVADDR = 33
    HD_REQSENS_INVARG = 36
    HD_REQSENS_INVLUN = 37
    NoExec = NoExec
SPECIFICATION Spec
VIEW StateView
 
PROPERTY CommandFraming
PROPERTY SenseNamesFailure
PROPERTY ReadsWithinImage
