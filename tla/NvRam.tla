-------------------------------- MODULE NvRam --------------------------------
(***************************************************************************)
(* The Falcon RTC/NVRAM chip of falcon/nvram.c across emulator sessions.   *)
(* The 64 cells live in a static array initialised at process start; the   *)
(* guest reaches them through the select register $ff8961 and the data     *)
(* register $ff8963; cells 14..63 are loaded from hatari.nvram by          *)
(* NvRam_Init and written back by NvRam_UnInit on a clean exit.  The       *)
(* emulator may also be killed (no save), a save may fail to open the file *)
(* (file left as it was) or stop short after truncating it, and the user   *)
(* may change the monitor type between sessions.                           *)
(***************************************************************************)
EXTENDS Integers, Bitwise

CONSTANTS
    NVRAM_SECONDS, NVRAM_MINUTES, NVRAM_HOURS,  \* RTC cells (nvram.h)
    NVRAM_DAY, NVRAM_YEAR,
    NVRAM_MONITOR,                              \* video mode low byte
    NVRAM_CHKSUM1, NVRAM_CHKSUM2,               \* checksum cells
    Monitors, MONITOR_TYPE_VGA,                 \* ConfigureParams.Screen
    IndexIn,        \* values the guest writes to $ff8961
    ByteIn,         \* values the guest writes to $ff8963
    HostTime,       \* values localtime() gives for an RTC field
    TornLen,        \* bytes a failed save leaves in the file, < NVRAM_LEN
    NoFile          \* hatari.nvram does not exist

VARIABLES
    nvram,          \* static Uint8 nvram[64]
    nvram_index,    \* static Uint8 nvram_index
    rtc_uip,        \* the static rtc_uip of NvRam_Data_ReadByte
    ioSelect,       \* IoMem byte $ff8961
    ioData,         \* IoMem byte $ff8963
    file,           \* hatari.nvram: NoFile or [len, img]
    nMonitorType,   \* ConfigureParams.Screen.nMonitorType
    running         \* the emulator process is alive

vars == <<nvram, nvram_index, rtc_uip, ioSelect, ioData, file, nMonitorType, running>>

CKS_RANGE_START == 14
CKS_RANGE_END == 14 + 47
NVRAM_START == 14
NVRAM_LEN == 50
Cells == NVRAM_START .. NVRAM_START + NVRAM_LEN - 1
Byte == 0 .. 255

\* The static initialiser of nvram[64].
nvram_init ==
    LET head == <<48,255,21,255,23,255,1,25,3,33,42,14,112,128>>
        mid  == <<17,46,32,1,255,0,1,10,135>>
    IN  [i \in 0 .. 63 |-> IF i < 14 THEN head[i + 1]
                           ELSE IF i \in 22 .. 30 THEN mid[i - 21]
                           ELSE 0]

\* The NVRAM_LEN bytes from nvram + NVRAM_START, as fread/fwrite move them.
Image(mem) == [i \in Cells |-> mem[i]]

\* Mutant: any non-empty file loads.
LoadOk_AcceptsShort == file # NoFile /\ file.len > 0

\* NvRam_Load succeeds when fopen finds the file and fread returns NVRAM_LEN.
LoadOk == file # NoFile /\ file.len = NVRAM_LEN

\* NvRam_Load: memcpy(nvram + NVRAM_START, fnvram, NVRAM_LEN).
NvRam_Load(mem) == [i \in 0 .. 63 |-> IF i \in Cells THEN file.img[i] ELSE mem[i]]

Sum8(mem) ==
    LET s[k \in CKS_RANGE_START - 1 .. CKS_RANGE_END] ==
            IF k < CKS_RANGE_START THEN 0 ELSE (s[k - 1] + mem[k]) % 256
    IN  s[CKS_RANGE_END]

PutChecksum(mem, sum) == [mem EXCEPT ![NVRAM_CHKSUM1] = 255 - sum, ![NVRAM_CHKSUM2] = sum]

NvRam_SetChecksum(mem) == PutChecksum(mem, Sum8(mem))

\* The monitor bit NvRam_Init sets or clears when nothing was loaded.
MonitorBit(mem) ==
    [mem EXCEPT ![NVRAM_MONITOR] =
        IF nMonitorType = MONITOR_TYPE_VGA THEN @ | 32 ELSE @ & 223]

\* Process start: the statics take their initialisers, NvRam_Init loads the
\* file or builds the defaults, and NvRam_Reset clears the index.
NvRam_Init ==
    /\ ~running
    /\ running' = TRUE
    /\ nvram' = IF LoadOk THEN NvRam_Load(nvram_init)
                ELSE NvRam_SetChecksum(MonitorBit(nvram_init))
    /\ nvram_index' = 0
    /\ rtc_uip' = TRUE
    /\ UNCHANGED <<ioSelect, ioData, file, nMonitorType>>

NvRam_Reset ==
    /\ running
    /\ nvram_index' = 0
    /\ UNCHANGED <<nvram, rtc_uip, ioSelect, ioData, file, nMonitorType, running>>

\* NvRam_Save: fopen("wb") truncates; fwrite then writes the whole image, or
\* stops short (disk full, process killed); a failed fopen leaves the file.
NvRam_Save ==
    \/ file' = [len |-> NVRAM_LEN, img |-> Image(nvram)]
    \/ file' = [len |-> TornLen,
                img |-> [i \in Cells |-> IF i < NVRAM_START + TornLen THEN nvram[i] ELSE 0]]
    \/ UNCHANGED file

NvRam_UnInit ==
    /\ running
    /\ running' = FALSE
    /\ NvRam_Save
    /\ UNCHANGED <<nvram, nvram_index, rtc_uip, ioSelect, ioData, nMonitorType>>

\* The emulator is killed: NvRam_UnInit never runs.
Crash ==
    /\ running
    /\ running' = FALSE
    /\ UNCHANGED <<nvram, nvram_index, rtc_uip, ioSelect, ioData, file, nMonitorType>>

\* The user edits the configuration between sessions.
Configure ==
    /\ ~running
    /\ \E m \in Monitors : nMonitorType' = m
    /\ UNCHANGED <<nvram, nvram_index, rtc_uip, ioSelect, ioData, file, running>>

NvRam_Select_ReadByte ==
    /\ running
    /\ ioSelect' = nvram_index
    /\ UNCHANGED <<nvram, nvram_index, rtc_uip, ioData, file, nMonitorType, running>>

\* Mutant: the select register accepts any byte.
NvRam_Select_WriteByte_NoBound ==
    /\ running
    /\ \E value \in IndexIn :
         /\ ioSelect' = value
         /\ nvram_index' = value
    /\ UNCHANGED <<nvram, rtc_uip, ioData, file, nMonitorType, running>>

NvRam_Select_WriteByte ==
    /\ running
    /\ \E value \in IndexIn :
         /\ ioSelect' = value
         /\ nvram_index' = IF value < 64 THEN value ELSE nvram_index
    /\ UNCHANGED <<nvram, rtc_uip, ioData, file, nMonitorType, running>>

IsClock(i) == i \in {NVRAM_SECONDS, NVRAM_MINUTES, NVRAM_HOURS} \/ i \in NVRAM_DAY .. NVRAM_YEAR

NvRam_Data_ReadByte ==
    /\ running
    /\ \/ /\ IsClock(nvram_index)
          /\ \E t \in HostTime : ioData' = t
          /\ UNCHANGED rtc_uip
       \/ /\ nvram_index = 10
          /\ ioData' = IF rtc_uip THEN 128 ELSE 0
          /\ rtc_uip' = ~rtc_uip
       \/ /\ ~IsClock(nvram_index) /\ nvram_index # 10
          /\ ioData' = IF nvram_index = 13 THEN 128 ELSE nvram[nvram_index]
          /\ UNCHANGED rtc_uip
    /\ UNCHANGED <<nvram, nvram_index, ioSelect, file, nMonitorType, running>>

NvRam_Data_WriteByte ==
    /\ running
    /\ \E value \in ByteIn :
         /\ ioData' = value
         /\ nvram' = [nvram EXCEPT ![nvram_index] = value]
    /\ UNCHANGED <<nvram_index, rtc_uip, ioSelect, file, nMonitorType, running>>

Init ==
    /\ nvram = nvram_init
    /\ nvram_index = 0
    /\ rtc_uip = TRUE
    /\ ioSelect = 0
    /\ ioData = 0
    /\ file \in {NoFile, [len |-> TornLen, img |-> [i \in Cells |-> 0]]}
    /\ nMonitorType \in Monitors
    /\ running = FALSE

Next ==
    \/ NvRam_Init \/ NvRam_Reset \/ NvRam_UnInit \/ Crash \/ Configure
    \/ NvRam_Select_ReadByte \/ NvRam_Select_WriteByte
    \/ NvRam_Data_ReadByte \/ NvRam_Data_WriteByte

Spec == Init /\ [][Next]_vars

-----------------------------------------------------------------------------
TypeOK ==
    /\ nvram \in [0 .. 63 -> Byte]
    /\ nvram_index \in 0 .. 63
    /\ rtc_uip \in BOOLEAN
    /\ ioSelect \in Byte /\ ioData \in Byte
    /\ file \in {NoFile} \cup [len : {TornLen, NVRAM_LEN}, img : [Cells -> Byte]]
    /\ nMonitorType \in Monitors
    /\ running \in BOOLEAN

\* The image a start would load, or NoFile when fread would come up short.
PersistedImage == IF file # NoFile /\ file.len = NVRAM_LEN THEN file.img ELSE NoFile

Store == INSTANCE NvRamStore WITH
    CksLo <- CKS_RANGE_START, CksHi <- CKS_RANGE_END,
    Chk1 <- NVRAM_CHKSUM1, Chk2 <- NVRAM_CHKSUM2, MonitorCell <- NVRAM_MONITOR,
    Factory <- Image(nvram_init), VGA <- MONITOR_TYPE_VGA, Bytes <- ByteIn,
    None <- NoFile,
    up <- running, ram <- Image(nvram), disk <- PersistedImage, monitor <- nMonitorType

\* NvRam_Init, NvRam_Save and the register handlers together implement the
\* persistent store: every start shows the guest exactly the 50 bytes the
\* last complete save wrote, or the factory image with the configured
\* monitor bit and a matching checksum; a torn or failed save never loads.
PersistsAcrossSessions == Store!Spec
=============================================================================
