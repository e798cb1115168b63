------------------------------- MODULE HdcAcsi -------------------------------
(***************************************************************************)
(* The ACSI hard disk controller of hdc.c.  The guest's driver programs    *)
(* the DMA address and sends a command packet one byte at a time through   *)
(* HDC_WriteCommandByte: a byte with A1 = 0 starts a packet and names the  *)
(* target, an ICD marker byte announces a 10-byte class 1 command, and     *)
(* HDC_WriteCommandPacket collects the bytes in AcsiBus.command and runs   *)
(* the command when 6 (class 0) or 10 (class 1) have arrived.  Sector data *)
(* is abstracted to counts: the host image file is its length in sectors,  *)
(* guest RAM is the range STMemory_ValidArea accepts.  On a Falcon the     *)
(* same register reaches the NCR 5380 registers instead.                   *)
(***************************************************************************)
EXTENDS Integers, Sequences
LOCAL INSTANCE FiniteSetsExt

CONSTANTS
    Targets,            \* ACSI targets, a subset of 0..7
    ImageBytes,         \* [Targets -> configured image size in bytes, -1: none]
    PartitionCounts,    \* partitions HDC_GetInfo may find in an image
    STRamEnd,           \* end of guest RAM for STMemory_ValidArea
    DmaIn,              \* DMA addresses the driver programs
    Packets,            \* packets the driver sends (see PacketType)
    NcrIn,              \* bytes the guest writes to the NCR 5380
    Machines, MACHINE_FALCON,
    HD_STATUS_OK, HD_STATUS_ERROR,
    HD_TEST_UNIT_RDY, HD_REQ_SENSE, HD_FORMAT_DRIVE, HD_READ_SECTOR,
    HD_WRITE_SECTOR, HD_SEEK, HD_INQUIRY, HD_MODESELECT, HD_MODESENSE,
    HD_SHIP, HD_READ_CAPACITY1, HD_READ_SECTOR1, HD_WRITE_SECTOR1,
    HD_REQSENS_OK, HD_REQSENS_NOSECTOR, HD_REQSENS_WRITEERR,
    HD_REQSENS_OPCODE, HD_REQSENS_INVADDR, HD_REQSENS_INVARG, HD_REQSENS_INVLUN,
    NoExec              \* no command ran in this step

VARIABLES
    machine,            \* ConfigureParams.System.nMachineType
    bAcsiEmuOn, nPartitions, nNumDrives,
    AcsiBus,            \* SCSI_CTRLR, with devs[] (image_file open iff enabled)
    imageLen,           \* length of each host image file, in sectors
    inquiry_bytes,      \* the two bytes HDC_Cmd_Inquiry rewrites: [pq, len]
    ncr_regs,           \* struct ncr5380_regs
    fdc,                \* FDC DMA address, DMA error status, interrupt line
    retOut,             \* what the last HDC_ReadCommandByte returned
    senseOut,           \* the sense data last copied to guest RAM
    tx,                 \* driver: bytes of the packet still to send
    pkt,                \* driver: the packet being sent
    exec,               \* the command run in this step, or NoExec
    prev                \* per target: outcome of the last command run

vars == <<machine, bAcsiEmuOn, nPartitions, nNumDrives, AcsiBus, imageLen,
          inquiry_bytes, ncr_regs, fdc, retOut, senseOut, tx, pkt, exec, prev>>

CmdIdx == 0 .. 15
Byte == 0 .. 255
INQUIRY_LEN == 36                       \* sizeof(inquiry_bytes)

\* A packet as the driver means it, with the bytes it sends for it.
PacketType == [bytes : Seq([a1 : {0, 1}, b : Byte]), t : Targets, op : Byte,
               lun : 0 .. 7, lba : Nat, cnt : Nat, complete : BOOLEAN]

Dev0 == [enabled |-> FALSE, nLastBlockAddr |-> 0, bSetLastBlockAddr |-> FALSE,
         nLastError |-> HD_REQSENS_OK, hdSize |-> 0]

\* memset(&AcsiBus, 0, sizeof(AcsiBus)).
Bus0 == [target |-> 0, byteCount |-> 0, command |-> [i \in CmdIdx |-> 0],
         opcode |-> 0, bDmaError |-> FALSE, returnCode |-> 0,
         devs |-> [t \in Targets |-> Dev0]]

---------------------------------------------------------------------------
(* Command block decoding.                                                 *)

HDC_GetLUN(bus) == bus.command[1] \div 32

HDC_GetLBA(bus) ==
    IF bus.opcode < 32
    THEN ((bus.command[1] * 65536) + (bus.command[2] * 256) + bus.command[3]) % 2097152
    ELSE ((bus.command[2] * 16777216) + (bus.command[3] * 65536)
          + (bus.command[4] * 256) + bus.command[5])

HDC_GetCount(bus) ==
    IF bus.opcode < 32 THEN bus.command[4]
    ELSE (bus.command[7] * 256) + bus.command[8]

ValidArea(addr, len) == addr + len <= STRamEnd

MinOf(a, b) == IF a < b THEN a ELSE b

---------------------------------------------------------------------------
(* Command handlers.  c is [bus, img, dma, inq, sense]: the controller,    *)
(* the image lengths, the DMA address, inquiry_bytes and the guest's copy  *)
(* of the sense data; each handler returns c as the code leaves it.        *)

Tgt(c) == c.bus.target
Dev(c) == c.bus.devs[Tgt(c)]

Status(c, rc) == [c EXCEPT !.bus.returnCode = rc]
SetDev(c, f, v) == [c EXCEPT !.bus.devs[Tgt(c)][f] = v]
Result(c, rc, err) == SetDev(Status(c, rc), "nLastError", err)
DmaFail(c) == [c EXCEPT !.bus.bDmaError = TRUE, !.bus.returnCode = HD_STATUS_ERROR]

\* Mutant: a seek past the end fails without naming the error.
HDC_Cmd_Seek_NoError(c) ==
    LET lba == HDC_GetLBA(c.bus)
        c1  == IF lba < Dev(c).hdSize THEN Result(c, HD_STATUS_OK, HD_REQSENS_OK)
               ELSE Status(c, HD_STATUS_ERROR)
    IN  [c1 EXCEPT !.bus.devs[Tgt(c)].nLastBlockAddr = lba,
                   !.bus.devs[Tgt(c)].bSetLastBlockAddr = TRUE]

HDC_Cmd_Seek(c) ==
    LET lba == HDC_GetLBA(c.bus)
        c1  == IF lba < Dev(c).hdSize THEN Result(c, HD_STATUS_OK, HD_REQSENS_OK)
               ELSE Result(c, HD_STATUS_ERROR, HD_REQSENS_INVADDR)
    IN  [c1 EXCEPT !.bus.devs[Tgt(c)].nLastBlockAddr = lba,
                   !.bus.devs[Tgt(c)].bSetLastBlockAddr = TRUE]

InquiryCopy(c, count) ==
    LET c1 == [c EXCEPT !.inq = [pq |-> IF HDC_GetLUN(c.bus) = 0 THEN 0 ELSE 127,
                                 len |-> (count - 5) % 256],
                        !.dma = c.dma + count]
        c2 == IF ValidArea(c.dma, count) THEN Status(c1, HD_STATUS_OK) ELSE DmaFail(c1)
    IN  [c2 EXCEPT !.bus.devs[Tgt(c)].nLastError = HD_REQSENS_OK,
                   !.bus.devs[Tgt(c)].bSetLastBlockAddr = FALSE]

HDC_Cmd_Inquiry(c) == InquiryCopy(c, MinOf(HDC_GetCount(c.bus), INQUIRY_LEN))

SenseKey(err) ==
    IF err = HD_REQSENS_OK THEN 0
    ELSE IF err \in {HD_REQSENS_OPCODE, HD_REQSENS_INVADDR, HD_REQSENS_INVARG,
                     HD_REQSENS_INVLUN} THEN 5
    ELSE 4

\* retbuf: the short 4-byte form, or the extended form (the bytes that carry
\* information: response code, sense key, error code and block address).
SenseData(d, len) ==
    IF len <= 4
    THEN [ext |-> FALSE, code |-> d.nLastError + (IF d.bSetLastBlockAddr THEN 128 ELSE 0),
          key |-> 0, err |-> 0,
          lba |-> IF d.bSetLastBlockAddr THEN d.nLastBlockAddr % 16777216 ELSE 0]
    ELSE [ext |-> TRUE, code |-> 112 + (IF d.bSetLastBlockAddr THEN 128 ELSE 0),
          key |-> SenseKey(d.nLastError), err |-> d.nLastError,
          lba |-> d.nLastBlockAddr % 16777216]

SenseCopy(c, len) ==
    IF ValidArea(c.dma, len)
    THEN [Status(c, HD_STATUS_OK) EXCEPT !.sense = SenseData(Dev(c), len), !.dma = c.dma + len]
    ELSE [DmaFail(c) EXCEPT !.dma = c.dma + len]

HDC_Cmd_RequestSense(c) ==
    LET n == HDC_GetCount(c.bus)
    IN  SenseCopy(c, IF n <= 0 THEN 4 ELSE MinOf(n, 22))

HDC_Cmd_ModeSense(c) ==
    LET c1 == IF ~ValidArea(c.dma, 16) THEN DmaFail(c)
              ELSE IF c.bus.command[2] = 0 /\ HDC_GetCount(c.bus) = 16
              THEN [Result(c, HD_STATUS_OK, HD_REQSENS_OK) EXCEPT !.dma = c.dma + 16]
              ELSE Result(c, HD_STATUS_ERROR, HD_REQSENS_INVARG)
    IN  SetDev(c1, "bSetLastBlockAddr", FALSE)

HDC_Cmd_FormatDrive(c) ==
    SetDev(Result(c, HD_STATUS_OK, HD_REQSENS_OK), "bSetLastBlockAddr", FALSE)

HDC_Cmd_ReadCapacity(c) ==
    LET c1 == IF ValidArea(c.dma, 8)
              THEN [Result(c, HD_STATUS_OK, HD_REQSENS_OK) EXCEPT !.dma = c.dma + 8]
              ELSE Result(DmaFail(c), HD_STATUS_ERROR, HD_REQSENS_NOSECTOR)
    IN  SetDev(c1, "bSetLastBlockAddr", FALSE)

\* The tail of a sector transfer once n of count sectors moved.
Transferred(c, n, count, failErr) ==
    IF n = count THEN [Result(c, HD_STATUS_OK, HD_REQSENS_OK) EXCEPT !.dma = c.dma + 512 * n]
    ELSE [Result(c, HD_STATUS_ERROR, failErr) EXCEPT !.dma = c.dma + 512 * n]

\* fwrite past the end of the image extends the host file.
WriteAt(c, lba, count) ==
    IF ValidArea(c.dma, 512 * count)
    THEN Transferred([c EXCEPT !.img[Tgt(c)] = IF lba + count > @ THEN lba + count ELSE @],
                     count, count, HD_REQSENS_WRITEERR)
    ELSE Transferred([c EXCEPT !.bus.bDmaError = TRUE], 0, count, HD_REQSENS_WRITEERR)

\* Mutant: every sector asked for is taken as read.
ReadAt_NoClamp(c, lba, count) ==
    IF ValidArea(c.dma, 512 * count)
    THEN Transferred(c, count, count, HD_REQSENS_NOSECTOR)
    ELSE Transferred([c EXCEPT !.bus.bDmaError = TRUE], 0, count, HD_REQSENS_NOSECTOR)

\* fread stops at the end of the image file.
ReadAt(c, lba, count) ==
    IF ValidArea(c.dma, 512 * count)
    THEN Transferred(c, MinOf(count, c.img[Tgt(c)] - lba), count, HD_REQSENS_NOSECTOR)
    ELSE Transferred([c EXCEPT !.bus.bDmaError = TRUE], 0, count, HD_REQSENS_NOSECTOR)

\* The frame both sector handlers share: the block check, then the transfer.
SectorCmd(c, write) ==
    LET lba == HDC_GetLBA(c.bus)
        c1  == IF lba >= Dev(c).hdSize THEN Result(c, HD_STATUS_ERROR, HD_REQSENS_INVADDR)
               ELSE IF write THEN WriteAt(c, lba, HDC_GetCount(c.bus))
               ELSE ReadAt(c, lba, HDC_GetCount(c.bus))
    IN  [c1 EXCEPT !.bus.devs[Tgt(c)].nLastBlockAddr = lba,
                   !.bus.devs[Tgt(c)].bSetLastBlockAddr = TRUE]

HDC_Cmd_WriteSector(c) == SectorCmd(c, TRUE)
HDC_Cmd_ReadSector(c) == SectorCmd(c, FALSE)

HDC_Cmd_TestUnitReady(c) == Status(c, HD_STATUS_OK)

Unsupported(c) ==
    SetDev(Result(c, HD_STATUS_ERROR, HD_REQSENS_OPCODE), "bSetLastBlockAddr", FALSE)

HDC_EmulateCommandPacket(c) ==
    LET op == c.bus.opcode IN
    CASE op = HD_TEST_UNIT_RDY -> HDC_Cmd_TestUnitReady(c)
      [] op = HD_READ_CAPACITY1 -> HDC_Cmd_ReadCapacity(c)
      [] op \in {HD_READ_SECTOR, HD_READ_SECTOR1} -> HDC_Cmd_ReadSector(c)
      [] op \in {HD_WRITE_SECTOR, HD_WRITE_SECTOR1} -> HDC_Cmd_WriteSector(c)
      [] op = HD_INQUIRY -> HDC_Cmd_Inquiry(c)
      [] op = HD_SEEK -> HDC_Cmd_Seek(c)
      [] op = HD_SHIP -> Status(c, 255)
      [] op = HD_REQ_SENSE -> HDC_Cmd_RequestSense(c)
      [] op = HD_MODESELECT ->
            SetDev(Result(c, HD_STATUS_OK, HD_REQSENS_OK), "bSetLastBlockAddr", FALSE)
      [] op = HD_MODESENSE -> HDC_Cmd_ModeSense(c)
      [] op = HD_FORMAT_DRIVE -> HDC_Cmd_FormatDrive(c)
      [] OTHER -> Unsupported(c)
---------------------------------------------------------------------------
(* Packet assembly.                                                        *)

PacketDone(bus) ==
    (bus.opcode < 32 /\ bus.byteCount >= 6) \/ (bus.opcode < 96 /\ bus.byteCount >= 10)

\* The command the controller runs, as exec records it.
Ran(bus) == [t |-> bus.target, op |-> bus.opcode, lun |-> HDC_GetLUN(bus),
             lba |-> HDC_GetLBA(bus), cnt |-> HDC_GetCount(bus)]

\* A complete packet: the command itself, or the non-existing LUN answer.
RunPacket(c) ==
    IF HDC_GetLUN(c.bus) = 0 \/ c.bus.opcode = HD_INQUIRY
    THEN HDC_EmulateCommandPacket(c)
    ELSE LET c1 == SetDev(c, "nLastError", HD_REQSENS_INVLUN)
         IN  IF c.bus.opcode = HD_REQ_SENSE THEN HDC_Cmd_RequestSense(c1)
             ELSE Status(c1, HD_STATUS_ERROR)

\* One received byte, once the target is known to be enabled.
Receive(c, b) ==
    LET bus1 == IF c.bus.byteCount = 0
                THEN [c.bus EXCEPT !.opcode = b, !.bDmaError = FALSE] ELSE c.bus
        bus2 == [bus1 EXCEPT !.command = IF bus1.byteCount < 16
                                          THEN [@ EXCEPT ![bus1.byteCount] = b] ELSE @,
                             !.byteCount = @ + 1]
        c2   == [c EXCEPT !.bus = bus2]
    IN  IF PacketDone(bus2)
        THEN [RunPacket(c2) EXCEPT !.bus.byteCount = 0, !.exec = Ran(bus2)]
        ELSE IF bus2.opcode >= 96
        THEN SetDev(Result(c2, HD_STATUS_ERROR, HD_REQSENS_OPCODE), "bSetLastBlockAddr", FALSE)
        ELSE Status(c2, HD_STATUS_OK)

HDC_WriteCommandPacket(c, b) ==
    IF ~Dev(c).enabled THEN Status(c, HD_STATUS_ERROR) ELSE Receive(c, b)

\* Mutant: a byte with A1 low selects the target but keeps the byte count.
Acsi_WriteCommandByte_NoReset(c, a1, b) ==
    IF a1 = 0
    THEN LET c1 == [c EXCEPT !.bus.target = b \div 32]
         IN  IF b % 32 # 31 THEN HDC_WriteCommandPacket(c1, b % 32)
             ELSE [c1 EXCEPT !.bus.returnCode = HD_STATUS_OK, !.bus.bDmaError = FALSE]
    ELSE HDC_WriteCommandPacket(c, b)

Acsi_WriteCommandByte(c, a1, b) ==
    IF a1 = 0
    THEN LET c1 == [c EXCEPT !.bus.byteCount = 0, !.bus.target = b \div 32]
         IN  IF b % 32 # 31 THEN HDC_WriteCommandPacket(c1, b % 32)
             ELSE [c1 EXCEPT !.bus.returnCode = HD_STATUS_OK, !.bus.bDmaError = FALSE]
    ELSE HDC_WriteCommandPacket(c, b)

NoSense == [ext |-> FALSE, code |-> 0, key |-> 0, err |-> 0, lba |-> 0]
NoOutcome == [failed |-> FALSE, dmaErr |-> FALSE, op |-> 0, lun |-> 0, lba |-> 0]
NoPacket == [bytes |-> <<>>, t |-> 0, op |-> 0, lun |-> 0, lba |-> 0, cnt |-> 0,
             complete |-> FALSE]

Ctx == [bus |-> AcsiBus, img |-> imageLen, dma |-> fdc.dma, inq |-> inquiry_bytes,
        sense |-> senseOut, exec |-> NoExec]

\* The outcome of the command run in c, for the per-target history.
Outcome(c) == [failed |-> c.bus.returnCode = HD_STATUS_ERROR, dmaErr |-> c.bus.bDmaError,
               op |-> c.bus.opcode, lun |-> HDC_GetLUN(c.bus), lba |-> HDC_GetLBA(c.bus)]

\* The byte ended a command: a complete packet, or a byte of an unsupported
\* (>= 0x60) opcode, which fails at once.
Answered(c) ==
    c.exec # NoExec \/ (Dev(c).enabled /\ c.bus.opcode >= 96 /\ c.bus.byteCount > 0)

\* Acsi_WriteCommandByte's effect on the emulator, then its FDC signalling.
CommitAcsi(c) ==
    /\ AcsiBus' = c.bus
    /\ imageLen' = c.img
    /\ inquiry_bytes' = c.inq
    /\ senseOut' = c.sense
    /\ exec' = c.exec
    /\ prev' = IF Answered(c) THEN [prev EXCEPT ![c.bus.target] = Outcome(c)] ELSE prev
    /\ fdc' = IF c.bus.devs[c.bus.target].enabled
              THEN [dma |-> c.dma, dmaErr |-> c.bus.bDmaError, irq |-> TRUE]
              ELSE [fdc EXCEPT !.dma = c.dma, !.irq = FALSE]

---------------------------------------------------------------------------
(* The NCR 5380 of the Falcon.                                             *)

Bit(v, k) == (v \div (2 ^ k)) % 2 = 1
WithBit(v, k, on) == IF Bit(v, k) = on THEN v ELSE IF on THEN v + 2 ^ k ELSE v - 2 ^ k
Ncr5380_Reset == [ncr_regs EXCEPT !.initiator_cmd = WithBit(@, 7, FALSE)]

Ncr5380_WriteByte(addr, byte) ==
    CASE addr = 0 -> [ncr_regs EXCEPT !.current_bus_status = WithBit(@, 6, TRUE)]
      [] addr = 1 -> [ncr_regs EXCEPT !.initiator_cmd = byte]
      [] OTHER -> ncr_regs

\* Reading register 4 recomputes BUSY (from the data write), RST and the
\* asserted BUSY from the initiator command register.
BusStatus(r) ==
    LET s1 == WithBit(r.current_bus_status, 5, Bit(r.current_bus_status, 6))
        s2 == WithBit(s1, 7, Bit(r.initiator_cmd, 7))
    IN  WithBit(s2, 6, Bit(r.initiator_cmd, 2))

Ncr5380_ReadValue(addr) ==
    CASE addr = 1 -> (ncr_regs.initiator_cmd % 32) + (IF Bit(ncr_regs.initiator_cmd, 7) THEN 128 ELSE 0)
      [] addr = 4 -> BusStatus(ncr_regs)
      [] addr = 5 -> ncr_regs.bus_and_status
      [] OTHER -> 0

Ncr5380_ReadRegs(addr) ==
    CASE addr = 4 -> [ncr_regs EXCEPT !.current_bus_status = BusStatus(ncr_regs)]
      [] addr = 7 -> [ncr_regs EXCEPT !.bus_and_status =
                          WithBit(WithBit(WithBit(@, 2, FALSE), 4, FALSE), 5, FALSE)]
      [] OTHER -> ncr_regs
---------------------------------------------------------------------------
(* Actions.                                                                *)

SaneSize(t) == ImageBytes[t] > 0 /\ ImageBytes[t] % 512 = 0

\* HDC_Init: clear the bus, then mount every configured image whose size is
\* a multiple of 512 and whose fopen succeeds, counting its partitions.
\* It runs when the configuration changes, with a reset of the guest, so a
\* packet the driver was sending is abandoned.
HDC_Init ==
    /\ ~bAcsiEmuOn
    /\ \E opened \in SUBSET {t \in Targets : SaneSize(t)},
          parts \in [Targets -> PartitionCounts] :
         LET devs == [t \in Targets |->
                        [Dev0 EXCEPT !.hdSize = IF SaneSize(t) THEN imageLen[t] ELSE 0,
                                     !.enabled = t \in opened]]
             np   == MapThenSumSet(LAMBDA t : parts[t], opened)
         IN  /\ AcsiBus' = [Bus0 EXCEPT !.devs = devs]
             /\ nPartitions' = np
             /\ nNumDrives' = nNumDrives + np
             /\ bAcsiEmuOn' = (opened # {})
    /\ tx' = <<>>
    /\ exec' = NoExec
    /\ prev' = [t \in Targets |-> NoOutcome]
    /\ UNCHANGED <<machine, imageLen, inquiry_bytes, ncr_regs, fdc, retOut, senseOut, pkt>>

HDC_UnInit ==
    /\ bAcsiEmuOn
    /\ AcsiBus' = [AcsiBus EXCEPT !.devs = [t \in Targets |-> [@[t] EXCEPT !.enabled = FALSE]]]
    /\ nNumDrives' = nNumDrives - nPartitions
    /\ nPartitions' = 0
    /\ bAcsiEmuOn' = FALSE
    /\ tx' = <<>>
    /\ exec' = NoExec
    /\ UNCHANGED <<machine, imageLen, inquiry_bytes, ncr_regs, fdc, retOut, senseOut, pkt, prev>>

HDC_ResetCommandStatus ==
    /\ machine # MACHINE_FALCON
    /\ AcsiBus' = [AcsiBus EXCEPT !.returnCode = 0]
    /\ exec' = NoExec
    /\ UNCHANGED <<machine, bAcsiEmuOn, nPartitions, nNumDrives, imageLen, inquiry_bytes,
                   ncr_regs, fdc, retOut, senseOut, tx, pkt, prev>>

Ncr5380_ResetPin ==
    /\ machine = MACHINE_FALCON
    /\ ncr_regs' = Ncr5380_Reset
    /\ exec' = NoExec
    /\ UNCHANGED <<machine, bAcsiEmuOn, nPartitions, nNumDrives, AcsiBus, imageLen,
                   inquiry_bytes, fdc, retOut, senseOut, tx, pkt, prev>>

\* HDC_WriteCommandByte: the NCR 5380 on a Falcon, else the ACSI bus if a
\* drive is mounted; A1 is bit 1 of addr.
HDC_WriteCommandByte(addr, byte) ==
    \/ /\ machine = MACHINE_FALCON
       /\ ncr_regs' = Ncr5380_WriteByte(addr, byte)
       /\ exec' = NoExec
       /\ UNCHANGED <<AcsiBus, imageLen, inquiry_bytes, fdc, senseOut, prev>>
    \/ /\ machine # MACHINE_FALCON /\ bAcsiEmuOn
       /\ CommitAcsi(Acsi_WriteCommandByte(Ctx, (addr \div 2) % 2, byte))
       /\ UNCHANGED ncr_regs
    \/ /\ machine # MACHINE_FALCON /\ ~bAcsiEmuOn
       /\ exec' = NoExec
       /\ UNCHANGED <<AcsiBus, imageLen, inquiry_bytes, ncr_regs, fdc, senseOut, prev>>

HDC_ReadCommandByte ==
    /\ \E addr \in 0 .. 7 :
         IF machine = MACHINE_FALCON
         THEN retOut' = Ncr5380_ReadValue(addr) /\ ncr_regs' = Ncr5380_ReadRegs(addr)
         ELSE retOut' = AcsiBus.returnCode /\ UNCHANGED ncr_regs
    /\ exec' = NoExec
    /\ UNCHANGED <<machine, bAcsiEmuOn, nPartitions, nNumDrives, AcsiBus, imageLen,
                   inquiry_bytes, fdc, senseOut, tx, pkt, prev>>

\* The ACSI driver programs the DMA address and starts a packet.
DriverBegin ==
    /\ machine # MACHINE_FALCON
    /\ tx = <<>>
    /\ \E p \in Packets, d \in DmaIn :
         /\ tx' = p.bytes
         /\ pkt' = p
         /\ fdc' = [fdc EXCEPT !.dma = d]
    /\ exec' = NoExec
    /\ UNCHANGED <<machine, bAcsiEmuOn, nPartitions, nNumDrives, AcsiBus, imageLen,
                   inquiry_bytes, ncr_regs, retOut, senseOut, prev>>

\* The ACSI driver writes the next byte of its packet.
DriverSend ==
    /\ tx # <<>>
    /\ HDC_WriteCommandByte(2 * Head(tx).a1, Head(tx).b)
    /\ tx' = Tail(tx)
    /\ UNCHANGED <<machine, bAcsiEmuOn, nPartitions, nNumDrives, retOut, pkt>>

\* A Falcon program writes an NCR 5380 register.
NcrWrite ==
    /\ machine = MACHINE_FALCON
    /\ \E addr \in 0 .. 7, b \in NcrIn : HDC_WriteCommandByte(addr, b)
    /\ UNCHANGED <<machine, bAcsiEmuOn, nPartitions, nNumDrives, retOut, tx, pkt>>

Init ==
    /\ machine \in Machines
    /\ bAcsiEmuOn = FALSE
    /\ nPartitions = 0
    /\ nNumDrives = 2
    /\ AcsiBus = Bus0
    /\ imageLen = [t \in Targets |-> IF SaneSize(t) THEN ImageBytes[t] \div 512 ELSE 0]
    /\ inquiry_bytes = [pq |-> 0, len |-> 31]
    /\ ncr_regs = [initiator_cmd |-> 0, current_bus_status |-> 0, bus_and_status |-> 0]
    /\ fdc = [dma |-> 0, dmaErr |-> FALSE, irq |-> FALSE]
    /\ retOut = 0
    /\ senseOut = NoSense
    /\ tx = <<>>
    /\ pkt = NoPacket
    /\ exec = NoExec
    /\ prev = [t \in Targets |-> NoOutcome]

Next ==
    \/ HDC_Init \/ HDC_UnInit \/ HDC_ResetCommandStatus \/ Ncr5380_ResetPin
    \/ DriverBegin \/ DriverSend \/ NcrWrite \/ HDC_ReadCommandByte

Spec == Init /\ [][Next]_vars
-----------------------------------------------------------------------------
DevType == [enabled : BOOLEAN, nLastBlockAddr : Nat, bSetLastBlockAddr : BOOLEAN,
            nLastError : Byte, hdSize : Nat]

TypeOK ==
    /\ machine \in Machines
    /\ bAcsiEmuOn \in BOOLEAN
    /\ nNumDrives \in Nat
    /\ AcsiBus \in [target : 0 .. 7, byteCount : 0 .. 16, command : [CmdIdx -> Byte],
                    opcode : Byte, bDmaError : BOOLEAN, returnCode : Byte,
                    devs : [Targets -> DevType]]
    /\ imageLen \in [Targets -> Nat]
    /\ inquiry_bytes \in [pq : {0, 127}, len : Byte]
    /\ ncr_regs \in [initiator_cmd : Byte, current_bus_status : Byte, bus_and_status : Byte]
    /\ retOut \in Byte

\* The command a packet asks for.
Meant(p) == [t |-> p.t, op |-> p.op, lun |-> p.lun, lba |-> p.lba, cnt |-> p.cnt]

\* The driver's byte completes a packet that a mounted, enabled target runs.
CompletesPacket ==
    /\ Len(tx) = 1 /\ tx' = <<>> /\ bAcsiEmuOn'
    /\ pkt.complete /\ pkt.op < 96
    /\ machine # MACHINE_FALCON /\ bAcsiEmuOn
    /\ AcsiBus.devs[pkt.t].enabled

\* Acsi_WriteCommandByte and HDC_WriteCommandPacket frame packets as the
\* driver sends them: a command runs exactly at the last byte of a complete
\* packet to an enabled target (never on an abandoned prefix glued to the
\* next packet, never twice), and it is the command the packet encodes:
\* target, opcode, LUN, block address and count.
CommandFraming ==
    [][ /\ (exec' # NoExec) <=> CompletesPacket
        /\ exec' # NoExec => exec' = Meant(pkt) ]_vars

SectorOps == {HD_READ_SECTOR, HD_READ_SECTOR1, HD_WRITE_SECTOR, HD_WRITE_SECTOR1, HD_SEEK}

ReportedError(s) == IF s.ext THEN s.err ELSE s.code % 128

\* REQUEST SENSE after a command that failed (not for a DMA error) reports an
\* error, and after a failed sector command run on LUN 0 the block address
\* it asked for: every error path of the handlers, the non-existing LUN
\* answer and the unsupported-opcode path must leave nLastError set, and the
\* sector handlers nLastBlockAddr.
SenseNamesFailure ==
    [][ (/\ exec' # NoExec /\ exec'.op = HD_REQ_SENSE
         /\ AcsiBus'.returnCode = HD_STATUS_OK
         /\ prev[exec'.t].failed /\ ~prev[exec'.t].dmaErr)
        => /\ ReportedError(senseOut') # HD_REQSENS_OK
           /\ (prev[exec'.t].op \in SectorOps /\ prev[exec'.t].lun = 0)
                => senseOut'.lba = prev[exec'.t].lba ]_vars

ReadOps == {HD_READ_SECTOR, HD_READ_SECTOR1}

\* A READ SECTOR reports success only when every sector it asked for exists
\* in the image file: HDC_Cmd_ReadSector checks only the first block against
\* hdSize and relies on fread's count for the rest.
ReadsWithinImage ==
    [][ (exec' # NoExec /\ exec'.op \in ReadOps /\ AcsiBus'.returnCode = HD_STATUS_OK)
        => exec'.lba + exec'.cnt <= imageLen[exec'.t] ]_vars
=============================================================================
