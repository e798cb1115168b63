------------------------------ MODULE MC_HdcAcsi ------------------------------
(* Packets for HdcAcsi.  Opcodes, status and sense codes are those of hdc.h, *)
(* which is not part of these sources; the cfg gives their values.          *)
EXTENDS HdcAcsi

MCMachines == {"st", MACHINE_FALCON}

\* Target 0 holds a two-sector image; target 1 is configured with a file
\* whose size is not a multiple of 512, which HDC_Init refuses.
MCImageBytes == [t \in {0, 1} |-> IF t = 0 THEN 1024 ELSE 700]

A0(b) == [a1 |-> 0, b |-> b]
A1(b) == [a1 |-> 1, b |-> b]

\* A 6-byte class 0 packet: target and opcode, LUN and LBA, count, control.
Cmd6(t, op, lun, lba, cnt) ==
    [bytes |-> <<A0(t * 32 + op), A1((lun * 32) + ((lba \div 65536) % 32)),
                 A1((lba \div 256) % 256), A1(lba % 256), A1(cnt), A1(0)>>,
     t |-> t, op |-> op, lun |-> lun, lba |-> lba, cnt |-> cnt, complete |-> TRUE]

\* An ICD marker byte, then a 10-byte class 1 packet.
Icd10(t, op, lun, lba, cnt) ==
    [bytes |-> <<A0(t * 32 + 31), A1(op), A1(lun * 32),
                 A1((lba \div 16777216) % 256), A1((lba \div 65536) % 256),
                 A1((lba \div 256) % 256), A1(lba % 256), A1(0),
                 A1(cnt \div 256), A1(cnt % 256), A1(0)>>,
     t |-> t, op |-> op, lun |-> lun, lba |-> lba, cnt |-> cnt, complete |-> TRUE]

\* The first n bytes of a packet, abandoned by the driver.
Prefix(p, n) == [p EXCEPT !.bytes = SubSeq(@, 1, n), !.complete = FALSE]

MCPackets == {
    Cmd6(0, HD_TEST_UNIT_RDY, 0, 0, 0),
    Cmd6(0, HD_READ_SECTOR, 0, 1, 2),       \* straddles the end of the image
    Cmd6(0, HD_WRITE_SECTOR, 0, 1, 2),      \* straddles the end of the image
    Cmd6(0, HD_SEEK, 0, 2, 0),              \* past the end
    Cmd6(0, HD_REQ_SENSE, 0, 0, 0),         \* short sense data
    Cmd6(0, HD_REQ_SENSE, 1, 0, 22),        \* extended, non-existing LUN
    Cmd6(0, HD_INQUIRY, 1, 0, 4),           \* shorter than the header
    Cmd6(0, HD_READ_SECTOR, 1, 0, 1),       \* non-existing LUN
    Cmd6(0, HD_MODESENSE, 0, 0, 16),
    Cmd6(0, 5, 0, 0, 0),                    \* VERIFY TRACK, unsupported
    Icd10(0, HD_READ_CAPACITY1, 0, 0, 0),
    Icd10(0, HD_READ_SECTOR1, 0, 0, 3),     \* overruns ST-RAM: DMA error
    Icd10(0, 96, 0, 0, 0),                  \* opcode >= 0x60
    Cmd6(1, HD_TEST_UNIT_RDY, 0, 0, 0),     \* target without a drive
    Prefix(Cmd6(0, HD_READ_SECTOR, 0, 1, 1), 3)
}

\* States that differ only in what no later step reads are merged: the
\* command bytes past byteCount (a packet reads only the bytes it wrote),
\* the DMA address and the packet between packets (DriverBegin sets both),
\* the FDC's error and interrupt outputs, and the address of a recorded
\* outcome that was not a sector command.
BusView == [AcsiBus EXCEPT !.command = [i \in 0 .. AcsiBus.byteCount - 1 |-> @[i]]]
PrevView == [t \in Targets |->
                IF prev[t].op \in SectorOps THEN prev[t]
                ELSE [prev[t] EXCEPT !.lba = 0, !.lun = 0]]

StateView == <<machine, bAcsiEmuOn, nPartitions, nNumDrives, BusView, imageLen,
               inquiry_bytes, ncr_regs, tx, PrevView,
               IF tx = <<>> THEN <<>> ELSE <<fdc.dma, pkt>>>>
=============================================================================
