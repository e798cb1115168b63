----------------------------- MODULE NvRamStore -----------------------------
(***************************************************************************)
(* What the Falcon NVRAM emulation promises across emulator sessions,      *)
(* independent of how falcon/nvram.c gets there.  The persistent cells     *)
(* (Cells) are visible to the guest while the emulator runs (up).  A clean *)
(* or failed exit leaves on disk either the image the guest saw last, the  *)
(* image that was there before, or nothing usable (None).  A start shows   *)
(* the guest exactly the image on disk, or, when there is none, the        *)
(* factory image with the monitor bit of the configuration and a checksum  *)
(* that matches it.                                                        *)
(***************************************************************************)
EXTENDS Integers, Bitwise

CONSTANTS
    Cells,          \* the persistent cells, a range of indices
    CksLo, CksHi,   \* the cells the checksum sums
    Chk1, Chk2,     \* where the complemented and the plain sum are stored
    MonitorCell,    \* the cell whose bit 5 selects VGA
    Factory,        \* the factory contents of Cells
    Monitors,       \* the monitor types of the configuration
    VGA,            \* the one of them that sets the bit
    Bytes,          \* the values a guest stores in a cell
    None            \* no usable image on disk

VARIABLES
    up,             \* the emulator is running
    ram,            \* what the guest sees in Cells
    disk,           \* the image a start would load, or None
    monitor         \* the configured monitor type

vars == <<up, ram, disk, monitor>>

\* Sum of img over lo..hi modulo 256, as an unsigned char accumulates it.
Sum8(img, lo, hi) ==
    LET s[k \in lo - 1 .. hi] == IF k < lo THEN 0 ELSE (s[k - 1] + img[k]) % 256
    IN  s[hi]

StoreSum(img, c) == [img EXCEPT ![Chk1] = 255 - c, ![Chk2] = c]

WithChecksum(img) == StoreSum(img, Sum8(img, CksLo, CksHi))

WithMonitor(img, m) ==
    [img EXCEPT ![MonitorCell] = IF m = VGA THEN @ | 32 ELSE @ & 223]

Defaults(m) == WithChecksum(WithMonitor(Factory, m))

Init ==
    /\ up = FALSE
    /\ ram = Factory
    /\ disk = None
    /\ monitor \in Monitors

Start ==
    /\ ~up
    /\ up' = TRUE
    /\ ram' = IF disk = None THEN Defaults(monitor) ELSE disk
    /\ UNCHANGED <<disk, monitor>>

Store ==
    /\ up
    /\ \E c \in Cells, v \in Bytes : ram' = [ram EXCEPT ![c] = v]
    /\ UNCHANGED <<up, disk, monitor>>

Stop ==
    /\ up
    /\ up' = FALSE
    /\ disk' \in {ram, disk, None}
    /\ UNCHANGED <<ram, monitor>>

Configure ==
    /\ ~up
    /\ monitor' \in Monitors
    /\ UNCHANGED <<up, ram, disk>>

Next == Start \/ Store \/ Stop \/ Configure

Spec == Init /\ [][Next]_vars
=============================================================================
