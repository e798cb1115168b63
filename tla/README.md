# TLA+ models of Hatari's GEMDOS hard-drive emulation

This directory holds TLA+ models of the C sources under `src/src/`: the
GEMDOS call interception in `gemdos.c` (the core that the spec describes),
and the two device state machines that sit next to it: the ACSI/SCSI hard
disk controller in `hdc.c` and the Falcon RTC/NVRAM in `falcon/nvram.c`;
and the glue between the 680x0 core and the emulator in
`uae-cpu/hatari-glue.c` (interrupt levels, the CPU model, the cartridge
opcodes that install the GEMDOS handler), with the CPU debugger of
`debug/debugcpu.c` (breakpoints and single-stepping) in the same run
loop. Every module is checked with TLC. `PROJECT.json` lists the components, the runs, the
mutants that show each property can fail, the map from TLA+ definitions to
source lines, the findings and the hazards.

## 1. Inventory

### 1.1 Components of `gemdos.c`

| component | state (C globals) | operations (C functions) |
|---|---|---|
| File handle table | `FileHandles[MAX_FILE_HANDLES]` = {`bUsed`, `FileHandle` (host `FILE*`), `szActualName`} | `GemDOS_Create` (0x3C), `GemDOS_Open` (0x3D), `GemDOS_Close` (0x3E), `GemDOS_Read` (0x3F), `GemDOS_Write` (0x40), `GemDOS_LSeek` (0x42), `GemDOS_GSDToF` (0x57), helpers `GemDOS_FindFreeFileHandle`, `GemDOS_IsInvalidFileHandle`; cleared by `GemDOS_Init`, `GemDOS_Reset`, snapshot restore |
| Directory cursor table (search) | `InternalDTAs[MAX_DTAS_FILES]` = {`bUsed`, `nentries`, `centry`, `found`, `path`}, circular `DTAIndex`; guest DTAs in guest RAM carry `magic` and `index` | `GemDOS_SFirst` (0x4E), `GemDOS_SNext` (0x4F), `ClearInternalDTA`, `PopulateDTA`, `match`, `fsfirst_dirname`, `fsfirst_dirmask`, `GemDOS_SetDTA` (0x1A) |
| Path translator | `emudrives[0]->hd_emulation_dir`, `fs_currpath` | `GemDOS_CreateHardDriveFileName` (glob-based case-insensitive component matching), `GemDOS_FindDriveNumber`, `GemDOS_IsFileNameAHardDrive`, `baselen`; path calls `GemDOS_MkDir`, `GemDOS_RmDir`, `GemDOS_ChDir`, `GemDOS_UnLink`, `GemDOS_Rename`, `GemDOS_Fattrib`, `GemDOS_GetDir` |
| Drive state | `CurrentDrive`, `emudrives[0]->hd_letter`, `nPartitions` | `GemDOS_SetDrv` (0x0E), `GemDOS_DFree` (0x36), `GemDOS_GetDir` (0x47), `GemDOS_Pexec` (0x4B), `GemDOS_InitDrives`, `GemDOS_UnInitDrives` |
| Call dispatcher | `SR` condition codes handed back to the cartridge trampoline, `RunOld` | `GemDOS_OpCode` (three outcomes: run TOS, handled, branch to the Pexec routine), `GemDOS_Boot` (installs the vector, fixes `act_pd`), `OpCode_GemDos`, `OpCode_SysInit`, `OpCode_OldGemDos` in `hatari-glue.c` |
| Save states | `DTAIndex`, `bInitGemDOS`, `pDTA`, `CurrentDrive` | `GemDOS_MemorySnapShot_Capture` (save: stores them; restore: reloads them and drops every file handle without closing its stream) |
| Printer passthrough | none | `GemDOS_Cprnout`, `GemDOS_Cprnos` (pure I/O) |

### 1.2 Other source files

| file | what it is | state machine |
|---|---|---|
| `hdc.c` | ACSI/SCSI low-level hard disk controller | `AcsiBus` {`byteCount`, `command[]`, `opcode`, `target`, `returnCode`, `bDmaError`, per-device `nLastBlockAddr`, `nLastError`, `bSetLastBlockAddr`}; command bytes assemble a 6- or 10-byte packet, then `HDC_EmulateCommandPacket` runs it; NCR5380 registers for the Falcon |
| `falcon/nvram.c` | MC146818 RTC/NVRAM | `nvram[64]`, `nvram_index`, the UIP toggle; select/data register reads and writes, checksum over bytes 14..61 |
| `uae-cpu/hatari-glue.c` | CPU glue | `pendingInterrupts` (VBL bit 4, HBL bit 2) and `intlev()` priority; the illegal-opcode hooks that call `GemDOS_OpCode`/`GemDOS_Boot` |
| `debug/debugcpu.c` | CPU debugger | `nCpuSteps`, `nCpuActiveCBs`, `SPCFLAG_DEBUGGER`; `DebugCpu_Check` after every instruction, the `cont` and breakpoint commands; disasm/memdump cursors and display commands |
| `ioMemTabFalcon.c` | table of I/O register handlers | constant data, no behaviour |
| `includes/*.h`, `cpu/compat.h`, `falcon/crossbar.h` | declarations | none |

### 1.3 How the parts interact

The guest executes `trap #1`; the cartridge trampoline runs an illegal opcode
that lands in `OpCode_GemDos` -> `GemDOS_OpCode`. The dispatcher reads the call
number from the user or supervisor stack, calls one handler, and turns the
handler's return value into condition codes: Z set = handled (skip TOS),
V set = branch to the Pexec routine, otherwise TOS's own GEMDOS runs. Handlers
read their arguments from guest RAM, translate guest paths through the path
translator (only when the path's drive is the emulated drive), and mutate one of
the two tables. The guest keeps its own copies of what the handlers returned:
the handle numbers in D0, and the `magic`/`index` fields written into the
DTA of the current process. Those copies outlive the tables across a save-state
restore, a guest process switch, and the circular reuse of `InternalDTAs`.
Everything runs on the emulation thread, one call at a time: the concurrency is
between the guest's programs (several open handles, several DTAs, process
switches), the host file system (files change between calls), and reset or
save-state restore, which can fall between any two calls.

### 1.4 What is hard, and the properties that make each part correct

* File handle table: the guest's handle numbers must keep naming the stream
  they were opened on; every host stream must be owned by exactly one in-use
  slot (no leak, no loss), across save states too; Fseek must leave
  the stream where it reports; Fdatime must stat the handle's own file.
* Search: a DTA's SNext must continue its own search in order and end with
  "no more files", across interleaved searches of several DTAs, until the
  circular table reuses its slot; every handled call must leave a result in D0.
* Path translator: the host path stays under the drive root; matching is
  case-insensitive and deterministic; ChDir/GetDir agree.
* Drive state: only calls for the emulated drive are serviced; Pexec is
  redirected exactly when the program is on the emulated drive.
* Dispatcher: each call ends in exactly one of three outcomes.
* `hdc.c`: a packet is executed exactly once, after exactly 6 or 10 bytes;
  sector accesses stay inside the image.
* `hatari-glue.c`: a pending interrupt is cleared only when the CPU takes it,
  and VBL is not starved; instructions run with the configured CPU model;
  once the drive is announced, trap #1 reaches `gemdos.c`.
* `debugcpu.c`: breakpoints stay armed while the emulation runs; `cont N`
  stops after exactly N instructions, and does stop.
* `nvram.c`: the index stays in range; the checksum bytes agree with the data
  after initialisation.

## 2. Plan

Order: the state the guest holds copies of comes first, since that is where
the system goes wrong in sequences no unit test writes.

1. `GemdosFiles` (done): the file handle table with the host files it opens.
2. `GemdosSearch` (done): the `InternalDTAs` circular table, guest DTAs of
   several processes, SFirst/SNext, host files deleted between calls.
3. `WildcardMatch` (done): `match()` as a RECURSIVE operator, checked against
   a reference definition of the GEMDOS wildcard semantics, and the filter loop
   of `GemDOS_SFirst`.
4. `GemdosDrive` (done): the path translator over a small host tree, the
   drive state, and every path call; the three outcomes of `GemDOS_OpCode`.
5. Next: an abstract `GemdosAbstract` (guest-level open files and searches,
   no slots) with `GemdosFiles` and `GemdosSearch` shown to refine it under a
   mapping from slots to handles; a composition `Gemdos` of the file table
   and the translator (Fopen through the translated name, Fdelete of an open
   file).
6. `HdcAcsi` (done): `hdc.c` command packet assembly, every command handler
   and the NCR 5380 registers.
7. `NvRam` (done), with the abstract `NvRamStore` it refines.
8. `CpuGlue` (done): `hatari-glue.c` with the boot hook of `gemdos.c`, the
   project's first liveness property under the fairness of the run loop.
9. `DebugCpu` (done), composed with `CpuGlue` in `CpuSystem`: the debugger's
   breakpoint count, step count and `SPCFLAG_DEBUGGER` around the same
   instructions.

## 3. Modules

Each module keeps the C names for state and handlers. An action is the
whole handler together with the outcome `GemDOS_OpCode` derives from its return value.
`D0` is `Regs[REG_D0]`. Guest memory reads and writes are abstracted to the
values they carry.

`GemdosFiles` and `GemdosSearch` each have two specifications. `CallNext`
holds the guest's calls (and, for the search, the host's directory changes
and the process switches), and `CallsSpec == Init /\ [][CallNext]_vars` is
a session in which no save state is taken or restored. `Next` adds
`SnapShotSave` and `SnapShotRestore` (both directions of
`GemDOS_MemorySnapShot_Capture`), and `Spec == Init /\ [][Next]_vars`
allows them between any two calls. The passing runs check `CallsSpec`; the
violation runs `files_leak` and `search_restore` check `Spec` and show what
a restore does to the state the guest still holds.

### GemdosFiles (`gemdos.c` lines 72-88, 410-457, 528-595, 1083-1375, 1720-1754)

State: `bUsed`, `FileHandle` (a record {file, pos, rd, wr} standing for a
host `FILE*`, or `NULL`), `szActualName` per slot; host state `hostSize`
(length of each host file or `Absent`) and `hostOpen` (streams the host
process holds open); `D0` (`Unset` when the call fell through to TOS); guest
state `guestHandles` (which file the guest believes each handle number is
open on) and `savedHandles` (the same at the last save state).

Path translation is abstracted here: a guest file name is already the host
file it translates to (the translator is `GemdosDrive`). Host `fopen` modes
are modelled by what they do: `"rb"` and `"r+"` need the file, `"wb"` and
`"w+"` create or truncate it, write modes fail on a read-only host file, and
every `fopen` fails when the host is out of descriptors. `Fseek` offsets are
32-bit guest values scaled to `GuestBits` bits; the host `long` is either the
same width (ILP32: the cast sign-extends) or wider (LP64: it does not).

### GemdosSearch (`gemdos.c` lines 79-90, 271-313, 528-547, 934-940, 1538-1678)

State: `InternalDTAs` slots {bUsed, centry, found}, `DTAIndex`, `pDTA`; the
guest DTAs `dta[d]` = {magic, index, name}; `dtaOf` (each process's
basepage DTA pointer) and `cur` (the running process), which SFirst/SNext
re-read; `hostDir`, the names present in the host directory; `D0`. Ghost
state `expect` (what each DTA's search has still to report) and `later`
(how many Fsfirst calls have run since, for the circular eviction) states
the guest's view. `match()` is abstracted to the set of names a mask
accepts. `PopulateDTA` stats the entry and copies its name. The size,
the time stamp (`GemDOS_Time2dos`, `GemDOS_Date2dos`) and the attributes
are data that no property reads. `GuestMayFsnext` is the guest discipline: `FsnextOn = "live"`
means programs call Fsnext only on a search they own and that was not
evicted, and `"any"` lifts that.

### WildcardMatch (`gemdos.c` lines 320-355, 391-403, 1634-1674)

`match(pat, name)` translated character by character (`MatchLoop`, a
RECURSIVE operator over the two pointers), `fsfirst_dirmask`, alphasort's
`strcmp` order (`StrLess`), and the filter loop of `GemDOS_SFirst`. That
loop compacts the scandir array in place (variables `found`, `i`, `j`,
`nentries`), one action per iteration. `Glob`/`WildcardSpec` is the
reference: '*' any sequence, '?' one character, case-insensitive, "*.*"
all, no names starting with '.'. Init enumerates every mask and every
sorted directory listing within the bounds.

### GemdosDrive (`gemdos.c` lines 432-497, 602-807, 872-879, 947-1076, 1319-1345, 1383-1530, 1686-1713, 1766-1929)

State: `CurrentDrive`, `fs_currpath` (a C string: a sequence of
one-character strings), the host tree `dirs` and `files` (canonical
component lists), `D0` and `lastCall` = [op, name, drive, outcome]. The
outcome is "tos", "handled" or "pexec", the three results of
`GemDOS_OpCode`.

The host is modelled by its semantics: `Walk` is the kernel's path lookup
("", "." and ".." included), `glob` returns the entries of a directory
without dot names, and the translator takes the least in byte order
(`FirstOf`), which is the first that glob's sorted list offers.
`GemDOS_CreateHardDriveFileName` is translated step for step:

* `DestInit`: the three `sprintf` cases;
* `ConvertLoop`: the `strchr` loop over backslashes;
* `ResolveComponent` and `Replace`: the directory glob, then the glob over
  any entry;
* `LastName`: the last component.

The string indices keep the code's pointer arithmetic. After a match
replaces the path, `s` still indexes the old string, as in the C.

Handlers:

* `GemDOS_MkDir`, `GemDOS_RmDir`, `GemDOS_UnLink` and `GemDOS_Rename` change
  the tree with POSIX `mkdir`/`rmdir`/`unlink`/`rename` semantics.
* `GemDOS_ChDir` is `stat` plus the slash handling.
* `GemDOS_Fattrib` and `GemDOS_GetDir` report.
* `GemDOS_SetDrv`, `GemDOS_DFree` and `GemDOS_Pexec` decide on drive numbers
  alone.
* `GemDOS_Reset` resets `CurrentDrive`.
* `Init` is `GemDOS_InitDrives`.

`Resolve`/`Intended` is the reference: the object a guest path names
according to the spec (section 4.1), component by component, case-insensitively,
never above the drive root.

### NvRamStore (abstract)

What the NVRAM promises across emulator sessions, without registers or
files: `ram` is what the guest sees in the 50 persistent cells while the
emulator is `up`, `disk` the image the next start would load (or `None`).
`Start` shows `disk`, or the factory image with the configured monitor bit
and a matching checksum when there is none; `Store` changes a cell; `Stop`
leaves on disk the image the guest saw last, the previous one, or nothing
usable; `Configure` changes the monitor type while stopped.

### NvRam (`falcon/nvram.c` lines 49-278)

State: `nvram` (the static array), `nvram_index`, `rtc_uip` (the
function-static toggle of `NvRam_Data_ReadByte`), the two I/O bytes
`$ff8961`/`$ff8963`, the file `hatari.nvram` (absent, or a length and
the bytes written), the configured monitor type and whether the process
runs. `NvRam_Init` is a process start: the statics take their
initialisers, `NvRam_Load` needs the whole 50 bytes, otherwise the monitor
bit is set or cleared and `NvRam_SetChecksum` runs (a sum modulo 256, as the
`unsigned char` accumulates it). `NvRam_UnInit` saves: `fopen("wb")`
truncates, then `fwrite` writes all 50 bytes, stops after `TornLen`, or
`fopen` fails and the file stays. `Crash` is a kill with no save. The
clock registers read a host time from `HostTime`.

`Store == INSTANCE NvRamStore WITH ...` maps `ram` to the 50 cells of
`nvram`, `disk` to the file when it holds a full image, and the property
`PersistsAcrossSessions == Store!Spec` checks the refinement.

### HdcAcsi (`hdc.c` lines 55-994)

State: `AcsiBus` with its per-target `devs`, `nPartitions`, `nNumDrives`,
`bAcsiEmuOn`, `inquiry_bytes` (the two bytes the code changes), the NCR
5380 registers, the FDC's DMA address, DMA-error status and interrupt line,
and the image length of each target in sectors. Handlers take and return a
context record (bus, image lengths, DMA address, inquiry bytes, the
guest's copy of the sense data), so each C handler is one operator and
`HDC_EmulateCommandPacket` is their `CASE`. DMA copies are modelled by
`STMemory_ValidArea` against `STRamEnd`; `fread` stops at the end of the
image and `fwrite` past it extends it. `HDC_GetInfo`'s partition count is a
choice from `PartitionCounts`.

The environment: an ACSI driver (`DriverBegin`, `DriverSend`) that picks
a packet of `MCPackets` and a DMA address and sends its bytes one step at
a time, possibly abandoning it; status reads and `HDC_ResetCommandStatus`
between any two bytes; `HDC_UnInit`/`HDC_Init` on a configuration change;
on a Falcon, register writes and reads of the NCR 5380 and its reset pin.
Ghost state `pkt` (the packet being sent), `exec` (the command a step ran)
and `prev` (per target, the outcome of the last command) states the
properties.

### CpuGlue (`uae-cpu/hatari-glue.c` lines 34-172, `gemdos.c` 453-454, 1938-1968)

| code | model |
|---|---|
| `pendingInterrupts` (bits 4 and 2) | `pendingInterrupts`, a subset of {4, 2} |
| `intlev()` | `intlev(pend, mask)`: the level returned and the bits left |
| `customreset()` | `customreset`, part of `TosReset` (the RESET instruction) |
| `cpu_level`, `cpu_compatible`, `table68k` | same names; `functbl` is the model `cpufunctbl` was built for |
| `Init680x0`, `Start680x0`, `Exit680x0` | actions of the same names; `cpu` is the lifecycle |
| `check_prefs_changed_cpu` | the action of the same name, with the level and mode as inputs |
| `OpCode_SysInit`, `GemDOS_Boot`, `bInitGemDOS` | `OpCode_SysInit` calls `GemDOS_Boot`; `vec84`, `oldGemdos`, `drvbits` are $84, `CART_OLDGEMDOS`, $4c2 |
| `OpCode_GemDos`, `OpCode_OldGemDos` | `GemdosTrap`: a trap #1 reaches `gemdos.c` through CART_GEMDOS or goes straight to TOS (`lastCall`) |

The environment comes from outside these sources: the UAE run loop
(`newcpu.c`), the video interrupts (`int.c`), the reset code (`reset.c`)
and TOS.
* `CpuInstruction(op, m)` is one guest instruction followed by the
  loop's interrupt check.
  * The instruction is a move to SR, an RTE or any other.
  * The check calls `intlev` with the new mask.
  * The CPU takes the level when it is above the mask. It pushes the old
    mask in `frames` and raises the mask to the level.
* `ServiceModeChange` is the restart of `m68k_go` on
  `SPCFLAG_MODE_CHANGE`, with the run function for `cpu_compatible`.
  Every instruction-type step begins with it.
* `RaiseInterrupt(l)` is the video chip.
* `ResetWarm` is an emulator reset: `GemDOS_Reset`, then TOS from its
  reset vector.
* `GuestReboot` is a program, or TOS's Control-Alternate-Delete, jumping
  to the TOS start-up.
* `TosReset` is TOS's start-up up to the cartridge init: RESET, SR
  $2700, and its own trap vectors and drvbits.
* The guest writes the mask only outside handlers, so interrupts nest at
  most two deep (HBL, then VBL).

### DebugCpu (`debug/debugcpu.c` lines 38-39, 327-342, 447-500)

| code | model |
|---|---|
| `nCpuActiveCBs`, `nCpuSteps` | same names |
| `SPCFLAG_DEBUGGER` | `spcDebugger` |
| breakcond.c's breakpoint lists | `bpCount`, their size (`BreakCond_BreakPointCount`) |
| `DebugUI()` running | `debugger`; `resume` says where `DebugCpu_Check` called it from |
| `DebugCpu_BreakAddr`, `DebugCpu_BreakCond` | `DebugCpu_Break(delta)`: a breakpoint added or removed, then the count |
| `DebugCpu_Continue` | `DebugCpu_Continue(arg)`, followed by the rest of `DebugUI` and of the `DebugCpu_Check` that called it |
| `DebugCpu_SetDebugging` | the operator of the same name, applied when the debugger returns |
| `DebugCpu_Check` | `DebugCpu_Check`, inside `AfterInstruction`; `DebugCpu_CheckSteps` is its step part |

`DebugUI()` (debugui.c) is not in these sources. The model takes from the
comments what it does: it runs the command loop on the emulation thread,
and calls `DebugCpu_SetDebugging` before it returns. A command ending in
`DEBUGGER_END` (`cont`) leaves it. So leaving the debugger is one step:
`DebugCpu_Continue`, `DebugCpu_SetDebugging`, then whatever follows the
`DebugUI()` call in `DebugCpu_Check`. Which breakpoint matches an
instruction is a free choice (`BreakCond_MatchCpu` is in breakcond.c).
`UserBreak` is the user entering the debugger between instructions.
`budget` and `executed` are ghosts: the count of the last `cont N` and the
instructions run since then.

### CpuSystem (composition)

`CpuSystem` instantiates `CpuGlue` and `DebugCpu` on their shared thread.
* Every instruction-type step of `CpuGlue`, trap #1 included, is followed
  by `AfterInstruction`, which is `DebugCpu_Check` when `spcDebugger` is
  set.
* While `debugger` is TRUE the thread is inside `DebugUI()`, so no
  instruction, interrupt, reset or option change happens (`Emulating`).
* The properties of both modules are restated over the composition.
  `VBLServed` asks for the mask below 4 while the emulation runs, since
  time in the debugger executes nothing.

## 4. Runs and bounds

| run | expect | what it shows |
|---|---|---|
| `files_table` | pass | without save states, every host stream belongs to exactly one in-use slot, and guest handle numbers keep naming their file |
| `files_leak` | violation | a restore while a file is open leaks its host stream |
| `search_order` | pass | with two processes, two DTAs, process switches and host changes, Fsnext continues its own search in order, then "no more files" |
| `search_restore` | violation | a search continued after a save-state restore reports "no more files" instead of its next entry |
| `match_filter` | pass | Fsfirst keeps exactly the entries match() accepts, in order, and match() accepts only names the wildcard semantics accept |
| `drive_paths` | pass | every guest path that names an existing object translates to it, in any case, from the root or the current directory, after the tree was changed, for components shorter than the short-name limit |
| `drive_longname` | violation | a guest path whose long first component matches a longer host directory translates to a mangled host path |
| `drive_escape` | violation | Dsetpath ".." at the drive root leaves the drive |
| `nvram_sessions` | pass | `NvRam` refines `NvRamStore`: every start shows the last complete save, or the defaults for the configured monitor with a valid checksum |
| `cpu_glue` | pass | with the debugger in the loop: every breakpoint set is armed while the emulation runs; `cont N` always gives control back to the debugger unless the emulation ends (`StepsReturn`); `intlev` never drops an interrupt the CPU does not take; a pending VBL is served while the guest keeps unmasking it; every instruction runs with the decode table and run function of the configured CPU model |
| `debug_step` | violation | after a breakpoint stops the CPU, `cont N` stops again after N-1 instructions; `cont 1` stops before any instruction runs |
| `hdc_commands` | pass | exactly the complete packets run, each as the command its bytes spell; REQUEST SENSE names the failure of the last command; a successful READ stays inside the image |

Bounds:

* **Handle table:** two slots cover every collision (free/used, reuse of a
  freed slot, table full). Two host files give two handles on one file and
  on different files. Lengths up to 2 bytes make reads short, exact and past
  the end. A 3-bit guest word keeps the sign-extension case.
* **Search:** two DTA slots make the circular table wrap after one further
  Fsfirst. Two processes and two DTAs give every ownership collision.
* **Wildcards:** `match_filter` enumerates every mask of up to 3 characters
  over {A, b, ., *, ?} and every directory of up to 3 names of up to 2
  characters over {a, B, .}, 218,712 states. That includes the case pairs,
  the dot files and the trailing wildcards.
* **Drive:**
  * Host tree: root /r with a directory a and a file b.
  * Guest paths:
    * components a, A, b and "..";
    * one level, in four forms: relative, from the root, with "C:\" and
      with "D:\";
    * two levels, relative and from the root.
  * Tree-changing calls:
    * operands: "\A", "\b", "\a\b" and "D:\a";
    * Frename over every pair of them;
    * a depth bound `MaxDepth` = 3, since Dcreate and Frename can nest
      without end.
  * `ShortLen` is the code's 8-character short-name limit. `drive_paths`
    keeps it at 8, so every component is short and matched whole.
    `drive_longname` sets it to 2, so "aa" is a long component that names
    the host directory "aab" by prefix. The tree is /r/aab with a file b,
    and the guest paths are "\aa\b", "aa\b", "\aa" and "aa". That is the
    smallest case in which a prefix match is followed by more of the path.
  * `MAX_PATH` bounds `fs_currpath`; the code itself copies into it unchecked.
  * `VIEW` drops `D0` and `lastCall`, which are outputs only.
* **NVRAM:** the guest writes the monitor cell, a checksum cell, index 10
  (the UIP toggle) and 64 (out of range), with the values 0 and 32; a torn
  save leaves 1 byte; two monitor types. That covers a stored change, a
  change lost by a kill or a torn save, and a reconfiguration that a loaded
  image ignores. 36,004 states.
* **HDC:** target 0 has a two-sector image, target 1 a file of 700 bytes
  that `HDC_Init` refuses. Fifteen packets: every handler, a read and a
  write that straddle the end of the image, a seek past it, REQUEST SENSE
  short and extended, commands on LUN 1, INQUIRY shorter than its header,
  an unsupported opcode below and one above 0x60, ICD class 1 packets, a
  disabled target and an abandoned prefix. One DMA address (512) with
  ST-RAM ending at 1536, so two-sector transfers fit and the three-sector
  read fails on DMA. Both machine types. The `VIEW` merges states that
  differ only in what no later step reads (command bytes past
  `byteCount`, the DMA address and packet between packets, the FDC
  outputs); 2.46 million states.

* **CPU glue:**
  * CPU levels 0 and 3, each compatible or not. Every dialog change is
    then a real change of model.
  * Guest masks 0, 2 and 4: the two boundaries of `intlev`'s tests
    (`< 2`, `< 4`) and one value below both.
  * One GEMDOS drive.
  * Debugger: at most one breakpoint; `cont` without a count, with 1
    (the boundary of `nCpuSteps == 0`) and with 2 (a count that must
    survive one decrement).
  * 453,026 states. They include a VBL over an HBL handler, a VBL held at
    mask 4, a model change before `Init680x0`, during `init` and while
    running, and resets and guest reboots at any point.

Fairness:
* The file, search, drive, HDC and NVRAM models assume none. The emulator
  serves one call or register access at a time, on the guest's initiative,
  and no property there says one must eventually happen. The refinement
  `PersistsAcrossSessions` is a safety property.
* `CpuSystem`, the composition that `cpu_glue` checks, assumes strong
  fairness of `DebuggedCpuStep`: an instruction-type step while the
  thread is not in `DebugUI()`.
  * Entering the debugger disables the step, so weak fairness would let a
    user who breaks in, continues and breaks in again starve the CPU.
  * That cannot happen in the code. Returning from `DebugUI()` puts the
    thread back in the run loop, and the break request is polled from the
    emulation's own event handling, after instructions have run.
  * The user is never assumed to leave the debugger.
  * `StepsReturn` needs this fairness. While steps are left, every
    instruction counts one down, so the debugger comes back after at most
    `nCpuSteps` more instructions, unless `Exit680x0` ends the emulation.
* `CpuGlue` on its own assumes weak fairness of `CpuStep`: an instruction with its
  interrupt check, TOS's reset step or SysInit.
  * `m68k_go` loops until the emulator quits, so a running CPU is never
    denied its next instruction.
  * Nothing else is fair: the video chip, the user's dialog changes,
    resets and reboots.
* `VBLServed` is conditional on the guest: *if* it lowers the mask below
  4 infinitely often while the CPU runs, a pending VBL is taken (or
  cleared by a reset). A program may keep IPL 7 forever, so the condition
  cannot be dropped.
* No such property is claimed for HBL. `intlev` hands VBL out first, and
  a video chip that raised VBL before every RTE could starve HBL. On a
  real ST the frame rate rules that out, but the code does not.

Mutants (in `PROJECT.json`) show that every property of a passing run fails
under a plausible change to the code, for example:

* a dropped mask on `DTAIndex`;
* a filter that does not advance;
* match() accepting dot files;
* a relative path built on the root;
* Dsetpath without the trailing '/';
* NVRAM: a select register without its bound, a short file loaded;
* CPU glue: `intlev` clearing VBL at mask 4 or testing HBL first, and
  `check_prefs_changed_cpu` without `set_special` or with its two
  arguments swapped;
* debugger: `DebugCpu_SetDebugging` setting the flag for steps only, and
  `DebugCpu_Check` testing the step count before it decrements it;
* HDC: A1 low not restarting the block, a failing seek not setting
  INVADDR, `fread` not clamped at the end of the image, the INQUIRY length
  without its byte wrap.

## 5. Findings

* `files_leak`: the restore in `GemDOS_MemorySnapShot_Capture` leaks host
  streams.
* `debug_step`: `DebugCpu_Check` miscounts `cont N` after a breakpoint.
  * A matching breakpoint calls `DebugUI()` from inside `DebugCpu_Check`.
  * `cont N` sets `nCpuSteps = N` and returns there.
  * The step part of the same call then runs and decrements the count for
    the instruction that hit the breakpoint.
  * The CPU stops after N-1 new instructions. `cont 1` re-enters the
    debugger at once, without executing anything, so a user cannot step
    off a breakpoint with `cont 1`.
  * The trace has 8 states: start the CPU, break in, set a breakpoint,
    `cont`, the breakpoint matches, `cont 1`.
* `search_restore`: the save state keeps `DTAIndex` but not `InternalDTAs`.
  The DTA in guest memory, brought back by the restore, still names its
  slot. That slot now holds the cursor the table has after the restore, so
  Fsnext reports "no more files" or skips entries. The spec lists what a
  save state persists without the cursors, and says nothing of a search
  continued across a restore.
* `drive_longname`: in `GemDOS_CreateHardDriveFileName` (line 718),
  `strcpy(pszDestName, dest)` replaces the path after a long component
  matched a longer host name by prefix. The pointer `s` keeps its old
  offset, which now points inside the host name. The next `'/'` is written
  there and the rest of the path is cut wrongly. "\aa\b" with the host
  directory "aab" translates to a path that is not /r/aab/b. The spec
  (section 4.1) says a prefix match names the host object.
* `drive_escape`: ".." is passed through to the host, so a guest can leave
  the drive root. The spec (section 3) forbids this.

Found while modelling, without a run of their own (the hazards in
`PROJECT.json` say how TLC shows each one):

* On an LP64 host the `(long)` cast of the Fseek offset does not
  sign-extend. A negative offset moves the stream 4 GiB on, while D0 reports
  the intended position (the conversion with `LongIsWide = TRUE`).
* A failed Fsfirst marks a slot its DTA names, and the next search fills
  that slot. Fsnext on the failed DTA then advances another DTA's search
  (`SearchIsolation` with `FsnextOn = "any"`).

* `bInitGemDOS` is cleared only by `GemDOS_Reset`.
  * When the guest reboots itself, TOS reinstalls its own trap #1 vector.
  * `OpCode_SysInit` then writes the drive mask but skips `GemDOS_Boot`.
  * The drive is announced, but its GEMDOS calls go to TOS.
  * The comment on `bInitGemDOS` says the flag records that the vector
    is redirected; after such a reboot it is not.
  * A behaviour of 9 states under the constants of `cpu_glue.cfg` reaches it.
* Dfree and Dgetpath own any drive from D: up. With an ACSI partition on
  C:, Dfree of C: is answered by the emulator.
* Fsnext on a deleted entry leaves D0 unset.
* Dsetpath accepts a file.
* Fopen "wb" truncates.
* `GemDOS_Create` never sets `szActualName`, so Fdatime on a created file
  stats a stale name.
* `match()` does not consume trailing wildcards: "A*" does not find A.
* `GemDOS_Reset` keeps `fs_currpath`, so after a reset relative paths start
  in the directory the last session entered. The spec (section 6) says
  `reset()` restores drive defaults. The model keeps the code's behaviour,
  and no property states where a relative path starts after a reset.
* Found by reading the code, not checked by a run: Fdatime and Fsfirst
  report one file's time stamp in two different encodings.
  * `PopulateDTA` uses `GemDOS_Date2dos` and `GemDOS_Time2dos`: month
    `tm_mon + 1`, seconds halved.
  * `GemDOS_GetFileInformation` (lines 233-237) packs `tm_mon` without the
    `+ 1` and `tm_sec` unhalved.
  * So Fdatime reports the month before (January as month 0), and the
    seconds masked to 5 bits instead of counted in 2-second units.
  * A unit test of the two conversions shows this directly.
* A WRITE SECTOR straddling the end of the image grows it past the capacity
  READ CAPACITY reports.
* After a command on a non-existing LUN, REQUEST SENSE reports INVLUN with
  the block address of an earlier command.

## 6. Not modelled

* stdio buffering: `fwrite` data stays in the `FILE` buffer until a seek or
  close, so a second handle on the same file can see an older length. The
  model makes writes visible at once.
* The `act_pd` fix-up of `GemDOS_Boot` and the SR bit encoding of
  `GemDOS_OpCode`'s result: they write guest memory and registers only.
* `OpCode_VDI` and the Line-A/VDI part of `OpCode_SysInit`: they hand over
  to `vdi.c`, which is not in these sources. The PC and prefetch updates of
  every hook are not modelled either.
* The UAE core itself: its instruction semantics, `SPCFLAG_INT`, STOP.
  `CpuGlue` models only the loop behaviour the glue depends on.
* The `fs_currpath` overflow past `MAX_PATH`, and the uninitialised buffer
  after an empty path: the model bounds the one and never produces the
  other, since their outcome depends on memory the model does not have.
* Printer and aux calls: pure I/O.
* In `debug/debugcpu.c`: the display and data commands (disasm, memdump,
  memwrite, registers, loadbin, savebin, symbols) and their address
  cursors. They print, or read and write guest memory. Also
  `DebugCpu_MemorySnapShot_Capture`, which restores `nCpuActiveCBs` but
  not `SPCFLAG_DEBUGGER`: save states are not modelled around the CPU.
* `ioMemTabFalcon.c`: a constant table of register handlers.
* In `HdcAcsi`: the partition table that `HDC_GetInfo` reads (a configured
  count), the guest RAM that DMA fills, and the log text of
  `HDC_CmdInfoStr`. A second `HDC_Init` without `HDC_UnInit` is excluded:
  its callers are outside these sources.
