------------------------------- MODULE CpuGlue -------------------------------
(***************************************************************************)
(* uae-cpu/hatari-glue.c: the glue between the UAE 680x0 core and the rest *)
(* of Hatari, with the GEMDOS boot hook of gemdos.c it calls.              *)
(*                                                                         *)
(*  - the autovector interrupts the ST raises (VBL = level 4, HBL = level  *)
(*    2) kept in pendingInterrupts, handed to the core by intlev() and     *)
(*    cleared by customreset() (the RESET instruction);                    *)
(*  - the CPU model (cpu_level, cpu_compatible) and its decode table:      *)
(*    Init680x0, Start680x0, Exit680x0 and check_prefs_changed_cpu;        *)
(*  - the cartridge's illegal opcodes: OpCode_SysInit, called by TOS at    *)
(*    every boot, installs the GEMDOS handler once (GemDOS_Boot, guarded   *)
(*    by bInitGemDOS, which GemDOS_Reset clears); OpCode_GemDos and        *)
(*    OpCode_OldGemDos take a trap #1 into gemdos.c or on to TOS.          *)
(*                                                                         *)
(* The core's run loop (newcpu.c) and TOS are not part of these sources;   *)
(* they are the environment: between two instructions the loop services    *)
(* SPCFLAG_MODE_CHANGE by restarting with the run function that matches    *)
(* cpu_compatible, and otherwise executes an instruction and then asks     *)
(* intlev() for an interrupt, which it takes when its level is above the   *)
(* SR mask (pushing the old mask, raising the mask to the level).  TOS, at *)
(* every start, executes RESET, sets $2700, installs its own trap vectors  *)
(* and drvbits ($4c2), and then runs the cartridge's init (SysInit).       *)
(***************************************************************************)
EXTENDS Integers, SequencesExt

CONSTANTS
    GEMDOS_EMU_ON,      \* a GEMDOS drive is configured (emudrives != NULL)
    CpuLevels,          \* values of ConfigureParams.System.nCpuLevel
    GuestMasks,         \* interrupt masks the guest writes to SR
    ConnectedDriveMask  \* the drive mask written to $4c2 (a model value)

ASSUME 0 \in CpuLevels    \* cpu_level starts at 0 (68000)

VARIABLES
    pendingInterrupts,  \* the bits of pendingInterrupts, as levels
    intmask,            \* regs.intmask
    frames,             \* masks saved by the interrupt frames on the stack
    taken,              \* ghost: what the last step did with an interrupt
    cpu_level, cpu_compatible,
    table68k,           \* table68k != NULL
    functbl,            \* the prefs cpufunctbl was last built for
    spcflags,           \* SPCFLAG_MODE_CHANGE set or not
    runLoop,            \* cpu_compatible of the run function m68k_go chose
    cpu,                \* "off", "init", "running", "exited"
    tos,                \* TOS start-up: "off", "booting", "init", "running"
    vec84,              \* the GEMDOS trap vector at $84
    oldGemdos,          \* CART_OLDGEMDOS
    drvbits,            \* the long at $4c2
    bInitGemDOS,
    lastCall            \* ghost: who answered the last trap #1

vars == <<pendingInterrupts, intmask, frames, taken, cpu_level, cpu_compatible,
          table68k, functbl, spcflags, runLoop, cpu, tos, vec84, oldGemdos,
          drvbits, bInitGemDOS, lastCall>>

VBL == 4
HBL == 2
Levels == {VBL, HBL}
LevelName == [l \in Levels |-> IF l = VBL THEN "VBL" ELSE "HBL"]
Prefs == [level : CpuLevels, compatible : BOOLEAN]
CurrentPrefs == [level |-> cpu_level, compatible |-> cpu_compatible]
NoTable == [level |-> -1, compatible |-> FALSE]   \* no cpufunctbl built yet
Vectors == {"tos", "cart"}      \* TOS's GEMDOS, CART_GEMDOS

-----------------------------------------------------------------------------
(* Interrupts.                                                            *)

\* Mutant: HBL is looked at before VBL.
intlev_HblFirst(pend, mask) ==
    CASE HBL \in pend -> [lev |-> HBL,
                          pending |-> IF mask < 2 THEN pend \ {HBL} ELSE pend]
      [] VBL \in pend -> [lev |-> VBL,
                          pending |-> IF mask < 4 THEN pend \ {VBL} ELSE pend]
      [] OTHER        -> [lev |-> -1, pending |-> pend]

\* Mutant: the VBL bit is cleared at mask 4 too.
intlev_VblAtMask4(pend, mask) ==
    CASE VBL \in pend -> [lev |-> VBL,
                          pending |-> IF mask <= 4 THEN pend \ {VBL} ELSE pend]
      [] HBL \in pend -> [lev |-> HBL,
                          pending |-> IF mask < 2 THEN pend \ {HBL} ELSE pend]
      [] OTHER        -> [lev |-> -1, pending |-> pend]

\* intlev(): the level it returns and pendingInterrupts after it.  VBL wins;
\* a bit is cleared only when the mask lets the CPU take it, so a masked
\* interrupt stays pending.
intlev(pend, mask) ==
    CASE VBL \in pend -> [lev |-> VBL,
                          pending |-> IF mask < 4 THEN pend \ {VBL} ELSE pend]
      [] HBL \in pend -> [lev |-> HBL,
                          pending |-> IF mask < 2 THEN pend \ {HBL} ELSE pend]
      [] OTHER        -> [lev |-> -1, pending |-> pend]

\* customreset(), run by the RESET instruction.
customreset == pendingInterrupts' = {}

\* The video hardware raises VBL or HBL (int.c, not in these sources).
RaiseInterrupt(l) ==
    /\ cpu = "running"
    /\ pendingInterrupts' = pendingInterrupts \cup {l}
    /\ taken' = "none"
    /\ UNCHANGED <<intmask, frames, cpu_level, cpu_compatible, table68k,
                   functbl, spcflags, runLoop, cpu, tos, vec84, oldGemdos,
                   drvbits, bInitGemDOS, lastCall>>

\* Before an instruction, the run loop services SPCFLAG_MODE_CHANGE:
\* m68k_go restarts with the run function for cpu_compatible.
ServiceModeChange ==
    /\ runLoop' = IF spcflags # {} THEN cpu_compatible ELSE runLoop
    /\ spcflags' = {}

\* One instruction of the guest, then the interrupt check of the run loop.
\* The instruction is a move to SR writing mask m (outside handlers), an RTE
\* ending a handler, which restores the mask its frame saved, or any other.
CpuInstruction(op, m) ==
    /\ cpu = "running"
    /\ ServiceModeChange
    /\ op = "rte" => frames # <<>>
    /\ op = "move_sr" => frames = <<>>
    /\ LET f    == IF op = "rte" THEN Front(frames) ELSE frames
           mask == CASE op = "rte"     -> Last(frames)
                     [] op = "move_sr" -> m
                     [] OTHER          -> intmask
           r    == intlev(pendingInterrupts, mask)
           take == r.lev # -1 /\ r.lev > mask
       IN /\ pendingInterrupts' = r.pending
          /\ frames' = IF take THEN Append(f, mask) ELSE f
          /\ intmask' = IF take THEN r.lev ELSE mask
          /\ taken' = IF take THEN LevelName[r.lev] ELSE "none"
    /\ UNCHANGED <<cpu_level, cpu_compatible, table68k, functbl, cpu, tos,
                   vec84, oldGemdos, drvbits, bInitGemDOS, lastCall>>

-----------------------------------------------------------------------------
(* The CPU model.                                                         *)

\* Init680x0: init_m68k() allocates table68k and builds cpufunctbl for the
\* current prefs.
Init680x0 ==
    /\ cpu = "off"
    /\ cpu' = "init"
    /\ table68k' = TRUE
    /\ functbl' = CurrentPrefs
    /\ taken' = "none"
    /\ UNCHANGED <<pendingInterrupts, intmask, frames, cpu_level,
                   cpu_compatible, spcflags, runLoop, tos, vec84, oldGemdos,
                   drvbits, bInitGemDOS, lastCall>>

\* Start680x0: m68k_reset() (SR $2700, TOS entered at its reset vector),
\* then m68k_go() with the run function for cpu_compatible.
Start680x0 ==
    /\ cpu = "init"
    /\ cpu' = "running"
    /\ intmask' = 7
    /\ frames' = <<>>
    /\ runLoop' = cpu_compatible
    /\ spcflags' = {}
    /\ tos' = "booting"
    /\ taken' = "none"
    /\ UNCHANGED <<pendingInterrupts, cpu_level, cpu_compatible, table68k,
                   functbl, vec84, oldGemdos, drvbits, bInitGemDOS, lastCall>>

\* Exit680x0, once m68k_go has returned on quit: free(table68k).
Exit680x0 ==
    /\ cpu = "running"
    /\ cpu' = "exited"
    /\ table68k' = FALSE
    /\ taken' = "none"
    /\ UNCHANGED <<pendingInterrupts, intmask, frames, cpu_level,
                   cpu_compatible, functbl, spcflags, runLoop, tos, vec84,
                   oldGemdos, drvbits, bInitGemDOS, lastCall>>

\* Mutant: the two arguments are assigned to each other's variable.
check_prefs_changed_cpu_Swapped(new_level, new_compatible) ==
    /\ cpu # "exited"
    /\ IF cpu_level # new_level \/ cpu_compatible # new_compatible
       THEN /\ cpu_level' = IF new_compatible THEN 1 ELSE 0
            /\ cpu_compatible' = (new_level # 0)
            /\ spcflags' = {"MODE_CHANGE"}
            /\ functbl' = IF table68k
                          THEN [level |-> new_level, compatible |-> new_compatible]
                          ELSE functbl
       ELSE UNCHANGED <<cpu_level, cpu_compatible, spcflags, functbl>>
    /\ taken' = "none"
    /\ UNCHANGED <<pendingInterrupts, intmask, frames, table68k, runLoop, cpu,
                   tos, vec84, oldGemdos, drvbits, bInitGemDOS, lastCall>>

\* Mutant: the mode change is not signalled to the run loop.
check_prefs_changed_cpu_NoModeChange(new_level, new_compatible) ==
    /\ cpu # "exited"
    /\ IF cpu_level # new_level \/ cpu_compatible # new_compatible
       THEN /\ cpu_level' = new_level
            /\ cpu_compatible' = new_compatible
            /\ spcflags' = spcflags
            /\ functbl' = IF table68k
                          THEN [level |-> new_level, compatible |-> new_compatible]
                          ELSE functbl
       ELSE UNCHANGED <<cpu_level, cpu_compatible, spcflags, functbl>>
    /\ taken' = "none"
    /\ UNCHANGED <<pendingInterrupts, intmask, frames, table68k, runLoop, cpu,
                   tos, vec84, oldGemdos, drvbits, bInitGemDOS, lastCall>>

\* check_prefs_changed_cpu, from the options dialog between two
\* instructions or from the configuration before the CPU exists: a new CPU
\* model sets SPCFLAG_MODE_CHANGE and rebuilds cpufunctbl if table68k
\* exists (init_m68k builds it later otherwise).
check_prefs_changed_cpu(new_level, new_compatible) ==
    /\ cpu # "exited"
    /\ IF cpu_level # new_level \/ cpu_compatible # new_compatible
       THEN /\ cpu_level' = new_level
            /\ cpu_compatible' = new_compatible
            /\ spcflags' = {"MODE_CHANGE"}
            /\ functbl' = IF table68k
                          THEN [level |-> new_level, compatible |-> new_compatible]
                          ELSE functbl
       ELSE UNCHANGED <<cpu_level, cpu_compatible, spcflags, functbl>>
    /\ taken' = "none"
    /\ UNCHANGED <<pendingInterrupts, intmask, frames, table68k, runLoop, cpu,
                   tos, vec84, oldGemdos, drvbits, bInitGemDOS, lastCall>>

-----------------------------------------------------------------------------
(* Boot: the GEMDOS vector and the connected drive mask.                  *)

\* The part of GemDOS_Reset (gemdos.c) that concerns the boot hook; its
\* file and search tables are modelled in GemdosFiles and GemdosSearch.
GemDOS_Reset == bInitGemDOS' = FALSE

\* GemDOS_Boot: mark the vector redirected and, with a GEMDOS drive, save
\* TOS's trap #1 vector in CART_OLDGEMDOS and point $84 at CART_GEMDOS.
GemDOS_Boot ==
    /\ bInitGemDOS' = TRUE
    /\ IF GEMDOS_EMU_ON
       THEN /\ oldGemdos' = vec84
            /\ vec84' = "cart"
       ELSE UNCHANGED <<oldGemdos, vec84>>

\* A reset from the emulator (reset.c, not in these sources): GemDOS_Reset,
\* then m68k_reset starts TOS from its reset vector.
ResetWarm ==
    /\ cpu = "running"
    /\ GemDOS_Reset
    /\ intmask' = 7
    /\ frames' = <<>>
    /\ tos' = "booting"
    /\ taken' = "none"
    /\ UNCHANGED <<pendingInterrupts, cpu_level, cpu_compatible, table68k,
                   functbl, spcflags, runLoop, cpu, vec84, oldGemdos, drvbits,
                   lastCall>>

\* A reboot from the guest: a program or TOS's own Control-Alternate-Delete
\* jumps to the TOS start-up code; the emulator is not told.
GuestReboot ==
    /\ cpu = "running"
    /\ tos = "running"
    /\ intmask' = 7
    /\ frames' = <<>>
    /\ tos' = "booting"
    /\ taken' = "none"
    /\ UNCHANGED <<pendingInterrupts, cpu_level, cpu_compatible, table68k,
                   functbl, spcflags, runLoop, cpu, vec84, oldGemdos, drvbits,
                   bInitGemDOS, lastCall>>

\* TOS start-up up to the cartridge init: RESET (customreset), then TOS's
\* own trap vectors and drvbits.
TosReset ==
    /\ cpu = "running"
    /\ ServiceModeChange
    /\ tos = "booting"
    /\ customreset
    /\ vec84' = "tos"
    /\ drvbits' = "tos"
    /\ tos' = "init"
    /\ taken' = "reset"
    /\ UNCHANGED <<intmask, frames, cpu_level, cpu_compatible, table68k,
                   functbl, cpu, oldGemdos, bInitGemDOS, lastCall>>

\* OpCode_SysInit, the cartridge's init opcode: write ConnectedDriveMask to
\* $4c2 and, if the vector is not redirected yet, GemDOS_Boot (the Line-A
\* and VDI set-up that goes with it is not modelled).
OpCode_SysInit ==
    /\ cpu = "running"
    /\ ServiceModeChange
    /\ tos = "init"
    /\ drvbits' = ConnectedDriveMask
    /\ IF ~bInitGemDOS
       THEN GemDOS_Boot
       ELSE UNCHANGED <<bInitGemDOS, oldGemdos, vec84>>
    /\ tos' = "running"
    /\ taken' = "none"
    /\ UNCHANGED <<pendingInterrupts, intmask, frames, cpu_level,
                   cpu_compatible, table68k, functbl, cpu, lastCall>>

\* A trap #1 of the guest.  Through CART_GEMDOS it reaches OpCode_GemDos and
\* so GemDOS_OpCode, which may pass it on (OpCode_OldGemDos jumps to the
\* vector saved in CART_OLDGEMDOS); otherwise TOS's GEMDOS gets it directly.
GemdosTrap ==
    /\ cpu = "running"
    /\ ServiceModeChange
    /\ tos = "running"
    /\ lastCall' = IF vec84 = "cart" THEN "hatari" ELSE "tos"
    /\ taken' = "none"
    /\ UNCHANGED <<pendingInterrupts, intmask, frames, cpu_level,
                   cpu_compatible, table68k, functbl, cpu, tos, vec84,
                   oldGemdos, drvbits, bInitGemDOS>>

-----------------------------------------------------------------------------
(* The specification.                                                     *)

Ops == {"other", "rte", "move_sr"}

\* The static initialisers (cpu_level = 0, cpu_compatible = FALSE,
\* pendingInterrupts = 0) and GemDOS_Init (bInitGemDOS = FALSE).
Init ==
    /\ pendingInterrupts = {}
    /\ intmask = 7
    /\ frames = <<>>
    /\ taken = "none"
    /\ cpu_level = 0
    /\ cpu_compatible = FALSE
    /\ table68k = FALSE
    /\ functbl = NoTable
    /\ spcflags = {}
    /\ runLoop = FALSE
    /\ cpu = "off"
    /\ tos = "off"
    /\ vec84 = "tos"
    /\ oldGemdos = "none"
    /\ drvbits = "tos"
    /\ bInitGemDOS = FALSE
    /\ lastCall = "none"

\* What the emulation thread runs while the CPU is running: instructions
\* with their interrupt checks, TOS start-up and SysInit.
CpuStep ==
    \/ \E op \in Ops, m \in GuestMasks : CpuInstruction(op, m)
    \/ TosReset
    \/ OpCode_SysInit

Next ==
    \/ CpuStep
    \/ \E l \in Levels : RaiseInterrupt(l)
    \/ Init680x0
    \/ Start680x0
    \/ Exit680x0
    \/ \E lv \in CpuLevels, c \in BOOLEAN : check_prefs_changed_cpu(lv, c)
    \/ ResetWarm
    \/ GuestReboot
    \/ GemdosTrap

\* m68k_go loops until the emulator quits, so a running CPU keeps
\* executing; the video chip, the user and the guest's reboots are not
\* assumed to act.
Spec == Init /\ [][Next]_vars /\ WF_vars(CpuStep)

-----------------------------------------------------------------------------
(* Properties.                                                            *)

TypeOK ==
    /\ pendingInterrupts \subseteq Levels
    /\ intmask \in 0 .. 7
    /\ frames \in Seq(0 .. 7)
    /\ taken \in {"none", "reset", "VBL", "HBL"}
    /\ cpu_level \in CpuLevels
    /\ cpu_compatible \in BOOLEAN
    /\ table68k \in BOOLEAN
    /\ functbl \in Prefs \cup {NoTable}
    /\ spcflags \subseteq {"MODE_CHANGE"}
    /\ runLoop \in BOOLEAN
    /\ cpu \in {"off", "init", "running", "exited"}
    /\ tos \in {"off", "booting", "init", "running"}
    /\ vec84 \in Vectors
    /\ oldGemdos \in Vectors \cup {"none"}
    /\ drvbits \in {"tos", ConnectedDriveMask}
    /\ bInitGemDOS \in BOOLEAN
    /\ lastCall \in {"none", "hatari", "tos"}

\* intlev() never loses an interrupt: a pending VBL or HBL bit disappears
\* only in a step where the CPU takes that interrupt, or by customreset.
NoLostInterrupt ==
    [][\A l \in pendingInterrupts :
          l \notin pendingInterrupts' => taken' \in {LevelName[l], "reset"}]_vars

\* A pending VBL is served (or cleared by a reset) as long as the guest
\* keeps lowering the mask below 4 while the CPU runs: intlev() puts VBL
\* before HBL, so a pending HBL the mask holds back never blocks it.
VBLServed ==
    []<>(cpu = "running" /\ intmask < VBL) =>
        (VBL \in pendingInterrupts ~> taken \in {"VBL", "reset"})

\* Every instruction is decoded by a cpufunctbl built for the CPU model now
\* configured and run by the run function for the current cpu_compatible,
\* whenever check_prefs_changed_cpu ran (before Init680x0 or while the CPU
\* runs).
DecodedForCurrentModel ==
    [][(\E op \in Ops, m \in GuestMasks : CpuInstruction(op, m)) =>
          functbl = CurrentPrefs /\ runLoop' = cpu_compatible]_vars

=============================================================================
