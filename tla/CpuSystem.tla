------------------------------ MODULE CpuSystem ------------------------------
(***************************************************************************)
(* The CPU glue (CpuGlue) and the CPU debugger (DebugCpu) on the one      *)
(* emulation thread.  Every instruction the core executes, the cartridge  *)
(* opcodes and trap #1 included, is followed by DebugCpu_Check when        *)
(* SPCFLAG_DEBUGGER is set; while DebugUI() runs, the thread is inside     *)
(* that call, so no instruction, interrupt, reset or option change         *)
(* happens until the user leaves the debugger.                             *)
(***************************************************************************)
EXTENDS Integers

CONSTANTS GEMDOS_EMU_ON, CpuLevels, GuestMasks, ConnectedDriveMask,
          MaxBreakpoints, ContArgs

VARIABLES pendingInterrupts, intmask, frames, taken, cpu_level, cpu_compatible,
          table68k, functbl, spcflags, runLoop, cpu, tos, vec84, oldGemdos,
          drvbits, bInitGemDOS, lastCall,
          nCpuActiveCBs, nCpuSteps, spcDebugger, bpCount, debugger, resume,
          budget, executed

G == INSTANCE CpuGlue
D == INSTANCE DebugCpu

glueVars == <<pendingInterrupts, intmask, frames, taken, cpu_level,
              cpu_compatible, table68k, functbl, spcflags, runLoop, cpu, tos,
              vec84, oldGemdos, drvbits, bInitGemDOS, lastCall>>
dbgVars == <<nCpuActiveCBs, nCpuSteps, spcDebugger, bpCount, debugger, resume,
             budget, executed>>
vars == <<glueVars, dbgVars>>

\* The emulation thread is in the run loop, not in DebugUI().
Emulating == ~debugger

\* An instruction, its interrupt check, then DebugCpu_Check.
DebuggedCpuStep == Emulating /\ G!CpuStep /\ D!AfterInstruction

\* A trap #1 is an instruction too.
DebuggedTrap == Emulating /\ G!GemdosTrap /\ D!AfterInstruction

\* What happens outside instructions, all of it while the thread runs the
\* emulation.
GlueEvent ==
    /\ Emulating
    /\ \/ \E l \in G!Levels : G!RaiseInterrupt(l)
       \/ G!Init680x0
       \/ G!Start680x0
       \/ G!Exit680x0
       \/ \E lv \in CpuLevels, c \in BOOLEAN : G!check_prefs_changed_cpu(lv, c)
       \/ G!ResetWarm
       \/ G!GuestReboot
    /\ UNCHANGED dbgVars

\* The user in the debugger, or breaking into it, while the CPU runs.
DebuggerEvent == cpu = "running" /\ D!DebugStep /\ UNCHANGED glueVars

Init == G!Init /\ D!DebugInit

Next == DebuggedCpuStep \/ DebuggedTrap \/ GlueEvent \/ DebuggerEvent

\* The run loop keeps executing while the thread is not in DebugUI(); the
\* user is never assumed to leave the debugger.  The fairness is strong:
\* returning from DebugUI() puts the thread back in the run loop, which
\* executes instructions before the next break request can be polled, so
\* breaking in again and again never keeps the CPU from running.
Spec == Init /\ [][Next]_vars /\ SF_vars(DebuggedCpuStep)

-----------------------------------------------------------------------------
(* Properties: those of CpuGlue and DebugCpu, over the composed system.   *)

TypeOK == G!TypeOK /\ D!DebugTypeOK

\* intlev() never loses an interrupt (CpuGlue).
NoLostInterrupt == G!NoLostInterrupt

\* A pending VBL is served (or cleared by a reset) as long as the emulation
\* keeps running with the mask below 4; time spent in the debugger does not
\* count, as no instruction runs there.
VBLServed ==
    []<>(cpu = "running" /\ Emulating /\ intmask < G!VBL) =>
        (G!VBL \in pendingInterrupts ~> taken \in {"VBL", "reset"})

\* Every instruction runs on the decode table and run function of the
\* current CPU model (CpuGlue).
DecodedForCurrentModel == G!DecodedForCurrentModel

\* Every breakpoint is checked while the emulation runs (DebugCpu).
BreakpointsArmed == D!BreakpointsArmed

\* "cont N" gives back control after exactly N instructions (DebugCpu).
StepsCounted == D!StepsCounted

\* "cont N" with N > 0 gives control back: while steps are left and the
\* emulation runs, DebugCpu_Check eventually calls DebugUI() again, unless
\* the emulation is ended first (DebugCpu).
StepsReturn ==
    (Emulating /\ cpu = "running" /\ nCpuSteps > 0) ~>
        (debugger \/ cpu = "exited")

=============================================================================
