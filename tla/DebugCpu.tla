------------------------------- MODULE DebugCpu -------------------------------
(***************************************************************************)
(* The CPU side of the debugger, debug/debugcpu.c: conditional and address *)
(* breakpoints (counted in nCpuActiveCBs), single-stepping (nCpuSteps) and *)
(* SPCFLAG_DEBUGGER, which makes the CPU core call DebugCpu_Check after    *)
(* every instruction.  DebugCpu_Check calls DebugUI() when a breakpoint    *)
(* matches or the step count runs out; DebugUI() runs the command loop     *)
(* synchronously and, before it returns, calls DebugCpu_SetDebugging.      *)
(* DebugCpu_Check then carries on where it called DebugUI.                 *)
(*                                                                         *)
(* The breakpoint lists (breakcond.c) and DebugUI (debugui.c) are not in   *)
(* these sources: the lists are their size bpCount, and which breakpoint   *)
(* matches an instruction is a free choice.  The display commands          *)
(* (disasm, memdump, registers, loadbin, savebin, symbols) and their       *)
(* address cursors are left out: they change guest data, not the control  *)
(* state.                                                                  *)
(***************************************************************************)
EXTENDS Integers

CONSTANTS
    MaxBreakpoints,     \* breakpoints the user sets at most
    ContArgs            \* values atoi() gives for the argument of "cont"

VARIABLES
    nCpuActiveCBs,      \* static int nCpuActiveCBs
    nCpuSteps,          \* static int nCpuSteps
    spcDebugger,        \* SPCFLAG_DEBUGGER in regs.spcflags
    bpCount,            \* breakpoints in breakcond.c's lists
    debugger,           \* DebugUI() is running: the emulation is paused
    resume,             \* where DebugCpu_Check called DebugUI from
    budget,             \* ghost: N of the last "cont N" (0: run freely)
    executed            \* ghost: instructions executed since then

dbgVars == <<nCpuActiveCBs, nCpuSteps, spcDebugger, bpCount, debugger,
             resume, budget, executed>>

MaxSteps == CHOOSE n \in ContArgs : \A k \in ContArgs : k <= n

\* BreakCond_BreakPointCount(false), in breakcond.c.
BreakCond_BreakPointCount == bpCount

\* DebugUI() entered from where.
Enter(from) == debugger' = TRUE /\ resume' = from

\* Back to the emulation.
Leave == debugger' = FALSE /\ resume' = "none"

\* Mutant: only single-stepping asks the core to call DebugCpu_Check.
DebugCpu_SetDebugging_StepsOnly(cbs, steps) == spcDebugger' = (steps # 0)

\* DebugCpu_SetDebugging: ask the core for DebugCpu_Check after every
\* instruction while breakpoints or steps are active.
DebugCpu_SetDebugging(cbs, steps) == spcDebugger' = (cbs # 0 \/ steps # 0)

\* Mutant: the count is tested before it is decremented.
DebugCpu_CheckSteps_TestFirst(n) ==
    IF n # 0
    THEN /\ nCpuSteps' = n - 1
         /\ IF n = 0 THEN Enter("step") ELSE Leave
    ELSE /\ nCpuSteps' = n
         /\ Leave

\* The single-step part of DebugCpu_Check, with nCpuSteps = n.
DebugCpu_CheckSteps(n) ==
    IF n # 0
    THEN /\ nCpuSteps' = n - 1
         /\ IF n - 1 = 0 THEN Enter("step") ELSE Leave
    ELSE /\ nCpuSteps' = n
         /\ Leave

\* DebugCpu_Check, after an instruction: a matching breakpoint enters the
\* debugger, the rest of the check waiting for DebugUI to return;
\* otherwise the step count goes down.
DebugCpu_Check ==
    \E match \in BOOLEAN :
        /\ match => bpCount > 0
        /\ IF nCpuActiveCBs # 0 /\ match
           THEN Enter("bp") /\ UNCHANGED nCpuSteps
           ELSE DebugCpu_CheckSteps(nCpuSteps)

\* What follows an instruction: DebugCpu_Check if SPCFLAG_DEBUGGER is set.
AfterInstruction ==
    /\ ~debugger
    /\ executed' = IF budget > 0 /\ executed <= MaxSteps THEN executed + 1
                   ELSE executed
    /\ IF spcDebugger
       THEN DebugCpu_Check
       ELSE UNCHANGED <<nCpuSteps, debugger, resume>>
    /\ UNCHANGED <<nCpuActiveCBs, spcDebugger, bpCount, budget>>

\* The user breaks into the debugger between two instructions (debugui.c).
UserBreak ==
    /\ ~debugger
    /\ Enter("none")
    /\ UNCHANGED <<nCpuActiveCBs, nCpuSteps, spcDebugger, bpCount, budget,
                   executed>>

\* DebugCpu_BreakAddr and DebugCpu_BreakCond: BreakAddr_Command or
\* BreakCond_Command adds or removes a breakpoint, then nCpuActiveCBs is
\* recounted.
DebugCpu_Break(delta) ==
    /\ debugger
    /\ bpCount + delta \in 0 .. MaxBreakpoints
    /\ bpCount' = bpCount + delta
    /\ nCpuActiveCBs' = bpCount'
    /\ UNCHANGED <<nCpuSteps, spcDebugger, debugger, resume, budget, executed>>

\* DebugCpu_Continue with atoi(argument) = arg: nCpuSteps = arg, or 0 for
\* arg <= 0; DEBUGGER_END makes DebugUI call DebugCpu_SetDebugging and
\* return.  DebugCpu_Check then goes on after the DebugUI call it made:
\* from a breakpoint, into the single-step part.
DebugCpu_Continue(arg) ==
    LET steps == IF arg <= 0 THEN 0 ELSE arg
    IN  /\ debugger
        /\ DebugCpu_SetDebugging(nCpuActiveCBs, steps)
        /\ budget' = steps
        /\ executed' = 0
        /\ IF resume = "bp"
           THEN DebugCpu_CheckSteps(steps)
           ELSE nCpuSteps' = steps /\ Leave
        /\ UNCHANGED <<nCpuActiveCBs, bpCount>>

\* The debugger's own steps.
DebugStep ==
    \/ UserBreak
    \/ \E d \in {-1, 1} : DebugCpu_Break(d)
    \/ \E a \in ContArgs : DebugCpu_Continue(a)

\* The static initialisers: no breakpoints, no steps, flag clear.
DebugInit ==
    /\ nCpuActiveCBs = 0
    /\ nCpuSteps = 0
    /\ spcDebugger = FALSE
    /\ bpCount = 0
    /\ debugger = FALSE
    /\ resume = "none"
    /\ budget = 0
    /\ executed = 0

DebugTypeOK ==
    /\ nCpuActiveCBs \in 0 .. MaxBreakpoints
    /\ nCpuSteps \in 0 .. MaxSteps
    /\ spcDebugger \in BOOLEAN
    /\ bpCount \in 0 .. MaxBreakpoints
    /\ debugger \in BOOLEAN
    /\ resume \in {"none", "bp", "step"}
    /\ budget \in 0 .. MaxSteps
    /\ executed \in 0 .. MaxSteps + 1

\* While the emulation runs, every breakpoint the user has set is counted
\* in nCpuActiveCBs and SPCFLAG_DEBUGGER is set, so DebugCpu_Check tests it
\* after every instruction.
BreakpointsArmed ==
    ~debugger /\ bpCount > 0 => spcDebugger /\ nCpuActiveCBs = bpCount

\* "cont N" returns to the debugger after exactly N instructions: while
\* they run, the instructions executed and the steps left add up to N, and
\* when the step count stops the CPU, N instructions have run.
StepsCounted ==
    budget > 0 /\ (~debugger \/ resume = "step") =>
        executed + nCpuSteps = budget

\* Steps left to run while the emulation runs: DebugCpu_Check, which
\* SPCFLAG_DEBUGGER makes the core call after each of them, eventually
\* counts nCpuSteps down to 0 and calls DebugUI().
StepsReturn == (~debugger /\ nCpuSteps > 0) ~> debugger
=============================================================================
