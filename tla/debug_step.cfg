\* A breakpoint stops the CPU and the user continues with "cont N":
\* DebugCpu_Check goes on into its single-step part, which counts the
\* instruction that stopped at the breakpoint against the N new steps.
CONSTANTS
    GEMDOS_EMU_ON = TRUE
    CpuLevels <- MCCpuLevels
    GuestMasks <- MCGuestMasks
    ConnectedDriveMask = ConnectedDriveMask
    MaxBreakpoints = 1
    ContArgs <- MCContArgs
SPECIFICATION Spec
CHECK_DEADLOCK FALSE
INVARIANT StepsCounted
