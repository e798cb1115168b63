\* Interrupts, CPU model changes, emulator resets and guest reboots, with a
\* GEMDOS drive configured and the CPU debugger in the run loop; the run
\* loop is strongly fair while the debugger is not active.
CONSTANTS
    GEMDOS_EMU_ON = TRUE
    CpuLevels <- MCCpuLevels
    GuestMasks <- MCGuestMasks
    ConnectedDriveMask = ConnectedDriveMask
    MaxBreakpoints = 1
    ContArgs <- MCContArgs
SPECIFICATION Spec
\* Exit680x0 ends the emulation: nothing runs after it.
CHECK_DEADLOCK FALSE
INVARIANT TypeOK
INVARIANT BreakpointsArmed
PROPERTY NoLostInterrupt
PROPERTY VBLServed
PROPERTY DecodedForCurrentModel
PROPERTY StepsReturn
