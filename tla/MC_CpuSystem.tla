----------------------------- MODULE MC_CpuSystem -----------------------------
(* CpuSystem for TLC: a 68000 and a 68030 (cpu_level 3), compatible or  *)
(* not; the guest writes masks 0 (all interrupts), 2 (HBL held) and 4    *)
(* (VBL held), the boundaries of intlev's two tests.  One breakpoint is  *)
(* enough to stop the CPU; "cont" is given no count, 1 (the boundary of  *)
(* the step test) or 2 (a count that must survive one decrement).        *)
EXTENDS CpuSystem

MCCpuLevels == {0, 3}
MCGuestMasks == {0, 2, 4}
MCContArgs == {0, 1, 2}
=============================================================================
