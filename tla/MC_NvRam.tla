------------------------------- MODULE MC_NvRam -------------------------------
(* Model values for NvRam.  The cell numbers come from falcon/nvram.h, which *)
(* is not part of these sources; they agree with the cell map at the top of  *)
(* falcon/nvram.c (RTC 0..13, video mode 28-29, checksum 62-63).             *)
EXTENDS NvRam

MCMonitors == {MONITOR_TYPE_VGA, "rgb"}

\* Registers a guest selects: the UIP register, the monitor cell, a checksum
\* cell and an out-of-range value; index 0 (seconds) is selected by resets.
MCIndexIn == {10, NVRAM_MONITOR, NVRAM_CHKSUM1, 64}

StateView == <<nvram, nvram_index, rtc_uip, file, nMonitorType, running>>
=============================================================================
