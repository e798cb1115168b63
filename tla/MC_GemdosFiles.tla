---------------------------- MODULE MC_GemdosFiles ----------------------------
(* Instantiates GemdosFiles for TLC: two table slots, two host files of    *)
(* which one is read-only, files of up to two bytes, guest longs of three  *)
(* bits (so 7 and 6 stand for -1 and -2, and LONG_MAX is 3 on ILP32).    *)
EXTENDS GemdosFiles

CONSTANTS f1, f2

MCFiles == {f1, f2}
MCReadOnlyFiles == {f2}

\* D0 and dateBuf are outputs no action reads: states that differ only in
\* them have the same futures, so TLC fingerprints the rest.
StateView == <<bUsed, FileHandle, szActualName, hostSize, hostOpen,
               guestHandles, savedHandles>>
=============================================================================
