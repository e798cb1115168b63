---------------------------- MODULE MC_GemdosSearch ---------------------------
(* GemdosSearch for TLC: two table slots, two DTAs, two processes, two     *)
(* names; masks for "all names" and for the second name only.             *)
EXTENDS GemdosSearch

CONSTANTS d1, d2, p1, p2

MCDTAs == {d1, d2}
MCProcs == {p1, p2}
MCOneProc == {p1}
MCNames == {1, 2}
MCMasks == {{1, 2}, {2}}

\* D0, lastCall, pDTA and the names written into the DTAs are outputs
\* that no action reads; the ghost part of a save state is read only when
\* programs continue their searches after a restore
GuestView(g) == [e \in DTAs |-> <<g[e].magic, g[e].index>>]
SavedView ==
  <<GuestView(saved.dta), saved.dtaOf, saved.cur, saved.DTAIndex,
    IF ContinueAfterRestore THEN <<saved.expect, saved.later>> ELSE <<>>>>
StateView == <<InternalDTAs, DTAIndex, GuestView(dta), dtaOf, cur, hostDir,
               expect, later, SavedView>>
=============================================================================
