----------------------------- MODULE GemdosSearch ----------------------------
(***************************************************************************)
(* The directory search of the GEMDOS hard-drive emulation (gemdos.c):    *)
(* the circular table InternalDTAs[] written by Fsfirst and walked by     *)
(* Fsnext, the guest DTAs that hold a slot number and a magic marker, the *)
(* guest processes whose basepage names the current DTA, and the host     *)
(* directory, which the host may change between any two calls.  One       *)
(* directory is searched; a mask stands for the set of names match()      *)
(* accepts (match itself is WildcardMatch), names are ordered as alphasort *)
(* orders them.                                                            *)
(***************************************************************************)
EXTENDS Integers, Sequences, FiniteSets
LOCAL INSTANCE SequencesExt

CONSTANTS
  MAX_DTAS_FILES, \* size of InternalDTAs[], a power of two
  Names,          \* host directory entries, as their alphasort rank
  Masks,          \* the sets of names a search mask matches
  DTAs,           \* guest DTA buffers
  Procs,          \* guest processes
  HostChanges,    \* host programs change the directory between calls
  FsnextOn,       \* which of its DTAs a guest program calls Fsnext on
  ContinueAfterRestore, \* guest programs continue their searches after a restore
  NoSearch,       \* ghost: the DTA holds no search of ours
  Garbage,        \* D0 not written: whatever the guest left there
  Unset,          \* D0 when the handler declined and TOS ran
  NULL,           \* pDTA after GemDOS_Reset
  Volume,         \* dta_name "EMULATED.001" of a volume-label search
  NoName          \* a dta_name we never wrote

ASSUME MAX_DTAS_FILES \in Nat \ {0} /\ Names \subseteq Nat
ASSUME Masks \subseteq SUBSET Names
ASSUME FsnextOn \in {"live", "any"} /\ ContinueAfterRestore \in BOOLEAN

VARIABLES
  InternalDTAs, \* [slot -> [bUsed, centry, found]]; nentries = Len(found)
  DTAIndex,     \* circular index of the next slot Fsfirst fills
  pDTA,         \* the DTA pointer the handlers last refreshed
  dta,          \* guest RAM: each DTA's [magic, index, name]
  dtaOf,        \* guest RAM: the DTA pointer in each process's basepage
  cur,          \* the running process (act_pd)
  hostDir,      \* the names present in the host directory
  D0,           \* Regs[REG_D0] after the last call
  expect,       \* ghost: entries the DTA's search has still to report
  later,        \* ghost: Fsfirst calls on our drive since the DTA's search
  saved,        \* the save state: guest RAM, DTAIndex, pDTA and the ghosts
  lastCall      \* the call the dispatcher ran, and the DTA it used

vars == <<InternalDTAs, DTAIndex, pDTA, dta, dtaOf, cur, hostDir, D0,
          expect, later, saved, lastCall>>

\* GEMDOS result codes (gemdos.h)
GEMDOS_EOK == 0
GEMDOS_EFILNF == -33
GEMDOS_EPTHNF == -34
GEMDOS_ENMFIL == -49

Slots == 0 .. MAX_DTAS_FILES - 1
\* the paths an Fsfirst names: the searched directory, a directory that
\* does not exist on the host, and a path on a drive that is not ours
Paths == {"dir", "missing", "floppy"}
Attrs == {"files", "volume"}     \* GEMDOS_FILE_ATTRIB_VOLUME_LABEL or not

GuestDTA == [magic : BOOLEAN, index : Slots, name : Names \cup {Volume, NoName}]
Slot == [bUsed : BOOLEAN, centry : 0 .. Cardinality(Names), found : Seq(Names)]

\* bound on the ghost counter: a search is evicted by then in any case
LaterBound == MAX_DTAS_FILES

-----------------------------------------------------------------------------
(* Helpers.                                                               *)

\* ClearInternalDTA: free the entries, zero nentries, clear bUsed.  centry
\* is left as it was.
ClearInternalDTA(s) == [s EXCEPT !.found = <<>>, !.bUsed = FALSE]

\* DTAIndex++; DTAIndex &= (MAX_DTAS_FILES-1)
\* mutants: the increment is lost; the mask is dropped
NextDTAIndex_Stays(i) == i
NextDTAIndex_NoMask(i) == i + 1
NextDTAIndex(i) == (i + 1) % MAX_DTAS_FILES

\* the DTA of the running process: STMemory_ReadLong(act_pd)+32
CurrentDTA == dtaOf[cur]

\* the guest's ghost view after Fsfirst on our drive by DTA d: the DTA's
\* search is replaced, every other search is one call older
Aged(d, rest) ==
  /\ expect' = [expect EXCEPT ![d] = rest]
  /\ later' = [e \in DTAs |-> IF e = d THEN 0
                              ELSE IF later[e] < LaterBound THEN later[e] + 1
                              ELSE later[e]]

\* A search is live from its successful Fsfirst until MAX_DTAS_FILES more
\* Fsfirst calls on our drive have been made, by any process and with any
\* outcome; the circular table may evict it only then.
Live(d) == expect[d] # NoSearch /\ later[d] < MAX_DTAS_FILES

\* the guest state a save state holds (STRam) and the globals it stores
Snapshot ==
  [dta |-> dta, dtaOf |-> dtaOf, cur |-> cur, DTAIndex |-> DTAIndex,
   pDTA |-> pDTA, expect |-> expect, later |-> later]

\* PopulateDTA for entry n into DTA d: stat the entry, FALSE when that
\* fails; otherwise copy its name (size, time stamp and attributes are not
\* modelled).  pDTA, refreshed from the basepage, is never NULL here.
PopulateDTA(d, n) ==
  /\ n \in hostDir
  /\ dta' = [dta EXCEPT ![d].name = n]

-----------------------------------------------------------------------------
(* Handlers.                                                              *)

\* GemDOS_SetDTA: record the address and decline; TOS then stores it in the
\* basepage of the running process.
GemDOS_SetDTA(d) ==
  /\ pDTA' = d
  /\ dtaOf' = [dtaOf EXCEPT ![cur] = d]
  /\ D0' = Unset
  /\ UNCHANGED <<InternalDTAs, DTAIndex, dta, cur, hostDir, expect, later, saved>>
  /\ lastCall' = [op |-> "Fsetdta", d |-> d]

\* GemDOS_SNext: refresh pDTA from the basepage; a DTA without our magic is
\* TOS's.  Otherwise report "no more files" at the end of the slot's
\* entries, else stat the next entry (centry advances either way) and copy
\* it to the DTA; when stat fails D0 is not written.
GemDOS_SNext ==
  LET d == CurrentDTA
      Index == dta[d].index % MAX_DTAS_FILES
      s == InternalDTAs[Index]
      n == s.found[s.centry + 1]
  IN /\ pDTA' = d
     /\ \/ /\ ~dta[d].magic
           /\ D0' = Unset
           /\ UNCHANGED <<InternalDTAs, dta>>
        \/ /\ dta[d].magic
           /\ s.centry >= Len(s.found)
           /\ D0' = GEMDOS_ENMFIL
           /\ UNCHANGED <<InternalDTAs, dta>>
        \/ /\ dta[d].magic
           /\ s.centry < Len(s.found)
           /\ InternalDTAs' = [InternalDTAs EXCEPT ![Index].centry = s.centry + 1]
           /\ \/ PopulateDTA(d, n) /\ D0' = GEMDOS_EOK
              \/ n \notin hostDir /\ D0' = Garbage /\ UNCHANGED dta
     \* ghost: the search of d reports, or skips, its next entry
     /\ expect' = IF dta[d].magic /\ expect[d] \notin {NoSearch, <<>>}
                  THEN [expect EXCEPT ![d] = Tail(expect[d])] ELSE expect
     /\ UNCHANGED <<DTAIndex, dtaOf, cur, hostDir, later, saved>>
     /\ lastCall' = [op |-> "Fsnext", d |-> d]

\* GemDOS_SFirst: refresh pDTA; a path on another drive is TOS's, which
\* overwrites the DTA's reserved bytes.  On our drive: write index and
\* magic, clear the slot if in use and mark it used; a volume-label search
\* ends there; a missing directory, a failed scandir or no match end with
\* an error; otherwise store the matching names in alphasort order, report
\* the first one (the implicit SNext) and advance DTAIndex.  Only the last
\* path advances DTAIndex.
GemDOS_SFirst(path, mask, attr, scanOK) ==
  LET d == CurrentDTA
      old == InternalDTAs[DTAIndex]
      claimed == [(IF old.bUsed THEN ClearInternalDTA(old) ELSE old)
                    EXCEPT !.bUsed = TRUE]
      list == SetToSortSeq(hostDir \cap mask, <)
      marked == [dta EXCEPT ![d].magic = TRUE, ![d].index = DTAIndex]
  IN /\ pDTA' = d
     /\ \/ /\ path = "floppy"
           /\ dta' = [dta EXCEPT ![d].magic = FALSE]
           /\ D0' = Unset
           /\ expect' = [expect EXCEPT ![d] = NoSearch]
           /\ UNCHANGED <<InternalDTAs, DTAIndex, later>>
        \/ /\ path # "floppy"
           /\ attr = "volume"
           /\ InternalDTAs' = [InternalDTAs EXCEPT ![DTAIndex] = claimed]
           /\ dta' = [marked EXCEPT ![d].name = Volume]
           /\ D0' = GEMDOS_EOK
           /\ Aged(d, NoSearch)
           /\ UNCHANGED DTAIndex
        \/ /\ path # "floppy"
           /\ attr = "files"
           /\ \/ path = "missing" /\ D0' = GEMDOS_EPTHNF
              \/ path = "dir" /\ ~scanOK /\ D0' = GEMDOS_EFILNF
           /\ InternalDTAs' = [InternalDTAs EXCEPT ![DTAIndex] = claimed]
           /\ dta' = marked
           /\ Aged(d, NoSearch)
           /\ UNCHANGED DTAIndex
        \/ /\ path = "dir"
           /\ attr = "files"
           /\ scanOK
           /\ list = <<>>
           /\ InternalDTAs' = [InternalDTAs EXCEPT
                                 ![DTAIndex] = [claimed EXCEPT !.centry = 0]]
           /\ dta' = marked
           /\ D0' = GEMDOS_EFILNF
           /\ Aged(d, NoSearch)
           /\ UNCHANGED DTAIndex
        \/ /\ path = "dir"
           /\ attr = "files"
           /\ scanOK
           /\ list # <<>>
           /\ InternalDTAs' = [InternalDTAs EXCEPT
                                 ![DTAIndex] = [claimed EXCEPT !.centry = 1,
                                                               !.found = list]]
           \* the implicit SNext: the entries were just read, so stat succeeds
           /\ dta' = [marked EXCEPT ![d].name = Head(list)]
           /\ D0' = GEMDOS_EOK
           /\ Aged(d, Tail(list))
           /\ DTAIndex' = NextDTAIndex(DTAIndex)
     /\ UNCHANGED <<dtaOf, cur, hostDir, saved>>
     /\ lastCall' = [op |-> "Fsfirst", d |-> d]

-----------------------------------------------------------------------------
(* The guest and the host between calls.                                  *)

\* TOS switches to another process (Pexec, Pterm); act_pd then names its
\* basepage.
ProcessSwitch(p) ==
  /\ p # cur
  /\ cur' = p
  /\ UNCHANGED <<InternalDTAs, DTAIndex, pDTA, dta, dtaOf, hostDir, D0,
                 expect, later, saved>>
  /\ lastCall' = [op |-> "Switch", d |-> CurrentDTA]

\* A host program creates or deletes an entry of the directory.
HostCreate(n) ==
  /\ HostChanges
  /\ n \notin hostDir
  /\ hostDir' = hostDir \cup {n}
  /\ UNCHANGED <<InternalDTAs, DTAIndex, pDTA, dta, dtaOf, cur, D0,
                 expect, later, saved>>
  /\ lastCall' = [op |-> "Host", d |-> CurrentDTA]

HostDelete(n) ==
  /\ HostChanges
  /\ n \in hostDir
  /\ hostDir' = hostDir \ {n}
  /\ UNCHANGED <<InternalDTAs, DTAIndex, pDTA, dta, dtaOf, cur, D0,
                 expect, later, saved>>
  /\ lastCall' = [op |-> "Host", d |-> CurrentDTA]

\* The DTAs a program calls Fsnext on: "live", only while its search is
\* live (it stays within the table's capacity and its Fsfirst succeeded);
\* "any", also after a failed Fsfirst or after its search was evicted.
\* A DTA without our magic is TOS's, always allowed.
GuestMayFsnext ==
  FsnextOn = "live" /\ dta[CurrentDTA].magic => Live(CurrentDTA)

-----------------------------------------------------------------------------
(* Reset and save states.                                                 *)

\* GemDOS_Reset: ClearInternalDTA on every slot, DTAIndex and pDTA zeroed;
\* the guest reboots and no DTA holds a search of ours.
GemDOS_Reset ==
  /\ InternalDTAs' = [i \in Slots |-> ClearInternalDTA(InternalDTAs[i])]
  /\ DTAIndex' = 0
  /\ pDTA' = NULL
  /\ dta' = [e \in DTAs |-> [dta[e] EXCEPT !.magic = FALSE]]
  /\ D0' = Unset
  /\ expect' = [e \in DTAs |-> NoSearch]
  /\ later' = [e \in DTAs |-> 0]
  /\ UNCHANGED <<dtaOf, cur, hostDir, saved>>
  /\ lastCall' = [op |-> "Reset", d |-> CurrentDTA]

\* GemDOS_MemorySnapShot_Capture(TRUE): DTAIndex and the pDTA address are
\* stored with the guest RAM; InternalDTAs are not.
SnapShotSave ==
  /\ saved' = Snapshot
  /\ UNCHANGED <<InternalDTAs, DTAIndex, pDTA, dta, dtaOf, cur, hostDir, D0,
                 expect, later>>
  /\ lastCall' = [op |-> "Save", d |-> CurrentDTA]

\* GemDOS_MemorySnapShot_Capture(FALSE): DTAIndex, pDTA and the guest RAM
\* come back from the save state; InternalDTAs keep what they hold now.
\* Ghost: the guest's searches come back with the guest RAM, or, when
\* programs do not continue them, none is live.
SnapShotRestore ==
  /\ dta' = saved.dta
  /\ dtaOf' = saved.dtaOf
  /\ cur' = saved.cur
  /\ DTAIndex' = saved.DTAIndex
  /\ pDTA' = saved.pDTA
  /\ expect' = IF ContinueAfterRestore THEN saved.expect
               ELSE [e \in DTAs |-> NoSearch]
  /\ later' = saved.later
  /\ D0' = Unset
  /\ UNCHANGED <<InternalDTAs, hostDir, saved>>
  /\ lastCall' = [op |-> "Restore", d |-> saved.dtaOf[saved.cur]]

-----------------------------------------------------------------------------

\* GemDOS_Init: every slot unused and empty, DTAIndex 0; the guest's
\* processes each have a DTA; the host directory holds any entries.
Init ==
  /\ InternalDTAs = [i \in Slots |-> [bUsed |-> FALSE, centry |-> 0, found |-> <<>>]]
  /\ DTAIndex = 0
  /\ pDTA = NULL
  /\ dta = [e \in DTAs |-> [magic |-> FALSE, index |-> 0, name |-> NoName]]
  /\ dtaOf \in [Procs -> DTAs]
  /\ cur \in Procs
  /\ hostDir \in SUBSET Names
  /\ D0 = Unset
  /\ expect = [e \in DTAs |-> NoSearch]
  /\ later = [e \in DTAs |-> 0]
  /\ saved = Snapshot
  /\ lastCall = [op |-> "Boot", d |-> dtaOf[cur]]

\* The guest's calls and the host's changes, between save states.
CallNext ==
  \/ \E d \in DTAs : GemDOS_SetDTA(d)
  \/ GuestMayFsnext /\ GemDOS_SNext
  \/ \E path \in Paths, mask \in Masks, attr \in Attrs, ok \in BOOLEAN :
        GemDOS_SFirst(path, mask, attr, ok)
  \/ \E p \in Procs : ProcessSwitch(p)
  \/ \E n \in Names : HostCreate(n) \/ HostDelete(n)
  \/ GemDOS_Reset

Next == CallNext \/ SnapShotSave \/ SnapShotRestore

Spec == Init /\ [][Next]_vars

\* A session in which no save state is taken or restored.
CallsSpec == Init /\ [][CallNext]_vars

-----------------------------------------------------------------------------
(* Properties.                                                            *)

TypeOK ==
  /\ InternalDTAs \in [Slots -> Slot]
  /\ DTAIndex \in Slots
  /\ pDTA \in DTAs \cup {NULL}
  /\ dta \in [DTAs -> GuestDTA]
  /\ dtaOf \in [Procs -> DTAs]
  /\ cur \in Procs
  /\ hostDir \subseteq Names
  /\ D0 \in {Unset, Garbage, GEMDOS_EOK, GEMDOS_EFILNF, GEMDOS_EPTHNF,
             GEMDOS_ENMFIL}
  /\ \A e \in DTAs : expect[e] = NoSearch \/ expect[e] \in Seq(Names)
  /\ later \in [DTAs -> 0 .. LaterBound]

\* Fsnext on the DTA of the running process continues that DTA's own live
\* search: it reports the next name of the snapshot Fsfirst took, in order,
\* and "no more files" once they are all reported, whatever other
\* processes, DTAs and searches ran in between.  An entry the host deleted
\* since is skipped.
SearchIsolation ==
  [][lastCall'.op = "Fsnext" /\ Live(lastCall'.d) =>
       LET d == lastCall'.d
       IN IF expect[d] = <<>>
          THEN D0' = GEMDOS_ENMFIL
          ELSE \/ D0' = GEMDOS_EOK /\ dta'[d].name = Head(expect[d])
               \/ Head(expect[d]) \notin hostDir]_vars

=============================================================================
