----------------------------- MODULE GemdosFiles -----------------------------
(***************************************************************************)
(* The file handle table of the GEMDOS hard-drive emulation (gemdos.c):   *)
(* FileHandles[], the host files its streams are open on, the guest's     *)
(* copy of the handle numbers it was given, and the save-state restore    *)
(* that drops the table.  One action per GEMDOS handler; a guest path is  *)
(* abstracted to the host file it translates to.                          *)
(***************************************************************************)
EXTENDS Integers, FiniteSets

CONSTANTS
  MAX_FILE_HANDLES, \* size of FileHandles[]
  BASE_FILEHANDLE,  \* guest handle of slot 0
  Files,            \* host files that guest paths translate to
  ReadOnlyFiles,    \* host files without write permission
  MaxLen,           \* bound on a host file's length
  Lengths,          \* byte counts passed to Fread/Fwrite
  Offsets,          \* 32-bit offsets passed to Fseek, as unsigned values
  GuestBits,        \* width of a guest long (scaled down from 32)
  LongIsWide,       \* host long wider than a guest long (LP64 builds)
  HostFdLimit,      \* streams the host process can hold open
  NoFile,           \* the empty szActualName; "no file" in the guest's view
  NULL,             \* a NULL FILE*
  Unset             \* D0 when the handler declined and TOS ran

ASSUME MAX_FILE_HANDLES \in Nat \ {0} /\ BASE_FILEHANDLE \in Nat
ASSUME ReadOnlyFiles \subseteq Files /\ Lengths \subseteq Nat \ {0}
ASSUME Offsets \subseteq 0 .. 2^GuestBits - 1

VARIABLES
  bUsed,        \* FileHandles[i].bUsed
  FileHandle,   \* FileHandles[i].FileHandle: a stream record or NULL
  szActualName, \* FileHandles[i].szActualName
  hostSize,     \* length of each host file, or Absent
  hostOpen,     \* FILE streams the host process holds open
  D0,           \* Regs[REG_D0] after the last call
  dateBuf,      \* the file whose time stamp Fdatime last wrote to the guest
  guestHandles, \* guest view: the file each of our handle numbers names
  savedHandles, \* guest view captured in the last save state
  GemDOSCall    \* the call the dispatcher read from the stack, with its handle

vars == <<bUsed, FileHandle, szActualName, hostSize, hostOpen, D0, dateBuf,
          guestHandles, savedHandles, GemDOSCall>>

\* GEMDOS result codes (gemdos.h)
GEMDOS_EOK == 0
GEMDOS_ERROR == -1
GEMDOS_EFILNF == -33
GEMDOS_ENHNDL == -35

Absent == -1
Slots == 0 .. MAX_FILE_HANDLES - 1
OurHandles == BASE_FILEHANDLE .. BASE_FILEHANDLE + MAX_FILE_HANDLES - 1
\* handle words a guest may pass: one below our range (a TOS handle), ours,
\* and one past the table
GuestHandleWords == BASE_FILEHANDLE - 1 .. BASE_FILEHANDLE + MAX_FILE_HANDLES
Whences == 0 .. 3
\* bound on a stream position; a seek past it is not enumerated
PosBound == MaxLen + 2^GuestBits - 1

\* values D0 can hold: error codes, handles, byte counts, positions
ResultRange == -64 .. BASE_FILEHANDLE + MAX_FILE_HANDLES + PosBound

Calls == {"Boot", "Fcreate", "Fopen", "Fclose", "Fread", "Fwrite", "Fseek",
          "FdatimeGet", "FdatimeSet", "Reset", "Save", "Restore"}

Stream == [file : Files, pos : 0 .. PosBound, rd : BOOLEAN, wr : BOOLEAN]

\* the stdio open modes the handlers pass to fopen
rwflags == <<"w+", "wb">>                \* GemDOS_Create, index Mode&1
open_modes == <<"rb", "wb", "r+", "rb">> \* GemDOS_Open, index Mode&3

-----------------------------------------------------------------------------
(* Host fopen, modelled by what it does to the stream and the file.       *)

FopenSucceeds(f, mode) ==
  /\ hostOpen < HostFdLimit
  /\ mode \in {"rb", "r+"} => hostSize[f] # Absent
  /\ mode # "rb" => f \notin ReadOnlyFiles

NewStream(f, mode) ==
  [file |-> f, pos |-> 0, rd |-> mode # "wb", wr |-> mode # "rb"]

\* "w" modes create the file or truncate it to zero length
SizeAfterFopen(f, mode) ==
  IF mode \in {"wb", "w+"} THEN [hostSize EXCEPT ![f] = 0] ELSE hostSize

InUse == {i \in Slots : bUsed[i]}

-----------------------------------------------------------------------------
(* Table helpers.                                                         *)

\* mutant: the search loop does not test bUsed
FindFreeFileHandle_IgnoresUsed == 0

GemDOS_FindFreeFileHandle ==
  IF \E i \in Slots : ~bUsed[i]
  THEN CHOOSE i \in Slots : ~bUsed[i] /\ \A j \in 0 .. i - 1 : bUsed[j]
  ELSE -1

\* mutant: the range is checked, bUsed is not
IsInvalidFileHandle_NoUsedCheck(Handle) ==
  ~(0 <= Handle /\ Handle < MAX_FILE_HANDLES)

GemDOS_IsInvalidFileHandle(Handle) ==
  ~(0 <= Handle /\ Handle < MAX_FILE_HANDLES /\ bUsed[Handle])

\* the handler returned FALSE: TOS runs the call, our state is untouched
NotOurs ==
  /\ D0' = Unset
  /\ UNCHANGED <<bUsed, FileHandle, szActualName, hostSize, hostOpen, dateBuf>>

\* LONG_MAX of the host: fseek fails with EOVERFLOW past it.  On LP64 it is
\* far beyond any position the model reaches.
HostLongMax == IF LongIsWide THEN PosBound ELSE 2^(GuestBits - 1) - 1

\* (long) of a 32-bit value read from guest memory: sign-extended on ILP32,
\* zero-extended on LP64
HostLong(Offset) ==
  IF LongIsWide \/ Offset < 2^(GuestBits - 1) THEN Offset
  ELSE Offset - 2^GuestBits

-----------------------------------------------------------------------------
(* Handlers.                                                              *)

\* GemDOS_Create: translate, find a slot, fopen with rwflags[Mode&1].  The
\* slot's szActualName is not written.
GemDOS_Create(f, Mode) ==
  LET Index == GemDOS_FindFreeFileHandle
      m == rwflags[(Mode % 2) + 1]
  IN /\ \/ /\ Index = -1
           /\ D0' = GEMDOS_ENHNDL
           /\ UNCHANGED <<bUsed, FileHandle, hostSize, hostOpen, guestHandles>>
        \/ /\ Index # -1
           /\ ~FopenSucceeds(f, m)
           /\ FileHandle' = [FileHandle EXCEPT ![Index] = NULL]
           /\ D0' = GEMDOS_EFILNF
           /\ UNCHANGED <<bUsed, hostSize, hostOpen, guestHandles>>
        \/ /\ Index # -1
           /\ FopenSucceeds(f, m)
           /\ FileHandle' = [FileHandle EXCEPT ![Index] = NewStream(f, m)]
           /\ hostSize' = SizeAfterFopen(f, m)
           /\ hostOpen' = hostOpen + 1
           /\ bUsed' = [bUsed EXCEPT ![Index] = TRUE]
           /\ D0' = Index + BASE_FILEHANDLE
           /\ guestHandles' = [guestHandles EXCEPT ![D0'] = f]
     /\ UNCHANGED <<szActualName, dateBuf, savedHandles>>
     /\ GemDOSCall' = [op |-> "Fcreate", h |-> 0]

\* GemDOS_Open: find a slot, fopen with open_modes[Mode&3], record the name
\* whether or not fopen succeeded.
GemDOS_Open(f, Mode) ==
  LET Index == GemDOS_FindFreeFileHandle
      m == open_modes[(Mode % 4) + 1]
  IN /\ \/ /\ Index = -1
           /\ D0' = GEMDOS_ENHNDL
           /\ UNCHANGED <<bUsed, FileHandle, szActualName, hostSize, hostOpen,
                          guestHandles>>
        \/ /\ Index # -1
           /\ ~FopenSucceeds(f, m)
           /\ szActualName' = [szActualName EXCEPT ![Index] = f]
           /\ FileHandle' = [FileHandle EXCEPT ![Index] = NULL]
           /\ D0' = GEMDOS_EFILNF
           /\ UNCHANGED <<bUsed, hostSize, hostOpen, guestHandles>>
        \/ /\ Index # -1
           /\ FopenSucceeds(f, m)
           /\ szActualName' = [szActualName EXCEPT ![Index] = f]
           /\ FileHandle' = [FileHandle EXCEPT ![Index] = NewStream(f, m)]
           /\ hostSize' = SizeAfterFopen(f, m)
           /\ hostOpen' = hostOpen + 1
           /\ bUsed' = [bUsed EXCEPT ![Index] = TRUE]
           /\ D0' = Index + BASE_FILEHANDLE
           /\ guestHandles' = [guestHandles EXCEPT ![D0'] = f]
     /\ UNCHANGED <<dateBuf, savedHandles>>
     /\ GemDOSCall' = [op |-> "Fopen", h |-> 0]

\* mutant: fclose without clearing bUsed
GemDOS_Close_KeepsSlot(h) ==
  LET Handle == h - BASE_FILEHANDLE
  IN /\ \/ /\ GemDOS_IsInvalidFileHandle(Handle)
           /\ NotOurs
        \/ /\ ~GemDOS_IsInvalidFileHandle(Handle)
           /\ hostOpen' = hostOpen - 1
           /\ D0' = GEMDOS_EOK
           /\ UNCHANGED <<bUsed, FileHandle, szActualName, hostSize, dateBuf>>
     /\ guestHandles' = IF h \in OurHandles
                        THEN [guestHandles EXCEPT ![h] = NoFile]
                        ELSE guestHandles
     /\ UNCHANGED savedHandles
     /\ GemDOSCall' = [op |-> "Fclose", h |-> h]

\* GemDOS_Close: an invalid handle is assumed to be TOS's; otherwise fclose
\* and free the slot (FileHandle is left dangling).  The guest forgets the
\* handle it closed whatever the outcome.
GemDOS_Close(h) ==
  LET Handle == h - BASE_FILEHANDLE
  IN /\ \/ /\ GemDOS_IsInvalidFileHandle(Handle)
           /\ NotOurs
        \/ /\ ~GemDOS_IsInvalidFileHandle(Handle)
           /\ hostOpen' = hostOpen - 1
           /\ bUsed' = [bUsed EXCEPT ![Handle] = FALSE]
           /\ D0' = GEMDOS_EOK
           /\ UNCHANGED <<FileHandle, szActualName, hostSize, dateBuf>>
     /\ guestHandles' = IF h \in OurHandles
                        THEN [guestHandles EXCEPT ![h] = NoFile]
                        ELSE guestHandles
     /\ UNCHANGED savedHandles
     /\ GemDOSCall' = [op |-> "Fclose", h |-> h]

\* bytes fread transfers from stream s when asked for n
FreadCount(s, n) ==
  LET avail == hostSize[s.file] - s.pos
  IN IF ~s.rd \/ avail <= 0 THEN 0 ELSE IF n < avail THEN n ELSE avail

\* GemDOS_Read: ftell/fseek to find the length, 0 at end of file, else clamp
\* the request to the file length and fread.
GemDOS_Read(h, Size) ==
  LET Handle == h - BASE_FILEHANDLE
      s == FileHandle[Handle]
      FileSize == hostSize[s.file]
      nBytesRead == IF FileSize - s.pos = 0 THEN 0
                    ELSE FreadCount(s, IF Size > FileSize THEN FileSize ELSE Size)
  IN /\ \/ /\ GemDOS_IsInvalidFileHandle(Handle)
           /\ NotOurs
        \/ /\ ~GemDOS_IsInvalidFileHandle(Handle)
           /\ FileHandle' = [FileHandle EXCEPT ![Handle].pos = s.pos + nBytesRead]
           /\ D0' = nBytesRead
           /\ UNCHANGED <<bUsed, szActualName, hostSize, hostOpen, dateBuf>>
     /\ UNCHANGED <<guestHandles, savedHandles>>
     /\ GemDOSCall' = [op |-> "Fread", h |-> h]

\* GemDOS_Write: fwrite at the stream position; fwrite's count is unsigned,
\* so the EACCDN branch is never taken and a refused write reports 0.
GemDOS_Write(h, Size) ==
  LET Handle == h - BASE_FILEHANDLE
      s == FileHandle[Handle]
      end == s.pos + Size
  IN /\ \/ /\ GemDOS_IsInvalidFileHandle(Handle)
           /\ NotOurs
        \/ /\ ~GemDOS_IsInvalidFileHandle(Handle)
           /\ s.wr => end <= MaxLen
           /\ FileHandle' = IF s.wr THEN [FileHandle EXCEPT ![Handle].pos = end]
                            ELSE FileHandle
           /\ hostSize' = IF s.wr /\ end > hostSize[s.file]
                          THEN [hostSize EXCEPT ![s.file] = end]
                          ELSE hostSize
           /\ D0' = IF s.wr THEN Size ELSE 0
           /\ UNCHANGED <<bUsed, szActualName, hostOpen, dateBuf>>
     /\ UNCHANGED <<guestHandles, savedHandles>>
     /\ GemDOSCall' = [op |-> "Fwrite", h |-> h]

\* GemDOS_LSeek: fseek(Offset, Mode) then D0 = ftell, truncated to a guest
\* long.  fseek fails, leaving the position, for a bad whence or a target
\* outside 0 .. LONG_MAX.
GemDOS_LSeek(Offset, h, Mode) ==
  LET Handle == h - BASE_FILEHANDLE
      s == FileHandle[Handle]
      origin == CASE Mode = 0 -> 0
                  [] Mode = 1 -> s.pos
                  [] OTHER    -> hostSize[s.file]
      target == origin + HostLong(Offset)
      newPos == IF Mode \in 0 .. 2 /\ target \in 0 .. HostLongMax
                THEN target ELSE s.pos
  IN /\ \/ /\ GemDOS_IsInvalidFileHandle(Handle)
           /\ NotOurs
        \/ /\ ~GemDOS_IsInvalidFileHandle(Handle)
           /\ newPos <= PosBound
           /\ FileHandle' = [FileHandle EXCEPT ![Handle].pos = newPos]
           /\ D0' = newPos % 2^GuestBits
           /\ UNCHANGED <<bUsed, szActualName, hostSize, hostOpen, dateBuf>>
     /\ UNCHANGED <<guestHandles, savedHandles>>
     /\ GemDOSCall' = [op |-> "Fseek", h |-> h]

\* GemDOS_GSDToF: Flag 1 (set) does nothing; otherwise stat szActualName and
\* copy its time stamp to the guest buffer, or report GEMDOS_ERROR.
GemDOS_GSDToF(h, Flag) ==
  LET Handle == h - BASE_FILEHANDLE
      name == szActualName[Handle]
  IN /\ \/ /\ GemDOS_IsInvalidFileHandle(Handle)
           /\ NotOurs
        \/ /\ ~GemDOS_IsInvalidFileHandle(Handle)
           /\ Flag = 1
           /\ D0' = GEMDOS_EOK
           /\ UNCHANGED dateBuf
        \/ /\ ~GemDOS_IsInvalidFileHandle(Handle)
           /\ Flag # 1
           /\ IF name # NoFile /\ hostSize[name] # Absent
              THEN D0' = GEMDOS_EOK /\ dateBuf' = name
              ELSE D0' = GEMDOS_ERROR /\ UNCHANGED dateBuf
     /\ UNCHANGED <<bUsed, FileHandle, szActualName, hostSize, hostOpen,
                    guestHandles, savedHandles>>
     /\ GemDOSCall' = IF Flag = 1 THEN [op |-> "FdatimeSet", h |-> h]
                                    ELSE [op |-> "FdatimeGet", h |-> h]

-----------------------------------------------------------------------------
(* Reset and save states.                                                 *)

\* GemDOS_Reset: fclose every used slot and clear the table; the guest is
\* rebooted and holds no handles.  szActualName is left as it was.
GemDOS_Reset ==
  /\ hostOpen' = hostOpen - Cardinality(InUse)
  /\ bUsed' = [i \in Slots |-> FALSE]
  /\ FileHandle' = [i \in Slots |-> NULL]
  /\ guestHandles' = [h \in OurHandles |-> NoFile]
  /\ D0' = Unset
  /\ UNCHANGED <<szActualName, hostSize, dateBuf, savedHandles>>
  /\ GemDOSCall' = [op |-> "Reset", h |-> 0]

\* GemDOS_MemorySnapShot_Capture(TRUE): file handles are not saved; the guest
\* RAM saved beside it holds the guest's handle numbers.
SnapShotSave ==
  /\ savedHandles' = guestHandles
  /\ UNCHANGED <<bUsed, FileHandle, szActualName, hostSize, hostOpen, D0,
                 dateBuf, guestHandles>>
  /\ GemDOSCall' = [op |-> "Save", h |-> 0]

\* GemDOS_MemorySnapShot_Capture(FALSE): every slot is set free and its
\* FileHandle to NULL without fclose; guest RAM comes back from the save.
SnapShotRestore ==
  /\ bUsed' = [i \in Slots |-> FALSE]
  /\ FileHandle' = [i \in Slots |-> NULL]
  /\ guestHandles' = savedHandles
  /\ D0' = Unset
  /\ UNCHANGED <<szActualName, hostSize, hostOpen, dateBuf, savedHandles>>
  /\ GemDOSCall' = [op |-> "Restore", h |-> 0]

-----------------------------------------------------------------------------

\* GemDOS_Init: handles cleared by memset; the host directory holds any files
Init ==
  /\ bUsed = [i \in Slots |-> FALSE]
  /\ FileHandle = [i \in Slots |-> NULL]
  /\ szActualName = [i \in Slots |-> NoFile]
  /\ hostSize \in [Files -> {Absent} \cup 0 .. MaxLen]
  /\ hostOpen = 0
  /\ D0 = Unset
  /\ dateBuf = NoFile
  /\ guestHandles = [h \in OurHandles |-> NoFile]
  /\ savedHandles = guestHandles
  /\ GemDOSCall = [op |-> "Boot", h |-> 0]

\* The guest's GEMDOS calls and resets, between save states.
CallNext ==
  \/ \E f \in Files, Mode \in 0 .. 1 : GemDOS_Create(f, Mode)
  \/ \E f \in Files, Mode \in 0 .. 3 : GemDOS_Open(f, Mode)
  \/ \E h \in GuestHandleWords : GemDOS_Close(h)
  \/ \E h \in GuestHandleWords, n \in Lengths : GemDOS_Read(h, n)
  \/ \E h \in GuestHandleWords, n \in Lengths : GemDOS_Write(h, n)
  \/ \E o \in Offsets, h \in GuestHandleWords, m \in Whences :
        GemDOS_LSeek(o, h, m)
  \/ \E h \in GuestHandleWords, fl \in 0 .. 1 : GemDOS_GSDToF(h, fl)
  \/ GemDOS_Reset

Next == CallNext \/ SnapShotSave \/ SnapShotRestore

Spec == Init /\ [][Next]_vars

\* A session in which no save state is taken or restored.
CallsSpec == Init /\ [][CallNext]_vars

-----------------------------------------------------------------------------
(* Properties.                                                            *)

TypeOK ==
  /\ bUsed \in [Slots -> BOOLEAN]
  /\ FileHandle \in [Slots -> Stream \cup {NULL}]
  /\ szActualName \in [Slots -> Files \cup {NoFile}]
  /\ hostSize \in [Files -> {Absent} \cup 0 .. MaxLen]
  /\ hostOpen \in 0 .. HostFdLimit
  /\ D0 \in {Unset} \cup ResultRange
  /\ dateBuf \in Files \cup {NoFile}
  /\ guestHandles \in [OurHandles -> Files \cup {NoFile}]
  /\ savedHandles \in [OurHandles -> Files \cup {NoFile}]
  /\ GemDOSCall \in [op : Calls, h : {0} \cup GuestHandleWords]

\* Every FILE stream the host process holds open belongs to exactly one
\* in-use slot: Create/Open/Close/Reset never leak or lose a stream.
StreamsAccounted == hostOpen = Cardinality(InUse)

\* The handle numbers the guest holds and the in-use slots agree: a handle
\* the guest got from Fcreate/Fopen stays on the file it was opened on until
\* the guest closes it, and no slot is in use that the guest does not hold.
HandlesStable ==
  \A i \in Slots :
    LET h == i + BASE_FILEHANDLE
    IN /\ bUsed[i] <=> guestHandles[h] # NoFile
       /\ bUsed[i] => FileHandle[i] # NULL /\ FileHandle[i].file = guestHandles[h]

=============================================================================
