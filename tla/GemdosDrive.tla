----------------------------- MODULE GemdosDrive -----------------------------
(***************************************************************************)
(* The emulated drive of gemdos.c: the path translator                    *)
(* GemDOS_CreateHardDriveFileName with the drive checks in front of it,   *)
(* the current drive and directory (CurrentDrive, fs_currpath), the calls *)
(* that use them (Dsetdrv, Dfree, Dcreate, Ddelete, Dsetpath, Fdelete,    *)
(* Fattrib, Dgetpath, Pexec, Frename), and the three outcomes GemDOS_OpCode *)
(* hands back to the cartridge trampoline.                                 *)
(*                                                                         *)
(* The translator works on the characters of the path, and so does this   *)
(* model: a C string is a sequence of one-character strings.  The host    *)
(* file system is a set of directories and a set of files, each named by  *)
(* its canonical list of components; stat, glob, mkdir, rmdir, unlink and *)
(* rename act on it the way POSIX does.                                    *)
(***************************************************************************)
EXTENDS Integers, Sequences, FiniteSets
LOCAL INSTANCE SequencesExt

CONSTANTS
    hd_emulation_dir,   \* the host directory of the drive, no trailing '/'
    nPartitions,        \* ACSI partitions in front of the emulated drive
    nBootDrive,         \* CurrentDrive after a reset
    ShortLen,           \* the ST's base name length (8 in the code)
    MAX_PATH,           \* longest fs_currpath the model follows
    MaxDepth,           \* deepest host entry the model follows
    GuestPaths,         \* path arguments the guest passes
    TreePaths,          \* paths the guest creates, deletes and renames
    GuestDrives,        \* drive numbers the guest passes to Dsetdrv/Dfree/Dgetpath
    PexecModes,
    Upper,              \* toupper over every character
    Byte,               \* character codes
    InitDirs,           \* the host tree when the emulator starts
    InitFiles,
    NoDrive,            \* the drive a call names when it names none
    NoPath              \* what a failed path walk yields

GEMDOS_EOK == 0
GEMDOS_EFILNF == -33
GEMDOS_EPTHNF == -34
GEMDOS_EACCDN == -36
GEMDOS_FILE_ATTRIB_SUBDIRECTORY == 16

hd_letter == 2 + nPartitions

Chars == DOMAIN Byte
Str == Seq(Chars)
Slash == "/"
BSlash == "\\"

ASSUME /\ Upper \in [Chars -> Chars]
       /\ GuestPaths \cup TreePaths \subseteq Str \ {<<>>}
       /\ hd_emulation_dir \in Str /\ hd_emulation_dir[1] = Slash

-----------------------------------------------------------------------------
(***************************************************************************)
(* String helpers                                                          *)
(***************************************************************************)
\* strcmp(a, b) < 0: at the first difference, or the shorter is a prefix.
StrLess(a, b) ==
    LET diff == {k \in 1 .. Len(a) : k <= Len(b) /\ a[k] # b[k]}
        k    == CHOOSE k \in diff : \A j \in diff : k <= j
    IN  IF diff = {} THEN Len(a) < Len(b) ELSE Byte[a[k]] < Byte[b[k]]

\* strcasecmp(a, b) == 0
CaseEqual(a, b) ==
    Len(a) = Len(b) /\ \A k \in 1 .. Len(a) : Upper[a[k]] = Upper[b[k]]

\* strncasecmp(b, a, Len(a)) == 0: a is a case-insensitive prefix of b
CasePrefix(a, b) ==
    Len(b) >= Len(a) /\ CaseEqual(a, SubSeq(b, 1, Len(a)))

\* baselen: the characters before the first '.'
baselen(s) ==
    LET dot == SelectInSeq(s, LAMBDA c : c = ".")
    IN  IF dot = 0 THEN Len(s) ELSE dot - 1

\* The first index after 'from' holding character c, or 0 (strchr).
IndexAfter(s, from, c) ==
    LET k == SelectInSubSeq(s, from + 1, Len(s), LAMBDA x : x = c)
    IN  IF from >= Len(s) THEN 0 ELSE k

\* The pieces of s between the separators sep.
Split(s, sep) ==
    LET at == <<0>> \o SelectSeq([i \in 1 .. Len(s) |-> i], LAMBDA i : s[i] = sep)
              \o <<Len(s) + 1>>
    IN  [k \in 1 .. Len(at) - 1 |-> SubSeq(s, at[k] + 1, at[k + 1] - 1)]

SplitSlash(s) == Split(s, Slash)

-----------------------------------------------------------------------------
VARIABLES
    CurrentDrive,   \* drive number the guest last set (0 = A)
    fs_currpath,    \* emudrives[0]->fs_currpath, always with a trailing '/'
    dirs,           \* host directories, as canonical component lists
    files,          \* host files
    D0,             \* the result register after the last call
    lastCall        \* the call just made: [op, name, drive, outcome]

vars == <<CurrentDrive, fs_currpath, dirs, files, D0, lastCall>>

(***************************************************************************)
(* The host's path resolution (stat, open, glob's directory part): ""     *)
(* and "." stay, ".." goes up (and stays at "/"), every component but the *)
(* last must be a directory.  NoPath when the walk fails.                  *)
(***************************************************************************)
WalkStep(at, c) ==
    CASE c \in {<<>>, <<".">>} -> at
      [] c = <<".", ".">>      -> IF at = <<>> THEN at ELSE Front(at)
      [] OTHER                 -> Append(at, c)

\* A step of the host's walk: only a directory can be walked through.
HostStep(at, c) == IF at = NoPath \/ at \notin dirs THEN NoPath ELSE WalkStep(at, c)

WalkComps(comps) ==
    LET w[k \in 0 .. Len(comps)] == IF k = 0 THEN <<>> ELSE HostStep(w[k - 1], comps[k])
    IN  w[Len(comps)]

\* An absolute path starts with '/'.
Walk(path) ==
    IF path = <<>> \/ path[1] # Slash THEN NoPath ELSE WalkComps(Tail(SplitSlash(path)))

Exists(path) == Walk(path) \in dirs \cup files

\* The bound on the host tree: Dcreate and Frename can nest without end.
WithinDepth(ds, fs) == \A e \in ds \cup fs : Len(e) <= MaxDepth
IsDir(path) == Walk(path) \in dirs

\* Names in a directory, without the ones glob's '*' skips (a leading '.').
Children(at, onlydir) ==
    { Last(e) : e \in { e \in (IF onlydir THEN dirs ELSE dirs \cup files) :
                          e # <<>> /\ Front(e) = at /\ Last(e)[1] # "." } }

(***************************************************************************)
(* glob(prefix "*"): the matches, each spelt as the pattern's directory   *)
(* part followed by the entry name.  glob sorts them, and the translator  *)
(* takes the first that fits: the least in byte order, FirstOf.            *)
(***************************************************************************)
GlobIn(prefix, at, onlydir) ==
    IF at \notin dirs THEN {} ELSE {prefix \o n : n \in Children(at, onlydir)}

glob(prefix, onlydir) == GlobIn(prefix, Walk(prefix), onlydir)

FirstOf(S) == CHOOSE x \in S : \A y \in S : ~StrLess(y, x)

-----------------------------------------------------------------------------
(***************************************************************************)
(* GemDOS_FindDriveNumber and GemDOS_IsFileNameAHardDrive                 *)
(***************************************************************************)
IsLower(c) == Byte[c] >= 97 /\ Byte[c] <= 122
IsUpperCase(c) == Byte[c] >= 65 /\ Byte[c] <= 90

GemDOS_FindDriveNumber(name) ==
    IF Len(name) >= 2 /\ name[2] = ":" /\ (IsLower(name[1]) \/ IsUpperCase(name[1]))
       THEN IF IsLower(name[1]) THEN Byte[name[1]] - 97 ELSE Byte[name[1]] - 65
       ELSE CurrentDrive

GemDOS_IsFileNameAHardDrive(name) == GemDOS_FindDriveNumber(name) = hd_letter

-----------------------------------------------------------------------------
(***************************************************************************)
(* GemDOS_CreateHardDriveFileName                                         *)
(***************************************************************************)

\* Mutant: a path from the current directory is built on the drive root.
DestInit_IgnoresCurrPath(name) ==
    CASE Len(name) >= 2 /\ name[2] = ":" ->
            [dest |-> hd_emulation_dir \o SubSeq(name, 3, Len(name)), start |-> 0]
      [] name[1] = BSlash -> [dest |-> hd_emulation_dir \o name, start |-> 0]
      [] OTHER -> [dest |-> hd_emulation_dir \o <<Slash>> \o name,
                   start |-> Len(hd_emulation_dir) + 1]

\* The three sprintf cases: "C:\foo", "\foo" and a name relative to
\* fs_currpath, whose trailing '/' is where the first component begins.
DestInit(name) ==
    CASE Len(name) >= 2 /\ name[2] = ":" ->
            [dest |-> hd_emulation_dir \o SubSeq(name, 3, Len(name)), start |-> 0]
      [] name[1] = BSlash -> [dest |-> hd_emulation_dir \o name, start |-> 0]
      [] OTHER -> [dest |-> fs_currpath \o name, start |-> Len(fs_currpath)]

\* The test of both name loops: strcasecmp for a short name, strncasecmp
\* over the typed length for a name of ShortLen characters or more.
NameMatches(gp, full, comp) ==
    IF baselen(comp) < ShortLen THEN CaseEqual(gp, full) ELSE CasePrefix(full, gp)

\* The component between start and the backslash at s; the first glob
\* takes directories, a name of ShortLen characters or more by prefix; the
\* second takes any entry by prefix.  A match replaces the path up to s,
\* and s is left where it was in the old string.
Replace(m1, m2, rest, unresolved) ==
    CASE m1 # {} -> FirstOf(m1) \o <<Slash>> \o rest
      [] m2 # {} -> FirstOf(m2) \o <<Slash>> \o rest
      [] OTHER   -> unresolved

ResolveComponent(dest, start, s) ==
    LET d1     == [dest EXCEPT ![start] = Slash]
        prefix == SubSeq(d1, 1, start)
        full   == SubSeq(d1, 1, s - 1)
        comp   == SubSeq(d1, start + 1, s - 1)
        rest   == SubSeq(d1, s + 1, Len(d1))
    IN  Replace({gp \in glob(prefix, TRUE) : NameMatches(gp, full, comp)},
                {gp \in glob(prefix, FALSE) : CasePrefix(full, gp)},
                rest, [d1 EXCEPT ![s] = Slash])

\* while ((s = strchr(s+1, '\\'))): the first backslash of an absolute
\* path only marks where the first component starts.
RECURSIVE ConvertLoop(_, _, _)
ConvertLoop(dest, s, start) ==
    LET b == IndexAfter(dest, s, BSlash)
    IN  CASE b = 0     -> [dest |-> dest, start |-> start]
          [] start = 0 -> ConvertLoop(dest, b, b)
          [] OTHER     -> ConvertLoop(ResolveComponent(dest, start, b), b, b)

FirstOr(S, otherwise) == IF S # {} THEN FirstOf(S) ELSE otherwise

\* The last component, resolved only when it has no wildcard.
LastName(d1, start) ==
    LET rest == SubSeq(d1, start + 1, Len(d1))
    IN  IF rest # <<>> /\ "?" \notin ToSet(rest) /\ "*" \notin ToSet(rest)
           THEN FirstOr({gp \in glob(SubSeq(d1, 1, start), FALSE) : NameMatches(gp, d1, rest)}, d1)
           ELSE d1

ResolveLastAt(dest, start) ==
    IF start = 0 THEN dest ELSE LastName([dest EXCEPT ![start] = Slash], start)

ResolveLast(dest, start0) ==
    ResolveLastAt(dest, IF start0 = 0 THEN SelectLastInSeq(dest, LAMBDA c : c = Slash)
                        ELSE start0)

ConvertFrom(init) == ConvertLoop(init.dest, 1, init.start)
ResolveLastOf(loop) == ResolveLast(loop.dest, loop.start)

GemDOS_CreateHardDriveFileName(name) == ResolveLastOf(ConvertFrom(DestInit(name)))

-----------------------------------------------------------------------------
(***************************************************************************)
(* The calls.  Each one is GemDOS_OpCode for that call number: the        *)
(* handler, then the outcome it hands back ("tos": run the TOS handler,   *)
(* "handled": skip it, "pexec": branch to the cartridge Pexec routine).    *)
(***************************************************************************)
NoName == <<>>

Call(op, name, drive, outcome) ==
    [op |-> op, name |-> name, drive |-> drive, outcome |-> outcome]

\* Dsetdrv: remembered, and still passed to TOS.
GemDOS_SetDrv(d) ==
    /\ CurrentDrive' = d
    /\ lastCall' = Call("Dsetdrv", NoName, d, "tos")
    /\ UNCHANGED <<fs_currpath, dirs, files, D0>>

\* Dfree and Dgetpath number drives from 1 (0 is the current drive).
DriveArg(d) == IF d = 0 THEN CurrentDrive ELSE d - 1
IsOurDriveArg(d) == (d = 0 /\ CurrentDrive >= 2) \/ d >= 3

\* Dfree: mock figures written to the guest buffer, D0 left as it was.
GemDOS_DFree(d) ==
    /\ lastCall' = Call("Dfree", NoName, DriveArg(d), IF IsOurDriveArg(d) THEN "handled" ELSE "tos")
    /\ UNCHANGED <<CurrentDrive, fs_currpath, dirs, files, D0>>

\* Dgetpath: fs_currpath after the drive root, '/' turned into '\'.
GemDOS_GetDir(d) ==
    /\ IF IsOurDriveArg(d)
          THEN D0' = GEMDOS_EOK /\ lastCall' = Call("Dgetpath", NoName, DriveArg(d), "handled")
          ELSE D0' = D0 /\ lastCall' = Call("Dgetpath", NoName, DriveArg(d), "tos")
    /\ UNCHANGED <<CurrentDrive, fs_currpath, dirs, files>>

\* A path call that TOS handles because the path is not on our drive.
Declined(op, name) ==
    /\ ~GemDOS_IsFileNameAHardDrive(name)
    /\ lastCall' = Call(op, name, GemDOS_FindDriveNumber(name), "tos")
    /\ UNCHANGED <<CurrentDrive, fs_currpath, dirs, files, D0>>

Handled(op, name) == Call(op, name, GemDOS_FindDriveNumber(name), "handled")

\* Dcreate: mkdir(path, 0755).
GemDOS_MkDir(name) ==
    \/ Declined("Dcreate", name)
    \/ /\ GemDOS_IsFileNameAHardDrive(name)
       /\ LET path == GemDOS_CreateHardDriveFileName(name)
              parent == SubSeq(path, 1, SelectLastInSeq(path, LAMBDA c : c = Slash))
              made == Walk(path)
              ok == IsDir(parent) /\ made # NoPath /\ ~Exists(path)
                    /\ Last(SplitSlash(path)) \notin {<<>>, <<".">>, <<".", ".">>}
          IN  /\ dirs' = IF ok THEN dirs \cup {made} ELSE dirs
              /\ D0' = IF ok THEN GEMDOS_EOK ELSE GEMDOS_EACCDN
       /\ WithinDepth(dirs', files)
       /\ lastCall' = Handled("Dcreate", name)
       /\ UNCHANGED <<CurrentDrive, fs_currpath, files>>

\* Ddelete: rmdir(path), which needs an empty directory.
GemDOS_RmDir(name) ==
    \/ Declined("Ddelete", name)
    \/ /\ GemDOS_IsFileNameAHardDrive(name)
       /\ LET path == GemDOS_CreateHardDriveFileName(name)
              at == Walk(path)
              last == Last(SplitSlash(path))
              ok == /\ at \in dirs /\ at # <<>>
                    /\ last \notin {<<".">>, <<".", ".">>}
                    /\ ~\E e \in dirs \cup files : e # at /\ IsPrefix(at, e)
          IN  /\ dirs' = IF ok THEN dirs \ {at} ELSE dirs
              /\ D0' = IF ok THEN GEMDOS_EOK ELSE GEMDOS_EACCDN
       /\ lastCall' = Handled("Ddelete", name)
       /\ UNCHANGED <<CurrentDrive, fs_currpath, files>>

\* Mutant: the '/' that fs_currpath needs is not appended.
GemDOS_ChDir_NoSlash(name) ==
    \/ Declined("Dsetpath", name)
    \/ /\ GemDOS_IsFileNameAHardDrive(name)
       /\ LET path == GemDOS_CreateHardDriveFileName(name)
          IN  IF ~Exists(path)
                 THEN D0' = GEMDOS_EPTHNF /\ UNCHANGED fs_currpath
                 ELSE /\ Len(path) <= MAX_PATH
                      /\ fs_currpath' = path
                      /\ D0' = GEMDOS_EOK
       /\ lastCall' = Handled("Dsetpath", name)
       /\ UNCHANGED <<CurrentDrive, dirs, files>>

(***************************************************************************)
(* Dsetpath: stat the translated path; append '/', and drop it again when *)
(* the path already ended with one.  MAX_PATH bounds the model, not the   *)
(* code, which strcpy's into fs_currpath[MAX_PATH] unchecked.              *)
(***************************************************************************)
GemDOS_ChDir(name) ==
    \/ Declined("Dsetpath", name)
    \/ /\ GemDOS_IsFileNameAHardDrive(name)
       /\ LET path == GemDOS_CreateHardDriveFileName(name)
              slashed == Append(path, Slash)
          IN  IF ~Exists(path)
                 THEN D0' = GEMDOS_EPTHNF /\ UNCHANGED fs_currpath
                 ELSE /\ Len(slashed) <= MAX_PATH
                      /\ fs_currpath' = IF slashed[Len(slashed) - 1] = Slash
                                           THEN Front(slashed) ELSE slashed
                      /\ D0' = GEMDOS_EOK
       /\ lastCall' = Handled("Dsetpath", name)
       /\ UNCHANGED <<CurrentDrive, dirs, files>>

\* Fdelete: unlink(path), which refuses directories.
GemDOS_UnLink(name) ==
    \/ Declined("Fdelete", name)
    \/ /\ GemDOS_IsFileNameAHardDrive(name)
       /\ LET at == Walk(GemDOS_CreateHardDriveFileName(name))
          IN  /\ files' = files \ {at}
              /\ D0' = IF at \in files THEN GEMDOS_EOK ELSE GEMDOS_EFILNF
       /\ lastCall' = Handled("Fdelete", name)
       /\ UNCHANGED <<CurrentDrive, fs_currpath, dirs>>

\* Fattrib: read gives the attribute bits, write is refused.
GemDOS_Fattrib(name, nRwFlag) ==
    \/ Declined("Fattrib", name)
    \/ /\ GemDOS_IsFileNameAHardDrive(name)
       /\ LET path == GemDOS_CreateHardDriveFileName(name)
          IN  D0' = CASE ~Exists(path) -> GEMDOS_EFILNF
                      [] nRwFlag = 0   -> IF IsDir(path)
                                             THEN GEMDOS_FILE_ATTRIB_SUBDIRECTORY ELSE 0
                      [] OTHER         -> GEMDOS_EACCDN
       /\ lastCall' = Handled("Fattrib", name)
       /\ UNCHANGED <<CurrentDrive, fs_currpath, dirs, files>>

\* Pexec: modes 0 and 3 go to the cartridge routine when the current drive
\* is ours; the program's own path is not looked at.
GemDOS_Pexec(mode, name) ==
    /\ lastCall' = Call("Pexec", name, GemDOS_FindDriveNumber(name),
                        IF mode \in {0, 3} /\ CurrentDrive = hd_letter
                           THEN "pexec" ELSE "tos")
    /\ UNCHANGED <<CurrentDrive, fs_currpath, dirs, files, D0>>

\* Frename: both names must be on our drive; rename(old, new), which
\* replaces a file by a file and an empty directory by a directory.
GemDOS_Rename(old, new) ==
    \/ /\ ~(GemDOS_IsFileNameAHardDrive(old) /\ GemDOS_IsFileNameAHardDrive(new))
       /\ lastCall' = Call("Frename", old, GemDOS_FindDriveNumber(old), "tos")
       /\ UNCHANGED <<CurrentDrive, fs_currpath, dirs, files, D0>>
    \/ /\ GemDOS_IsFileNameAHardDrive(old) /\ GemDOS_IsFileNameAHardDrive(new)
       /\ LET newPath == GemDOS_CreateHardDriveFileName(new)
              from == Walk(GemDOS_CreateHardDriveFileName(old))
              to == Walk(newPath)
              parent == SubSeq(newPath, 1, SelectLastInSeq(newPath, LAMBDA c : c = Slash))
              Moved(e) == IF IsPrefix(from, e) THEN to \o SubSeq(e, Len(from) + 1, Len(e)) ELSE e
              Empty(at) == ~\E e \in dirs \cup files : e # at /\ IsPrefix(at, e)
              replaces == \/ to \notin dirs \cup files
                          \/ from \in files /\ to \in files
                          \/ from \in dirs /\ to \in dirs /\ Empty(to)
              ok == /\ from \in dirs \cup files /\ from # <<>>
                    /\ to # NoPath /\ IsDir(parent) /\ replaces
                    /\ ~IsStrictPrefix(from, to)
                    /\ Last(SplitSlash(newPath)) \notin {<<>>, <<".">>, <<".", ".">>}
          IN  /\ dirs' = IF ok THEN {Moved(e) : e \in dirs \ {to}} ELSE dirs
              /\ files' = IF ok THEN {Moved(e) : e \in files \ {to}} ELSE files
              /\ D0' = IF ok THEN GEMDOS_EOK ELSE GEMDOS_EACCDN
       /\ WithinDepth(dirs', files')
       /\ lastCall' = Handled("Frename", old)
       /\ UNCHANGED <<CurrentDrive, fs_currpath>>

\* GemDOS_Reset: the current drive goes back to the boot drive.
GemDOS_Reset ==
    /\ CurrentDrive' = nBootDrive
    /\ lastCall' = Call("Reset", NoName, NoDrive, "tos")
    /\ UNCHANGED <<fs_currpath, dirs, files, D0>>

\* GemDOS_InitDrives: fs_currpath is the drive root with a trailing '/'.
Init ==
    /\ CurrentDrive = nBootDrive
    /\ fs_currpath = Append(hd_emulation_dir, Slash)
    /\ dirs = InitDirs
    /\ files = InitFiles
    /\ D0 = GEMDOS_EOK
    /\ lastCall = Call("Reset", NoName, NoDrive, "tos")

Next ==
    \/ \E d \in GuestDrives : GemDOS_SetDrv(d) \/ GemDOS_DFree(d) \/ GemDOS_GetDir(d)
    \/ \E p \in GuestPaths :
          \/ GemDOS_ChDir(p)
          \/ \E f \in {0, 1} : GemDOS_Fattrib(p, f)
          \/ \E m \in PexecModes : GemDOS_Pexec(m, p)
    \/ \E p \in TreePaths :
          \/ GemDOS_MkDir(p) \/ GemDOS_RmDir(p) \/ GemDOS_UnLink(p)
          \/ \E q \in TreePaths : GemDOS_Rename(p, q)
    \/ GemDOS_Reset

Spec == Init /\ [][Next]_vars
-----------------------------------------------------------------------------
(***************************************************************************)
(* What a guest path names: the resolution the spec (section 4.1)         *)
(* describes.  Components are separated by '\'; a path starting with '\'  *)
(* (after an optional "X:") starts at the drive root, any other at the    *)
(* current directory.  Each component names the first entry, in byte     *)
(* order, equal to it ignoring case, or, for a component of ShortLen      *)
(* characters or more, starting with it; every component but the last    *)
(* must name a directory; ".." goes up, and names nothing at the drive    *)
(* root.  The empty set when nothing is named.                             *)
(***************************************************************************)
\* The drive root as a host path; a guest path never names anything above it.
DriveRoot == Walk(hd_emulation_dir)

\* The directory a path spells, ".." and "." applied to the text alone.
Lexical(path) ==
    LET comps == Tail(SplitSlash(path))
        w[k \in 0 .. Len(comps)] == IF k = 0 THEN <<>> ELSE WalkStep(w[k - 1], comps[k])
    IN  w[Len(comps)]

SplitBSlash(s) == Split(s, BSlash)

DrivePart(g) == Len(g) >= 2 /\ g[2] = ":"
PathPart(g) == IF DrivePart(g) THEN SubSeq(g, 3, Len(g)) ELSE g

StartDir(g) ==
    IF PathPart(g) # <<>> /\ PathPart(g)[1] = BSlash
       THEN Walk(hd_emulation_dir) ELSE Walk(fs_currpath)

NameOf(c, n) == CaseEqual(n, c) \/ (baselen(c) >= ShortLen /\ CasePrefix(c, n))

RECURSIVE Resolve(_, _)
Resolve(at, comps) ==
    LET c == Head(comps)
        more == Len(comps) > 1
        named == {n \in Children(at, more) : NameOf(c, n)}
    IN  CASE at \notin dirs  -> {}
          [] comps = <<>>    -> {at}
          [] c \in {<<>>, <<".">>} -> Resolve(at, Tail(comps))
          [] c = <<".", ".">> -> IF at = DriveRoot THEN {} ELSE Resolve(Front(at), Tail(comps))
          [] named = {}      -> {}
          [] OTHER -> LET first == FirstOf(named)
                      IN  IF more THEN Resolve(Append(at, first), Tail(comps))
                          ELSE {Append(at, first)}

Intended(g) ==
    IF StartDir(g) # NoPath /\ IsPrefix(DriveRoot, StartDir(g))
       THEN Resolve(StartDir(g), SplitBSlash(PathPart(g))) ELSE {}

-----------------------------------------------------------------------------
(***************************************************************************)
(* Properties                                                              *)
(***************************************************************************)

\* Type invariant; fs_currpath keeps the trailing '/' the code relies on
\* when it appends a relative name.
TypeOK ==
    /\ CurrentDrive \in GuestDrives \cup {nBootDrive}
    /\ fs_currpath \in Str /\ Len(fs_currpath) <= MAX_PATH
    /\ fs_currpath[Len(fs_currpath)] = Slash
    /\ dirs \subseteq Seq(Str) /\ files \subseteq Seq(Str)
    /\ D0 \in {GEMDOS_EOK, GEMDOS_EFILNF, GEMDOS_EPTHNF, GEMDOS_EACCDN,
               GEMDOS_FILE_ATTRIB_SUBDIRECTORY}
    /\ lastCall.outcome \in {"tos", "handled", "pexec"}

(***************************************************************************)
(* Round trip (spec section 8): whenever a guest path on the emulated     *)
(* drive names an existing host object, GemDOS_CreateHardDriveFileName    *)
(* translates it to that object, whatever the case of its components,     *)
(* from the root or from the directory an earlier Dsetpath entered, and   *)
(* after the host tree has been changed by earlier calls.  A component of *)
(* ShortLen characters or more names the host entry it is a prefix of     *)
(* (section 1: host names may be long).                                   *)
(***************************************************************************)
TranslateRoundTrip ==
    \A g \in GuestPaths :
        GemDOS_IsFileNameAHardDrive(g) /\ Intended(g) # {} =>
            Walk(GemDOS_CreateHardDriveFileName(g)) \in Intended(g)

(***************************************************************************)
(* Root containment (spec section 3): the current directory Dsetpath      *)
(* leaves in fs_currpath is the drive root or a directory below it, so    *)
(* relative paths never reach host files outside the emulated drive.      *)
(***************************************************************************)
CurrPathWithinRoot == IsPrefix(DriveRoot, Lexical(fs_currpath))

=============================================================================
