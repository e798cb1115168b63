---------------------------- MODULE WildcardMatch ----------------------------
(***************************************************************************)
(* The name filter of GemDOS_SFirst (gemdos.c): fsfirst_dirmask cuts the   *)
(* mask off the translated path, scandir lists the directory in alphasort  *)
(* order, and the loop at lines 1647-1658 compacts the scandir array in    *)
(* place, keeping the entries for which match(mask, name) holds.           *)
(*                                                                         *)
(* A C string is a sequence of one-character strings; the terminating NUL  *)
(* is the end of the sequence.  match is translated as a RECURSIVE         *)
(* operator over the two pointers p and n, and checked against Glob, the   *)
(* wildcard semantics the GEMDOS search promises: '*' any sequence, '?'    *)
(* one character, case-insensitive, "*.*" all, no names starting '.'.     *)
(***************************************************************************)
EXTENDS Integers, Sequences, FiniteSets
LOCAL INSTANCE SequencesExt

CONSTANTS
    NameChars,      \* characters of host directory entries, besides '.'
    MaskChars,      \* characters of guest masks, besides '.', '*' and '?'
    Upper,          \* toupper over every character
    Byte,           \* character code, the order strcmp and alphasort use
    MaxNameLen,     \* longest directory entry
    MaxMaskLen,     \* longest mask
    MaxEntries,     \* most entries scandir returns
    Unset           \* nentries and D0 before the loop has finished

GEMDOS_EOK == 0
GEMDOS_EFILNF == -33

Dot == "."
AllChars == NameChars \cup MaskChars \cup {Dot, "*", "?"}

ASSUME /\ Upper \in [AllChars -> AllChars]
       /\ Byte \in [NameChars \cup {Dot} -> Nat]
       /\ MaxNameLen \in Nat \ {0} /\ MaxMaskLen \in Nat /\ MaxEntries \in Nat

\* d_name of a directory entry: never empty.
Names == UNION {[1 .. k -> NameChars \cup {Dot}] : k \in 1 .. MaxNameLen}
Masks == UNION {[1 .. k -> MaskChars \cup {Dot, "*", "?"}] : k \in 0 .. MaxMaskLen}

\* The translated path always has the drive's root directory in front.
Root == <<"/">>

(***************************************************************************)
(* fsfirst_dirmask: the characters after the last '/'.                     *)
(***************************************************************************)
fsfirst_dirmask(string) ==
    LET slash == SelectLastInSeq(string, LAMBDA c : c = "/")
    IN  SubSeq(string, slash + 1, Len(string))

(***************************************************************************)
(* strcmp order, used by alphasort in the C locale.                        *)
(***************************************************************************)
RECURSIVE StrLess(_, _)
StrLess(a, b) ==
    CASE b = <<>>                      -> FALSE
      [] a = <<>>                      -> TRUE
      [] Byte[Head(a)] # Byte[Head(b)] -> Byte[Head(a)] < Byte[Head(b)]
      [] OTHER                         -> StrLess(Tail(a), Tail(b))

\* strcasecmp(a, b) == 0
CaseEqual(a, b) ==
    Len(a) = Len(b) /\ \A k \in 1 .. Len(a) : Upper[a[k]] = Upper[b[k]]

\* while (*n && *n != '.') n++;
SkipToDot(n) ==
    LET dot == SelectInSeq(n, LAMBDA c : c = Dot)
    IN  IF dot = 0 THEN <<>> ELSE SubSeq(n, dot, Len(n))

(***************************************************************************)
(* The for loop of match: it runs while the name has characters left, and  *)
(* the result is whether the pattern ends where the name does.  With the  *)
(* pattern at its end and the name not, toupper(0) differs from the name  *)
(* character and match returns FALSE.                                      *)
(***************************************************************************)
RECURSIVE MatchLoop(_, _)
MatchLoop(p, n) ==
    CASE n = <<>>                  -> p = <<>>
      [] p # <<>> /\ Head(p) = "*" -> MatchLoop(Tail(p), SkipToDot(n))
      [] p # <<>> /\ Head(p) = "?" -> MatchLoop(Tail(p), Tail(n))
      [] OTHER -> /\ p # <<>>
                  /\ Upper[Head(p)] = Upper[Head(n)]
                  /\ MatchLoop(Tail(p), Tail(n))

\* Mutant: the check that hides names starting with '.' is dropped.
match_DotFiles(pat, name) ==
    \/ pat = <<"*", Dot, "*">>
    \/ CaseEqual(pat, name)
    \/ MatchLoop(pat, name)

match(pat, name) ==
    /\ Head(name) # Dot
    /\ \/ pat = <<"*", Dot, "*">>
       \/ CaseEqual(pat, name)
       \/ MatchLoop(pat, name)

(***************************************************************************)
(* Reference: the wildcard semantics of a GEMDOS search.                   *)
(***************************************************************************)
RECURSIVE Glob(_, _)
Glob(p, n) ==
    CASE p = <<>>       -> n = <<>>
      [] Head(p) = "*"  -> \E rest \in Suffixes(n) : Glob(Tail(p), rest)
      [] Head(p) = "?"  -> n # <<>> /\ Glob(Tail(p), Tail(n))
      [] OTHER          -> /\ n # <<>>
                           /\ Upper[Head(p)] = Upper[Head(n)]
                           /\ Glob(Tail(p), Tail(n))

WildcardSpec(mask, name) ==
    Head(name) # Dot /\ (mask = <<"*", Dot, "*">> \/ Glob(mask, name))

-----------------------------------------------------------------------------
VARIABLES
    mask,       \* tempstr: the mask fsfirst_dirmask produced
    listing,    \* what scandir returned, in alphasort order
    found,      \* InternalDTAs[].found: the same array, compacted in place
    i,          \* the loop index over the scandir entries (1-based)
    j,          \* the number of entries kept so far
    nentries,   \* InternalDTAs[].nentries
    D0

vars == <<mask, listing, found, i, j, nentries, D0>>

Init ==
    /\ \E m \in Masks : mask = fsfirst_dirmask(Root \o m)
    /\ \E entries \in SUBSET Names :
          /\ Cardinality(entries) <= MaxEntries
          /\ listing = SetToSortSeq(entries, StrLess)
    /\ found = listing
    /\ i = 1
    /\ j = 0
    /\ nentries = Unset
    /\ D0 = Unset

\* Mutant: the kept entry is stored but the count is not advanced.
GemDOS_SFirst_Filter_NoAdvance ==
    /\ i <= Len(listing)
    /\ IF match(mask, found[i])
          THEN found' = [found EXCEPT ![j + 1] = found[i]] /\ UNCHANGED j
          ELSE UNCHANGED <<found, j>>
    /\ i' = i + 1
    /\ UNCHANGED <<mask, listing, nentries, D0>>

(***************************************************************************)
(* One pass of the loop body: a matching entry is moved down to position  *)
(* j; the others are freed and their pointers left where they are.        *)
(***************************************************************************)
GemDOS_SFirst_Filter ==
    /\ i <= Len(listing)
    /\ IF match(mask, found[i])
          THEN found' = [found EXCEPT ![j + 1] = found[i]] /\ j' = j + 1
          ELSE UNCHANGED <<found, j>>
    /\ i' = i + 1
    /\ UNCHANGED <<mask, listing, nentries, D0>>

\* Mutant: nentries counts one entry more than were kept.
GemDOS_SFirst_Count_OffByOne ==
    /\ i = Len(listing) + 1
    /\ nentries = Unset
    /\ nentries' = j + 1
    /\ D0' = IF j = 0 THEN GEMDOS_EFILNF ELSE GEMDOS_EOK
    /\ UNCHANGED <<mask, listing, found, i, j>>

(***************************************************************************)
(* After the loop: nentries is set, no match is "file not found", else    *)
(* GemDOS_SNext returns the first entry.                                   *)
(***************************************************************************)
GemDOS_SFirst_Count ==
    /\ i = Len(listing) + 1
    /\ nentries = Unset
    /\ nentries' = j
    /\ D0' = IF j = 0 THEN GEMDOS_EFILNF ELSE GEMDOS_EOK
    /\ UNCHANGED <<mask, listing, found, i, j>>

\* The search has been set up; nothing further happens in this call.
Done ==
    /\ nentries # Unset
    /\ UNCHANGED vars

Next == GemDOS_SFirst_Filter \/ GemDOS_SFirst_Count \/ Done

Spec == Init /\ [][Next]_vars

-----------------------------------------------------------------------------
(***************************************************************************)
(* Properties                                                               *)
(***************************************************************************)

\* Type invariant.
TypeOK ==
    /\ mask \in Masks
    /\ listing \in Seq(Names) /\ Len(listing) <= MaxEntries
    /\ found \in [1 .. Len(listing) -> Names]
    /\ i \in 1 .. Len(listing) + 1
    /\ j \in 0 .. i - 1
    /\ nentries \in 0 .. Len(listing) \cup {Unset}
    /\ D0 \in {GEMDOS_EOK, GEMDOS_EFILNF, Unset}

(***************************************************************************)
(* The in-place compaction of the scandir array (found is files, and the  *)
(* loop writes found[j] while it reads files[i]) leaves in the first      *)
(* nentries places exactly the listed entries match accepts, in alphasort *)
(* order, so GemDOS_SNext returns them sorted and none twice.              *)
(***************************************************************************)
FoundIsSelection ==
    nentries # Unset =>
        SubSeq(found, 1, nentries) = SelectSeq(listing, LAMBDA e : match(mask, e))

(***************************************************************************)
(* Every entry the search returns matches the mask under the GEMDOS       *)
(* wildcard semantics, and no entry starting with '.' ("." and ".." that  *)
(* scandir lists) is ever returned.                                        *)
(***************************************************************************)
MatchSound ==
    nentries # Unset => \A k \in 1 .. nentries : WildcardSpec(mask, found[k])

=============================================================================
