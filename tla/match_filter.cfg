\* Fsfirst name filter over every mask of up to 3 characters and every
\* directory of up to 3 entries of up to 2 characters.
CONSTANTS
    NameChars <- MCNameChars
    MaskChars <- MCMaskChars
    Upper <- MCUpper
    Byte <- MCByte
    MaxNameLen = 2
    MaxMaskLen = 3
    MaxEntries = 3
    Unset = Unset
SPECIFICATION Spec
INVARIANT TypeOK
INVARIANT FoundIsSelection
INVARIANT MatchSound
