\* File handle table without save states, ILP32 host.
CONSTANTS
  MAX_FILE_HANDLES = 2
  BASE_FILEHANDLE = 6
  f1 = f1
  f2 = f2
  Files <- MCFiles
  ReadOnlyFiles <- MCReadOnlyFiles
  MaxLen = 2
  Lengths = {1, 2}
  Offsets = {0, 1, 7}
  GuestBits = 3
  LongIsWide = FALSE
  HostFdLimit = 3
  NoFile = NoFile
  NULL = NULL
  Unset = Unset
SPECIFICATION CallsSpec
VIEW StateView
INVARIANT TypeOK
INVARIANT StreamsAccounted
INVARIANT HandlesStable
