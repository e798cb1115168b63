\* Save-state restore drops the table without fclose: the host streams leak.
CONSTANTS
  MAX_FILE_HANDLES = 2
  BASE_FILEHANDLE = 6
  f1 = f1
  f2 = f2
  Files <- MCFiles
  ReadOnlyFiles <- MCReadOnlyFiles
  MaxLen = 2
  Lengths = {1, 2}
  Offsets = {0, 1, 7}
  GuestBits = 3
  LongIsWide = FALSE
  HostFdLimit = 3
  NoFile = NoFile
  NULL = NULL
  Unset = Unset
SPECIFICATION Spec
VIEW StateView
INVARIANT StreamsAccounted
