\* Directory search with process switches and host changes; programs call Fsnext only on their live searches.
CONSTANTS
  MAX_DTAS_FILES = 2
  d1 = d1
  d2 = d2
  p1 = p1
  p2 = p2
  DTAs <- MCDTAs
  Procs <- MCProcs
  Names <- MCNames
  Masks <- MCMasks
  HostChanges = TRUE
  ContinueAfterRestore = FALSE
  FsnextOn = "live"
  NoSearch = NoSearch
  Garbage = Garbage
  Unset = Unset
  NULL = NULL
  Volume = Volume
  NoName = NoName
SPECIFICATION CallsSpec
VIEW StateView
INVARIANT TypeOK
PROPERTY SearchIsolation
