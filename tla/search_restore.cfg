\* Directory search with save states, one process: a program continues its search after a restore.
CONSTANTS
  MAX_DTAS_FILES = 2
  d1 = d1
  d2 = d2
  p1 = p1
  p2 = p2
  DTAs <- MCDTAs
  Procs <- MCOneProc
  Names <- MCNames
  Masks <- MCMasks
  HostChanges = FALSE
  ContinueAfterRestore = TRUE
  FsnextOn = "live"
  NoSearch = NoSearch
  Garbage = Garbage
  Unset = Unset
  NULL = NULL
  Volume = Volume
  NoName = NoName
SPECIFICATION Spec
VIEW StateView
PROPERTY SearchIsolation
