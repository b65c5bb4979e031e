CONSTANTS
  Procs = {p1}
  Serial = TRUE
  DenyWrite = FALSE
  FlushMayFail = FALSE
  MaxVersions = 3
  MaxSessions = 4
SPECIFICATION Spec
INVARIANTS
  TypeOK
  OpenNeverCorrupt
  FoundVersionsWhole
  AckedReadable
PROPERTIES
  OldVersionsKept
  ImplementsLog
