CONSTANTS
  Procs = {p1, p2}
  Serial = FALSE
  DenyWrite = TRUE
  FlushMayFail = FALSE
  MaxVersions = 3
  MaxSessions = 3
SPECIFICATION Spec
INVARIANT WrittenStays
