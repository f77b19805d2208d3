SPECIFICATION ReloadFairSpec
CONSTANTS
  Files <- MCFiles
  File0 <- MCFile0
  Inst = {0, 1, 2, 3}
INVARIANTS
  ReloadTypeOK
  ActiveMatchesConfig
  NoGoroutineLeak
  StopsOnce
PROPERTIES
  UnchangedStreamKept
  ReloadApplied
  ShutdownEnds
