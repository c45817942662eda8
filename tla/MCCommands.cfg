CONSTANTS
  Runs = {r1, r2, r3}
  NoRun = NoRun
  Limit = 2
  Faults = TRUE
  Loops = {f1, f2}
  NoLoop = NoLoop
  MaxCount = 2
  Restarts = TRUE
SPECIFICATION CommandsSpec
SYMMETRY Symmetry
INVARIANTS
  CommandsTypeOK
  PublishedWhole
  NothingLeft
  BackupOffline
  Supervised
  FailuresEndWell
  CreationsOnRecord
PROPERTIES
  NeverReplaced
