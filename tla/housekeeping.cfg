SPECIFICATION Spec
CONSTANTS
  Event = {e1, e2}
  EventDays = 4
  AlertDays = 1
  Period = 2
  DedupDays = 1
  BackupDays = 2
  MayFail = TRUE
  MayRestart = TRUE
SYMMETRY AnyEvent
INVARIANTS
  OldRowsGo
  ABackupRemains
PROPERTIES
  DedupMemoryKept
