SPECIFICATION Spec
CONSTANTS
  Event = {e1}
  EventDays = 2
  AlertDays = 2
  Period = 1
  DedupDays = 1
  BackupDays = 1
  MayFail = FALSE
  MayRestart = FALSE
INVARIANTS
  OldRowsGo
