SPECIFICATION FairSpec
CONSTANTS
  ConfirmThreshold = 2
  RecoveryThreshold = 2
  FailureThreshold = 1
  MinDwell = 0
  Service = {s1}
  Admin = {a1}
  Hook = {}
  Poller = poller
  NoOne = NoOne
  Targets = {"operational", "degraded"}
  Observations = {"degraded"}
  SloEnabled = TRUE
  MayFail = TRUE
  MayCrash = TRUE
INVARIANTS
  NoAlertBeforeCommit
PROPERTIES
  EveryoneFinishes
  VendorIsBelieved
