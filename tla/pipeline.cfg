SPECIFICATION Spec
CONSTANTS
  ConfirmThreshold = 2
  RecoveryThreshold = 1
  FailureThreshold = 1
  MinDwell = 0
  Service = {s1, s2}
  Admin = {a1}
  Hook = {h1}
  Poller = poller
  NoOne = NoOne
  Targets = {"operational", "degraded"}
  Observations = {"operational", "degraded"}
  SloEnabled = FALSE
  MayFail = FALSE
  MayCrash = TRUE
SYMMETRY AnyRequest
INVARIANTS
  RowMatchesLog
  CommitsOwnWork
