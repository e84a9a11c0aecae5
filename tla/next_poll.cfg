SPECIFICATION Spec
CONSTANTS
  ConfirmThreshold = 3
  RecoveryThreshold = 2
  FailureThreshold = 1
  MinDwell = 0
  Service = {s1}
  Admin = {a1}
  Hook = {}
  Poller = poller
  NoOne = NoOne
  Targets = {"operational", "degraded"}
  Observations = {"operational", "degraded"}
  SloEnabled = FALSE
  MayFail = FALSE
  MayCrash = FALSE
PROPERTIES
  NextPollDefersToOperator
