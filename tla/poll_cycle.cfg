SPECIFICATION FairSpec
CONSTANTS
  ConfirmThreshold = 1
  RecoveryThreshold = 1
  MinDwell = 0
  FailureThreshold = 2
  Service = {"a", "b", "c"}
  Named = {"a"}
  Url = {"u1", "u2"}
  Host = {"h"}
  UrlOf <- Places
  HostOf <- OneHost
  Place <- Order
  Configuration <- Estates
  Page <- Pages
  BreakerThreshold = 2
  BreakerTtl = 1
  Attempts = 2
INVARIANTS
  WorstIsRead
  BlindnessIsTold
PROPERTIES
  OpensOnFailures
  GroupsAreIsolated
  VendorIsHeard
  AbsenceIsNoticed
