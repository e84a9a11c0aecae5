SPECIFICATION Spec
CONSTANTS
  Poller = poller
  Request = {r1}
  Service <- Alone
  Depends <- NoDepends
  TierOf <- AloneTiers
  Bad = {"degraded"}
  VendorIncident = {}
  Override = {}
  MainWebhook = TRUE
  CorrelationThreshold = 1
  BatchThreshold = 1
  Maintained = {}
  SlackMayFail = TRUE
  MayFail = TRUE
  MayCrash = TRUE
  MaxEvents = 3
  MaxClock = 1
INVARIANTS
  AuditTrail
  WriteAhead
  RepeatsAreConcurrent
VIEW Watched
