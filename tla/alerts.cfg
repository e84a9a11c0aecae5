SPECIFICATION Spec
CONSTANTS
  Poller = poller
  Request = {}
  Service <- Estate
  Depends <- EstateDepends
  TierOf <- EstateTiers
  Bad = {"degraded"}
  VendorIncident = {}
  Override = {}
  MainWebhook = TRUE
  CorrelationThreshold = 1
  BatchThreshold = 1
  Maintained = {"wiki"}
  SlackMayFail = FALSE
  MayFail = FALSE
  MayCrash = FALSE
  MaxEvents = 4
  MaxClock = 0
INVARIANTS
  SilencedHasHeadline
  RecoveryIsTold
  ToldOnce
  FiredMeansSent
VIEW Watched
