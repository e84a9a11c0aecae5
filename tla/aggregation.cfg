SPECIFICATION Spec
CONSTANTS
  Poller = poller
  Request = {}
  Service <- Estate
  Depends <- EstateDepends
  TierOf <- EstateTiers
  Bad = {"degraded"}
  VendorIncident = {}
  Override = {}
  MainWebhook = TRUE
  CorrelationThreshold = 2
  BatchThreshold = 3
  Maintained = {}
  SlackMayFail = FALSE
  MayFail = FALSE
  MayCrash = FALSE
  MaxEvents = 3
  MaxClock = 0
INVARIANTS
  UpstreamConsolidates
