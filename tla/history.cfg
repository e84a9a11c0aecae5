SPECIFICATION Spec
CONSTANTS
  FastShort = 1
  FastLong = 2
  SlowShort = 2
  SlowLong = 3
  Month = 5
  SloTarget = 9000
  FastThreshold = 6
  SlowThreshold = 4
  Bad = {"degraded", "major_outage"}
  Writer = {poller, request}
  Handler = {h1, h2}
  User = {u1, u2}
  ReportAfter = 1
  DedupWindow = 1
  Webhook = TRUE
  SlackMayFail = TRUE
  Bounds <- Explored
SYMMETRY Symmetric
INVARIANTS
  UptimeIsHonest
  AcksAreEarned
  TypeOK
  OutageBurns
  BurnAlertsAreSpaced
  ReportIsTrue
PROPERTIES
  ImplementsAcknowledgement
