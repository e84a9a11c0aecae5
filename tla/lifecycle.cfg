SPECIFICATION FairSpec
CONSTANTS
  Service = {"a", "b"}
  Tier = {"critical", "important"}
  Scripts <- Migrations
  Files <- Written
  PollEvery = 2
  BeatEvery = 1
  RetainEvery = 3
  StaleAfter = 2
  DegradedAfter = 2
  UnhealthyAfter = 3
  MayCrash = TRUE
INVARIANTS
  VersionIsBacked
  AliveIsNotKilled
PROPERTIES
  StandstillIsSeen
  RestartKeepsStatus
  CleanHistoryMigrates
  ComesUp
  RetentionRuns
