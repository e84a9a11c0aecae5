SPECIFICATION Spec
CONSTANTS
  ConfirmThreshold = 3
  RecoveryThreshold = 2
  FailureThreshold = 3
  MinDwell = 2
INVARIANTS
  HealthIsTold
PROPERTIES
  NewsIsNews
  ImplementsConfirmedStatus
  VendorIsBelieved
