CONSTANTS
  j1 = j1  j2 = j2  d1 = d1  d2 = d2  d3 = d3
  Jobs <- TwoJobs
  Dispatches <- TwoDispatches
  Paths = {"local"}
  Path <- All_local
  Class <- OneClass
  Capacity <- OneSlot
  MaxAttempts = 2
  WebhookMode = TRUE
  OrphanSweep = FALSE
  RetryEnabled = FALSE
  Moves = {"names are reused"}
  NoJob = NoJob  NoRunner = NoRunner  Foreign = Foreign
SPECIFICATION RecoverySpec
CHECK_DEADLOCK FALSE
PROPERTIES NotStranded
