CONSTANTS
  j1 = j1  j2 = j2  d1 = d1  d2 = d2  d3 = d3
  Jobs <- TwoJobs
  Dispatches <- TwoDispatches
  Paths = {"macos"}
  Path <- All_macos
  Class <- OneClass
  Capacity <- TwoSlots
  MaxAttempts = 1
  WebhookMode = TRUE
  OrphanSweep = TRUE
  RetryEnabled = FALSE
  Moves = {"create fails", "macOS not installed", "macOS pool full", "runner ages", "job is cancelled"}
  NoJob = NoJob  NoRunner = NoRunner  Foreign = Foreign
SPECIFICATION Spec
SYMMETRY SymAll
CHECK_DEADLOCK FALSE
INVARIANTS NothingLeftBehind
PROPERTIES BoundRunnerSpared
