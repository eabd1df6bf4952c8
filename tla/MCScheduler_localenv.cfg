CONSTANTS
  j1 = j1  j2 = j2  d1 = d1  d2 = d2  d3 = d3
  Jobs <- OneJob
  Dispatches <- TwoDispatches
  Paths = {"local"}
  Path <- All_local
  Class <- OneClass
  Capacity <- TwoSlots
  MaxAttempts = 2
  WebhookMode = TRUE
  OrphanSweep = TRUE
  RetryEnabled = FALSE
  Moves = {"runner ages", "stamps expire", "poll repeats"}
  NoJob = NoJob  NoRunner = NoRunner  Foreign = Foreign
SPECIFICATION Spec
SYMMETRY SymAll
CHECK_DEADLOCK FALSE
INVARIANT NothingLeftBehind
