CONSTANTS
  j1 = j1  j2 = j2  d1 = d1  d2 = d2  d3 = d3
  Jobs <- OneJob
  Dispatches <- TwoDispatches
  Paths = {"linux"}
  Path <- All_linux
  Class <- OneClass
  Capacity <- TwoSlots
  MaxAttempts = 1
  WebhookMode = TRUE
  OrphanSweep = FALSE
  RetryEnabled = FALSE
  Moves = {"operator cordons"}
  NoJob = NoJob  NoRunner = NoRunner  Foreign = Foreign
SPECIFICATION Spec
SYMMETRY SymAll
CHECK_DEADLOCK FALSE
PROPERTY NothingRegistersCordoned
