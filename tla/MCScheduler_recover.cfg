CONSTANTS
  j1 = j1  j2 = j2  d1 = d1  d2 = d2  d3 = d3
  Jobs <- OneJob
  Dispatches <- TwoDispatches
  Paths = {"linux"}
  Path <- All_linux
  Class <- OneClass
  Capacity <- OneSlot
  MaxAttempts = 2
  WebhookMode = TRUE
  OrphanSweep = FALSE
  RetryEnabled = TRUE
  Moves = {"operator cordons", "slot wait gives up", "claim fails", "create fails", "job times out", "runner exits idle", "poll repeats", "delivery is lost", "names are reused"}
  NoJob = NoJob  NoRunner = NoRunner  Foreign = Foreign
SPECIFICATION RecoverySpec
CHECK_DEADLOCK FALSE
INVARIANTS SlotAccounting PendingHasDispatch
PROPERTIES SlotComesBack NotStranded CordonQuiesces
