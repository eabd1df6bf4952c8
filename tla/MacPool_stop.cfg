CONSTANTS
  VMs = {v1, v2}
  ForceMayFail = FALSE
  MaxMacOSVMs = 1
  AbandonedCap = 1
SPECIFICATION PoolSpec
INVARIANT StopMeansDead
