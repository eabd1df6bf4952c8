CONSTANTS
  Keys = {k1, k2}  Schedule <- Ladder  MaxAge = 2  Jitter = 5  ResetSlack = 1  Hints = {2} 
  NoHint = none  MaxDelay = 3  MaxFiring = 2
  VMs = {v1, v2}  ForceMayFail = TRUE  MaxMacOSVMs = 1  AbandonedCap = 1
  Layers = 3  LayerRetries = 2  MaxPushes = 2  MaxPullErrs = 3  MaxPullKills = 2
  Clients = {c1, c2}  MaxVersion = 2  MaxCrashes = 1  MaxStuck = 1
  IndexKeys = {k1, k2, k3}  Budget = 4  LowWater = 3  MaxSize = 2
  Fetches = {f1, f2}  MaxPrunes = 2  MaxModCrash = 1
  Conns = {c1, c2}  Threshold = 2  MaxWedges = 2  MaxWriteFails = 1
  Crates = {c1, c2}  MaxRelease = 2  MaxDeaths = 1
  Savers = {s1, s2}  Blocks = {b1}  MaxTokens = 2
  MaxLayer = 2  MaxLayers = 3
  Imgs = {i1, i2}  Pinned = {}  Built = {i2}  Layered = {i1, i2}  Disk = 3  High = 3  Low = 1 
  MinFree = 1  TargetFree = 2  AgePass = TRUE  MaxOther = 1  MaxRare = 1
  Mirrors = {m1, m2}  Blobs = {b1, b2}  Manifest = b1  MaxCacheErrs = 1
  Upgrades = {u1, u2}  RestartAttempts = 2  MaxDaemonDeaths = 1
  NetAttempts = 2  MaxJobs = 1
  HookRepos = 2  Urls = {1, 2}  PolicyRepos = {1}  TunnelRetries = 2  MaxDrops = 2 
  MaxApiErrs = 2  MaxRuns = 2
  Callers = {c1, c2}  Life = 4  LoopMargin = 3  CallMargin = 1  MaxLate = 1  MaxClock = 7 
  MaxExchErrs = 2
  MaxChildren = 3  MaxCfFaults = 4
  Steps = 2  MaxForgeTasks = 2  MaxForgeErrs = 2
SPECIFICATION HostSpec
INVARIANTS
  HostTypeOK AgeKept NoSilentLeak VmsAccounted CachesConsistent EntriesWhole
PROPERTIES
  CachesKeepPromise ImagesKept DaemonOrdered ForgesToldRight TokenAndTunnelSafe
