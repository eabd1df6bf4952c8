CONSTANTS
  a1 = a1  a2 = a2  a3 = a3  g1 = g1  g2 = g2  g3 = g3  j1 = j1  j2 = j2
  Envs = {e1}  NoEnv = none  GraceCoversCreate = TRUE  MaxRestarts = 0  MaxFails = 0
  Keys = {k1}  Schedule <- Ladder  MaxAge = 2  Jitter = 5  ResetSlack = 1  Hints = {2} 
  NoHint = none  MaxDelay = 3  MaxFiring = 2
  VMs = {c1}  ForceMayFail = TRUE  MaxMacOSVMs = 1  AbandonedCap = 1
  Layers = 2  LayerRetries = 2  MaxPushes = 1  MaxPullErrs = 2  MaxPullKills = 1
  MaxSchema = 1  MaxVmKills = 1
  Runners = {c1}  MaxRpcFaults = 1
  Cids = {c1}  MaxDFails = 0
  Boxes = {b1}  NetIds = {n1, n2, n3}  NetNames = {a, b}  Bridge = bridge  FirstOctet = 18 
  LastOctet = 19  MaxIP = 2
  StageJobs = {j1, j2}  MaxBinds = 2
  MaxPath = 2  MaxTarget = 2  MaxLinks = 2
  Builds = {c1}  BuildKeys = {k1}  MaxPoisoned = 1  MaxCoreFails = 1
  RecordJobs = {c1, c2}
  Attachments <- ThreeAttachments  JobOfAtt <- TwoOneJob  Addrs = {x, y}  SetupAttempts = 2 
  MaxNetErrs = 1
  Guests = {g1, g2, g3}  Twins <- OneTwin  GatewayPorts <- OnGateway  ControlPorts <- OnControl 
  MaxStarts = 2
  Endpoints = {e1, e2}  AddrBits = 4  HostAddr = 9  Router = 8  PoolSpecs <- Pools  LanOnes = 1 
  MaxHcnErrs = 1  MaxKills = 1
  Clients = {c1}  MaxVersion = 2  MaxCrashes = 1  MaxStuck = 1
  IndexKeys = {k1, k2, k3}  Budget = 4  LowWater = 3  MaxSize = 2
  Fetches = {c1, c2}  MaxPrunes = 1  MaxModCrash = 0
  Conns = {c1}  Threshold = 2  MaxWedges = 1  MaxWriteFails = 1
  Crates = {c1, c2}  MaxRelease = 2  MaxDeaths = 1
  Savers = {s1}  Blocks = {b1}  MaxTokens = 1
  MaxLayer = 2  MaxLayers = 1
  Imgs = {i2}  Pinned = {}  Built = {i2}  Layered = {i2}  Disk = 3  High = 3  Low = 1 
  MinFree = 1  TargetFree = 2  AgePass = TRUE  MaxOther = 1  MaxRare = 1
  Mirrors = {c1}  Blobs = {b1}  Manifest = b1  MaxCacheErrs = 1
  Upgrades = {c1}  RestartAttempts = 2  MaxDaemonDeaths = 1
  NetAttempts = 1  MaxJobs = 0
  HookRepos = 2  Urls = {1, 2}  PolicyRepos = {1}  TunnelRetries = 2  MaxDrops = 1 
  MaxApiErrs = 1  MaxRuns = 1
  Callers = {c1}  Life = 4  LoopMargin = 3  CallMargin = 1  MaxLate = 1  MaxClock = 5 
  MaxExchErrs = 1
  MaxChildren = 2  MaxCfFaults = 4
  Steps = 2  MaxForgeTasks = 1  MaxForgeErrs = 1
SPECIFICATION ProgressSpec
PROPERTIES
  RetryResolved PoolLetsGo JobsSettle CachesAnswer HostSettles
CHECK_DEADLOCK FALSE
