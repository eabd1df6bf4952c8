CONSTANTS
  a1 = a1  a2 = a2  a3 = a3  g1 = g1  g2 = g2  g3 = g3  j1 = j1  j2 = j2
  Envs = {e1}  NoEnv = none  GraceCoversCreate = TRUE  MaxRestarts = 1  MaxFails = 1
  MaxSchema = 2  MaxVmKills = 2
  Runners = {r1, r2}  MaxRpcFaults = 1
  Cids = {k1}  MaxDFails = 1
  Boxes = {b1}  NetIds = {n1, n2, n3}  NetNames = {a, b}  Bridge = bridge  FirstOctet = 18 
  LastOctet = 19  MaxIP = 2
  StageJobs = {j1, j2}  MaxBinds = 2
  MaxPath = 2  MaxTarget = 2  MaxLinks = 2
  Builds = {b1, b2}  BuildKeys = {k1}  MaxPoisoned = 1  MaxCoreFails = 1
  RecordJobs = {j1, j2}
  Attachments <- ThreeAttachments  JobOfAtt <- TwoOneJob  Addrs = {x, y}  SetupAttempts = 2 
  MaxNetErrs = 1
  Guests = {g1, g2, g3}  Twins <- OneTwin  GatewayPorts <- OnGateway  ControlPorts <- OnControl 
  MaxStarts = 2
  Endpoints = {e1, e2}  AddrBits = 4  HostAddr = 9  Router = 8  PoolSpecs <- Pools  LanOnes = 1 
  MaxHcnErrs = 1  MaxKills = 1
SPECIFICATION FairContainersSpec
INVARIANTS
  ContainersTypeOK PassSparesOld ReapSparesRunning DindStopped FailsClosed
  DindKeepsItsOwn BindsApart BuildsUnharmed JobsIsolated PolicyHolds AddressesOwned RemoteRunnersOwned
PROPERTIES
  LeftoversGo
