----------------------------- MODULE MCProgress -----------------------------
(***************************************************************************)
(* What must happen in the end, in every component that promises it (the   *)
(* runtime's promise is checked with MCContainers): the fairness is that   *)
(* of the component's own specification, for the one that moves.           *)
(***************************************************************************)
EXTENDS MCContainers, MCHost

Promising == {"retry", "macpool", "macimage", "linuxvm", "dispatch", "dind",
              "walk", "build", "records", "pkgcache", "modules", "cargo",
              "crates", "actions", "imagegc", "images", "upgrade", "intake",
              "token", "tunnel", "forge"}

ContainersFairness ==
  /\ WF_linuxVMVars(focus = "linuxvm" /\ VmStep)
  /\ WF_linuxVMVars(focus = "linuxvm" /\ monitorVM)
  /\ WF_dispatchVars(focus = "dispatch" /\ readStatsLoop)
  /\ \A r \in Runners :
       /\ WF_dispatchVars(focus = "dispatch" /\ HostStep(r))
       /\ WF_dispatchVars(focus = "dispatch" /\ CreateJob(r))
  /\ WF_dindVars(focus = "dind" /\ StopStep)
  /\ \A c \in Cids :
       /\ WF_dindVars(focus = "dind" /\ HandlerStep(c))
       /\ WF_dindVars(focus = "dind" /\ ExitSeen(c))
       /\ WF_dindVars(focus = "dind" /\ HangUp(c))
       /\ WF_dindVars(focus = "dind" /\ WaitReturns(c))
  /\ WF_walkVars(focus = "walk" /\ BindWalkStep)
  /\ WF_buildVars(focus = "build" /\ CloseReturns)
  /\ \A b \in Builds : WF_buildVars(focus = "build" /\ BuildStep(b))
  /\ WF_recordVars(focus = "records" /\ RecordSweep)
  /\ \A j \in RecordJobs : WF_recordVars(focus = "records" /\ BuildGrace(j))

HostFairness ==
  /\ WF_retryVars(focus = "retry" /\ Tick)
  /\ WF_retryVars(focus = "retry" /\ Scan)
  /\ WF_retryVars(focus = "retry" /\ Woken)
  /\ SF_retryVars(focus = "retry" /\ fireDue)
  /\ WF_poolVars(focus = "macpool" /\ Sweep)
  /\ \A v \in VMs :
       /\ WF_poolVars(focus = "macpool" /\ PoolStep(v))
       /\ WF_poolVars(focus = "macpool" /\ discharge(v))
       /\ WF_poolVars(focus = "macpool" /\ StopForces(v) /\ UNCHANGED poolOnly)
       /\ WF_poolVars(focus = "macpool" /\ teardownMacVMFiles(v) /\ UNCHANGED poolOnly)
  /\ WF_macImageVars(focus = "macimage" /\ MacImageStep)
  /\ WF_pkgVars(focus = "pkgcache" /\ EvictStep)
  /\ \A c \in Clients : WF_pkgVars(focus = "pkgcache" /\ ClientStep(c))
  /\ \A f \in Fetches : WF_modVars(focus = "modules" /\ FetchStep(f))
  /\ WF_cargoVars(focus = "cargo" /\ DogStep)
  /\ WF_cargoVars(focus = "cargo" /\ CargoStopStep)
  /\ \A c \in Conns : WF_cargoVars(focus = "cargo" /\ trackConn(c))
  /\ \A c \in Crates : WF_crateVars(focus = "crates" /\ CrateStep(c))
  /\ \A t \in Tokens : WF_acVars(focus = "actions" /\ expire(t))
  /\ WF_gcVars(focus = "imagegc" /\ GcStep)
  /\ WF_gcVars(focus = "imagegc" /\ collect(FALSE))
  /\ WF_gcVars(focus = "imagegc" /\ Scheduled)
  /\ WF_cacheVars(focus = "images" /\ RepairStep)
  /\ \A m \in Mirrors : WF_cacheVars(focus = "images" /\ MirrorStep(m))
  /\ \A u \in Upgrades : WF_upgradeVars(focus = "upgrade" /\ upAt[u] # "new" /\ UpgradeStep(u))
  /\ WF_intakeVars(focus = "intake" /\ IntakeStep)
  /\ WF_intakeVars(focus = "intake" /\ CatchUpPoll)
  /\ \A c \in Callers :
       /\ WF_tokenVars(focus = "token" /\ LookAgain(c))
       /\ WF_tokenVars(focus = "token" /\ CallerExchange(c))
       /\ WF_tokenVars(focus = "token" /\ ReadToken(c))
       /\ SF_tokenVars(focus = "token" /\ LockRefresh(c))
  /\ \A p \in Exchangers : WF_tokenVars(focus = "token" /\ Mint(p))
  /\ WF_cfVars(focus = "tunnel" /\ waitForReady)
  /\ WF_cfVars(focus = "tunnel" /\ openLn = 0 /\ closeTunnel)
  /\ WF_cfVars(focus = "tunnel" /\ SignalChild)
  /\ WF_cfVars(focus = "tunnel" /\ WaitDone)
  /\ WF_cfVars(focus = "tunnel" /\ WaitTimesOut)
  /\ \A k \in Kids :
       /\ WF_cfVars(focus = "tunnel" /\ WaiterReads(k))
       /\ WF_cfVars(focus = "tunnel" /\ WaiterActs(k))
  /\ WF_frVars(focus = "forge" /\ ForgeStep)

ProgressNext ==
  /\ ContainersFrozen /\ HostFrozen /\ UNCHANGED focus
  /\ ContainersMoves \/ HostMoves

ProgressStart == focus \in Promising /\ ContainersInit /\ HostInit

ProgressSpec ==
  /\ ProgressStart
  /\ [][ProgressNext]_<<focus, containersVars, hostVars>>
  /\ ContainersFairness /\ HostFairness


-----------------------------------------------------------------------------
(* The macOS pool recovers: slots come back, a wedged VM's charge goes when *)
(* its stop returns, and disk clones go once their VM is over (MacPool).    *)
PoolLetsGo == PoolSlotsBack /\ PoolRecovers /\ FilesGo

(* What a job waits for ends: the Linux VM's start and stop, a remote       *)
(* runner's exit, the status of a sibling container, the stop of its Docker *)
(* daemon, the walk to a bind, its build, and its record's removal.         *)
JobsSettle ==
  /\ VmSettles /\ SlotComesBack /\ SeriesFollow
  /\ StatusSettles /\ DindStopReturns /\ WalkEnds
  /\ BuildAnswered /\ DeadRecordGoes

(* A request to a cache is answered whatever another request, an eviction   *)
(* or upstream does; a wedged proxy is taken out of the jobs' way and given *)
(* back, and stops when told to; an abandoned reservation expires.          *)
CachesAnswer ==
  /\ RequestEnds /\ FetchEnds /\ CrateServed
  /\ WedgeWithdrawn /\ Restored /\ CargoStops /\ ReservationEnds

(* What the host has to deal with in the end it deals with: disk pressure,  *)
(* broken images, an upgrade's cordon, the macOS image, a lost tunnel, a    *)
(* queued job it was not told of, a caller waiting for a token, a crashed   *)
(* tunnel client, and a task of another forge.                              *)
HostSettles ==
  /\ PressureAnswered /\ BrokenGoes /\ CordonReleased /\ ImageArrives
  /\ TunnelSettles /\ QueuedHeard /\ TokenReturns /\ CrashNoticed
  /\ TaskFetched /\ RunnerEnds
=============================================================================
