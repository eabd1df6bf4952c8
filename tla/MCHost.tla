------------------------------- MODULE MCHost --------------------------------
(***************************************************************************)
(* The daemon's parts around the containers: the retry queue, the macOS    *)
(* VMs, the package caches, the Actions cache, the image collector, the    *)
(* upgrade, start-up and shutdown, the way to GitHub, and the runner for   *)
(* the other forges.  One of them moves, the others stay as they started.  *)
(***************************************************************************)
EXTENDS Focus, RetryQueue, MacPool, MacImage, PkgCache, PkgIndex, ModuleCache,
        CargoProxy, CargoEntry, ActionsCache, CacheDownload, ImageGC,
        CacheImages, Upgrade, Daemon, JobIntake, AppToken, Cloudflared,
        ForgeRunner

Ladder == <<1, 2>>

hostVars == <<retryVars, poolVars, macImageVars, pkgVars, idxVars, modVars,
              cargoVars, crateVars, acVars, dlVars, gcVars, cacheVars,
              upgradeVars, daemonVars, intakeVars, tokenVars, cfVars, frVars>>

HostParts == {"retry", "macpool", "macimage", "pkgcache", "pkgindex",
              "modules", "cargo", "crates", "actions", "download", "imagegc",
              "images", "upgrade", "daemon", "intake", "token", "tunnel",
              "forge"}

\* A component that does not move has one initial state.
HostInit ==
  /\ RetryInit
  /\ PoolInit
  /\ MacImageInit
  /\ PkgInit /\ (focus # "pkgcache" => ~immutable)
  /\ IndexInit
  /\ ModuleInit
  /\ CargoInit
  /\ CrateInit /\ (focus # "crates" => ~fixed)
  /\ ActionsInit
  /\ DownloadInit /\ (focus # "download" => layers = <<>> /\ range = <<NoBound, NoBound>>)
  /\ ImageGCInit
  /\ CacheInit
  /\ UpgradeInit
  /\ DaemonInit
  /\ IntakeInit /\ (focus # "intake" => hookMode = "tunnel")
  /\ TokenInit
  /\ CfInit /\ (focus # "tunnel" => cfHost = "linux")
  /\ ForgeInit

HostFrozen ==
  /\ focus # "retry" => UNCHANGED retryVars
  /\ focus # "macpool" => UNCHANGED poolVars
  /\ focus # "macimage" => UNCHANGED macImageVars
  /\ focus # "pkgcache" => UNCHANGED pkgVars
  /\ focus # "pkgindex" => UNCHANGED idxVars
  /\ focus # "modules" => UNCHANGED modVars
  /\ focus # "cargo" => UNCHANGED cargoVars
  /\ focus # "crates" => UNCHANGED crateVars
  /\ focus # "actions" => UNCHANGED acVars
  /\ focus # "download" => UNCHANGED dlVars
  /\ focus # "imagegc" => UNCHANGED gcVars
  /\ focus # "images" => UNCHANGED cacheVars
  /\ focus # "upgrade" => UNCHANGED upgradeVars
  /\ focus # "daemon" => UNCHANGED daemonVars
  /\ focus # "intake" => UNCHANGED intakeVars
  /\ focus # "token" => UNCHANGED tokenVars
  /\ focus # "tunnel" => UNCHANGED cfVars
  /\ focus # "forge" => UNCHANGED frVars

HostMoves ==
  \/ focus = "retry" /\ RetryNext
  \/ focus = "macpool" /\ PoolNext
  \/ focus = "macimage" /\ MacImageNext
  \/ focus = "pkgcache" /\ PkgNext
  \/ focus = "pkgindex" /\ IndexNext
  \/ focus = "modules" /\ ModuleNext
  \/ focus = "cargo" /\ CargoNext
  \/ focus = "crates" /\ CrateNext
  \/ focus = "actions" /\ ActionsNext
  \/ focus = "download" /\ DownloadNext
  \/ focus = "imagegc" /\ ImageGCNext
  \/ focus = "images" /\ CacheNext
  \/ focus = "upgrade" /\ UpgradeNext
  \/ focus = "daemon" /\ DaemonNext
  \/ focus = "intake" /\ IntakeNext
  \/ focus = "token" /\ TokenNext
  \/ focus = "tunnel" /\ CfNext
  \/ focus = "forge" /\ ForgeNext

\* The components that must never come to a halt: for them deadlock is checked.
HostNeverHalt == {"pkgindex", "macimage", "daemon", "retry", "macpool"}

HostNext ==
  /\ HostFrozen /\ UNCHANGED focus
  /\ HostMoves \/ (focus \notin HostNeverHalt /\ UNCHANGED hostVars)

HostStart == focus \in HostParts /\ HostInit

HostSpec ==
  /\ HostStart
  /\ [][HostNext]_<<focus, hostVars>>

\* The state of the component that moves is of its type.
HostTypeOK ==
  /\ focus = "retry" => RetryTypeOK
  /\ focus = "macpool" => PoolTypeOK
  /\ focus = "macimage" => MacImageTypeOK
  /\ focus = "pkgcache" => PkgTypeOK
  /\ focus = "pkgindex" => IndexTypeOK
  /\ focus = "modules" => ModuleTypeOK
  /\ focus = "cargo" => CargoTypeOK
  /\ focus = "crates" => CrateTypeOK
  /\ focus = "actions" => ActionsTypeOK
  /\ focus = "download" => DownloadTypeOK
  /\ focus = "imagegc" => GcTypeOK
  /\ focus = "images" => CacheTypeOK
  /\ focus = "upgrade" => UpgradeTypeOK
  /\ focus = "daemon" => DaemonTypeOK
  /\ focus = "intake" => IntakeTypeOK
  /\ focus = "token" => TokenTypeOK
  /\ focus = "tunnel" => CfTypeOK
  /\ focus = "forge" => ForgeTypeOK

-----------------------------------------------------------------------------
(* A VM whose stop was walked away from is charged once, and no disk clone  *)
(* is taken from a live VM (MacPool, MacVM).                                *)
VmsAccounted == ChargedOnce /\ LiveHasFiles

(* What pulled-through packages promise their clients: both caches refine   *)
(* PullThrough, over evictions, broken downloads and deaths of the daemon.  *)
CachesKeepPromise == KeepsPromise /\ CrateKeepsPromise

(* What a cache believes of itself agrees with what is on disk: validators  *)
(* with bodies, the index with the files and its budget, the Cargo config   *)
(* with the flag that guards it (PkgCache, PkgIndex, CargoProxy).           *)
CachesConsistent ==
  /\ focus = "pkgcache" => MetaNeverAhead /\ BodyIndexed
  /\ focus = "pkgindex" => TotalExact /\ BudgetKept /\ NeverUnderestimates
  /\ focus = "cargo" => ConfigAgrees /\ NoUnreadWhileDraining

(* A cached entry is never half an entry: modules, index files, saved       *)
(* archives, and the ranges served from them (ModuleCache, CargoEntry,      *)
(* ActionsCache, CacheDownload).                                            *)
EntriesWhole ==
  /\ focus = "modules" => CachedIsWhole /\ TempsOwned
  /\ focus = "crates" => SidecarNeverAhead
  /\ focus = "actions" => SavedWhole /\ UploadsAgree
  /\ focus = "download" => RangeExact /\ RangeWithin

(* The collector takes no image that it saw in use, a mirrored image is     *)
(* complete whatever the leases of the mirrors hold of it, and a macOS      *)
(* image is whole, provisioned and never fetched twice (ImageGC,            *)
(* CacheImages, MacImage).                                                  *)
ImagesKept ==
  /\ [](focus = "imagegc" => LiveKept)
  /\ [](focus = "images" => MirrorWhole)
  /\ [](focus = "macimage" => ImageWhole /\ ReadyIsProvisioned) /\ LayersKept

(* Start-up, shutdown and upgrade keep their order: no job without its      *)
(* firewall and its services, none interrupted by an upgrade whose drain    *)
(* held, a binary to start at every instant while no two upgrades swap at   *)
(* once, and an end to every signalled daemon (Daemon, Upgrade).            *)
DaemonOrdered ==
  /\ [](focus = "daemon" => JobsContained /\ ServicesOutliveJobs /\ AdvertisedAnswers) /\ SignalEnds
  /\ [](focus = "upgrade" => SwapRecoverable /\ DrainedFirst)

(* What the forges hold of this node is right: while the daemon serves a    *)
(* repository over webhooks its hook is there, its own hooks are withdrawn  *)
(* in the end and a pool's are left to the others of the pool (JobIntake);  *)
(* a task's log has no row lost or doubled, and its result is what its      *)
(* steps made of it (ForgeRunner).                                          *)
ForgesToldRight ==
  /\ [](focus = "intake" => ServingIsHooked /\ HooksWithdrawn) /\ SharedHooksKept
  /\ [](focus = "forge" => LogExact /\ ResultTrue)

(* No API call is sent with an expired token, and at most one tunnel client *)
(* of the daemon is left running (AppToken, Cloudflared).                   *)
TokenAndTunnelSafe ==
  /\ [](focus = "token" => ServedFresh /\ LoopRenewsFirst)
  /\ [](focus = "tunnel" => OneClient /\ OwnListener /\ CloseLeavesNothing)
=============================================================================
