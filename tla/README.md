# A verification project for ephemerd

ephemerd is a single-binary daemon that provides just-in-time CI runners. It
receives "job queued" events from a forge (webhook, poll or both), registers a
single-use runner with the platform, brings up an environment for it (a
container on this host, a container in an embedded Linux VM, or a macOS VM) and
destroys that environment when the runner exits. Everything hard about it
comes from four facts:

* the platform does **not** honour the pairing "this runner for that job": any
  idle runner gets any queued job with its labels;
* the scheduler's mutex is released across every call that leaves the process,
  so each handler is several critical sections with platform and runtime calls
  between them;
* deliveries are lost, repeated and reordered, and calls fail or never return;
* a slot, VM, registration or directory that is forgotten once is lost until
  the daemon restarts.

This directory holds TLA+ models of the parts that carry this logic, the TLC
runs that check them on small instances, and TLAPS proofs. Section 1 is the
inventory, 2 the structure of the project, 3 the modules and the code they
model, 4 the runs, 5 the proofs, 6 to 8 what is only model-checked, where code
and comments disagree, and what is left out.

## 1. Inventory

| component (source) | state | operations | talks to | what is hard | what makes it correct |
|---|---|---|---|---|---|
| job lifecycle (`pkg/scheduler/scheduler.go`, `slots.go`, `busy.go`) | maps `pending`, `seen`, `started`, `attempts`, `running`, `runners`; the cordon flag; three slot semaphores; one goroutine per dispatch | `handleQueued`, the three provisioning paths and their wait goroutines, `handleInProgress`, `handleCompleted`, orphan sweep, cordon, `reprovisionIfStranded` | provider, runtime, dispatch client, macOS VMs, retry queue | several dispatches of one job, teardown from four places, stale reads across I/O | slots are conserved, nothing outlives its goroutine, no live job is killed, no job is stranded, no pending mark outlives its dispatch, and a cordoned node runs dry |
| retry queue (`retry_queue.go`) | heap and index of items, one timer goroutine, attempts in flight | `Add`, `Drop`, `fireDue`, `runOne`, `Run` | scheduler's handlers | re-adding what was dropped, lost wake-ups, leftovers in the index | a due retry fires, the age budget is kept although a dropped job may be added again |
| macOS pool (`slots.go`, `scheduler.go` 1419-1866) | slots, VMs, registry of abandoned VMs | bounded stops, `abandonVM`, `macPoolCordoned` | `pkg/vm` | a stop that never returns, late completion racing the deadline | slots come back although a stop wedges, each VM is charged once, a recovered node serves again |
| Linux dispatch (`dispatch.go`) | worker: `envs` by runner name | `CreateJob`, `WaitJob`, `DestroyJob` | runtime in the VM, host scheduler | lost replies, names that come back | an environment is destroyed by its owner only |
| shutdown of the scheduler (`drain`, `destroyAll`) | running jobs, two contexts | wait, force kill | everything above | dispatches between claim and tracking | nothing survives a clean shutdown |
| providers, GitHub client (`pkg/providers`, `pkg/github`) | tokens, rate snapshot, poll cursors | claim, release, poll, webhook parsing | forge APIs | token expiry, conflicts, rate limits | a claim is released exactly once |
| runtime (`pkg/runtime`) | per job: container, task, snapshot, runner directory, workdir, network, daemon; the provisioning set | `Create`, `Wait`, `Destroy`, `SweepOrphans`, `ReapDeadContainers`, `CleanOrphans` | containerd, networking, dind | failure between any two steps of `Create`, a `Destroy` that hangs, a sweeper that acts on stale reads | no job in flight loses its files or its container, no job runs without its network, what is left is reclaimed |
| fake Docker daemon (`pkg/dind`, 9.4k lines) | containers, execs, networks, port forwards, pinned binds, build scopes of one job | Docker API handlers, `Close` | containerd, BuildKit, networking | handlers racing the job's end | everything a job created goes with the job |
| BuildKit (`pkg/buildkit`, `pkg/dind/buildheal.go`) | solver, cache, heal generation | start, build, heal | containerd | builds in flight during a heal | one heal per corruption, no build on a closed solver |
| image GC, cache prune (`pkg/imagegc`, `pkg/cacheprune`) | image records, last use, disk usage | plan, collect, prune | containerd, jobs | images pulled or used between plan and delete | nothing in use is deleted, pressure is relieved |
| package caches, Actions cache, registry mirror (`pkg/proxies`, `pkg/registrymirror`) | files on disk, flights, reservations | fetch, publish, evict, reserve, finalize | upstreams, OCI registry | concurrent fetches, partial files, scopes | only complete entries are served, one upstream fetch per key |
| self-upgrade (`pkg/upgrade`) | binary, backup, marker, service | download, swap, restart, verify, roll back | service manager | a crash between any two steps | there is always a binary to run |
| VMs (`pkg/vm`) | VM objects, disk clones | start, wait, stop, sweep clones | hypervisors | stop racing wait, clones of live VMs | a live VM's files are never swept |
| networking (`pkg/networking`, `pkg/cni`) | endpoints, rules, subnet | setup, teardown, retry | kernel, HNS | partial setup | every endpoint is released |
| tunnels (`pkg/tunnel`, `pkg/localtunnel`) | tunnel, webhook URL | dial, serve, reconnect | cloudflared, ngrok, localtunnel | reconnects that race shutdown | the registered URL is the live tunnel's |
| forge runner (`pkg/forgerunner`, `pkg/forgerpc`) | task, steps, log offset | fetch, run, report | Gitea, Forgejo | log acknowledgement | log rows are delivered once and in order |
| daemon (`cmd/ephemerd`) | stages that are up, pushed defers, the context | start-up, `initProviders`, signal, unwinding | everything above | failure of any stage, a signal between two stages | no job without its firewall and services, every signalled daemon ends |
| configuration, CLI, metrics, workflow runner, artifacts, job cgroups, runner install, registry mirror | – | – | – | sequential, stateless or pure I/O | not modelled |

The hazards behind the properties are listed, at their lines, in
`PROJECT.json` under `hazards`.

## 2. Structure

The order follows the importance of the behaviour: what every job goes through
first (`Scheduler` and its satellites), then where jobs run, then what they
share, then the edges of the daemon.

| group | modules | run |
|---|---|---|
| the job lifecycle | `Scheduler` | `fungible`, `redispatch`, `recover`, `sibling`, `localenv`, `ghost`, `cordon` over `MCScheduler` |
| where jobs run | `Runtime`, `LinuxVM`, `Dispatch` | `containers` over `MCContainers`, `progress`, `sweeprace` |
| what a job's containers get | `DindServer`, `DindNetworks`, `BindStage`, `BindWalk`, `Build`, `BuildRecords`, `JobNetwork`, `Firewall`, `L2Bridge` | `containers`, `progress` |
| scheduler satellites | `RetryQueue`, `MacVM`, `MacPool`, `MacImage` | `host` over `MCHost`, `progress`, `stopreturns` |
| caches and images | `PullThrough` (abstract), `PkgCache`, `CargoEntry`, `PkgIndex`, `ModuleCache`, `CargoProxy`, `ActionsCache`, `CacheDownload`, `ImageGC`, `CacheImages` | `host`, `progress` |
| the daemon and the forges | `Daemon`, `Upgrade`, `JobIntake`, `AppToken`, `Cloudflared`, `ForgeRunner` | `host`, `progress` |

How they fit together. `MacPool` extends `MacVM` and refines what `Scheduler`
takes as one step (`RefusePool`, `StopBooted`, the stop of a macOS environment).
`RetryQueue` is what `Scheduler` sees as `RetryFires`; `Runtime` is what it sees
as one call that makes or destroys an environment, `Dispatch` the same call made
to the worker in `LinuxVM`; `DindServer` is what `Runtime` starts and stops as
`dindUp`; `JobIntake` and `AppToken` stand behind its deliveries and claims.
`PkgCache` and `CargoEntry` refine `PullThrough`, the abstract specification
of a pull-through cache.

`MCContainers` and `MCHost` compose the components of their group. The
components share no variable: each describes what it gets from the others as
its environment (a failing call, a killed daemon, an ended context), in more
orders than the others produce. `Focus` says which component moves in a
behaviour, so a run explores the sum and not the product of their state
spaces. A property of a composed run names the component it speaks of.

For each component there is a type invariant (a conjunct of `ContainersTypeOK`
or `HostTypeOK`), the safety properties the component exists for, and, where
something must happen in the end, a liveness property in `MCProgress`. Eight
modules hold proofs:

| proofs | of |
|---|---|
| `SchedulerProofs` | `Scheduler` |
| `RetryQueueProofs`, `MacPoolProofs`, `RuntimeProofs` | the component of that name |
| `ContainersProofs` | builds, binds, the fake daemon, the Linux VM and its dispatch, and the types of all of `MCContainers` |
| `NetworkProofs` | `L2Bridge`, `JobNetwork`, `Firewall`, in `MCContainers` |
| `HostProofs` | `MacVM`, `Daemon`, `Upgrade`, `JobIntake`, `AppToken`, `Cloudflared`, `ForgeRunner`, and the types of all of `MCHost` |
| `CacheProofs` | the caches and the image collector, in `MCHost` |

Next worth modelling: the job cgroups with their own sweep, beside `Runtime`.


## 3. Modules

### `Scheduler` — the life of a job

State. The maps guarded by `s.mu` keep their names (`pending`, `seen`,
`started`, `attempts`, `running`, `runners`); `seen` and `age` abstract
timestamps to the classes the code distinguishes (fresh or older than
`seenTTL`; younger than the grace window, past it, past the hard bound).
`running[j]` is the runner name filed under the job; the fields of
`runnerBinding` are `job[d]` (the `intentKey`), `boundTo[d]` and `age[d]`.
`sem` is the length of each semaphore channel and `token[d]` the `slotToken` of
a dispatch. `pc[d]` is the program point of a dispatch goroutine; its wait
goroutine continues under the same `d`. The rest is the world: `env` (container
or VM), `exec` (the job a runner executes), `registered` (runners the platform
knows), `jobState`, and `events` (deliveries and spawned goroutines that have
not run yet).

Actions. One per critical section or external call, in the order of the code:

| code | actions |
|---|---|
| `handleQueued` | `DeliverQueued` (with `IgnoreDuplicate`, `RefuseCordoned`, `SkipZombie`, `DeferMacOS`, `StartDispatch`) |
| `acquireSlot` | `AcquireSlot`, `SlotBusy`, `AcquireAfterWait`, `SlotGiveUp` |
| `admitDispatch`, `jobStillWanted` | `admitDispatch`, `AskGone`, `AskWanted` |
| `claimJob` | `ClaimGate`, `ClaimOk`, `ClaimFail` |
| `Runtime.Create`, dispatch `Create`, VM boot | `CreateOk`, `CreateFail`, `BootFail` |
| failure exits | `Unsee`, `FailRelease`, `enqueueRetryIfEligible`, `StopBooted`, `RefusePool` |
| `trackRunning`, wait goroutine | `trackRunning`, `JobTimeout`, `WaitReturns`, `ReleaseSlot`, `WaitTeardown`, `reprovisionIfStranded` |
| `handleInProgress` | `handleInProgress`, `BindRunner` (two critical sections) |
| `handleCompleted` | `handleCompleted`, `TeardownCancel`, `TeardownDestroy` |
| orphan sweep | `Nominate`, `BusyCheck`, `Reap`, then the same teardown actions |
| retry queue, seen by the scheduler | `RetryFires` |
| cordon, timers | `Cordon`, `Uncordon`, `SeenExpires`, `AgeRunner`, `cleanSeen` |
| the platform (external) | `Assign`, `Finish`, `RunnerExits`, `RunElsewhere`, `FinishElsewhere`, `CancelQueued`, `Poll`, `Lose` |

Two adjacent critical sections with nothing but local computation between them
are one action where no other order of the two can be told apart
(`retryHandler`'s clearing of the stamps and the `handleQueued` it calls; the
deferral of a macOS job). The three provisioning paths share their actions;
`Path[j]` says which one a job takes, and the differences of their teardowns
are in `Victims`. `SlotGiveUp` also stands for a context that ends while the
dispatch waits.

The constant `Moves` says which disturbances of the environment a run
allows, so that each run can be exhaustive on its own question. The proofs
hold for every value of it.

### `RetryQueue` — the scheduler's retries

State. `index` and `queued` are `q.index` and `q.heap`; an item is spread over
`tries`, `age` (time since the first failure) and `due` (time until the next
attempt). `wake` is the channel of capacity one, `loopAt` and `timer` are the
local state of `Run`, `firing` counts the `runOne` goroutines of a job. `chain`
is a history variable: the time since the failure that began a series of
retries; the code has no such clock, and `AgeKept` compares it with what the
code computes from `firstFailure`. Time is relative and each clock stops where
the code stops telling values apart, so the state space is finite while time is
unbounded.

| code | actions |
|---|---|
| `Add` (from `enqueueRetryIfEligible`), `nextDelayLocked`, `jittered` | `DispatchFails`, with `Add`, `nextDelay`, `Jittered` |
| `Drop`, `removeLocked` | `Drop`, `removeLocked` |
| `Run` | `Scan`, `Woken`, `fireDue` |
| `runOne` | `AttemptSucceeds`, `AttemptFails`, `AttemptRefused` |

Jitter and rate-limit slack are a choice over the interval the code draws from.
`MaxFiring` bounds the attempts of one job in flight at the same time.

Two things the model shows about the code that no property forbids: a job whose
attempt failed with an error that is not retryable stays in `index` until the
next event about it (`AttemptRefused`); and a job dropped while its attempt is
in flight can be added again by that attempt's failure. The second costs one
wasted fire, which `admitDispatch` stops.

### `MacVM` and `MacPool` — macOS VMs and the registry of abandoned ones

`MacVM` is one VM per provisioning attempt: the `guest`, the channel `done`
(`doneCh`), the end of `bootCtx` (`cancelled`), the one run of `stop` that
`stopOnce` lets in (`stopAt`), the clones and the share in `jobs/` (`files`)
and the registry of live ids the clone sweep reads (`registered`).

`MacPool` adds the goroutines of the scheduler: `at[v]` is the program point of
`handleMacOSJob` and of the wait goroutine that continues it, `holds` the slots
of `macSem`, `tracked` the entries of `s.running`, `teardown[v]` the bounded
stop (`stopVMBounded`, or `awaitUnwind` for an attempt that was given up) and
`charged[v]` the registry entries of a VM, each with the goroutine that will
discharge it.

| code | actions |
|---|---|
| `handleMacOSJob` | `Enter`, `AcquireMac`, `NoSlot`, `Recheck`, `ClaimFails`, `Claimed`, `Boots`, `BootFails`, `ReleaseAbandoned` |
| `waitForMacRunnerBounded`, `abandonMacProvision` | `Reached`, `ReachFails`, `ReachDeadline`, `awaitUnwind` |
| the wait goroutine, `monitorRunner` | `WaitOver`, `MonitorStops`, `ContextEnds` |
| `handleCompleted`, orphan sweep, `destroyAll` | `Taken` |
| `stopVMBounded`, `abandonVM`, the registry | `BeginStop`, `stopVMBounded`, `charge`, `discharge` |
| `stop`, `stopGuest`, `teardownMacVMFiles` | `StopSeesDone`, `StopForces`, `ForceReturns`, `ForceFails`, `teardownMacVMFiles`, `StopReturns` |
| the state watcher, `SweepStaleMacOSClones` | `WatcherCloses`, `Sweep` |
| the guest and the process (external) | `GuestDies`, `Restart` |

`abandonVM` looks at the stop and charges it in two steps (`"walk"`), so a stop
may return in between. When the wait for a guest ends after its attempt was
given up has no effect (its result goes to a buffered channel) and is not
modelled. An instance id is used again (`Fresh`) once nothing is left of its
last use; the code draws a new one every time.

### `Runtime` — containers, and the sweeper beside them

State. `at[e]` is the program point of the caller of `Create` and `Destroy`,
`worker[e]` that of the goroutine `Destroy` starts, `prov` is `r.provisioning`.
`dirs`, `work`, `snaps`, `conts`, `task`, `net` and `dindUp` say which of an
environment's parts exist: the runner directory, the workdir, the snapshot, the
container and its task as containerd reports it, the network attachment, the
fake Docker daemon. `sweepAt`, `live`, `todo` and `cand` are the local state of
the node disk sweeper. `since` is a history variable: the attempts a pass has to
spare.

| code | actions |
|---|---|
| `Create` | `Create`, `HasImage`, `prepareJobRunnerTree`, `StartDind`, `SetupNetwork`, `NewContainer`, `NewTask`, `StartTask` |
| its exits | `EarlyExit`, `NetworkExit`, `RunnerIPExit`, `ContainerExit`, `LogDirExit`, `TaskExit`, `StartExit`, over `Deferred`, `DirAfter` and `Undo` |
| `Destroy`, `destroyWaitCompleted` | `Destroy`, `DestroyReturns` |
| `destroySteps` | `DestroyKill`, `DestroyTask`, `DestroyNet`, `DestroyDind`, `DestroyContainer`, `DestroyDir`, `DestroyWork` |
| `SweepOrphans`, `sweepOrphanState` | `ListContainers`, `ListFails`, `addProvisioning`, `SweepDirs`, `CleanOrphanJobDirs`, `SweepSnapshots` |
| `ReapDeadContainers` | `ReapList`, `ReadTask`, `ReadFails`, `AskProvisioning`, `Reap`, `ReapFails`, `ReapDone`, with `dead` and `GracePasses` |
| `CleanOrphans` at start | `Restart` |
| the job's timeout, the runner | `CreateContextEnds`, `TaskExits` |

On Windows (`windows`) the network comes before the container, elsewhere in the
task's namespace; the exits undo accordingly. `NetworkExit` is a `Setup` that
failed and undid itself, `RunnerIPExit` the exit behind a `Setup` that
succeeded. Clean-up calls are best effort and use `Create`'s context, so with
`ended` none of them has an effect. Every job has a runner mount, a daemon and a
network, and the reaper is enabled. The job's cgroup is left out; its removal is
tried again by a sweep of its own. Names are not used again except by
`retryEnvCreate`, which calls `Create` once more under the same id.

What the model shows beside the properties: the exit for a log directory that
cannot be made leaves the container (the reaper takes it) and a daemon that
nobody can stop (`stray`); a `Create` whose context has ended may leave a task
in state `Created`, which the reaper takes for alive until the next restart.

### `DindServer`, `DindNetworks` — a job's fake Docker daemon

`DindServer` models `pkg/dind`: each HTTP handler is a goroutine of its own that
holds `Server.mu` for single looks at its maps. `listed` is `s.containers`;
`status`, `etask`, `enet` and `pinned` are fields of an entry; `ctrs`, `ctask`,
`endpoints` and `forwards` are what exists in containerd, in the network and on
the host's ports. `creator`, `starter` and `cleaner` are the program points of
the handlers of one container, `dindStopAt` that of `Stop`. One start, one
remove and one exec of a container are in flight at a time: a second start
finds a task and fails without an effect.

| code | actions |
|---|---|
| create | `handleContainerCreate`, `buildBindMounts`, `NewSibling`, `Register`, `CreateExit` |
| start | `handleContainerStart`, `StartNewTask`, `StartNetwork`, `StartNetworkFails`, `installPortForwards`, `TaskStart`, `MarkRunning`, `abortStart`, `StartUnheard` |
| stop, wait, logs, exec | `handleContainerStop`, `handleContainerWait`, `WaitReturns`, `LogsReturn`, `handleExecCreate`, `handleExecStartLog`, `handleExecStartHijack`, `ExecProcess`, `ExecEnds`, `ExitSeen` |
| `cleanupContainer` | `handleContainerRemove`, `removePortForwards`, `CleanTask`, `CleanNet`, `CleanContainer`, `Unlist` |
| `Stop` | `StopServing`, `ShutdownReturns`, `destroyAllExecs`, `TakeContainers`, `destroyAllContainers`, `StagerTeardown`, `CleanupJobNamespace`, `StopDone` |

What undoes a start runs under the request's own context, logs its failures and
forgets the handles (`Undoes`): the task may stay, created, or running when only
the reply to its start was lost (`StartUnheard`), and the endpoint may stay. Two
history variables say where something may be left behind: `excused`, containers
whose start and removal overtook one another, or a teardown of whose clean-up
failed; `strays`, containers whose endpoint an undo could not release.
`StopLeavesNothing` holds for all others, and of the strays for all but the
endpoint.

`DindNetworks` models `networks.go`, which keeps membership twice: `members` is
`nw.Containers`, `joined` is `entry.Networks`, keyed by *name*. Handlers hold
`Server.mu` throughout, except that a start writes the bridge's membership long
after it found its container (`StartLooks`, `StartWritesBridge`).
`pickFreeSubnet` is modelled with its last octet and its fallback.

### `BindStage`, `BindWalk` — bind mounts

`BindStage` models the staging of bind sources and its two removals: the job's
own teardown under the stager's mutex, and the reaper's sweep without it. Each
is a check of the mount table followed by a `RemoveAll`, in two steps; a mount
that appears in between is emptied (`gutted`). The reaper does not look at the
job's daemon, so it may come while the stager is open (`sweptOpen`), and then a
bind can be mounted between its check and its `RemoveAll`. `NothingGutted` and
`LiveKeepsDir` say that this is the only way, and that it stays with the job that
is swept; `TornDownIsEmpty` holds in any case.

`BindWalk` models `bindpin_linux.go`: the walk to a source, component by
component, with descriptors (`fds`, `stack`) held on the way. What a component
turns out to be is chosen when it is opened, since the job may change its tree
at any time.

### `Build`, `BuildRecords` — docker build

All jobs share one embedded BuildKit. `mu` is the holder of `Server.mu`, `core`
the solver behind it, `store` the metadata directory (in its place, moved to its
quarantine, or the debris of a core that did not come up), `ladder` the `Healer`'s
memory of what it tried for a record, `poison` what it would take. Actions:
`handleImageBuild`, `Dial`, `SolveOk`, `SolveFails`, `SolveDangles`,
`healAndRetryBuild`, `PruneAll`, `Rebuild`, `GracefulStop`, `newCore`, `Close`,
`CloseReturns`, and the client's `BuildHangUp`.

`BuildRecords` models the image records builds export, the deletion at a job's
end and the sweep that lists live jobs first (`sweepDeadBuildRecords`) and
deletes records of the others later (`PruneDeadBuildRecords`). A pass of the
sweep is taken to be shorter than `DeadBuildRecordGrace`.

### `Dispatch`, `LinuxVM` — Linux jobs on other hosts

`Dispatch` holds the host's handler and waiter of a runner, the worker's table
`envs` and its containers, and the RPCs between them, which may fail after they
took effect (`MaxRpcFaults`). `drain`, `Drained`, `destroyAll` and
`AllDestroyed` are the scheduler's shutdown, `KillJob` the control RPC,
`ConsumeContainerStats` and `readStatsLoop` the stats stream. Names are never
used twice here; what reuse does is the subject of `Scheduler`'s run
`redispatch`.

`LinuxVM` models the goroutine that starts the VM on Windows (HCS) and macOS
(Virtualization.framework), `vmHost` telling them apart: assets and root disk
(`extractAssets`, `buildBootInitrd`, `ensureRootVHDX`, `ensureDiskImage`), the
VM (`createNetworkEndpoint`, `createVM`, `hcsStart`, `boot`, `discoverIP`,
`waitForContainerd`, `waitForContainerdVz`, `waitForDispatch`), its end
(`GuestExits`, `monitorVM`, `cleanup`, `StopHyperV`, `StopVz`), and a daemon
that is killed and started again by the same or a newer binary (`KillDaemon`,
`NewBinary`).

### `JobNetwork`, `Firewall`, `L2Bridge` — networking

`JobNetwork` is CNI on a Linux node: `leased` is what host-local IPAM holds,
`c2cMember` and `c2cJob` are the registries of `joinJobNetwork`, `c2cPairs` the
ACCEPT rules (a bag: a rule may be there twice). An address may go to another
job as soon as it is given back, so a rule that outlives its container would
join two jobs.

`Firewall` is the iptables table as ordered lists; `installFirewallRules` writes
it block by block over what an earlier daemon left, and `Fate` evaluates a
packet through the chains as the kernel does: the first rule that decides, jumps
followed.

`L2Bridge` is the Windows network: address plan from adapter and configuration
(`parseIPPool`, `cidrRange`, with addresses `AddrBits` wide), `ipAllocator`, HNS
endpoints that outlive the daemon and are adopted by the next
(`adoptExistingEndpoints`), the ladder of ACL priorities and the host-firewall
allows.

### `PullThrough` and its two implementations — package caches

`PullThrough` is the promise of a pull-through cache for one URL, without files,
locks or validators: a request is answered with a version upstream has
published, complete; or with upstream's word that there is none; or it is sent
to the origin. A *confirmed* answer is at least as new as what upstream had when
the request came in.

`PkgCache` (`pkg/proxies/pkgcache`) and `CargoEntry` (`fetchCached` of
`pkg/proxies/cargo`) implement it. Both keep a body and a sidecar with
validators, two files replaced one after the other; both read without the key's
lock first, then under it. In `PkgCache` an eviction may run between any two
file operations of a request, since it holds another mutex (`evictAt`), a body
is streamed while it is fetched (`Writer`, `Copied`, `CopyBreaks`), and removals
may fail (`stuck`). `CargoEntry` holds an answer in memory and never evicts, but
either of its two writes may fail. Both die between any two steps (`PkgRestart`,
`CrateDies`). The refinement maps `upstream` or `release`, the requests' birth
versions and their answers; everything else is hidden.

`PkgIndex` is the byte budget of the same cache: index, running total,
least-recently-used order, and a commit that renames first and indexes
afterwards. `ModuleCache` is the Go proxy with its per-path mutex, temporary
files, pruner and shutdown. `CargoProxy` is the Cargo proxy's life: the config
file mounted into jobs, the watchdog that withdraws it (`runWatchdog`,
`ProbeFails`, `ProbeAnswered`) and the bounded shutdown with its count of unread
connections.

### `ActionsCache`, `CacheDownload` — the Actions cache service

`ActionsCache` has the maps `uploads` and `byKey`, the pending uploads, the
blocks in flight to the registry, and what the registry and the scope's index
know. Handlers read under `p.mu` and work without it, so `createEntry` and
`Reserve`, `serveUpload` and `storeBlock`, `finalizeEntry` and `putManifest` are
separate steps. `CacheDownload` is `serveDownload` with `parseRange` and
`streamRange`, checked over every split of an archive into blobs and every
range within the bounds.

### `ImageGC`, `CacheImages`, `MacImage` — images

`ImageGC` is `collect` with its two reasons to evict (age, pressure in percent
or free bytes), the protected set, the candidates it listed and the plan,
against jobs that touch and run images meanwhile. It goes on where the code
goes on: a namespace whose containers or images cannot be listed is passed over,
and a disk reading that fails neither stops a pass nor clears it. `gcHeld` is a
history variable: the images that the pass saw in use and that have been in use
since. `CacheImages` is the mirror of a pulled image into the cache namespace,
content first and record last under a lease, against containerd's collector,
which may run at any time, the namespace pruner and the broken-chain sweep. A
lease keeps what was written under it (`held`) and no more. A blob that the
mirror finds in the namespace gets its labels refreshed and is under no lease of
this mirror: it leans on the record or on another mirror's lease (`leaning`),
and goes with them. `MacImage` is the pull of the macOS base image: resumable
layers, sidecars, the rename, the injection of LaunchDaemons and its marker.

### `Daemon`, `Upgrade` — the process

`Daemon` is `serve`: the stages of a host or a worker, each with what its
failure does, the pushed defers, the signal, and the unwinding in reverse
order. `Upgrade` is the upgrade RPC from cordon to supervised restart; `bin`,
`bak`, `archive` and `stagedBin` are the files, the daemon may die between any
two steps, and whatever is at the install path is started next. Nothing keeps two
RPCs apart: they share the staging directory, the backup and the cordon, which
the operator sets and lifts as well. A job counts for the drain only once it is
tracked, so one that is claimed and not yet tracked is not waited for.

### `JobIntake`, `AppToken`, `Cloudflared`, `ForgeRunner` — the way to the forges

`JobIntake` is how a queued job is heard of: hooks on GitHub, a tunnel whose URL
changes, registration repository by repository, the fallback to polling, the
reconcile poll, and daemons that share hooks (`hookMode = "pool"`). `AppToken` is
the installation token with its background loop and callers that renew it
themselves; tokens are named by the time they expire. `Cloudflared` is the
tunnel's child process and its waiter, with Linux and Windows telling apart what
happens to orphans. `ForgeRunner` is the runner for Forgejo and Gitea:
`FetchTask` with versions, steps and their results, and a log reporter that
sends from the acknowledged index and may lose replies.

Names in these modules follow the Go functions; where one function is several
steps, or two packages use one name, the action is named for what happens.

## 4. Runs, bounds and fairness

### Scheduler

Bounds: one or two jobs, two or three dispatches, one or two slots, an attempt
cap of one to three. Two same-label jobs are what a swap needs, two dispatches
of one job are what a collision needs, and with `"names are reused"` the number
of dispatches is unbounded in time although only two are alive at once.
Symmetry on jobs and dispatches is used in the runs without liveness (and never
with a class function that tells jobs apart).

| run | instance | shows |
|---|---|---|
| `fungible` | 2 same-label macOS jobs, 2 slots; sweep, cancellation, ageing, deferral, pool refusal, create and boot failures | `NothingLeftBehind`, `BoundRunnerSpared` |
| `redispatch` | 1 Linux job, 2 slots; polls, expiring stamps, timeouts, reused names, a job of elsewhere on its runner, cordon and uncordon | `TypeOK` (the attempt cap), `NothingLeftBehind`, `TrackedHoldsSlot` |
| `recover` | 1 Linux job; failures, lost deliveries, slot give-up, idle exits, timeouts, a cordon | `SlotAccounting`, `PendingHasDispatch`, `SlotComesBack`, `NotStranded`, `CordonQuiesces` |
| `sibling` | 2 same-label jobs of the local path, 1 slot, no poll, no retry | `NotStranded` from `reprovisionIfStranded` alone |

Three of the scheduler's runs end in a violation: they state what a comment of the code says and
show an interleaving in which the code does otherwise (quoted in `PROJECT.json`
under `findings`). `localenv`: two dispatches of one local job are alive, the
first wait goroutine to return untracks the second's entry, and the second
leaves its container behind. `ghost`: a job is cancelled before any runner took
it, and its runner stays registered with the platform. `cordon`: `claimJob` reads
the draining flag, gives the mutex back and calls the provider, and a cordon that
falls in between does not stop the registration (`scheduler.go:589-590` says that
nothing can register a runner on a cordoned node).

`PendingHasDispatch` is about the mark that makes a job's deliveries duplicates:
it has no TTL, is set when a dispatch is spawned, and must be cleared on each of
the ways out of the slot wait.

Two more windows of the same kind are in the model and narrow what the
properties can claim: a retry that fires while another dispatch of the job is
between admission and tracking brings up a second runner; and a runner that is
handed a job right after an idle probe can be reaped (so `BoundRunnerSpared`
speaks of runners whose assignment was observed).

Deadlock checking is off: a node whose jobs are all done really stops.

Fairness. `Fairness` is weak fairness of each dispatch goroutine: Go schedules
runnable goroutines, a slot wait has a give-up timer (`maxSlotWait`) and the
wait for a runner ends at the latest when `JobTimeout` cancels its context.
`RecoveryFairness` adds what recovery from outside relies on: the reconcile
poll keeps listing queued jobs, not every delivery is lost forever (strong
fairness of `DeliverQueued`), the platform keeps offering a queued job to idle
runners (strong fairness of `Assign`), jobs end, and the clock ticks.

### Composed runs: `containers`, `host`, `progress`

Each starts with every component in its initial state, `focus` names the one
that moves, and a component that does not move has one initial state. Deadlock
is checked for the components that must never halt (`ContainersNeverHalt`,
`HostNeverHalt`); the others really may stop, when their job, request or upgrade
is over, and stutter then. `containers` has 452 thousand distinct states, `host`
975 thousand; each runs in two to three minutes. `progress` uses smaller
instances, since liveness is checked on the product with the formula (one
upgrade, one mirror, one image; two of each are in `host`).

What the bounds are for. Two of everything that races: two clients of one
cache key, two builds, two jobs with binds, two upgrades, two runners of a
worker, two mirrors of one image, two callers for a token. Three where an order
of three is the point: three attachments (two of one job and one of another)
over two addresses, so that an address is reused; three keys in the index, three
tunnel children, three layers of an image. One of what shares nothing: an
environment of `Runtime`, a container of `DindServer`. Each `Max...` bounds
faults (failed calls, kills, lost replies) or versions; one failure can hit any
call, and a second kill (`MaxVmKills`, `MaxPullKills`) hits the recovery from the
first. `MaxClock = 7` is past the renewal of a token that lives 4. Address pools
are a CIDR within the LAN, one that holds the host itself (refused), and a
single address.

| property | what it shows |
|---|---|
| `ContainersTypeOK`, `HostTypeOK` | the component that moves is of its type; for `Runtime` also that the provisioning set is exactly the attempts inside `Create`, for `RetryQueue` that heap and index agree, for `MacPool` that a tracked VM holds a slot |
| `PassSparesOld`, `ReapSparesRunning`, `DindStopped`, `FailsClosed`, `LeftoversGo` | the container runtime, see below |
| `DindKeepsItsOwn` | a stopped Docker daemon left nothing, but endpoints whose `Teardown` did not get through, no sibling runs without a network, both records of membership agree, subnets are distinct |
| `BindsApart` | no removal deletes through a mount and a live job keeps its staging directory, but where the reaper swept that job while its stager was open; a torn-down one is empty, no descriptor leaks |
| `BuildsUnharmed` | the build store moves only while no build uses it, and nobody builds while it is away; no live job loses a record |
| `JobsIsolated` | the chain joins containers of one job and of one job only, in runs without a failed call; addresses are attributed to their holder in all runs |
| `PolicyHolds` | packet by packet: what the rules let through, over restarts and crashes |
| `AddressesOwned` | no address twice, none stranded, the ladder closes the LAN |
| `RemoteRunnersOwned` | a remote runner is released once and never forgotten while its container exists; the VM boots whole and is cleaned up |
| `AgeKept` | the age budget of a series of retries holds although a dropped job may be added again |
| `NoSilentLeak`, `VmsAccounted` | a VM whose stop was walked away from is charged, once, and no clone is taken from a live VM |
| `CachesKeepPromise` | `PkgCache` and `CargoEntry` refine `PullThrough` |
| `CachesConsistent`, `EntriesWhole` | validators never vouch for bytes the body does not have; index, total and budget agree with the disk; nothing is served in part |
| `ImagesKept` | no image that the pass saw in use is collected, mirrors that nothing disturbed are complete, the macOS image is whole and provisioned |
| `DaemonOrdered` | no job without firewall and services, a binary to start at every instant while one upgrade swaps, none installed over a running job after a drain that held, every signalled daemon ends |
| `ForgesToldRight` | hooks are there while served and withdrawn after; a task's log is exact and its result true |
| `TokenAndTunnelSafe` | no expired token is handed out, at most one tunnel client is left |
| `RetryResolved`, `PoolLetsGo`, `JobsSettle`, `CachesAnswer`, `HostSettles` | what must happen in the end (run `progress`) |

Conditions. `ReapSparesRunning` holds under `GraceCoversCreate`. Where the code
leaves a window open the property says so by a history variable that is set in
that window and nowhere else: `strays` (an undo of a start that did not get
through), `sweptOpen` (the reaper came while the job's stager was open),
`gcHeld` (what the collector saw running), `mirUnsafe` (a mirror without a
lease, or with nothing left that keeps what it found in the namespace), and
`mixed`, `crossed` and `spoilt` (upgrades that overlap, a cordon that somebody
else lifted). Section 7 says what the code does there. `JobsApart` and `JobTogether` speak of runs in which no
iptables or CNI call failed: a failed delete really leaves a pair behind, which
stays until `Cleanup` removes the chain. `AppToken` assumes that GitHub answers within
`MaxLate`: `http.DefaultClient` has no timeout. `ForgesToldRight` excuses hooks
after a delete that failed or a daemon that was killed, until the next start
sweeps them. `SwapRecoverable` excuses a swap whose rollback failed, too.

Fairness (`ContainersFairness`, `HostFairness`) is that of each component's own
specification: goroutines that can run do run, timers fire, time passes, tickers
tick again. Two steps have strong fairness. `fireDue`: when the wake channel and
the timer are both ready, Go's `select` chooses at random, so a timer that is
ready again and again is chosen in the end. `LockRefresh`: Go's mutex hands
over to a waiter that starves. A Docker client that waits hangs up in the end,
because the runtime kills the runner before it stops the daemon. The service
manager starts a dead daemon again. Nothing is assumed of a guest, a job's
processes, `WaitForRunner`, a force-stop or upstream beyond the bounds on
faults.

### Retry queue

Two jobs in `host`, a ladder `<<1, 2>>`, an age budget of 2, jitter of one half,
one rate hint of 2, two attempts of a job in flight. Two steps of the ladder are
what "the last step repeats" needs, two jobs what a moved head of the heap needs,
and two attempts what an `Add` meeting an `Add` needs. `progress` has one job.

### macOS pool

Two VMs in `host`, one slot, a registry cap of one; force-stops that fail or
never return, restarts, sweeps. Two attempts are what a second attempt that
waits for a slot while the first is abandoned needs, and a cap of one makes
every charge close the pool. In `progress` one VM, its slot, its charge and its
files come back (`PoolLetsGo`), although its guest, its `WaitForRunner` and its
force-stop may each hang for good.

Run `stopreturns` ends in a violation. `bootCtx` derives from the job's context,
and the watcher closes `m.done` when that context ends; so when the scheduler
cancels the job before it stops the VM, `stopGuest` takes the closed channel for
a guest that went down, skips the force-stop, and `Stop` returns with the guest
possibly up. `StopMeansDead` states what the comment in `stop` says. The run
lets no force-stop fail, so that the counterexample is this one. What follows
for the pool: `NoSilentLeak` speaks of stops that have not returned; a guest
that outlives a returned stop is on nobody's books.

The registry's cap is a threshold, not a bound: an attempt past `Recheck` may
still be charged after the pool closed, so there is no property that the number
of charged VMs stays at the cap.

### Container runtime

In `containers`: one environment, one restart, one failing call of the sweeper.
Environments share nothing but the sweeper, which treats each by itself, so one
is enough for the interleavings of `Create`, the caller and the worker of
`Destroy`, the runner and the sweeper; the proofs cover every number. One
failure can hit any call of any pass, which is what "the next pass retries"
needs. It shows `PassSparesOld`, `ReapSparesRunning`, `DindStopped`,
`FailsClosed`, `LeftoversGo`. `GraceCoversCreate` is assumed: the default grace
is ten minutes, and `NewTask` follows `NewContainer` directly. Without it
`ReapSparesRunning` fails, since the reaper reads the task first and the
provisioning set later.

Fairness (`FairContainersSpec`): the sweeper's ticker and loop run, and time passes
(`GracePasses`). Nothing is assumed of `Create`, of `Destroy`, of its worker or
of a task, so `LeftoversGo` holds for a worker that hangs for good.

Run `sweeprace` ends in a violation of `RunningHasFiles`, what the comment of
`SweepOrphans` promises. The pass lists the containers before it reads the
provisioning set; a job that makes its container after the list and returns from
`Create` before the read is in neither. Reading the set first would close this
window. A job that begins after both reads and reaches its directory before
the pass reads the parent is a second one. `PassSparesOld` says what holds: an
attempt in flight since before the list that is still inside `Create` at the
read, or had its container at the list, loses nothing.


## 5. Proofs

### `SchedulerProofs`

For all jobs, dispatches, paths, routings, capacities, attempt caps, modes and
`Moves`, assuming only that the sets are finite and the constants are well
typed (the `ASSUME`s of `Scheduler`, which TLC evaluates in every run):

* `TypeCorrect`: `Spec => []TypeOK`;
* `SlotsAccounted`: `Spec => []SlotAccounting`;
* `TrackedHolds`: `Spec => []TrackedHoldsSlot`;
* `PendingIsCleared`: `Spec => []PendingHasDispatch`;
* `BoundRunnersSpared`: `Spec => BoundRunnerSpared`;
* `NothingStaysBehind`: `Spec /\ []OneRunnerPerJob => []NothingLeftBehind`, and
  `LinuxLeavesNothing`: `Spec => []NothingLeftBehind` when every job takes the
  Linux path;
* `StampedLeavesNothing`: `Spec => []NothingLeftBehind` on every path, when
  retries are off and stamps do not expire (the regime of run `fungible`).

The inductive invariant `IInv` is `TypeOK`, `SlotAccounting` and three
strengthenings. `SlotAccounting` alone is not inductive: a step that releases
needs to know that the releasing dispatch still has its job (`JobKnown`: a
dispatch past "free" has one, otherwise its pool is undefined) and that no
dispatch acquires twice (`TokenAtPC`: which token state goes with which
program point). `TrackedHoldsSlot` needs `TrackedWaits`: a tracked dispatch is
at its wait, so nobody but a wait goroutine of the same job can end the
tracking, and it does so together with its own. The cardinality steps rest on
`FiniteSetTheorems` (adding or removing one element of the set of holders); the
preservation proof has one step per action, grouped by the variables they
change.

`PendingIsCleared` needs of `IInv` only the types. A mark is set together with
the dispatch it stands for, which then waits for a slot or is being admitted.
Each way out of that (the give-up, a full pool, the admission and its refusals)
clears the mark of the job in the same step (`MarkCleared`); all other steps
leave marks and waits alone or remove a mark (`AdmittingAside`). A retry may start
a second dispatch while the first still waits: then either may clear the mark,
and an early clearing does no harm to this property.

`BoundRunnersSpared` needs to know what the platform's events mean
(`PlatformInv`): a job executes on one runner at a time and is then running
there; a completed event that names a runner of this node is about one that will
execute nothing any more; one without a name is about a job that is done. So the
runner a completed event picks cannot be the one that executes another job. Two
facts about the goroutines support it: whoever is in the ledger, was untracked by
a wait goroutine or was taken over by a handler has been created (`HandledLate`),
and so has whoever has an environment that is up (`UpIsLate`); without them a
name could be re-used while an event about it is on its way.

`NothingStaysBehind` carries `EnvsOwned`: for every dispatch whose environment is
up, who will destroy it. A failed macOS boot its own goroutine; a runner that
waits and is filed under its job, or was untracked by its own wait goroutine,
that goroutine; any other a teardown that has begun. Each way of untracking hands
the environment over: the handlers and the sweep mark the teardown in the same
critical section, a wait goroutine remembers the runner in `rj`. It breaks where
`running` is overwritten or taken by another dispatch of the same job: the local
and macOS wait goroutines of the first then find nothing of theirs to destroy.
`OneRunnerPerJob` says that this does not happen, off the Linux path. It is a
hypothesis about the behaviour, not an assumption on a constant; `localenv` is a
behaviour that breaks it (a dedup stamp that expires while the first runner is
still being created) and with it the conclusion. `StampedLeavesNothing` discharges
it where no dispatch outlasts its job's stamp and nothing is retried: `StampsHold`
is inductive there (from the start of a dispatch until it unsees its job or returns
the job is stamped, and a stamped job has one dispatch), because every step that
takes a stamp away also ends the dispatch that owns it.

### `RetryQueueProofs`

`AgeBudget`: `RetrySpec => []AgeKept`, for every set of jobs, ladder, age
budget, jitter and hints whose delays stay below `MaxDelay`. `AgeKept` is not
inductive: the code decides by `age`, the property speaks of `chain`.
`AgeCoversChain` relates them (an item's `age` is never below its `chain`, up to
the cap of each clock, so no fire, failure or re-add makes a job look younger
than its chain), and `FiringBounded` keeps the attempts in flight below
`MaxFiring`.

### `MacPoolProofs`

`RegistryExact`: `PoolSpec => [](PoolTypeOK /\ ChargedOnce /\ NoSilentLeak)`, for
every finite set of VMs and every capacity and cap. The
strengthening `OneTeardown` says which stage of the teardown goes with which
program point and that a VM is charged only after its one teardown is done; it
is what makes a second charge impossible although five places stop VMs. The
slot bound of `PoolTypeOK` rests on `FiniteSetTheorems`. `HostProofs` adds the
clones (`LiveOwned`): a guest that boots or runs and that nobody has asked to
stop keeps its files and its registration, whatever the other attempts and the
sweep of stale clones remove.

### `RuntimeProofs`

For every set of environments and every number of restarts and failing calls:
`PassSpares` (`PassSparesOld`), `DindIsStopped` (`DindStopped`),
`CreateFailsClosed` (`FailsClosed`), and, where `GraceCoversCreate` holds,
`ReaperIsSafe` (`ReapSparesRunning`). The sweeper acts on what it read some
steps ago, so neither the first nor the last is inductive. `PassInv` follows the
attempts to be spared from "listed or provisioning" before the second read to
"in the keep set" after it. `ReapInv` follows the container the reaper looks at:
a task comes to life only between `NewContainer` and `NewTask`, the grace keeps
the reaper from picking a container there, and from the pick on the container's
presence, or the worker that deletes it, keeps `Create` from getting there.
`WorkerInv` says that `Create` and `Destroy`'s worker never overlap for one id.

### `ContainersProofs`

About the specification the run `containers` checks (without its fairness), for
every number of builds, records, jobs and binds:

* `BuildsStayUnharmed`: `ContainersSpec => []BuildsUnharmed`. That a store which is
  not in its place has no open core and no solve (`StoreMovesIdle`) is not
  inductive: a repair closes the core, waits for the calls to end, moves the
  store and makes a new core, in four steps. `BuildInv` adds where the builds are
  (`BuildPlaces`), that a repairing build holds `mu` (`RepairHoldsMu`), and that it
  does so over a core that is not open, with the store out of its place from the
  move on (`RepairCloses`). When the new core fails, the directory it began mostly
  stands in the way of the old store (`"debris"`); the core then stays closed. `RecordsInv` carries the sweep from
  its first listing to its second: during a pass, a live job with a record that
  was not written during the pass is in the listing.
* `BindsStayApart`: `ContainersSpec => []BindsApart`, with the reaper at work at
  any time. `StageInv` says that a stager whose teardown is on its way is closed
  and has no mount (`ClosedIsEmpty`), that whoever mounts holds the mutex
  (`StageLocks`), and that a reaper is at work on a stager that is closed or that
  it met open (`ReapsMarked`). So the teardown has no room for a mount between its
  check and its `RemoveAll`; the reaper has, and then the job is one that it
  swept open (`NothingGutted`), and so is a live job that lost its directory
  (`LiveKeepsDir`). `WalkInv` counts descriptors at every
  program point of the walk.
* `DindStaysItsOwn`: `ContainersSpec => []DindKeepsItsOwn`. Of the daemon, `DindInv`
  says for an endpoint, a forward and a pin that there is an entry that will be
  cleaned up, or a clean-up that has not come to it yet (`EndpointsOwned`,
  `ForwardsOwned`, `PinsOwned`), or, for an endpoint, that the undo that should
  have removed it failed (`strays`), and that once `Stop` has waited for the server no
  handler is at work (`HandlersOver`, `CleanersPlaced`, `SweptIsBare`). A start
  that its own removal overtakes is in `excused` before it can leave anything
  (`OvertakenExcused`). Of the networks, `NetsInv` says that names are distinct and
  what is gone is empty; with it the two records of membership cannot diverge.
* `RemoteRunnersStayOwned`: `ContainersSpec => []RemoteRunnersOwned`. A runner is
  released by whoever takes it from one of three sets (tracked, victims of the
  shutdown, completed) or gives up its creation; `DispatchInv` says that these
  are disjoint (`ClaimsApart`), that a claim somebody holds is not released
  (`ClaimsHeld`), and that one nobody holds was released or belongs to a waiter
  that hangs (`ClaimsFollowed`). `VmInv` knows for every step of the start which
  files are current (`FilesWritten`) and that the schema marker is never ahead of
  the disk (`DiskFits`), wherever an earlier daemon was killed.
* `ContainersTypesHold`: `ContainersSpec => []ContainersTypeOK`. Few of the types are
  inductive by themselves. A build solves twice at most because it heals once
  (`BuildTypes`); a staged bind's number is in range because the count is below
  the bound when it is taken (`StageTypes`); the rules in a chain are known rules
  because `KnownRules` is closed under everything a start, a job or a shutdown
  writes, and only `FwInv` says in which block a start is (`FwTypes`).

### `NetworkProofs`

Also about `ContainersSpec`; `ContainersProofs` extends it.

* `AddressesStayOwned`: `ContainersSpec => []AddressesOwned`. `L2Inv`: a daemon that
  is down holds nothing (`DownHoldsNone`), and while no HCN call failed an address
  that HNS holds is the allocator's for the same endpoint or was withheld at the
  start (`HnsKnown`).
* `JobsStayIsolated`: `ContainersSpec => []JobsIsolated`. A member has the address it
  leases (`MembersJoined`) and a job's registry is that of its members
  (`JobsOfMembers`); while no call failed the bag of rules holds each pair of one
  job's addresses once and no other (`PairsExact`). That a rule is there *once*
  matters: a delete takes one copy.
* `PolicyStaysHeld`: `ContainersSpec => []PolicyHolds`. What decides is order, so
  `FwInv` gives the lists themselves: which rules `INPUT` and `FORWARD` hold, in
  which order, at every step of a start over whatever an earlier daemon left
  (`InputOrdered`, `ForwardOrdered`), what ours hold once their block has run
  (`OwnForward`, `OwnInput`), and of the per-job chains that only owners' rules
  are in the one and only pairs come before the closing `DROP` of the other
  (`PerJob`). `FirstIs` finds the rule that decides; `LeafIs`, `MidIs` and `FateIs`
  lift it through the jumps.

### `HostProofs`

About `HostSpec`, what the run `host` checks.

* `VmsStayAccounted`: `HostSpec => []VmsAccounted`, from `MacPoolProofs`.
* `TokenAndTunnelStaySafe`: `HostSpec => []TokenAndTunnelSafe`. An exchange that is
  under way was sent at most `MaxLate` ago and brings a token that lives from then
  on (`ExchangesTimed`), what a caller is about to read is not expired unless its
  own exchange failed (`ReadsFresh`), and while no exchange fails the loop sleeps to
  a margin before the end that callers do not reach (`LoopAhead`). The last needs
  `CallMargin + MaxLate < LoopMargin`, which `TokenAssumption` states: 5 and 15
  minutes of a token's hour in the code. `CfInv` says that of the tunnel's
  children of this daemon only the current command lives.
* `DaemonStaysOrdered`: `HostSpec => DaemonOrdered`. `ServeUp` says what is up by the
  stage that was reached. Each stage has pushed at most one defer
  (`Len(defers) <= serveStage`), and so every step of a signalled daemon makes
  `Distance` smaller (an action property, from the same invariant). `UpgradeInv`
  speaks of upgrades that run at once: those that staged or swapped alone
  (`UpgradeRuns`; the others are in the histories `mixed` and `crossed`) know what
  is staged by how far they have come (`StagedKnown`); no binary is at the install
  path only between the two renames, in a daemon that died there, or after a
  failed rollback (`SwapHalfway`); and an upgrade that drained still has its cordon
  and meets no job, unless somebody lifted it (`DrainKept`, `spoilt`).
* `ForgesAreToldRight`: `HostSpec => []ForgesToldRight`. `IntakeInv` gives the hooks a
  registration has made so far and that a clean daemon has no others
  (`OwnHooksOnly`); `LogFollows` that the rows in the buffer follow the acknowledged
  index without a gap, while the forge may have more than was acknowledged;
  `StepsSoFar` what the result knows of the steps.
* `HostTypesHold`: `HostSpec => []HostTypeOK`, with `StoresKeepTypes` of `CacheProofs`
  for the stores. What the types claim beyond membership is where the work is: no
  cleanup is deferred twice, since each stage defers its own and is passed once
  (`PushedInOrder`); an image or a key is in the order of use once (`RecordsOnce`,
  `OrderExact`), which bounds the order's length (`OnceBounds`); a restart is
  tried at most `RestartAttempts` times (`TriesCounted`) and a tunnel
  `TunnelRetries` times (`HookCounters`); the hooks that fail to be deleted can be
  counted, as they are finitely many (`HookSets`); a step writes at most three rows
  (`RowsBounded`), and no task is handed out that was not queued (`TasksCounted`);
  what a deletion frees is never negative (`BytesAre`).

### `CacheProofs`

Also about `HostSpec`.

* `CachesImplementPullThrough`: `HostSpec => CachesKeepPromise`, that is, both caches
  refine `PullThrough`, for every number of requests, versions, restarts and failed
  removals. `CrateInv` and `PkgInv` say for every program point what a request
  knows: what a lock holder has read or fetched lies between what upstream had when
  it asked and what it has now, the sidecar never vouches for more than the body
  holds, and a request past its arrival has an answer pending. With the invariant,
  each step of a cache gives at most one pending request an answer `PullThrough`
  allows (`CrateAnswered`, and the lemmas `PkgQuietStep` and `PkgAnswerStep`), and so
  maps to a step of `PullThrough` or to a stutter (`PkgRefines`, `CrateRefines`). The
  hard case of `PkgCache` is an eviction between the look at a sidecar and the use
  of the body; the invariant carries what the open file holds, not what is at its
  path.
* `EntriesStayWhole`: `HostSpec => []EntriesWhole`. `ModInv`: a temporary has an owner
  or is an orphan of a crash, and what is about to be renamed to a path was read
  to its end (`RenamesWhole`). `ActionsInv`: tokens are handed out in order
  (`InOrder`), one that was not is nobody's (`UntakenIsBare`), and the maps `uploads`
  and `byKey` name each other's entries (`KeysOwned`). `DownloadInv`: where each blob
  starts in the archive is a recursive function, of which the proof needs its
  steps and that it grows; with the start of the blob at hand, what was sent is
  the range from its first byte on.
* `CachesStayConsistent`: `HostSpec => []CachesConsistent`. `IndexedInv` adds the
  eviction's window: a body that is there again while an evictor is between its
  steps was put there by a request that still has to index it. `PkgIndexInv`
  speaks of a sum over keys and of an order by use; the lemmas on sums and folds
  (`SumWithin`, `SumCleared`, `FoldTable`) are proved over finite sets. `CargoInv`
  says that the config agrees with the proxy's state.
* `ImagesStayKept`: `HostSpec => ImagesKept`. `GcInv`: no plan holds what is
  protected, and what the pass saw in use and has been since is protected
  (`PlanSpares`). `MirrorInv`: what an undisturbed mirror has copied is in the
  namespace and is reached there, from its lease, from another's that it leans on,
  or from the record (`Undisturbed`), so containerd's collector passes it by
  (`Collected`). `ImageInv`: the partial image only
  grows, a base image is complete or absent, and a marker means provisioned.

Induction. The library's induction theorems cannot be used, since they take an
operator. Where an argument is by induction, it is by a least counterexample
instead (`LeastOf`, `HasLeast`: a set of naturals that is not empty has a least
element, from `WFMin` and `NatLessThanWellFounded`, which take sets).

These four modules extend the MC module whose composition they speak of
(`HostProofs` also extends `CacheProofs`); a step of
the composed system is one of the component in focus, and the other components'
variables stand still.

Assumptions. Each theorem holds under the named `ASSUME`s of the modules it speaks
of, which TLC evaluates in the runs: sets that are finite (`IndexKeys`, the ports
of `Firewall`), values that differ (`NoFetch` is no fetch, a container is not
called `"gateway"`), bounds that are naturals, and the conditions named above
(`GraceCoversCreate`, `TokenAssumption`). `SubnetAssumption`
says that a pool of the configuration lies within the address width.


## 6. Only model-checked

Liveness (`CordonQuiesces`, `SlotComesBack`, `NotStranded`, `RetryResolved`,
`PoolLetsGo`, `LeftoversGo`, `JobsSettle`, `CachesAnswer`, `HostSettles`) is out of
the prover's reach. Every other property of a passing run is stated by a theorem.
For `NothingLeftBehind` off the Linux path, where attempts are retried or stamps
expire, the theorem keeps a hypothesis on the behaviour, which the code does not
guarantee there (`localenv`).

`RuntimeProofs`, `RetryQueueProofs`, `MacPoolProofs` and `SchedulerProofs` speak of the
component's own specification, the other modules of the composed ones. A run
checks a property of `Runtime` or `RetryQueue` in the composition, whose behaviours
are, for that component, its own or a stutter.

## 7. Where code and words disagree

Five runs end in a violation of what a comment says (`localenv`, `ghost`, `cordon`,
`stopreturns`, `sweeprace`, quoted under `findings`). Modelling showed some more;
the models follow the code, and no run is spent on them:

* `docs/getting-started/configuration.md:307` gives a VM-isolated job its Docker
  API on a port of the bridge gateway; on a fresh host the jump to
  `EPHEMERD-INPUT`, which denies by default, ends up above the one to
  `EPHEMERD-DIND`, so that port is not reached. `HostPolicy` therefore says what a
  container reaches at most;
* what a start of the fake daemon undoes after a failure it undoes on the
  request's context (`pkg/dind/containers.go:816-819`, `865-876`); when the client
  has hung up that fails, is only logged, and the handles are cleared, so no
  clean-up finds the endpoint again (`strays`);
* the reaper sweeps the staged binds of a job without a look at its daemon
  (`pkg/runtime/runtime.go:628-640`); a stager that is still open has latched
  `ready` and does not make its directory again (`bindstage_linux.go:149`), and a
  mount it makes between the sweep's check and its `RemoveAll` is deleted through,
  which `bindstage_linux.go:275-281` means to exclude (`sweptOpen`, `gutted`);
* when a rebuild of BuildKit cannot make a new core, `newCore` has already made the
  data directory (`server.go:198`), so the quarantined store does not come back
  (`server.go:390`, logged), where the comment above it counts on that;
* a rebuild or a `Close` of BuildKit that meets a core whose successor could not
  be made closes a channel twice (`closedTwice` records it);
* the image collector calls a namespace that it cannot list an error in one place
  (`collector.go:278-279`) and passes it over in another (`imagegc.go:176-181`), where
  its images then count as unused; and collection under pressure stops as soon as
  the reading is back below the high watermark, where `imagegc.go:4-6`, `243` and
  `configuration.md:149` speak of the low one;
* a blob that an image mirror finds in the cache namespace gets its labels
  refreshed and comes under no lease of the mirror (`cache.go:312-314`, where
  `146-152` speaks of every bucket); and a record written between the look of
  `CachePrune` and `CleanupContent` loses its content (`mirUnsafe`);
* nothing keeps two `Upgrade` RPCs apart: they share the staging directory
  (`upgrade.go:396`, `401`), one may remove the other's backup (`swap_unix.go:24`)
  before the other needs it for its rollback (`swap_unix.go:30`), and the undo of
  one lifts the cordon of the other or of the operator (`upgrade.go:308-314`); and
  the drain counts jobs that are tracked, not one whose runner is being made
  (`mixed`, `crossed`, `spoilt`);
* `Stop` of the Cargo proxy cancels the watchdog's context; a probe in flight
  fails by that, counts as a failure and may withdraw the config, which
  `cargoproxy.go:267-270` means to exclude;
* `pkg/proxies/actionscache/index.go:266` calls entries immutable; two savers that
  both passed `exists` replace one another's entry;
* `initProviders` enables the fake Docker daemon for Forgejo and Gitea
  (`cmd/ephemerd/main.go:1014`, `1037`) after `runtime.New` has read the setting
  (`main.go:684`; `runtimeDind` in `Daemon`);
* a forge task whose runner is cancelled, whose payload cannot be read, or whose
  `FetchTask` reply is lost stays assigned at the forge with no result.

## 8. Not modelled

* Registry mirror: a list of hosts fixed at start, the mirror before the origin;
  it keeps no state. Job cgroups: best-effort writes and a sweep of their own.
  Runner install, the configuration, the artifacts and the CLI: sequential file
  and network I/O. The workflow runner's expression language and metrics: no
  shared state that a property would speak of.
* Of modelled components: image resolution, OCI transfers, log texts, `/healthz`
  and the read-only RPCs have no influence on the properties; the ngrok and
  localtunnel tunnels are seen by `JobIntake` as a tunnel that breaks; Docker's
  read-only endpoints, copy and volumes of the fake daemon change no state the
  properties relate. The notes in `PROJECT.json` say for each component what is
  left out.
* A node with several webhook providers (`scheduler.go:764-770`): `JobIntake` has one.
* Time is abstracted to the order of events (and to small clocks in `RetryQueue`
  and `AppToken`): no run shows how long anything takes.
