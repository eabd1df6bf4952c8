------------------------------- MODULE Runtime -------------------------------
(***************************************************************************)
(* The container runtime of one node (pkg/runtime): Create with the exits  *)
(* that undo it, the bounded Destroy with its detached worker, and the     *)
(* node disk sweeper, whose two passes (SweepOrphans, ReapDeadContainers)  *)
(* run beside them and reclaim what they left.                             *)
(*                                                                         *)
(* A member of Envs is a runner environment: the runner name and all that  *)
(* carries it, in containerd, in the network, and on disk.  Every job here *)
(* has a runner mount and a fake Docker daemon.                            *)
(***************************************************************************)
EXTENDS Integers, FiniteSets

CONSTANTS
  Envs,               \* environments
  NoEnv,              \* none of them
  GraceCoversCreate,  \* no Create takes longer than the reaper's grace from
                      \* NewContainer to NewTask
  MaxRestarts,        \* a bound on the daemon's restarts
  MaxFails            \* a bound on the calls of the sweeper that fail

ASSUME RuntimeAssumption ==
  /\ NoEnv \notin Envs /\ GraceCoversCreate \in BOOLEAN
  /\ MaxRestarts \in Nat /\ MaxFails \in Nat

VARIABLES
  windows,     \* GOOS: the network comes before the container there
  restarts,    \* restarts so far
  at,          \* where the caller of Create and Destroy is
  worker,      \* where Destroy's goroutine is
  ended,       \* environments whose Create has lost its context
  prov,        \* r.provisioning
  dirs,        \* runners/job-<id>
  work,        \* jobs/<id>
  dindUp,      \* environments whose fake Docker daemon serves
  stray,       \* environments with a daemon that an attempt left serving
  net,         \* environments attached to the network
  snaps,       \* <id>-snapshot
  conts,       \* containers
  task,        \* the task of a container, as containerd reports it
  old,         \* containers whose task died, or was not there, for the grace
  sweepAt,     \* where the sweeper is
  fails,       \* its calls that failed, so far
  live,        \* SweepOrphans: its keep set
  todo,        \* ReapDeadContainers: the containers it has still to look at
  cand,        \* and the one it is looking at
  since        \* history: attempts in flight since before the sweeper's list,
               \* their files intact then, that did not return from Create
               \* before its look at r.provisioning

disk == <<dirs, work>>
ctrd == <<snaps, conts, task, old>>
owner == <<at, worker, ended, prov>>
sweeper == <<sweepAt, fails, live, todo, cand, since>>
runtimeVars == <<windows, restarts, owner, disk, dindUp, stray, net, ctrd, sweeper>>

\* Each point is named after the step that comes next.  "over": Create has
\* failed or Destroy has returned.
Creating == {"image", "tree", "dind", "winnet", "container", "task", "net", "start"}
CallerAt == {"idle"} \cup Creating \cup {"run", "destroy", "over"}
WorkerAt == {"none", "kill", "delete", "net", "dind", "container", "dir", "work", "done"}
SweeperAt == {"idle", "listed", "dirs", "work", "snaps", "relist", "reap", "seen", "teardown"}

TaskState == {"none", "created", "running", "stopped"}

\* Points at which the runner directory and the workdir are in use.
HasTree == {"dind", "winnet", "container", "task", "net", "start", "run"}
HasWork == HasTree \ {"dind"}

RuntimeTypeOK ==
  /\ windows \in BOOLEAN /\ restarts \in 0..MaxRestarts
  /\ at \in [Envs -> CallerAt] /\ worker \in [Envs -> WorkerAt]
  /\ ended \subseteq Envs
  /\ prov = {e \in Envs : at[e] \in Creating}
  /\ dirs \subseteq Envs /\ work \subseteq Envs
  /\ dindUp \subseteq Envs /\ stray \subseteq Envs /\ net \subseteq Envs
  /\ snaps \subseteq Envs /\ conts \subseteq Envs
  /\ task \in [Envs -> TaskState]
  /\ \A e \in Envs : task[e] # "none" => e \in conts
  /\ old \subseteq Envs
  /\ sweepAt \in SweeperAt /\ fails \in 0..MaxFails
  /\ live \subseteq Envs /\ todo \subseteq Envs
  /\ cand \in Envs \cup {NoEnv} /\ since \subseteq Envs

RuntimeInit ==
  /\ windows \in BOOLEAN /\ restarts = 0
  /\ at = [e \in Envs |-> "idle"] /\ worker = [e \in Envs |-> "none"]
  /\ ended = {} /\ prov = {} /\ dirs = {} /\ work = {} /\ dindUp = {} /\ stray = {} /\ net = {}
  /\ snaps = {} /\ conts = {} /\ task = [e \in Envs |-> "none"] /\ old = {}
  /\ sweepAt = "idle" /\ fails = 0 /\ live = {} /\ todo = {} /\ cand = NoEnv /\ since = {}

Move(e, from, to) == at[e] = from /\ at' = [at EXCEPT ![e] = to]
SetTask(e, t) == task' = [task EXCEPT ![e] = t]

-----------------------------------------------------------------------------
\* Create, up to the point where the caller gets a RunnerEnv.

\* beginProvisioning.  retryEnvCreate calls Create again, under the same id,
\* when the attempt before it failed.
Create(e) ==
  /\ at[e] \in {"idle", "over"} /\ worker[e] = "none"
  /\ at' = [at EXCEPT ![e] = "image"]
  /\ prov' = prov \cup {e}
  /\ ended' = ended \ {e}
  /\ UNCHANGED <<windows, restarts, worker, disk, dindUp, stray, net, ctrd, sweeper>>

\* The image is there, pulled and unpacked.
HasImage(e) ==
  /\ Move(e, "image", "tree") /\ e \notin ended
  /\ UNCHANGED <<windows, restarts, worker, ended, prov, disk, dindUp, stray, net, ctrd, sweeper>>

\* prepareJobRunnerTree.
prepareJobRunnerTree(e) ==
  /\ Move(e, "tree", "dind")
  /\ dirs' = dirs \cup {e}
  /\ UNCHANGED <<windows, restarts, worker, ended, prov, work, dindUp, stray, net, ctrd, sweeper>>

\* dind.New makes jobs/<id>/docker, Start listens.
StartDind(e) ==
  /\ Move(e, "dind", IF windows THEN "winnet" ELSE "container")
  /\ work' = work \cup {e}
  /\ dindUp' = dindUp \cup {e} /\ UNCHANGED stray
  /\ UNCHANGED <<windows, restarts, worker, ended, prov, dirs, net, ctrd, sweeper>>

SetupNetwork_FailsOpen(e) ==
  /\ e \notin ended
  /\ Move(e, "winnet", "container") \/ Move(e, "net", "start")
  /\ net' \in {net, net \cup {e}}
  /\ UNCHANGED <<windows, restarts, worker, ended, prov, disk, dindUp, stray, ctrd, sweeper>>

\* Network.Setup and SetRunnerIP: before the container on Windows, in the
\* task's namespace elsewhere.
SetupNetwork(e) ==
  /\ e \notin ended
  /\ Move(e, "winnet", "container") \/ Move(e, "net", "start")
  /\ net' = net \cup {e}
  /\ UNCHANGED <<windows, restarts, worker, ended, prov, disk, dindUp, stray, ctrd, sweeper>>

\* NewContainer, after the stale snapshot has gone.  A container of the same id
\* makes it fail.
NewContainer(e) ==
  /\ Move(e, "container", "task") /\ e \notin ended /\ e \notin conts
  /\ snaps' = snaps \cup {e} /\ conts' = conts \cup {e}
  /\ old' = old \ {e}
  /\ UNCHANGED <<windows, restarts, worker, ended, prov, disk, dindUp, stray, net, task, sweeper>>

NewTask(e) ==
  /\ Move(e, "task", IF windows THEN "start" ELSE "net")
  /\ e \notin ended /\ e \in conts
  /\ SetTask(e, "created")
  /\ old' = old \ {e}
  /\ UNCHANGED <<windows, restarts, worker, ended, prov, disk, dindUp, stray, net, snaps, conts, sweeper>>

\* task.Start, and Create returns.
StartTask(e) ==
  /\ Move(e, "start", "run") /\ e \notin ended /\ task[e] = "created"
  /\ SetTask(e, "running")
  /\ prov' = prov \ {e}
  /\ since' = IF sweepAt = "listed" THEN since \ {e} ELSE since
  /\ UNCHANGED <<windows, restarts, worker, ended, disk, dindUp, stray, net, snaps, conts, old,
                 sweepAt, fails, live, todo, cand>>

\* Create's context ends: the job's timeout, or the dispatch call is cancelled.
CreateContextEnds(e) ==
  /\ at[e] \in Creating /\ e \notin ended
  /\ ended' = ended \cup {e}
  /\ UNCHANGED <<windows, restarts, at, worker, prov, disk, dindUp, stray, net, ctrd, sweeper>>

-----------------------------------------------------------------------------
\* Create's exits.

\* What the deferred removal of the runner directory leaves.  Before there is a
\* name there is no removal; a copy that failed half way may be there.
DirAfter(e) ==
  CASE at[e] = "image" -> {dirs}
    [] at[e] = "tree"  -> {dirs \ {e}, dirs \cup {e}}
    [] OTHER           -> {dirs \ {e}, dirs}

\* Both deferred functions: the runner directory goes if it can be removed,
\* provisioning ends.
Deferred(e, from, to) ==
  /\ Move(e, from, to)
  /\ dirs' \in DirAfter(e)
  /\ prov' = prov \ {e}
  /\ since' = since \ {e}
  /\ UNCHANGED <<windows, restarts, worker, ended, sweepAt, fails, live, todo, cand>>

\* The clean-up calls of an exit, best effort each and all with Create's
\* context: when that has ended they fail.  A container goes with its snapshot,
\* and only without a task.  netNow and snapsNow: what is there before.
Undo(e, calls, netNow, snapsNow) ==
  \E done \in SUBSET calls :
    /\ e \in ended => done = {}
    /\ net' = IF "net" \in done THEN netNow \ {e} ELSE netNow
    /\ task' = IF "task" \in done THEN [task EXCEPT ![e] = "none"] ELSE task
    /\ "container" \in done => task'[e] = "none"
    /\ conts' = IF "container" \in done THEN conts \ {e} ELSE conts
    /\ snaps' = IF done \cap {"container", "snapshot"} # {} THEN snapsNow \ {e} ELSE snapsNow
    /\ UNCHANGED old

\* No image, no runner tree, or no daemon: nothing else exists yet but, after
\* dind.New, the workdir.
EarlyExit(e) ==
  /\ \E from \in {"image", "tree", "dind"} : Deferred(e, from, "over")
  /\ work' \in {work, IF at[e] = "dind" THEN work \cup {e} ELSE work}
  /\ UNCHANGED <<dindUp, stray, net, ctrd>>

\* Setup undoes itself when it fails; the daemon is stopped.
NetworkExit(e) ==
  /\ \E from \in {"winnet", "net"} : Deferred(e, from, "over")
  /\ dindUp' = dindUp \ {e} /\ UNCHANGED stray
  /\ Undo(e, IF windows THEN {} ELSE {"task", "container"}, net, snaps)
  /\ UNCHANGED work

\* SetRunnerIP fails behind a Setup that succeeded.
RunnerIPExit(e) ==
  /\ e \notin ended
  /\ \E from \in {"winnet", "net"} : Deferred(e, from, "over")
  /\ dindUp' = dindUp \ {e} /\ UNCHANGED stray
  /\ Undo(e, IF windows THEN {"net"} ELSE {"net", "task", "container"}, net \cup {e}, snaps)
  /\ UNCHANGED work

\* NewContainer fails, perhaps with the new snapshot made.
ContainerExit(e) ==
  /\ Deferred(e, "container", "over")
  /\ dindUp' = dindUp \ {e} /\ UNCHANGED stray
  /\ \E made \in {{}, {e}} :
       Undo(e, IF windows THEN {"net", "snapshot"} ELSE {"snapshot"}, net, snaps \cup made)
  /\ UNCHANGED work

\* The log directory cannot be made: Create returns with the container in place
\* and the daemon serving, which nobody can stop any more.
LogDirExit(e) ==
  /\ ~windows
  /\ Deferred(e, "task", "over")
  /\ dindUp' = dindUp \ {e}
  /\ stray' = stray \cup {e}
  /\ UNCHANGED <<work, net, ctrd>>

TaskExit_KeepsDind(e) ==
  /\ Deferred(e, "task", "over")
  /\ Undo(e, IF windows THEN {"net", "container"} ELSE {"container"}, net, snaps)
  /\ UNCHANGED <<work, dindUp, stray>>

TaskExit(e) ==
  /\ Deferred(e, "task", "over")
  /\ dindUp' = dindUp \ {e} /\ UNCHANGED stray
  /\ Undo(e, IF windows THEN {"net", "container"} ELSE {"container"}, net, snaps)
  /\ UNCHANGED work

StartExit(e) ==
  /\ Deferred(e, "start", "over")
  /\ dindUp' = dindUp \ {e} /\ UNCHANGED stray
  /\ Undo(e, {"net", "task", "container"}, net, snaps)
  /\ UNCHANGED work

-----------------------------------------------------------------------------
\* The runner's process exits.
TaskExits(e) ==
  /\ task[e] = "running"
  /\ SetTask(e, "stopped")
  /\ old' = old \ {e}
  /\ UNCHANGED <<windows, restarts, owner, disk, dindUp, stray, net, snaps, conts, sweeper>>

\* Destroy: its caller waits, a goroutine of its own does the work.
Destroy(e) ==
  /\ Move(e, "run", "destroy")
  /\ worker' = [worker EXCEPT ![e] = "kill"]
  /\ since' = since \ {e}
  /\ UNCHANGED <<windows, restarts, ended, prov, disk, dindUp, stray, net, ctrd,
                 sweepAt, fails, live, todo, cand>>

\* It returns when the worker is done, or when DestroyTimeout has passed.
DestroyReturns(e) ==
  /\ Move(e, "destroy", "over")
  /\ UNCHANGED <<windows, restarts, worker, ended, prov, disk, dindUp, stray, net, ctrd, sweeper>>

Step(e, from, to) ==
  /\ worker[e] = from /\ worker' = [worker EXCEPT ![e] = to]
  /\ UNCHANGED <<windows, restarts, at, ended, prov, sweeper>>

\* Kill and wait for the exit, for destroyKillWait: a dead shim never reports.
DestroyKill(e) ==
  /\ Step(e, "kill", "delete")
  /\ \/ task[e] = "running" /\ SetTask(e, "stopped") /\ old' = old \ {e}
     \/ UNCHANGED <<task, old>>
  /\ UNCHANGED <<disk, dindUp, stray, net, snaps, conts>>

DestroyTask(e) ==
  /\ Step(e, "delete", "net")
  /\ \/ SetTask(e, "none")
     \/ UNCHANGED task
  /\ UNCHANGED <<disk, dindUp, stray, net, snaps, conts, old>>

DestroyNet(e) ==
  /\ Step(e, "net", "dind")
  /\ net' \in {net, net \ {e}}
  /\ UNCHANGED <<disk, dindUp, stray, ctrd>>

\* Dind.Stop has no context: it may not return.
DestroyDind(e) ==
  /\ Step(e, "dind", "container")
  /\ dindUp' = dindUp \ {e}
  /\ UNCHANGED <<disk, stray, net, ctrd>>

DestroyContainer(e) ==
  /\ Step(e, "container", "dir")
  /\ \/ task[e] = "none" /\ conts' = conts \ {e} /\ snaps' = snaps \ {e}
     \/ UNCHANGED <<conts, snaps>>
  /\ UNCHANGED <<disk, dindUp, stray, net, task, old>>

DestroyDir(e) ==
  /\ Step(e, "dir", "work")
  /\ dirs' \in {dirs, dirs \ {e}}
  /\ UNCHANGED <<work, dindUp, stray, net, ctrd>>

DestroyWork(e) ==
  /\ Step(e, "work", "done")
  /\ work' \in {work, work \ {e}}
  /\ UNCHANGED <<dirs, dindUp, stray, net, ctrd>>

-----------------------------------------------------------------------------
\* SweepOrphans: list the containers, add the environments being provisioned,
\* then remove what is neither, one kind after the other.  What cannot be
\* removed is left to the next pass.
Intact(e) == (at[e] \in HasTree => e \in dirs) /\ (at[e] \in HasWork => e \in work)

InFlight == {e \in Envs : at[e] \in Creating \/ (at[e] = "run" /\ e \in conts)}

CallFails == fails < MaxFails /\ fails' = fails + 1

Swept(set, after) ==
  \/ after = set \cap live /\ UNCHANGED fails
  \/ CallFails /\ \E left \in SUBSET set : after = (set \cap live) \cup left

ListContainers ==
  /\ sweepAt = "idle"
  /\ sweepAt' = "listed"
  /\ live' = conts
  /\ since' = {e \in InFlight : Intact(e)}
  /\ UNCHANGED <<windows, restarts, owner, disk, dindUp, stray, net, ctrd, todo, cand, fails>>

\* Without the list there is no sweep; the reaper is called all the same.
ListFails ==
  /\ sweepAt = "idle" /\ CallFails
  /\ sweepAt' = "relist"
  /\ UNCHANGED <<windows, restarts, owner, disk, dindUp, stray, net, ctrd, live, todo, cand, since>>

addProvisioning_Skipped ==
  /\ sweepAt = "listed"
  /\ sweepAt' = "dirs"
  /\ UNCHANGED <<windows, restarts, owner, disk, dindUp, stray, net, ctrd, live, todo, cand, since, fails>>

addProvisioning ==
  /\ sweepAt = "listed"
  /\ sweepAt' = "dirs"
  /\ live' = live \cup prov
  /\ UNCHANGED <<windows, restarts, owner, disk, dindUp, stray, net, ctrd, todo, cand, since, fails>>

SweepDirs ==
  /\ sweepAt = "dirs"
  /\ sweepAt' = "work"
  /\ Swept(dirs, dirs')
  /\ UNCHANGED <<windows, restarts, owner, work, dindUp, stray, net, ctrd, live, todo, cand, since>>

CleanOrphanJobDirs ==
  /\ sweepAt = "work"
  /\ sweepAt' = "snaps"
  /\ Swept(work, work')
  /\ UNCHANGED <<windows, restarts, owner, dirs, dindUp, stray, net, ctrd, live, todo, cand, since>>

SweepSnapshots ==
  /\ sweepAt = "snaps"
  /\ sweepAt' = "relist"
  /\ Swept(snaps, snaps')
  /\ live' = {} /\ since' = {}
  /\ UNCHANGED <<windows, restarts, owner, disk, dindUp, stray, net, conts, task, old, todo, cand>>

-----------------------------------------------------------------------------
\* ReapDeadContainers: a list of its own, and one container of it after the
\* other.  At the end, or without the list, the pass is over.
ReapList ==
  /\ sweepAt = "relist"
  /\ sweepAt' = "reap"
  /\ \/ todo' = conts /\ UNCHANGED fails
     \/ todo' = {} /\ CallFails
  /\ UNCHANGED <<windows, restarts, owner, disk, dindUp, stray, net, ctrd, live, cand, since>>

ReapDone ==
  /\ sweepAt = "reap" /\ todo = {}
  /\ sweepAt' = "idle"
  /\ UNCHANGED <<windows, restarts, owner, disk, dindUp, stray, net, ctrd, live, todo, cand, since, fails>>

dead_NoGrace(e) == task[e] \in {"none", "stopped"}

\* orphanContainerReapable but for its question about provisioning: the task is
\* gone or stopped, and the container's creation, or the task's exit where there
\* is one, is older than the grace.
dead(e) == task[e] \in {"none", "stopped"} /\ e \in old

\* containerTaskLiveness: the state of the task as it is now, or no answer.
ReadTask(e) ==
  /\ sweepAt = "reap" /\ e \in todo
  /\ todo' = todo \ {e}
  /\ IF e \in conts /\ dead(e) THEN sweepAt' = "seen" /\ cand' = e
                              ELSE UNCHANGED <<sweepAt, cand>>
  /\ UNCHANGED <<windows, restarts, owner, disk, dindUp, stray, net, ctrd, live, since, fails>>

ReadFails(e) ==
  /\ sweepAt = "reap" /\ e \in todo /\ CallFails
  /\ todo' = todo \ {e}
  /\ UNCHANGED <<windows, restarts, owner, disk, dindUp, stray, net, ctrd, sweepAt, live, cand, since>>

\* isProvisioning.
AskProvisioning ==
  /\ sweepAt = "seen"
  /\ IF cand \in prov THEN sweepAt' = "reap" /\ cand' = NoEnv
                      ELSE sweepAt' = "teardown" /\ UNCHANGED cand
  /\ UNCHANGED <<windows, restarts, owner, disk, dindUp, stray, net, ctrd, live, todo, since, fails>>

Reap_KeepsContainer ==
  /\ sweepAt = "teardown"
  /\ SetTask(cand, "none")
  /\ sweepAt' = "reap" /\ cand' = NoEnv
  /\ UNCHANGED <<windows, restarts, owner, disk, dindUp, stray, net, snaps, conts, old,
                 live, todo, since, fails>>

\* teardownContainer: the task, then the container and its snapshot.
Reap ==
  /\ sweepAt = "teardown"
  /\ SetTask(cand, "none")
  /\ conts' = conts \ {cand} /\ snaps' = snaps \ {cand}
  /\ sweepAt' = "reap" /\ cand' = NoEnv
  /\ UNCHANGED <<windows, restarts, owner, disk, dindUp, stray, net, old, live, todo, since, fails>>

ReapFails ==
  /\ sweepAt = "teardown" /\ CallFails
  /\ task' \in {task, [task EXCEPT ![cand] = "none"]}
  /\ sweepAt' = "reap" /\ cand' = NoEnv
  /\ UNCHANGED <<windows, restarts, owner, disk, dindUp, stray, net, snaps, conts, old, live, todo, since>>

\* The grace passes over a container without a task, or with a stopped one.
GracePasses(e) ==
  /\ e \in conts \ old /\ task[e] \in {"none", "stopped"}
  /\ GraceCoversCreate => ~(at[e] = "task" /\ task[e] = "none")
  /\ old' = old \cup {e}
  /\ UNCHANGED <<windows, restarts, owner, disk, dindUp, stray, net, snaps, conts, task, sweeper>>

-----------------------------------------------------------------------------
\* The daemon dies and starts again.  CleanOrphans runs before it takes jobs:
\* it kills and deletes every container and every leftover, as far as it can.
Restart ==
  /\ restarts < MaxRestarts /\ restarts' = restarts + 1
  /\ conts' \in SUBSET conts /\ snaps' \in SUBSET snaps
  /\ dirs' \in SUBSET dirs /\ work' \in SUBSET work
  /\ task' \in [Envs -> TaskState]
  /\ \A e \in Envs :
       \/ task'[e] = "none"
       \/ e \in conts' /\ task'[e] = task[e]
       \/ e \in conts' /\ task[e] = "running" /\ task'[e] = "stopped"
  /\ at' = [e \in Envs |-> IF e \in conts' \cup snaps' \cup dirs' \cup work' THEN "over" ELSE "idle"]
  /\ worker' = [e \in Envs |-> "none"]
  /\ ended' = {} /\ prov' = {} /\ dindUp' = {} /\ stray' = {}
  /\ sweepAt' = "idle" /\ live' = {} /\ todo' = {} /\ cand' = NoEnv /\ since' = {}
  /\ UNCHANGED <<windows, net, old, fails>>

CreateStep(e) ==
  \/ Create(e) \/ HasImage(e) \/ prepareJobRunnerTree(e) \/ StartDind(e)
  \/ SetupNetwork(e) \/ NewContainer(e) \/ NewTask(e) \/ StartTask(e)
  \/ CreateContextEnds(e)
  \/ EarlyExit(e) \/ NetworkExit(e) \/ RunnerIPExit(e) \/ ContainerExit(e)
  \/ LogDirExit(e) \/ TaskExit(e) \/ StartExit(e)

DestroyStep(e) ==
  \/ Destroy(e) \/ DestroyReturns(e) \/ DestroyKill(e) \/ DestroyTask(e) \/ DestroyNet(e)
  \/ DestroyDind(e) \/ DestroyContainer(e) \/ DestroyDir(e) \/ DestroyWork(e)

SweeperStep ==
  \/ ListContainers \/ ListFails \/ addProvisioning
  \/ SweepDirs \/ CleanOrphanJobDirs \/ SweepSnapshots
  \/ ReapList \/ ReapDone \/ AskProvisioning \/ Reap \/ ReapFails
  \/ \E e \in Envs : ReadTask(e) \/ ReadFails(e)

RuntimeNext ==
  \/ \E e \in Envs : CreateStep(e) \/ TaskExits(e) \/ DestroyStep(e) \/ GracePasses(e)
  \/ SweeperStep \/ Restart

\* The sweeper's ticker and loop run, and the grace passes.  Nothing is assumed
\* of Destroy, of its worker, of Create, or of a task.
RuntimeFairness ==
  /\ WF_runtimeVars(SweeperStep)
  /\ \A e \in Envs : WF_runtimeVars(GracePasses(e))

RuntimeSpec == RuntimeInit /\ [][RuntimeNext]_runtimeVars /\ RuntimeFairness

-----------------------------------------------------------------------------
\* What SweepOrphans's comment promises: it is safe to run on a timer while jobs
\* are in flight, so a running job keeps its runner directory and its workdir.
RunningHasFiles ==
  \A e \in Envs : at[e] = "run" /\ task[e] = "running" => e \in dirs \cap work

\* What the provisioning set buys (the corrupted runner of 2026-08-14): a pass
\* takes no file from a job that was in flight when it listed the containers,
\* unless that job returned from Create before the pass looked at the set.
PassSparesOld == \A e \in since : Intact(e)

\* The reaper never tears down a job that runs, although it looked at the task
\* and at the provisioning set at different times.
ReapSparesRunning == sweepAt = "teardown" => task[cand] # "running"

\* No daemon outlives its job but the one that LogDirExit leaves (stray): once
\* Create has failed, or Destroy's worker is past its stop, nobody else serves
\* the job's Docker API.
DindStopped ==
  \A e \in Envs :
    at[e] = "over" /\ worker[e] \notin {"kill", "delete", "net", "dind"} => e \notin dindUp

\* Create fails closed: a job's runner never runs without the job's network,
\* that is without the firewall rules that come with it.
FailsClosed == \A e \in Envs : at[e] = "run" => e \in net

\* What a failed Create or a Destroy that is stuck or abandoned leaves, the
\* sweeper's two passes reclaim between them, as long as containerd does not
\* report a task that is neither gone nor stopped.
Over(e) == at[e] \in {"destroy", "over"} /\ task[e] \in {"none", "stopped"}

LeftoversGo ==
  \A e \in Envs : Over(e) ~> ~Over(e) \/ e \notin conts \cup snaps \cup dirs \cup work
=============================================================================
