------------------------------ MODULE BindStage ------------------------------
(***************************************************************************)
(* Bind staging (pkg/dind): a source that a job names with -v is mounted   *)
(* at a path of ephemerd's own, under a directory per job, before runc     *)
(* gets to see it.  stage and the release of a pin hold the stager's       *)
(* mutex; so does teardown, across its check and its RemoveAll.  The       *)
(* runtime's reaper sweeps a job's directory without that mutex, and       *)
(* without a look at the job's daemon: the runner's task is dead, but a    *)
(* nested container that holds the docker socket, or a bind in flight, may *)
(* stage all the same.                                                     *)
(*                                                                         *)
(* A mount that appears between a check and the RemoveAll behind it is     *)
(* emptied: RemoveAll deletes what is visible through it.                  *)
(***************************************************************************)
EXTENDS Integers, FiniteSets

CONSTANTS
  StageJobs,   \* jobs with a stager each
  MaxBinds     \* a bound on the binds a job stages

ASSUME BindStageAssumption == MaxBinds \in Nat

VARIABLES
  lock,        \* who holds a stager's mutex: "none", "stage", "teardown"
  ready,       \* jobs whose stager has made its directory
  closed,      \* jobs whose stager is torn down
  stageDirs,   \* jobs whose staging directory exists
  stageAt,     \* where stage is
  seq,         \* m.seq
  mounts,      \* the live staging mounts: <<job, number>>
  tearAt,      \* where a stager's teardown is
  reapAt,      \* where the reaper's sweep of a job is
  gutted,      \* jobs with a source that was deleted through its mount
  sweptOpen    \* history: jobs the reaper swept while their stager was open

sweeps == <<tearAt, reapAt, sweptOpen>>
stageVars == <<lock, ready, closed, stageDirs, stageAt, seq, mounts, sweeps, gutted>>

SweepPoints == {"idle", "check", "remove", "done"}

BindStageTypeOK ==
  /\ lock \in [StageJobs -> {"none", "stage", "teardown"}]
  /\ ready \cup closed \cup stageDirs \cup gutted \cup sweptOpen \subseteq StageJobs
  /\ stageAt \in [StageJobs -> {"idle", "mount"}]
  /\ seq \in [StageJobs -> 0..MaxBinds]
  /\ \A m \in mounts : m[1] \in StageJobs /\ m[2] \in 1..seq[m[1]]
  /\ tearAt \in [StageJobs -> SweepPoints] /\ reapAt \in [StageJobs -> SweepPoints]

BindStageInit ==
  /\ lock = [j \in StageJobs |-> "none"] /\ ready = {} /\ closed = {} /\ stageDirs = {} /\ gutted = {}
  /\ stageAt = [j \in StageJobs |-> "idle"] /\ seq = [j \in StageJobs |-> 0] /\ mounts = {}
  /\ tearAt = [j \in StageJobs |-> "idle"] /\ reapAt = [j \in StageJobs |-> "idle"] /\ sweptOpen = {}

MountsOf(j) == {m \in mounts : m[1] = j}

\* ensureDirLocked, once per job, and the mountpoint: without the directory
\* there is no mountpoint and the bind is refused.
stage(j) ==
  /\ lock[j] = "none" /\ j \notin closed /\ seq[j] < MaxBinds
  /\ ready' = ready \cup {j}
  /\ stageDirs' = IF j \in ready THEN stageDirs ELSE stageDirs \cup {j}
  /\ seq' = [seq EXCEPT ![j] = @ + 1]
  /\ IF j \in stageDirs'
     THEN lock' = [lock EXCEPT ![j] = "stage"] /\ stageAt' = [stageAt EXCEPT ![j] = "mount"]
     ELSE UNCHANGED <<lock, stageAt>>
  /\ UNCHANGED <<closed, mounts, sweeps, gutted>>

\* mount(2): it fails when the mountpoint has gone.
StageMount(j) ==
  /\ stageAt[j] = "mount"
  /\ stageAt' = [stageAt EXCEPT ![j] = "idle"] /\ lock' = [lock EXCEPT ![j] = "none"]
  /\ mounts' \in IF j \in stageDirs THEN {mounts, mounts \cup {<<j, seq[j]>>}} ELSE {mounts}
  /\ UNCHANGED <<ready, closed, stageDirs, seq, sweeps, gutted>>

\* A pin's unstage: unmountAndRemove under the mutex.
unmountAndRemove(j) ==
  /\ lock[j] = "none"
  /\ \E m \in MountsOf(j) : mounts' = mounts \ {m}
  /\ UNCHANGED <<lock, ready, closed, stageDirs, stageAt, seq, sweeps, gutted>>

teardownBinds_Unlocked(j) ==
  /\ tearAt[j] = "idle"
  /\ ready' = ready \ {j} /\ closed' = closed \cup {j}
  /\ mounts' = mounts \ MountsOf(j)
  /\ tearAt' = [tearAt EXCEPT ![j] = "check"]
  /\ UNCHANGED <<lock, stageDirs, stageAt, seq, reapAt, sweptOpen, gutted>>

\* teardown: the stager is closed for good and its mounts are detached.
teardownBinds(j) ==
  /\ tearAt[j] = "idle" /\ lock[j] = "none"
  /\ lock' = [lock EXCEPT ![j] = "teardown"]
  /\ ready' = ready \ {j} /\ closed' = closed \cup {j}
  /\ mounts' = mounts \ MountsOf(j)
  /\ tearAt' = [tearAt EXCEPT ![j] = "check"]
  /\ UNCHANGED <<stageDirs, stageAt, seq, reapAt, sweptOpen, gutted>>

\* unmountTreeAndRemove looks again, and removes only a tree without mounts.
Checked(pc, j) ==
  /\ pc[j] = "check"
  /\ pc' = [pc EXCEPT ![j] = IF MountsOf(j) = {} THEN "remove" ELSE "done"]

RemoveAll(pc, j) ==
  /\ pc[j] = "remove" /\ pc' = [pc EXCEPT ![j] = "done"]
  /\ gutted' = IF MountsOf(j) = {} THEN gutted ELSE gutted \cup {j}
  /\ stageDirs' = IF MountsOf(j) = {} THEN stageDirs \ {j} ELSE stageDirs

TeardownCheck(j) ==
  /\ Checked(tearAt, j)
  /\ lock' = IF tearAt'[j] = "done" THEN [lock EXCEPT ![j] = "none"] ELSE lock
  /\ UNCHANGED <<ready, closed, stageDirs, stageAt, seq, mounts, reapAt, sweptOpen, gutted>>

TeardownRemove(j) ==
  /\ RemoveAll(tearAt, j)
  /\ lock' = [lock EXCEPT ![j] = IF @ = "teardown" THEN "none" ELSE @]
  /\ UNCHANGED <<ready, closed, stageAt, seq, mounts, reapAt, sweptOpen>>

\* sweepStagedBindsForJob, from a pass of the reaper: one job's directory, with
\* no mutex, whether its stager is open or not.
sweepStagedBindsForJob(j) ==
  /\ reapAt[j] \in {"idle", "done"}
  /\ mounts' = mounts \ MountsOf(j)
  /\ reapAt' = [reapAt EXCEPT ![j] = IF j \in stageDirs THEN "check" ELSE "done"]
  /\ sweptOpen' = IF j \in closed THEN sweptOpen ELSE sweptOpen \cup {j}
  /\ UNCHANGED <<lock, ready, closed, stageDirs, stageAt, seq, tearAt, gutted>>

ReapCheck(j) ==
  /\ Checked(reapAt, j)
  /\ UNCHANGED <<lock, ready, closed, stageDirs, stageAt, seq, mounts, tearAt, sweptOpen, gutted>>

ReapRemove(j) ==
  /\ RemoveAll(reapAt, j)
  /\ UNCHANGED <<lock, ready, closed, stageAt, seq, mounts, tearAt, sweptOpen>>

BindStageNext ==
  \E j \in StageJobs :
    \/ stage(j) \/ StageMount(j) \/ unmountAndRemove(j)
    \/ teardownBinds(j) \/ TeardownCheck(j) \/ TeardownRemove(j)
    \/ sweepStagedBindsForJob(j) \/ ReapCheck(j) \/ ReapRemove(j)

BindStageSpec == BindStageInit /\ [][BindStageNext]_stageVars

-----------------------------------------------------------------------------
\* No removal deletes through a mount, but the reaper's of a job whose stager it
\* found open: a teardown, and a sweep that begins after one, have nobody who can
\* stage between their look at the mount table and their RemoveAll.
NothingGutted == gutted \subseteq sweptOpen

\* A job the reaper has not come for keeps its directory while its stager is open,
\* whatever is swept of other jobs: ready is latched and nobody would make it again
\* (the sweep of #187 took every job's, and each later docker run -v failed).
LiveKeepsDir == ready \ sweptOpen \subseteq stageDirs

\* After teardown the job has no staging mount, so nothing pins the runner's
\* rootfs: a bind that was in flight is refused or was detached, whenever the
\* reaper swept the directory under it.
TornDownIsEmpty == \A j \in StageJobs : tearAt[j] = "done" => MountsOf(j) = {}
=============================================================================
