--------------------------- MODULE ContainersProofs ---------------------------
(***************************************************************************)
(* Invariants of the components that run a job's containers, for every     *)
(* number of builds, jobs, records and runners.                            *)
(***************************************************************************)
EXTENDS NetworkProofs, RuntimeProofs

-----------------------------------------------------------------------------
(* Build: who repairs holds the mutex over a core that is closed, and a     *)
(* store that is not in its place has no core over it and no solve in it.   *)
RepairHoldsMu == \A b \in Builds : bldAt[b] \in Repairing => mu = b
RepairCloses ==
  \A b \in Builds : /\ bldAt[b] \in Repairing => core # "open"
                    /\ bldAt[b] = "moving" => store = "moved"
BuildPlaces == bldAt \in [Builds -> BuildPoints]

BuildInv == BuildPlaces /\ RepairHoldsMu /\ RepairCloses /\ StoreMovesIdle

(* A step of a build that is neither a repair nor the start of a solve      *)
(* keeps the invariant of the store.                                        *)
LEMMA BuildMoves ==
  ASSUME BuildInv, NEW b \in Builds, NEW p \in BuildPoints \ {"solving", "closing", "moving"},
         bldAt[b] \notin Repairing, bldAt' = [bldAt EXCEPT ![b] = p],
         mu' = mu, core' = core, store' = store
  PROVE  BuildInv'
  BY DEF BuildInv, BuildPlaces, RepairHoldsMu, RepairCloses, StoreMovesIdle, Repairing, BuildPoints

(* The state of the store survives every step of Build.                    *)
LEMMA BuildInvStep == BuildInv /\ BuildNext => BuildInv'
<1> SUFFICES ASSUME BuildInv, BuildNext PROVE BuildInv'
  OBVIOUS
<1> USE DEF GoTo
<1>1. ASSUME NEW b \in Builds, handleImageBuild(b) PROVE BuildInv'
  <2>1. PICK p \in {"dial", "failed"} : GoTo(b, p)
    BY <1>1 DEF handleImageBuild
  <2> QED BY <1>1, <2>1, BuildMoves DEF handleImageBuild, coreVars, BuildPoints, Repairing
<1>2. ASSUME NEW b \in Builds, Dial(b) PROVE BuildInv'
  <2>1. \A c \in Builds : bldAt[c] \notin Repairing
    BY <1>2, BuildAssumption DEF Dial, BuildInv, RepairHoldsMu
  <2>2. PICK p \in {"solving", "failed", "hung"} : bldAt' = [bldAt EXCEPT ![b] = p]
    BY <1>2 DEF Dial
  <2> QED BY <1>2, <2>1, <2>2 DEF Dial, BuildInv, BuildPlaces, RepairHoldsMu, RepairCloses,
             StoreMovesIdle, coreVars, BuildPoints, Repairing
<1>3. ASSUME NEW b \in Builds, SolveOk(b) \/ SolveFails(b) PROVE BuildInv'
  BY <1>3, BuildMoves DEF SolveOk, SolveFails, coreVars, BuildPoints, Repairing
<1>4. ASSUME NEW b \in Builds, SolveDangles(b) PROVE BuildInv'
  <2>1. PICK p \in {"heal", "failed"} : bldAt' = [bldAt EXCEPT ![b] = p]
    BY <1>4 DEF SolveDangles
  <2> QED BY <1>4, <2>1, BuildMoves DEF SolveDangles, coreVars, BuildPoints, Repairing
<1>5. ASSUME NEW b \in Builds, healAndRetryBuild(b) PROVE BuildInv'
  <2> DEFINE rung == nextID(ladder[bldKey[b]])
             next == CASE rung = "giveUp" \/ b \in bldGone -> "failed"
                       [] rung = "prune" -> "prune"
                       [] OTHER -> "rebuildWaits"
  <2>0. next \in {"prune", "failed", "rebuildWaits"}
    OBVIOUS
  <2>1. PICK p \in {"prune", "failed", "rebuildWaits"} : bldAt' = [bldAt EXCEPT ![b] = p]
    BY <1>5, <2>0 DEF healAndRetryBuild
  <2> QED BY <1>5, <2>1, BuildMoves DEF healAndRetryBuild, BuildPoints, Repairing
<1>6. ASSUME NEW b \in Builds, PruneAll(b) PROVE BuildInv'
  <2>1. PICK p \in {"dial", "failed", "rebuildWaits"} : bldAt' = [bldAt EXCEPT ![b] = p]
    BY <1>6 DEF PruneAll
  <2> QED BY <1>6, <2>1, BuildMoves DEF PruneAll, coreVars, BuildPoints, Repairing
<1>7. ASSUME NEW b \in Builds, Rebuild(b) PROVE BuildInv'
  <2>1. \A c \in Builds : bldAt[c] \notin Repairing
    BY <1>7, BuildAssumption DEF Rebuild, BuildInv, RepairHoldsMu
  <2>2. CASE core = "closed"
    BY <1>7, <2>1, <2>2, BuildMoves DEF Rebuild, BuildPoints, Repairing
  <2>3. CASE core # "closed"
    BY <1>7, <2>1, <2>3 DEF Rebuild, BuildInv, BuildPlaces, RepairHoldsMu, RepairCloses,
       StoreMovesIdle, BuildPoints, Repairing
  <2> QED BY <2>2, <2>3
<1>8. ASSUME NEW b \in Builds, GracefulStop(b) PROVE BuildInv'
  <2>1. mu = b /\ \A c \in Builds \ {b} : bldAt[c] \notin Repairing
    BY <1>8 DEF GracefulStop, BuildInv, RepairHoldsMu, Repairing
  <2>2. CASE bldAt' = [bldAt EXCEPT ![b] = "moving"] /\ store' = "moved" /\ mu' = mu
    BY <1>8, <2>1, <2>2 DEF GracefulStop, BuildInv, BuildPlaces, RepairHoldsMu, RepairCloses,
       StoreMovesIdle, BuildPoints, Repairing
  <2>3. CASE bldAt' = [bldAt EXCEPT ![b] = "failed"] /\ mu' = NoBuild /\ store' = store
    BY <1>8, <2>1, <2>3 DEF GracefulStop, BuildInv, BuildPlaces, RepairHoldsMu, RepairCloses,
       StoreMovesIdle, BuildPoints, Repairing
  <2> QED BY <1>8, <2>2, <2>3 DEF GracefulStop
<1>9. ASSUME NEW b \in Builds, newCore(b) PROVE BuildInv'
  <2>1. mu = b /\ \A c \in Builds \ {b} : bldAt[c] \notin Repairing
    BY <1>9 DEF newCore, BuildInv, RepairHoldsMu, Repairing
  <2>2. PICK p \in {"dial", "failed"} : bldAt' = [bldAt EXCEPT ![b] = p]
    BY <1>9 DEF newCore
  <2>3. \A c \in Builds : bldAt'[c] # "solving"
    BY <1>9, <2>2 DEF newCore, BuildInv, BuildPlaces, RepairCloses, StoreMovesIdle
  <2>4. store' = "here" \/ core' # "open"
    BY <1>9 DEF newCore, BuildInv, RepairCloses, Repairing
  <2> QED BY <1>9, <2>1, <2>2, <2>3, <2>4 DEF newCore, BuildInv, BuildPlaces, RepairHoldsMu,
             RepairCloses, StoreMovesIdle, BuildPoints, Repairing
<1>10. ASSUME Close PROVE BuildInv'
  <2>1. \A c \in Builds : bldAt[c] \notin Repairing
    BY <1>10, BuildAssumption DEF Close, BuildInv, RepairHoldsMu
  <2> QED BY <1>10, <2>1 DEF Close, BuildInv, BuildPlaces, RepairHoldsMu, RepairCloses,
             StoreMovesIdle, Repairing
<1>11. ASSUME CloseReturns PROVE BuildInv'
  <2>1. \A c \in Builds : bldAt[c] \notin Repairing
    BY <1>11, BuildAssumption DEF CloseReturns, BuildInv, RepairHoldsMu
  <2> QED BY <1>11, <2>1 DEF CloseReturns, BuildInv, BuildPlaces, RepairHoldsMu, RepairCloses,
             StoreMovesIdle, Repairing
<1>12. ASSUME NEW b \in Builds, BuildHangUp(b) PROVE BuildInv'
  BY <1>12 DEF BuildHangUp, coreVars, BuildInv, BuildPlaces, RepairHoldsMu, RepairCloses, StoreMovesIdle
<1>13. ASSUME NEW k \in BuildKeys, Poison(k) PROVE BuildInv'
  BY <1>13 DEF Poison, coreVars, BuildInv, BuildPlaces, RepairHoldsMu, RepairCloses, StoreMovesIdle
<1> QED
  BY <1>1, <1>2, <1>3, <1>4, <1>5, <1>6, <1>7, <1>8, <1>9, <1>10, <1>11, <1>12, <1>13
  DEF BuildNext, BuildStep

-----------------------------------------------------------------------------
(* BuildRecords: while a pass is between its listings, a live job's record  *)
(* that may be taken for old is of a job the pass has listed.               *)
RecordsInv ==
  /\ record \in [RecordJobs -> {"none", "fresh", "young", "old"}]
  /\ jobUp \in [RecordJobs -> {"new", "up", "down"}]
  /\ \A j \in RecordJobs : jobUp[j] = "new" => record[j] = "none"
  /\ \A j \in RecordJobs :
        sweepingRec /\ jobUp[j] = "up" /\ record[j] \in {"young", "old"} => j \in sweepLive
  /\ keptLive

(* No step of a job, of the clock or of the sweep spoils that.             *)
LEMMA RecordsInvStep == RecordsInv /\ RecordsNext => RecordsInv'
<1> SUFFICES ASSUME RecordsInv, RecordsNext PROVE RecordsInv'
  OBVIOUS
<1>1. ASSUME NEW j \in RecordJobs, StartJob(j) PROVE RecordsInv'
  BY <1>1 DEF StartJob, RecordsInv
<1>2. ASSUME NEW j \in RecordJobs, Export(j) PROVE RecordsInv'
  BY <1>2 DEF Export, RecordsInv
<1>3. ASSUME NEW j \in RecordJobs, CleanupJobBuildRecords(j) PROVE RecordsInv'
  BY <1>3 DEF CleanupJobBuildRecords, RecordsInv
<1>4. ASSUME NEW j \in RecordJobs, BuildGrace(j) PROVE RecordsInv'
  BY <1>4 DEF BuildGrace, RecordsInv
<1>5. CASE sweepDeadBuildRecords
  BY <1>5 DEF sweepDeadBuildRecords, RecordsInv
<1>6. CASE PruneDeadBuildRecords
  <2>1. \A j \in DeadBuildRecords : jobUp[j] # "up"
    BY <1>6 DEF PruneDeadBuildRecords, RecordsInv, DeadBuildRecords
  <2>2. \A j \in RecordJobs : /\ record'[j] \in {"none", "fresh", "young", "old"}
                               /\ record[j] = "none" => record'[j] = "none"
    BY <1>6 DEF PruneDeadBuildRecords, RecordsInv, DeadBuildRecords
  <2> QED BY <1>6, <2>1, <2>2 DEF PruneDeadBuildRecords, RecordsInv
<1> QED BY <1>1, <1>2, <1>3, <1>4, <1>5, <1>6 DEF RecordsNext, RecordSweep

-----------------------------------------------------------------------------
BuildsInv == (focus = "build" => BuildInv) /\ (focus = "records" => RecordsInv)

(* A step of the node is one of the component in focus.                    *)
LEMMA BuildsInvStep ==
  BuildsInv /\ [ContainersNext]_<<focus, containersVars>> => BuildsInv'
<1> SUFFICES ASSUME BuildsInv, [ContainersNext]_<<focus, containersVars>> PROVE BuildsInv'
  OBVIOUS
<1>1. focus' = focus
  BY DEF ContainersNext
<1>2. ASSUME focus = "build" PROVE BuildInv'
  <2>1. BuildNext \/ UNCHANGED buildVars
    BY <1>2 DEF ContainersNext, ContainersMoves, containersVars
  <2>2. CASE UNCHANGED buildVars
    BY <1>2, <2>2 DEF buildVars, coreVars, BuildsInv, BuildInv, BuildPlaces, RepairHoldsMu,
       RepairCloses, StoreMovesIdle
  <2> QED BY <1>2, <2>1, <2>2, BuildInvStep DEF BuildsInv
<1>3. ASSUME focus = "records" PROVE RecordsInv'
  <2>1. RecordsNext \/ UNCHANGED recordVars
    BY <1>3 DEF ContainersNext, ContainersMoves, containersVars
  <2>2. CASE UNCHANGED recordVars
    BY <1>3, <2>2 DEF recordVars, BuildsInv, RecordsInv
  <2> QED BY <1>3, <2>1, <2>2, RecordsInvStep DEF BuildsInv
<1> QED BY <1>1, <1>2, <1>3 DEF BuildsInv

(* A node that starts has no build and no record.                           *)
LEMMA BuildsStart == ContainersStart => BuildsInv
<1>1. BuildInit => BuildInv
  BY DEF BuildInit, BuildInv, BuildPlaces, RepairHoldsMu, RepairCloses, StoreMovesIdle,
     Repairing, BuildPoints
<1>2. RecordsInit => RecordsInv
  BY DEF RecordsInit, RecordsInv
<1> QED BY <1>1, <1>2 DEF ContainersStart, ContainersInit, BuildsInv

(* For every number of builds, records and jobs, and of repairs that fail   *)
(* half-way: while BuildKit's store is not in its place no core serves over *)
(* it and no build solves in it, and the sweep of build records never       *)
(* deletes one of a job that runs.                                          *)
THEOREM BuildsStayUnharmed == ContainersSpec => []BuildsUnharmed
<1>1. ContainersStart => BuildsInv
  BY BuildsStart
<1>2. BuildsInv => BuildsUnharmed
  BY DEF BuildsInv, BuildsUnharmed, BuildInv, StoreMovesIdle,
     RecordsInv, LiveRecordKept
<1> QED BY <1>1, <1>2, BuildsInvStep, PTL DEF ContainersSpec

-----------------------------------------------------------------------------
(* BindStage: a stager that is being torn down is closed, has no mount and  *)
(* no stage under way; a job the reaper came for was open, and is marked,   *)
(* or is closed by now.                                                     *)
StagesTyped ==
  /\ lock \in [StageJobs -> {"none", "stage", "teardown"}]
  /\ stageAt \in [StageJobs -> {"idle", "mount"}]
  /\ tearAt \in [StageJobs -> SweepPoints] /\ reapAt \in [StageJobs -> SweepPoints]
  /\ seq \in [StageJobs -> Nat]
ClosedIsEmpty ==
  \A j \in StageJobs : tearAt[j] # "idle" =>
    j \in closed /\ j \notin ready /\ stageAt[j] = "idle" /\ MountsOf(j) = {}
StageLocks == \A j \in StageJobs : stageAt[j] = "mount" => lock[j] = "stage"
ReapsMarked ==
  \A j \in StageJobs : /\ j \in closed => tearAt[j] # "idle"
                       /\ reapAt[j] # "idle" => j \in sweptOpen \cup closed

StageInv ==
  /\ StagesTyped /\ ClosedIsEmpty /\ StageLocks /\ ReapsMarked /\ NothingGutted /\ LiveKeepsDir
  /\ ready \subseteq StageJobs

(* No step of a stager, of its teardown or of the reaper spoils that.       *)
LEMMA StageInvStep == StageInv /\ BindStageNext => StageInv'
<1> SUFFICES ASSUME StageInv, NEW j \in StageJobs,
        \/ stage(j) \/ StageMount(j) \/ unmountAndRemove(j)
        \/ teardownBinds(j) \/ TeardownCheck(j) \/ TeardownRemove(j)
        \/ sweepStagedBindsForJob(j) \/ ReapCheck(j) \/ ReapRemove(j)
      PROVE StageInv'
  BY DEF BindStageNext
<1> USE DEF StageInv, StagesTyped, ClosedIsEmpty, StageLocks, ReapsMarked, NothingGutted, LiveKeepsDir,
            MountsOf, SweepPoints, sweeps
<1>1. CASE stage(j)
  BY <1>1 DEF stage
<1>2. CASE StageMount(j)
  <2>1. mounts' \in {mounts, mounts \cup {<<j, seq[j]>>}}
    BY <1>2 DEF StageMount
  <2>2. tearAt[j] = "idle"
    BY <1>2 DEF StageMount
  <2>3. \A i \in StageJobs \ {j} : MountsOf(i)' = MountsOf(i)
    BY <2>1
  <2> QED BY <1>2, <2>2, <2>3 DEF StageMount
<1>3. CASE unmountAndRemove(j)
  BY <1>3 DEF unmountAndRemove
<1>4. CASE teardownBinds(j)
  BY <1>4 DEF teardownBinds
<1>5. CASE TeardownCheck(j)
  BY <1>5 DEF TeardownCheck, Checked
<1>6. CASE TeardownRemove(j)
  BY <1>6 DEF TeardownRemove, RemoveAll
<1>7. CASE sweepStagedBindsForJob(j)
  BY <1>7 DEF sweepStagedBindsForJob
<1>8. CASE ReapCheck(j)
  BY <1>8 DEF ReapCheck, Checked
<1>9. CASE ReapRemove(j)
  BY <1>9 DEF ReapRemove, RemoveAll
<1> QED BY <1>1, <1>2, <1>3, <1>4, <1>5, <1>6, <1>7, <1>8, <1>9

(* BindWalk: at every point of the walk the descriptors that are open are   *)
(* those the stack and the deferred close of the root account for.          *)
WalkInv ==
  /\ stack \in Nat /\ fds \in Nat
  /\ walkAt \in {"idle", "walk", "create", "pin", "pinned", "failed"}
  /\ walkAt = "walk" => fds = 1 + stack /\ stack >= 1
  /\ walkAt \in {"create", "pin", "pinned"} => fds = 2 /\ stack = 1
  /\ walkAt = "failed" => fds = 1

(* Whatever a component turns out to be, the balance is kept.              *)
LEMMA WalkInvStep == WalkInv /\ BindWalkNext => WalkInv'
<1> SUFFICES ASSUME WalkInv, BindWalkNext PROVE WalkInv'
  OBVIOUS
<1> USE DEF WalkInv, Walking
<1>1. CASE pinBindSource
  BY <1>1 DEF pinBindSource
<1>2. CASE WalkUp \/ WalkDown
  BY <1>2 DEF WalkUp, WalkDown
<1>3. CASE WalkLink
  BY <1>3 DEF WalkLink
<1>4. CASE WalkFails \/ createBeneath
  BY <1>4 DEF WalkFails, createBeneath
<1>5. CASE createUnder \/ CreateUnderFails
  BY <1>5 DEF createUnder, CreateUnderFails
<1>6. CASE Resolved \/ newBindPin
  BY <1>6 DEF Resolved, newBindPin
<1> QED BY <1>1, <1>2, <1>3, <1>4, <1>5, <1>6 DEF BindWalkNext, BindWalkStep

BindsInv == (focus = "binds" => StageInv) /\ (focus = "walk" => WalkInv)

(* A step of the node is one of the component in focus.                    *)
LEMMA BindsInvStep ==
  BindsInv /\ [ContainersNext]_<<focus, containersVars>> => BindsInv'
<1> SUFFICES ASSUME BindsInv, [ContainersNext]_<<focus, containersVars>> PROVE BindsInv'
  OBVIOUS
<1>1. focus' = focus
  BY DEF ContainersNext
<1>2. ASSUME focus = "binds" PROVE StageInv'
  <2>1. BindStageNext \/ UNCHANGED stageVars
    BY <1>2 DEF ContainersNext, ContainersMoves, containersVars
  <2>2. CASE UNCHANGED stageVars
    BY <1>2, <2>2 DEF stageVars, sweeps, BindsInv, StageInv, StagesTyped, ClosedIsEmpty, StageLocks,
       ReapsMarked, NothingGutted, LiveKeepsDir, MountsOf
  <2> QED BY <1>2, <2>1, <2>2, StageInvStep DEF BindsInv
<1>3. ASSUME focus = "walk" PROVE WalkInv'
  <2>1. BindWalkNext \/ UNCHANGED walkVars
    BY <1>3 DEF ContainersNext, ContainersMoves, containersVars
  <2>2. CASE UNCHANGED walkVars
    BY <1>3, <2>2 DEF walkVars, BindsInv, WalkInv
  <2> QED BY <1>3, <2>1, <2>2, WalkInvStep DEF BindsInv
<1> QED BY <1>1, <1>2, <1>3 DEF BindsInv

(* For any number of jobs, binds, path components and links: a staging      *)
(* directory is emptied through a mount, or taken from an open stager, only *)
(* by a reaper that came for that very job while its stager was open; a     *)
(* stager that was torn down has no mount left; and no walk leaks or doubly *)
(* closes a descriptor.                                                     *)
THEOREM BindsStayApart == ContainersSpec => []BindsApart
<1>1. focus \in ContainersParts /\ ContainersInit => BindsInv
  <2>1. BindStageInit => StageInv
    BY DEF BindStageInit, StageInv, StagesTyped, ClosedIsEmpty, StageLocks, ReapsMarked, NothingGutted,
       LiveKeepsDir, MountsOf, SweepPoints
  <2>2. BindWalkInit => WalkInv
    BY DEF BindWalkInit, WalkInv
  <2> QED BY <2>1, <2>2 DEF ContainersInit, BindsInv
<1>2. BindsInv => BindsApart
  BY DEF BindsInv, BindsApart, StageInv, ClosedIsEmpty, TornDownIsEmpty, WalkInv, DescriptorsBalanced
<1> QED BY <1>1, <1>2, BindsInvStep, PTL DEF ContainersSpec, ContainersStart

-----------------------------------------------------------------------------
(* DindServer: once Shutdown has returned no handler runs any more, and     *)
(* Stop works through what is left, one container after the other.          *)
Halted == dindStopAt \notin {"serving", "shutdown"}

HandlersOver ==
  Halted => \A c \in Cids : creator[c] \in {"idle", "over"} /\ starter[c] = "idle"

CleanersPlaced ==
  /\ dindStopAt \in {"execs", "take", "sweep", "port", "leftover", "done"} =>
       \A c \in Cids : cleaner[c] = "idle"
  /\ dindStopAt \in {"destroy", "sweep", "port", "leftover", "done"} => listed = {}
  /\ dindStopAt # "destroy" => taken = {}

SweptIsBare ==
  /\ dindStopAt \in {"sweep", "port", "leftover", "done"} => pinned = {}
  /\ dindStopAt \in {"port", "done"} => ctrs = {}

(* A container that is not made yet has nothing.                            *)
UnmadeIsBare ==
  \A c \in Cids : creator[c] # "over" =>
    c \notin listed \cup taken /\ starter[c] = "idle" /\ cleaner[c] = "idle" /\ ctask[c] = "none"

(* A start and a remove of one container overlap only when it is excused.   *)
OvertakenExcused ==
  \A c \in Cids \ excused :
    /\ starter[c] = "idle" \/ cleaner[c] = "idle"
    /\ starter[c] # "idle" => c \in listed

(* An endpoint, a forward and a pin each have an entry that will be cleaned *)
(* up, or a clean-up that has not come to it yet.                           *)
EndpointsOwned ==
  /\ endpoints \ strays \subseteq enet
  /\ \A c \in endpoints \ (excused \cup strays) :
       IF cleaner[c] = "idle" THEN c \in listed \cup taken ELSE cleaner[c] \in {"ports", "task", "net"}
ForwardsOwned ==
  \A c \in forwards \ excused :
    IF cleaner[c] = "idle" THEN c \in listed \cup taken ELSE cleaner[c] = "ports"
PinsOwned ==
  /\ \A c \in Cids : creator[c] \in {"spec", "register"} => c \in pinned
  /\ \A c \in listed : cleaner[c] # "unlist" => c \in pinned

(* A start that has set up the network still has it, and its task has not   *)
(* been started by anybody else.                                            *)
StartedWired ==
  /\ \A c \in Cids \ excused : starter[c] \in {"ports", "run"} => c \in endpoints
  /\ \A c \in Cids : starter[c] \in {"net", "ports", "run"} => ctask[c] \in {"created", "none"}

DindInv ==
  /\ DindTypeOK /\ HandlersOver /\ CleanersPlaced /\ SweptIsBare /\ UnmadeIsBare
  /\ OvertakenExcused /\ EndpointsOwned /\ ForwardsOwned /\ PinsOwned /\ StartedWired
  /\ SiblingHasNetwork

(* Statuses, waiters, execs and counters are aside from what is owned.      *)
LEMMA DindAside ==
  ASSUME DindInv, DindTypeOK',
         UNCHANGED <<dindStopAt, listed, taken, enet, pinned, creator, starter, cleaner,
                     ctrd2, wires, excused>>
  PROVE  DindInv'
  BY DEF DindInv, HandlersOver, CleanersPlaced, SweptIsBare, UnmadeIsBare, OvertakenExcused,
     EndpointsOwned, ForwardsOwned, PinsOwned, StartedWired, SiblingHasNetwork, Kept, Halted, ctrd2, wires

(* Every step of a handler, of a client, of a sibling and of Stop keeps it. *)
LEMMA DindInvStep == DindInv /\ DindNext => DindInv'
<1> SUFFICES ASSUME DindInv, DindNext PROVE DindInv'
  OBVIOUS
<1> USE DEF At, TaskTo, Fails, Serving, entries, ctrd2, wires, execVars
<1>1. ASSUME NEW c \in Cids, handleContainerCreate(c) PROVE DindInv'
  <2>1. DindTypeOK'
    BY <1>1 DEF handleContainerCreate, DindInv, DindTypeOK, CreatePoints
  <2>2. HandlersOver'
    BY <1>1 DEF handleContainerCreate, DindInv, HandlersOver, Halted
  <2>3. UnmadeIsBare'
    BY <1>1 DEF handleContainerCreate, DindInv, UnmadeIsBare
  <2>4. PinsOwned'
    BY <1>1 DEF handleContainerCreate, DindInv, PinsOwned
  <2>5. CleanersPlaced' /\ SweptIsBare' /\ OvertakenExcused' /\ EndpointsOwned' /\ ForwardsOwned' /\
        StartedWired' /\ SiblingHasNetwork'
    BY <1>1 DEF handleContainerCreate, DindInv, CleanersPlaced, SweptIsBare, OvertakenExcused,
       EndpointsOwned, ForwardsOwned, StartedWired, SiblingHasNetwork, Kept
  <2> QED BY <2>1, <2>2, <2>3, <2>4, <2>5 DEF DindInv
<1>2. ASSUME NEW c \in Cids, buildBindMounts(c) PROVE DindInv'
  <2>1. DindTypeOK'
    BY <1>2 DEF buildBindMounts, DindInv, DindTypeOK, CreatePoints
  <2>2. HandlersOver'
    BY <1>2 DEF buildBindMounts, DindInv, HandlersOver, Halted
  <2>3. SweptIsBare'
    BY <1>2 DEF buildBindMounts, DindInv, SweptIsBare, HandlersOver, Halted
  <2>4. UnmadeIsBare'
    BY <1>2 DEF buildBindMounts, DindInv, UnmadeIsBare
  <2>5. PinsOwned'
    BY <1>2 DEF buildBindMounts, DindInv, PinsOwned
  <2>6. SiblingHasNetwork'
    BY <1>2 DEF buildBindMounts, DindInv, SiblingHasNetwork, Kept
  <2>7. CleanersPlaced' /\ OvertakenExcused' /\ EndpointsOwned' /\ ForwardsOwned' /\ StartedWired'
    BY <1>2 DEF buildBindMounts, DindInv, CleanersPlaced, OvertakenExcused, EndpointsOwned,
       ForwardsOwned, StartedWired
  <2> QED BY <2>1, <2>2, <2>3, <2>4, <2>5, <2>6, <2>7 DEF DindInv
<1>3. ASSUME NEW c \in Cids, CreateExit(c) PROVE DindInv'
  <2>1. DindTypeOK'
    BY <1>3 DEF CreateExit, DindInv, DindTypeOK, CreatePoints
  <2>2. HandlersOver'
    BY <1>3 DEF CreateExit, DindInv, HandlersOver, Halted
  <2>3. SweptIsBare'
    BY <1>3 DEF CreateExit, DindInv, SweptIsBare
  <2>4. UnmadeIsBare'
    BY <1>3 DEF CreateExit, DindInv, UnmadeIsBare
  <2>5. PinsOwned'
    BY <1>3 DEF CreateExit, DindInv, PinsOwned, UnmadeIsBare, DindTypeOK
  <2>6. SiblingHasNetwork'
    BY <1>3 DEF CreateExit, DindInv, SiblingHasNetwork, Kept, UnmadeIsBare
  <2>7. CleanersPlaced' /\ OvertakenExcused' /\ EndpointsOwned' /\ ForwardsOwned' /\ StartedWired'
    BY <1>3 DEF CreateExit, DindInv, CleanersPlaced, OvertakenExcused, EndpointsOwned,
       ForwardsOwned, StartedWired
  <2> QED BY <2>1, <2>2, <2>3, <2>4, <2>5, <2>6, <2>7 DEF DindInv
<1>4. ASSUME NEW c \in Cids, NewSibling(c) PROVE DindInv'
  <2>1. DindTypeOK'
    BY <1>4 DEF NewSibling, DindInv, DindTypeOK, CreatePoints
  <2>2. HandlersOver'
    BY <1>4 DEF NewSibling, DindInv, HandlersOver, Halted
  <2>3. SweptIsBare'
    BY <1>4 DEF NewSibling, DindInv, SweptIsBare, PinsOwned
  <2>4. UnmadeIsBare'
    BY <1>4 DEF NewSibling, DindInv, UnmadeIsBare
  <2>5. PinsOwned'
    BY <1>4 DEF NewSibling, DindInv, PinsOwned
  <2>6. CleanersPlaced' /\ OvertakenExcused' /\ EndpointsOwned' /\ ForwardsOwned' /\
        StartedWired' /\ SiblingHasNetwork'
    BY <1>4 DEF NewSibling, DindInv, CleanersPlaced, OvertakenExcused, EndpointsOwned,
       ForwardsOwned, StartedWired, SiblingHasNetwork, Kept
  <2> QED BY <2>1, <2>2, <2>3, <2>4, <2>5, <2>6 DEF DindInv
<1>5. ASSUME NEW c \in Cids, Register(c) PROVE DindInv'
  <2>1. DindTypeOK'
    BY <1>5 DEF Register, DindInv, DindTypeOK, CreatePoints
  <2>2. HandlersOver'
    BY <1>5 DEF Register, DindInv, HandlersOver, Halted
  <2>3. CleanersPlaced'
    BY <1>5 DEF Register, DindInv, CleanersPlaced, HandlersOver, Halted
  <2>4. UnmadeIsBare'
    BY <1>5 DEF Register, DindInv, UnmadeIsBare, DindTypeOK
  <2>5. OvertakenExcused'
    BY <1>5 DEF Register, DindInv, OvertakenExcused
  <2>6. EndpointsOwned'
    BY <1>5 DEF Register, DindInv, EndpointsOwned
  <2>7. ForwardsOwned'
    BY <1>5 DEF Register, DindInv, ForwardsOwned
  <2>8. PinsOwned'
    BY <1>5 DEF Register, DindInv, PinsOwned
  <2>9. SiblingHasNetwork'
    BY <1>5 DEF Register, DindInv, SiblingHasNetwork, Kept, UnmadeIsBare
  <2>10. SweptIsBare' /\ StartedWired'
    BY <1>5 DEF Register, DindInv, SweptIsBare, StartedWired
  <2> QED BY <2>1, <2>2, <2>3, <2>4, <2>5, <2>6, <2>7, <2>8, <2>9, <2>10 DEF DindInv
<1>6. ASSUME NEW c \in Cids, handleContainerStart(c) PROVE DindInv'
  <2>1. DindTypeOK'
    BY <1>6 DEF handleContainerStart, DindInv, DindTypeOK, StartPoints
  <2>2. HandlersOver'
    BY <1>6 DEF handleContainerStart, DindInv, HandlersOver, Halted
  <2>3. UnmadeIsBare'
    BY <1>6 DEF handleContainerStart, DindInv, UnmadeIsBare
  <2>4. OvertakenExcused'
    BY <1>6 DEF handleContainerStart, DindInv, OvertakenExcused
  <2>5. EndpointsOwned'
    BY <1>6 DEF handleContainerStart, DindInv, EndpointsOwned
  <2>6. ForwardsOwned'
    BY <1>6 DEF handleContainerStart, DindInv, ForwardsOwned
  <2>7. StartedWired'
    BY <1>6 DEF handleContainerStart, DindInv, StartedWired
  <2>8. SiblingHasNetwork'
    BY <1>6 DEF handleContainerStart, DindInv, SiblingHasNetwork, Kept
  <2>9. CleanersPlaced' /\ SweptIsBare' /\ PinsOwned'
    BY <1>6 DEF handleContainerStart, DindInv, CleanersPlaced, SweptIsBare, PinsOwned
  <2> QED BY <2>1, <2>2, <2>3, <2>4, <2>5, <2>6, <2>7, <2>8, <2>9 DEF DindInv
<1>7. ASSUME NEW c \in Cids, StartNewTask(c) PROVE DindInv'
  <2>1. DindTypeOK'
    BY <1>7 DEF StartNewTask, DindInv, DindTypeOK, StartPoints
  <2>2. HandlersOver'
    BY <1>7 DEF StartNewTask, DindInv, HandlersOver, Halted
  <2>3. UnmadeIsBare'
    BY <1>7 DEF StartNewTask, DindInv, UnmadeIsBare, DindTypeOK
  <2>4. OvertakenExcused'
    BY <1>7 DEF StartNewTask, DindInv, OvertakenExcused, DindTypeOK
  <2>5. StartedWired'
    BY <1>7 DEF StartNewTask, DindInv, StartedWired, DindTypeOK
  <2>6. SiblingHasNetwork'
    BY <1>7 DEF StartNewTask, DindInv, SiblingHasNetwork, Kept, DindTypeOK
  <2>7. CleanersPlaced' /\ SweptIsBare' /\ EndpointsOwned' /\ ForwardsOwned' /\ PinsOwned'
    BY <1>7 DEF StartNewTask, DindInv, CleanersPlaced, SweptIsBare, EndpointsOwned, ForwardsOwned,
       PinsOwned
  <2> QED BY <2>1, <2>2, <2>3, <2>4, <2>5, <2>6, <2>7 DEF DindInv
<1>8. ASSUME NEW c \in Cids, StartNetwork(c) PROVE DindInv'
  <2>1. DindTypeOK'
    BY <1>8 DEF StartNetwork, DindInv, DindTypeOK, StartPoints
  <2>2. HandlersOver'
    BY <1>8 DEF StartNetwork, DindInv, HandlersOver, Halted
  <2>3. UnmadeIsBare'
    BY <1>8 DEF StartNetwork, DindInv, UnmadeIsBare
  <2>4. OvertakenExcused'
    BY <1>8 DEF StartNetwork, DindInv, OvertakenExcused
  <2>5. EndpointsOwned'
    BY <1>8 DEF StartNetwork, DindInv, EndpointsOwned, OvertakenExcused
  <2>6. StartedWired'
    BY <1>8 DEF StartNetwork, DindInv, StartedWired
  <2>7. SiblingHasNetwork'
    BY <1>8 DEF StartNetwork, DindInv, SiblingHasNetwork, Kept
  <2>8. CleanersPlaced' /\ SweptIsBare' /\ ForwardsOwned' /\ PinsOwned'
    BY <1>8 DEF StartNetwork, DindInv, CleanersPlaced, SweptIsBare, ForwardsOwned, PinsOwned
  <2> QED BY <2>1, <2>2, <2>3, <2>4, <2>5, <2>6, <2>7, <2>8 DEF DindInv
<1>9. ASSUME NEW c \in Cids, StartNetworkFails(c) PROVE DindInv'
  <2> USE DEF Undoes
  <2>0. \A d \in Cids : ctask'[d] = ctask[d] \/ ctask'[d] = "none"
    BY <1>9 DEF StartNetworkFails, DindInv, DindTypeOK
  <2>1. DindTypeOK'
    BY <1>9, DindAssumption DEF StartNetworkFails, DindInv, DindTypeOK, StartPoints
  <2>2. HandlersOver'
    BY <1>9 DEF StartNetworkFails, DindInv, HandlersOver, Halted
  <2>3. UnmadeIsBare'
    BY <1>9, <2>0 DEF StartNetworkFails, DindInv, UnmadeIsBare, DindTypeOK
  <2>4. OvertakenExcused'
    BY <1>9 DEF StartNetworkFails, DindInv, OvertakenExcused
  <2>5. StartedWired'
    BY <1>9, <2>0 DEF StartNetworkFails, DindInv, DindTypeOK, StartedWired
  <2>6. SiblingHasNetwork'
    <3>1. \A d \in Cids : ctask'[d] = "running" => ctask[d] = "running"
      BY <2>0
    <3>2. UNCHANGED <<listed, excused, cleaner, pinned>>
      BY <1>9 DEF StartNetworkFails
    <3>4. endpoints' \in {endpoints, endpoints \cup {c}}
      BY <1>9 DEF StartNetworkFails
    <3>3. Kept \subseteq Cids /\ Kept' = Kept
      BY <3>2 DEF DindInv, DindTypeOK, Kept
    <3> QED BY <3>1, <3>2, <3>3, <3>4 DEF DindInv, SiblingHasNetwork
  <2>7. CleanersPlaced' /\ SweptIsBare' /\ EndpointsOwned' /\ ForwardsOwned' /\ PinsOwned'
    BY <1>9 DEF StartNetworkFails, DindInv, CleanersPlaced, SweptIsBare, EndpointsOwned,
       ForwardsOwned, PinsOwned
  <2> QED BY <2>1, <2>2, <2>3, <2>4, <2>5, <2>6, <2>7 DEF DindInv
<1>10. ASSUME NEW c \in Cids, installPortForwards(c) PROVE DindInv'
  <2>1. DindTypeOK'
    BY <1>10 DEF installPortForwards, DindInv, DindTypeOK, StartPoints
  <2>2. HandlersOver'
    BY <1>10 DEF installPortForwards, DindInv, HandlersOver, Halted
  <2>3. UnmadeIsBare'
    BY <1>10 DEF installPortForwards, DindInv, UnmadeIsBare
  <2>4. OvertakenExcused'
    BY <1>10 DEF installPortForwards, DindInv, OvertakenExcused
  <2>5. ForwardsOwned'
    BY <1>10 DEF installPortForwards, DindInv, ForwardsOwned, OvertakenExcused
  <2>6. StartedWired'
    BY <1>10 DEF installPortForwards, DindInv, StartedWired
  <2>7. CleanersPlaced' /\ SweptIsBare' /\ EndpointsOwned' /\ PinsOwned' /\ SiblingHasNetwork'
    BY <1>10 DEF installPortForwards, DindInv, CleanersPlaced, SweptIsBare, EndpointsOwned,
       PinsOwned, SiblingHasNetwork, Kept
  <2> QED BY <2>1, <2>2, <2>3, <2>4, <2>5, <2>6, <2>7 DEF DindInv
<1>11. ASSUME NEW c \in Cids, abortStart(c) PROVE DindInv'
  <2> USE DEF Undoes
  <2>0. \A d \in Cids : ctask'[d] = ctask[d] \/ ctask'[d] = "none"
    BY <1>11 DEF abortStart, DindInv, DindTypeOK
  <2>1. DindTypeOK'
    BY <1>11, DindAssumption DEF abortStart, DindInv, DindTypeOK, StartPoints
  <2>2. HandlersOver'
    BY <1>11 DEF abortStart, DindInv, HandlersOver, Halted
  <2>3. UnmadeIsBare'
    BY <1>11, <2>0 DEF abortStart, DindInv, UnmadeIsBare, DindTypeOK
  <2>4. OvertakenExcused'
    BY <1>11 DEF abortStart, DindInv, OvertakenExcused
  <2>5. EndpointsOwned'
    BY <1>11 DEF abortStart, DindInv, EndpointsOwned
  <2>6. ForwardsOwned'
    BY <1>11 DEF abortStart, DindInv, ForwardsOwned
  <2>7. StartedWired'
    BY <1>11 DEF abortStart, DindInv, StartedWired, DindTypeOK
  <2>8. SiblingHasNetwork'
    <3>1. UNCHANGED <<listed, excused, cleaner, pinned>> /\ endpoints \subseteq endpoints' \cup {c}
      BY <1>11 DEF abortStart
    <3>2. Kept \subseteq Cids /\ Kept' = Kept
      BY <3>1 DEF DindInv, DindTypeOK, Kept
    <3>3. ctask'[c] # "running"
      BY <1>11, <2>0 DEF abortStart, DindInv, DindTypeOK, StartedWired
    <3>4. ASSUME NEW d \in Kept, ctask'[d] = "running" PROVE d \in endpoints' /\ d \in pinned'
      <4>1. d \in Cids /\ d # c /\ ctask[d] = "running"
        BY <2>0, <3>2, <3>3, <3>4
      <4>2. d \in endpoints /\ d \in pinned
        BY <3>4, <4>1 DEF DindInv, SiblingHasNetwork
      <4> QED BY <3>1, <4>1, <4>2
    <3> QED BY <3>2, <3>4 DEF SiblingHasNetwork
  <2>9. CleanersPlaced' /\ SweptIsBare' /\ PinsOwned'
    BY <1>11 DEF abortStart, DindInv, CleanersPlaced, SweptIsBare, PinsOwned
  <2> QED BY <2>1, <2>2, <2>3, <2>4, <2>5, <2>6, <2>7, <2>8, <2>9 DEF DindInv
<1>40. ASSUME NEW c \in Cids, StartUnheard(c) PROVE DindInv'
  <2> USE DEF Undoes
  <2>1. DindTypeOK'
    BY <1>40, DindAssumption DEF StartUnheard, DindInv, DindTypeOK, StartPoints
  <2>2. HandlersOver'
    BY <1>40 DEF StartUnheard, DindInv, HandlersOver, Halted
  <2>3. UnmadeIsBare'
    BY <1>40 DEF StartUnheard, DindInv, UnmadeIsBare
  <2>4. OvertakenExcused'
    BY <1>40 DEF StartUnheard, DindInv, OvertakenExcused
  <2>5. EndpointsOwned' /\ ForwardsOwned'
    BY <1>40 DEF StartUnheard, DindInv, EndpointsOwned, ForwardsOwned
  <2>8. StartedWired'
    BY <1>40 DEF StartUnheard, DindInv, DindTypeOK, StartedWired
  <2>6. SiblingHasNetwork'
    BY <1>40 DEF StartUnheard, DindInv, SiblingHasNetwork, Kept, PinsOwned, StartedWired
  <2>7. CleanersPlaced' /\ SweptIsBare' /\ PinsOwned'
    BY <1>40 DEF StartUnheard, DindInv, CleanersPlaced, SweptIsBare, PinsOwned
  <2> QED BY <2>1, <2>2, <2>3, <2>4, <2>5, <2>6, <2>7, <2>8 DEF DindInv
<1>12. ASSUME NEW c \in Cids, TaskStart(c) PROVE DindInv'
  <2>1. DindTypeOK'
    BY <1>12 DEF TaskStart, DindInv, DindTypeOK, StartPoints
  <2>2. HandlersOver'
    BY <1>12 DEF TaskStart, DindInv, HandlersOver, Halted
  <2>3. UnmadeIsBare'
    BY <1>12 DEF TaskStart, DindInv, UnmadeIsBare
  <2>4. OvertakenExcused'
    BY <1>12 DEF TaskStart, DindInv, OvertakenExcused
  <2>5. StartedWired'
    BY <1>12 DEF TaskStart, DindInv, DindTypeOK, StartedWired
  <2>6. SiblingHasNetwork'
    BY <1>12 DEF TaskStart, DindInv, SiblingHasNetwork, Kept, PinsOwned, StartedWired
  <2>7. CleanersPlaced' /\ SweptIsBare' /\ EndpointsOwned' /\ ForwardsOwned' /\ PinsOwned'
    BY <1>12 DEF TaskStart, DindInv, CleanersPlaced, SweptIsBare, EndpointsOwned, ForwardsOwned,
       PinsOwned
  <2> QED BY <2>1, <2>2, <2>3, <2>4, <2>5, <2>6, <2>7 DEF DindInv
<1>13. ASSUME NEW c \in Cids, MarkRunning(c) PROVE DindInv'
  <2>1. DindTypeOK'
    BY <1>13, DindAssumption DEF MarkRunning, DindInv, DindTypeOK, StartPoints
  <2>2. HandlersOver'
    BY <1>13 DEF MarkRunning, DindInv, HandlersOver, Halted
  <2>3. UnmadeIsBare'
    BY <1>13 DEF MarkRunning, DindInv, UnmadeIsBare
  <2>4. OvertakenExcused'
    BY <1>13 DEF MarkRunning, DindInv, OvertakenExcused
  <2>5. StartedWired'
    BY <1>13 DEF MarkRunning, DindInv, StartedWired
  <2>6. CleanersPlaced' /\ SweptIsBare' /\ EndpointsOwned' /\ ForwardsOwned' /\ PinsOwned' /\
        SiblingHasNetwork'
    BY <1>13 DEF MarkRunning, DindInv, CleanersPlaced, SweptIsBare, EndpointsOwned, ForwardsOwned,
       PinsOwned, SiblingHasNetwork, Kept
  <2> QED BY <2>1, <2>2, <2>3, <2>4, <2>5, <2>6 DEF DindInv
<1>14. ASSUME NEW c \in Cids, SiblingExits(c) PROVE DindInv'
  <2>1. DindTypeOK'
    BY <1>14 DEF SiblingExits, DindInv, DindTypeOK
  <2>2. UnmadeIsBare'
    BY <1>14 DEF SiblingExits, DindInv, UnmadeIsBare
  <2>3. SiblingHasNetwork'
    BY <1>14 DEF SiblingExits, DindInv, SiblingHasNetwork, Kept
  <2>4. HandlersOver' /\ CleanersPlaced' /\ SweptIsBare' /\ OvertakenExcused' /\ EndpointsOwned' /\
        ForwardsOwned' /\ PinsOwned' /\ StartedWired'
    BY <1>14 DEF SiblingExits, DindInv, HandlersOver, CleanersPlaced, SweptIsBare, OvertakenExcused,
       EndpointsOwned, ForwardsOwned, PinsOwned, StartedWired, Halted
  <2> QED BY <2>1, <2>2, <2>3, <2>4 DEF DindInv
<1>15. ASSUME NEW c \in Cids, ExitSeen(c) PROVE DindInv'
  <2>1. DindTypeOK'
    BY <1>15 DEF ExitSeen, DindInv, DindTypeOK
  <2> QED BY <1>15, <2>1, DindAside DEF ExitSeen
<1>16. ASSUME NEW c \in Cids, handleContainerStop(c) PROVE DindInv'
  <2>1. DindTypeOK'
    BY <1>16, DindAssumption DEF handleContainerStop, DindInv, DindTypeOK
  <2>2. UnmadeIsBare'
    BY <1>16 DEF handleContainerStop, DindInv, UnmadeIsBare, DindTypeOK
  <2>3. SiblingHasNetwork'
    BY <1>16 DEF handleContainerStop, DindInv, SiblingHasNetwork, Kept, DindTypeOK
  <2>4. HandlersOver' /\ CleanersPlaced' /\ SweptIsBare' /\ OvertakenExcused' /\ EndpointsOwned' /\
        ForwardsOwned' /\ PinsOwned'
    BY <1>16 DEF handleContainerStop, DindInv, HandlersOver, CleanersPlaced, SweptIsBare,
       OvertakenExcused, EndpointsOwned, ForwardsOwned, PinsOwned, Halted
  <2>5. StartedWired'
    BY <1>16 DEF handleContainerStop, DindInv, DindTypeOK, StartedWired
  <2> QED BY <2>1, <2>2, <2>3, <2>4, <2>5 DEF DindInv
<1>17. ASSUME NEW c \in Cids, handleContainerWait(c) PROVE DindInv'
  <2>1. DindTypeOK'
    BY <1>17 DEF handleContainerWait, DindInv, DindTypeOK, Waits
  <2> QED BY <1>17, <2>1, DindAside DEF handleContainerWait
<1>18. ASSUME NEW c \in Cids, WaitReturns(c) PROVE DindInv'
  <2>1. DindTypeOK'
    BY <1>18 DEF WaitReturns, DindInv, DindTypeOK, Waits
  <2> QED BY <1>18, <2>1, DindAside DEF WaitReturns
<1>19. ASSUME NEW c \in Cids, LogsReturn(c) PROVE DindInv'
  <2>1. DindTypeOK'
    BY <1>19 DEF LogsReturn, DindInv, DindTypeOK, Waits
  <2> QED BY <1>19, <2>1, DindAside DEF LogsReturn
<1>20. ASSUME NEW c \in Cids, handleExecCreate(c) PROVE DindInv'
  <2>1. DindTypeOK'
    BY <1>20 DEF handleExecCreate, DindInv, DindTypeOK
  <2> QED BY <1>20, <2>1, DindAside DEF handleExecCreate
<1>21. ASSUME NEW c \in Cids, handleExecStartLog(c) PROVE DindInv'
  <2>1. DindTypeOK'
    BY <1>21 DEF handleExecStartLog, DindInv, DindTypeOK, Waits
  <2> QED BY <1>21, <2>1, DindAside DEF handleExecStartLog
<1>22. ASSUME NEW c \in Cids, handleExecStartHijack(c) PROVE DindInv'
  <2>1. DindTypeOK'
    BY <1>22 DEF handleExecStartHijack, DindInv, DindTypeOK
  <2> QED BY <1>22, <2>1, DindAside DEF handleExecStartHijack
<1>23. ASSUME NEW c \in Cids, ExecProcess(c) PROVE DindInv'
  <2>1. DindTypeOK'
    BY <1>23 DEF ExecProcess, DindInv, DindTypeOK
  <2> QED BY <1>23, <2>1, DindAside DEF ExecProcess
<1>24. ASSUME NEW c \in Cids, ExecEnds(c) PROVE DindInv'
  <2>1. DindTypeOK'
    BY <1>24 DEF ExecEnds, DindInv, DindTypeOK, Waits
  <2> QED BY <1>24, <2>1, DindAside DEF ExecEnds
<1>25. ASSUME NEW c \in Cids, HangUp(c) PROVE DindInv'
  <2>1. DindTypeOK'
    BY <1>25 DEF HangUp, DindInv, DindTypeOK, Waits
  <2> QED BY <1>25, <2>1, DindAside DEF HangUp
<1>26. ASSUME NEW c \in Cids, handleContainerRemove(c) PROVE DindInv'
  <2>1. DindTypeOK'
    BY <1>26 DEF handleContainerRemove, DindInv, DindTypeOK, CleanPoints
  <2>2. CleanersPlaced'
    BY <1>26 DEF handleContainerRemove, DindInv, CleanersPlaced
  <2>3. UnmadeIsBare'
    BY <1>26 DEF handleContainerRemove, DindInv, UnmadeIsBare
  <2>4. OvertakenExcused'
    BY <1>26 DEF handleContainerRemove, DindInv, OvertakenExcused
  <2>5. EndpointsOwned'
    BY <1>26 DEF handleContainerRemove, DindInv, EndpointsOwned
  <2>6. ForwardsOwned'
    BY <1>26 DEF handleContainerRemove, DindInv, ForwardsOwned
  <2>7. PinsOwned'
    BY <1>26 DEF handleContainerRemove, DindInv, PinsOwned
  <2>8. StartedWired'
    BY <1>26 DEF handleContainerRemove, DindInv, StartedWired
  <2>9. SiblingHasNetwork'
    BY <1>26 DEF handleContainerRemove, DindInv, SiblingHasNetwork, Kept
  <2>10. HandlersOver' /\ SweptIsBare'
    BY <1>26 DEF handleContainerRemove, DindInv, HandlersOver, SweptIsBare, Halted
  <2> QED BY <2>1, <2>2, <2>3, <2>4, <2>5, <2>6, <2>7, <2>8, <2>9, <2>10 DEF DindInv
<1>27. ASSUME NEW c \in Cids, removePortForwards(c) PROVE DindInv'
  <2>1. DindTypeOK'
    BY <1>27 DEF removePortForwards, DindInv, DindTypeOK, CleanPoints
  <2>2. CleanersPlaced'
    BY <1>27 DEF removePortForwards, DindInv, CleanersPlaced
  <2>3. UnmadeIsBare'
    BY <1>27 DEF removePortForwards, DindInv, UnmadeIsBare
  <2>4. OvertakenExcused'
    BY <1>27 DEF removePortForwards, DindInv, OvertakenExcused
  <2>5. EndpointsOwned'
    BY <1>27 DEF removePortForwards, DindInv, EndpointsOwned
  <2>6. ForwardsOwned'
    BY <1>27 DEF removePortForwards, DindInv, ForwardsOwned
  <2>7. PinsOwned'
    BY <1>27 DEF removePortForwards, DindInv, PinsOwned
  <2>8. SiblingHasNetwork'
    BY <1>27 DEF removePortForwards, DindInv, SiblingHasNetwork, Kept
  <2>9. HandlersOver' /\ SweptIsBare' /\ StartedWired'
    BY <1>27 DEF removePortForwards, DindInv, HandlersOver, SweptIsBare, StartedWired, Halted
  <2> QED BY <2>1, <2>2, <2>3, <2>4, <2>5, <2>6, <2>7, <2>8, <2>9 DEF DindInv
<1>28. ASSUME NEW c \in Cids, CleanTask(c) PROVE DindInv'
  <2>1. DindTypeOK'
    BY <1>28, DindAssumption DEF CleanTask, DindInv, DindTypeOK, CleanPoints
  <2>2. CleanersPlaced'
    BY <1>28 DEF CleanTask, DindInv, CleanersPlaced
  <2>3. UnmadeIsBare'
    BY <1>28 DEF CleanTask, DindInv, UnmadeIsBare, DindTypeOK
  <2>4. OvertakenExcused'
    BY <1>28 DEF CleanTask, DindInv, OvertakenExcused
  <2>5. EndpointsOwned'
    BY <1>28 DEF CleanTask, DindInv, EndpointsOwned
  <2>6. ForwardsOwned'
    BY <1>28 DEF CleanTask, DindInv, ForwardsOwned
  <2>7. PinsOwned'
    BY <1>28 DEF CleanTask, DindInv, PinsOwned
  <2>8. SiblingHasNetwork'
    BY <1>28 DEF CleanTask, DindInv, SiblingHasNetwork, Kept, DindTypeOK
  <2>9. HandlersOver' /\ SweptIsBare'
    BY <1>28 DEF CleanTask, DindInv, HandlersOver, SweptIsBare, Halted
  <2>10. StartedWired'
    BY <1>28 DEF CleanTask, DindInv, DindTypeOK, StartedWired
  <2> QED BY <2>1, <2>2, <2>3, <2>4, <2>5, <2>6, <2>7, <2>8, <2>9, <2>10 DEF DindInv
<1>29. ASSUME NEW c \in Cids, CleanNet(c) PROVE DindInv'
  <2>1. DindTypeOK'
    BY <1>29, DindAssumption DEF CleanNet, DindInv, DindTypeOK, CleanPoints
  <2>2. CleanersPlaced'
    BY <1>29 DEF CleanNet, DindInv, CleanersPlaced
  <2>3. UnmadeIsBare'
    BY <1>29 DEF CleanNet, DindInv, UnmadeIsBare
  <2>4. OvertakenExcused'
    BY <1>29 DEF CleanNet, DindInv, OvertakenExcused
  <2>5. EndpointsOwned'
    BY <1>29 DEF CleanNet, DindInv, EndpointsOwned
  <2>6. ForwardsOwned'
    BY <1>29 DEF CleanNet, DindInv, ForwardsOwned
  <2>7. PinsOwned'
    BY <1>29 DEF CleanNet, DindInv, PinsOwned
  <2>8. StartedWired'
    BY <1>29 DEF CleanNet, DindInv, StartedWired, OvertakenExcused
  <2>9. SiblingHasNetwork'
    BY <1>29 DEF CleanNet, DindInv, SiblingHasNetwork, Kept
  <2>10. HandlersOver' /\ SweptIsBare'
    BY <1>29 DEF CleanNet, DindInv, HandlersOver, SweptIsBare, Halted
  <2> QED BY <2>1, <2>2, <2>3, <2>4, <2>5, <2>6, <2>7, <2>8, <2>9, <2>10 DEF DindInv
<1>30. ASSUME NEW c \in Cids, CleanContainer(c) PROVE DindInv'
  <2>1. DindTypeOK'
    BY <1>30, DindAssumption DEF CleanContainer, DindInv, DindTypeOK, CleanPoints
  <2>2. CleanersPlaced'
    BY <1>30 DEF CleanContainer, DindInv, CleanersPlaced
  <2>3. SweptIsBare'
    BY <1>30 DEF CleanContainer, DindInv, SweptIsBare
  <2>4. UnmadeIsBare'
    BY <1>30 DEF CleanContainer, DindInv, UnmadeIsBare
  <2>5. OvertakenExcused'
    BY <1>30 DEF CleanContainer, DindInv, OvertakenExcused
  <2>6. EndpointsOwned'
    BY <1>30 DEF CleanContainer, DindInv, EndpointsOwned
  <2>7. ForwardsOwned'
    BY <1>30 DEF CleanContainer, DindInv, ForwardsOwned
  <2>8. PinsOwned'
    BY <1>30 DEF CleanContainer, DindInv, PinsOwned, UnmadeIsBare, DindTypeOK
  <2>9. SiblingHasNetwork'
    BY <1>30 DEF CleanContainer, DindInv, SiblingHasNetwork, Kept
  <2>10. HandlersOver' /\ StartedWired'
    BY <1>30 DEF CleanContainer, DindInv, HandlersOver, StartedWired, Halted
  <2> QED BY <2>1, <2>2, <2>3, <2>4, <2>5, <2>6, <2>7, <2>8, <2>9, <2>10 DEF DindInv
<1>31. ASSUME NEW c \in Cids, Unlist(c) PROVE DindInv'
  <2>1. DindTypeOK'
    BY <1>31 DEF Unlist, DindInv, DindTypeOK, CleanPoints
  <2>2. CleanersPlaced'
    BY <1>31 DEF Unlist, DindInv, CleanersPlaced
  <2>3. UnmadeIsBare'
    BY <1>31 DEF Unlist, DindInv, UnmadeIsBare
  <2>4. OvertakenExcused'
    BY <1>31 DEF Unlist, DindInv, OvertakenExcused
  <2>5. EndpointsOwned'
    BY <1>31 DEF Unlist, DindInv, EndpointsOwned
  <2>6. ForwardsOwned'
    BY <1>31 DEF Unlist, DindInv, ForwardsOwned
  <2>7. PinsOwned'
    BY <1>31 DEF Unlist, DindInv, PinsOwned
  <2>8. SiblingHasNetwork'
    BY <1>31 DEF Unlist, DindInv, SiblingHasNetwork, Kept
  <2>9. HandlersOver' /\ SweptIsBare' /\ StartedWired'
    BY <1>31 DEF Unlist, DindInv, HandlersOver, SweptIsBare, StartedWired, Halted
  <2> QED BY <2>1, <2>2, <2>3, <2>4, <2>5, <2>6, <2>7, <2>8, <2>9 DEF DindInv
<1>32. ASSUME NEW c \in Cids, destroyAllContainers(c) PROVE DindInv'
  <2>1. DindTypeOK'
    BY <1>32 DEF destroyAllContainers, DindInv, DindTypeOK, CleanPoints
  <2>2. CleanersPlaced'
    BY <1>32 DEF destroyAllContainers, DindInv, CleanersPlaced
  <2>3. UnmadeIsBare'
    BY <1>32 DEF destroyAllContainers, DindInv, UnmadeIsBare
  <2>4. OvertakenExcused'
    BY <1>32 DEF destroyAllContainers, DindInv, OvertakenExcused, CleanersPlaced
  <2>5. EndpointsOwned'
    BY <1>32 DEF destroyAllContainers, DindInv, EndpointsOwned, DindTypeOK
  <2>6. ForwardsOwned'
    BY <1>32 DEF destroyAllContainers, DindInv, ForwardsOwned, DindTypeOK
  <2>7. PinsOwned'
    BY <1>32 DEF destroyAllContainers, DindInv, PinsOwned
  <2>8. SiblingHasNetwork'
    BY <1>32 DEF destroyAllContainers, DindInv, SiblingHasNetwork, Kept
  <2>9. HandlersOver' /\ SweptIsBare' /\ StartedWired'
    BY <1>32 DEF destroyAllContainers, DindInv, HandlersOver, SweptIsBare, StartedWired, Halted
  <2> QED BY <2>1, <2>2, <2>3, <2>4, <2>5, <2>6, <2>7, <2>8, <2>9 DEF DindInv
<1>33. CASE StopServing
  <2>1. DindTypeOK'
    BY <1>33 DEF StopServing, DindInv, DindTypeOK, StopPoints
  <2>2. HandlersOver'
    BY <1>33 DEF StopServing, DindInv, HandlersOver, Halted
  <2>3. CleanersPlaced'
    BY <1>33 DEF StopServing, DindInv, CleanersPlaced
  <2>4. SweptIsBare'
    BY <1>33 DEF StopServing, DindInv, SweptIsBare
  <2>5. UnmadeIsBare' /\ OvertakenExcused' /\ EndpointsOwned' /\ ForwardsOwned' /\ PinsOwned' /\
        StartedWired' /\ SiblingHasNetwork'
    BY <1>33 DEF StopServing, DindInv, UnmadeIsBare, OvertakenExcused, EndpointsOwned,
       ForwardsOwned, PinsOwned, StartedWired, SiblingHasNetwork, Kept
  <2> QED BY <2>1, <2>2, <2>3, <2>4, <2>5 DEF DindInv
<1>34. CASE ShutdownReturns
  <2>1. DindTypeOK'
    BY <1>34 DEF ShutdownReturns, DindInv, DindTypeOK, StopPoints
  <2>2. HandlersOver'
    BY <1>34 DEF ShutdownReturns, DindInv, HandlersOver, Halted
  <2>3. CleanersPlaced'
    BY <1>34 DEF ShutdownReturns, DindInv, CleanersPlaced
  <2>4. SweptIsBare'
    BY <1>34 DEF ShutdownReturns, DindInv, SweptIsBare
  <2>5. UnmadeIsBare' /\ OvertakenExcused' /\ EndpointsOwned' /\ ForwardsOwned' /\ PinsOwned' /\
        StartedWired' /\ SiblingHasNetwork'
    BY <1>34 DEF ShutdownReturns, DindInv, UnmadeIsBare, OvertakenExcused, EndpointsOwned,
       ForwardsOwned, PinsOwned, StartedWired, SiblingHasNetwork, Kept
  <2> QED BY <2>1, <2>2, <2>3, <2>4, <2>5 DEF DindInv
<1>35. CASE destroyAllExecs
  <2>1. DindTypeOK'
    BY <1>35 DEF destroyAllExecs, DindInv, DindTypeOK, StopPoints
  <2>2. HandlersOver'
    BY <1>35 DEF destroyAllExecs, DindInv, HandlersOver, Halted
  <2>3. CleanersPlaced'
    BY <1>35 DEF destroyAllExecs, DindInv, CleanersPlaced
  <2>4. SweptIsBare'
    BY <1>35 DEF destroyAllExecs, DindInv, SweptIsBare
  <2>5. UnmadeIsBare' /\ OvertakenExcused' /\ EndpointsOwned' /\ ForwardsOwned' /\ PinsOwned' /\
        StartedWired' /\ SiblingHasNetwork'
    BY <1>35 DEF destroyAllExecs, DindInv, UnmadeIsBare, OvertakenExcused, EndpointsOwned,
       ForwardsOwned, PinsOwned, StartedWired, SiblingHasNetwork, Kept
  <2> QED BY <2>1, <2>2, <2>3, <2>4, <2>5 DEF DindInv
<1>36. CASE TakeContainers
  <2>1. DindTypeOK'
    BY <1>36 DEF TakeContainers, DindInv, DindTypeOK, StopPoints
  <2>2. HandlersOver'
    BY <1>36 DEF TakeContainers, DindInv, HandlersOver, Halted
  <2>3. CleanersPlaced'
    BY <1>36 DEF TakeContainers, DindInv, CleanersPlaced
  <2>4. SweptIsBare'
    BY <1>36 DEF TakeContainers, DindInv, SweptIsBare
  <2>5. UnmadeIsBare'
    BY <1>36 DEF TakeContainers, DindInv, UnmadeIsBare
  <2>6. OvertakenExcused'
    BY <1>36 DEF TakeContainers, DindInv, OvertakenExcused, HandlersOver, Halted
  <2>7. EndpointsOwned'
    BY <1>36 DEF TakeContainers, DindInv, EndpointsOwned, CleanersPlaced
  <2>8. ForwardsOwned'
    BY <1>36 DEF TakeContainers, DindInv, ForwardsOwned, CleanersPlaced
  <2>9. PinsOwned'
    BY <1>36 DEF TakeContainers, DindInv, PinsOwned
  <2>10. SiblingHasNetwork'
    BY <1>36 DEF TakeContainers, DindInv, SiblingHasNetwork, Kept
  <2>11. StartedWired'
    BY <1>36 DEF TakeContainers, DindInv, StartedWired
  <2> QED BY <2>1, <2>2, <2>3, <2>4, <2>5, <2>6, <2>7, <2>8, <2>9, <2>10, <2>11 DEF DindInv
<1>37. CASE StagerTeardown
  <2>1. DindTypeOK'
    BY <1>37 DEF StagerTeardown, DindInv, DindTypeOK, StopPoints
  <2>2. HandlersOver'
    BY <1>37 DEF StagerTeardown, DindInv, HandlersOver, Halted
  <2>3. CleanersPlaced'
    BY <1>37 DEF StagerTeardown, DindInv, CleanersPlaced
  <2>4. SweptIsBare'
    BY <1>37 DEF StagerTeardown, DindInv, SweptIsBare
  <2>5. PinsOwned'
    BY <1>37 DEF StagerTeardown, DindInv, PinsOwned, HandlersOver, Halted, CleanersPlaced
  <2>6. SiblingHasNetwork'
    BY <1>37 DEF StagerTeardown, DindInv, SiblingHasNetwork, Kept, CleanersPlaced
  <2>7. UnmadeIsBare' /\ OvertakenExcused' /\ EndpointsOwned' /\ ForwardsOwned' /\ StartedWired'
    BY <1>37 DEF StagerTeardown, DindInv, UnmadeIsBare, OvertakenExcused, EndpointsOwned,
       ForwardsOwned, StartedWired
  <2> QED BY <2>1, <2>2, <2>3, <2>4, <2>5, <2>6, <2>7 DEF DindInv
<1>38. CASE CleanupJobNamespace
  <2>1. DindTypeOK'
    BY <1>38 DEF CleanupJobNamespace, DindInv, DindTypeOK, StopPoints
  <2>2. HandlersOver'
    BY <1>38 DEF CleanupJobNamespace, DindInv, HandlersOver, Halted
  <2>3. CleanersPlaced'
    BY <1>38 DEF CleanupJobNamespace, DindInv, CleanersPlaced
  <2>4. SweptIsBare'
    BY <1>38 DEF CleanupJobNamespace, DindInv, SweptIsBare
  <2>5. UnmadeIsBare'
    BY <1>38 DEF CleanupJobNamespace, DindInv, UnmadeIsBare
  <2>6. SiblingHasNetwork'
    BY <1>38 DEF CleanupJobNamespace, DindInv, SiblingHasNetwork, Kept, DindTypeOK
  <2>7. OvertakenExcused' /\ EndpointsOwned' /\ ForwardsOwned' /\ PinsOwned' /\ StartedWired'
    BY <1>38 DEF CleanupJobNamespace, DindInv, OvertakenExcused, EndpointsOwned, ForwardsOwned,
       PinsOwned, StartedWired
  <2> QED BY <2>1, <2>2, <2>3, <2>4, <2>5, <2>6, <2>7 DEF DindInv
<1>39. CASE StopDone
  <2>1. DindTypeOK'
    BY <1>39 DEF StopDone, DindInv, DindTypeOK, StopPoints
  <2>2. HandlersOver'
    BY <1>39 DEF StopDone, DindInv, HandlersOver, Halted
  <2>3. CleanersPlaced'
    BY <1>39 DEF StopDone, DindInv, CleanersPlaced
  <2>4. SweptIsBare'
    BY <1>39 DEF StopDone, DindInv, SweptIsBare
  <2>5. UnmadeIsBare' /\ OvertakenExcused' /\ EndpointsOwned' /\ ForwardsOwned' /\ PinsOwned' /\
        StartedWired' /\ SiblingHasNetwork'
    BY <1>39 DEF StopDone, DindInv, UnmadeIsBare, OvertakenExcused, EndpointsOwned, ForwardsOwned,
       PinsOwned, StartedWired, SiblingHasNetwork, Kept
  <2> QED BY <2>1, <2>2, <2>3, <2>4, <2>5 DEF DindInv
<1> QED BY <1>1, <1>2, <1>3, <1>4, <1>5, <1>6, <1>7, <1>8, <1>9, <1>10, <1>11, <1>12, <1>13, <1>14,
       <1>15, <1>16, <1>17, <1>18, <1>19, <1>20, <1>21, <1>22, <1>23, <1>24, <1>25, <1>26, <1>27,
       <1>28, <1>29, <1>30, <1>31, <1>32, <1>33, <1>34, <1>35, <1>36, <1>37, <1>38, <1>39,
       <1>40 DEF DindNext, StopStep, Request, HandlerStep

-----------------------------------------------------------------------------
DaemonInv == (focus = "dind" => DindInv) /\ (focus = "networks" => NetsInv)

(* A step of the node is one of the component in focus.                    *)
LEMMA DaemonInvStep ==
  DaemonInv /\ [ContainersNext]_<<focus, containersVars>> => DaemonInv'
<1> SUFFICES ASSUME DaemonInv, [ContainersNext]_<<focus, containersVars>> PROVE DaemonInv'
  OBVIOUS
<1>1. focus' = focus
  BY DEF ContainersNext
<1>2. ASSUME focus = "dind" PROVE DindInv'
  <2>1. DindNext \/ UNCHANGED dindVars
    BY <1>2 DEF ContainersNext, ContainersMoves, containersVars
  <2>2. CASE UNCHANGED dindVars
    <3>1. DindTypeOK'
      BY <1>2, <2>2 DEF dindVars, entries, ctrd2, wires, execVars, DaemonInv, DindInv, DindTypeOK
    <3> QED BY <1>2, <2>2, <3>1, DindAside DEF dindVars, entries, DaemonInv
  <2> QED BY <1>2, <2>1, <2>2, DindInvStep DEF DaemonInv
<1>3. ASSUME focus = "networks" PROVE NetsInv'
  <2>1. NetworksNext \/ UNCHANGED netVars
    BY <1>3 DEF ContainersNext, ContainersMoves, containersVars
  <2>2. CASE UNCHANGED netVars
    BY <1>3, <2>2 DEF netVars, DaemonInv, NetsInv, NetsTyped, NamesDistinct, GoneIsEmpty,
       MembershipAgrees, SubnetsDistinct
  <2> QED BY <1>3, <2>1, <2>2, NetsInvStep DEF DaemonInv
<1> QED BY <1>1, <1>2, <1>3 DEF DaemonInv

(* A node that starts has no sibling and no network but the bridge.         *)
LEMMA DaemonStart == ContainersStart => DaemonInv
<1> SUFFICES ASSUME ContainersStart PROVE DindInv /\ NetsInv
  BY DEF DaemonInv
<1>1. DindTypeOK
  BY DindAssumption DEF ContainersStart, ContainersInit, DindInit, DindTypeOK, StopPoints, CreatePoints,
     StartPoints, CleanPoints
<1>2. DindInv
  BY <1>1 DEF ContainersStart, ContainersInit, DindInit, DindInv, HandlersOver, CleanersPlaced,
     SweptIsBare, UnmadeIsBare, OvertakenExcused, EndpointsOwned, ForwardsOwned, PinsOwned,
     StartedWired, SiblingHasNetwork, Kept, Halted
<1>3. NetsInv
  BY NetworksAssumption DEF ContainersStart, ContainersInit, NetworksInit, NetsInv, NetsTyped,
     NamesDistinct, GoneIsEmpty, MembershipAgrees, SubnetsDistinct, Ids, Names, NotIn
<1> QED BY <1>2, <1>3

(* For any number of sibling containers, requests, failed calls, networks   *)
(* and names: a Docker daemon that has stopped leaves no container, no task *)
(* and no staged bind, and in the network only what a Remove left that      *)
(* overtook a Start or whose Teardown failed; a sibling that docker can     *)
(* name runs with its network and its binds; the two records of membership  *)
(* agree and no two networks share a subnet before the last octet.          *)
THEOREM DindStaysItsOwn == ContainersSpec => []DindKeepsItsOwn
<1>1. ContainersStart => DaemonInv
  BY DaemonStart
<1>2. DaemonInv => DindKeepsItsOwn
  <2> SUFFICES ASSUME DindInv PROVE StopLeavesNothing
    BY DEF DaemonInv, DindKeepsItsOwn, DindInv, NetsInv
  <2>1. dindStopAt = "done" => ctrs = {} /\ pinned = {} /\ forwards \subseteq excused /\ endpoints \subseteq excused \cup strays
    BY DEF DindInv, DindTypeOK, SweptIsBare, CleanersPlaced, EndpointsOwned, ForwardsOwned
  <2>2. dindStopAt = "done" => \A c \in Cids : ctask[c] = "none" /\ creator[c] \in {"idle", "over"}
    BY <2>1 DEF DindInv, DindTypeOK, HandlersOver, Halted
  <2> QED BY <2>1, <2>2 DEF StopLeavesNothing
<1> QED BY <1>1, <1>2, DaemonInvStep, PTL DEF ContainersSpec

-----------------------------------------------------------------------------
(* Dispatch: a runner's claim is in one pair of hands.  While its handler   *)
(* creates it, its waiter destroys it, the books list it, destroyAll has it *)
(* or its job has completed, nobody has released it; and one who holds it   *)
(* holds it alone.                                                          *)
DispatchTyped ==
  /\ dAt \in [Runners -> {"idle", "creating", "waiting", "exited", "destroying",
                          "destroyingLate", "hung", "done"}]
  /\ box \in [Runners -> {"none", "failed", "running", "exited", "gone"}]
  /\ dTracked \subseteq Runners /\ victims \subseteq Runners /\ completed \subseteq Runners
  /\ released \in [Runners -> 0..1] /\ rpcFaults \in Nat
ClaimHeld(r) ==
  r \in dTracked \cup victims \cup completed \/ dAt[r] \in {"idle", "creating", "destroying"}
ClaimsHeld == \A r \in Runners : ClaimHeld(r) => released[r] = 0
ClaimsApart ==
  /\ \A r \in Runners :
       dAt[r] \in {"idle", "creating", "destroying"} => r \notin dTracked \cup victims \cup completed
  /\ dTracked \cap victims = {} /\ dTracked \cap completed = {} /\ victims \cap completed = {}
TrackedWaits == \A r \in dTracked : dAt[r] \in {"waiting", "exited"}

(* A claim nobody holds was released, except by a waiter that hangs.        *)
ClaimsFollowed ==
  \A r \in Runners : dAt[r] \in {"waiting", "exited", "destroyingLate", "done"} =>
    r \in dTracked \cup victims \cup completed \/ released[r] = 1
VictimsLate == shutdown \in {"serving", "draining"} => victims = {}

(* While no call was lost, a container that exists is in the worker's table.*)
BoxesListed ==
  /\ \A r \in Runners : dAt[r] \in {"waiting", "exited", "destroying", "destroyingLate"} =>
       box[r] \in {"running", "exited", "gone"}
  /\ rpcFaults = 0 => \A r \in Runners :
       /\ box[r] \in {"running", "exited"} => r \in envs
       /\ dAt[r] = "done" => box[r] \in {"failed", "gone"}

DispatchInv ==
  /\ DispatchTyped /\ ClaimsHeld /\ ClaimsApart /\ TrackedWaits /\ ClaimsFollowed
  /\ VictimsLate /\ BoxesListed

LEMMA DispatchInvStep == DispatchInv /\ DispatchNext => DispatchInv'
<1> SUFFICES ASSUME DispatchInv, DispatchNext PROVE DispatchInv'
  OBVIOUS
<1> USE DEF DMoves, Release, Fault, DestroyJob, workerVars, statVars
<1>1. ASSUME NEW r \in Runners, handleLinuxJob(r) PROVE DispatchInv'
  <2>1. DispatchTyped'
    BY <1>1 DEF handleLinuxJob, DispatchInv, DispatchTyped
  <2>2. ClaimsHeld'
    BY <1>1 DEF handleLinuxJob, DispatchInv, ClaimsHeld, ClaimHeld
  <2>3. ClaimsApart'
    BY <1>1 DEF handleLinuxJob, DispatchInv, ClaimsApart
  <2>4. TrackedWaits'
    BY <1>1 DEF handleLinuxJob, DispatchInv, TrackedWaits
  <2>5. ClaimsFollowed'
    BY <1>1 DEF handleLinuxJob, DispatchInv, ClaimsFollowed
  <2>6. BoxesListed'
    BY <1>1 DEF handleLinuxJob, DispatchInv, BoxesListed
  <2>7. VictimsLate'
    BY <1>1 DEF handleLinuxJob, DispatchInv, VictimsLate
  <2> QED BY <2>1, <2>2, <2>3, <2>4, <2>5, <2>6, <2>7 DEF DispatchInv
<1>2. ASSUME NEW r \in Runners, CreateJob(r) PROVE DispatchInv'
  <2>1. DispatchTyped'
    BY <1>2 DEF CreateJob, DispatchInv, DispatchTyped
  <2>2. BoxesListed'
    BY <1>2 DEF CreateJob, DispatchInv, BoxesListed, DispatchTyped
  <2>3. ClaimsHeld' /\ ClaimsApart' /\ TrackedWaits' /\ ClaimsFollowed' /\ VictimsLate'
    BY <1>2 DEF CreateJob, DispatchInv, ClaimsHeld, ClaimsApart, TrackedWaits, ClaimsFollowed,
       VictimsLate, ClaimHeld
  <2> QED BY <2>1, <2>2, <2>3 DEF DispatchInv
<1>3. ASSUME NEW r \in Runners, CreateReturns(r) PROVE DispatchInv'
  <2>1. DispatchTyped'
    BY <1>3 DEF CreateReturns, DispatchInv, DispatchTyped
  <2>2. ClaimsHeld'
    BY <1>3 DEF CreateReturns, DispatchInv, ClaimsHeld, ClaimHeld
  <2>3. ClaimsApart'
    BY <1>3 DEF CreateReturns, DispatchInv, ClaimsApart, DispatchTyped
  <2>4. TrackedWaits'
    BY <1>3 DEF CreateReturns, DispatchInv, TrackedWaits, DispatchTyped
  <2>5. ClaimsFollowed'
    BY <1>3 DEF CreateReturns, DispatchInv, ClaimsFollowed
  <2>6. BoxesListed'
    BY <1>3 DEF CreateReturns, DispatchInv, BoxesListed
  <2>7. VictimsLate'
    BY <1>3 DEF CreateReturns, DispatchInv, VictimsLate
  <2> QED BY <2>1, <2>2, <2>3, <2>4, <2>5, <2>6, <2>7 DEF DispatchInv
<1>4. ASSUME NEW r \in Runners, CreateFails(r) PROVE DispatchInv'
  <2>1. DispatchTyped'
    BY <1>4 DEF CreateFails, DispatchInv, DispatchTyped, ClaimsHeld, ClaimHeld
  <2>2. ClaimsHeld'
    BY <1>4 DEF CreateFails, DispatchInv, ClaimsHeld, ClaimHeld, DispatchTyped, ClaimsApart
  <2>3. ClaimsApart'
    BY <1>4 DEF CreateFails, DispatchInv, ClaimsApart
  <2>4. TrackedWaits'
    BY <1>4 DEF CreateFails, DispatchInv, TrackedWaits
  <2>5. ClaimsFollowed'
    BY <1>4 DEF CreateFails, DispatchInv, ClaimsFollowed, DispatchTyped, ClaimsHeld, ClaimHeld
  <2>6. BoxesListed'
    BY <1>4 DEF CreateFails, DispatchInv, BoxesListed, DispatchTyped
  <2>7. VictimsLate'
    BY <1>4 DEF CreateFails, DispatchInv, VictimsLate
  <2> QED BY <2>1, <2>2, <2>3, <2>4, <2>5, <2>6, <2>7 DEF DispatchInv
<1>5. ASSUME NEW r \in Runners, KillJob(r) PROVE DispatchInv'
  <2>1. DispatchTyped' /\ ClaimsHeld' /\ ClaimsApart' /\ TrackedWaits' /\ ClaimsFollowed' /\
        VictimsLate' /\ BoxesListed'
    BY <1>5 DEF KillJob, DispatchInv, DispatchTyped, ClaimsHeld, ClaimsApart, TrackedWaits,
       ClaimsFollowed, VictimsLate, BoxesListed, ClaimHeld
  <2> QED BY <2>1 DEF DispatchInv
<1>6. ASSUME NEW r \in Runners, Exits(r) PROVE DispatchInv'
  <2>1. DispatchTyped'
    BY <1>6 DEF Exits, DispatchInv, DispatchTyped
  <2>2. BoxesListed'
    BY <1>6 DEF Exits, DispatchInv, BoxesListed
  <2>3. ClaimsHeld' /\ ClaimsApart' /\ TrackedWaits' /\ ClaimsFollowed' /\ VictimsLate'
    BY <1>6 DEF Exits, DispatchInv, ClaimsHeld, ClaimsApart, TrackedWaits, ClaimsFollowed,
       VictimsLate, ClaimHeld
  <2> QED BY <2>1, <2>2, <2>3 DEF DispatchInv
<1>7. ASSUME NEW r \in Runners, Wait(r) PROVE DispatchInv'
  <2>1. DispatchTyped'
    BY <1>7 DEF Wait, DispatchInv, DispatchTyped
  <2>2. ClaimsHeld'
    BY <1>7 DEF Wait, DispatchInv, ClaimsHeld, ClaimHeld
  <2>3. ClaimsApart'
    BY <1>7 DEF Wait, DispatchInv, ClaimsApart
  <2>4. TrackedWaits'
    BY <1>7 DEF Wait, DispatchInv, TrackedWaits
  <2>5. ClaimsFollowed'
    BY <1>7 DEF Wait, DispatchInv, ClaimsFollowed
  <2>6. BoxesListed'
    BY <1>7 DEF Wait, DispatchInv, BoxesListed, DispatchTyped
  <2>7. VictimsLate'
    BY <1>7 DEF Wait, DispatchInv, VictimsLate
  <2> QED BY <2>1, <2>2, <2>3, <2>4, <2>5, <2>6, <2>7 DEF DispatchInv
<1>8. ASSUME NEW r \in Runners, Untrack(r) PROVE DispatchInv'
  <2>1. DispatchTyped'
    BY <1>8 DEF Untrack, DispatchInv, DispatchTyped
  <2>2. ClaimsHeld'
    BY <1>8 DEF Untrack, DispatchInv, ClaimsHeld, ClaimHeld
  <2>3. ClaimsApart'
    BY <1>8 DEF Untrack, DispatchInv, ClaimsApart
  <2>4. TrackedWaits'
    BY <1>8 DEF Untrack, DispatchInv, TrackedWaits
  <2>5. ClaimsFollowed'
    BY <1>8 DEF Untrack, DispatchInv, ClaimsFollowed, DispatchTyped
  <2>6. BoxesListed'
    BY <1>8 DEF Untrack, DispatchInv, BoxesListed
  <2>7. VictimsLate'
    BY <1>8 DEF Untrack, DispatchInv, VictimsLate
  <2> QED BY <2>1, <2>2, <2>3, <2>4, <2>5, <2>6, <2>7 DEF DispatchInv
<1>9. ASSUME NEW r \in Runners, WaiterDestroys(r) PROVE DispatchInv'
  <2>1. DispatchTyped'
    BY <1>9 DEF WaiterDestroys, DispatchInv, DispatchTyped, ClaimsHeld, ClaimHeld
  <2>2. ClaimsHeld'
    BY <1>9 DEF WaiterDestroys, DispatchInv, ClaimsHeld, ClaimHeld, DispatchTyped, ClaimsApart
  <2>3. ClaimsApart'
    BY <1>9 DEF WaiterDestroys, DispatchInv, ClaimsApart, DispatchTyped
  <2>4. TrackedWaits'
    BY <1>9 DEF WaiterDestroys, DispatchInv, TrackedWaits, DispatchTyped
  <2>5. ClaimsFollowed'
    BY <1>9 DEF WaiterDestroys, DispatchInv, ClaimsFollowed, DispatchTyped, ClaimsHeld, ClaimHeld
  <2>6. BoxesListed'
    BY <1>9 DEF WaiterDestroys, DispatchInv, BoxesListed, DispatchTyped
  <2>7. VictimsLate'
    BY <1>9 DEF WaiterDestroys, DispatchInv, VictimsLate
  <2> QED BY <2>1, <2>2, <2>3, <2>4, <2>5, <2>6, <2>7 DEF DispatchInv
<1>10. ASSUME NEW r \in Runners, DestroyHangs(r) PROVE DispatchInv'
  <2>1. DispatchTyped'
    BY <1>10 DEF DestroyHangs, DispatchInv, DispatchTyped
  <2>2. ClaimsHeld'
    BY <1>10 DEF DestroyHangs, DispatchInv, ClaimsHeld, ClaimHeld, DispatchTyped
  <2>3. ClaimsApart'
    BY <1>10 DEF DestroyHangs, DispatchInv, ClaimsApart, DispatchTyped
  <2>4. TrackedWaits'
    BY <1>10 DEF DestroyHangs, DispatchInv, TrackedWaits, DispatchTyped
  <2>5. ClaimsFollowed'
    BY <1>10 DEF DestroyHangs, DispatchInv, ClaimsFollowed, DispatchTyped
  <2>6. BoxesListed'
    BY <1>10 DEF DestroyHangs, DispatchInv, BoxesListed, DispatchTyped
  <2>7. VictimsLate'
    BY <1>10 DEF DestroyHangs, DispatchInv, VictimsLate
  <2> QED BY <2>1, <2>2, <2>3, <2>4, <2>5, <2>6, <2>7 DEF DispatchInv
<1>11. ASSUME NEW r \in Runners, handleCompleted(r) PROVE DispatchInv'
  <2>1. DispatchTyped'
    BY <1>11 DEF handleCompleted, DispatchInv, DispatchTyped
  <2>2. ClaimsHeld'
    BY <1>11 DEF handleCompleted, DispatchInv, ClaimsHeld, ClaimHeld
  <2>3. ClaimsApart'
    BY <1>11 DEF handleCompleted, DispatchInv, ClaimsApart
  <2>4. TrackedWaits'
    BY <1>11 DEF handleCompleted, DispatchInv, TrackedWaits
  <2>5. ClaimsFollowed'
    BY <1>11 DEF handleCompleted, DispatchInv, ClaimsFollowed
  <2>6. BoxesListed'
    BY <1>11 DEF handleCompleted, DispatchInv, BoxesListed, DispatchTyped
  <2>7. VictimsLate'
    BY <1>11 DEF handleCompleted, DispatchInv, VictimsLate
  <2> QED BY <2>1, <2>2, <2>3, <2>4, <2>5, <2>6, <2>7 DEF DispatchInv
<1>12. CASE drain
  <2>1. VictimsLate'
    BY <1>12 DEF drain, DispatchInv, VictimsLate
  <2>2. DispatchTyped' /\ ClaimsHeld' /\ ClaimsApart' /\ TrackedWaits' /\ ClaimsFollowed' /\
        BoxesListed'
    BY <1>12 DEF drain, DispatchInv, DispatchTyped, ClaimsHeld, ClaimsApart, TrackedWaits,
       ClaimsFollowed, BoxesListed, ClaimHeld
  <2> QED BY <2>1, <2>2 DEF DispatchInv
<1>13. CASE Drained
  <2>1. VictimsLate'
    BY <1>13 DEF Drained, DispatchInv, VictimsLate
  <2>2. DispatchTyped' /\ ClaimsHeld' /\ ClaimsApart' /\ TrackedWaits' /\ ClaimsFollowed' /\
        BoxesListed'
    BY <1>13 DEF Drained, DispatchInv, DispatchTyped, ClaimsHeld, ClaimsApart, TrackedWaits,
       ClaimsFollowed, BoxesListed, ClaimHeld
  <2> QED BY <2>1, <2>2 DEF DispatchInv
<1>14. CASE destroyAll
  <2>1. DispatchTyped'
    BY <1>14 DEF destroyAll, DispatchInv, DispatchTyped
  <2>2. ClaimsHeld'
    BY <1>14 DEF destroyAll, DispatchInv, ClaimsHeld, ClaimHeld
  <2>3. ClaimsApart'
    BY <1>14 DEF destroyAll, DispatchInv, ClaimsApart
  <2>4. TrackedWaits'
    BY <1>14 DEF destroyAll, DispatchInv, TrackedWaits
  <2>5. ClaimsFollowed'
    BY <1>14 DEF destroyAll, DispatchInv, ClaimsFollowed, VictimsLate
  <2>6. VictimsLate'
    BY <1>14 DEF destroyAll, DispatchInv, VictimsLate
  <2>7. BoxesListed'
    BY <1>14 DEF destroyAll, DispatchInv, BoxesListed
  <2> QED BY <2>1, <2>2, <2>3, <2>4, <2>5, <2>6, <2>7 DEF DispatchInv
<1>15. ASSUME NEW r \in Runners, DestroyVictim(r) PROVE DispatchInv'
  <2>1. DispatchTyped'
    BY <1>15 DEF DestroyVictim, DispatchInv, DispatchTyped, ClaimsHeld, ClaimHeld
  <2>2. ClaimsHeld'
    BY <1>15 DEF DestroyVictim, DispatchInv, ClaimsHeld, ClaimHeld, ClaimsApart
  <2>3. ClaimsApart'
    BY <1>15 DEF DestroyVictim, DispatchInv, ClaimsApart
  <2>4. ClaimsFollowed'
    BY <1>15 DEF DestroyVictim, DispatchInv, ClaimsFollowed, DispatchTyped, ClaimsHeld, ClaimHeld
  <2>5. VictimsLate'
    BY <1>15 DEF DestroyVictim, DispatchInv, VictimsLate
  <2>6. BoxesListed'
    BY <1>15 DEF DestroyVictim, DispatchInv, BoxesListed, DispatchTyped
  <2>7. TrackedWaits'
    BY <1>15 DEF DestroyVictim, DispatchInv, TrackedWaits
  <2> QED BY <2>1, <2>2, <2>3, <2>4, <2>5, <2>6, <2>7 DEF DispatchInv
<1>16. CASE AllDestroyed
  <2>1. VictimsLate'
    BY <1>16 DEF AllDestroyed, DispatchInv, VictimsLate
  <2>2. DispatchTyped' /\ ClaimsHeld' /\ ClaimsApart' /\ TrackedWaits' /\ ClaimsFollowed' /\
        BoxesListed'
    BY <1>16 DEF AllDestroyed, DispatchInv, DispatchTyped, ClaimsHeld, ClaimsApart, TrackedWaits,
       ClaimsFollowed, BoxesListed, ClaimHeld
  <2> QED BY <2>1, <2>2 DEF DispatchInv
<1>17. CASE ConsumeContainerStats
  <2>1. DispatchTyped' /\ ClaimsHeld' /\ ClaimsApart' /\ TrackedWaits' /\ ClaimsFollowed' /\
        VictimsLate' /\ BoxesListed'
    BY <1>17 DEF ConsumeContainerStats, DispatchInv, DispatchTyped, ClaimsHeld, ClaimsApart,
       TrackedWaits, ClaimsFollowed, VictimsLate, BoxesListed, ClaimHeld
  <2> QED BY <2>1 DEF DispatchInv
<1>18. CASE readStatsLoop
  <2>1. DispatchTyped' /\ ClaimsHeld' /\ ClaimsApart' /\ TrackedWaits' /\ ClaimsFollowed' /\
        VictimsLate' /\ BoxesListed'
    BY <1>18 DEF readStatsLoop, DispatchInv, DispatchTyped, ClaimsHeld, ClaimsApart, TrackedWaits,
       ClaimsFollowed, VictimsLate, BoxesListed, ClaimHeld
  <2> QED BY <2>1 DEF DispatchInv
<1> QED BY <1>1, <1>2, <1>3, <1>4, <1>5, <1>6, <1>7, <1>8, <1>9, <1>10, <1>11, <1>12, <1>13, <1>14,
       <1>15, <1>16, <1>17, <1>18 DEF DispatchNext, HostStep

-----------------------------------------------------------------------------
(* LinuxVM: what is on disk once the starter is past each of its steps.     *)
(* The schema marker is never ahead of the binary, so that a marker of this *)
(* binary's schema means a disk of its layout, wherever an earlier daemon   *)
(* was killed.                                                              *)
Booting == {"boot", "ip", "containerd", "dispatch", "ready", "halt", "kill"}
Wired == Booting \cup {"create", "unplug"}
Disked == Wired \cup {"nic"}
AfterInitrd == Disked \cup {"disk", "unmark", "newDisk", "mark"}
AfterRootfs == AfterInitrd \cup {"initrd"}
AfterBinary == AfterRootfs \cup {"rootfs", "writeRootfs"}
FilesWritten ==
  /\ vmAt \in AfterBinary => onDisk["binary"] = "cur"
  /\ vmAt \in AfterRootfs => onDisk["rootfs"] \in {"cur", "twin"}
  /\ vmAt \in AfterInitrd => bootInitrd = "cur"
DiskFits ==
  /\ OnHyperV => /\ schemaMark <= vmWant
                 /\ vhdx # 0 /\ schemaMark = vmWant => vhdx = vmWant
                 /\ vmAt \in Disked \cup {"mark"} => vhdx = vmWant
  /\ ~OnHyperV => /\ vmAt \in Wired => vhdx # 0
                  /\ vmGuest = "running" => vhdx # Unsized
                  /\ vmAt \notin {"nic", "boot", "ip", "unplug"}

(* A guest and an endpoint of this daemon are there only at the steps that  *)
(* will be followed by Stop.                                                *)
GuestHeld == vmGuest \notin {"none", "stray"} => vmAt \in Booting
NicHeld == vmNic = "own" => vmAt \in Wired /\ OnHyperV

VmInv == VmTypeOK /\ FilesWritten /\ DiskFits /\ GuestHeld /\ NicHeld

LEMMA VmInvStep == VmInv /\ LinuxVMNext => VmInv'
<1> SUFFICES ASSUME VmInv, LinuxVMNext PROVE VmInv'
  OBVIOUS
<1> USE DEF VmTo, VmSame, OnHyperV, vmFiles, vmRun, SyncAsset, Upto, hcsCreate, schemaMatches,
        ProbeContainerd, Unsized, Assets, Starting, Halting, AfterBinary, AfterRootfs, AfterInitrd,
        Disked, Wired, Booting
<1>1. CASE StartLinuxVM
  <2>1. VmTypeOK'
    BY <1>1, LinuxVMAssumption DEF StartLinuxVM, VmInv, VmTypeOK
  <2>2. FilesWritten'
    BY <1>1, LinuxVMAssumption DEF StartLinuxVM, VmInv, FilesWritten
  <2>3. DiskFits'
    BY <1>1, LinuxVMAssumption DEF StartLinuxVM, VmInv, DiskFits
  <2>4. GuestHeld'
    BY <1>1, LinuxVMAssumption DEF StartLinuxVM, VmInv, GuestHeld
  <2>5. NicHeld'
    BY <1>1, LinuxVMAssumption DEF StartLinuxVM, VmInv, NicHeld
  <2> QED BY <2>1, <2>2, <2>3, <2>4, <2>5 DEF VmInv
<1>2. CASE cleanupStaleVMs
  <2>1. VmTypeOK'
    BY <1>2, LinuxVMAssumption DEF cleanupStaleVMs, VmInv, VmTypeOK
  <2>2. FilesWritten'
    BY <1>2, LinuxVMAssumption DEF cleanupStaleVMs, VmInv, FilesWritten
  <2>3. DiskFits'
    BY <1>2, LinuxVMAssumption DEF cleanupStaleVMs, VmInv, DiskFits
  <2>4. GuestHeld'
    BY <1>2, LinuxVMAssumption DEF cleanupStaleVMs, VmInv, GuestHeld
  <2>5. NicHeld'
    BY <1>2, LinuxVMAssumption DEF cleanupStaleVMs, VmInv, NicHeld
  <2> QED BY <2>1, <2>2, <2>3, <2>4, <2>5 DEF VmInv
<1>3. CASE extractAssets
  <2>1. VmTypeOK'
    BY <1>3, LinuxVMAssumption DEF extractAssets, VmInv, VmTypeOK
  <2>2. FilesWritten'
    BY <1>3, LinuxVMAssumption DEF extractAssets, VmInv, FilesWritten, VmTypeOK
  <2>3. DiskFits'
    BY <1>3, LinuxVMAssumption DEF extractAssets, VmInv, DiskFits
  <2>4. GuestHeld'
    BY <1>3, LinuxVMAssumption DEF extractAssets, VmInv, GuestHeld
  <2>5. NicHeld'
    BY <1>3, LinuxVMAssumption DEF extractAssets, VmInv, NicHeld
  <2> QED BY <2>1, <2>2, <2>3, <2>4, <2>5 DEF VmInv
<1>4. CASE buildBootInitrd
  <2>1. VmTypeOK'
    BY <1>4, LinuxVMAssumption DEF buildBootInitrd, VmInv, VmTypeOK, FilesWritten
  <2>2. FilesWritten'
    BY <1>4, LinuxVMAssumption DEF buildBootInitrd, VmInv, FilesWritten
  <2>3. DiskFits'
    BY <1>4, LinuxVMAssumption DEF buildBootInitrd, VmInv, DiskFits
  <2>4. GuestHeld'
    BY <1>4, LinuxVMAssumption DEF buildBootInitrd, VmInv, GuestHeld
  <2>5. NicHeld'
    BY <1>4, LinuxVMAssumption DEF buildBootInitrd, VmInv, NicHeld
  <2> QED BY <2>1, <2>2, <2>3, <2>4, <2>5 DEF VmInv
<1>5. CASE ensureRootVHDX
  <2>1. VmTypeOK'
    BY <1>5, LinuxVMAssumption DEF ensureRootVHDX, VmInv, VmTypeOK
  <2>2. FilesWritten'
    BY <1>5, LinuxVMAssumption DEF ensureRootVHDX, VmInv, FilesWritten
  <2>3. DiskFits'
    BY <1>5, LinuxVMAssumption DEF ensureRootVHDX, VmInv, DiskFits, VmTypeOK
  <2>4. GuestHeld'
    BY <1>5, LinuxVMAssumption DEF ensureRootVHDX, VmInv, GuestHeld
  <2>5. NicHeld'
    BY <1>5, LinuxVMAssumption DEF ensureRootVHDX, VmInv, NicHeld
  <2> QED BY <2>1, <2>2, <2>3, <2>4, <2>5 DEF VmInv
<1>6. CASE ensureDiskImage
  <2>1. VmTypeOK'
    BY <1>6, LinuxVMAssumption DEF ensureDiskImage, VmInv, VmTypeOK
  <2>2. FilesWritten'
    BY <1>6, LinuxVMAssumption DEF ensureDiskImage, VmInv, FilesWritten
  <2>3. DiskFits'
    BY <1>6, LinuxVMAssumption DEF ensureDiskImage, VmInv, DiskFits, VmTypeOK, GuestHeld
  <2>4. GuestHeld'
    BY <1>6, LinuxVMAssumption DEF ensureDiskImage, VmInv, GuestHeld
  <2>5. NicHeld'
    BY <1>6, LinuxVMAssumption DEF ensureDiskImage, VmInv, NicHeld
  <2> QED BY <2>1, <2>2, <2>3, <2>4, <2>5 DEF VmInv
<1>7. CASE createNetworkEndpoint
  <2>1. VmTypeOK'
    BY <1>7, LinuxVMAssumption DEF createNetworkEndpoint, VmInv, VmTypeOK
  <2>2. FilesWritten'
    BY <1>7, LinuxVMAssumption DEF createNetworkEndpoint, VmInv, FilesWritten
  <2>3. DiskFits'
    BY <1>7, LinuxVMAssumption DEF createNetworkEndpoint, VmInv, DiskFits
  <2>4. GuestHeld'
    BY <1>7, LinuxVMAssumption DEF createNetworkEndpoint, VmInv, GuestHeld
  <2>5. NicHeld'
    BY <1>7, LinuxVMAssumption DEF createNetworkEndpoint, VmInv, NicHeld, DiskFits
  <2> QED BY <2>1, <2>2, <2>3, <2>4, <2>5 DEF VmInv
<1>8. CASE createVM
  <2>1. VmTypeOK'
    BY <1>8, LinuxVMAssumption DEF createVM, VmInv, VmTypeOK
  <2>2. FilesWritten'
    BY <1>8, LinuxVMAssumption DEF createVM, VmInv, FilesWritten
  <2>3. DiskFits'
    BY <1>8, LinuxVMAssumption DEF createVM, VmInv, DiskFits
  <2>4. GuestHeld'
    BY <1>8, LinuxVMAssumption DEF createVM, VmInv, GuestHeld
  <2>5. NicHeld'
    BY <1>8, LinuxVMAssumption DEF createVM, VmInv, NicHeld
  <2> QED BY <2>1, <2>2, <2>3, <2>4, <2>5 DEF VmInv
<1>9. CASE hcsStart
  <2>1. VmTypeOK'
    BY <1>9, LinuxVMAssumption DEF hcsStart, VmInv, VmTypeOK
  <2>2. FilesWritten'
    BY <1>9, LinuxVMAssumption DEF hcsStart, VmInv, FilesWritten
  <2>3. DiskFits'
    BY <1>9, LinuxVMAssumption DEF hcsStart, VmInv, DiskFits
  <2>4. GuestHeld'
    BY <1>9, LinuxVMAssumption DEF hcsStart, VmInv, GuestHeld
  <2>5. NicHeld'
    BY <1>9, LinuxVMAssumption DEF hcsStart, VmInv, NicHeld
  <2> QED BY <2>1, <2>2, <2>3, <2>4, <2>5 DEF VmInv
<1>10. CASE boot
  <2>1. VmTypeOK'
    BY <1>10, LinuxVMAssumption DEF boot, VmInv, VmTypeOK
  <2>2. FilesWritten'
    BY <1>10, LinuxVMAssumption DEF boot, VmInv, FilesWritten
  <2>3. DiskFits'
    BY <1>10, LinuxVMAssumption DEF boot, VmInv, DiskFits
  <2>4. GuestHeld'
    BY <1>10, LinuxVMAssumption DEF boot, VmInv, GuestHeld
  <2>5. NicHeld'
    BY <1>10, LinuxVMAssumption DEF boot, VmInv, NicHeld
  <2> QED BY <2>1, <2>2, <2>3, <2>4, <2>5 DEF VmInv
<1>11. CASE readConsole
  <2>1. VmTypeOK'
    BY <1>11, LinuxVMAssumption DEF readConsole, VmInv, VmTypeOK
  <2>2. FilesWritten' /\ DiskFits' /\ GuestHeld' /\ NicHeld'
    BY <1>11 DEF readConsole, VmInv, FilesWritten, DiskFits, GuestHeld, NicHeld
  <2> QED BY <2>1, <2>2 DEF VmInv
<1>12. CASE GuestExits
  <2>1. VmTypeOK'
    BY <1>12, LinuxVMAssumption DEF GuestExits, VmInv, VmTypeOK
  <2>2. DiskFits'
    BY <1>12, LinuxVMAssumption DEF GuestExits, VmInv, DiskFits
  <2>3. GuestHeld'
    BY <1>12, LinuxVMAssumption DEF GuestExits, VmInv, GuestHeld
  <2>4. FilesWritten' /\ NicHeld'
    BY <1>12 DEF GuestExits, VmInv, FilesWritten, NicHeld
  <2> QED BY <2>1, <2>2, <2>3, <2>4 DEF VmInv
<1>13. CASE monitorVM
  <2>1. VmTypeOK'
    BY <1>13, LinuxVMAssumption DEF monitorVM, VmInv, VmTypeOK
  <2>2. FilesWritten' /\ DiskFits' /\ GuestHeld' /\ NicHeld'
    BY <1>13 DEF monitorVM, VmInv, FilesWritten, DiskFits, GuestHeld, NicHeld
  <2> QED BY <2>1, <2>2 DEF VmInv
<1>14. CASE discoverIP
  <2>1. VmTypeOK'
    BY <1>14, LinuxVMAssumption DEF discoverIP, VmInv, VmTypeOK
  <2>2. FilesWritten'
    BY <1>14, LinuxVMAssumption DEF discoverIP, VmInv, FilesWritten
  <2>3. DiskFits'
    BY <1>14, LinuxVMAssumption DEF discoverIP, VmInv, DiskFits
  <2>4. GuestHeld'
    BY <1>14, LinuxVMAssumption DEF discoverIP, VmInv, GuestHeld
  <2>5. NicHeld'
    BY <1>14, LinuxVMAssumption DEF discoverIP, VmInv, NicHeld
  <2> QED BY <2>1, <2>2, <2>3, <2>4, <2>5 DEF VmInv
<1>15. CASE waitForContainerd
  <2>1. VmTypeOK'
    BY <1>15, LinuxVMAssumption DEF waitForContainerd, VmInv, VmTypeOK
  <2>2. FilesWritten'
    BY <1>15, LinuxVMAssumption DEF waitForContainerd, VmInv, FilesWritten
  <2>3. DiskFits'
    BY <1>15, LinuxVMAssumption DEF waitForContainerd, VmInv, DiskFits
  <2>4. GuestHeld'
    BY <1>15, LinuxVMAssumption DEF waitForContainerd, VmInv, GuestHeld
  <2>5. NicHeld'
    BY <1>15, LinuxVMAssumption DEF waitForContainerd, VmInv, NicHeld
  <2> QED BY <2>1, <2>2, <2>3, <2>4, <2>5 DEF VmInv
<1>16. CASE waitForContainerdVz
  <2>1. VmTypeOK'
    BY <1>16, LinuxVMAssumption DEF waitForContainerdVz, VmInv, VmTypeOK
  <2>2. FilesWritten'
    BY <1>16, LinuxVMAssumption DEF waitForContainerdVz, VmInv, FilesWritten
  <2>3. DiskFits'
    BY <1>16, LinuxVMAssumption DEF waitForContainerdVz, VmInv, DiskFits
  <2>4. GuestHeld'
    BY <1>16, LinuxVMAssumption DEF waitForContainerdVz, VmInv, GuestHeld
  <2>5. NicHeld'
    BY <1>16, LinuxVMAssumption DEF waitForContainerdVz, VmInv, NicHeld
  <2> QED BY <2>1, <2>2, <2>3, <2>4, <2>5 DEF VmInv
<1>17. CASE waitForDispatch
  <2>1. VmTypeOK'
    BY <1>17, LinuxVMAssumption DEF waitForDispatch, VmInv, VmTypeOK
  <2>2. FilesWritten'
    BY <1>17, LinuxVMAssumption DEF waitForDispatch, VmInv, FilesWritten
  <2>3. DiskFits'
    BY <1>17, LinuxVMAssumption DEF waitForDispatch, VmInv, DiskFits
  <2>4. GuestHeld'
    BY <1>17, LinuxVMAssumption DEF waitForDispatch, VmInv, GuestHeld
  <2>5. NicHeld'
    BY <1>17, LinuxVMAssumption DEF waitForDispatch, VmInv, NicHeld
  <2> QED BY <2>1, <2>2, <2>3, <2>4, <2>5 DEF VmInv
<1>18. CASE Quit
  <2>1. VmTypeOK'
    BY <1>18, LinuxVMAssumption DEF Quit, VmInv, VmTypeOK
  <2>2. FilesWritten' /\ DiskFits' /\ GuestHeld' /\ NicHeld'
    BY <1>18 DEF Quit, VmInv, FilesWritten, DiskFits, GuestHeld, NicHeld
  <2> QED BY <2>1, <2>2 DEF VmInv
<1>19. CASE cleanup
  <2>1. VmTypeOK'
    BY <1>19, LinuxVMAssumption DEF cleanup, VmInv, VmTypeOK
  <2>2. FilesWritten'
    BY <1>19, LinuxVMAssumption DEF cleanup, VmInv, FilesWritten
  <2>3. DiskFits'
    BY <1>19, LinuxVMAssumption DEF cleanup, VmInv, DiskFits
  <2>4. GuestHeld'
    BY <1>19, LinuxVMAssumption DEF cleanup, VmInv, GuestHeld
  <2>5. NicHeld'
    BY <1>19, LinuxVMAssumption DEF cleanup, VmInv, NicHeld
  <2> QED BY <2>1, <2>2, <2>3, <2>4, <2>5 DEF VmInv
<1>20. CASE StopHyperV
  <2>1. VmTypeOK'
    BY <1>20, LinuxVMAssumption DEF StopHyperV, VmInv, VmTypeOK
  <2>2. FilesWritten'
    BY <1>20, LinuxVMAssumption DEF StopHyperV, VmInv, FilesWritten
  <2>3. DiskFits'
    BY <1>20, LinuxVMAssumption DEF StopHyperV, VmInv, DiskFits
  <2>4. GuestHeld'
    BY <1>20, LinuxVMAssumption DEF StopHyperV, VmInv, GuestHeld
  <2>5. NicHeld'
    BY <1>20, LinuxVMAssumption DEF StopHyperV, VmInv, NicHeld
  <2> QED BY <2>1, <2>2, <2>3, <2>4, <2>5 DEF VmInv
<1>21. CASE StopVz
  <2>1. VmTypeOK'
    BY <1>21, LinuxVMAssumption DEF StopVz, VmInv, VmTypeOK
  <2>2. FilesWritten'
    BY <1>21, LinuxVMAssumption DEF StopVz, VmInv, FilesWritten
  <2>3. DiskFits'
    BY <1>21, LinuxVMAssumption DEF StopVz, VmInv, DiskFits
  <2>4. GuestHeld'
    BY <1>21, LinuxVMAssumption DEF StopVz, VmInv, GuestHeld
  <2>5. NicHeld'
    BY <1>21, LinuxVMAssumption DEF StopVz, VmInv, NicHeld
  <2> QED BY <2>1, <2>2, <2>3, <2>4, <2>5 DEF VmInv
<1>22. CASE KillDaemon
  <2>1. VmTypeOK'
    BY <1>22, LinuxVMAssumption DEF KillDaemon, VmInv, VmTypeOK
  <2>2. FilesWritten'
    BY <1>22, LinuxVMAssumption DEF KillDaemon, VmInv, FilesWritten
  <2>3. DiskFits'
    BY <1>22, LinuxVMAssumption DEF KillDaemon, VmInv, DiskFits
  <2>4. GuestHeld'
    BY <1>22, LinuxVMAssumption DEF KillDaemon, VmInv, GuestHeld
  <2>5. NicHeld'
    BY <1>22, LinuxVMAssumption DEF KillDaemon, VmInv, NicHeld
  <2> QED BY <2>1, <2>2, <2>3, <2>4, <2>5 DEF VmInv
<1>23. CASE NewBinary
  <2>1. VmTypeOK'
    BY <1>23, LinuxVMAssumption DEF NewBinary, VmInv, VmTypeOK
  <2>2. FilesWritten'
    BY <1>23, LinuxVMAssumption DEF NewBinary, VmInv, FilesWritten
  <2>3. DiskFits'
    BY <1>23, LinuxVMAssumption DEF NewBinary, VmInv, DiskFits, VmTypeOK
  <2>4. GuestHeld' /\ NicHeld'
    BY <1>23 DEF NewBinary, VmInv, GuestHeld, NicHeld
  <2> QED BY <2>1, <2>2, <2>3, <2>4 DEF VmInv
<1> QED BY <1>1, <1>2, <1>3, <1>4, <1>5, <1>6, <1>7, <1>8, <1>9, <1>10, <1>11, <1>12, <1>13, <1>14,
       <1>15, <1>16, <1>17, <1>18, <1>19, <1>20, <1>21, <1>22, <1>23 DEF LinuxVMNext

-----------------------------------------------------------------------------
RemoteInv == (focus = "dispatch" => DispatchInv) /\ (focus = "linuxvm" => VmInv)

(* A step of the node is one of the component in focus.                    *)
LEMMA RemoteInvStep ==
  RemoteInv /\ [ContainersNext]_<<focus, containersVars>> => RemoteInv'
<1> SUFFICES ASSUME RemoteInv, [ContainersNext]_<<focus, containersVars>> PROVE RemoteInv'
  OBVIOUS
<1>1. focus' = focus
  BY DEF ContainersNext
<1>2. ASSUME focus = "dispatch" PROVE DispatchInv'
  <2>1. DispatchNext \/ UNCHANGED dispatchVars
    BY <1>2 DEF ContainersNext, ContainersMoves, containersVars
  <2>2. CASE UNCHANGED dispatchVars
    BY <1>2, <2>2 DEF dispatchVars, workerVars, statVars, RemoteInv, DispatchInv, DispatchTyped, ClaimHeld,
       ClaimsHeld, ClaimsApart, TrackedWaits, ClaimsFollowed, VictimsLate, BoxesListed
  <2> QED BY <1>2, <2>1, <2>2, DispatchInvStep DEF RemoteInv
<1>3. ASSUME focus = "linuxvm" PROVE VmInv'
  <2>1. LinuxVMNext \/ UNCHANGED linuxVMVars
    BY <1>3 DEF ContainersNext, ContainersMoves, containersVars
  <2>2. CASE UNCHANGED linuxVMVars
    BY <1>3, <2>2 DEF linuxVMVars, vmFiles, vmRun, RemoteInv, VmInv, VmTypeOK, FilesWritten, DiskFits,
       GuestHeld, NicHeld, OnHyperV
  <2> QED BY <1>3, <2>1, <2>2, VmInvStep DEF RemoteInv
<1> QED BY <1>1, <1>2, <1>3 DEF RemoteInv

(* A node that starts has dispatched nothing and runs no VM.                *)
LEMMA RemoteStart == ContainersStart => RemoteInv
<1> SUFFICES ASSUME ContainersStart PROVE DispatchInv /\ VmInv
  BY DEF RemoteInv
<1>1. DispatchInv
  BY DEF ContainersStart, ContainersInit, DispatchInit, DispatchInv, DispatchTyped, ClaimHeld, ClaimsHeld,
     ClaimsApart, TrackedWaits, ClaimsFollowed, VictimsLate, BoxesListed
<1>2. VmTypeOK
  <2>1. 0 \in 0..Unsized /\ 0 \in 0..MaxSchema /\ 1 \in 1..MaxSchema /\ 0 \in 0..MaxVmKills
    BY LinuxVMAssumption DEF Unsized
  <2>2. LinuxVMInit
    BY DEF ContainersStart, ContainersInit
  <2> QED BY <2>1, <2>2 DEF LinuxVMInit, VmTypeOK
<1>3. VmInv
  BY <1>2, LinuxVMAssumption DEF ContainersStart, ContainersInit, LinuxVMInit, VmInv, FilesWritten,
     DiskFits, GuestHeld, NicHeld, OnHyperV, AfterBinary, AfterRootfs, AfterInitrd, Disked, Wired, Booting
<1> QED BY <1>1, <1>3

(* For any number of dispatched runners, lost replies, failed destroys,     *)
(* schemas and killed daemons: a runner's claim is released at most once    *)
(* and never when its job completed; a runner the host is through with has  *)
(* no container on the worker while no call was lost; the VM boots this     *)
(* binary from files written to their end and from a disk of its layout;    *)
(* and a daemon that ended in order left no VM and no endpoint of its own.  *)
THEOREM RemoteRunnersStayOwned == ContainersSpec => []RemoteRunnersOwned
<1>1. ContainersStart => RemoteInv
  BY RemoteStart
<1>2. DispatchInv => ReleasedOnce /\ NothingForgotten
  <2> SUFFICES ASSUME DispatchInv PROVE ReleasedOnce /\ NothingForgotten
    OBVIOUS
  <2>1. ReleasedOnce
    BY DEF DispatchInv, DispatchTyped, ClaimsHeld, ClaimHeld, ReleasedOnce
  <2>2. NothingForgotten
    BY DEF DispatchInv, TrackedWaits, ClaimsFollowed, BoxesListed, NothingForgotten
  <2> QED BY <2>1, <2>2
<1>3. VmInv => BootsWhole /\ CleanupLeavesNothing
  <2> SUFFICES ASSUME VmInv PROVE BootsWhole /\ CleanupLeavesNothing
    OBVIOUS
  <2>1. BootsWhole
    BY LinuxVMAssumption DEF VmInv, VmTypeOK, FilesWritten, DiskFits, GuestHeld, BootsWhole, Unsized,
       AfterBinary, AfterRootfs, AfterInitrd, Disked, Wired, Booting
  <2>2. CleanupLeavesNothing
    BY DEF VmInv, GuestHeld, NicHeld, CleanupLeavesNothing, Wired, Booting
  <2> QED BY <2>1, <2>2
<1>4. RemoteInv => RemoteRunnersOwned
  BY <1>2, <1>3 DEF RemoteInv, RemoteRunnersOwned
<1> QED BY <1>1, <1>4, RemoteInvStep, PTL DEF ContainersSpec
-----------------------------------------------------------------------------
(* The tables of the dispatcher hold runners, and faults stay in the bound. *)
LEMMA DispatchTypes ==
  ASSUME DispatchInv, DispatchTypeOK, DispatchNext
  PROVE  DispatchTypeOK'
<1> DEFINE Tables == /\ dTracked \subseteq Runners /\ dSlots \subseteq Runners /\ jobCancelled \subseteq Runners
                     /\ envs \subseteq Runners /\ samplers \subseteq Runners /\ known \subseteq Runners
                     /\ victims \subseteq Runners /\ completed \subseteq Runners
           Rest == rpcFaults \in 0..MaxRpcFaults /\ streaming \in BOOLEAN
                   /\ shutdown \in {"serving", "draining", "killing", "stopped"}
<1>1. Tables /\ Rest
  BY DEF DispatchTypeOK
<1>2. DispatchTyped'
  BY DispatchInvStep DEF DispatchInv
<1> USE DispatchAssumption DEF DMoves, Release, Fault, DestroyJob, workerVars, statVars
<1>3. ASSUME NEW r \in Runners, handleLinuxJob(r) \/ CreateJob(r) \/ KillJob(r) \/ Exits(r) PROVE Tables' /\ Rest'
  BY <1>1, <1>3 DEF handleLinuxJob, CreateJob, KillJob, Exits
<1>4. ASSUME NEW r \in Runners, CreateReturns(r) \/ CreateFails(r) \/ Wait(r) PROVE Tables' /\ Rest'
  BY <1>1, <1>4 DEF CreateReturns, CreateFails, Wait
<1>5. ASSUME NEW r \in Runners, Untrack(r) \/ WaiterDestroys(r) \/ DestroyHangs(r) PROVE Tables' /\ Rest'
  BY <1>1, <1>5 DEF Untrack, WaiterDestroys, DestroyHangs
<1>6. ASSUME NEW r \in Runners, handleCompleted(r) \/ DestroyVictim(r) PROVE Tables' /\ Rest'
  BY <1>1, <1>6 DEF handleCompleted, DestroyVictim
<1>7. ASSUME drain \/ Drained \/ destroyAll \/ AllDestroyed PROVE Tables' /\ Rest'
  BY <1>1, <1>7 DEF drain, Drained, destroyAll, AllDestroyed
<1>8. ASSUME ConsumeContainerStats \/ readStatsLoop PROVE Tables' /\ Rest'
  BY <1>1, <1>8 DEF ConsumeContainerStats, readStatsLoop
<1>9. Tables' /\ Rest'
  BY <1>3, <1>4, <1>5, <1>6, <1>7, <1>8 DEF DispatchNext, HostStep
<1> QED BY <1>2, <1>9 DEF DispatchTypeOK, DispatchTyped

(* An address that is given out is one of the subnet's.                     *)
LEMMA JoinTyped ==
  ASSUME NetworksTypeOK, NEW b \in Boxes, NEW n \in Ids, Joins(b, n)
  PROVE  /\ nextIP' \in [Ids -> 2..(MaxIP + 1)]
         /\ members' \in [Ids -> [Boxes -> 0..MaxIP]]
         /\ joined' \in [Boxes -> [Names -> Ids \X (0..MaxIP)]]
<1>1. nextIP[n] \in 2..MaxIP /\ nwName[n] \in Names /\ MaxIP \in Nat
  BY NetworksAssumption DEF NetworksTypeOK, Joins, allocateIP
<1>2. nextIP' \in [Ids -> 2..(MaxIP + 1)]
  BY <1>1 DEF NetworksTypeOK, Joins, allocateIP
<1>3. members' \in [Ids -> [Boxes -> 0..MaxIP]]
  BY <1>1 DEF NetworksTypeOK, Joins
<1>4. joined' \in [Boxes -> [Names -> Ids \X (0..MaxIP)]]
  BY <1>1 DEF NetworksTypeOK, Joins
<1> QED BY <1>2, <1>3, <1>4

(* The records of a job's networks stay of their types.                     *)
LEMMA NetworksTypes ==
  ASSUME NetworksTypeOK, NetsInv, NetworksNext
  PROVE  NetworksTypeOK'
<1>1. MaxIP \in Nat \ {0} /\ networks \subseteq Ids /\ NotIn \in Ids \X (0..MaxIP) /\ Bridge \in Names /\ Bridge \in Ids
      /\ NetIds \subseteq Ids /\ NetNames \subseteq Names
  BY NetworksAssumption DEF NetworksTypeOK, NotIn, Ids, Names
<1>2. ASSUME NEW b \in Boxes, assignContainerNetwork(b) PROVE NetworksTypeOK'
  <2>1. PICK n \in Ids : Joins(b, n)
    BY <1>1, <1>2 DEF assignContainerNetwork
  <2> QED BY <1>2, <2>1, JoinTyped DEF assignContainerNetwork, NetworksTypeOK
<1>3. ASSUME NEW b \in Boxes, NEW n \in Ids, handleNetworkConnect(b, n) PROVE NetworksTypeOK'
  BY <1>3, JoinTyped DEF handleNetworkConnect, NetworksTypeOK
<1>4. ASSUME NEW b \in Boxes, NEW n \in Ids, handleNetworkDisconnect(b, n) PROVE NetworksTypeOK'
  BY <1>1, <1>4 DEF handleNetworkDisconnect, NetworksTypeOK
<1>5. ASSUME NEW n \in NetIds, handleNetworkCreate(n) PROVE NetworksTypeOK'
  <2>1. pickFreeSubnet \in Nat
    BY SubnetPicked DEF NetsInv
  <2>2. PICK name \in NetNames : nwName' = [nwName EXCEPT ![n] = name]
    BY <1>5 DEF handleNetworkCreate
  <2> QED BY <1>1, <1>5, <2>1, <2>2 DEF handleNetworkCreate, NetworksTypeOK
<1>6. ASSUME NEW gone, DropNetwork(gone), joined' \in [Boxes -> [Names -> Ids \X (0..MaxIP)]],
             UNCHANGED <<boxes, used, linking, stale>>
      PROVE  NetworksTypeOK'
  BY <1>1, <1>6 DEF DropNetwork, NetworksTypeOK
<1>7. ASSUME NEW n \in NetIds, handleNetworkRemove(n) PROVE NetworksTypeOK'
  <2>1. joined' \in [Boxes -> [Names -> Ids \X (0..MaxIP)]]
    BY <1>1, <1>7 DEF handleNetworkRemove, NetworksTypeOK
  <2> QED BY <1>6, <1>7, <2>1 DEF handleNetworkRemove
<1>8. ASSUME handleNetworkPrune PROVE NetworksTypeOK'
  BY <1>6, <1>8 DEF handleNetworkPrune, NetworksTypeOK
<1>9. ASSUME NEW b \in Boxes, StartLooks(b) PROVE NetworksTypeOK'
  BY <1>9 DEF StartLooks, NetworksTypeOK
<1>10. ASSUME NEW b \in Boxes, StartWritesBridge(b) PROVE NetworksTypeOK'
  <2>1. PICK ip \in 2..MaxIP :
          /\ members' = [members EXCEPT ![Bridge][b] = ip]
          /\ joined' = IF joined[b][Bridge] # NotIn THEN [joined EXCEPT ![b][Bridge] = <<Bridge, ip>>] ELSE joined
    BY <1>10 DEF StartWritesBridge
  <2>2. joined' \in [Boxes -> [Names -> Ids \X (0..MaxIP)]]
    BY <1>1, <2>1 DEF NetworksTypeOK
  <2>3. members' \in [Ids -> [Boxes -> 0..MaxIP]]
    BY <1>1, <2>1 DEF NetworksTypeOK
  <2> QED BY <1>10, <2>2, <2>3 DEF StartWritesBridge, NetworksTypeOK
<1>11. ASSUME NEW b \in Boxes, removeContainerFromNetworks(b) PROVE NetworksTypeOK'
  BY <1>1, <1>11 DEF removeContainerFromNetworks, NetworksTypeOK
<1> QED BY <1>2, <1>3, <1>4, <1>5, <1>7, <1>8, <1>9, <1>10, <1>11 DEF NetworksNext

(* A stager numbers the binds it stages, up to the bound.                   *)
StageTypes == BindStageTypeOK /\ \A j \in StageJobs : stageAt[j] = "mount" => seq[j] >= 1

LEMMA StageTypesStep == StageTypes /\ BindStageNext => StageTypes'
<1> SUFFICES ASSUME StageTypes, NEW j \in StageJobs,
        \/ stage(j) \/ StageMount(j) \/ unmountAndRemove(j)
        \/ teardownBinds(j) \/ TeardownCheck(j) \/ TeardownRemove(j)
        \/ sweepStagedBindsForJob(j) \/ ReapCheck(j) \/ ReapRemove(j)
      PROVE StageTypes'
  BY DEF BindStageNext
<1> USE BindStageAssumption DEF StageTypes, BindStageTypeOK, MountsOf, SweepPoints, sweeps
<1>1. CASE stage(j)
  <2>1. seq' \in [StageJobs -> 0..MaxBinds] /\ seq'[j] >= 1 /\ \A i \in StageJobs : seq'[i] >= seq[i]
    BY <1>1 DEF stage
  <2>2. \A m \in mounts' : m[1] \in StageJobs /\ m[2] \in 1..seq'[m[1]]
    BY <1>1, <2>1 DEF stage
  <2>3. stageAt' \in [StageJobs -> {"idle", "mount"}] /\ lock' \in [StageJobs -> {"none", "stage", "teardown"}]
    BY <1>1 DEF stage
  <2>4. \A i \in StageJobs : stageAt'[i] = "mount" => seq'[i] >= 1
    BY <1>1, <2>1 DEF stage
  <2> QED BY <1>1, <2>1, <2>2, <2>3, <2>4 DEF stage
<1>2. CASE StageMount(j)
  <2>1. mounts' \subseteq mounts \cup {<<j, seq[j]>>} /\ seq' = seq /\ seq[j] >= 1
    BY <1>2 DEF StageMount
  <2>2. \A m \in mounts' : m[1] \in StageJobs /\ m[2] \in 1..seq'[m[1]]
    BY <2>1
  <2> QED BY <1>2, <2>1, <2>2 DEF StageMount
<1>3. CASE unmountAndRemove(j)
  BY <1>3 DEF unmountAndRemove
<1>4. CASE teardownBinds(j)
  BY <1>4 DEF teardownBinds
<1>5. CASE TeardownCheck(j)
  BY <1>5 DEF TeardownCheck, Checked
<1>6. CASE TeardownRemove(j)
  BY <1>6 DEF TeardownRemove, RemoveAll
<1>7. CASE sweepStagedBindsForJob(j)
  BY <1>7 DEF sweepStagedBindsForJob
<1>8. CASE ReapCheck(j)
  BY <1>8 DEF ReapCheck, Checked
<1>9. CASE ReapRemove(j)
  BY <1>9 DEF ReapRemove, RemoveAll
<1> QED BY <1>1, <1>2, <1>3, <1>4, <1>5, <1>6, <1>7, <1>8, <1>9

(* What a bounded sequence is: a sequence.                                  *)
LEMMA SequencesOf == ASSUME NEW S, NEW n \in Nat PROVE \A s \in BoundedSeq(S, n) : s \in Seq(S)
<1>1. ASSUME NEW s \in BoundedSeq(S, n) PROVE s \in Seq(S)
  <2>1. PICK m \in 0..n : s \in [1..m -> S]
    BY <1>1 DEF BoundedSeq, SeqOf
  <2> QED BY <2>1
<1> QED BY <1>1

(* What is left of a path is made of its components and of links' targets.  *)
LEMMA WalkTypes ==
  ASSUME WalkInv, BindWalkTypeOK, BindWalkNext
  PROVE  BindWalkTypeOK'
<1> DEFINE Comp == {"name", ".."}
           Rest == links \in 0..MaxLinks /\ missing \in 0..MaxPath
<1>1. /\ \A p \in Paths : p \in Seq(Comp)
      /\ \A t \in Targets : t \in Seq(Comp)
  BY SequencesOf, BindWalkAssumption DEF Paths, Targets, BoundedSeq, SeqOf
<1>2. remaining \in Seq(Comp) /\ Rest /\ MaxLinks \in Nat /\ MaxPath \in Nat
  BY BindWalkAssumption DEF BindWalkTypeOK
<1>3. WalkInv'
  BY WalkInvStep
<1>4. remaining # <<>> => Tail(remaining) \in Seq(Comp)
  BY <1>2
<1> HIDE DEF Comp
<1>5. remaining' \in Seq(Comp) /\ Rest'
  <2>1. CASE pinBindSource
    BY <1>1, <1>2, <2>1 DEF pinBindSource
  <2>2. CASE WalkUp \/ WalkDown
    BY <1>2, <1>4, <2>2 DEF WalkUp, WalkDown, Walking
  <2>3. CASE WalkLink
    <3>1. PICK t \in Targets : remaining' = t \o Tail(remaining)
      BY <2>3 DEF WalkLink
    <3>2. t \in Seq(Comp) /\ Tail(remaining) \in Seq(Comp)
      BY <1>1, <1>4, <2>3 DEF WalkLink, Walking
    <3>3. t \o Tail(remaining) \in Seq(Comp)
      BY <3>2
    <3>4. Rest'
      BY <1>2, <2>3 DEF WalkLink
    <3> QED BY <3>1, <3>3, <3>4
  <2>4. CASE WalkFails
    BY <1>2, <2>4 DEF WalkFails
  <2>5. CASE createBeneath
    BY <1>2, <2>5 DEF createBeneath
  <2>6. CASE createUnder \/ CreateUnderFails
    BY <1>2, <2>6 DEF createUnder, CreateUnderFails
  <2>7. CASE Resolved \/ newBindPin
    BY <1>2, <2>7 DEF Resolved, newBindPin
  <2> QED BY <2>1, <2>2, <2>3, <2>4, <2>5, <2>6, <2>7 DEF BindWalkNext, BindWalkStep
<1> QED BY <1>3, <1>5 DEF WalkInv, BindWalkTypeOK, Comp

(* A build makes at most two solves: it heals once.  Who repairs holds the  *)
(* mutex, and who holds it repairs.                                         *)
BuildTypes ==
  /\ BuildTypeOK /\ poisoned \in Nat /\ coreFails \in Nat /\ bkShut \in BOOLEAN
  /\ \A b \in Builds : bldAt[b] = "idle" => bldTry[b] = 0
  /\ \A b \in Builds : bldAt[b] \in {"dial", "heal", "prune", "rebuildWaits", "closing", "moving"} => bldTry[b] <= 1

LEMMA BuildTypesStep == BuildInv /\ BuildTypes /\ BuildNext => BuildTypes'
<1> SUFFICES ASSUME BuildInv, BuildTypes, BuildNext PROVE BuildTypes'
  OBVIOUS
<1> USE BuildAssumption DEF GoTo, coreVars
<1>1. ASSUME NEW b \in Builds, handleImageBuild(b) PROVE BuildTypes'
  BY <1>1 DEF handleImageBuild, BuildTypes, BuildTypeOK, BuildPoints, Repairing
<1>2. ASSUME NEW b \in Builds, Dial(b) PROVE BuildTypes'
  <2>1. PICK p \in {"solving", "failed", "hung"} : bldAt' = [bldAt EXCEPT ![b] = p]
    BY <1>2 DEF Dial
  <2> QED BY <1>2, <2>1 DEF Dial, BuildTypes, BuildTypeOK, BuildPoints, Repairing
<1>3. ASSUME NEW b \in Builds, SolveOk(b) PROVE BuildTypes'
  BY <1>3 DEF SolveOk, BuildTypes, BuildTypeOK, BuildPoints, Repairing
<1>4. ASSUME NEW b \in Builds, SolveFails(b) PROVE BuildTypes'
  BY <1>4 DEF SolveFails, BuildTypes, BuildTypeOK, BuildPoints, Repairing
<1>5. ASSUME NEW b \in Builds, SolveDangles(b) PROVE BuildTypes'
  BY <1>5 DEF SolveDangles, BuildTypes, BuildTypeOK, BuildPoints, Repairing
<1>6. ASSUME NEW b \in Builds, healAndRetryBuild(b) PROVE BuildTypes'
  <2> DEFINE rung == nextID(ladder[bldKey[b]])
             next == CASE rung = "giveUp" \/ b \in bldGone -> "failed"
                       [] rung = "prune" -> "prune"
                       [] OTHER -> "rebuildWaits"
  <2>0. next \in {"prune", "failed", "rebuildWaits"} /\ rung \in {"prune", "rebuild", "giveUp"}
    BY DEF nextID
  <2>1. PICK p \in {"prune", "failed", "rebuildWaits"} : bldAt' = [bldAt EXCEPT ![b] = p]
    BY <1>6, <2>0 DEF healAndRetryBuild
  <2>2. ladder' \in [BuildKeys -> {"none", "prune", "rebuild", "giveUp"}]
    BY <1>6, <2>0 DEF healAndRetryBuild, BuildTypes, BuildTypeOK
  <2> QED BY <1>6, <2>1, <2>2 DEF healAndRetryBuild, BuildTypes, BuildTypeOK, BuildPoints, Repairing
<1>7. ASSUME NEW b \in Builds, PruneAll(b) PROVE BuildTypes'
  <2>1. PICK p \in {"dial", "failed", "rebuildWaits"} : bldAt' = [bldAt EXCEPT ![b] = p]
    BY <1>7 DEF PruneAll
  <2>2. poison' \in [BuildKeys -> {"none", "prune", "rebuild"}]
    BY <1>7 DEF PruneAll, BuildTypes, BuildTypeOK
  <2> QED BY <1>7, <2>1, <2>2 DEF PruneAll, BuildTypes, BuildTypeOK, BuildPoints, Repairing
<1>8. ASSUME NEW b \in Builds, Rebuild(b) PROVE BuildTypes'
  <2>1. CASE core = "closed"
    BY <1>8, <2>1 DEF Rebuild, BuildTypes, BuildTypeOK, BuildPoints, Repairing
  <2>2. CASE core # "closed"
    BY <1>8, <2>2 DEF Rebuild, BuildTypes, BuildTypeOK, BuildPoints, Repairing
  <2> QED BY <2>1, <2>2
<1>9. ASSUME NEW b \in Builds, GracefulStop(b) PROVE BuildTypes'
  <2>1. mu = b /\ \A c \in Builds \ {b} : bldAt[c] \notin Repairing
    BY <1>9 DEF GracefulStop, BuildInv, RepairHoldsMu, Repairing
  <2>2. CASE bldAt' = [bldAt EXCEPT ![b] = "moving"] /\ store' = "moved" /\ mu' = mu
    BY <1>9, <2>1, <2>2 DEF GracefulStop, BuildTypes, BuildTypeOK, BuildPoints, Repairing
  <2>3. CASE bldAt' = [bldAt EXCEPT ![b] = "failed"] /\ mu' = NoBuild /\ store' = store
    BY <1>9, <2>1, <2>3 DEF GracefulStop, BuildTypes, BuildTypeOK, BuildPoints, Repairing
  <2> QED BY <1>9, <2>2, <2>3 DEF GracefulStop
<1>10. ASSUME NEW b \in Builds, newCore(b) PROVE BuildTypes'
  <2>1. mu = b /\ \A c \in Builds \ {b} : bldAt[c] \notin Repairing
    BY <1>10 DEF newCore, BuildInv, RepairHoldsMu, Repairing
  <2>2. PICK p \in {"dial", "failed"} : bldAt' = [bldAt EXCEPT ![b] = p]
    BY <1>10 DEF newCore
  <2>3. poison' \in [BuildKeys -> {"none", "prune", "rebuild"}] /\ core' \in {"open", "closed", "nil"}
    BY <1>10 DEF newCore, BuildTypes, BuildTypeOK
  <2>4. coreFails' \in Nat
    BY <1>10 DEF newCore, BuildTypes
  <2> QED BY <1>10, <2>1, <2>2, <2>3, <2>4 DEF newCore, BuildTypes, BuildTypeOK, BuildPoints, Repairing
<1>11. ASSUME Close PROVE BuildTypes'
  BY <1>11 DEF Close, BuildTypes, BuildTypeOK
<1>12. ASSUME CloseReturns PROVE BuildTypes'
  BY <1>12 DEF CloseReturns, BuildTypes, BuildTypeOK
<1>13. ASSUME NEW b \in Builds, BuildHangUp(b) PROVE BuildTypes'
  BY <1>13 DEF BuildHangUp, BuildTypes, BuildTypeOK
<1>14. ASSUME NEW k \in BuildKeys, Poison(k) PROVE BuildTypes'
  BY <1>14 DEF Poison, BuildTypes, BuildTypeOK
<1> QED
  BY <1>1, <1>2, <1>3, <1>4, <1>5, <1>6, <1>7, <1>8, <1>9, <1>10, <1>11, <1>12, <1>13, <1>14
  DEF BuildNext, BuildStep

(* A record is fresh only while a pass of the sweep is under way.           *)
LEMMA RecordTypes == RecordsTypeOK /\ RecordsNext => RecordsTypeOK'
<1> SUFFICES ASSUME RecordsTypeOK, RecordsNext PROVE RecordsTypeOK'
  OBVIOUS
<1> USE DEF RecordsTypeOK
<1>1. ASSUME NEW j \in RecordJobs, StartJob(j) \/ BuildGrace(j) PROVE RecordsTypeOK'
  BY <1>1 DEF StartJob, BuildGrace
<1>2. ASSUME NEW j \in RecordJobs, Export(j) PROVE RecordsTypeOK'
  BY <1>2 DEF Export
<1>3. ASSUME NEW j \in RecordJobs, CleanupJobBuildRecords(j) PROVE RecordsTypeOK'
  BY <1>3 DEF CleanupJobBuildRecords
<1>4. CASE sweepDeadBuildRecords
  BY <1>4 DEF sweepDeadBuildRecords
<1>5. CASE PruneDeadBuildRecords
  BY <1>5 DEF PruneDeadBuildRecords, DeadBuildRecords
<1> QED BY <1>1, <1>2, <1>3, <1>4, <1>5 DEF RecordsNext, RecordSweep

-----------------------------------------------------------------------------
(* Addresses stay addresses, and the failed calls and kills in their bounds. *)
LEMMA L2Types ==
  ASSUME L2Inv, L2TypeOK, L2Next
  PROVE  L2TypeOK'
<1>1. L2Typed'
  BY L2InvStep DEF L2Inv
<1>2. hcnErrs \in 0..MaxHcnErrs /\ kills \in 0..MaxKills
  BY DEF L2TypeOK
<1> DEFINE Bounds == hcnErrs \in 0..MaxHcnErrs /\ kills \in 0..MaxKills
<1> USE L2BridgeAssumption DEF HcnErrs
<1>3. ASSUME initL2Bridge PROVE Bounds'
  BY <1>2, <1>3 DEF initL2Bridge
<1>4. ASSUME removeL2BridgeFirewallRules \/ Killed PROVE Bounds'
  BY <1>2, <1>4 DEF removeL2BridgeFirewallRules, Killed
<1>5. ASSUME NEW e \in Endpoints, windowsSetup(e) PROVE Bounds'
  BY <1>2, <1>5 DEF windowsSetup
<1>6. ASSUME NEW e \in Endpoints, windowsOpenHostPort(e) \/ windowsTeardown(e) \/ windowsCloseHostPort(e) PROVE Bounds'
  BY <1>2, <1>6 DEF windowsOpenHostPort, windowsTeardown, windowsCloseHostPort, EndpointGoes
<1>7. Bounds'
  BY <1>3, <1>4, <1>5, <1>6 DEF L2Next
<1> QED BY <1>1, <1>7 DEF L2Typed, L2TypeOK, Addresses

(* What bags hold when rules are added to the chain or deleted from it.     *)
LEMMA BagAdds == ASSUME NEW B, NEW S PROVE BagToSet(B (+) SetToBag(S)) = BagToSet(B) \cup S
  BY DEF BagToSet, SetToBag, (+)

LEMMA BagTakes == ASSUME NEW B, NEW S PROVE BagToSet(B (-) SetToBag(S)) \subseteq BagToSet(B)
  BY DEF BagToSet, SetToBag, (-)

(* The chain's pairs are of addresses of the subnet, and attempts and failed *)
(* calls stay in their bounds.                                              *)
LEMMA JobNetTypes ==
  ASSUME JobNetInv, JobNetTypeOK, JobNetNext
  PROVE  JobNetTypeOK'
<1>1. JobNetTyped'
  BY JobNetInvStep DEF JobNetInv
<1> DEFINE Chain == BagToSet(c2cPairs) \subseteq PairsOf
           Counts == /\ setupTries \in [Attachments -> 0..SetupAttempts]
                     /\ c2cDrops \in 0..1 /\ netErrs \in 0..MaxNetErrs
<1>2. Chain /\ Counts /\ SetupAttempts \in Nat /\ MaxNetErrs \in Nat
  BY JobNetworkAssumption DEF JobNetTypeOK
<1>3. ASSUME NEW x \in Addrs, NEW ys \in SUBSET Addrs PROVE Pairs(x, ys) \subseteq PairsOf
  BY DEF Pairs, PairsOf
<1>4. \A a \in Attachments : JobOfAtt[a] \in Jobs /\ c2cJob[JobOfAtt[a]] \subseteq Addrs
  BY DEF Jobs, JobNetTypeOK
<1>5. ASSUME NEW a \in Attachments, setup(a) \/ retrySetup(a) PROVE Chain' /\ Counts'
  BY <1>2, <1>5 DEF setup, retrySetup
<1>6. ASSUME NEW a \in Attachments, ensureC2CChain(a) \/ teardownNet(a) PROVE Chain' /\ Counts'
  BY <1>2, <1>6 DEF ensureC2CChain, teardownNet
<1>7. ASSUME NEW a \in Attachments, joinJobNetwork(a) PROVE Chain' /\ Counts'
  <2> DEFINE new == Pairs(leased[a], c2cJob[JobOfAtt[a]] \ {leased[a]})
  <2>1. leased[a] \in Addrs
    BY <1>7 DEF joinJobNetwork, AttMoves, JobNetInv, LeasedOnceUp, JobNetTyped
  <2>2. new \subseteq PairsOf
    BY <1>3, <1>4, <2>1
  <2>3. \E S \in SUBSET new : c2cPairs' = c2cPairs (+) SetToBag(S)
    BY <1>7 DEF joinJobNetwork
  <2>4. Chain'
    BY <1>2, <2>2, <2>3, BagAdds
  <2>5. Counts'
    BY <1>2, <1>7 DEF joinJobNetwork
  <2> QED BY <2>4, <2>5
<1>8. ASSUME NEW a \in Attachments, leaveJobNetwork(a) PROVE Chain' /\ Counts'
  <2>1. \E S : c2cPairs' = c2cPairs (-) SetToBag(S)
    BY <1>8 DEF leaveJobNetwork
  <2>2. Chain'
    BY <1>2, <2>1, BagTakes
  <2>3. Counts'
    BY <1>2, <1>8 DEF leaveJobNetwork
  <2> QED BY <2>2, <2>3
<1>9. ASSUME Cleanup PROVE Chain' /\ Counts'
  <2>1. c2cPairs' = EmptyBag /\ Counts'
    BY <1>2, <1>9 DEF Cleanup
  <2> QED BY <2>1 DEF BagToSet, EmptyBag, SetToBag
<1>10. Chain' /\ Counts'
  BY <1>5, <1>6, <1>7, <1>8, <1>9 DEF JobNetNext, AttStep
<1> QED BY <1>1, <1>10 DEF JobNetTyped, JobNetTypeOK

-----------------------------------------------------------------------------
(* The rules that any start, job or shutdown writes, and the tables that    *)
(* can be made of them.                                                     *)
RuleEnds == {"ACCEPT", "DROP", "REJECT"} \cup Chains
KnownPorts == {Dns} \cup GatewayPorts \cup ControlPorts \cup {DindPort(c) : c \in Guests}
KnownMatches ==
  {<<k>> : k \in {"all", "from", "lo", "established", "to", "within", "denied"}}
  \cup {<<"port", q>> : q \in KnownPorts} \cup {<<"own", c>> : c \in Guests}
  \cup {<<"pair", t[1], t[2]>> : t \in Guests \X Guests}
KnownRules == {Rule(m, e) : m \in KnownMatches, e \in RuleEnds}
Tables == [Chains -> Seq(KnownRules)]

(* Every rule that is written is one of them.                               *)
LEMMA RulesKnown ==
  /\ \A r \in KnownRules : r.to \in RuleEnds
  /\ \A k \in {"all", "from", "lo", "established", "to", "within", "denied"}, e \in RuleEnds : Rule(<<k>>, e) \in KnownRules
  /\ \A q \in KnownPorts, e \in RuleEnds : Rule(<<"port", q>>, e) \in KnownRules
  /\ \A c \in Guests : Rule(<<"own", c>>, "ACCEPT") \in KnownRules /\ DindPort(c) \in KnownPorts
  /\ \A a, b \in Guests : Rule(<<"pair", a, b>>, "ACCEPT") \in KnownRules
<1>1. ASSUME NEW m \in KnownMatches, NEW e \in RuleEnds PROVE Rule(m, e) \in KnownRules
  BY DEF KnownRules
<1>2. \A r \in KnownRules : r.to \in RuleEnds
  BY DEF KnownRules, Rule
<1>3. \A k \in {"all", "from", "lo", "established", "to", "within", "denied"} : <<k>> \in KnownMatches
  BY DEF KnownMatches
<1>4. \A q \in KnownPorts : <<"port", q>> \in KnownMatches
  BY DEF KnownMatches
<1>5. \A c \in Guests : <<"own", c>> \in KnownMatches /\ DindPort(c) \in KnownPorts
  BY DEF KnownMatches, KnownPorts
<1>6. ASSUME NEW a \in Guests, NEW b \in Guests PROVE <<"pair", a, b>> \in KnownMatches
  <2>1. <<a, b>> \in Guests \X Guests
    OBVIOUS
  <2>2. <<"pair", <<a, b>>[1], <<a, b>>[2]>> \in KnownMatches
    BY <2>1 DEF KnownMatches
  <2> QED BY <2>2
<1>7. "ACCEPT" \in RuleEnds
  BY DEF RuleEnds
<1> QED BY <1>1, <1>2, <1>3, <1>4, <1>5, <1>6, <1>7

LEMMA ChainsAreEnds ==
  /\ {"ACCEPT", "DROP", "REJECT"} \subseteq RuleEnds /\ Chains \subseteq RuleEnds
  /\ {"INPUT", "FORWARD", "EPHEMERD-FORWARD", "EPHEMERD-INPUT", "EPHEMERD-DIND", "EPHEMERD-C2C"} \subseteq Chains
  BY DEF RuleEnds, Chains

(* The jumps and the terminal rules of the chains.                          *)
LEMMA JumpsKnown ==
  /\ ToDind \in KnownRules /\ ToInputChain \in KnownRules /\ CrossJobDrop \in KnownRules
  /\ FromJump \in KnownRules /\ ToJump \in KnownRules
  /\ \A c \in Guests : dindPortRules(c) \in Seq(KnownRules)
<1>1. ToDind \in KnownRules /\ ToInputChain \in KnownRules /\ CrossJobDrop \in KnownRules
  BY RulesKnown, ChainsAreEnds DEF ToDind, ToInputChain, CrossJobDrop, Jump
<1>2. FromJump \in KnownRules /\ ToJump \in KnownRules
  BY RulesKnown, ChainsAreEnds DEF FromJump, ToJump, Jump
<1>3. ASSUME NEW c \in Guests PROVE dindPortRules(c) \in Seq(KnownRules)
  <2>1. Rule(<<"own", c>>, "ACCEPT") \in KnownRules /\ Rule(<<"port", DindPort(c)>>, "DROP") \in KnownRules
    BY RulesKnown, ChainsAreEnds
  <2> QED BY <2>1 DEF dindPortRules
<1> QED BY <1>1, <1>2, <1>3

LEMMA WiderSeq ==
  ASSUME NEW A, NEW B, A \subseteq B, NEW s \in Seq(A) PROVE s \in Seq(B)
  BY ElementOfSeq, SeqDef

LEMMA PortRulesKnown ==
  ASSUME NEW S \in SUBSET (GatewayPorts \cup ControlPorts), NEW e \in RuleEnds
  PROVE  PortRules(S, e) \in Seq(KnownRules)
<1>1. IsFiniteSet(S)
  <2>1. IsFiniteSet(GatewayPorts \cup ControlPorts)
    BY FirewallAssumption, FS_Union
  <2> QED BY <2>1, FS_Subset
<1>2. PortRuleSet(S, e) \subseteq KnownRules
  <2>1. S \subseteq KnownPorts
    BY DEF KnownPorts
  <2> QED BY <2>1, RulesKnown DEF PortRuleSet
<1>3. PortRules(S, e) \in Seq(PortRuleSet(S, e))
  BY <1>1, PortRulesAre
<1> QED BY <1>2, <1>3, WiderSeq

(* What is put in front of a chain, or in its place.                        *)
LEMMA TableSet ==
  ASSUME NEW t \in Tables, NEW c \in Chains, NEW s \in Seq(KnownRules)
  PROVE  [t EXCEPT ![c] = s] \in Tables
  BY DEF Tables

LEMMA OnTopKnown ==
  ASSUME NEW t \in Tables, NEW c \in Chains, NEW r \in KnownRules
  PROVE  OnTop(t, c, r) \in Tables /\ OnTopOnce(t, c, r) \in Tables
<1>1. t[c] \in Seq(KnownRules)
  BY DEF Tables
<1>2. <<r>> \o t[c] \in Seq(KnownRules)
  BY <1>1
<1>3. OnTop(t, c, r) = [t EXCEPT ![c] = <<r>> \o t[c]]
  BY DEF OnTop
<1>4. OnTop(t, c, r) \in Tables
  BY <1>2, <1>3, TableSet
<1> QED BY <1>4 DEF OnTopOnce

LEMMA EnsureKnown == ASSUME NEW t \in Tables PROVE ensureDindChain(t) \in Tables
  BY OnTopKnown, JumpsKnown, ChainsAreEnds DEF ensureDindChain

(* A rule is deleted from the chain of the jobs' daemons.                   *)
LEMMA WithoutKnown ==
  ASSUME NEW t \in Tables, NEW r
  PROVE  Without(t, "EPHEMERD-DIND", r) \in Tables
<1> DEFINE s == t["EPHEMERD-DIND"]
           m == {i \in DOMAIN s : s[i] = r}
<1>1. CASE ~Has(t, "EPHEMERD-DIND", r)
  BY <1>1 DEF Without
<1>2. CASE Has(t, "EPHEMERD-DIND", r)
  <2>1. Without(t, "EPHEMERD-DIND", r) = [t EXCEPT !["EPHEMERD-DIND"] = RemoveAt(s, Min(m))]
    BY <1>2 DEF Without
  <2>2. m # {} /\ s \in Seq(KnownRules)
    BY <1>2, ChainsAreEnds DEF Has, Tables
  <2>3. m \subseteq 1..Len(s) /\ Len(s) \in Nat
    BY <2>2
  <2> HIDE DEF m, s
  <2>4. Min(m) \in 1..Len(s)
    <3>1. m \subseteq Nat
      BY <2>3
    <3> QED BY <2>2, <2>3, <3>1, LeastOf
  <2>5. RemoveAt(s, Min(m)) \in Seq(KnownRules)
    <3> DEFINE k == Min(m)
    <3> HIDE DEF k
    <3>1. SubSeq(s, 1, k - 1) \in Seq(KnownRules) /\ SubSeq(s, k + 1, Len(s)) \in Seq(KnownRules)
      BY <2>2, <2>3, <2>4 DEF k
    <3>2. RemoveAt(s, k) \in Seq(KnownRules)
      BY <3>1, ConcatProperties DEF RemoveAt
    <3> QED BY <3>2 DEF k
  <2> QED BY <2>1, <2>5, TableSet, ChainsAreEnds
<1> QED BY <1>1, <1>2

(* What a start of the daemon writes, block by block.                       *)
LEMMA ForwardKnown ==
  ASSUME NEW S \in SUBSET GatewayPorts
  PROVE  forwardRules(S) \in Seq(KnownRules) /\ containerInputRules(S) \in Seq(KnownRules)
<1>1. Dns \in KnownPorts
  BY DEF KnownPorts
<1>2. /\ Rule(<<"established">>, "ACCEPT") \in KnownRules /\ Rule(<<"port", Dns>>, "ACCEPT") \in KnownRules
      /\ Jump(<<"within">>, "EPHEMERD-C2C") \in KnownRules /\ Rule(<<"denied">>, "REJECT") \in KnownRules
      /\ Rule(<<"all">>, "ACCEPT") \in KnownRules /\ Rule(<<"lo">>, "ACCEPT") \in KnownRules
      /\ Rule(<<"all">>, "DROP") \in KnownRules
  BY <1>1, RulesKnown, ChainsAreEnds DEF Jump
<1>3. PortRules(S, "ACCEPT") \in Seq(KnownRules) /\ PortRules(S \ ControlPorts, "ACCEPT") \in Seq(KnownRules)
  BY PortRulesKnown, ChainsAreEnds
<1>4. <<Rule(<<"established">>, "ACCEPT"), Rule(<<"port", Dns>>, "ACCEPT")>> \in Seq(KnownRules)
  BY <1>2
<1>5. <<Jump(<<"within">>, "EPHEMERD-C2C"), Rule(<<"denied">>, "REJECT"), Rule(<<"all">>, "ACCEPT")>> \in Seq(KnownRules)
  BY <1>2
<1>6. <<Rule(<<"lo">>, "ACCEPT"), Rule(<<"established">>, "ACCEPT"), Rule(<<"port", Dns>>, "ACCEPT")>> \in Seq(KnownRules)
  BY <1>2
<1>7. <<Rule(<<"all">>, "DROP")>> \in Seq(KnownRules)
  BY <1>2
<1>8. forwardRules(S) \in Seq(KnownRules)
  BY <1>3, <1>4, <1>5, ConcatProperties DEF forwardRules
<1>9. containerInputRules(S) \in Seq(KnownRules)
  BY <1>3, <1>6, <1>7, ConcatProperties DEF containerInputRules
<1> QED BY <1>8, <1>9

LEMMA InstalledKnown ==
  ASSUME table \in Tables, inTable \subseteq GatewayPorts, NEW k \in 1..8
  PROVE  Installed(k) \in Tables
<1> USE ChainsAreEnds
<1> DEFINE none == <<>>
<1>0. none \in Seq(KnownRules) /\ \A c \in Chains : table[c] \in Seq(KnownRules)
  BY DEF Tables
<1>1. CASE k = 1
  <2>1. Installed(k) = [table EXCEPT !["EPHEMERD-FORWARD"] = none]
    BY <1>1 DEF Installed
  <2> HIDE DEF none
  <2>2. [table EXCEPT !["EPHEMERD-FORWARD"] = none] \in Tables
    BY <1>0, TableSet
  <2> QED BY <2>1, <2>2
<1>2. CASE k = 2
  <2>1. Jump(<<"from">>, "EPHEMERD-FORWARD") \in KnownRules
    BY JumpsKnown DEF FromJump
  <2> QED BY <1>2, <2>1, OnTopKnown DEF Installed
<1>3. CASE k = 3
  <2>1. Jump(<<"to">>, "EPHEMERD-FORWARD") \in KnownRules
    BY JumpsKnown DEF ToJump
  <2> QED BY <1>3, <2>1, OnTopKnown DEF Installed
<1>4. CASE k = 4
  BY <1>4, EnsureKnown DEF Installed
<1>5. CASE k = 5
  <2>1. <<CrossJobDrop>> \in Seq(KnownRules)
    BY JumpsKnown
  <2>2. Installed(k) = [[table EXCEPT !["EPHEMERD-DIND"] = none] EXCEPT !["EPHEMERD-C2C"] = <<CrossJobDrop>>]
    BY <1>5 DEF Installed
  <2> HIDE DEF none
  <2>3. [table EXCEPT !["EPHEMERD-DIND"] = none] \in Tables
    BY <1>0, TableSet
  <2> QED BY <2>1, <2>2, <2>3, TableSet
<1>6. CASE k = 6
  <2>1. table["EPHEMERD-FORWARD"] \o forwardRules(inTable) \in Seq(KnownRules)
    BY <1>0, ForwardKnown, ConcatProperties
  <2>2. Installed(k) = [table EXCEPT !["EPHEMERD-FORWARD"] = table["EPHEMERD-FORWARD"] \o forwardRules(inTable)]
    BY <1>6 DEF Installed
  <2> QED BY <2>1, <2>2, TableSet
<1>7. CASE k = 7
  <2>1. [table EXCEPT !["EPHEMERD-INPUT"] = containerInputRules(inTable)] \in Tables
    BY ForwardKnown, TableSet
  <2>2. Installed(k) = installContainerInputChain(table)
    BY <1>7 DEF Installed
  <2> QED BY <2>1, <2>2, OnTopKnown, JumpsKnown DEF installContainerInputChain
<1>8. CASE k = 8
  <2> DEFINE absent == {q \in ControlPorts : ~Has(table, "INPUT", Rule(<<"port", q>>, "DROP"))}
  <2>1. controlPlaneInputRules(absent) \in Seq(KnownRules)
    BY PortRulesKnown DEF controlPlaneInputRules
  <2>2. Installed(k) = [table EXCEPT !["INPUT"] = controlPlaneInputRules(absent) \o table["INPUT"]]
    BY <1>8 DEF Installed
  <2> HIDE DEF absent
  <2>3. controlPlaneInputRules(absent) \o table["INPUT"] \in Seq(KnownRules)
    BY <1>0, <2>1, ConcatProperties
  <2> QED BY <2>2, <2>3, TableSet
<1> QED BY <1>1, <1>2, <1>3, <1>4, <1>5, <1>6, <1>7, <1>8

FwTypes == FwInv /\ table \in Tables /\ starts \in 0..MaxStarts

(* No start, death, job or shutdown writes any other rule.                  *)
LEMMA FwTypesStep == FwTypes /\ FwNext => FwTypes'
<1> SUFFICES ASSUME FwTypes, FwNext PROVE FwTypes'
  OBVIOUS
<1>1. FwInv'
  BY FwKept DEF FwTypes
<1>2. table \in Tables /\ inTable \subseteq GatewayPorts /\ starts \in 0..MaxStarts /\ MaxStarts \in Nat
  BY FirewallAssumption DEF FwTypes, FwInv, FwTyped
<1>3. starts' \in 0..MaxStarts
  <2>1. starts' = starts \/ (starts < MaxStarts /\ starts' = starts + 1)
    BY DEF FwNext, StartDaemon, installFirewallRules, Dies, removeFirewallRules, openHostPort, closeHostPort,
       c2cPairRules
  <2> QED BY <1>2, <2>1
<1>4. ASSUME StartDaemon \/ Dies PROVE table' \in Tables
  BY <1>2, <1>4 DEF StartDaemon, Dies
<1>5. ASSUME installFirewallRules PROVE table' \in Tables
  BY <1>2, <1>5, InstalledKnown DEF installFirewallRules
<1>6. ASSUME removeFirewallRules PROVE table' \in Tables
  BY <1>6 DEF removeFirewallRules, Tables
<1>7. ASSUME NEW c \in Guests, openHostPort(c) PROVE table' \in Tables
  <2> DEFINE t == ensureDindChain(table)
  <2>1. t \in Tables
    BY <1>2, EnsureKnown
  <2>2. table' = t \/ table' = [t EXCEPT !["EPHEMERD-DIND"] = t["EPHEMERD-DIND"] \o dindPortRules(c)]
    BY <1>7 DEF openHostPort
  <2> HIDE DEF t
  <2>3. t["EPHEMERD-DIND"] \o dindPortRules(c) \in Seq(KnownRules)
    BY <2>1, JumpsKnown, ChainsAreEnds, ConcatProperties DEF Tables
  <2> QED BY <2>1, <2>2, <2>3, TableSet, ChainsAreEnds
<1>8. ASSUME NEW c \in Guests, closeHostPort(c) PROVE table' \in Tables
  <2>1. table' = Without(Without(table, "EPHEMERD-DIND", dindPortRules(c)[1]), "EPHEMERD-DIND", dindPortRules(c)[2])
    BY <1>8 DEF closeHostPort
  <2>2. Without(table, "EPHEMERD-DIND", dindPortRules(c)[1]) \in Tables
    BY <1>2, WithoutKnown
  <2> QED BY <2>1, <2>2, WithoutKnown
<1>9. ASSUME NEW t \in Twins, c2cPairRules(t[1], t[2]) PROVE table' \in Tables
  <2>1. t[1] \in Guests /\ t[2] \in Guests
    BY FirewallAssumption
  <2>2. Rule(<<"pair", t[1], t[2]>>, "ACCEPT") \in KnownRules /\ Rule(<<"pair", t[2], t[1]>>, "ACCEPT") \in KnownRules
    BY <2>1, RulesKnown
  <2>3. OnTop(table, "EPHEMERD-C2C", Rule(<<"pair", t[1], t[2]>>, "ACCEPT")) \in Tables
    BY <1>2, <2>2, OnTopKnown, ChainsAreEnds
  <2>4. table' = OnTop(OnTop(table, "EPHEMERD-C2C", Rule(<<"pair", t[1], t[2]>>, "ACCEPT")), "EPHEMERD-C2C",
                       Rule(<<"pair", t[2], t[1]>>, "ACCEPT"))
    BY <1>9 DEF c2cPairRules
  <2> QED BY <2>2, <2>3, <2>4, OnTopKnown, ChainsAreEnds
<1>10. table' \in Tables
  BY <1>4, <1>5, <1>6, <1>7, <1>8, <1>9 DEF FwNext
<1> QED BY <1>1, <1>3, <1>10 DEF FwTypes

LEMMA FwTypesHold == FwTypes => FwTypeOK
<1> SUFFICES ASSUME FwTypes PROVE FwTypeOK
  OBVIOUS
<1>1. table \in Tables /\ FwTyped /\ starts \in 0..MaxStarts
  BY DEF FwTypes, FwInv
<1>2. ASSUME NEW c \in Chains, NEW i \in DOMAIN table[c] PROVE table[c][i].to \in RuleEnds
  <2>1. table[c] \in Seq(KnownRules)
    BY <1>1 DEF Tables
  <2>2. table[c][i] \in KnownRules
    BY <2>1
  <2> QED BY <2>2, RulesKnown
<1> QED BY <1>1, <1>2 DEF FwTyped, FwTypeOK, RuleEnds

-----------------------------------------------------------------------------
(* Every component of the node keeps its type, with what its own invariant  *)
(* adds where the type is not inductive by itself.                          *)
ContainersTypes ==
  /\ focus = "runtime" => RuntimeTypeOK
  /\ focus = "dispatch" => DispatchTypeOK
  /\ focus = "networks" => NetworksTypeOK
  /\ focus = "binds" => StageTypes
  /\ focus = "walk" => WalkInv /\ BindWalkTypeOK
  /\ focus = "build" => BuildTypes
  /\ focus = "records" => RecordsTypeOK
  /\ focus = "jobnet" => JobNetTypeOK
  /\ focus = "firewall" => FwTypes
  /\ focus = "l2bridge" => L2TypeOK

ContainersTyped == DaemonInv /\ RemoteInv /\ BuildsInv /\ BridgesInv /\ ContainersTypes

(* The first state is of its type, whichever component is in focus.         *)
LEMMA ContainersTypesStart == ContainersStart => ContainersTypes
<1> SUFFICES ASSUME ContainersStart PROVE ContainersTypes
  OBVIOUS
<1> USE DEF ContainersStart, ContainersInit
<1>1. RuntimeTypeOK
  BY RuntimeAssumption DEF RuntimeInit, RuntimeTypeOK, CallerAt, Creating, WorkerAt, SweeperAt, TaskState
<1>2. DispatchTypeOK
  <2>1. DispatchInit /\ 0 \in 0..MaxRpcFaults /\ 0 \in 0..3
    BY DispatchAssumption
  <2>2. released \in [Runners -> 0..3] /\ rpcFaults \in 0..MaxRpcFaults
    BY <2>1 DEF DispatchInit
  <2>3. \A S \in {dTracked, dSlots, jobCancelled, envs, samplers, known, victims, completed} : S \subseteq Runners
    BY <2>1 DEF DispatchInit
  <2> QED BY <2>1, <2>2, <2>3 DEF DispatchInit, DispatchTypeOK
<1>3. NetworksTypeOK
  BY NetworksAssumption DEF NetworksInit, NetworksTypeOK, Ids, Names, NotIn
<1>4. StageTypes
  BY BindStageAssumption DEF BindStageInit, StageTypes, BindStageTypeOK, SweepPoints
<1>5. WalkInv /\ BindWalkTypeOK
  BY BindWalkAssumption DEF BindWalkInit, WalkInv, BindWalkTypeOK
<1>6. BuildTypes
  <2>1. NoBuild \notin Builds /\ \A b \in Builds : bldAt[b] = "idle" /\ bldTry[b] = 0
    BY BuildAssumption DEF BuildInit
  <2>2. BuildTypeOK
    BY <2>1 DEF BuildInit, BuildTypeOK, BuildPoints, Repairing
  <2> QED BY <2>1, <2>2 DEF BuildInit, BuildTypes
<1>7. RecordsTypeOK
  BY DEF RecordsInit, RecordsTypeOK
<1>8. JobNetTypeOK
  <2>1. BagToSet(c2cPairs) \subseteq PairsOf
    BY DEF JobNetInit, BagToSet, EmptyBag, SetToBag
  <2> QED BY <2>1, JobNetworkAssumption DEF JobNetInit, JobNetTypeOK, AttPhases
<1>9. FwTypes
  <2>1. table \in Tables /\ starts \in 0..MaxStarts
    BY FirewallAssumption DEF FwInit, Tables
  <2> QED BY <2>1, FwStarts DEF FwTypes
<1>10. L2TypeOK
  BY L2BridgeAssumption DEF L2Init, L2TypeOK
<1> QED BY <1>1, <1>2, <1>3, <1>4, <1>5, <1>6, <1>7, <1>8, <1>9, <1>10 DEF ContainersTypes

(* A step of the node is one of the component in focus.                    *)
LEMMA ContainersTypesStep ==
  ContainersTyped /\ [ContainersNext]_<<focus, containersVars>> => ContainersTypes'
<1> SUFFICES ASSUME ContainersTyped, [ContainersNext]_<<focus, containersVars>> PROVE ContainersTypes'
  OBVIOUS
<1>0. focus' = focus
  BY DEF ContainersNext
<1>1. ASSUME focus = "runtime" PROVE RuntimeTypeOK'
  <2>1. [RuntimeNext]_runtimeVars
    BY <1>1 DEF ContainersNext, ContainersMoves, containersVars
  <2> QED BY <1>1, <2>1, TypeStep DEF ContainersTyped, ContainersTypes
<1>2. ASSUME focus = "dispatch" PROVE DispatchTypeOK'
  <2>1. DispatchNext \/ UNCHANGED dispatchVars
    BY <1>2 DEF ContainersNext, ContainersMoves, containersVars
  <2>2. DispatchInv /\ DispatchTypeOK
    BY <1>2 DEF ContainersTyped, ContainersTypes, RemoteInv
  <2>3. CASE UNCHANGED dispatchVars
    BY <2>2, <2>3 DEF dispatchVars, workerVars, statVars, DispatchTypeOK
  <2> QED BY <2>1, <2>2, <2>3, DispatchTypes
<1>3. ASSUME focus = "networks" PROVE NetworksTypeOK'
  <2>1. NetworksNext \/ UNCHANGED netVars
    BY <1>3 DEF ContainersNext, ContainersMoves, containersVars
  <2>2. NetsInv /\ NetworksTypeOK
    BY <1>3 DEF ContainersTyped, ContainersTypes, DaemonInv
  <2>3. CASE UNCHANGED netVars
    BY <2>2, <2>3 DEF netVars, NetworksTypeOK
  <2> QED BY <2>1, <2>2, <2>3, NetworksTypes
<1>4. ASSUME focus = "binds" PROVE StageTypes'
  <2>1. BindStageNext \/ UNCHANGED stageVars
    BY <1>4 DEF ContainersNext, ContainersMoves, containersVars
  <2>2. StageTypes
    BY <1>4 DEF ContainersTyped, ContainersTypes
  <2>3. CASE UNCHANGED stageVars
    BY <2>2, <2>3 DEF stageVars, sweeps, StageTypes, BindStageTypeOK
  <2> QED BY <2>1, <2>2, <2>3, StageTypesStep
<1>5. ASSUME focus = "walk" PROVE WalkInv' /\ BindWalkTypeOK'
  <2>1. BindWalkNext \/ UNCHANGED walkVars
    BY <1>5 DEF ContainersNext, ContainersMoves, containersVars
  <2>2. WalkInv /\ BindWalkTypeOK
    BY <1>5 DEF ContainersTyped, ContainersTypes
  <2>3. CASE UNCHANGED walkVars
    BY <2>2, <2>3 DEF walkVars, WalkInv, BindWalkTypeOK
  <2> QED BY <2>1, <2>2, <2>3, WalkTypes, WalkInvStep
<1>6. ASSUME focus = "build" PROVE BuildTypes'
  <2>1. BuildNext \/ UNCHANGED buildVars
    BY <1>6 DEF ContainersNext, ContainersMoves, containersVars
  <2>2. BuildInv /\ BuildTypes
    BY <1>6 DEF ContainersTyped, ContainersTypes, BuildsInv
  <2>3. CASE UNCHANGED buildVars
    BY <2>2, <2>3 DEF buildVars, coreVars, BuildTypes, BuildTypeOK
  <2> QED BY <2>1, <2>2, <2>3, BuildTypesStep
<1>7. ASSUME focus = "records" PROVE RecordsTypeOK'
  <2>1. RecordsNext \/ UNCHANGED recordVars
    BY <1>7 DEF ContainersNext, ContainersMoves, containersVars
  <2>2. RecordsTypeOK
    BY <1>7 DEF ContainersTyped, ContainersTypes
  <2>3. CASE UNCHANGED recordVars
    BY <2>2, <2>3 DEF recordVars, RecordsTypeOK
  <2> QED BY <2>1, <2>2, <2>3, RecordTypes
<1>8. ASSUME focus = "jobnet" PROVE JobNetTypeOK'
  <2>1. JobNetNext \/ UNCHANGED jobNetVars
    BY <1>8 DEF ContainersNext, ContainersMoves, containersVars
  <2>2. JobNetInv /\ JobNetTypeOK
    BY <1>8 DEF ContainersTyped, ContainersTypes, BridgesInv
  <2>3. CASE UNCHANGED jobNetVars
    BY <2>2, <2>3 DEF jobNetVars, JobNetTypeOK, BagToSet
  <2> QED BY <2>1, <2>2, <2>3, JobNetTypes
<1>9. ASSUME focus = "firewall" PROVE FwTypes'
  <2>1. FwNext \/ UNCHANGED fwVars
    BY <1>9 DEF ContainersNext, ContainersMoves, containersVars
  <2>2. FwTypes
    BY <1>9 DEF ContainersTyped, ContainersTypes
  <2>3. ASSUME UNCHANGED fwVars PROVE FwTypes'
    <3>1. FwInv'
      BY <2>2, <2>3, FwKept DEF FwTypes
    <3> QED BY <2>2, <2>3, <3>1 DEF fwVars, FwTypes
  <2> QED BY <2>1, <2>2, <2>3, FwTypesStep
<1>10. ASSUME focus = "l2bridge" PROVE L2TypeOK'
  <2>1. L2Next \/ UNCHANGED l2Vars
    BY <1>10 DEF ContainersNext, ContainersMoves, containersVars
  <2>2. L2Inv /\ L2TypeOK
    BY <1>10 DEF ContainersTyped, ContainersTypes, BridgesInv
  <2>3. CASE UNCHANGED l2Vars
    BY <2>2, <2>3 DEF l2Vars, L2TypeOK
  <2> QED BY <2>1, <2>2, <2>3, L2Types
<1> QED BY <1>0, <1>1, <1>2, <1>3, <1>4, <1>5, <1>6, <1>7, <1>8, <1>9, <1>10 DEF ContainersTypes

(* For any sizes of the node's parts and any sequence of their steps: the   *)
(* state of every component is of its type, its counters within their       *)
(* bounds and its tables over what the node knows.                          *)
THEOREM ContainersTypesHold == ContainersSpec => []ContainersTypeOK
<1>1. ContainersStart => ContainersTyped
  BY DaemonStart, RemoteStart, BuildsStart, BridgesStart, ContainersTypesStart DEF ContainersTyped
<1>2. ContainersTyped /\ [ContainersNext]_<<focus, containersVars>> => ContainersTyped'
  BY DaemonInvStep, RemoteInvStep, BuildsInvStep, BridgesInvStep, ContainersTypesStep DEF ContainersTyped
<1>3. ContainersTyped => ContainersTypeOK
  BY FwTypesHold DEF ContainersTyped, ContainersTypes, ContainersTypeOK, DaemonInv, DindInv, RemoteInv, VmInv,
     StageTypes, BuildTypes
<1> QED BY <1>1, <1>2, <1>3, PTL DEF ContainersSpec
=============================================================================
