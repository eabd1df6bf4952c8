---------------------------- MODULE RuntimeProofs ----------------------------
(***************************************************************************)
(* The safety of the container runtime, for any number of environments and *)
(* any number of restarts and failed sweeper calls.  Three properties are  *)
(* about the sweeper and none of them is inductive: it acts on a list, a   *)
(* keep set or a look at a task that may be stale, and what makes it right *)
(* is which of Create's and Destroy's steps can come between the look and  *)
(* the act.                                                                *)
(***************************************************************************)
EXTENDS Runtime, TLAPS

\* Destroy's worker exists from the moment its caller waits, and not before.
WorkerInv ==
  \A e \in Envs :
    /\ worker[e] # "none" => at[e] \in {"destroy", "over"}
    /\ at[e] = "destroy" => worker[e] # "none"

\* The points of Create, of its caller and of Destroy's worker at which the
\* job's daemon serves.
DaemonServes ==
  \A e \in dindUp :
    \/ at[e] \in {"winnet", "container", "task", "net", "start", "run"}
    \/ at[e] \in {"destroy", "over"} /\ worker[e] \in {"kill", "delete", "net", "dind"}

\* The points at which the job is attached to the network.
NetInv ==
  \A e \in Envs :
    /\ at[e] \in {"start", "run"} => e \in net
    /\ windows /\ at[e] \in {"container", "task"} => e \in net

\* What Create knows of its container, and what the reaper knows of the one it
\* looks at.  A dead task can only come to life at one point of Create, and the
\* grace keeps the reaper from looking then; from there on the container's own
\* presence, or Destroy's worker, keeps Create from getting to that point.
ReapInv ==
  /\ \A e \in Envs :
       /\ at[e] = "winnet" => windows
       /\ at[e] = "task" => task[e] = "none" /\ e \notin old
       /\ at[e] \in {"net", "start"} => task[e] = "created"
  /\ sweepAt \in {"seen", "teardown"} =>
       /\ cand \in Envs
       /\ task[cand] \in {"none", "stopped"}
       /\ at[cand] \notin {"task", "net", "start"}
       /\ cand \in conts \/ worker[cand] # "none"

\* What a pass knows of the attempts it must spare: before its look at the
\* provisioning set they are in the list or in the set, after it they are in
\* the keep set.
PassInv ==
  /\ \A e \in since : Intact(e)
  /\ sweepAt = "listed" => since \subseteq live \cup prov
  /\ sweepAt \in {"dirs", "work", "snaps"} => since \subseteq live
  /\ sweepAt \notin {"listed", "dirs", "work", "snaps"} => since = {}

\* The sweeper, a runner's exit and the grace touch nothing of Create and
\* Destroy, neither the network nor the daemons.
LEMMA SweeperFrame ==
  ASSUME UNCHANGED runtimeVars \/ SweeperStep \/ (\E e \in Envs : TaskExits(e) \/ GracePasses(e))
  PROVE  UNCHANGED <<windows, at, worker, prov, dindUp, net>>
<1>1. CASE UNCHANGED runtimeVars
  BY <1>1 DEF runtimeVars, owner
<1>2. CASE SweeperStep
  BY <1>2 DEF SweeperStep, ListContainers, ListFails, addProvisioning, SweepDirs,
     CleanOrphanJobDirs, SweepSnapshots, ReapList, ReapDone, AskProvisioning, Reap,
     ReapFails, ReadTask, ReadFails, owner
<1>3. CASE \E e \in Envs : TaskExits(e) \/ GracePasses(e)
  BY <1>3 DEF TaskExits, GracePasses, owner
<1> QED BY <1>1, <1>2, <1>3

\* The type invariant is inductive by itself.
LEMMA TypeStep ==
  ASSUME RuntimeTypeOK, [RuntimeNext]_runtimeVars
  PROVE  RuntimeTypeOK'
<1> USE DEF disk, ctrd, owner, sweeper, RuntimeTypeOK, CallerAt, Creating, WorkerAt,
   SweeperAt, TaskState
<1>1. CASE UNCHANGED runtimeVars
  BY <1>1 DEF runtimeVars
<1>2. ASSUME NEW e \in Envs, CreateStep(e) PROVE RuntimeTypeOK'
  <2>1. CASE Create(e)
    BY <2>1, RuntimeAssumption DEF Create
  <2>2. CASE HasImage(e)
    BY <2>2, RuntimeAssumption DEF HasImage, Move
  <2>3. CASE prepareJobRunnerTree(e)
    BY <2>3, RuntimeAssumption DEF prepareJobRunnerTree, Move
  <2>4. CASE StartDind(e)
    BY <2>4, RuntimeAssumption DEF StartDind, Move
  <2>5. CASE SetupNetwork(e)
    BY <2>5, RuntimeAssumption DEF SetupNetwork, Move
  <2>6. CASE NewContainer(e)
    BY <2>6, RuntimeAssumption DEF NewContainer, Move
  <2>7. CASE NewTask(e)
    BY <2>7, RuntimeAssumption DEF NewTask, Move, SetTask
  <2>8. CASE StartTask(e)
    BY <2>8, RuntimeAssumption DEF StartTask, Move, SetTask
  <2>9. CASE CreateContextEnds(e)
    BY <2>9, RuntimeAssumption DEF CreateContextEnds
  <2>10. CASE EarlyExit(e)
    BY <2>10, RuntimeAssumption DEF EarlyExit, Deferred, DirAfter, Move
  <2>11. CASE NetworkExit(e)
    BY <2>11, RuntimeAssumption DEF NetworkExit, Deferred, DirAfter, Move, Undo
  <2>12. CASE RunnerIPExit(e)
    BY <2>12, RuntimeAssumption DEF RunnerIPExit, Deferred, DirAfter, Move, Undo
  <2>13. CASE ContainerExit(e)
    BY <2>13, RuntimeAssumption DEF ContainerExit, Deferred, DirAfter, Move, Undo
  <2>14. CASE LogDirExit(e)
    BY <2>14, RuntimeAssumption DEF LogDirExit, Deferred, DirAfter, Move
  <2>15. CASE TaskExit(e)
    BY <2>15, RuntimeAssumption DEF TaskExit, Deferred, DirAfter, Move, Undo
  <2>16. CASE StartExit(e)
    BY <2>16, RuntimeAssumption DEF StartExit, Deferred, DirAfter, Move, Undo
  <2> QED BY <1>2, <2>1, <2>2, <2>3, <2>4, <2>5, <2>6, <2>7, <2>8, <2>9, <2>10, <2>11,
     <2>12, <2>13, <2>14, <2>15, <2>16 DEF CreateStep
<1>3. ASSUME NEW e \in Envs, DestroyStep(e) PROVE RuntimeTypeOK'
  <2>1. CASE Destroy(e)
    BY <2>1, RuntimeAssumption DEF Destroy, Move
  <2>2. CASE DestroyReturns(e)
    BY <2>2, RuntimeAssumption DEF DestroyReturns, Move
  <2>3. CASE DestroyKill(e)
    BY <2>3, RuntimeAssumption DEF DestroyKill, Step, SetTask
  <2>4. CASE DestroyTask(e)
    BY <2>4, RuntimeAssumption DEF DestroyTask, Step, SetTask
  <2>5. CASE DestroyNet(e)
    BY <2>5, RuntimeAssumption DEF DestroyNet, Step
  <2>6. CASE DestroyDind(e)
    BY <2>6, RuntimeAssumption DEF DestroyDind, Step
  <2>7. CASE DestroyContainer(e)
    BY <2>7, RuntimeAssumption DEF DestroyContainer, Step
  <2>8. CASE DestroyDir(e)
    BY <2>8, RuntimeAssumption DEF DestroyDir, Step
  <2>9. CASE DestroyWork(e)
    BY <2>9, RuntimeAssumption DEF DestroyWork, Step
  <2> QED BY <1>3, <2>1, <2>2, <2>3, <2>4, <2>5, <2>6, <2>7, <2>8, <2>9 DEF DestroyStep
<1>4. CASE SweeperStep
  <2>1. CASE ListContainers
    BY <2>1, RuntimeAssumption DEF ListContainers, InFlight
  <2>2. CASE ListFails
    BY <2>2, RuntimeAssumption DEF ListFails, CallFails
  <2>3. CASE addProvisioning
    BY <2>3, RuntimeAssumption DEF addProvisioning
  <2>4. CASE SweepDirs
    BY <2>4, RuntimeAssumption DEF SweepDirs, Swept, CallFails
  <2>5. CASE CleanOrphanJobDirs
    BY <2>5, RuntimeAssumption DEF CleanOrphanJobDirs, Swept, CallFails
  <2>6. CASE SweepSnapshots
    BY <2>6, RuntimeAssumption DEF SweepSnapshots, Swept, CallFails
  <2>7. CASE ReapList
    BY <2>7, RuntimeAssumption DEF ReapList, CallFails
  <2>8. CASE ReapDone
    BY <2>8, RuntimeAssumption DEF ReapDone
  <2>9. CASE AskProvisioning
    BY <2>9, RuntimeAssumption DEF AskProvisioning
  <2>10. CASE Reap
    BY <2>10, RuntimeAssumption DEF Reap, SetTask
  <2>11. CASE ReapFails
    BY <2>11, RuntimeAssumption DEF ReapFails, CallFails
  <2>12. ASSUME NEW e \in Envs, ReadTask(e) \/ ReadFails(e) PROVE RuntimeTypeOK'
    <3>1. CASE ReadTask(e)
      BY <3>1, RuntimeAssumption DEF ReadTask, dead
    <3>2. CASE ReadFails(e)
      BY <3>2, RuntimeAssumption DEF ReadFails, CallFails
    <3> QED BY <2>12, <3>1, <3>2
  <2> QED BY <1>4, <2>1, <2>2, <2>3, <2>4, <2>5, <2>6, <2>7, <2>8, <2>9, <2>10, <2>11,
     <2>12 DEF SweeperStep
<1>5. ASSUME NEW e \in Envs, TaskExits(e) \/ GracePasses(e) PROVE RuntimeTypeOK'
  <2>1. CASE TaskExits(e)
    BY <2>1, RuntimeAssumption DEF TaskExits, SetTask
  <2>2. CASE GracePasses(e)
    BY <2>2, RuntimeAssumption DEF GracePasses
  <2> QED BY <1>5, <2>1, <2>2
<1>6. CASE Restart
  BY <1>6, RuntimeAssumption DEF Restart
<1> QED BY <1>1, <1>2, <1>3, <1>4, <1>5, <1>6 DEF RuntimeNext

\* Only Destroy starts a worker, and Create does not begin beside one.
LEMMA WorkerStep ==
  ASSUME RuntimeTypeOK, WorkerInv, [RuntimeNext]_runtimeVars
  PROVE  WorkerInv'
<1> USE DEF disk, ctrd, owner, sweeper, WorkerInv, RuntimeTypeOK, CallerAt, Creating,
   WorkerAt
<1>1. CASE UNCHANGED runtimeVars \/ SweeperStep \/ (\E e \in Envs : TaskExits(e) \/ GracePasses(e))
  BY <1>1, SweeperFrame
<1>2. ASSUME NEW e \in Envs, CreateStep(e) PROVE WorkerInv'
  <2>1. CASE Create(e)
    BY <2>1 DEF Create
  <2>2. CASE HasImage(e)
    BY <2>2 DEF HasImage, Move
  <2>3. CASE prepareJobRunnerTree(e)
    BY <2>3 DEF prepareJobRunnerTree, Move
  <2>4. CASE StartDind(e)
    BY <2>4 DEF StartDind, Move
  <2>5. CASE SetupNetwork(e)
    BY <2>5 DEF SetupNetwork, Move
  <2>6. CASE NewContainer(e)
    BY <2>6 DEF NewContainer, Move
  <2>7. CASE NewTask(e)
    BY <2>7 DEF NewTask, Move, SetTask
  <2>8. CASE StartTask(e)
    BY <2>8 DEF StartTask, Move, SetTask
  <2>9. CASE CreateContextEnds(e)
    BY <2>9 DEF CreateContextEnds
  <2>10. CASE EarlyExit(e)
    BY <2>10 DEF EarlyExit, Deferred, DirAfter, Move
  <2>11. CASE NetworkExit(e)
    BY <2>11 DEF NetworkExit, Deferred, DirAfter, Move, Undo
  <2>12. CASE RunnerIPExit(e)
    BY <2>12 DEF RunnerIPExit, Deferred, DirAfter, Move, Undo
  <2>13. CASE ContainerExit(e)
    BY <2>13 DEF ContainerExit, Deferred, DirAfter, Move, Undo
  <2>14. CASE LogDirExit(e)
    BY <2>14 DEF LogDirExit, Deferred, DirAfter, Move
  <2>15. CASE TaskExit(e)
    BY <2>15 DEF TaskExit, Deferred, DirAfter, Move, Undo
  <2>16. CASE StartExit(e)
    BY <2>16 DEF StartExit, Deferred, DirAfter, Move, Undo
  <2> QED BY <1>2, <2>1, <2>2, <2>3, <2>4, <2>5, <2>6, <2>7, <2>8, <2>9, <2>10, <2>11,
     <2>12, <2>13, <2>14, <2>15, <2>16 DEF CreateStep
<1>3. ASSUME NEW e \in Envs, DestroyStep(e) PROVE WorkerInv'
  <2>1. CASE Destroy(e)
    BY <2>1 DEF Destroy, Move
  <2>2. CASE DestroyReturns(e)
    BY <2>2 DEF DestroyReturns, Move
  <2>3. CASE DestroyKill(e)
    BY <2>3 DEF DestroyKill, Step, SetTask
  <2>4. CASE DestroyTask(e)
    BY <2>4 DEF DestroyTask, Step, SetTask
  <2>5. CASE DestroyNet(e)
    BY <2>5 DEF DestroyNet, Step
  <2>6. CASE DestroyDind(e)
    BY <2>6 DEF DestroyDind, Step
  <2>7. CASE DestroyContainer(e)
    BY <2>7 DEF DestroyContainer, Step
  <2>8. CASE DestroyDir(e)
    BY <2>8 DEF DestroyDir, Step
  <2>9. CASE DestroyWork(e)
    BY <2>9 DEF DestroyWork, Step
  <2> QED BY <1>3, <2>1, <2>2, <2>3, <2>4, <2>5, <2>6, <2>7, <2>8, <2>9 DEF DestroyStep
<1>6. CASE Restart
  BY <1>6 DEF Restart
<1> QED BY <1>1, <1>2, <1>3, <1>6 DEF RuntimeNext

\* The daemon is stopped on every way out of Create and by the worker.
LEMMA DindStep ==
  ASSUME RuntimeTypeOK, WorkerInv, DaemonServes, [RuntimeNext]_runtimeVars
  PROVE  DaemonServes'
<1> USE DEF disk, ctrd, owner, sweeper, DaemonServes, WorkerInv, RuntimeTypeOK, CallerAt,
   Creating, WorkerAt
<1>1. CASE UNCHANGED runtimeVars \/ SweeperStep \/ (\E e \in Envs : TaskExits(e) \/ GracePasses(e))
  BY <1>1, SweeperFrame
<1>2. ASSUME NEW e \in Envs, CreateStep(e) PROVE DaemonServes'
  <2>1. CASE Create(e)
    BY <2>1 DEF Create
  <2>2. CASE HasImage(e)
    BY <2>2 DEF HasImage, Move
  <2>3. CASE prepareJobRunnerTree(e)
    BY <2>3 DEF prepareJobRunnerTree, Move
  <2>4. CASE StartDind(e)
    BY <2>4 DEF StartDind, Move
  <2>5. CASE SetupNetwork(e)
    BY <2>5 DEF SetupNetwork, Move
  <2>6. CASE NewContainer(e)
    BY <2>6 DEF NewContainer, Move
  <2>7. CASE NewTask(e)
    BY <2>7 DEF NewTask, Move, SetTask
  <2>8. CASE StartTask(e)
    BY <2>8 DEF StartTask, Move, SetTask
  <2>9. CASE CreateContextEnds(e)
    BY <2>9 DEF CreateContextEnds
  <2>10. CASE EarlyExit(e)
    BY <2>10 DEF EarlyExit, Deferred, DirAfter, Move
  <2>11. CASE NetworkExit(e)
    BY <2>11 DEF NetworkExit, Deferred, DirAfter, Move, Undo
  <2>12. CASE RunnerIPExit(e)
    BY <2>12 DEF RunnerIPExit, Deferred, DirAfter, Move, Undo
  <2>13. CASE ContainerExit(e)
    BY <2>13 DEF ContainerExit, Deferred, DirAfter, Move, Undo
  <2>14. CASE LogDirExit(e)
    BY <2>14 DEF LogDirExit, Deferred, DirAfter, Move
  <2>15. CASE TaskExit(e)
    BY <2>15 DEF TaskExit, Deferred, DirAfter, Move, Undo
  <2>16. CASE StartExit(e)
    BY <2>16 DEF StartExit, Deferred, DirAfter, Move, Undo
  <2> QED BY <1>2, <2>1, <2>2, <2>3, <2>4, <2>5, <2>6, <2>7, <2>8, <2>9, <2>10, <2>11,
     <2>12, <2>13, <2>14, <2>15, <2>16 DEF CreateStep
<1>3. ASSUME NEW e \in Envs, DestroyStep(e) PROVE DaemonServes'
  <2>1. CASE Destroy(e)
    BY <2>1 DEF Destroy, Move
  <2>2. CASE DestroyReturns(e)
    BY <2>2 DEF DestroyReturns, Move
  <2>3. CASE DestroyKill(e)
    BY <2>3 DEF DestroyKill, Step, SetTask
  <2>4. CASE DestroyTask(e)
    BY <2>4 DEF DestroyTask, Step, SetTask
  <2>5. CASE DestroyNet(e)
    BY <2>5 DEF DestroyNet, Step
  <2>6. CASE DestroyDind(e)
    BY <2>6 DEF DestroyDind, Step
  <2>7. CASE DestroyContainer(e)
    BY <2>7 DEF DestroyContainer, Step
  <2>8. CASE DestroyDir(e)
    BY <2>8 DEF DestroyDir, Step
  <2>9. CASE DestroyWork(e)
    BY <2>9 DEF DestroyWork, Step
  <2> QED BY <1>3, <2>1, <2>2, <2>3, <2>4, <2>5, <2>6, <2>7, <2>8, <2>9 DEF DestroyStep
<1>6. CASE Restart
  BY <1>6 DEF Restart
<1> QED BY <1>1, <1>2, <1>3, <1>6 DEF RuntimeNext

\* The network is there before the task starts, and goes when Create has failed
\* or Destroy has begun.
LEMMA NetStep ==
  ASSUME RuntimeTypeOK, WorkerInv, NetInv, [RuntimeNext]_runtimeVars
  PROVE  NetInv'
<1> USE DEF disk, ctrd, owner, sweeper, NetInv, WorkerInv, RuntimeTypeOK, CallerAt,
   Creating, WorkerAt
<1>1. CASE UNCHANGED runtimeVars \/ SweeperStep \/ (\E e \in Envs : TaskExits(e) \/ GracePasses(e))
  BY <1>1, SweeperFrame
<1>2. ASSUME NEW e \in Envs, CreateStep(e) PROVE NetInv'
  <2>1. CASE Create(e)
    BY <2>1 DEF Create
  <2>2. CASE HasImage(e)
    BY <2>2 DEF HasImage, Move
  <2>3. CASE prepareJobRunnerTree(e)
    BY <2>3 DEF prepareJobRunnerTree, Move
  <2>4. CASE StartDind(e)
    BY <2>4 DEF StartDind, Move
  <2>5. CASE SetupNetwork(e)
    BY <2>5 DEF SetupNetwork, Move
  <2>6. CASE NewContainer(e)
    BY <2>6 DEF NewContainer, Move
  <2>7. CASE NewTask(e)
    BY <2>7 DEF NewTask, Move, SetTask
  <2>8. CASE StartTask(e)
    BY <2>8 DEF StartTask, Move, SetTask
  <2>9. CASE CreateContextEnds(e)
    BY <2>9 DEF CreateContextEnds
  <2>10. CASE EarlyExit(e)
    BY <2>10 DEF EarlyExit, Deferred, DirAfter, Move
  <2>11. CASE NetworkExit(e)
    BY <2>11 DEF NetworkExit, Deferred, DirAfter, Move, Undo
  <2>12. CASE RunnerIPExit(e)
    BY <2>12 DEF RunnerIPExit, Deferred, DirAfter, Move, Undo
  <2>13. CASE ContainerExit(e)
    BY <2>13 DEF ContainerExit, Deferred, DirAfter, Move, Undo
  <2>14. CASE LogDirExit(e)
    BY <2>14 DEF LogDirExit, Deferred, DirAfter, Move
  <2>15. CASE TaskExit(e)
    BY <2>15 DEF TaskExit, Deferred, DirAfter, Move, Undo
  <2>16. CASE StartExit(e)
    BY <2>16 DEF StartExit, Deferred, DirAfter, Move, Undo
  <2> QED BY <1>2, <2>1, <2>2, <2>3, <2>4, <2>5, <2>6, <2>7, <2>8, <2>9, <2>10, <2>11,
     <2>12, <2>13, <2>14, <2>15, <2>16 DEF CreateStep
<1>3. ASSUME NEW e \in Envs, DestroyStep(e) PROVE NetInv'
  <2>1. CASE Destroy(e)
    BY <2>1 DEF Destroy, Move
  <2>2. CASE DestroyReturns(e)
    BY <2>2 DEF DestroyReturns, Move
  <2>3. CASE DestroyKill(e)
    BY <2>3 DEF DestroyKill, Step, SetTask
  <2>4. CASE DestroyTask(e)
    BY <2>4 DEF DestroyTask, Step, SetTask
  <2>5. CASE DestroyNet(e)
    BY <2>5 DEF DestroyNet, Step
  <2>6. CASE DestroyDind(e)
    BY <2>6 DEF DestroyDind, Step
  <2>7. CASE DestroyContainer(e)
    BY <2>7 DEF DestroyContainer, Step
  <2>8. CASE DestroyDir(e)
    BY <2>8 DEF DestroyDir, Step
  <2>9. CASE DestroyWork(e)
    BY <2>9 DEF DestroyWork, Step
  <2> QED BY <1>3, <2>1, <2>2, <2>3, <2>4, <2>5, <2>6, <2>7, <2>8, <2>9 DEF DestroyStep
<1>6. CASE Restart
  BY <1>6 DEF Restart
<1> QED BY <1>1, <1>2, <1>3, <1>6 DEF RuntimeNext

\* What the reaper saw stays so until it acts.
LEMMA ReapStep ==
  ASSUME GraceCoversCreate, RuntimeTypeOK, WorkerInv, ReapInv, [RuntimeNext]_runtimeVars
  PROVE  ReapInv'
<1> USE DEF disk, ctrd, owner, sweeper, ReapInv, WorkerInv, RuntimeTypeOK, CallerAt,
   Creating, WorkerAt, SweeperAt, TaskState
<1>1. CASE UNCHANGED runtimeVars
  BY <1>1 DEF runtimeVars
<1>2. ASSUME NEW e \in Envs, CreateStep(e) PROVE ReapInv'
  <2>1. CASE Create(e)
    BY <2>1, RuntimeAssumption DEF Create
  <2>2. CASE HasImage(e)
    BY <2>2, RuntimeAssumption DEF HasImage, Move
  <2>3. CASE prepareJobRunnerTree(e)
    BY <2>3, RuntimeAssumption DEF prepareJobRunnerTree, Move
  <2>4. CASE StartDind(e)
    BY <2>4, RuntimeAssumption DEF StartDind, Move
  <2>5. CASE SetupNetwork(e)
    BY <2>5, RuntimeAssumption DEF SetupNetwork, Move
  <2>6. CASE NewContainer(e)
    BY <2>6, RuntimeAssumption DEF NewContainer, Move
  <2>7. CASE NewTask(e)
    BY <2>7, RuntimeAssumption DEF NewTask, Move, SetTask
  <2>8. CASE StartTask(e)
    BY <2>8, RuntimeAssumption DEF StartTask, Move, SetTask
  <2>9. CASE CreateContextEnds(e)
    BY <2>9, RuntimeAssumption DEF CreateContextEnds
  <2>10. CASE EarlyExit(e)
    BY <2>10, RuntimeAssumption DEF EarlyExit, Deferred, DirAfter, Move
  <2>11. CASE NetworkExit(e)
    BY <2>11, RuntimeAssumption DEF NetworkExit, Deferred, DirAfter, Move, Undo
  <2>12. CASE RunnerIPExit(e)
    BY <2>12, RuntimeAssumption DEF RunnerIPExit, Deferred, DirAfter, Move, Undo
  <2>13. CASE ContainerExit(e)
    BY <2>13, RuntimeAssumption DEF ContainerExit, Deferred, DirAfter, Move, Undo
  <2>14. CASE LogDirExit(e)
    BY <2>14, RuntimeAssumption DEF LogDirExit, Deferred, DirAfter, Move
  <2>15. CASE TaskExit(e)
    BY <2>15, RuntimeAssumption DEF TaskExit, Deferred, DirAfter, Move, Undo
  <2>16. CASE StartExit(e)
    BY <2>16, RuntimeAssumption DEF StartExit, Deferred, DirAfter, Move, Undo
  <2> QED BY <1>2, <2>1, <2>2, <2>3, <2>4, <2>5, <2>6, <2>7, <2>8, <2>9, <2>10, <2>11,
     <2>12, <2>13, <2>14, <2>15, <2>16 DEF CreateStep
<1>3. ASSUME NEW e \in Envs, DestroyStep(e) PROVE ReapInv'
  <2>1. CASE Destroy(e)
    BY <2>1, RuntimeAssumption DEF Destroy, Move
  <2>2. CASE DestroyReturns(e)
    BY <2>2, RuntimeAssumption DEF DestroyReturns, Move
  <2>3. CASE DestroyKill(e)
    BY <2>3, RuntimeAssumption DEF DestroyKill, Step, SetTask
  <2>4. CASE DestroyTask(e)
    BY <2>4, RuntimeAssumption DEF DestroyTask, Step, SetTask
  <2>5. CASE DestroyNet(e)
    BY <2>5, RuntimeAssumption DEF DestroyNet, Step
  <2>6. CASE DestroyDind(e)
    BY <2>6, RuntimeAssumption DEF DestroyDind, Step
  <2>7. CASE DestroyContainer(e)
    BY <2>7, RuntimeAssumption DEF DestroyContainer, Step
  <2>8. CASE DestroyDir(e)
    BY <2>8, RuntimeAssumption DEF DestroyDir, Step
  <2>9. CASE DestroyWork(e)
    BY <2>9, RuntimeAssumption DEF DestroyWork, Step
  <2> QED BY <1>3, <2>1, <2>2, <2>3, <2>4, <2>5, <2>6, <2>7, <2>8, <2>9 DEF DestroyStep
<1>4. CASE SweeperStep
  <2>1. CASE ListContainers
    BY <2>1, RuntimeAssumption DEF ListContainers, InFlight
  <2>2. CASE ListFails
    BY <2>2, RuntimeAssumption DEF ListFails, CallFails
  <2>3. CASE addProvisioning
    BY <2>3, RuntimeAssumption DEF addProvisioning
  <2>4. CASE SweepDirs
    BY <2>4, RuntimeAssumption DEF SweepDirs, Swept, CallFails
  <2>5. CASE CleanOrphanJobDirs
    BY <2>5, RuntimeAssumption DEF CleanOrphanJobDirs, Swept, CallFails
  <2>6. CASE SweepSnapshots
    BY <2>6, RuntimeAssumption DEF SweepSnapshots, Swept, CallFails
  <2>7. CASE ReapList
    BY <2>7, RuntimeAssumption DEF ReapList, CallFails
  <2>8. CASE ReapDone
    BY <2>8, RuntimeAssumption DEF ReapDone
  <2>9. CASE AskProvisioning
    BY <2>9, RuntimeAssumption DEF AskProvisioning
  <2>10. CASE Reap
    BY <2>10, RuntimeAssumption DEF Reap, SetTask
  <2>11. CASE ReapFails
    BY <2>11, RuntimeAssumption DEF ReapFails, CallFails
  <2>12. ASSUME NEW e \in Envs, ReadTask(e) \/ ReadFails(e) PROVE ReapInv'
    <3>1. CASE ReadTask(e)
      BY <3>1, RuntimeAssumption DEF ReadTask, dead
    <3>2. CASE ReadFails(e)
      BY <3>2, RuntimeAssumption DEF ReadFails, CallFails
    <3> QED BY <2>12, <3>1, <3>2
  <2> QED BY <1>4, <2>1, <2>2, <2>3, <2>4, <2>5, <2>6, <2>7, <2>8, <2>9, <2>10, <2>11,
     <2>12 DEF SweeperStep
<1>5. ASSUME NEW e \in Envs, TaskExits(e) \/ GracePasses(e) PROVE ReapInv'
  <2>1. CASE TaskExits(e)
    BY <2>1, RuntimeAssumption DEF TaskExits, SetTask
  <2>2. CASE GracePasses(e)
    BY <2>2, RuntimeAssumption DEF GracePasses
  <2> QED BY <1>5, <2>1, <2>2
<1>6. CASE Restart
  BY <1>6, RuntimeAssumption DEF Restart
<1> QED BY <1>1, <1>2, <1>3, <1>4, <1>5, <1>6 DEF RuntimeNext

\* What a pass must spare it keeps.
LEMMA PassStep ==
  ASSUME RuntimeTypeOK, WorkerInv, PassInv, [RuntimeNext]_runtimeVars
  PROVE  PassInv'
<1> USE DEF disk, ctrd, owner, sweeper, PassInv, Intact, HasTree, HasWork, WorkerInv,
   RuntimeTypeOK, CallerAt, Creating, WorkerAt, SweeperAt, TaskState
<1>1. CASE UNCHANGED runtimeVars
  BY <1>1 DEF runtimeVars
<1>2. ASSUME NEW e \in Envs, CreateStep(e) PROVE PassInv'
  <2>1. CASE Create(e)
    BY <2>1 DEF Create
  <2>2. CASE HasImage(e)
    BY <2>2 DEF HasImage, Move
  <2>3. CASE prepareJobRunnerTree(e)
    BY <2>3 DEF prepareJobRunnerTree, Move
  <2>4. CASE StartDind(e)
    BY <2>4 DEF StartDind, Move
  <2>5. CASE SetupNetwork(e)
    BY <2>5 DEF SetupNetwork, Move
  <2>6. CASE NewContainer(e)
    BY <2>6 DEF NewContainer, Move
  <2>7. CASE NewTask(e)
    BY <2>7 DEF NewTask, Move, SetTask
  <2>8. CASE StartTask(e)
    BY <2>8 DEF StartTask, Move, SetTask
  <2>9. CASE CreateContextEnds(e)
    BY <2>9 DEF CreateContextEnds
  <2>10. CASE EarlyExit(e)
    BY <2>10 DEF EarlyExit, Deferred, DirAfter, Move
  <2>11. CASE NetworkExit(e)
    BY <2>11 DEF NetworkExit, Deferred, DirAfter, Move, Undo
  <2>12. CASE RunnerIPExit(e)
    BY <2>12 DEF RunnerIPExit, Deferred, DirAfter, Move, Undo
  <2>13. CASE ContainerExit(e)
    BY <2>13 DEF ContainerExit, Deferred, DirAfter, Move, Undo
  <2>14. CASE LogDirExit(e)
    BY <2>14 DEF LogDirExit, Deferred, DirAfter, Move
  <2>15. CASE TaskExit(e)
    BY <2>15 DEF TaskExit, Deferred, DirAfter, Move, Undo
  <2>16. CASE StartExit(e)
    BY <2>16 DEF StartExit, Deferred, DirAfter, Move, Undo
  <2> QED BY <1>2, <2>1, <2>2, <2>3, <2>4, <2>5, <2>6, <2>7, <2>8, <2>9, <2>10, <2>11,
     <2>12, <2>13, <2>14, <2>15, <2>16 DEF CreateStep
<1>3. ASSUME NEW e \in Envs, DestroyStep(e) PROVE PassInv'
  <2>1. CASE Destroy(e)
    BY <2>1 DEF Destroy, Move
  <2>2. CASE DestroyReturns(e)
    BY <2>2 DEF DestroyReturns, Move
  <2>3. CASE DestroyKill(e)
    BY <2>3 DEF DestroyKill, Step, SetTask
  <2>4. CASE DestroyTask(e)
    BY <2>4 DEF DestroyTask, Step, SetTask
  <2>5. CASE DestroyNet(e)
    BY <2>5 DEF DestroyNet, Step
  <2>6. CASE DestroyDind(e)
    BY <2>6 DEF DestroyDind, Step
  <2>7. CASE DestroyContainer(e)
    BY <2>7 DEF DestroyContainer, Step
  <2>8. CASE DestroyDir(e)
    BY <2>8 DEF DestroyDir, Step
  <2>9. CASE DestroyWork(e)
    BY <2>9 DEF DestroyWork, Step
  <2> QED BY <1>3, <2>1, <2>2, <2>3, <2>4, <2>5, <2>6, <2>7, <2>8, <2>9 DEF DestroyStep
<1>4. CASE SweeperStep
  <2>1. CASE ListContainers
    BY <2>1 DEF ListContainers, InFlight
  <2>2. CASE ListFails
    BY <2>2 DEF ListFails, CallFails
  <2>3. CASE addProvisioning
    BY <2>3 DEF addProvisioning
  <2>4. CASE SweepDirs
    BY <2>4 DEF SweepDirs, Swept, CallFails
  <2>5. CASE CleanOrphanJobDirs
    BY <2>5 DEF CleanOrphanJobDirs, Swept, CallFails
  <2>6. CASE SweepSnapshots
    BY <2>6 DEF SweepSnapshots, Swept, CallFails
  <2>7. CASE ReapList
    BY <2>7 DEF ReapList, CallFails
  <2>8. CASE ReapDone
    BY <2>8 DEF ReapDone
  <2>9. CASE AskProvisioning
    BY <2>9 DEF AskProvisioning
  <2>10. CASE Reap
    BY <2>10 DEF Reap, SetTask
  <2>11. CASE ReapFails
    BY <2>11 DEF ReapFails, CallFails
  <2>12. ASSUME NEW e \in Envs, ReadTask(e) \/ ReadFails(e) PROVE PassInv'
    <3>1. CASE ReadTask(e)
      BY <3>1 DEF ReadTask, dead
    <3>2. CASE ReadFails(e)
      BY <3>2 DEF ReadFails, CallFails
    <3> QED BY <2>12, <3>1, <3>2
  <2> QED BY <1>4, <2>1, <2>2, <2>3, <2>4, <2>5, <2>6, <2>7, <2>8, <2>9, <2>10, <2>11,
     <2>12 DEF SweeperStep
<1>5. ASSUME NEW e \in Envs, TaskExits(e) \/ GracePasses(e) PROVE PassInv'
  <2>1. CASE TaskExits(e)
    BY <2>1 DEF TaskExits, SetTask
  <2>2. CASE GracePasses(e)
    BY <2>2 DEF GracePasses
  <2> QED BY <1>5, <2>1, <2>2
<1>6. CASE Restart
  BY <1>6 DEF Restart
<1> QED BY <1>1, <1>2, <1>3, <1>4, <1>5, <1>6 DEF RuntimeNext

RuntimeInv == RuntimeTypeOK /\ WorkerInv /\ DaemonServes /\ NetInv /\ PassInv

\* The invariant holds in every reachable state.
THEOREM RuntimeInvariance == RuntimeSpec => []RuntimeInv
<1>1. RuntimeInit => RuntimeInv
  BY RuntimeAssumption DEF RuntimeInit, RuntimeInv, RuntimeTypeOK, CallerAt, Creating,
     WorkerAt, SweeperAt, TaskState, WorkerInv, DaemonServes, NetInv, PassInv
<1>2. RuntimeInv /\ [RuntimeNext]_runtimeVars => RuntimeInv'
  BY TypeStep, WorkerStep, DindStep, NetStep, PassStep DEF RuntimeInv
<1> QED BY <1>1, <1>2, PTL DEF RuntimeSpec

\* The keep set of SweepOrphans, a list of containers and a later look at
\* r.provisioning, is right for every job that was in flight before the list and
\* did not leave Create between the two.
THEOREM PassSpares == RuntimeSpec => []PassSparesOld
<1>1. RuntimeInv => PassSparesOld
  BY DEF RuntimeInv, PassInv, PassSparesOld
<1> QED BY <1>1, RuntimeInvariance, PTL

\* On every exit of Create but the one without a log directory, and in every
\* Destroy that got as far, the job's fake Docker daemon has stopped.
THEOREM DindIsStopped == RuntimeSpec => []DindStopped
<1>1. RuntimeInv => DindStopped
  BY DEF RuntimeInv, DaemonServes, DindStopped
<1> QED BY <1>1, RuntimeInvariance, PTL

\* Create hands no job to its caller that is not attached to the network.
THEOREM CreateFailsClosed == RuntimeSpec => []FailsClosed
<1>1. RuntimeInv => FailsClosed
  BY DEF RuntimeInv, NetInv, FailsClosed
<1> QED BY <1>1, RuntimeInvariance, PTL

\* ReapDeadContainers tears down no running job, if Create gets from NewContainer
\* to NewTask within the grace.
THEOREM ReaperIsSafe == ASSUME GraceCoversCreate PROVE RuntimeSpec => []ReapSparesRunning
<1>1. RuntimeInit => ReapInv
  BY DEF RuntimeInit, ReapInv
<1>2. RuntimeInv /\ ReapInv /\ [RuntimeNext]_runtimeVars => ReapInv'
  BY ReapStep, GraceCoversCreate DEF RuntimeInv
<1>3. ReapInv => ReapSparesRunning
  BY DEF ReapInv, ReapSparesRunning
<1> QED BY <1>1, <1>2, <1>3, RuntimeInvariance, PTL DEF RuntimeSpec
=============================================================================
