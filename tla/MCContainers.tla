---------------------------- MODULE MCContainers -----------------------------
(***************************************************************************)
(* The parts of a node that run a job's containers and give them           *)
(* networks, a Docker daemon and builds: one of them moves, the others     *)
(* stay as they started.                                                   *)
(***************************************************************************)
EXTENDS Focus, Runtime, LinuxVM, Dispatch, DindServer, DindNetworks,
        BindStage, BindWalk, Build, BuildRecords, JobNetwork, Firewall,
        L2Bridge

CONSTANTS a1, a2, a3, g1, g2, g3, j1, j2

ThreeAttachments == {a1, a2, a3}
TwoOneJob == [a \in ThreeAttachments |-> IF a = a3 THEN j2 ELSE j1]

OneTwin == {<<g1, g2>>}
OnGateway == {<<"p1">>, <<"p2">>}
OnControl == {<<"p2">>, <<"p3">>}

Pools == {[base |-> 12, ones |-> 2], [base |-> 8, ones |-> 1], [base |-> 14, ones |-> 4]}

containersVars == <<runtimeVars, linuxVMVars, dispatchVars, dindVars, netVars,
                    stageVars, walkVars, buildVars, recordVars, jobNetVars,
                    fwVars, l2Vars>>

ContainersParts == {"runtime", "linuxvm", "dispatch", "dind", "networks",
                    "binds", "walk", "build", "records", "jobnet", "firewall",
                    "l2bridge"}

\* A component that does not move has one initial state.
ContainersInit ==
  /\ RuntimeInit /\ (focus # "runtime" => ~windows)
  /\ LinuxVMInit /\ (focus # "linuxvm" => vmHost = "windows")
  /\ DispatchInit
  /\ DindInit
  /\ NetworksInit
  /\ BindStageInit
  /\ BindWalkInit
  /\ BuildInit
  /\ RecordsInit
  /\ JobNetInit
  /\ FwInit
  /\ L2Init

ContainersFrozen ==
  /\ focus # "runtime" => UNCHANGED runtimeVars
  /\ focus # "linuxvm" => UNCHANGED linuxVMVars
  /\ focus # "dispatch" => UNCHANGED dispatchVars
  /\ focus # "dind" => UNCHANGED dindVars
  /\ focus # "networks" => UNCHANGED netVars
  /\ focus # "binds" => UNCHANGED stageVars
  /\ focus # "walk" => UNCHANGED walkVars
  /\ focus # "build" => UNCHANGED buildVars
  /\ focus # "records" => UNCHANGED recordVars
  /\ focus # "jobnet" => UNCHANGED jobNetVars
  /\ focus # "firewall" => UNCHANGED fwVars
  /\ focus # "l2bridge" => UNCHANGED l2Vars

ContainersMoves ==
  \/ focus = "runtime" /\ RuntimeNext
  \/ focus = "linuxvm" /\ LinuxVMNext
  \/ focus = "dispatch" /\ DispatchNext
  \/ focus = "dind" /\ DindNext
  \/ focus = "networks" /\ NetworksNext
  \/ focus = "binds" /\ BindStageNext
  \/ focus = "walk" /\ BindWalkNext
  \/ focus = "build" /\ BuildNext
  \/ focus = "records" /\ RecordsNext
  \/ focus = "jobnet" /\ JobNetNext
  \/ focus = "firewall" /\ FwNext
  \/ focus = "l2bridge" /\ L2Next

\* The components that must never come to a halt: for them deadlock is checked.
ContainersNeverHalt == {"jobnet", "linuxvm", "runtime"}

ContainersNext ==
  /\ ContainersFrozen /\ UNCHANGED focus
  /\ ContainersMoves \/ (focus \notin ContainersNeverHalt /\ UNCHANGED containersVars)

ContainersStart == focus \in ContainersParts /\ ContainersInit

ContainersSpec ==
  /\ ContainersStart
  /\ [][ContainersNext]_<<focus, containersVars>>

\* With the fairness of Runtime, whose leftovers the sweeper takes in the end.
FairContainersSpec ==
  /\ ContainersSpec
  /\ WF_runtimeVars(focus = "runtime" /\ SweeperStep)
  /\ \A e \in Envs : WF_runtimeVars(focus = "runtime" /\ GracePasses(e))

\* The state of the component that moves is of its type.
ContainersTypeOK ==
  /\ focus = "runtime" => RuntimeTypeOK
  /\ focus = "linuxvm" => VmTypeOK
  /\ focus = "dispatch" => DispatchTypeOK
  /\ focus = "dind" => DindTypeOK
  /\ focus = "networks" => NetworksTypeOK
  /\ focus = "binds" => BindStageTypeOK
  /\ focus = "walk" => BindWalkTypeOK
  /\ focus = "build" => BuildTypeOK
  /\ focus = "records" => RecordsTypeOK
  /\ focus = "jobnet" => JobNetTypeOK
  /\ focus = "firewall" => FwTypeOK
  /\ focus = "l2bridge" => L2TypeOK

-----------------------------------------------------------------------------
(* A job's fake Docker daemon leaves nothing of its own behind when it      *)
(* stops, but endpoints whose Teardown did not get through, runs no sibling *)
(* without a network, and its networks agree with its containers and share  *)
(* no subnet (DindServer, DindNetworks).                                    *)
DindKeepsItsOwn ==
  /\ focus = "dind" => StopLeavesNothing /\ SiblingHasNetwork
  /\ focus = "networks" => MembershipAgrees /\ SubnetsDistinct

(* Staging, tearing down and sweeping binds empties no directory through a  *)
(* mount and takes none from an open stager, but that of a job which the    *)
(* reaper sweeps while its stager is open; what is torn down is empty; and  *)
(* the walk to a bind's source leaks no descriptor and closes none twice    *)
(* (BindStage, BindWalk).                                                   *)
BindsApart ==
  /\ focus = "binds" => NothingGutted /\ LiveKeepsDir /\ TornDownIsEmpty
  /\ focus = "walk" => DescriptorsBalanced

(* The build store is moved away only when no build uses it, nobody builds  *)
(* over what a repair that failed half-way left of it, and no live job's    *)
(* build record is taken for a dead one's (Build, BuildRecords).            *)
BuildsUnharmed ==
  /\ focus = "build" => StoreMovesIdle
  /\ focus = "records" => LiveRecordKept

(* Two jobs never reach each other, the containers of one job do, and an    *)
(* address is attributed to the job that has it (JobNetwork).               *)
JobsIsolated == focus = "jobnet" => JobsApart /\ JobTogether /\ AttributedRight

(* What the rules let through, packet by packet, is what the policy says,   *)
(* after any number of starts over the rules of earlier ones (Firewall).    *)
PolicyHolds == focus = "firewall" => HostPolicy /\ ForwardPolicy /\ NothingStacked

(* No two Windows containers are given one address, none is stranded by a   *)
(* failure or a kill, and none can reach the LAN (L2Bridge).                *)
AddressesOwned == focus = "l2bridge" => AddressOwned /\ NothingStranded /\ OfferIsFree /\ EgressClosed

(* A runner in the Linux VM is released once and never forgotten while its  *)
(* container exists, and the VM itself boots whole and is cleaned up        *)
(* (Dispatch, LinuxVM).                                                     *)
RemoteRunnersOwned ==
  /\ focus = "dispatch" => ReleasedOnce /\ NothingForgotten
  /\ focus = "linuxvm" => BootsWhole /\ CleanupLeavesNothing
=============================================================================
