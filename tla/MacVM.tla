-------------------------------- MODULE MacVM --------------------------------
(***************************************************************************)
(* One macOS VM per provisioning attempt (pkg/vm: darwinMacOSVM and its    *)
(* files): the guest, the done channel, the stop that runs at most once    *)
(* and may wedge inside Virtualization.framework, the disk clones and the  *)
(* sweep that removes those no live VM owns.                               *)
(*                                                                         *)
(* A member of VMs is an instance id (macVMInstanceID) with everything     *)
(* named after it.  The actions here are the VM's own; module MacPool says *)
(* when the scheduler calls them.                                          *)
(***************************************************************************)
EXTENDS Integers, FiniteSets

CONSTANTS
  VMs,            \* provisioning attempts, each with its VM
  ForceMayFail    \* whether Virtualization.framework's stop may report an error

VARIABLES
  guest,       \* the guest of Virtualization.framework: "none", "up", "dead"
  cancelled,   \* VMs whose bootCtx is over: jobCtx ended, or stop's m.cancel
  doneCh,      \* VMs whose m.done is closed
  stopAt,      \* the one run of stop: where stopGuest or stop itself is
  files,       \* VMs whose clones or share exist in jobs/
  registered   \* liveMacVMs.ids

vmVars == <<guest, cancelled, doneCh, stopAt, files, registered>>

VMTypeOK ==
  /\ guest \in [VMs -> {"none", "up", "dead"}]
  /\ cancelled \subseteq VMs
  /\ doneCh \subseteq VMs
  /\ stopAt \in [VMs -> {"no", "asked", "forcing", "stopped", "returned"}]
  /\ files \subseteq VMs
  /\ registered \subseteq VMs

VMInit ==
  /\ guest = [v \in VMs |-> "none"]
  /\ stopAt = [v \in VMs |-> "no"]
  /\ cancelled = {} /\ doneCh = {} /\ files = {} /\ registered = {}

-----------------------------------------------------------------------------
\* The steps of the scheduler's calls, as updates of the VM's state.

\* NewMacOSVM, then WriteJITConfig: the id is owned from here until stop has
\* removed everything, and the share directory exists (whether or not the
\* config could be written into it).
NewMacOSVM(v) ==
  /\ registered' = registered \cup {v}
  /\ files' = files \cup {v}
  /\ UNCHANGED <<guest, cancelled, doneCh, stopAt>>

\* Start, up to vm.Start: the clones exist and the guest runs.
Start(v) ==
  /\ guest' = [guest EXCEPT ![v] = "up"]
  /\ UNCHANGED <<cancelled, doneCh, stopAt, files, registered>>

\* Stop: stopOnce lets the first caller in; every other waits for its return.
Stop(v) ==
  /\ stopAt' = IF stopAt[v] = "no" THEN [stopAt EXCEPT ![v] = "asked"] ELSE stopAt
  /\ UNCHANGED <<guest, cancelled, doneCh, files, registered>>

\* The job's context ends: cancel(), or the job timeout.
EndContext(v) ==
  /\ cancelled' = cancelled \cup {v}
  /\ UNCHANGED <<guest, doneCh, stopAt, files, registered>>

-----------------------------------------------------------------------------
\* The VM's own steps.

\* The guest goes down: by itself, or because stopGuest asked it to.
GuestDies(v) ==
  /\ guest[v] = "up"
  /\ guest' = [guest EXCEPT ![v] = "dead"]
  /\ UNCHANGED <<cancelled, doneCh, stopAt, files, registered>>

\* The watcher that Start leaves behind closes done when it sees the guest
\* stopped, and also when bootCtx is over.
WatcherCloses(v) ==
  /\ guest[v] # "none" /\ v \notin doneCh
  /\ guest[v] = "dead" \/ v \in cancelled
  /\ doneCh' = doneCh \cup {v}
  /\ UNCHANGED <<guest, cancelled, stopAt, files, registered>>

\* stopGuest returns without forcing: no VM, or done closed in time.
StopSeesDone(v) ==
  /\ stopAt[v] = "asked"
  /\ v \in doneCh \/ guest[v] = "none"
  /\ stopAt' = [stopAt EXCEPT ![v] = "stopped"]
  /\ UNCHANGED <<guest, cancelled, doneCh, files, registered>>

\* stopGuest after 15 s: force the guest down, a call that may not return.
StopForces(v) ==
  /\ stopAt[v] = "asked"
  /\ stopAt' = [stopAt EXCEPT ![v] = "forcing"]
  /\ UNCHANGED <<guest, cancelled, doneCh, files, registered>>

\* The force returns: with the guest down, or with an error that is logged.
ForceReturns(v) ==
  /\ stopAt[v] = "forcing"
  /\ stopAt' = [stopAt EXCEPT ![v] = "stopped"]
  /\ guest' = [guest EXCEPT ![v] = IF @ = "up" THEN "dead" ELSE @]
  /\ UNCHANGED <<cancelled, doneCh, files, registered>>

ForceFails(v) ==
  /\ ForceMayFail
  /\ stopAt[v] = "forcing"
  /\ stopAt' = [stopAt EXCEPT ![v] = "stopped"]
  /\ UNCHANGED <<guest, cancelled, doneCh, files, registered>>

\* teardownMacVMFiles: the files go when stopGuest is back, or when macVMStop-
\* Bound has passed and it is not.
teardownMacVMFiles(v) ==
  /\ stopAt[v] \in {"forcing", "stopped"} /\ v \in files
  /\ files' = files \ {v}
  /\ UNCHANGED <<guest, cancelled, doneCh, stopAt, registered>>

\* The rest of stop, after the files and stopGuest.
StopReturns(v) ==
  /\ stopAt[v] = "stopped" /\ v \notin files
  /\ stopAt' = [stopAt EXCEPT ![v] = "returned"]
  /\ cancelled' = cancelled \cup {v}
  /\ registered' = registered \ {v}
  /\ UNCHANGED <<guest, doneCh, files>>

\* SweepStaleMacOSClones: old entries that no registered VM owns.
SweepStaleMacOSClones ==
  /\ files' = files \cap registered
  /\ UNCHANGED <<guest, cancelled, doneCh, stopAt, registered>>

VMStep(v) ==
  \/ GuestDies(v) \/ WatcherCloses(v) \/ StopSeesDone(v) \/ StopForces(v)
  \/ ForceReturns(v) \/ ForceFails(v) \/ teardownMacVMFiles(v) \/ StopReturns(v)

-----------------------------------------------------------------------------
\* A running guest that nobody has asked to stop keeps its disk: neither the
\* sweep nor the teardown of another attempt removes it.
LiveHasFiles ==
  \A v \in VMs : guest[v] = "up" /\ stopAt[v] = "no" => v \in files

\* What the comment in stop promises to the scheduler's accounting: Stop
\* returns only once the guest is really stopped.
StopMeansDead ==
  \A v \in VMs : stopAt[v] = "returned" => guest[v] # "up"
=============================================================================
