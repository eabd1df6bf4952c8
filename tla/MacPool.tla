------------------------------- MODULE MacPool -------------------------------
(***************************************************************************)
(* The macOS pool (pkg/scheduler: handleMacOSJob, waitForMacRunnerBounded, *)
(* abandonMacProvision, stopVMBounded, and the registry of abandoned VMs   *)
(* of slots.go) over the VMs of module MacVM.  A stop may never return and *)
(* neither may the wait for a guest; whoever waits for one of them does so *)
(* for a bounded time and then walks away, charging the guest to a         *)
(* registry that closes the pool when it is full.                          *)
(*                                                                         *)
(* What the job does while it runs and what becomes of the scheduler's     *)
(* maps is module Scheduler's subject; there an attempt's stop is one step *)
(* and here it is the matter.                                              *)
(***************************************************************************)
EXTENDS MacVM

CONSTANTS
  MaxMacOSVMs,    \* capacity of macSem
  AbandonedCap    \* abandonedMacVMCap

ASSUME PoolAssumption ==
  /\ IsFiniteSet(VMs) /\ ForceMayFail \in BOOLEAN
  /\ MaxMacOSVMs \in Nat \ {0} /\ AbandonedCap \in Nat \ {0}

VARIABLES
  poolAt,         \* where the attempt's goroutine is
  holds,      \* attempts that hold a slot of macSem
  tracked,    \* attempts in s.running
  teardown,   \* where the bounded stop of the VM is
  charged     \* registry entries of a VM, each with a goroutine to discharge it

poolOnly == <<poolAt, holds, tracked, teardown, charged>>
poolVars == <<vmVars, poolOnly>>

\* "slot": waiting for macSem; "check": the second look at the registry;
\* "unwind": awaitUnwind; "failed": back in handleMacOSJob after it; "run": the
\* wait goroutine; "over": nothing left to do but teardown, by whoever does it.
Points == {"idle", "slot", "check", "claim", "boot", "reach", "unwind",
           "failed", "run", "over"}

\* "begin": before the call of Stop; "grace": waiting for it, for a bounded
\* time; "walk": abandonVM has seen it unfinished and not yet charged it.
Teardowns == {"no", "begin", "grace", "walk", "done"}

PoolTypeOK ==
  /\ VMTypeOK
  /\ poolAt \in [VMs -> Points]
  /\ holds \subseteq VMs /\ Cardinality(holds) <= MaxMacOSVMs
  /\ tracked \subseteq holds
  /\ teardown \in [VMs -> Teardowns]
  /\ charged \in [VMs -> 0..2]

PoolInit ==
  /\ VMInit
  /\ poolAt = [v \in VMs |-> "idle"]
  /\ holds = {} /\ tracked = {}
  /\ teardown = [v \in VMs |-> "no"]
  /\ charged = [v \in VMs |-> 0]

\* The registry's entries (live), by VM and number.
Entries == {e \in VMs \X (1..2) : e[2] <= charged[e[1]]}

macPoolCordoned == Cardinality(Entries) >= AbandonedCap

Goto(v, p) == poolAt' = [poolAt EXCEPT ![v] = p]

-----------------------------------------------------------------------------
\* handleMacOSJob, its first look at the registry.  An instance id of the model
\* is taken again once nothing is left of its last use.
Enter(v) ==
  /\ poolAt[v] = "idle" /\ ~macPoolCordoned
  /\ Goto(v, "slot")
  /\ UNCHANGED <<vmVars, holds, tracked, teardown, charged>>

AcquireMac(v) ==
  /\ poolAt[v] = "slot" /\ Cardinality(holds) < MaxMacOSVMs
  /\ holds' = holds \cup {v}
  /\ Goto(v, "check")
  /\ UNCHANGED <<vmVars, tracked, teardown, charged>>

\* acquireSlot returns nil: the wait for a slot ended without one.
NoSlot(v) ==
  /\ poolAt[v] = "slot"
  /\ Goto(v, "idle")
  /\ UNCHANGED <<vmVars, holds, tracked, teardown, charged>>

\* The second look, after a wait in which a VM may have been abandoned.
Recheck(v) ==
  /\ poolAt[v] = "check"
  /\ IF macPoolCordoned
     THEN Goto(v, "idle") /\ holds' = holds \ {v}
     ELSE Goto(v, "claim") /\ UNCHANGED holds
  /\ UNCHANGED <<vmVars, tracked, teardown, charged>>

\* admitDispatch, claimJob or newMacOSVM says no.
ClaimFails(v) ==
  /\ poolAt[v] = "claim"
  /\ Goto(v, "idle")
  /\ holds' = holds \ {v}
  /\ UNCHANGED <<vmVars, tracked, teardown, charged>>

\* The failure exits of handleMacOSJob: the slot first, the VM after it.
ReleaseThenStop(v) ==
  /\ holds' = holds \ {v}
  /\ teardown' = [teardown EXCEPT ![v] = "begin"]
  /\ Goto(v, "over")

\* The job is claimed: newMacOSVM and WriteJITConfig, which may fail.
Claimed(v) ==
  /\ poolAt[v] = "claim"
  /\ NewMacOSVM(v)
  /\ \/ Goto(v, "boot") /\ UNCHANGED <<holds, teardown>>
     \/ ReleaseThenStop(v)
  /\ UNCHANGED <<tracked, charged>>

Boots(v) ==
  /\ poolAt[v] = "boot"
  /\ Start(v)
  /\ Goto(v, "reach")
  /\ UNCHANGED <<holds, tracked, teardown, charged>>

BootFails(v) ==
  /\ poolAt[v] = "boot"
  /\ EndContext(v)
  /\ ReleaseThenStop(v)
  /\ UNCHANGED <<tracked, charged>>

-----------------------------------------------------------------------------
\* waitForMacRunnerBounded: the guest answers, and trackRunning.
Reached(v) ==
  /\ poolAt[v] = "reach" /\ guest[v] = "up"
  /\ tracked' = tracked \cup {v}
  /\ Goto(v, "run")
  /\ UNCHANGED <<vmVars, holds, teardown, charged>>

\* WaitForRunner gives up by itself.
ReachFails(v) ==
  /\ poolAt[v] = "reach"
  /\ EndContext(v)
  /\ ReleaseThenStop(v)
  /\ UNCHANGED <<tracked, charged>>

\* The provisioning deadline, or the end of the context: abandonMacProvision
\* stops the VM on a goroutine of its own.
ReachDeadline(v) ==
  /\ poolAt[v] = "reach"
  /\ Stop(v)
  /\ Goto(v, "unwind")
  /\ UNCHANGED <<holds, tracked, teardown, charged>>

awaitUnwind_Forever(v) ==
  /\ poolAt[v] = "unwind"
  /\ stopAt[v] = "returned"
  /\ teardown' = [teardown EXCEPT ![v] = "done"]
  /\ Goto(v, "failed")
  /\ UNCHANGED <<vmVars, holds, tracked, charged>>

\* awaitUnwind: the stop and the wait for the guest are both back, or the grace
\* is over and abandonVM looks once more whether the stop is.  The wait has no
\* other effect any more (its result goes to a buffered channel), so the model
\* does not say when it ends.
awaitUnwind(v) ==
  /\ poolAt[v] = "unwind"
  /\ teardown' = [teardown EXCEPT ![v] = IF stopAt[v] = "returned" THEN "done" ELSE "walk"]
  /\ Goto(v, "failed")
  /\ UNCHANGED <<vmVars, holds, tracked, charged>>

ReleaseAbandoned_StopsAgain(v) ==
  /\ poolAt[v] = "failed" /\ teardown[v] = "done"
  /\ EndContext(v)
  /\ ReleaseThenStop(v)
  /\ UNCHANGED <<tracked, charged>>

\* Back in handleMacOSJob with alreadyStopped: give the slot back and do not
\* stop the VM again.
ReleaseAbandoned(v) ==
  /\ poolAt[v] = "failed" /\ teardown[v] = "done"
  /\ EndContext(v)
  /\ holds' = holds \ {v}
  /\ Goto(v, "over")
  /\ UNCHANGED <<tracked, teardown, charged>>

-----------------------------------------------------------------------------
\* monitorRunner, below Wait: the runner is gone or SSH does not answer.
MonitorStops(v) ==
  /\ poolAt[v] = "run" /\ v \notin cancelled
  /\ Stop(v)
  /\ UNCHANGED poolOnly

\* The job's context ends by JobTimeout or by a shutdown.
ContextEnds(v) ==
  /\ poolAt[v] \in {"reach", "run"} /\ v \notin cancelled
  /\ EndContext(v)
  /\ UNCHANGED poolOnly

\* handleCompleted, the orphan sweep or destroyAll: untrack, cancel, then stop.
Taken(v) ==
  /\ v \in tracked
  /\ tracked' = tracked \ {v}
  /\ EndContext(v)
  /\ teardown' = [teardown EXCEPT ![v] = "begin"]
  /\ UNCHANGED <<poolAt, holds, charged>>

\* The wait goroutine, when Wait returns: untrack, release the slot, and stop
\* the VM if nobody else has taken it.
WaitOver(v) ==
  /\ poolAt[v] = "run" /\ (v \in doneCh \/ v \in cancelled)
  /\ tracked' = tracked \ {v}
  /\ holds' = holds \ {v}
  /\ teardown' = IF v \in tracked THEN [teardown EXCEPT ![v] = "begin"] ELSE teardown
  /\ Goto(v, "over")
  /\ UNCHANGED <<vmVars, charged>>

\* stopVMBounded: call Stop on a goroutine of its own.
BeginStop(v) ==
  /\ teardown[v] = "begin"
  /\ Stop(v)
  /\ teardown' = [teardown EXCEPT ![v] = "grace"]
  /\ UNCHANGED <<poolAt, holds, tracked, charged>>

stopVMBounded_NoCharge(v) ==
  /\ teardown[v] = "grace"
  /\ teardown' = [teardown EXCEPT ![v] = "done"]
  /\ UNCHANGED <<vmVars, poolAt, holds, tracked, charged>>

\* stopVMBounded: Stop is back, or the grace is over and abandonVM looks again.
stopVMBounded(v) ==
  /\ teardown[v] = "grace"
  /\ teardown' = [teardown EXCEPT ![v] = IF stopAt[v] = "returned" THEN "done" ELSE "walk"]
  /\ UNCHANGED <<vmVars, poolAt, holds, tracked, charged>>

\* abandonVM, past its look: charge the VM and leave a goroutine to discharge it.
charge(v) ==
  /\ teardown[v] = "walk"
  /\ charged' = [charged EXCEPT ![v] = @ + 1]
  /\ teardown' = [teardown EXCEPT ![v] = "done"]
  /\ UNCHANGED <<vmVars, poolAt, holds, tracked>>

\* That goroutine, once Stop has returned after all.
discharge(v) ==
  /\ charged[v] > 0 /\ stopAt[v] = "returned"
  /\ charged' = [charged EXCEPT ![v] = @ - 1]
  /\ UNCHANGED <<vmVars, poolAt, holds, tracked, teardown>>

-----------------------------------------------------------------------------
\* An instance id with nothing left of it is free for another attempt.
Fresh(v) ==
  /\ poolAt[v] = "over" /\ teardown[v] = "done" /\ stopAt[v] = "returned"
  /\ charged[v] = 0 /\ v \notin files /\ guest[v] # "up"
  /\ Goto(v, "idle")
  /\ teardown' = [teardown EXCEPT ![v] = "no"]
  /\ guest' = [guest EXCEPT ![v] = "none"]
  /\ stopAt' = [stopAt EXCEPT ![v] = "no"]
  /\ cancelled' = cancelled \ {v}
  /\ doneCh' = doneCh \ {v}
  /\ UNCHANGED <<files, registered, holds, tracked, charged>>

\* The daemon dies and starts again: guests die with the process, files stay.
PoolRestart ==
  /\ poolAt' = [v \in VMs |-> IF v \in files THEN "over" ELSE "idle"]
  /\ teardown' = [v \in VMs |-> IF v \in files THEN "done" ELSE "no"]
  /\ stopAt' = [v \in VMs |-> IF v \in files THEN "returned" ELSE "no"]
  /\ guest' = [v \in VMs |-> "none"]
  /\ charged' = [v \in VMs |-> 0]
  /\ holds' = {} /\ tracked' = {}
  /\ cancelled' = {} /\ doneCh' = {} /\ registered' = {}
  /\ UNCHANGED files

Sweep ==
  /\ SweepStaleMacOSClones
  /\ UNCHANGED poolOnly

\* The steps of the scheduler's goroutines and timers.
PoolStep(v) ==
  \/ AcquireMac(v) \/ NoSlot(v) \/ Recheck(v) \/ ClaimFails(v) \/ Claimed(v)
  \/ Boots(v) \/ BootFails(v) \/ ReachFails(v) \/ ReachDeadline(v) \/ awaitUnwind(v)
  \/ ReleaseAbandoned(v) \/ WaitOver(v) \/ BeginStop(v) \/ stopVMBounded(v) \/ charge(v)

PoolNext ==
  \/ \E v \in VMs :
       \/ Enter(v) \/ PoolStep(v) \/ Reached(v) \/ discharge(v) \/ Fresh(v)
       \/ MonitorStops(v) \/ ContextEnds(v) \/ Taken(v)
       \/ VMStep(v) /\ UNCHANGED poolOnly
  \/ Sweep \/ PoolRestart

\* The scheduler's goroutines run, its timers fire (the provisioning deadline,
\* both graces) and the calls to the platform and to Start return; stop's own
\* timers fire, and the sweep is periodic.  Nothing is assumed of the guest, of
\* WaitForRunner or of the force-stop: they may hang for good.
PoolFairness ==
  /\ \A v \in VMs :
       /\ WF_poolVars(PoolStep(v))
       /\ WF_poolVars(discharge(v))
       /\ WF_poolVars(StopForces(v) /\ UNCHANGED poolOnly)
       /\ WF_poolVars(teardownMacVMFiles(v) /\ UNCHANGED poolOnly)
  /\ WF_poolVars(Sweep)

PoolSpec == PoolInit /\ [][PoolNext]_poolVars /\ PoolFairness

-----------------------------------------------------------------------------
\* One wedged VM consumes one unit of the registry's budget, although several
\* places stop a VM and each of them may give up on it.
ChargedOnce == \A v \in VMs : charged[v] <= 1

\* A guest whose stop was walked away from is on the books: when the attempt
\* and its teardown are over and Stop has not returned, the VM is charged.
NoSilentLeak ==
  \A v \in VMs :
    poolAt[v] = "over" /\ teardown[v] = "done" /\ stopAt[v] # "returned" => charged[v] > 0

\* Issue #196: an attempt that is not a tracked job gives its slot back (or
\* becomes one), although stops and waits may hang for good.
PoolSlotsBack == \A v \in VMs : v \in holds \ tracked ~> v \notin holds \/ v \in tracked

\* A VM whose slow stop came back after all is discharged, so that the pool can
\* serve again without a restart.
PoolRecovers == \A v \in VMs : stopAt[v] = "returned" ~> charged[v] = 0

\* The files of an attempt that is over go, although its stop may be wedged
\* and although the daemon may die in the middle of it.
FilesGo == \A v \in VMs : poolAt[v] = "over" ~> v \notin files
=============================================================================
