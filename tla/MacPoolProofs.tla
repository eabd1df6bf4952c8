---------------------------- MODULE MacPoolProofs ----------------------------
(***************************************************************************)
(* The registry of abandoned macOS VMs is exact, for any number of VMs,    *)
(* slots and any cap: a wedged VM is charged once, and none is missing.    *)
(* Neither fact is inductive: both need to know that a VM has at most one  *)
(* bounded stop, which depends on who untracks the job and on the points   *)
(* of handleMacOSJob at which a teardown can start.                        *)
(***************************************************************************)
EXTENDS MacPool, FiniteSetTheorems, TLAPS

\* The points before any teardown of the attempt has been started or counted.
Early == {"idle", "slot", "check", "claim", "boot", "reach", "unwind"}

\* The points at which the attempt's goroutine has a slot.
SlotHeldAt == {"check", "claim", "boot", "reach", "unwind", "failed", "run"}

\* A VM's teardown has one owner, and its registry entry goes with it.
OneTeardown(v) ==
  /\ poolAt[v] \in Early => teardown[v] = "no"
  /\ v \in tracked => poolAt[v] = "run" /\ teardown[v] = "no"
  /\ v \in holds <=> poolAt[v] \in SlotHeldAt
  /\ charged[v] > 0 => teardown[v] = "done"
  /\ charged[v] <= 1
  /\ teardown[v] = "done" => stopAt[v] = "returned" \/ charged[v] > 0

PoolInv == PoolTypeOK /\ \A v \in VMs : OneTeardown(v)

\* What the type invariant says beside the bound of the semaphore.
Shape ==
  /\ VMTypeOK
  /\ poolAt \in [VMs -> Points]
  /\ holds \subseteq VMs
  /\ tracked \subseteq VMs
  /\ teardown \in [VMs -> Teardowns]
  /\ charged \in [VMs -> 0..2]

\* A step that frees slots, or takes one below the bound, keeps the bound.
LEMMA BoundKept ==
  ASSUME PoolInv, Shape', \A v \in VMs : OneTeardown(v)',
         \/ holds' \subseteq holds
         \/ \E v \in VMs : holds' = holds \cup {v} /\ Cardinality(holds) < MaxMacOSVMs
  PROVE  PoolInv'
<1>1. IsFiniteSet(holds) /\ Cardinality(holds) \in Nat /\ Cardinality(holds) <= MaxMacOSVMs
  BY FS_Subset, FS_CardinalityType, PoolAssumption DEF PoolInv, PoolTypeOK
<1>2. Cardinality(holds') <= MaxMacOSVMs
  <2>1. CASE holds' \subseteq holds
    <3>1. Cardinality(holds') <= Cardinality(holds) /\ IsFiniteSet(holds')
      BY <1>1, <2>1, FS_Subset
    <3>2. Cardinality(holds') \in Nat
      BY <3>1, FS_CardinalityType
    <3> QED BY <1>1, <3>1, <3>2, PoolAssumption
  <2>2. ASSUME NEW v \in VMs, holds' = holds \cup {v}, Cardinality(holds) < MaxMacOSVMs
        PROVE  Cardinality(holds') <= MaxMacOSVMs
    <3>1. Cardinality(holds') = Cardinality(holds) \/ Cardinality(holds') = Cardinality(holds) + 1
      BY <1>1, <2>2, FS_AddElement
    <3> QED BY <1>1, <2>2, <3>1, PoolAssumption
  <2> QED BY <2>1, <2>2
<1>3. tracked' \subseteq holds'
  BY DEF Shape, OneTeardown, SlotHeldAt
<1> QED BY <1>2, <1>3 DEF PoolInv, PoolTypeOK, Shape

\* Every step of an attempt or of its teardown keeps the invariant.
LEMMA AttemptKeeps ==
  ASSUME PoolInv, NEW v \in VMs,
         \/ Enter(v) \/ PoolStep(v) \/ Reached(v) \/ discharge(v) \/ Fresh(v)
         \/ MonitorStops(v) \/ ContextEnds(v) \/ Taken(v)
  PROVE  PoolInv'
<1> USE DEF PoolTypeOK, VMTypeOK
<1>1. CASE Enter(v)
  <2>1. Shape'
    BY <1>1 DEF PoolInv, Shape, Enter, Goto, vmVars, Points, Teardowns
  <2>2. ASSUME NEW w \in VMs PROVE OneTeardown(w)'
    BY <1>1 DEF PoolInv, Enter, Goto, vmVars, Points, Teardowns, OneTeardown, Early, SlotHeldAt
  <2>3. holds' \subseteq holds
    BY <1>1 DEF Enter
  <2> QED BY <2>1, <2>2, <2>3, BoundKept
<1>2. CASE AcquireMac(v)
  <2>1. Shape'
    BY <1>2 DEF PoolInv, Shape, AcquireMac, Goto, vmVars, Points, Teardowns
  <2>2. ASSUME NEW w \in VMs PROVE OneTeardown(w)'
    BY <1>2 DEF PoolInv, AcquireMac, Goto, vmVars, Points, Teardowns, OneTeardown, Early, SlotHeldAt
  <2>3. holds' = holds \cup {v} /\ Cardinality(holds) < MaxMacOSVMs
    BY <1>2 DEF AcquireMac
  <2> QED BY <2>1, <2>2, <2>3, BoundKept
<1>3. CASE NoSlot(v)
  <2>1. Shape'
    BY <1>3 DEF PoolInv, Shape, NoSlot, Goto, vmVars, Points, Teardowns
  <2>2. ASSUME NEW w \in VMs PROVE OneTeardown(w)'
    BY <1>3 DEF PoolInv, NoSlot, Goto, vmVars, Points, Teardowns, OneTeardown, Early, SlotHeldAt
  <2>3. holds' \subseteq holds
    BY <1>3 DEF NoSlot
  <2> QED BY <2>1, <2>2, <2>3, BoundKept
<1>4. CASE Recheck(v)
  <2>1. Shape'
    BY <1>4 DEF PoolInv, Shape, Recheck, Goto, vmVars, Points, Teardowns
  <2>2. ASSUME NEW w \in VMs PROVE OneTeardown(w)'
    BY <1>4 DEF PoolInv, Recheck, Goto, vmVars, Points, Teardowns, OneTeardown, Early, SlotHeldAt
  <2>3. holds' \subseteq holds
    BY <1>4 DEF Recheck
  <2> QED BY <2>1, <2>2, <2>3, BoundKept
<1>5. CASE ClaimFails(v)
  <2>1. Shape'
    BY <1>5 DEF PoolInv, Shape, ClaimFails, Goto, vmVars, Points, Teardowns
  <2>2. ASSUME NEW w \in VMs PROVE OneTeardown(w)'
    BY <1>5 DEF PoolInv, ClaimFails, Goto, vmVars, Points, Teardowns, OneTeardown, Early, SlotHeldAt
  <2>3. holds' \subseteq holds
    BY <1>5 DEF ClaimFails
  <2> QED BY <2>1, <2>2, <2>3, BoundKept
<1>6. CASE Claimed(v)
  <2>1. Shape'
    BY <1>6 DEF PoolInv, Shape, Claimed, NewMacOSVM, ReleaseThenStop, Goto, vmVars, Points, Teardowns
  <2>2. ASSUME NEW w \in VMs PROVE OneTeardown(w)'
    BY <1>6 DEF PoolInv, Claimed, NewMacOSVM, ReleaseThenStop, Goto, vmVars, Points, Teardowns, OneTeardown, Early, SlotHeldAt
  <2>3. holds' \subseteq holds
    BY <1>6 DEF Claimed, NewMacOSVM, ReleaseThenStop
  <2> QED BY <2>1, <2>2, <2>3, BoundKept
<1>7. CASE Boots(v)
  <2>1. Shape'
    BY <1>7 DEF PoolInv, Shape, Boots, Start, Goto, vmVars, Points, Teardowns
  <2>2. ASSUME NEW w \in VMs PROVE OneTeardown(w)'
    BY <1>7 DEF PoolInv, Boots, Start, Goto, vmVars, Points, Teardowns, OneTeardown, Early, SlotHeldAt
  <2>3. holds' \subseteq holds
    BY <1>7 DEF Boots, Start
  <2> QED BY <2>1, <2>2, <2>3, BoundKept
<1>8. CASE BootFails(v)
  <2>1. Shape'
    BY <1>8 DEF PoolInv, Shape, BootFails, EndContext, ReleaseThenStop, Goto, vmVars, Points, Teardowns
  <2>2. ASSUME NEW w \in VMs PROVE OneTeardown(w)'
    BY <1>8 DEF PoolInv, BootFails, EndContext, ReleaseThenStop, Goto, vmVars, Points, Teardowns, OneTeardown, Early, SlotHeldAt
  <2>3. holds' \subseteq holds
    BY <1>8 DEF BootFails, EndContext, ReleaseThenStop
  <2> QED BY <2>1, <2>2, <2>3, BoundKept
<1>9. CASE Reached(v)
  <2>1. Shape'
    BY <1>9 DEF PoolInv, Shape, Reached, Goto, vmVars, Points, Teardowns
  <2>2. ASSUME NEW w \in VMs PROVE OneTeardown(w)'
    BY <1>9 DEF PoolInv, Reached, Goto, vmVars, Points, Teardowns, OneTeardown, Early, SlotHeldAt
  <2>3. holds' \subseteq holds
    BY <1>9 DEF Reached
  <2> QED BY <2>1, <2>2, <2>3, BoundKept
<1>10. CASE ReachFails(v)
  <2>1. Shape'
    BY <1>10 DEF PoolInv, Shape, ReachFails, EndContext, ReleaseThenStop, Goto, vmVars, Points, Teardowns
  <2>2. ASSUME NEW w \in VMs PROVE OneTeardown(w)'
    BY <1>10 DEF PoolInv, ReachFails, EndContext, ReleaseThenStop, Goto, vmVars, Points, Teardowns, OneTeardown, Early, SlotHeldAt
  <2>3. holds' \subseteq holds
    BY <1>10 DEF ReachFails, EndContext, ReleaseThenStop
  <2> QED BY <2>1, <2>2, <2>3, BoundKept
<1>11. CASE ReachDeadline(v)
  <2>1. Shape'
    BY <1>11 DEF PoolInv, Shape, ReachDeadline, Stop, Goto, vmVars, Points, Teardowns
  <2>2. ASSUME NEW w \in VMs PROVE OneTeardown(w)'
    BY <1>11 DEF PoolInv, ReachDeadline, Stop, Goto, vmVars, Points, Teardowns, OneTeardown, Early, SlotHeldAt
  <2>3. holds' \subseteq holds
    BY <1>11 DEF ReachDeadline, Stop
  <2> QED BY <2>1, <2>2, <2>3, BoundKept
<1>12. CASE awaitUnwind(v)
  <2>1. Shape'
    BY <1>12 DEF PoolInv, Shape, awaitUnwind, Goto, vmVars, Points, Teardowns
  <2>2. ASSUME NEW w \in VMs PROVE OneTeardown(w)'
    BY <1>12 DEF PoolInv, awaitUnwind, Goto, vmVars, Points, Teardowns, OneTeardown, Early, SlotHeldAt
  <2>3. holds' \subseteq holds
    BY <1>12 DEF awaitUnwind
  <2> QED BY <2>1, <2>2, <2>3, BoundKept
<1>13. CASE ReleaseAbandoned(v)
  <2>1. Shape'
    BY <1>13 DEF PoolInv, Shape, ReleaseAbandoned, EndContext, Goto, vmVars, Points, Teardowns
  <2>2. ASSUME NEW w \in VMs PROVE OneTeardown(w)'
    BY <1>13 DEF PoolInv, ReleaseAbandoned, EndContext, Goto, vmVars, Points, Teardowns, OneTeardown, Early, SlotHeldAt
  <2>3. holds' \subseteq holds
    BY <1>13 DEF ReleaseAbandoned, EndContext
  <2> QED BY <2>1, <2>2, <2>3, BoundKept
<1>14. CASE MonitorStops(v)
  <2>1. Shape'
    BY <1>14 DEF PoolInv, Shape, MonitorStops, Stop, poolOnly, Goto, vmVars, Points, Teardowns
  <2>2. ASSUME NEW w \in VMs PROVE OneTeardown(w)'
    BY <1>14 DEF PoolInv, MonitorStops, Stop, poolOnly, Goto, vmVars, Points, Teardowns, OneTeardown, Early, SlotHeldAt
  <2>3. holds' \subseteq holds
    BY <1>14 DEF MonitorStops, Stop, poolOnly
  <2> QED BY <2>1, <2>2, <2>3, BoundKept
<1>15. CASE ContextEnds(v)
  <2>1. Shape'
    BY <1>15 DEF PoolInv, Shape, ContextEnds, EndContext, poolOnly, Goto, vmVars, Points, Teardowns
  <2>2. ASSUME NEW w \in VMs PROVE OneTeardown(w)'
    BY <1>15 DEF PoolInv, ContextEnds, EndContext, poolOnly, Goto, vmVars, Points, Teardowns, OneTeardown, Early, SlotHeldAt
  <2>3. holds' \subseteq holds
    BY <1>15 DEF ContextEnds, EndContext, poolOnly
  <2> QED BY <2>1, <2>2, <2>3, BoundKept
<1>16. CASE Taken(v)
  <2>1. Shape'
    BY <1>16 DEF PoolInv, Shape, Taken, EndContext, Goto, vmVars, Points, Teardowns
  <2>2. ASSUME NEW w \in VMs PROVE OneTeardown(w)'
    BY <1>16 DEF PoolInv, Taken, EndContext, Goto, vmVars, Points, Teardowns, OneTeardown, Early, SlotHeldAt
  <2>3. holds' \subseteq holds
    BY <1>16 DEF Taken, EndContext
  <2> QED BY <2>1, <2>2, <2>3, BoundKept
<1>17. CASE WaitOver(v)
  <2>1. Shape'
    BY <1>17 DEF PoolInv, Shape, WaitOver, Goto, vmVars, Points, Teardowns
  <2>2. ASSUME NEW w \in VMs PROVE OneTeardown(w)'
    BY <1>17 DEF PoolInv, WaitOver, Goto, vmVars, Points, Teardowns, OneTeardown, Early, SlotHeldAt
  <2>3. holds' \subseteq holds
    BY <1>17 DEF WaitOver
  <2> QED BY <2>1, <2>2, <2>3, BoundKept
<1>18. CASE BeginStop(v)
  <2>1. Shape'
    BY <1>18 DEF PoolInv, Shape, BeginStop, Stop, Goto, vmVars, Points, Teardowns
  <2>2. ASSUME NEW w \in VMs PROVE OneTeardown(w)'
    BY <1>18 DEF PoolInv, BeginStop, Stop, Goto, vmVars, Points, Teardowns, OneTeardown, Early, SlotHeldAt
  <2>3. holds' \subseteq holds
    BY <1>18 DEF BeginStop, Stop
  <2> QED BY <2>1, <2>2, <2>3, BoundKept
<1>19. CASE stopVMBounded(v)
  <2>1. Shape'
    BY <1>19 DEF PoolInv, Shape, stopVMBounded, Goto, vmVars, Points, Teardowns
  <2>2. ASSUME NEW w \in VMs PROVE OneTeardown(w)'
    BY <1>19 DEF PoolInv, stopVMBounded, Goto, vmVars, Points, Teardowns, OneTeardown, Early, SlotHeldAt
  <2>3. holds' \subseteq holds
    BY <1>19 DEF stopVMBounded
  <2> QED BY <2>1, <2>2, <2>3, BoundKept
<1>20. CASE charge(v)
  <2>1. Shape'
    BY <1>20 DEF PoolInv, Shape, OneTeardown, charge, Goto, vmVars, Points, Teardowns
  <2>2. ASSUME NEW w \in VMs PROVE OneTeardown(w)'
    BY <1>20 DEF PoolInv, charge, Goto, vmVars, Points, Teardowns, OneTeardown, Early, SlotHeldAt
  <2>3. holds' \subseteq holds
    BY <1>20 DEF charge
  <2> QED BY <2>1, <2>2, <2>3, BoundKept
<1>21. CASE discharge(v)
  <2>1. Shape'
    BY <1>21 DEF PoolInv, Shape, discharge, Goto, vmVars, Points, Teardowns
  <2>2. ASSUME NEW w \in VMs PROVE OneTeardown(w)'
    BY <1>21 DEF PoolInv, discharge, Goto, vmVars, Points, Teardowns, OneTeardown, Early, SlotHeldAt
  <2>3. holds' \subseteq holds
    BY <1>21 DEF discharge
  <2> QED BY <2>1, <2>2, <2>3, BoundKept
<1>22. CASE Fresh(v)
  <2>1. Shape'
    BY <1>22 DEF PoolInv, Shape, Fresh, Goto, vmVars, Points, Teardowns
  <2>2. ASSUME NEW w \in VMs PROVE OneTeardown(w)'
    BY <1>22 DEF PoolInv, Fresh, Goto, vmVars, Points, Teardowns, OneTeardown, Early, SlotHeldAt
  <2>3. holds' \subseteq holds
    BY <1>22 DEF Fresh
  <2> QED BY <2>1, <2>2, <2>3, BoundKept
<1> QED BY <1>1, <1>2, <1>3, <1>4, <1>5, <1>6, <1>7, <1>8, <1>9, <1>10, <1>11, <1>12, <1>13, <1>14, <1>15, <1>16, <1>17, <1>18, <1>19, <1>20, <1>21, <1>22 DEF PoolStep

\* The VM's own steps keep it: none of them takes back the return of a stop.
LEMMA VMKeeps ==
  ASSUME PoolInv, NEW v \in VMs, VMStep(v), UNCHANGED poolOnly
  PROVE  PoolInv'
<1>1. Shape'
  BY DEF PoolInv, PoolTypeOK, VMTypeOK, Shape, poolOnly, VMStep, GuestDies, WatcherCloses, StopSeesDone,
         StopForces, ForceReturns, ForceFails, teardownMacVMFiles, StopReturns
<1>2. ASSUME NEW w \in VMs PROVE OneTeardown(w)'
  BY DEF PoolInv, PoolTypeOK, VMTypeOK, OneTeardown, poolOnly, VMStep, GuestDies, WatcherCloses, StopSeesDone,
         StopForces, ForceReturns, ForceFails, teardownMacVMFiles, StopReturns
<1> QED BY <1>1, <1>2, BoundKept DEF poolOnly

\* Every step of the pool or of a VM keeps the inductive invariant.
LEMMA PoolStepKeeps ==
  ASSUME PoolInv, [PoolNext]_poolVars
  PROVE  PoolInv'
<1>1. CASE Sweep
  <2>1. Shape'
    BY <1>1 DEF PoolInv, PoolTypeOK, VMTypeOK, Shape, Sweep, SweepStaleMacOSClones, poolOnly
  <2>2. ASSUME NEW w \in VMs PROVE OneTeardown(w)'
    BY <1>1 DEF PoolInv, OneTeardown, Sweep, SweepStaleMacOSClones, poolOnly
  <2> QED BY <1>1, <2>1, <2>2, BoundKept DEF Sweep, poolOnly
<1>2. CASE PoolRestart
  <2>1. Shape'
    BY <1>2 DEF PoolInv, PoolTypeOK, VMTypeOK, Shape, PoolRestart, Points, Teardowns
  <2>2. ASSUME NEW w \in VMs PROVE OneTeardown(w)'
    BY <1>2 DEF OneTeardown, PoolRestart, Early, SlotHeldAt
  <2> QED BY <1>2, <2>1, <2>2, BoundKept DEF PoolRestart
<1>3. CASE UNCHANGED poolVars
  BY <1>3 DEF poolVars, poolOnly, vmVars, PoolInv, PoolTypeOK, VMTypeOK, OneTeardown
<1> QED BY <1>1, <1>2, <1>3, AttemptKeeps, VMKeeps DEF PoolNext

\* The pool without VMs satisfies the inductive invariant.
LEMMA PoolInitially == PoolInit => PoolInv
<1> SUFFICES ASSUME PoolInit PROVE PoolInv
  OBVIOUS
<1>1. Cardinality(holds) <= MaxMacOSVMs
  BY FS_EmptySet, PoolAssumption DEF PoolInit
<1>2. PoolTypeOK
  BY <1>1 DEF PoolInit, VMInit, PoolTypeOK, VMTypeOK, Points, Teardowns
<1>3. \A v \in VMs : OneTeardown(v)
  BY DEF PoolInit, VMInit, OneTeardown, Early, SlotHeldAt
<1> QED BY <1>2, <1>3 DEF PoolInv

\* A guest that boots or runs, and that nobody has asked to stop, keeps its
\* files and its registration, so that neither a teardown nor the sweep of the
\* clones can take its disk.
LiveOwned ==
  \A v \in VMs : (poolAt[v] = "boot" \/ guest[v] = "up") /\ stopAt[v] = "no" =>
    v \in files /\ v \in registered

LEMMA LiveOwnedStep == PoolInv /\ LiveOwned /\ [PoolNext]_poolVars => LiveOwned'
<1> SUFFICES ASSUME PoolInv, LiveOwned, [PoolNext]_poolVars PROVE LiveOwned'
  OBVIOUS
<1>0. /\ poolAt \in [VMs -> Points] /\ guest \in [VMs -> {"none", "up", "dead"}]
      /\ stopAt \in [VMs -> {"no", "asked", "forcing", "stopped", "returned"}]
  BY DEF PoolInv, PoolTypeOK, VMTypeOK
<1> USE <1>0 DEF LiveOwned, Goto
<1>1. ASSUME NEW v \in VMs, Enter(v) \/ AcquireMac(v) \/ NoSlot(v) \/ Recheck(v) \/ ClaimFails(v)
      PROVE  LiveOwned'
  BY <1>1 DEF Enter, AcquireMac, NoSlot, Recheck, ClaimFails, vmVars
<1>2. ASSUME NEW v \in VMs, Claimed(v) \/ Boots(v) \/ BootFails(v) PROVE LiveOwned'
  BY <1>2 DEF Claimed, Boots, BootFails, ReleaseThenStop, NewMacOSVM, Start, EndContext
<1>3. ASSUME NEW v \in VMs, Reached(v) \/ ReachFails(v) \/ ReachDeadline(v) \/ awaitUnwind(v)
                             \/ ReleaseAbandoned(v)
      PROVE  LiveOwned'
  BY <1>3 DEF Reached, ReachFails, ReachDeadline, awaitUnwind, ReleaseAbandoned, ReleaseThenStop,
     EndContext, Stop, vmVars
<1>4. ASSUME NEW v \in VMs, MonitorStops(v) \/ ContextEnds(v) \/ Taken(v) \/ WaitOver(v) PROVE LiveOwned'
  BY <1>4 DEF MonitorStops, ContextEnds, Taken, WaitOver, EndContext, Stop, vmVars, poolOnly
<1>5. ASSUME NEW v \in VMs, BeginStop(v) \/ stopVMBounded(v) \/ charge(v) \/ discharge(v) PROVE LiveOwned'
  BY <1>5 DEF BeginStop, stopVMBounded, charge, discharge, Stop, vmVars
<1>6. ASSUME NEW v \in VMs, Fresh(v) PROVE LiveOwned'
  BY <1>6 DEF Fresh
<1>7. ASSUME NEW v \in VMs, VMStep(v), UNCHANGED poolOnly PROVE LiveOwned'
  BY <1>7 DEF VMStep, GuestDies, WatcherCloses, StopSeesDone, StopForces, ForceReturns, ForceFails,
     teardownMacVMFiles, StopReturns, poolOnly
<1>8. CASE Sweep \/ PoolRestart \/ UNCHANGED poolVars
  BY <1>8 DEF Sweep, SweepStaleMacOSClones, PoolRestart, poolOnly, poolVars, vmVars
<1> QED BY <1>1, <1>2, <1>3, <1>4, <1>5, <1>6, <1>7, <1>8 DEF PoolNext, PoolStep

\* The macOS pool never has more holders than slots, charges a wedged VM once
\* and misses none, for every number of VMs and slots and every cap, whatever
\* the guests and their stops do.
THEOREM RegistryExact == PoolSpec => [](PoolTypeOK /\ ChargedOnce /\ NoSilentLeak)
<1>1. PoolInv => PoolTypeOK /\ ChargedOnce /\ NoSilentLeak
  BY DEF PoolInv, OneTeardown, ChargedOnce, NoSilentLeak
<1>2. PoolInv /\ [PoolNext]_poolVars => PoolInv'
  BY PoolStepKeeps
<1> QED BY <1>1, <1>2, PoolInitially, PTL DEF PoolSpec
=============================================================================
