--------------------------- MODULE SchedulerProofs ---------------------------
(***************************************************************************)
(* Theorems about Scheduler, for every set of jobs, any number of dispatch  *)
(* goroutines and any pool sizes.                                           *)
(***************************************************************************)
EXTENDS Scheduler, FiniteSetTheorems, TLAPS

\* The program points at which a dispatch owns a slot.
Holding == {"admit", "ask", "gate", "claim", "create", "unsee", "fail", "track",
            "wait", "release"}

\* A dispatch that is under way knows its job.
JobKnown == \A d \in Dispatches : pc[d] # "free" => job[d] \in Jobs

\* A dispatch owns a slot exactly between acquireSlot and its first release.
TokenAtPC == \A d \in Dispatches : token[d] = "held" <=> pc[d] \in Holding

\* The runner filed under a job belongs to a dispatch of that job that waits on
\* it, and is in the ledger.
TrackedWaits ==
  \A j \in Jobs : running[j] # NoRunner =>
    pc[running[j]] = "wait" /\ job[running[j]] = j /\ running[j] \in runners

\* The inductive invariant.
IInv == TypeOK /\ JobKnown /\ TokenAtPC /\ SlotAccounting /\ TrackedWaits

\* What may travel as an event.
LEMMA EventTypes ==
  /\ \A j \in Jobs : /\ <<"queued", j, NoRunner>> \in Events
                    /\ <<"stranded", j, NoRunner>> \in Events
  /\ \A j \in Jobs, n \in Names : /\ <<"in_progress", j, n>> \in Events
                                 /\ <<"bind", j, n>> \in Events
                                 /\ <<"completed", j, n>> \in Events
BY DEF Events, Names

\* The initial state satisfies the inductive invariant.
LEMMA InitIInv == Init => IInv
<1> SUFFICES ASSUME Init PROVE IInv OBVIOUS
<1> USE PathAssumption, CapacityAssumption, MaxAttemptsAssumption, NullAssumption
<1>1. TypeOK
  <2>1. MapsOK
    <3>1. attempts \in [Jobs -> 0..(MaxAttempts + 1)] BY DEF Init
    <3>2. QED BY <3>1 DEF Init, MapsOK
  <2>2. LedgerOK BY DEF Init, LedgerOK
  <2>3. SlotsOK BY DEF Init, SlotsOK
  <2>4. GoroutinesOK BY DEF Init, GoroutinesOK, PC
  <2>5. HandlersOK BY DEF Init, HandlersOK
  <2>6. WorldOK BY DEF Init, WorldOK
  <2>7. events \subseteq Events BY EventTypes DEF Init
  <2> QED BY <2>1, <2>2, <2>3, <2>4, <2>5, <2>6, <2>7 DEF TypeOK
<1>2. JobKnown /\ TokenAtPC /\ TrackedWaits
  BY DEF Init, JobKnown, TokenAtPC, TrackedWaits, Holding
<1>3. SlotAccounting
  <2> SUFFICES ASSUME NEW p \in Paths
               PROVE sem[p] = Cardinality(Holders(p)) /\ sem[p] <= Capacity[p]
    BY DEF SlotAccounting
  <2>1. Holders(p) = {} BY DEF Init, Holders
  <2>2. sem[p] = 0 BY DEF Init
  <2> QED BY <2>1, <2>2, FS_EmptySet
<1> QED BY <1>1, <1>2, <1>3 DEF IInv

\* A group of variables that a step leaves alone keeps its type.
LEMMA UnchangedTypes ==
  /\ MapsOK /\ UNCHANGED maps => MapsOK'
  /\ LedgerOK /\ UNCHANGED ledger => LedgerOK'
  /\ SlotsOK /\ UNCHANGED slots => SlotsOK'
  /\ GoroutinesOK /\ UNCHANGED gor => GoroutinesOK'
  /\ HandlersOK /\ UNCHANGED handlers => HandlersOK'
  /\ WorldOK /\ UNCHANGED world => WorldOK'
BY DEF MapsOK, LedgerOK, SlotsOK, GoroutinesOK, HandlersOK, WorldOK,
       maps, ledger, slots, gor, handlers, world

\* Taking a slot (acquireSlot) keeps semaphores and tokens well typed.
LEMMA TakeTypes ==
  ASSUME SlotsOK, NEW d \in Dispatches, job[d] \in Jobs, TakeSlot(d)
  PROVE  SlotsOK'
<1> DEFINE p == PoolOf(d)
<1>1. p \in Paths BY PathAssumption DEF PoolOf
<1>2. sem' = [sem EXCEPT ![p] = @ + 1] BY DEF TakeSlot
<1>3. sem' \in [Paths -> Int] BY <1>1, <1>2 DEF SlotsOK
<1> QED BY <1>3 DEF SlotsOK, TakeSlot

\* Releasing a token (slotToken.release) keeps them well typed.
LEMMA ReleaseTypes ==
  ASSUME SlotsOK, NEW d \in Dispatches, job[d] \in Jobs, ReleaseToken(d)
  PROVE  SlotsOK'
<1>1. CASE token[d] = "held"
  BY <1>1, PathAssumption DEF SlotsOK, ReleaseToken, PoolOf
<1>2. CASE token[d] # "held" BY <1>2 DEF SlotsOK, ReleaseToken, slots
<1> QED BY <1>1, <1>2

\* So does a dispatch goroutine that releases its token and returns.
LEMMA ReturnTypes ==
  ASSUME SlotsOK, GoroutinesOK, JobKnown, NEW d \in Dispatches, job' = job,
         NEW from \in PC \ {"free"}, Return(d, from)
  PROVE  SlotsOK' /\ GoroutinesOK' /\ job[d] \in Jobs
BY ReleaseTypes DEF Return, GoroutinesOK, JobKnown, Goto, PC

\* The environments a teardown reaches are environments of dispatches.
LEMMA VictimsTypes ==
  ASSUME GoroutinesOK, JobKnown, NEW d \in Dispatches, pc[d] # "free"
  PROVE  Victims(d) \in SUBSET Dispatches
BY PathAssumption DEF GoroutinesOK, JobKnown, Victims, PoolOf

\* Destroying environments (Runtime.Destroy) keeps the world well typed.
LEMMA DestroyedTypes ==
  ASSUME WorldOK, events \subseteq Events, NEW V \in SUBSET Dispatches, Destroyed(V)
  PROVE  /\ env' \in [Dispatches -> {"none", "alive", "exited", "gone"}]
         /\ exec' \in [Dispatches -> Jobs \cup {NoJob}]
         /\ jobState' \in [Jobs -> {"queued", "running", "done"}]
         /\ events' \subseteq Events
<1>1. /\ env' \in [Dispatches -> {"none", "alive", "exited", "gone"}]
      /\ exec' \in [Dispatches -> Jobs \cup {NoJob}]
      /\ jobState' \in [Jobs -> {"queued", "running", "done"}]
  BY DEF Destroyed, WorldOK
<1>2. events' \subseteq Events
  <2>1. ASSUME NEW u \in V, exec[u] # NoJob PROVE <<"completed", exec[u], u>> \in Events
    <3>1. u \in Names /\ exec[u] \in Jobs
      BY <2>1 DEF WorldOK, Names
    <3> QED BY <3>1, EventTypes
  <2> QED BY <2>1 DEF Destroyed
<1> QED BY <1>1, <1>2

\* Handing an event to the scheduler keeps the pending events well typed.
LEMMA ReportTypes ==
  ASSUME events \subseteq Events, NEW e \in Events, Report(e) PROVE events' \subseteq Events
BY DEF Report

Stamps == [Jobs -> {"none", "fresh", "stale"}]

\* What handleQueued leaves behind, whichever maps it is entered with.
LEMMA QueuedTypes ==
  ASSUME MapsOK, GoroutinesOK, NEW j \in Jobs, NEW pend \in SUBSET Jobs,
         NEW stamp \in Stamps, NEW fromRetry, handleQueued(j, pend, stamp, fromRetry)
  PROVE  /\ pending' \subseteq Jobs /\ seen' \in Stamps
         /\ attempts' \in [Jobs -> 0..(MaxAttempts + 1)]
         /\ pc' \in [Dispatches -> PC] /\ job' \in [Dispatches -> Jobs \cup {NoJob}]
         /\ viaRetry' \subseteq Dispatches
<1> USE MaxAttemptsAssumption DEF Stamps, MapsOK, GoroutinesOK
<1>1. CASE IgnoreDuplicate(j, pend, stamp) BY <1>1 DEF IgnoreDuplicate
<1>2. CASE RefuseCordoned(j, pend, stamp) BY <1>2 DEF RefuseCordoned
<1>3. CASE SkipZombie(j, pend, stamp) BY <1>3 DEF SkipZombie
<1>4. CASE StartDispatch(j, pend, stamp, fromRetry) BY <1>4 DEF StartDispatch, Goto, PC
<1>5. CASE DeferMacOS(j, pend, stamp)
  <2>0. attempts[j] < MaxAttempts BY <1>5 DEF DeferMacOS
  <2>1. attempts[j] + 1 \in 0..(MaxAttempts + 1) BY <2>0
  <2>2. attempts' = [attempts EXCEPT ![j] = attempts[j] + 1] BY <1>5 DEF DeferMacOS
  <2>3. attempts' \in [Jobs -> 0..(MaxAttempts + 1)] BY <2>1, <2>2
  <2> QED BY <1>5, <2>3 DEF DeferMacOS
<1> QED BY <1>1, <1>2, <1>3, <1>4, <1>5 DEF handleQueued

\* Every step keeps the type invariant, one case per action.
LEMMA TypeStep == TypeOK /\ JobKnown /\ [Next]_vars => TypeOK'
<1> SUFFICES ASSUME TypeOK, JobKnown, [Next]_vars PROVE TypeOK' OBVIOUS
<1> USE UnchangedTypes DEF TypeOK
<1>1. CASE UNCHANGED vars BY <1>1 DEF vars
<1>2. ASSUME NEW d \in Dispatches, DispatchStep(d) PROVE TypeOK'
  <2> USE DEF PC, Goto
  <2>1. CASE AcquireSlot(d) BY <2>1, TakeTypes DEF AcquireSlot, JobKnown, GoroutinesOK
  <2>2. CASE SlotBusy(d) BY <2>2 DEF SlotBusy, GoroutinesOK
  <2>3. CASE AcquireAfterWait(d) BY <2>3, TakeTypes DEF AcquireAfterWait, JobKnown, GoroutinesOK
  <2>4. CASE SlotGiveUp(d) BY <2>4, ReturnTypes DEF SlotGiveUp, Unstamp, MapsOK
  <2>5. CASE admitDispatch(d) BY <2>5, ReturnTypes DEF admitDispatch, MapsOK, GoroutinesOK
  <2>6. CASE AskGone(d) BY <2>6, ReturnTypes DEF AskGone, MapsOK
  <2>7. CASE AskWanted(d) BY <2>7 DEF AskWanted, GoroutinesOK
  <2>8. CASE ClaimGate(d) BY <2>8 DEF ClaimGate, Fail, GoroutinesOK
  <2>9. CASE ClaimOk(d) BY <2>9 DEF ClaimOk, GoroutinesOK, WorldOK
  <2>10. CASE ClaimFail(d) BY <2>10 DEF ClaimFail, Fail, GoroutinesOK
  <2>11. CASE CreateOk(d) BY <2>11 DEF CreateOk, GoroutinesOK, WorldOK
  <2>12. CASE CreateFail(d)
    <3>1. GoroutinesOK' BY <2>12 DEF CreateFail, Fail, GoroutinesOK
    <3>2. WorldOK' BY <2>12 DEF CreateFail, WorldOK
    <3> QED BY <2>12, <3>1, <3>2 DEF CreateFail
  <2>13. CASE Unsee(d) BY <2>13 DEF Unsee, Unstamp, MapsOK, GoroutinesOK
  <2>14. CASE FailRelease(d) BY <2>14, ReleaseTypes DEF FailRelease, JobKnown, GoroutinesOK
  <2>15. CASE enqueueRetryIfEligible(d) BY <2>15, ReturnTypes DEF enqueueRetryIfEligible, MapsOK
  <2>16. CASE trackRunning(d) BY <2>16 DEF trackRunning, JobKnown, LedgerOK, GoroutinesOK
  <2>17. CASE JobTimeout(d) BY <2>17 DEF JobTimeout, WorldOK
  <2>18. CASE WaitReturns(d) BY <2>18 DEF WaitReturns, JobKnown, Untrack, Unfile, LedgerOK, GoroutinesOK
  <2>19. CASE ReleaseSlot(d) BY <2>19, ReleaseTypes DEF ReleaseSlot, JobKnown, GoroutinesOK
  <2>20. CASE WaitTeardown(d) BY <2>20, DestroyedTypes, VictimsTypes DEF WaitTeardown, GoroutinesOK, WorldOK
  <2>21. CASE reprovisionIfStranded(d)
    <3>1. job[d] \in Jobs /\ SlotsOK' /\ GoroutinesOK'
      BY <2>21, ReturnTypes DEF reprovisionIfStranded
    <3>2. MapsOK' BY <2>21, <3>1 DEF reprovisionIfStranded, MapsOK
    <3>3. events' \subseteq Events BY <2>21, <3>1, EventTypes DEF reprovisionIfStranded
    <3> QED BY <2>21, <3>1, <3>2, <3>3 DEF reprovisionIfStranded
  <2>22. CASE Recycle(d) BY <2>22 DEF Recycle, SlotsOK, GoroutinesOK, WorldOK
  <2>23. CASE RefusePool(d) BY <2>23, ReturnTypes DEF RefusePool, MapsOK
  <2>24. CASE BootFail(d)
    <3>1. GoroutinesOK' BY <2>24 DEF BootFail, Fail, GoroutinesOK
    <3>2. WorldOK' BY <2>24 DEF BootFail, WorldOK
    <3> QED BY <2>24, <3>1, <3>2 DEF BootFail
  <2>25. CASE StopBooted(d)
    BY <2>25, ReturnTypes, DestroyedTypes DEF StopBooted, WorldOK
  <2> QED
    BY <1>2, <2>1, <2>2, <2>3, <2>4, <2>5, <2>6, <2>7, <2>8, <2>9, <2>10, <2>11, <2>12,
       <2>13, <2>14, <2>15, <2>16, <2>17, <2>18, <2>19, <2>20, <2>21, <2>22, <2>23, <2>24, <2>25 DEF DispatchStep
<1>3. ASSUME NEW j \in Jobs,
             \/ DeliverQueued(j) \/ RetryFires(j) \/ StrandedGone(j) \/ StrandedRequeue(j)
      PROVE  TypeOK'
  <2>1. CASE DeliverQueued(j) BY <2>1, QueuedTypes DEF DeliverQueued, MapsOK, GoroutinesOK, Stamps
  <2>2. CASE RetryFires(j)
    <3>1. pending \ {j} \in SUBSET Jobs /\ [seen EXCEPT ![j] = "none"] \in Stamps
      BY DEF MapsOK, Stamps
    <3> QED BY <2>2, <3>1, QueuedTypes DEF RetryFires, MapsOK, GoroutinesOK, Stamps
  <2>3. CASE StrandedGone(j) BY <2>3 DEF StrandedGone, MapsOK
  <2>4. CASE StrandedRequeue(j)
    BY <2>4, QueuedTypes DEF StrandedRequeue, MapsOK, GoroutinesOK, Stamps
  <2> QED BY <1>3, <2>1, <2>2, <2>3, <2>4
<1>4. ASSUME NEW j \in Jobs, NEW name \in Names,
             handleInProgress(j, name) \/ BindRunner(j, name) \/ handleCompleted(j, name)
      PROVE  TypeOK'
  <2>1. CASE handleInProgress(j, name)
    BY <2>1, EventTypes DEF handleInProgress, Satisfied, MapsOK
  <2>2. CASE BindRunner(j, name) BY <2>2 DEF BindRunner, LedgerOK
  <2>3. CASE handleCompleted(j, name)
    BY <2>3 DEF handleCompleted, Satisfied, Unfile, MapsOK, LedgerOK, HandlersOK
  <2> QED BY <1>4, <2>1, <2>2, <2>3
<1>5. ASSUME NEW d \in Dispatches,
             TeardownCancel(d) \/ TeardownDestroy(d) \/ BusyCheck(d) \/ Reap(d)
      PROVE  TypeOK'
  <2>1. CASE TeardownCancel(d) BY <2>1 DEF TeardownCancel, HandlersOK, WorldOK
  <2>2. CASE TeardownDestroy(d)
    BY <2>2, DestroyedTypes DEF TeardownDestroy, HandlersOK, WorldOK
  <2>3. CASE BusyCheck(d) BY <2>3 DEF BusyCheck, HandlersOK
  <2>4. CASE Reap(d)
    BY <2>4 DEF Reap, Untrack, Unfile, Unbound, LedgerOK, HandlersOK
  <2> QED BY <1>5, <2>1, <2>2, <2>3, <2>4
<1>6. CASE Nominate BY <1>6 DEF Nominate, Unfile, LedgerOK, HandlersOK
<1>7. CASE HandlerStep BY <1>3, <1>4, <1>5, <1>6, <1>7 DEF HandlerStep
<1>8. CASE ClockStep
  <2>1. CASE cleanSeen
    <3>1. attempts' \in [Jobs -> 0..(MaxAttempts + 1)]
      <4>1. 0 \in 0..(MaxAttempts + 1) BY MaxAttemptsAssumption
      <4>2. \A j \in Jobs : attempts[j] \in 0..(MaxAttempts + 1) BY DEF MapsOK
      <4> QED BY <2>1, <4>1, <4>2 DEF cleanSeen
    <3>2. started' \subseteq Jobs BY <2>1 DEF cleanSeen, MapsOK
    <3> QED BY <2>1, <3>1, <3>2 DEF cleanSeen, MapsOK
  <2>2. ASSUME NEW j \in Jobs, SeenExpires(j) PROVE TypeOK'
    BY <2>2 DEF SeenExpires, MapsOK
  <2>3. ASSUME NEW d \in Dispatches, AgeRunner(d) PROVE TypeOK'
    BY <2>3 DEF AgeRunner, LedgerOK
  <2> QED BY <1>8, <2>1, <2>2, <2>3 DEF ClockStep
<1>9. CASE PlatformStep
  <2>1. ASSUME NEW d \in Dispatches, NEW j \in Jobs, Assign(d, j) PROVE TypeOK'
    <3>1. <<"in_progress", j, d>> \in Events BY EventTypes DEF Names
    <3> QED BY <2>1, <3>1, ReportTypes DEF Assign, WorldOK
  <2>2. ASSUME NEW d \in Dispatches, Finish(d) PROVE TypeOK'
    <3>1. <<"completed", exec[d], d>> \in Events
      BY <2>2, EventTypes DEF Finish, Names, WorldOK
    <3> QED BY <2>2, <3>1, ReportTypes DEF Finish, WorldOK
  <2>3. ASSUME NEW d \in Dispatches, RunnerExits(d) PROVE TypeOK'
    BY <2>3 DEF RunnerExits, WorldOK
  <2>4. ASSUME NEW j \in Jobs,
               RunElsewhere(j) \/ FinishElsewhere(j) \/ CancelQueued(j) \/ Poll(j)
        PROVE  TypeOK'
    <3>1. /\ <<"in_progress", j, Foreign>> \in Events /\ <<"completed", j, Foreign>> \in Events
          /\ <<"completed", j, NoRunner>> \in Events /\ <<"queued", j, NoRunner>> \in Events
      BY EventTypes DEF Names
    <3> QED BY <2>4, <3>1, ReportTypes
            DEF RunElsewhere, FinishElsewhere, CancelQueued, Poll, WorldOK
  <2>5. ASSUME NEW e \in events, Lose(e) PROVE TypeOK' BY <2>5 DEF Lose
  <2> QED BY <1>9, <2>1, <2>2, <2>3, <2>4, <2>5 DEF PlatformStep
<1>10. CASE Cordon \/ Uncordon BY <1>10 DEF Cordon, Uncordon, MapsOK
<1> QED BY <1>1, <1>2, <1>7, <1>8, <1>9, <1>10 DEF Next

------------------------------------------------------------------------------
(* The other conjuncts.  Most steps leave the dispatch goroutines alone. *)

Bystander ==
  \/ \E j \in Jobs : StrandedGone(j)
  \/ \E j \in Jobs, name \in Names :
       handleInProgress(j, name) \/ BindRunner(j, name) \/ handleCompleted(j, name)
  \/ \E d \in Dispatches : TeardownCancel(d) \/ TeardownDestroy(d) \/ BusyCheck(d) \/ Reap(d)
  \/ Nominate \/ ClockStep \/ PlatformStep \/ Cordon \/ Uncordon

Requeue(j) == DeliverQueued(j) \/ RetryFires(j) \/ StrandedRequeue(j)

\* A step is one of a dispatch goroutine, of handleQueued, or of neither.
LEMMA NextCases ==
  Next => \/ \E d \in Dispatches : DispatchStep(d)
          \/ \E j \in Jobs : Requeue(j)
          \/ Bystander
BY DEF Next, HandlerStep, Bystander, Requeue

\* Steps of the third kind touch neither goroutines nor slots.
LEMMA BystanderKeeps == Bystander => UNCHANGED <<gor, slots>>
<1> SUFFICES ASSUME Bystander PROVE UNCHANGED <<gor, slots>> OBVIOUS
<1>1. CASE \E j \in Jobs : StrandedGone(j) BY <1>1 DEF StrandedGone
<1>2. CASE \E j \in Jobs, name \in Names :
             handleInProgress(j, name) \/ BindRunner(j, name) \/ handleCompleted(j, name)
  BY <1>2 DEF handleInProgress, BindRunner, handleCompleted
<1>3. CASE \E d \in Dispatches :
             TeardownCancel(d) \/ TeardownDestroy(d) \/ BusyCheck(d) \/ Reap(d)
  BY <1>3 DEF TeardownCancel, TeardownDestroy, BusyCheck, Reap
<1>4. CASE Nominate BY <1>4 DEF Nominate
<1>5. CASE ClockStep BY <1>5 DEF ClockStep, cleanSeen, SeenExpires, AgeRunner
<1>6. CASE PlatformStep
  BY <1>6 DEF PlatformStep, Finish, RunnerExits, Assign, RunElsewhere, FinishElsewhere,
              CancelQueued, Poll, Lose
<1>7. CASE Cordon \/ Uncordon BY <1>7 DEF Cordon, Uncordon
<1> QED BY <1>1, <1>2, <1>3, <1>4, <1>5, <1>6, <1>7 DEF Bystander

\* handleQueued starts at most one goroutine, for this job.
LEMMA RequeueShape ==
  ASSUME NEW j \in Jobs, Requeue(j)
  PROVE  /\ UNCHANGED <<slots, ledger, handlers, world>>
         /\ \/ UNCHANGED <<pc, job>>
            \/ \E d \in Dispatches : /\ pc[d] = "free"
                                     /\ pc' = [pc EXCEPT ![d] = "slot"]
                                     /\ job' = [job EXCEPT ![d] = j]
<1>1. ASSUME NEW pend, NEW stamp, NEW r, handleQueued(j, pend, stamp, r)
      PROVE  \/ UNCHANGED <<pc, job>>
             \/ \E d \in Dispatches : /\ pc[d] = "free"
                                      /\ pc' = [pc EXCEPT ![d] = "slot"]
                                      /\ job' = [job EXCEPT ![d] = j]
  BY <1>1 DEF handleQueued, IgnoreDuplicate, RefuseCordoned, SkipZombie, StartDispatch,
              DeferMacOS, Goto
<1>2. CASE DeliverQueued(j) BY <1>1, <1>2 DEF DeliverQueued
<1>3. CASE RetryFires(j) BY <1>1, <1>3 DEF RetryFires
<1>4. CASE StrandedRequeue(j) BY <1>1, <1>4 DEF StrandedRequeue
<1> QED BY <1>2, <1>3, <1>4 DEF Requeue

\* slotToken.release ends the hold of its own dispatch and no other.
LEMMA ReleaseHolds ==
  ASSUME SlotsOK, NEW d \in Dispatches, ReleaseToken(d)
  PROVE  \A c \in Dispatches : token'[c] = "held" <=> token[c] = "held" /\ c # d
<1>1. CASE token[d] = "held" BY <1>1 DEF SlotsOK, ReleaseToken
<1>2. CASE token[d] # "held" BY <1>2 DEF SlotsOK, ReleaseToken, slots
<1> QED BY <1>1, <1>2

\* Every step keeps the relation of program point, job and token.
LEMMA PCStep == TypeOK /\ JobKnown /\ TokenAtPC /\ [Next]_vars => JobKnown' /\ TokenAtPC'
<1> SUFFICES ASSUME TypeOK, JobKnown, TokenAtPC, [Next]_vars PROVE JobKnown' /\ TokenAtPC'
  OBVIOUS
<1> USE DEF TypeOK, SlotsOK, GoroutinesOK, PC, JobKnown, TokenAtPC, Holding
<1>1. CASE UNCHANGED vars BY <1>1 DEF vars, gor, slots
<1>2. CASE Bystander BY <1>2, BystanderKeeps DEF gor, slots
<1>3. ASSUME NEW j \in Jobs, Requeue(j) PROVE JobKnown' /\ TokenAtPC'
  BY <1>3, RequeueShape DEF slots
<1>4. ASSUME NEW d \in Dispatches, DispatchStep(d) PROVE JobKnown' /\ TokenAtPC'
  <2> USE ReleaseHolds DEF Goto, slots, gor, Return
  <2>1. CASE AcquireSlot(d) \/ AcquireAfterWait(d)
    BY <2>1 DEF AcquireSlot, AcquireAfterWait, TakeSlot
  <2>2. CASE SlotBusy(d) \/ AskWanted(d) \/ ClaimOk(d) \/ CreateOk(d) \/ Unsee(d)
    BY <2>2 DEF SlotBusy, AskWanted, ClaimOk, CreateOk, Unsee
  <2>3. CASE ClaimGate(d) \/ ClaimFail(d) \/ CreateFail(d) \/ BootFail(d)
    <3> USE DEF ClaimGate, ClaimFail, CreateFail, BootFail, Fail
    <3>1. pc[d] \in {"gate", "claim", "create"} BY <2>3
    <3>2. pc' = [pc EXCEPT ![d] = "unsee"] \/ pc' = [pc EXCEPT ![d] = "claim"] BY <2>3
    <3>3. job' = job /\ token' = token BY <2>3
    <3> QED BY <3>1, <3>2, <3>3
  <2>4. ASSUME NEW from \in PC \ {"free"}, Return(d, from), job' = job
        PROVE  JobKnown' /\ TokenAtPC'
    BY <2>4
  <2>5. CASE \/ SlotGiveUp(d) \/ RefusePool(d) \/ AskGone(d) \/ enqueueRetryIfEligible(d)
             \/ StopBooted(d) \/ reprovisionIfStranded(d)
    BY <2>4, <2>5 DEF SlotGiveUp, RefusePool, AskGone, enqueueRetryIfEligible, StopBooted,
                      reprovisionIfStranded
  <2>6. CASE admitDispatch(d)
    <3>1. CASE Return(d, "admit") BY <2>4, <2>6, <3>1 DEF admitDispatch
    <3>2. CASE ~Return(d, "admit") BY <2>6, <3>2 DEF admitDispatch
    <3> QED BY <3>1, <3>2
  <2>7. CASE FailRelease(d) \/ ReleaseSlot(d)
    <3>1. /\ pc[d] \in {"fail", "release"} /\ job' = job
          /\ pc' = [pc EXCEPT ![d] = "failed"] \/ pc' = [pc EXCEPT ![d] = "destroy"]
      BY <2>7 DEF FailRelease, ReleaseSlot
    <3>2. ReleaseToken(d) BY <2>7 DEF FailRelease, ReleaseSlot
    <3> QED BY <3>1, <3>2
  <2>8. CASE trackRunning(d) \/ JobTimeout(d)
    <3>1. CASE trackRunning(d) BY <3>1 DEF trackRunning
    <3>2. CASE JobTimeout(d) BY <3>2 DEF JobTimeout
    <3> QED BY <2>8, <3>1, <3>2
  <2>9. CASE WaitReturns(d) \/ WaitTeardown(d) BY <2>9 DEF WaitReturns, WaitTeardown
  <2>10. CASE Recycle(d)
    <3>1. /\ pc[d] = "done" /\ pc' = [pc EXCEPT ![d] = "free"]
          /\ job' = [job EXCEPT ![d] = NoJob]
          /\ token' = [token EXCEPT ![d] = "none"]
      BY <2>10 DEF Recycle
    <3> QED BY <3>1
  <2> QED
    BY <1>4, <2>1, <2>2, <2>3, <2>5, <2>6, <2>7, <2>8, <2>9, <2>10 DEF DispatchStep
<1> QED BY <1>1, <1>2, <1>3, <1>4, NextCases

------------------------------------------------------------------------------
(* Slot accounting *)

\* The holders of a pool are finitely many, so they can be counted.
LEMMA HoldersFinite == \A p : IsFiniteSet(Holders(p))
<1> SUFFICES ASSUME NEW p PROVE IsFiniteSet(Holders(p)) OBVIOUS
<1>1. Holders(p) \subseteq Dispatches BY DEF Holders
<1> QED BY <1>1, DispatchesFinite, FS_Subset

\* Nobody's slot changes hands.
LEMMA KeepCount ==
  ASSUME SlotAccounting, sem' = sem,
         \A d \in Dispatches : /\ token'[d] = "held" <=> token[d] = "held"
                               /\ token[d] = "held" => job'[d] = job[d]
  PROVE  SlotAccounting'
<1>1. \A p : Holders(p)' = Holders(p) BY DEF Holders, PoolOf
<1> QED BY <1>1 DEF SlotAccounting

\* acquireSlot adds one to the semaphore and one holder to its pool.
LEMMA TakeCount ==
  ASSUME SlotAccounting, SlotsOK, NEW d \in Dispatches, job[d] \in Jobs, job' = job,
         token[d] # "held", TakeSlot(d)
  PROVE  SlotAccounting'
<1> SUFFICES ASSUME NEW p \in Paths
             PROVE  sem'[p] = Cardinality(Holders(p)') /\ sem'[p] <= Capacity[p]
  BY DEF SlotAccounting
<1> USE HoldersFinite, CapacityAssumption DEF SlotAccounting, SlotsOK
<1>0. PoolOf(d) \in Paths BY PathAssumption DEF PoolOf
<1>1. CASE PoolOf(d) = p
  <2>1. Holders(p)' = Holders(p) \cup {d} BY <1>1 DEF Holders, TakeSlot, PoolOf
  <2>2. d \notin Holders(p) BY DEF Holders
  <2>3. Cardinality(Holders(p)') = Cardinality(Holders(p)) + 1
    BY <2>1, <2>2, FS_AddElement
  <2>4. sem'[p] = sem[p] + 1 /\ sem[p] < Capacity[p] BY <1>1 DEF TakeSlot
  <2> QED BY <2>3, <2>4
<1>2. CASE PoolOf(d) # p
  <2>1. Holders(p)' = Holders(p) BY <1>2 DEF Holders, TakeSlot, PoolOf
  <2>2. sem'[p] = sem[p] BY <1>0, <1>2 DEF TakeSlot
  <2> QED BY <2>1, <2>2
<1> QED BY <1>1, <1>2

\* release takes one from the semaphore exactly when it ends a hold.
LEMMA ReleaseCount ==
  ASSUME SlotAccounting, SlotsOK, NEW d \in Dispatches, job[d] \in Jobs, job' = job,
         ReleaseToken(d)
  PROVE  SlotAccounting'
<1> SUFFICES ASSUME NEW p \in Paths
             PROVE  sem'[p] = Cardinality(Holders(p)') /\ sem'[p] <= Capacity[p]
  BY DEF SlotAccounting
<1> USE HoldersFinite, CapacityAssumption DEF SlotAccounting, SlotsOK
<1>0. PoolOf(d) \in Paths BY PathAssumption DEF PoolOf
<1>1. CASE PoolOf(d) = p /\ token[d] = "held"
  <2>1. Holders(p)' = Holders(p) \ {d} BY <1>1 DEF Holders, ReleaseToken, PoolOf
  <2>2. d \in Holders(p) BY <1>1 DEF Holders
  <2>3. Cardinality(Holders(p)') = Cardinality(Holders(p)) - 1
    BY <2>1, <2>2, FS_RemoveElement
  <2>4. sem'[p] = sem[p] - 1 BY <1>1 DEF ReleaseToken
  <2> QED BY <2>3, <2>4
<1>2. CASE PoolOf(d) # p \/ token[d] # "held"
  <2>1. Holders(p)' = Holders(p) BY <1>2 DEF Holders, ReleaseToken, PoolOf, slots
  <2>2. sem'[p] = sem[p] BY <1>0, <1>2 DEF ReleaseToken, slots
  <2> QED BY <2>1, <2>2
<1> QED BY <1>1, <1>2

\* Every step keeps the slot accounting.
LEMMA SlotStep ==
  TypeOK /\ JobKnown /\ TokenAtPC /\ SlotAccounting /\ [Next]_vars => SlotAccounting'
<1> SUFFICES ASSUME TypeOK, JobKnown, TokenAtPC, SlotAccounting, [Next]_vars
             PROVE  SlotAccounting'
  OBVIOUS
<1> USE DEF TypeOK
<1>1. ASSUME UNCHANGED <<slots, job>> PROVE SlotAccounting' BY <1>1, KeepCount DEF slots
<1>2. CASE UNCHANGED vars BY <1>1, <1>2 DEF vars, gor
<1>3. CASE Bystander BY <1>1, <1>3, BystanderKeeps DEF gor
<1>4. ASSUME NEW j \in Jobs, Requeue(j) PROVE SlotAccounting'
  <2>1. CASE UNCHANGED <<pc, job>> BY <1>1, <1>4, <2>1, RequeueShape
  <2>2. CASE \E d \in Dispatches : pc[d] = "free" /\ job' = [job EXCEPT ![d] = j]
    BY <1>4, <2>2, RequeueShape, KeepCount DEF slots, TokenAtPC, Holding, GoroutinesOK
  <2> QED BY <1>4, <2>1, <2>2, RequeueShape
<1>5. ASSUME NEW d \in Dispatches, DispatchStep(d) PROVE SlotAccounting'
  <2> USE DEF Goto, JobKnown
  <2>1. CASE AcquireSlot(d) \/ AcquireAfterWait(d)
    BY <2>1, TakeCount DEF AcquireSlot, AcquireAfterWait, TokenAtPC, Holding
  <2>2. CASE SlotBusy(d) \/ AskWanted(d) \/ ClaimOk(d) \/ CreateOk(d) \/ Unsee(d)
    BY <1>1, <2>2 DEF SlotBusy, AskWanted, ClaimOk, CreateOk, Unsee
  <2>3. CASE ClaimGate(d) \/ ClaimFail(d) \/ CreateFail(d) \/ BootFail(d)
    BY <1>1, <2>3 DEF ClaimGate, ClaimFail, CreateFail, BootFail
  <2>4. ASSUME NEW from \in PC \ {"free"}, Return(d, from), job' = job PROVE SlotAccounting'
    BY <2>4, ReleaseCount DEF Return
  <2>5. CASE \/ SlotGiveUp(d) \/ RefusePool(d) \/ AskGone(d) \/ enqueueRetryIfEligible(d)
             \/ StopBooted(d) \/ reprovisionIfStranded(d)
    BY <2>4, <2>5 DEF SlotGiveUp, RefusePool, AskGone, enqueueRetryIfEligible, StopBooted,
                      reprovisionIfStranded, PC
  <2>6. CASE admitDispatch(d) BY <1>1, <2>4, <2>6 DEF admitDispatch, PC
  <2>7. CASE FailRelease(d) \/ ReleaseSlot(d)
    BY <2>7, ReleaseCount DEF FailRelease, ReleaseSlot
  <2>8. CASE trackRunning(d) \/ JobTimeout(d) \/ WaitReturns(d) \/ WaitTeardown(d)
    BY <1>1, <2>8 DEF trackRunning, JobTimeout, WaitReturns, WaitTeardown, gor
  <2>9. CASE Recycle(d)
    BY <2>9, KeepCount DEF Recycle, TokenAtPC, Holding, SlotsOK, GoroutinesOK
  <2> QED BY <1>5, <2>1, <2>2, <2>3, <2>5, <2>6, <2>7, <2>8, <2>9 DEF DispatchStep
<1> QED BY <1>2, <1>3, <1>4, <1>5, NextCases

------------------------------------------------------------------------------
(* Tracked runners *)

\* A runner filed under one job is filed under no other.
LEMMA FiledOnce ==
  ASSUME TrackedWaits, NEW j \in Jobs, NEW k \in Jobs, running[j] # NoRunner,
         running[k] = running[j]
  PROVE  k = j
BY DEF TrackedWaits

\* Runners leave the map, and only runners that left it lose their record.
LEMMA UntrackKeeps ==
  ASSUME TypeOK, TrackedWaits, UNCHANGED <<pc, job>>,
         \A k \in Jobs : running'[k] # NoRunner =>
            running'[k] = running[k] /\ running[k] \in runners'
  PROVE  TrackedWaits'
BY DEF TrackedWaits

\* Every step keeps tracked dispatches at their wait.
LEMMA TrackedStep ==
  TypeOK /\ JobKnown /\ TrackedWaits /\ [Next]_vars => TrackedWaits'
<1> SUFFICES ASSUME TypeOK, JobKnown, TrackedWaits, [Next]_vars PROVE TrackedWaits'
  OBVIOUS
<1> USE NullAssumption DEF TypeOK, LedgerOK, GoroutinesOK
<1>1. ASSUME UNCHANGED <<pc, job, running, runners>> PROVE TrackedWaits'
  BY <1>1 DEF TrackedWaits
<1>2. CASE UNCHANGED vars BY <1>1, <1>2 DEF vars, gor, ledger
<1>3. ASSUME NEW j \in Jobs, Requeue(j) PROVE TrackedWaits'
  <2>1. UNCHANGED ledger BY <1>3, RequeueShape
  <2>2. CASE UNCHANGED <<pc, job>> BY <1>1, <2>1, <2>2 DEF ledger
  <2>3. ASSUME NEW d \in Dispatches, pc[d] = "free", pc' = [pc EXCEPT ![d] = "slot"],
               job' = [job EXCEPT ![d] = j]
        PROVE  TrackedWaits'
    BY <2>1, <2>3 DEF ledger, TrackedWaits
  <2> QED BY <1>3, <2>2, <2>3, RequeueShape
<1>4. ASSUME NEW d \in Dispatches, DispatchStep(d) PROVE TrackedWaits'
  \* A dispatch that is not waiting is filed nowhere: its own steps do not matter.
  <2>1. ASSUME pc[d] # "wait", UNCHANGED ledger,
               \A c \in Dispatches \ {d} : pc'[c] = pc[c] /\ job'[c] = job[c]
        PROVE  TrackedWaits'
    BY <2>1 DEF ledger, TrackedWaits
  <2> USE DEF Goto, Return, Fail
  <2>2. CASE \/ AcquireSlot(d) \/ AcquireAfterWait(d) \/ SlotBusy(d) \/ SlotGiveUp(d)
             \/ RefusePool(d)
    BY <2>1, <2>2 DEF AcquireSlot, AcquireAfterWait, SlotBusy, SlotGiveUp, RefusePool
  <2>3. CASE admitDispatch(d) \/ AskGone(d) \/ AskWanted(d)
    BY <2>1, <2>3 DEF admitDispatch, AskGone, AskWanted
  <2>4. CASE \/ ClaimGate(d) \/ ClaimOk(d) \/ ClaimFail(d) \/ CreateOk(d) \/ CreateFail(d)
             \/ BootFail(d)
    BY <2>1, <2>4 DEF ClaimGate, ClaimOk, ClaimFail, CreateOk, CreateFail, BootFail
  <2>5. CASE Unsee(d) \/ FailRelease(d) \/ enqueueRetryIfEligible(d) \/ StopBooted(d)
    BY <2>1, <2>5 DEF Unsee, FailRelease, enqueueRetryIfEligible, StopBooted
  <2>6. CASE ReleaseSlot(d) \/ WaitTeardown(d) \/ reprovisionIfStranded(d) \/ Recycle(d)
    BY <2>1, <2>6 DEF ReleaseSlot, WaitTeardown, reprovisionIfStranded, Recycle
  <2>7. CASE JobTimeout(d) BY <1>1, <2>7 DEF JobTimeout, gor, ledger
  <2>8. CASE trackRunning(d)
    BY <2>8 DEF trackRunning, TrackedWaits, JobKnown
  <2>9. CASE WaitReturns(d)
    <3> DEFINE r == running[job[d]]
    <3>1. job[d] \in Jobs /\ job' = job BY <2>9 DEF WaitReturns, JobKnown
    <3>2. CASE r = NoRunner
      BY <2>9, <3>1, <3>2 DEF WaitReturns, TrackedWaits, ledger
    <3>3. CASE r # NoRunner
      <4>1. /\ running' = [running EXCEPT ![job[d]] = NoRunner]
            /\ runners' = runners \ {r}
        BY <2>9, <3>3 DEF WaitReturns, Untrack, Unfile
      <4>2. \A k \in Jobs : running'[k] # NoRunner => k # job[d] /\ running[k] \notin {d, r}
        BY <3>1, <3>3, <4>1, FiledOnce DEF TrackedWaits
      <4> QED BY <2>9, <3>1, <4>1, <4>2 DEF WaitReturns, TrackedWaits
    <3> QED BY <3>2, <3>3
  <2> QED BY <1>4, <2>2, <2>3, <2>4, <2>5, <2>6, <2>7, <2>8, <2>9 DEF DispatchStep
<1>5. CASE Bystander
  <2>0. UNCHANGED <<pc, job>> BY <1>5, BystanderKeeps DEF gor
  <2>1. ASSUME UNCHANGED <<running, runners>> PROVE TrackedWaits' BY <1>1, <2>0, <2>1
  <2>2. CASE \E j \in Jobs : StrandedGone(j) BY <2>1, <2>2 DEF StrandedGone, ledger
  <2>3. ASSUME NEW j \in Jobs, NEW name \in Names,
               handleInProgress(j, name) \/ BindRunner(j, name)
        PROVE  TrackedWaits'
    BY <2>1, <2>3 DEF handleInProgress, BindRunner, ledger
  <2>4. ASSUME NEW j \in Jobs, NEW name \in Names, handleCompleted(j, name)
        PROVE  TrackedWaits'
    <3> DEFINE R == CompletedRunner(j, name)
    <3>1. /\ running' = [k \in Jobs |-> IF running[k] \in R THEN NoRunner ELSE running[k]]
          /\ runners' = runners \ (R \cup {name})
      BY <2>4 DEF handleCompleted, Unfile
    \* A runner the event names and that is filed somewhere is one it tears down.
    <3>2. \A k \in Jobs : running[k] # NoRunner /\ running[k] = name => name \in R
      BY DEF CompletedRunner, TrackedWaits
    <3>3. \A k \in Jobs : running'[k] # NoRunner =>
             running'[k] = running[k] /\ running[k] \in runners'
      <4> HIDE DEF R
      <4> QED BY <3>1, <3>2 DEF TrackedWaits
    <3> QED BY <2>0, <3>3, UntrackKeeps
  <2>5. ASSUME NEW d \in Dispatches, TeardownCancel(d) \/ TeardownDestroy(d) \/ BusyCheck(d)
        PROVE  TrackedWaits'
    BY <2>1, <2>5 DEF TeardownCancel, TeardownDestroy, BusyCheck, ledger
  <2>6. ASSUME NEW d \in Dispatches, Reap(d) PROVE TrackedWaits'
    <3>1. CASE d \in Unbound /\ running[job[d]] = d
      <4>1. /\ running' = [running EXCEPT ![job[d]] = NoRunner]
            /\ runners' = runners \ {d}
        BY <2>6, <3>1 DEF Reap, Untrack, Unfile
      <4>2. \A k \in Jobs : running'[k] # NoRunner =>
               running'[k] = running[k] /\ running[k] \in runners'
        BY <4>1 DEF TrackedWaits
      <4> QED BY <2>0, <4>2, UntrackKeeps
    <3>2. CASE ~(d \in Unbound /\ running[job[d]] = d)
      <4>1. /\ running' = running
            /\ runners' = runners \ {r \in {d} \cap Unbound : running[job[r]] = NoRunner}
        BY <2>6, <3>2 DEF Reap, Unfile
      <4>2. \A k \in Jobs : running'[k] # NoRunner =>
               running'[k] = running[k] /\ running[k] \in runners'
        BY <4>1 DEF TrackedWaits
      <4> QED BY <2>0, <4>2, UntrackKeeps
    <3> QED BY <3>1, <3>2
  <2>7. CASE Nominate
    <3>1. PICK P : /\ running' = running
                   /\ runners' = runners \ {d \in P : running[job[d]] = NoRunner}
      BY <2>7 DEF Nominate, Unfile
    <3>2. \A k \in Jobs : running'[k] # NoRunner =>
             running'[k] = running[k] /\ running[k] \in runners'
      BY <3>1 DEF TrackedWaits
    <3> QED BY <2>0, <3>2, UntrackKeeps
  <2>8. CASE ClockStep
    BY <2>1, <2>8 DEF ClockStep, cleanSeen, SeenExpires, AgeRunner, ledger
  <2>9. CASE PlatformStep
    BY <2>1, <2>9 DEF PlatformStep, Finish, RunnerExits, Assign, RunElsewhere,
                      FinishElsewhere, CancelQueued, Poll, Lose, ledger
  <2>10. CASE Cordon \/ Uncordon BY <2>1, <2>10 DEF Cordon, Uncordon, ledger
  <2> QED
    BY <1>5, <2>2, <2>3, <2>4, <2>5, <2>6, <2>7, <2>8, <2>9, <2>10 DEF Bystander
<1> QED BY <1>2, <1>3, <1>4, <1>5, NextCases

------------------------------------------------------------------------------

\* Every step keeps the inductive invariant.
LEMMA IInvStep == IInv /\ [Next]_vars => IInv'
BY TypeStep, PCStep, SlotStep, TrackedStep DEF IInv

\* IInv holds in every reachable state.
THEOREM Inductive == Spec => []IInv
BY InitIInv, IInvStep, PTL DEF Spec

\* The maps, the ledger, the goroutines' locals and the event traffic keep their
\* types; in particular attempts never exceeds maxProvisionAttempts + 1.
THEOREM TypeCorrect == Spec => []TypeOK
<1>1. IInv => TypeOK BY DEF IInv
<1> QED BY <1>1, Inductive, PTL

\* Every semaphore's length is the number of dispatches holding one of its
\* slots and is within its capacity, whatever path each dispatch leaves by.
THEOREM SlotsAccounted == Spec => []SlotAccounting
<1>1. IInv => SlotAccounting BY DEF IInv
<1> QED BY <1>1, Inductive, PTL

\* A tracked runner's own dispatch still waits on it and holds its slot.
THEOREM TrackedHolds == Spec => []TrackedHoldsSlot
<1>1. IInv => TrackedHoldsSlot
  BY NullAssumption
     DEF IInv, TypeOK, LedgerOK, TrackedWaits, TokenAtPC, Holding, TrackedHoldsSlot
<1> QED BY <1>1, Inductive, PTL

------------------------------------------------------------------------------
(* No job is shut out by its pending mark *)

\* A dispatch that is not admitting moves to no admission, whatever becomes of
\* the marks of others.
LEMMA AdmittingAside ==
  ASSUME PendingHasDispatch, pending' \subseteq pending,
         \A d \in Dispatches : Admitting(d) => Admitting(d)' /\ job'[d] = job[d]
  PROVE  PendingHasDispatch'
BY DEF PendingHasDispatch

\* A dispatch that stops admitting clears the mark of its job.
LEMMA MarkCleared ==
  ASSUME PendingHasDispatch, NEW d \in Dispatches, pending' = pending \ {job[d]}, UNCHANGED job,
         \A c \in Dispatches : c # d => Admitting(c)' = Admitting(c)
  PROVE  PendingHasDispatch'
BY DEF PendingHasDispatch

LEMMA PendingStep == IInv /\ PendingHasDispatch /\ [Next]_vars => PendingHasDispatch'
<1> SUFFICES ASSUME IInv, PendingHasDispatch, [Next]_vars PROVE PendingHasDispatch'
  OBVIOUS
<1>0. TypeOK /\ JobKnown
  BY DEF IInv
<1>1. CASE UNCHANGED vars
  BY <1>1, AdmittingAside DEF vars, maps, gor, Admitting
<1>2. CASE Bystander
  <2>1. UNCHANGED <<pc, job>>
    BY <1>2, BystanderKeeps DEF gor
  <2>2. UNCHANGED pending
    <3>1. CASE \E j \in Jobs : StrandedGone(j) BY <3>1 DEF StrandedGone
    <3>2. CASE \E j \in Jobs, name \in Names :
                 handleInProgress(j, name) \/ BindRunner(j, name) \/ handleCompleted(j, name)
      BY <3>2 DEF handleInProgress, BindRunner, handleCompleted, maps
    <3>3. CASE \E d \in Dispatches : TeardownCancel(d) \/ TeardownDestroy(d) \/ BusyCheck(d) \/ Reap(d)
      BY <3>3 DEF TeardownCancel, TeardownDestroy, BusyCheck, Reap, maps
    <3>4. CASE Nominate BY <3>4 DEF Nominate, maps
    <3>5. CASE ClockStep BY <3>5 DEF ClockStep, cleanSeen, SeenExpires, AgeRunner, maps
    <3>6. CASE PlatformStep
      BY <3>6 DEF PlatformStep, Finish, RunnerExits, Assign, RunElsewhere, FinishElsewhere, CancelQueued, Poll, Lose, maps
    <3>7. CASE Cordon \/ Uncordon BY <3>7 DEF Cordon, Uncordon
    <3> QED BY <1>2, <3>1, <3>2, <3>3, <3>4, <3>5, <3>6, <3>7 DEF Bystander
  <2> QED BY <2>1, <2>2, AdmittingAside DEF Admitting
<1>3. ASSUME NEW j \in Jobs, Requeue(j) PROVE PendingHasDispatch'
  <2>1. PICK pend \in SUBSET pending : \E stamp, r : handleQueued(j, pend, stamp, r)
    <3>1. ASSUME DeliverQueued(j) \/ StrandedRequeue(j) PROVE handleQueued(j, pending, seen, FALSE)
      BY <3>1 DEF DeliverQueued, StrandedRequeue
    <3>2. ASSUME RetryFires(j) PROVE handleQueued(j, pending \ {j}, [seen EXCEPT ![j] = "none"], TRUE)
      BY <3>2 DEF RetryFires
    <3> QED BY <1>3, <3>1, <3>2 DEF Requeue
  <2>2. CASE UNCHANGED <<pc, job>> /\ pending' \subseteq pending
    BY <2>2, AdmittingAside DEF Admitting
  <2>3. ASSUME pending' = pend \cup {j}, NEW d \in Dispatches, Goto(d, "free", "slot"), job' = [job EXCEPT ![d] = j]
        PROVE  PendingHasDispatch'
    <3>1. pc[d] = "free" /\ \A c \in Dispatches : /\ pc'[c] = IF c = d THEN "slot" ELSE pc[c]
                                                  /\ job'[c] = IF c = d THEN j ELSE job[c]
      BY <1>0, <2>3 DEF Goto, TypeOK, GoroutinesOK
    <3>2. Admitting(d)' /\ ~Admitting(d) /\ \A c \in Dispatches : c # d => Admitting(c)' = Admitting(c)
      BY <3>1 DEF Admitting
    <3> QED BY <2>1, <2>3, <3>1, <3>2 DEF PendingHasDispatch
  <2> QED BY <2>1, <2>2, <2>3
      DEF handleQueued, IgnoreDuplicate, DeferMacOS, RefuseCordoned, SkipZombie, StartDispatch
<1>4. ASSUME NEW d \in Dispatches, DispatchStep(d) PROVE PendingHasDispatch'
  <2>1. ASSUME NEW to, pc' = [pc EXCEPT ![d] = to], UNCHANGED job, pending' = pending \ {job[d]}
        PROVE  PendingHasDispatch'
    <3>1. \A c \in Dispatches : c # d => pc'[c] = pc[c]
      BY <1>0, <2>1 DEF TypeOK, GoroutinesOK
    <3> QED BY <2>1, <3>1, MarkCleared DEF Admitting
  <2>2. ASSUME NEW to, pc' = [pc EXCEPT ![d] = to], UNCHANGED <<job, pending>>,
               to \in {"slot", "blocked", "admit"} \/ pc[d] \notin {"slot", "blocked", "admit"}
        PROVE  PendingHasDispatch'
    <3>1. \A c \in Dispatches : pc'[c] = IF c = d THEN to ELSE pc[c]
      BY <1>0, <2>2 DEF TypeOK, GoroutinesOK
    <3> QED BY <2>2, <3>1, AdmittingAside DEF Admitting
  <2> USE DEF Goto, Return, Fail, maps
  <2>3. CASE SlotGiveUp(d) \/ RefusePool(d) \/ admitDispatch(d) \/ Unsee(d)
    BY <2>1, <2>3 DEF SlotGiveUp, RefusePool, admitDispatch, Unsee, Unstamp
  <2>4. CASE AcquireSlot(d) \/ SlotBusy(d) \/ AcquireAfterWait(d) \/ AskGone(d) \/ AskWanted(d) \/ ClaimGate(d)
    BY <2>2, <2>4 DEF AcquireSlot, SlotBusy, AcquireAfterWait, AskGone, AskWanted, ClaimGate
  <2>5. CASE ClaimOk(d) \/ ClaimFail(d) \/ CreateOk(d) \/ CreateFail(d) \/ BootFail(d)
    BY <2>2, <2>5 DEF ClaimOk, ClaimFail, CreateOk, CreateFail, BootFail
  <2>6. CASE reprovisionIfStranded(d) \/ enqueueRetryIfEligible(d) \/ FailRelease(d) \/ StopBooted(d)
    BY <2>2, <2>6 DEF reprovisionIfStranded, enqueueRetryIfEligible, FailRelease, StopBooted
  <2>7. CASE trackRunning(d) \/ WaitReturns(d) \/ ReleaseSlot(d) \/ WaitTeardown(d)
    BY <2>2, <2>7 DEF trackRunning, WaitReturns, ReleaseSlot, WaitTeardown
  <2>8. CASE JobTimeout(d)
    BY <2>8, AdmittingAside DEF JobTimeout, gor, Admitting
  <2>9. CASE Recycle(d)
    <3>1. /\ pc[d] = "done" /\ UNCHANGED pending
          /\ \A c \in Dispatches : c # d => pc'[c] = pc[c] /\ job'[c] = job[c]
      BY <1>0, <2>9 DEF Recycle, TypeOK, GoroutinesOK
    <3> QED BY <3>1, AdmittingAside DEF Admitting
  <2> QED BY <1>4, <2>3, <2>4, <2>5, <2>6, <2>7, <2>8, <2>9 DEF DispatchStep
<1> QED BY <1>1, <1>2, <1>3, <1>4, NextCases

\* A job marked pending always has a dispatch of its own that will clear the
\* mark, on every way out of the wait for a slot and when a retry starts another
\* dispatch over the mark of the first.
THEOREM PendingIsCleared == Spec => []PendingHasDispatch
<1>1. Init => PendingHasDispatch
  BY DEF Init, PendingHasDispatch
<1> QED BY <1>1, PendingStep, Inductive, PTL DEF Spec

------------------------------------------------------------------------------
(* Nothing is left behind *)

\* The program points before a runner is up.
Early == {"free", "slot", "blocked", "admit", "ask", "gate", "claim", "create"}

\* At most one runner of a job is up on this node at a time, except on the Linux
\* path, whose wait goroutine destroys its own runner whatever it untracked.
OneRunnerPerJob ==
  \A c, d \in Dispatches :
    c # d /\ {pc[c], pc[d]} \subseteq {"track", "wait"} /\ job[c] = job[d] => PoolOf(d) = "linux"

Clean(d) == env[d] \in {"none", "gone"}

\* Who will destroy the environment of dispatch d: a failed boot its own
\* goroutine, a runner that is filed or was untracked by its wait goroutine that
\* goroutine, and any other a teardown under way.
OwnedEnv(d) ==
  /\ pc[d] \in Early => Clean(d)
  /\ pc[d] \in {"unsee", "fail", "failed"} => Clean(d) \/ failure[d] = "boot"
  /\ pc[d] = "wait" =>
       Clean(d) \/ teardown[d] # "no" \/ running[job[d]] = d \/ PoolOf(d) = "linux"
  /\ pc[d] \in {"release", "destroy"} =>
       Clean(d) \/ teardown[d] # "no" \/ rj[d] = d \/ PoolOf(d) = "linux"
  /\ pc[d] \in {"strand", "done"} => Clean(d) \/ teardown[d] # "no"
EnvsOwned == \A d \in Dispatches : OwnedEnv(d)

\* A dispatch that does not move keeps its owner when nobody untracks its runner
\* without taking it over, and no teardown ends without destroying it.
LEMMA OwnerStays ==
  ASSUME NEW d \in Dispatches, OwnedEnv(d),
         pc'[d] = pc[d], job'[d] = job[d], rj'[d] = rj[d], failure'[d] = failure[d],
         Clean(d) => Clean(d)',
         teardown[d] # "no" => teardown'[d] # "no" \/ Clean(d)',
         pc[d] = "wait" /\ PoolOf(d) # "linux" /\ running[job[d]] = d =>
           running'[job[d]] = d \/ teardown'[d] # "no"
  PROVE  OwnedEnv(d)'
BY DEF OwnedEnv, PoolOf

\* A destroyed environment is gone, and no other is brought back.
LEMMA DestroyedClean ==
  ASSUME WorldOK, NEW V, Destroyed(V)
  PROVE  /\ \A d \in Dispatches : Clean(d) => Clean(d)'
         /\ \A d \in Dispatches : d \in V => Clean(d)'
BY DEF Destroyed, Clean, WorldOK

\* Every step keeps each environment owned.
LEMMA OwnedStep ==
  IInv /\ EnvsOwned /\ OneRunnerPerJob /\ [Next]_vars => EnvsOwned'
<1> SUFFICES ASSUME IInv, EnvsOwned, OneRunnerPerJob, [Next]_vars PROVE EnvsOwned'
  OBVIOUS
<1> USE NullAssumption DEF IInv, TypeOK
<1>1. ASSUME UNCHANGED <<pc, job, rj, failure, env, teardown, running>> PROVE EnvsOwned'
  BY <1>1, OwnerStays DEF EnvsOwned, Clean
<1>2. CASE UNCHANGED vars BY <1>1, <1>2 DEF vars, gor, ledger, handlers, world
<1>3. ASSUME NEW j \in Jobs, Requeue(j) PROVE EnvsOwned'
  <2>1. UNCHANGED <<rj, failure, env, teardown, running>>
    <3>1. UNCHANGED <<rj, failure>>
      BY <1>3 DEF Requeue, DeliverQueued, RetryFires, StrandedRequeue
    <3> QED BY <1>3, <3>1, RequeueShape DEF ledger, handlers, world
  <2>2. CASE UNCHANGED <<pc, job>> BY <1>1, <2>1, <2>2
  <2>3. ASSUME NEW c \in Dispatches, pc[c] = "free", pc' = [pc EXCEPT ![c] = "slot"],
               job' = [job EXCEPT ![c] = j]
        PROVE  EnvsOwned'
    <3>1. ASSUME NEW d \in Dispatches, d # c PROVE OwnedEnv(d)'
      BY <2>1, <2>3, <3>1, OwnerStays DEF EnvsOwned, Clean, GoroutinesOK
    <3>2. OwnedEnv(c)'
      BY <2>1, <2>3 DEF EnvsOwned, OwnedEnv, Clean, Early, GoroutinesOK
    <3> QED BY <3>1, <3>2 DEF EnvsOwned
  <2> QED BY <1>3, <2>2, <2>3, RequeueShape
<1>4. ASSUME NEW c \in Dispatches, DispatchStep(c) PROVE EnvsOwned'
  \* The others: their environments, teardowns and records, if it is not a step
  \* that files or untracks one.
  <2> USE DEF Goto, GoroutinesOK
  <2>1. ASSUME OwnedEnv(c)', \E at : pc' = [pc EXCEPT ![c] = at], teardown' = teardown,
               \A d \in Dispatches \ {c} :
                 /\ job'[d] = job[d] /\ rj'[d] = rj[d] /\ failure'[d] = failure[d]
                 /\ Clean(d) => Clean(d)'
                 /\ pc[d] = "wait" /\ PoolOf(d) # "linux" /\ running[job[d]] = d =>
                      running'[job[d]] = d
        PROVE  EnvsOwned'
    <3>1. ASSUME NEW d \in Dispatches \ {c} PROVE OwnedEnv(d)'
      BY <2>1, <3>1, OwnerStays DEF EnvsOwned
    <3> QED BY <2>1, <3>1 DEF EnvsOwned
  \* Steps before an environment exists.
  <2>2. ASSUME Clean(c), Clean(c)', \E at \in PC \ {"track"} : pc' = [pc EXCEPT ![c] = at],
               teardown' = teardown, env' = [env EXCEPT ![c] = env'[c]],
               job' = [job EXCEPT ![c] = job'[c]], rj' = [rj EXCEPT ![c] = rj'[c]],
               failure' = [failure EXCEPT ![c] = failure'[c]], running' = running
        PROVE  EnvsOwned'
    <3>1. OwnedEnv(c)'
      BY <2>2 DEF OwnedEnv
    <3> QED BY <2>1, <2>2, <3>1 DEF Clean, WorldOK
  <2>3. ASSUME NEW from \in Early, Return(c, from), UNCHANGED <<job, ledger, handlers, world>>
        PROVE  EnvsOwned'
    <3>1. Clean(c) /\ Clean(c)'
      BY <2>3 DEF Return, EnvsOwned, OwnedEnv, Clean, world
    <3> QED BY <2>2, <2>3, <3>1 DEF Return, ledger, handlers, world, WorldOK, PC
  <2> USE DEF Early
  <2>4. CASE AcquireSlot(c) \/ AcquireAfterWait(c) \/ SlotBusy(c)
    <3>1. Clean(c) /\ Clean(c)'
      BY <2>4 DEF AcquireSlot, AcquireAfterWait, SlotBusy, EnvsOwned, OwnedEnv, Clean, world
    <3> QED BY <2>2, <2>4, <3>1 DEF AcquireSlot, AcquireAfterWait, SlotBusy, ledger, handlers, world, WorldOK, PC
  <2>5. CASE SlotGiveUp(c) \/ RefusePool(c) \/ AskGone(c)
    BY <2>3, <2>5 DEF SlotGiveUp, RefusePool, AskGone, ledger, handlers
  <2>6. CASE admitDispatch(c)
    <3>1. CASE Return(c, "admit")
      BY <2>3, <2>6, <3>1 DEF admitDispatch
    <3>2. CASE ~Return(c, "admit")
      <4>1. Clean(c) /\ Clean(c)'
        BY <2>6, <3>2 DEF admitDispatch, EnvsOwned, OwnedEnv, Clean, world
      <4> QED BY <2>2, <2>6, <3>2, <4>1 DEF admitDispatch, ledger, handlers, world, WorldOK, PC
    <3> QED BY <3>1, <3>2
  <2>7. CASE AskWanted(c) \/ ClaimGate(c) \/ ClaimFail(c) \/ ClaimOk(c) \/ CreateFail(c)
    <3>1. Clean(c) /\ Clean(c)' /\ env' = env
      BY <2>7 DEF AskWanted, ClaimGate, ClaimFail, ClaimOk, CreateFail, Fail, EnvsOwned, OwnedEnv, Clean, world
    <3> QED BY <2>2, <2>7, <3>1 DEF AskWanted, ClaimGate, ClaimFail, ClaimOk, CreateFail, Fail, ledger, handlers, world,
               WorldOK, PC
  <2>8. CASE CreateOk(c)
    <3>1. OwnedEnv(c)'
      BY <2>8 DEF CreateOk, OwnedEnv
    <3> QED BY <2>1, <2>8, <3>1 DEF CreateOk, Clean, ledger, handlers, WorldOK
  <2>9. CASE BootFail(c)
    <3>1. OwnedEnv(c)'
      BY <2>9 DEF BootFail, Fail, OwnedEnv
    <3> QED BY <2>1, <2>9, <3>1 DEF BootFail, Fail, Clean, ledger, handlers, WorldOK
  <2>10. CASE Unsee(c) \/ FailRelease(c)
    <3>1. OwnedEnv(c)'
      BY <2>10 DEF Unsee, FailRelease, EnvsOwned, OwnedEnv, Clean, world, PC
    <3> QED BY <2>1, <2>10, <3>1 DEF Unsee, FailRelease, Clean, ledger, handlers, world
  <2>11. CASE enqueueRetryIfEligible(c)
    <3>1. OwnedEnv(c)'
      BY <2>11 DEF enqueueRetryIfEligible, Return, EnvsOwned, OwnedEnv, Clean, world
    <3> QED BY <2>1, <2>11, <3>1 DEF enqueueRetryIfEligible, Return, Clean, ledger, handlers, world
  <2>12. CASE StopBooted(c)
    <3>1. Clean(c)' /\ \A d \in Dispatches : Clean(d) => Clean(d)'
      BY <2>12, DestroyedClean DEF StopBooted
    <3>2. OwnedEnv(c)'
      BY <2>12, <3>1 DEF StopBooted, Return, OwnedEnv
    <3> QED BY <2>1, <2>12, <3>1, <3>2 DEF StopBooted, Return, ledger, handlers
  <2>13. CASE trackRunning(c)
    <3>1. job[c] \in Jobs /\ job' = job /\ running' = [running EXCEPT ![job[c]] = c]
          /\ pc[c] = "track" /\ pc' = [pc EXCEPT ![c] = "wait"] /\ UNCHANGED <<rj, failure, env, teardown>>
      BY <2>13 DEF trackRunning, JobKnown, handlers, world
    <3>2. running'[job'[c]] = c
      BY <3>1 DEF LedgerOK
    <3>3. OwnedEnv(c)'
      BY <3>1, <3>2 DEF OwnedEnv
    <3>4. ASSUME NEW d \in Dispatches \ {c}, pc[d] = "wait", PoolOf(d) # "linux", running[job[d]] = d
          PROVE  running'[job[d]] = d
      BY <3>1, <3>4 DEF OneRunnerPerJob, LedgerOK, JobKnown
    <3> QED BY <2>1, <3>1, <3>3, <3>4 DEF Clean
  <2>14. CASE JobTimeout(c)
    BY <1>1, <2>14 DEF JobTimeout, gor, ledger, handlers
  <2>15. CASE WaitReturns(c)
    <3> DEFINE r == running[job[c]]
    <3>1. /\ job[c] \in Jobs /\ job' = job /\ rj' = [rj EXCEPT ![c] = r]
          /\ pc[c] = "wait" /\ pc' = [pc EXCEPT ![c] = "release"] /\ UNCHANGED <<failure, env, teardown>>
          /\ running' = [running EXCEPT ![job[c]] = NoRunner] \/ running' = running
      BY <2>15 DEF WaitReturns, JobKnown, handlers, world, Untrack, ledger
    <3>2. OwnedEnv(c)'
      BY <3>1 DEF EnvsOwned, OwnedEnv, Clean, PoolOf
    <3>4. ASSUME NEW d \in Dispatches \ {c}, pc[d] = "wait", PoolOf(d) # "linux", running[job[d]] = d
          PROVE  running'[job[d]] = d
      BY <3>1, <3>4 DEF OneRunnerPerJob, LedgerOK, JobKnown
    <3> QED BY <2>1, <3>1, <3>2, <3>4 DEF Clean
  <2>16. CASE ReleaseSlot(c)
    <3>1. OwnedEnv(c)'
      BY <2>16 DEF ReleaseSlot, EnvsOwned, OwnedEnv, Clean, PoolOf, handlers, world
    <3> QED BY <2>1, <2>16, <3>1 DEF ReleaseSlot, Clean, ledger, handlers, world
  <2>17. CASE WaitTeardown(c)
    <3>0. pc[c] = "destroy" /\ PoolOf(c) \in {"local", "linux", "macos"}
      BY <2>17, PathAssumption DEF WaitTeardown, PoolOf, JobKnown
    <3>1. /\ c \in Victims(c) => Clean(c)'
          /\ \A d \in Dispatches : Clean(d) => Clean(d)'
      BY <2>17, DestroyedClean DEF WaitTeardown
    <3>2. PoolOf(c) = "linux" \/ rj[c] = c => c \in Victims(c)
      BY <3>0 DEF Victims
    <3>3. Clean(c)' \/ teardown[c] # "no"
      BY <3>0, <3>1, <3>2 DEF EnvsOwned, OwnedEnv
    <3>4. OwnedEnv(c)'
      BY <2>17, <3>3 DEF WaitTeardown, OwnedEnv, handlers
    <3> QED BY <2>1, <2>17, <3>1, <3>4 DEF WaitTeardown, ledger, handlers
  <2>18. CASE reprovisionIfStranded(c)
    <3>1. OwnedEnv(c)'
      BY <2>18 DEF reprovisionIfStranded, Return, EnvsOwned, OwnedEnv, Clean, handlers, world
    <3> QED BY <2>1, <2>18, <3>1 DEF reprovisionIfStranded, Return, Clean, ledger, handlers, world
  <2>19. CASE Recycle(c)
    <3>1. Clean(c) /\ Clean(c)'
      BY <2>19 DEF Recycle, Clean, WorldOK
    <3> QED BY <2>2, <2>19, <3>1 DEF Recycle, ledger, handlers, WorldOK, PC
  <2> QED BY <1>4, <2>4, <2>5, <2>6, <2>7, <2>8, <2>9, <2>10, <2>11, <2>12, <2>13, <2>14, <2>15, <2>16, <2>17,
             <2>18, <2>19 DEF DispatchStep
<1>5. CASE Bystander
  <2>0. UNCHANGED <<pc, job, rj, failure>> BY <1>5, BystanderKeeps DEF gor
  <2>1. ASSUME UNCHANGED <<env, teardown, running>> PROVE EnvsOwned' BY <1>1, <2>0, <2>1
  <2>2. CASE \E j \in Jobs : StrandedGone(j) BY <2>1, <2>2 DEF StrandedGone, ledger, handlers, world
  <2>3. ASSUME NEW j \in Jobs, NEW name \in Names,
               handleInProgress(j, name) \/ BindRunner(j, name)
        PROVE  EnvsOwned'
    BY <2>1, <2>3 DEF handleInProgress, BindRunner, ledger, handlers, world
  <2>4. ASSUME NEW j \in Jobs, NEW name \in Names, handleCompleted(j, name)
        PROVE  EnvsOwned'
    <3> DEFINE R == CompletedRunner(j, name)
    <3>1. /\ running' = [k \in Jobs |-> IF running[k] \in R THEN NoRunner ELSE running[k]]
          /\ teardown' = [r \in Dispatches |-> IF r \in R THEN "completed" ELSE teardown[r]]
          /\ env' = env
      BY <2>4 DEF handleCompleted, world
    <3> HIDE DEF R
    <3>2. ASSUME NEW d \in Dispatches PROVE OwnedEnv(d)'
      <4>1. teardown[d] # "no" => teardown'[d] # "no"
        BY <3>1
      <4>2. job[d] \in Jobs /\ running[job[d]] = d => running'[job[d]] = d \/ teardown'[d] # "no"
        BY <3>1
      <4> QED BY <2>0, <3>1, <4>1, <4>2, OwnerStays DEF EnvsOwned, Clean, JobKnown
    <3> QED BY <3>2 DEF EnvsOwned
  <2>5. ASSUME NEW c \in Dispatches, TeardownCancel(c) \/ BusyCheck(c)
        PROVE  EnvsOwned'
    BY <2>1, <2>5 DEF TeardownCancel, BusyCheck, ledger, handlers, world
  <2>6. ASSUME NEW c \in Dispatches, TeardownDestroy(c) PROVE EnvsOwned'
    <3>1. /\ \A d \in Dispatches : Clean(d) => Clean(d)'
          /\ Clean(c)' /\ running' = running /\ teardown' = [teardown EXCEPT ![c] = "no"]
      BY <2>6, DestroyedClean DEF TeardownDestroy, ledger
    <3> QED BY <2>0, <3>1, OwnerStays DEF EnvsOwned, HandlersOK
  <2>7. ASSUME NEW c \in Dispatches, Reap(c) PROVE EnvsOwned'
    <3>1. CASE c \in Unbound /\ running[job[c]] = c
      <4>1. /\ running' = [running EXCEPT ![job[c]] = NoRunner]
            /\ teardown' = [teardown EXCEPT ![c] = "reaped"] /\ env' = env
        BY <2>7, <3>1 DEF Reap, Untrack, world
      <4>2. ASSUME NEW d \in Dispatches, running[job[d]] = d, job[d] \in Jobs
            PROVE  running'[job[d]] = d \/ teardown'[d] # "no"
        <5>1. CASE d = c BY <4>1, <5>1 DEF HandlersOK
        <5>2. CASE d # c
          <6>1. job[d] # job[c] BY <3>1, <4>2, <5>2
          <6> QED BY <4>1, <4>2, <6>1 DEF LedgerOK
        <5> QED BY <5>1, <5>2
      <4> QED BY <2>0, <4>1, <4>2, OwnerStays DEF EnvsOwned, Clean, HandlersOK, JobKnown
    <3>2. CASE ~(c \in Unbound /\ running[job[c]] = c)
      BY <2>1, <2>7, <3>2 DEF Reap, world
    <3> QED BY <3>1, <3>2
  <2>8. CASE Nominate BY <2>1, <2>8 DEF Nominate, world
  <2>9. CASE ClockStep
    BY <2>1, <2>9 DEF ClockStep, cleanSeen, SeenExpires, AgeRunner, ledger, handlers, world
  <2>10. CASE PlatformStep
    <3>1. CASE \E d \in Dispatches : RunnerExits(d)
      <4>1. PICK c \in Dispatches : RunnerExits(c) BY <3>1
      <4>2. running' = running /\ teardown' = teardown /\ \A d \in Dispatches : Clean(d) => Clean(d)'
        BY <4>1 DEF RunnerExits, Clean, WorldOK, ledger, handlers
      <4> QED BY <2>0, <4>2, OwnerStays DEF EnvsOwned
    <3>2. CASE ~\E d \in Dispatches : RunnerExits(d)
      BY <2>1, <2>10, <3>2 DEF PlatformStep, Finish, Assign, RunElsewhere,
                      FinishElsewhere, CancelQueued, Poll, Lose, ledger, handlers, world
    <3> QED BY <3>1, <3>2
  <2>11. CASE Cordon \/ Uncordon BY <2>1, <2>11 DEF Cordon, Uncordon, ledger, handlers, world
  <2> QED
    BY <1>5, <2>2, <2>3, <2>4, <2>5, <2>6, <2>7, <2>8, <2>9, <2>10, <2>11 DEF Bystander
<1> QED BY <1>2, <1>3, <1>4, <1>5, NextCases

\* As long as no job has two runners up at a time on a path that destroys what it
\* untracked, a dispatch that has returned leaves nothing behind, whoever
\* untracked its runner first (the wait goroutines, handleCompleted, the sweep).
THEOREM NothingStaysBehind == Spec /\ []OneRunnerPerJob => []NothingLeftBehind
<1>1. Init => EnvsOwned
  BY DEF Init, EnvsOwned, OwnedEnv, Clean, Early
<1>2. EnvsOwned => NothingLeftBehind
  BY DEF EnvsOwned, OwnedEnv, Clean, NothingLeftBehind
<1> QED BY <1>1, <1>2, OwnedStep, Inductive, PTL DEF Spec

\* On the Linux path nothing needs to be supposed: its wait goroutine destroys
\* its own runner whatever it untracked (handleLinuxJob).
THEOREM LinuxLeavesNothing ==
  ASSUME \A j \in Jobs : Path[j] = "linux"
  PROVE  Spec => []NothingLeftBehind
<1>1. IInv => OneRunnerPerJob
  BY DEF IInv, JobKnown, OneRunnerPerJob, PoolOf
<1> QED BY <1>1, NothingStaysBehind, Inductive, PTL

------------------------------------------------------------------------------
(* A bound runner is spared *)

\* What the platform knows: a job runs on one runner, and a completed event that
\* names a runner is about one that will never execute a job again.
ExecRuns == \A d \in Dispatches : exec[d] # NoJob => jobState[exec[d]] = "running"
ExecOnce == \A c, d \in Dispatches : exec[c] = exec[d] /\ exec[d] # NoJob => c = d
OverFor(d) == exec[d] = NoJob /\ pc[d] \notin Early /\ (env[d] = "gone" \/ d \notin registered)
RunnerOver == \A j \in Jobs, d \in Dispatches : <<"completed", j, d>> \in events => OverFor(d)
JobOver == \A j \in Jobs : <<"completed", j, NoRunner>> \in events => jobState[j] = "done"

\* An assignment that was observed was made: the job's queue state and events.
PlatformInv == ExecRuns /\ ExecOnce /\ RunnerOver /\ JobOver

\* Nothing the platform knows changes, and no completed event is new.
LEMMA PlatformAside ==
  ASSUME PlatformInv, UNCHANGED <<exec, jobState>>,
         \A j \in Jobs, n \in Names : <<"completed", j, n>> \in events' => <<"completed", j, n>> \in events,
         \A d \in Dispatches : OverFor(d) => OverFor(d)'
  PROVE  PlatformInv'
BY DEF PlatformInv, ExecRuns, ExecOnce, RunnerOver, JobOver, Names

\* A job that dies with its environment is over, and so is the runner.
LEMMA DestroyedPlatform ==
  ASSUME PlatformInv, TypeOK, NEW V \in SUBSET Dispatches, Destroyed(V), registered' \subseteq registered,
         \A d \in Dispatches : pc[d] \notin Early => pc'[d] \notin Early,
         \A d \in V : pc[d] \notin Early
  PROVE  PlatformInv'
<1> USE NullAssumption DEF TypeOK, WorldOK
<1>1. /\ env' = [d \in Dispatches |-> IF d \in V THEN "gone" ELSE env[d]]
      /\ exec' = [d \in Dispatches |-> IF d \in V THEN NoJob ELSE exec[d]]
      /\ jobState' = [j \in Jobs |-> IF j \in Killed(V) THEN "done" ELSE jobState[j]]
      /\ events' = events \cup {<<"completed", exec[v], v>> : v \in {u \in V : exec[u] # NoJob}}
  BY DEF Destroyed
<1>2. ExecOnce'
  BY <1>1 DEF PlatformInv, ExecOnce
<1>3. ExecRuns'
  <2> SUFFICES ASSUME NEW d \in Dispatches, exec'[d] # NoJob PROVE jobState'[exec'[d]] = "running"
    BY DEF ExecRuns
  <2>1. d \notin V /\ exec'[d] = exec[d] /\ exec[d] \in Jobs
    BY <1>1
  <2>2. exec[d] \notin Killed(V)
    BY <2>1 DEF Killed, PlatformInv, ExecOnce
  <2> QED BY <1>1, <2>1, <2>2 DEF PlatformInv, ExecRuns
<1>4. ASSUME NEW j \in Jobs, NEW n \in Names, <<"completed", j, n>> \in events'
      PROVE  <<"completed", j, n>> \in events \/ n \in V
  BY <1>1, <1>4
<1>5. RunnerOver'
  <2> SUFFICES ASSUME NEW j \in Jobs, NEW d \in Dispatches, <<"completed", j, d>> \in events' PROVE OverFor(d)'
    BY DEF RunnerOver
  <2>1. CASE d \in V
    BY <1>1, <2>1 DEF OverFor
  <2>2. CASE d \notin V
    <3>1. OverFor(d)
      BY <1>4, <2>2 DEF PlatformInv, RunnerOver, Names
    <3> QED BY <1>1, <2>2, <3>1 DEF OverFor
  <2> QED BY <2>1, <2>2
<1>6. JobOver'
  BY <1>1, <1>4 DEF PlatformInv, JobOver, Names
<1> QED BY <1>2, <1>3, <1>5, <1>6 DEF PlatformInv

\* A runner in the ledger, and one a handler or a wait goroutine took over, has
\* been up.
HandledLate ==
  \A d \in Dispatches :
    /\ d \in runners => pc[d] \notin Early
    /\ teardown[d] # "no" => pc[d] \notin Early
    /\ rj[d] # NoRunner => pc[rj[d]] \notin Early

\* An environment that is up belongs to a runner that has been created.
UpIsLate == \A d \in Dispatches : env[d] \in {"alive", "exited"} => pc[d] \notin Early

LEMMA UpStep == IInv /\ UpIsLate /\ [Next]_vars => UpIsLate'
<1> SUFFICES ASSUME IInv, UpIsLate, [Next]_vars PROVE UpIsLate' OBVIOUS
<1> USE NullAssumption DEF IInv, TypeOK, GoroutinesOK, WorldOK
<1>1. ASSUME \A d \in Dispatches : env'[d] \in {"alive", "exited"} => env[d] \in {"alive", "exited"},
             \A d \in Dispatches : pc[d] \notin Early => pc'[d] \notin Early
      PROVE  UpIsLate'
  BY <1>1 DEF UpIsLate
<1>2. ASSUME NEW V, Destroyed(V), NEW d \in Dispatches, env'[d] \in {"alive", "exited"}
      PROVE  env[d] \in {"alive", "exited"}
  BY <1>2 DEF Destroyed
<1>3. CASE UNCHANGED vars BY <1>1, <1>3 DEF vars, gor, world
<1>4. ASSUME NEW j \in Jobs, Requeue(j) PROVE UpIsLate'
  <2>1. env' = env BY <1>4, RequeueShape DEF world
  <2>2. \A d \in Dispatches : pc[d] \notin Early => pc'[d] \notin Early
    BY <1>4, RequeueShape DEF Early
  <2> QED BY <1>1, <2>1, <2>2
<1>5. ASSUME NEW c \in Dispatches, DispatchStep(c) PROVE UpIsLate'
  <2> USE DEF Goto, Return, Fail, world, Early
  <2>1. CASE \/ AcquireSlot(c) \/ AcquireAfterWait(c) \/ SlotBusy(c) \/ SlotGiveUp(c) \/ RefusePool(c)
             \/ AskGone(c) \/ AskWanted(c)
    BY <1>1, <2>1 DEF AcquireSlot, AcquireAfterWait, SlotBusy, SlotGiveUp, RefusePool, AskGone, AskWanted
  <2>2. CASE admitDispatch(c)
    BY <1>1, <2>2 DEF admitDispatch
  <2>3. CASE ClaimGate(c) \/ ClaimOk(c) \/ ClaimFail(c) \/ CreateFail(c)
    BY <1>1, <2>3 DEF ClaimGate, ClaimOk, ClaimFail, CreateFail
  <2>4. CASE CreateOk(c) \/ BootFail(c)
    BY <2>4 DEF CreateOk, BootFail, UpIsLate
  <2>5. CASE Unsee(c) \/ FailRelease(c) \/ enqueueRetryIfEligible(c) \/ trackRunning(c) \/ ReleaseSlot(c)
    BY <1>1, <2>5 DEF Unsee, FailRelease, enqueueRetryIfEligible, trackRunning, ReleaseSlot
  <2>8. CASE WaitReturns(c) \/ reprovisionIfStranded(c)
    BY <1>1, <2>8 DEF WaitReturns, reprovisionIfStranded
  <2>9. CASE JobTimeout(c)
    BY <1>1, <2>9 DEF JobTimeout, gor
  <2>6. CASE StopBooted(c) \/ WaitTeardown(c)
    <3>1. \A d \in Dispatches : pc[d] \notin Early => pc'[d] \notin Early
      BY <2>6 DEF StopBooted, WaitTeardown
    <3> QED BY <1>1, <1>2, <2>6, <3>1 DEF StopBooted, WaitTeardown
  <2>7. CASE Recycle(c)
    BY <2>7 DEF Recycle, UpIsLate
  <2> QED BY <1>5, <2>1, <2>2, <2>3, <2>4, <2>5, <2>6, <2>7, <2>8, <2>9 DEF DispatchStep
<1>6. CASE Bystander
  <2>0. pc' = pc BY <1>6, BystanderKeeps DEF gor
  <2>1. ASSUME UNCHANGED env PROVE UpIsLate' BY <1>1, <2>0, <2>1
  <2>2. CASE \E j \in Jobs : StrandedGone(j) BY <2>1, <2>2 DEF StrandedGone, world
  <2>3. CASE \E j \in Jobs, name \in Names :
               handleInProgress(j, name) \/ BindRunner(j, name) \/ handleCompleted(j, name)
    BY <2>1, <2>3 DEF handleInProgress, BindRunner, handleCompleted, world
  <2>4. CASE \E d \in Dispatches : TeardownCancel(d) \/ BusyCheck(d) \/ Reap(d)
    BY <2>1, <2>4 DEF TeardownCancel, BusyCheck, Reap, world
  <2>5. ASSUME NEW d \in Dispatches, TeardownDestroy(d) PROVE UpIsLate'
    BY <1>1, <1>2, <2>0, <2>5 DEF TeardownDestroy
  <2>6. CASE Nominate BY <2>1, <2>6 DEF Nominate, world
  <2>7. CASE ClockStep BY <2>1, <2>7 DEF ClockStep, cleanSeen, SeenExpires, AgeRunner, world
  <2>8. ASSUME NEW d \in Dispatches, RunnerExits(d) PROVE UpIsLate'
    BY <1>1, <2>0, <2>8 DEF RunnerExits
  <2>9. CASE PlatformStep /\ ~\E d \in Dispatches : RunnerExits(d)
    BY <2>1, <2>9 DEF PlatformStep, Finish, Assign, RunElsewhere,
       FinishElsewhere, CancelQueued, Poll, Lose, world
  <2>10. CASE Cordon \/ Uncordon BY <2>1, <2>10 DEF Cordon, Uncordon, world
  <2> QED BY <1>6, <2>2, <2>3, <2>4, <2>5, <2>6, <2>7, <2>8, <2>9, <2>10 DEF Bystander
<1> QED BY <1>3, <1>4, <1>5, <1>6, NextCases

\* Most steps leave who was taken over, and the names in use, alone.
LEMMA HandledAside ==
  ASSUME HandledLate, IInv,
         \A d \in Dispatches : pc[d] \notin Early => pc'[d] \notin Early,
         runners' \subseteq runners,
         \A d \in Dispatches : rj'[d] \in {rj[d], NoRunner},
         \A d \in Dispatches : teardown'[d] # "no" => teardown[d] # "no"
  PROVE  HandledLate'
BY NullAssumption DEF HandledLate, IInv, TypeOK, GoroutinesOK

\* Every step keeps that.
LEMMA HandledStep == IInv /\ HandledLate /\ [Next]_vars => HandledLate'
<1> SUFFICES ASSUME IInv, HandledLate, [Next]_vars PROVE HandledLate' OBVIOUS
<1> USE NullAssumption DEF IInv, TypeOK, GoroutinesOK
<1>1. ASSUME UNCHANGED <<pc, rj, teardown>>, runners' \subseteq runners PROVE HandledLate'
  BY <1>1 DEF HandledLate
<1>2. CASE UNCHANGED vars BY <1>1, <1>2 DEF vars, gor, handlers, ledger
<1>3. ASSUME NEW j \in Jobs, Requeue(j) PROVE HandledLate'
  <2>1. rj' = rj /\ teardown' = teardown /\ runners' = runners
    BY <1>3, RequeueShape DEF Requeue, DeliverQueued, RetryFires, StrandedRequeue, handlers, ledger
  <2>2. CASE UNCHANGED pc BY <1>1, <2>1, <2>2
  <2>3. CASE \E c \in Dispatches : pc[c] = "free" /\ pc' = [pc EXCEPT ![c] = "slot"]
    BY <2>1, <2>3, HandledAside DEF Early
  <2> QED BY <1>3, <2>2, <2>3, RequeueShape
<1>4. ASSUME NEW c \in Dispatches, DispatchStep(c) PROVE HandledLate'
  <2>1. ASSUME NEW at, pc' = [pc EXCEPT ![c] = at], at \notin Early \/ pc[c] \in Early,
               runners' = runners, teardown' = teardown, rj' = rj \/ rj' = [rj EXCEPT ![c] = NoRunner]
        PROVE  HandledLate'
    BY <2>1, HandledAside
  <2> USE DEF Goto, Return, Fail, handlers, ledger, Early
  <2>2. CASE \/ AcquireSlot(c) \/ AcquireAfterWait(c) \/ SlotBusy(c) \/ SlotGiveUp(c) \/ RefusePool(c)
             \/ AskGone(c) \/ AskWanted(c)
    BY <2>1, <2>2 DEF AcquireSlot, AcquireAfterWait, SlotBusy, SlotGiveUp, RefusePool, AskGone, AskWanted
  <2>3. CASE admitDispatch(c)
    BY <2>1, <2>3 DEF admitDispatch
  <2>4. CASE ClaimGate(c) \/ ClaimOk(c) \/ ClaimFail(c) \/ CreateOk(c) \/ CreateFail(c) \/ BootFail(c)
    BY <2>1, <2>4 DEF ClaimGate, ClaimOk, ClaimFail, CreateOk, CreateFail, BootFail
  <2>5. CASE \/ Unsee(c) \/ FailRelease(c) \/ enqueueRetryIfEligible(c) \/ StopBooted(c) \/ ReleaseSlot(c)
             \/ WaitTeardown(c) \/ reprovisionIfStranded(c)
    BY <2>1, <2>5 DEF Unsee, FailRelease, enqueueRetryIfEligible, StopBooted, ReleaseSlot,
       WaitTeardown, reprovisionIfStranded
  <2>6. CASE JobTimeout(c)
    BY <1>1, <2>6 DEF JobTimeout, gor
  <2>9. CASE trackRunning(c)
    <3>1. /\ pc[c] = "track" /\ pc' = [pc EXCEPT ![c] = "wait"] /\ runners' = runners \cup {c}
          /\ UNCHANGED <<rj, teardown>>
      BY <2>9 DEF trackRunning
    <3> QED BY <3>1 DEF HandledLate
  <2>7. CASE WaitReturns(c)
    <3>1. /\ rj' = [rj EXCEPT ![c] = running[job[c]]] /\ pc' = [pc EXCEPT ![c] = "release"]
          /\ pc[c] = "wait" /\ teardown' = teardown /\ runners' \subseteq runners /\ job[c] \in Jobs
      BY <2>7 DEF WaitReturns, Untrack, Unfile, JobKnown
    <3>2. running[job[c]] # NoRunner => running[job[c]] \in Dispatches /\ pc[running[job[c]]] = "wait"
      BY <3>1 DEF LedgerOK, TrackedWaits
    <3> QED BY <3>1, <3>2 DEF HandledLate
  <2>8. CASE Recycle(c)
    BY <2>8 DEF Recycle, HandledLate
  <2> QED BY <1>4, <2>2, <2>3, <2>4, <2>5, <2>6, <2>7, <2>8, <2>9 DEF DispatchStep
<1>5. CASE Bystander
  <2>0. UNCHANGED <<pc, job, rj>> BY <1>5, BystanderKeeps DEF gor
  <2>1. ASSUME UNCHANGED teardown, runners' \subseteq runners PROVE HandledLate' BY <1>1, <2>0, <2>1
  <2>2. CASE \E j \in Jobs : StrandedGone(j) BY <2>1, <2>2 DEF StrandedGone, handlers, ledger
  <2>3. ASSUME NEW j \in Jobs, NEW name \in Names,
               handleInProgress(j, name) \/ BindRunner(j, name)
        PROVE  HandledLate'
    BY <2>1, <2>3 DEF handleInProgress, BindRunner, handlers, ledger
  <2>4. ASSUME NEW j \in Jobs, NEW name \in Names, handleCompleted(j, name) PROVE HandledLate'
    <3>1. ASSUME NEW d \in CompletedRunner(j, name) PROVE pc[d] \notin Early
      BY <3>1 DEF CompletedRunner, TrackedWaits, HandledLate, Early, LedgerOK
    <3>2. runners' \subseteq runners /\ teardown' = [r \in Dispatches |-> IF r \in CompletedRunner(j, name) THEN "completed" ELSE teardown[r]]
      BY <2>4 DEF handleCompleted, Unfile
    <3> QED BY <2>0, <3>1, <3>2 DEF HandledLate
  <2>5. ASSUME NEW c \in Dispatches, TeardownCancel(c) \/ BusyCheck(c) PROVE HandledLate'
    BY <2>1, <2>5 DEF TeardownCancel, BusyCheck, handlers, ledger
  <2>6. ASSUME NEW c \in Dispatches, TeardownDestroy(c) PROVE HandledLate'
    BY <2>0, <2>6 DEF TeardownDestroy, HandledLate, HandlersOK, ledger
  <2>7. ASSUME NEW c \in Dispatches, Reap(c) PROVE HandledLate'
    <3>1. runners' \subseteq runners
      BY <2>7 DEF Reap, Untrack, Unfile
    <3>2. \/ teardown' = teardown
          \/ c \in runners /\ teardown' = [teardown EXCEPT ![c] = "reaped"]
      BY <2>7 DEF Reap, Unbound
    <3> QED BY <2>0, <3>1, <3>2 DEF HandledLate, HandlersOK
  <2>8. CASE Nominate BY <2>1, <2>8 DEF Nominate, Unfile
  <2>9. CASE ClockStep
    BY <2>1, <2>9 DEF ClockStep, cleanSeen, SeenExpires, AgeRunner, handlers, ledger
  <2>10. CASE PlatformStep
    BY <2>1, <2>10 DEF PlatformStep, Finish, Assign, RunnerExits, RunElsewhere,
       FinishElsewhere, CancelQueued, Poll, Lose, handlers, ledger
  <2>11. CASE Cordon \/ Uncordon BY <2>1, <2>11 DEF Cordon, Uncordon, handlers, ledger
  <2> QED
    BY <1>5, <2>2, <2>3, <2>4, <2>5, <2>6, <2>7, <2>8, <2>9, <2>10, <2>11 DEF Bystander
<1> QED BY <1>2, <1>3, <1>4, <1>5, NextCases

\* Every step keeps what the platform knows.
LEMMA PlatformKeeps == IInv /\ HandledLate /\ UpIsLate /\ PlatformInv /\ [Next]_vars => PlatformInv'
<1> SUFFICES ASSUME IInv, HandledLate, UpIsLate, PlatformInv, [Next]_vars PROVE PlatformInv'
  OBVIOUS
<1> USE NullAssumption DEF IInv, TypeOK
<1>1. ASSUME UNCHANGED <<pc, env, exec, registered, jobState>>,
             \A j \in Jobs, n \in Names : <<"completed", j, n>> \in events' => <<"completed", j, n>> \in events
      PROVE  PlatformInv'
  BY <1>1, PlatformAside DEF OverFor
<1>2. CASE UNCHANGED vars BY <1>1, <1>2 DEF vars, gor, world
<1>3. ASSUME NEW j \in Jobs, Requeue(j) PROVE PlatformInv'
  <2>1. UNCHANGED <<env, exec, registered, jobState>> /\ events' \subseteq events
    BY <1>3, RequeueShape DEF Requeue, DeliverQueued, RetryFires, StrandedRequeue, world
  <2>2. CASE UNCHANGED pc BY <1>1, <2>1, <2>2
  <2>3. CASE \E c \in Dispatches : pc[c] = "free" /\ pc' = [pc EXCEPT ![c] = "slot"]
    <3>1. \A d \in Dispatches : OverFor(d) => OverFor(d)'
      BY <2>1, <2>3 DEF OverFor, Early, GoroutinesOK
    <3> QED BY <2>1, <3>1, PlatformAside
  <2> QED BY <1>3, <2>2, <2>3, RequeueShape
<1>4. ASSUME NEW c \in Dispatches, DispatchStep(c) PROVE PlatformInv'
  <2> USE DEF Goto, GoroutinesOK
  \* A step of the goroutine that leaves the runners alone.
  <2>1. ASSUME NEW at, pc' = [pc EXCEPT ![c] = at], at \notin Early \/ pc[c] \in Early,
               UNCHANGED <<env, exec, jobState, events>>, registered' \subseteq registered
        PROVE  PlatformInv'
    <3>1. \A d \in Dispatches : OverFor(d) => OverFor(d)'
      BY <2>1 DEF OverFor
    <3> QED BY <2>1, <3>1, PlatformAside
  <2> USE DEF Return, Fail, world, Early
  <2>2. CASE \/ AcquireSlot(c) \/ AcquireAfterWait(c) \/ SlotBusy(c) \/ SlotGiveUp(c) \/ RefusePool(c)
             \/ AskGone(c) \/ AskWanted(c)
    BY <2>1, <2>2 DEF AcquireSlot, AcquireAfterWait, SlotBusy, SlotGiveUp, RefusePool, AskGone, AskWanted
  <2>3. CASE admitDispatch(c)
    BY <2>1, <2>3 DEF admitDispatch
  <2>4. CASE ClaimGate(c) \/ ClaimFail(c) \/ CreateFail(c)
    BY <2>1, <2>4 DEF ClaimGate, ClaimFail, CreateFail
  <2>5. CASE ClaimOk(c) \/ CreateOk(c) \/ BootFail(c)
    <3>1. \A d \in Dispatches : OverFor(d) => OverFor(d)'
      BY <2>5 DEF OverFor, ClaimOk, CreateOk, BootFail, WorldOK
    <3>2. UNCHANGED <<exec, jobState, events>>
      BY <2>5 DEF ClaimOk, CreateOk, BootFail
    <3> QED BY <3>1, <3>2, PlatformAside
  <2>6. CASE Unsee(c) \/ FailRelease(c) \/ enqueueRetryIfEligible(c) \/ trackRunning(c) \/ ReleaseSlot(c)
    BY <2>1, <2>6 DEF Unsee, FailRelease, enqueueRetryIfEligible, trackRunning, ReleaseSlot
  <2>7. CASE JobTimeout(c)
    BY <1>1, <2>7 DEF JobTimeout, gor
  <2>8. CASE WaitReturns(c)
    BY <2>1, <2>8 DEF WaitReturns
  <2>9. CASE reprovisionIfStranded(c)
    <3>1. \A d \in Dispatches : OverFor(d) => OverFor(d)'
      BY <2>9 DEF reprovisionIfStranded, OverFor
    <3>2. UNCHANGED <<exec, jobState>> /\ events' \subseteq events \cup {<<"stranded", job[c], NoRunner>>}
      BY <2>9 DEF reprovisionIfStranded
    <3>3. \A j \in Jobs, n \in Names : <<"completed", j, n>> # <<"stranded", job[c], NoRunner>>
      OBVIOUS
    <3> QED BY <3>1, <3>2, <3>3, PlatformAside
  <2>10. CASE StopBooted(c)
    <3>1. Destroyed({c}) /\ registered' \subseteq registered /\ pc[c] = "failed" /\ pc' = [pc EXCEPT ![c] = "done"]
      BY <2>10 DEF StopBooted
    <3> QED BY <3>1, DestroyedPlatform
  <2>11. CASE WaitTeardown(c)
    <3>1. /\ Destroyed(Victims(c)) /\ registered' \subseteq registered
          /\ pc[c] = "destroy" /\ pc' = [pc EXCEPT ![c] = "strand"]
      BY <2>11 DEF WaitTeardown
    <3>2. Victims(c) \in SUBSET Dispatches
      BY <3>1, VictimsTypes
    <3>3. ASSUME NEW d \in Victims(c) PROVE pc[d] \notin Early
      <4>1. d \in {c} \cup ({rj[c]} \ {NoRunner})
        BY <3>3, PathAssumption, <3>1 DEF Victims, PoolOf, JobKnown
      <4> QED BY <3>1, <4>1 DEF HandledLate
    <3> QED BY <3>1, <3>2, <3>3, DestroyedPlatform
  <2>12. CASE Recycle(c)
    <3>1. \A e \in events : e[3] # c
      BY <2>12 DEF Recycle
    <3>2. UNCHANGED <<exec, jobState, events>> /\ registered' \subseteq registered
          /\ env' = [env EXCEPT ![c] = "none"] /\ pc' = [pc EXCEPT ![c] = "free"]
      BY <2>12 DEF Recycle
    <3>3. ASSUME NEW j \in Jobs, NEW d \in Dispatches, <<"completed", j, d>> \in events' PROVE OverFor(d)'
      <4>1. <<"completed", j, d>> \in events /\ d # c
        BY <3>1, <3>2, <3>3
      <4> QED BY <3>2, <4>1 DEF PlatformInv, RunnerOver, OverFor, WorldOK
    <3> QED BY <3>2, <3>3 DEF PlatformInv, ExecRuns, ExecOnce, RunnerOver, JobOver
  <2> QED BY <1>4, <2>2, <2>3, <2>4, <2>5, <2>6, <2>7, <2>8, <2>9, <2>10, <2>11, <2>12 DEF DispatchStep
<1>5. CASE Bystander
  <2>0. UNCHANGED <<pc, job, rj>> BY <1>5, BystanderKeeps DEF gor
  <2>1. ASSUME UNCHANGED <<env, exec, registered, jobState>>, events' \subseteq events PROVE PlatformInv'
    BY <1>1, <2>0, <2>1
  <2>2. CASE \E j \in Jobs : StrandedGone(j) BY <2>1, <2>2 DEF StrandedGone, world
  <2>3. ASSUME NEW j \in Jobs, NEW name \in Names, handleInProgress(j, name) PROVE PlatformInv'
    <3>1. /\ UNCHANGED <<env, exec, registered, jobState>>
          /\ events' \subseteq events \cup {<<"bind", j, name>>}
      BY <2>3 DEF handleInProgress, world
    <3>2. \A k \in Jobs, n \in Names : <<"completed", k, n>> # <<"bind", j, name>>
      OBVIOUS
    <3> QED BY <1>1, <2>0, <3>1, <3>2
  <2>4. ASSUME NEW j \in Jobs, NEW name \in Names, BindRunner(j, name) \/ handleCompleted(j, name)
        PROVE  PlatformInv'
    BY <2>1, <2>4 DEF BindRunner, handleCompleted, world
  <2>5. ASSUME NEW c \in Dispatches, TeardownCancel(c) \/ BusyCheck(c) \/ Reap(c) PROVE PlatformInv'
    BY <2>1, <2>5 DEF TeardownCancel, BusyCheck, Reap, world
  <2>6. ASSUME NEW c \in Dispatches, TeardownDestroy(c) PROVE PlatformInv'
    <3>1. Destroyed({c}) /\ registered' \subseteq registered /\ pc[c] \notin Early
      BY <2>6 DEF TeardownDestroy, HandledLate
    <3> QED BY <2>0, <3>1, DestroyedPlatform
  <2>7. CASE Nominate BY <2>1, <2>7 DEF Nominate, world
  <2>8. CASE ClockStep
    BY <2>1, <2>8 DEF ClockStep, cleanSeen, SeenExpires, AgeRunner, world
  <2>9. CASE PlatformStep
    <3>1. ASSUME NEW c \in Dispatches, Finish(c) PROVE PlatformInv'
      <4>1. /\ exec[c] \in Jobs /\ exec' = [exec EXCEPT ![c] = NoJob]
            /\ jobState' = [jobState EXCEPT ![exec[c]] = "done"]
            /\ registered' = registered \ {c} /\ env' = env /\ env[c] = "alive"
            /\ events' = events \cup {<<"completed", exec[c], c>>}
        BY <3>1 DEF Finish, Report, WorldOK
      <4>2. ExecRuns' /\ ExecOnce'
        BY <4>1 DEF PlatformInv, ExecRuns, ExecOnce, WorldOK
      <4>3. JobOver'
        BY <4>1 DEF PlatformInv, JobOver, WorldOK
      <4>4. pc[c] \notin Early
        BY <4>1 DEF UpIsLate
      <4>5. RunnerOver'
        BY <2>0, <4>1, <4>4 DEF PlatformInv, RunnerOver, OverFor, WorldOK
      <4> QED BY <4>2, <4>3, <4>5 DEF PlatformInv
    <3>2. ASSUME NEW c \in Dispatches, RunnerExits(c) PROVE PlatformInv'
      <4>1. UNCHANGED <<exec, registered, jobState, events>> /\ env[c] = "alive"
            /\ env' = [env EXCEPT ![c] = "exited"]
        BY <3>2 DEF RunnerExits
      <4>2. \A d \in Dispatches : OverFor(d) => OverFor(d)'
        BY <2>0, <4>1 DEF OverFor, WorldOK
      <4> QED BY <4>1, <4>2, PlatformAside
    <3>3. ASSUME NEW c \in Dispatches, NEW j \in Jobs, Assign(c, j) PROVE PlatformInv'
      <4>1. /\ c \in registered /\ env[c] = "alive" /\ exec[c] = NoJob /\ jobState[j] = "queued"
            /\ exec' = [exec EXCEPT ![c] = j] /\ jobState' = [jobState EXCEPT ![j] = "running"]
            /\ UNCHANGED <<env, registered>> /\ events' = events \cup {<<"in_progress", j, c>>}
        BY <3>3 DEF Assign, Report
      <4>2. ExecRuns' /\ ExecOnce'
        BY <4>1 DEF PlatformInv, ExecRuns, ExecOnce, WorldOK
      <4>3. \A k \in Jobs, n \in Names : <<"completed", k, n>> \in events' => <<"completed", k, n>> \in events
        BY <4>1
      <4>4. JobOver'
        BY <4>1, <4>3 DEF PlatformInv, JobOver, WorldOK, Names
      <4>5. RunnerOver'
        BY <2>0, <4>1, <4>3 DEF PlatformInv, RunnerOver, OverFor, WorldOK, Names
      <4> QED BY <4>2, <4>4, <4>5 DEF PlatformInv
    <3>4. ASSUME NEW j \in Jobs, RunElsewhere(j) \/ FinishElsewhere(j) \/ CancelQueued(j) PROVE PlatformInv'
      <4>1. /\ UNCHANGED <<env, exec, registered>> /\ \A d \in Dispatches : exec[d] # j
            /\ \/ jobState[j] = "queued" /\ jobState' = [jobState EXCEPT ![j] = "running"]
               \/ jobState' = [jobState EXCEPT ![j] = "done"]
            /\ \A k \in Jobs, n \in Names : <<"completed", k, n>> \in events' =>
                 \/ <<"completed", k, n>> \in events
                 \/ n \notin Dispatches /\ k = j /\ jobState' = [jobState EXCEPT ![j] = "done"]
        <5>1. \A d \in Dispatches : jobState[j] = "queued" => exec[d] # j
          BY DEF PlatformInv, ExecRuns, WorldOK
        <5>2. CASE RunElsewhere(j)
          BY <5>1, <5>2 DEF RunElsewhere, Report
        <5>3. CASE FinishElsewhere(j)
          BY <5>3 DEF FinishElsewhere, Report
        <5>4. CASE CancelQueued(j)
          BY <5>1, <5>4 DEF CancelQueued, Report
        <5> QED BY <3>4, <5>2, <5>3, <5>4
      <4>2. ExecRuns' /\ ExecOnce'
        BY <4>1 DEF PlatformInv, ExecRuns, ExecOnce, WorldOK
      <4>3. JobOver'
        BY <4>1 DEF PlatformInv, JobOver, WorldOK, Names
      <4>4. RunnerOver'
        BY <2>0, <4>1 DEF PlatformInv, RunnerOver, OverFor, Names
      <4> QED BY <4>2, <4>3, <4>4 DEF PlatformInv
    <3>5. ASSUME NEW j \in Jobs, Poll(j) PROVE PlatformInv'
      BY <1>1, <2>0, <3>5 DEF Poll, Report, world
    <3>6. ASSUME NEW e \in events, Lose(e) PROVE PlatformInv'
      BY <2>1, <3>6 DEF Lose, world
    <3> QED BY <2>9, <3>1, <3>2, <3>3, <3>4, <3>5, <3>6 DEF PlatformStep
  <2>10. CASE Cordon \/ Uncordon BY <2>1, <2>10 DEF Cordon, Uncordon, world
  <2> QED
    BY <1>5, <2>2, <2>3, <2>4, <2>5, <2>6, <2>7, <2>8, <2>9, <2>10 DEF Bystander
<1> QED BY <1>2, <1>3, <1>4, <1>5, NextCases

\* A runner observed on a job keeps it: neither another job's completed event nor
\* the sweep hands it to a teardown while it executes that job.
THEOREM BoundRunnersSpared == Spec => BoundRunnerSpared
<1> DEFINE Inv == IInv /\ HandledLate /\ UpIsLate /\ PlatformInv
<1> DEFINE Bound(d) == env[d] = "alive" /\ exec[d] # NoJob /\ d \in runners /\ boundTo[d] = exec[d]
<1> DEFINE Spared == \A d \in Dispatches : Bound(d) => (teardown'[d] # "no" => teardown[d] # "no")
<1>1. Init => HandledLate /\ UpIsLate /\ PlatformInv
  BY NullAssumption DEF Init, HandledLate, UpIsLate, PlatformInv, ExecRuns, ExecOnce, RunnerOver, JobOver
<1>2. Inv /\ [Next]_vars => HandledLate' /\ UpIsLate' /\ PlatformInv'
  BY HandledStep, UpStep, PlatformKeeps
<1>3. ASSUME Inv, Next PROVE Spared
  <2> SUFFICES ASSUME NEW d \in Dispatches, Bound(d), teardown[d] = "no", teardown'[d] # "no" PROVE FALSE
    OBVIOUS
  <2> USE <1>3, NullAssumption DEF IInv, TypeOK, HandlersOK
  <2>1. ASSUME NEW j \in Jobs, NEW name \in Names, handleCompleted(j, name) PROVE FALSE
    <3>1. d \in CompletedRunner(j, name) /\ <<"completed", j, name>> \in events
      BY <2>1 DEF handleCompleted
    <3>2. CASE name # NoRunner
      <4>1. name = d
        BY <3>1, <3>2 DEF CompletedRunner
      <4> QED BY <3>1, <4>1 DEF PlatformInv, RunnerOver, OverFor
    <3>3. CASE name = NoRunner
      <4>1. exec[d] = j
        BY <3>1, <3>3 DEF CompletedRunner
      <4>2. jobState[j] = "running"
        BY <4>1 DEF PlatformInv, ExecRuns
      <4> QED BY <3>1, <3>3, <4>2 DEF PlatformInv, JobOver
    <3> QED BY <3>2, <3>3
  <2>2. ASSUME NEW c \in Dispatches, Reap(c) PROVE FALSE
    <3>1. c = d /\ c \in Unbound
      BY <2>2 DEF Reap
    <3> QED BY <3>1 DEF Unbound
  <2>3. ASSUME \A c \in Dispatches : teardown'[c] \in {teardown[c], "no"} PROVE FALSE
    BY <2>3
  <2>4. ASSUME NEW j \in Jobs, Requeue(j) PROVE FALSE
    BY <2>3, <2>4, RequeueShape DEF handlers
  <2>5. ASSUME NEW c \in Dispatches, DispatchStep(c) PROVE FALSE
    <3>1. teardown' = teardown
      BY <2>5 DEF DispatchStep, AcquireSlot, AcquireAfterWait, SlotBusy, SlotGiveUp, RefusePool,
         admitDispatch, AskGone, AskWanted, ClaimGate, ClaimOk, ClaimFail, CreateOk, CreateFail, BootFail,
         Unsee, FailRelease, enqueueRetryIfEligible, StopBooted, trackRunning, JobTimeout, WaitReturns,
         ReleaseSlot, WaitTeardown, reprovisionIfStranded, Recycle, handlers
    <3> QED BY <3>1
  <2>6. CASE Bystander
    <3>1. CASE \E j \in Jobs : StrandedGone(j) BY <2>3, <3>1 DEF StrandedGone, handlers
    <3>2. CASE \E j \in Jobs, name \in Names : handleInProgress(j, name) \/ BindRunner(j, name)
      BY <2>3, <3>2 DEF handleInProgress, BindRunner, handlers
    <3>3. CASE \E c \in Dispatches : TeardownCancel(c) \/ TeardownDestroy(c) \/ BusyCheck(c)
      BY <2>3, <3>3 DEF TeardownCancel, TeardownDestroy, BusyCheck, handlers
    <3>4. CASE Nominate BY <2>3, <3>4 DEF Nominate
    <3>5. CASE ClockStep
      BY <2>3, <3>5 DEF ClockStep, cleanSeen, SeenExpires, AgeRunner, handlers
    <3>6. CASE PlatformStep
      BY <2>3, <3>6 DEF PlatformStep, Finish, Assign, RunnerExits, RunElsewhere,
         FinishElsewhere, CancelQueued, Poll, Lose, handlers
    <3>7. CASE Cordon \/ Uncordon BY <2>3, <3>7 DEF Cordon, Uncordon, handlers
    <3> QED BY <2>1, <2>2, <2>6, <3>1, <3>2, <3>3, <3>4, <3>5, <3>6, <3>7 DEF Bystander
  <2> QED BY <1>3, <2>4, <2>5, <2>6, NextCases
<1>4. Inv /\ [Next]_vars =>
        \A d \in Dispatches :
          (/\ env[d] = "alive" /\ exec[d] # NoJob
           /\ d \in runners /\ boundTo[d] = exec[d])
            => (teardown'[d] # "no" => teardown[d] # "no")
  BY <1>3 DEF vars, handlers
<1> QED BY <1>1, <1>2, <1>4, Inductive, PTL DEF Spec, BoundRunnerSpared

------------------------------------------------------------------------------
(* A stamped job has one dispatch *)

\* A dispatch keeps its job stamped until it unsees it or returns.
Stamped == PC \ {"free", "fail", "failed", "done"}

\* While the stamps do not expire and nothing is retried, a job that is being
\* provisioned or run is stamped, and by one dispatch only.
StampsHold ==
  /\ retry = {}
  /\ \A d \in Dispatches : pc[d] \in Stamped => seen[job[d]] = "fresh"
  /\ \A c, d \in Dispatches : pc[c] \in Stamped /\ pc[d] \in Stamped /\ job[c] = job[d] => c = d

\* What a step may do to a dispatch and its stamp: go on with the stamp, or
\* give it up and leave the others alone.
LEMMA StampGivenUp ==
  ASSUME StampsHold, JobKnown, TypeOK, NEW d \in Dispatches, NEW to \in PC, pc[d] # "free",
         pc' = [pc EXCEPT ![d] = to], UNCHANGED <<job, retry>>,
         \/ UNCHANGED seen /\ (to \in Stamped => pc[d] \in Stamped)
         \/ to \notin Stamped /\ pc[d] \in Stamped /\ seen' \in {seen, [seen EXCEPT ![job[d]] = "none"]}
  PROVE  StampsHold'
<1> USE DEF TypeOK, GoroutinesOK, MapsOK, JobKnown
<1>1. \A c \in Dispatches : pc'[c] = IF c = d THEN to ELSE pc[c]
  OBVIOUS
<1>2. \A c \in Dispatches : pc'[c] \in Stamped => pc[c] \in Stamped
  BY <1>1
<1>3. \A c, e \in Dispatches : pc'[c] \in Stamped /\ pc'[e] \in Stamped /\ job'[c] = job'[e] => c = e
  BY <1>2 DEF StampsHold
<1>4. ASSUME NEW c \in Dispatches, pc'[c] \in Stamped PROVE seen'[job'[c]] = "fresh"
  <2>1. seen[job[c]] = "fresh" /\ job[c] \in Jobs /\ pc[c] \in Stamped
    BY <1>2, <1>4 DEF StampsHold, Stamped
  <2>2. CASE UNCHANGED seen
    BY <2>1, <2>2
  <2>3. CASE to \notin Stamped /\ pc[d] \in Stamped /\ seen' = [seen EXCEPT ![job[d]] = "none"]
    <3>1. c # d
      BY <1>1, <1>4, <2>3
    <3>2. job[c] # job[d]
      BY <2>1, <2>3, <3>1 DEF StampsHold
    <3> QED BY <2>1, <2>3, <3>2
  <2> QED BY <2>2, <2>3
<1> QED BY <1>3, <1>4 DEF StampsHold

LEMMA StampsStep ==
  ASSUME "stamps expire" \notin Moves, ~RetryEnabled, IInv, StampsHold, [Next]_vars
  PROVE  StampsHold'
<1> USE DEF IInv
<1>1. CASE UNCHANGED vars
  BY <1>1 DEF vars, maps, gor, StampsHold
<1>2. CASE Bystander
  <2>1. UNCHANGED <<pc, job>>
    BY <1>2, BystanderKeeps DEF gor
  <2>2. UNCHANGED seen /\ retry' \subseteq retry
    <3>1. CASE \E j \in Jobs : StrandedGone(j) BY <3>1 DEF StrandedGone
    <3>2. CASE \E j \in Jobs, name \in Names :
                 handleInProgress(j, name) \/ BindRunner(j, name) \/ handleCompleted(j, name)
      BY <3>2 DEF handleInProgress, BindRunner, handleCompleted, Satisfied, maps
    <3>3. CASE \E d \in Dispatches : TeardownCancel(d) \/ TeardownDestroy(d) \/ BusyCheck(d) \/ Reap(d)
      BY <3>3 DEF TeardownCancel, TeardownDestroy, BusyCheck, Reap, maps
    <3>4. CASE Nominate BY <3>4 DEF Nominate, maps
    <3>5. CASE ClockStep BY <3>5 DEF ClockStep, cleanSeen, SeenExpires, AgeRunner, maps
    <3>6. CASE PlatformStep
      BY <3>6 DEF PlatformStep, Finish, RunnerExits, Assign, RunElsewhere, FinishElsewhere, CancelQueued, Poll, Lose, maps
    <3>7. CASE Cordon \/ Uncordon BY <3>7 DEF Cordon, Uncordon
    <3> QED BY <1>2, <3>1, <3>2, <3>3, <3>4, <3>5, <3>6, <3>7 DEF Bystander
  <2> QED BY <2>1, <2>2 DEF StampsHold
<1>3. ASSUME NEW j \in Jobs, Requeue(j) PROVE StampsHold'
  <2>1. handleQueued(j, pending, seen, FALSE) /\ UNCHANGED retry
    BY <1>3 DEF Requeue, DeliverQueued, RetryFires, StrandedRequeue, StampsHold
  <2>2. CASE UNCHANGED <<pc, job, seen>>
    BY <2>1, <2>2 DEF StampsHold
  <2>3. ASSUME seen[j] # "fresh", UNCHANGED <<pc, job>>, NEW s, seen' = [seen EXCEPT ![j] = s] PROVE StampsHold'
    <3>1. \A d \in Dispatches : pc[d] \in Stamped => job[d] # j
      BY <2>3 DEF StampsHold
    <3>2. \A k \in Jobs : k # j => seen'[k] = seen[k]
      BY <2>3 DEF TypeOK, MapsOK
    <3>3. \A d \in Dispatches : pc[d] \in Stamped => job[d] \in Jobs
      BY DEF JobKnown, Stamped
    <3> QED BY <2>1, <2>3, <3>1, <3>2, <3>3 DEF StampsHold
  <2>4. ASSUME seen[j] # "fresh", seen' = [seen EXCEPT ![j] = "fresh"],
               NEW d \in Dispatches, Goto(d, "free", "slot"), job' = [job EXCEPT ![d] = j]
        PROVE  StampsHold'
    <3>1. /\ \A c \in Dispatches : pc'[c] = IF c = d THEN "slot" ELSE pc[c]
          /\ \A c \in Dispatches : job'[c] = IF c = d THEN j ELSE job[c]
          /\ seen'[j] = "fresh" /\ \A k \in Jobs : k # j => seen'[k] = seen[k]
      BY <2>4 DEF Goto, TypeOK, GoroutinesOK, MapsOK
    <3>2. \A c \in Dispatches : pc[c] \in Stamped => job[c] # j /\ job[c] \in Jobs
      BY <2>4 DEF StampsHold, JobKnown, Stamped
    <3> QED BY <2>1, <3>1, <3>2 DEF StampsHold
  <2> QED BY <2>1, <2>2, <2>3, <2>4
      DEF handleQueued, IgnoreDuplicate, DeferMacOS, RefuseCordoned, SkipZombie, StartDispatch, Duplicate
<1>4. ASSUME NEW d \in Dispatches, DispatchStep(d) PROVE StampsHold'
  <2> USE DEF Goto, Return, Fail, maps
  <2>1. CASE AcquireSlot(d) \/ SlotBusy(d) \/ AcquireAfterWait(d) \/ RefusePool(d) \/ admitDispatch(d) \/ AskGone(d)
    BY <2>1, StampGivenUp DEF AcquireSlot, SlotBusy, AcquireAfterWait, RefusePool, admitDispatch, AskGone, Stamped, PC
  <2>2. CASE AskWanted(d) \/ ClaimGate(d) \/ ClaimOk(d) \/ ClaimFail(d) \/ CreateOk(d) \/ CreateFail(d) \/ BootFail(d)
    BY <2>2, StampGivenUp
       DEF AskWanted, ClaimGate, ClaimOk, ClaimFail, CreateOk, CreateFail, BootFail, Stamped, PC
  <2>3. CASE SlotGiveUp(d) \/ Unsee(d) \/ reprovisionIfStranded(d)
    BY <2>3, StampGivenUp DEF SlotGiveUp, Unsee, reprovisionIfStranded, Unstamp, Stamped, PC
  <2>4. CASE enqueueRetryIfEligible(d) \/ FailRelease(d) \/ StopBooted(d)
    BY <2>4, StampGivenUp DEF enqueueRetryIfEligible, FailRelease, StopBooted, Stamped, PC
  <2>5. CASE trackRunning(d) \/ WaitReturns(d) \/ ReleaseSlot(d) \/ WaitTeardown(d)
    BY <2>5, StampGivenUp DEF trackRunning, WaitReturns, ReleaseSlot, WaitTeardown, Stamped, PC
  <2>6. CASE JobTimeout(d)
    BY <2>6 DEF JobTimeout, gor, StampsHold
  <2>7. CASE Recycle(d)
    <3>1. /\ \A c \in Dispatches : pc'[c] = IF c = d THEN "free" ELSE pc[c]
          /\ \A c \in Dispatches : c # d => job'[c] = job[c]
          /\ UNCHANGED <<seen, retry>>
      BY <2>7 DEF Recycle, TypeOK, GoroutinesOK
    <3>2. \A c \in Dispatches : pc'[c] \in Stamped => c # d /\ pc[c] \in Stamped /\ job'[c] = job[c]
      BY <3>1 DEF Stamped
    <3> QED BY <3>1, <3>2 DEF StampsHold
  <2> QED BY <1>4, <2>1, <2>2, <2>3, <2>4, <2>5, <2>6, <2>7 DEF DispatchStep
<1> QED BY <1>1, <1>2, <1>3, <1>4, NextCases

\* The hypothesis of NothingStaysBehind holds on every path where failed
\* attempts are not retried and no dispatch outlasts its job's stamp: then a
\* dispatch that has returned leaves nothing behind, with nothing to suppose.
THEOREM StampedLeavesNothing ==
  ASSUME "stamps expire" \notin Moves, ~RetryEnabled
  PROVE  Spec => []NothingLeftBehind
<1>1. ASSUME Init PROVE StampsHold
  <2>1. retry = {} /\ \A d \in Dispatches : pc[d] = "free"
    BY <1>1 DEF Init
  <2> QED BY <2>1 DEF StampsHold, Stamped
<1>2. IInv /\ StampsHold /\ [Next]_vars => StampsHold'
  BY StampsStep
<1>3. StampsHold => OneRunnerPerJob
  BY DEF StampsHold, Stamped, PC, OneRunnerPerJob
<1> QED BY <1>1, <1>2, <1>3, Inductive, NothingStaysBehind, PTL DEF Spec

==============================================================================
